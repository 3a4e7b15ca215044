------------------------------ MODULE Watcher ------------------------------
(***************************************************************************)
(* The watcher of library folders.  Directories change; the kernel queues  *)
(* an event for each change of a directory it was asked to watch.  One     *)
(* goroutine turns events into signals, watches directories as they        *)
(* appear, and drops a signal rather than wait for a full channel.  One    *)
(* loop debounces signals into passes and makes a round over every folder  *)
(* once in a while.  Request handlers add, remove and scan folders.  A     *)
(* pass reads the directories one after another and commits what it saw.   *)
(* The walks that add watches and the passes are taken step by step, so    *)
(* that every change falls between any two of them.                        *)
(***************************************************************************)
EXTENDS Integers, Sequences, FiniteSets

CONSTANTS
  FolderIds,       \* rows of the folders table; their identifiers are not used again
  Dirs,          \* the directories below any root
  Root,          \* the root of each folder
  Parent,        \* the directory that holds another one; a root is its own
  Handlers,      \* request goroutines
  None,
  Cap,           \* capacity of the channel of signals
  MaxChanges,    \* bound: changes of one directory
  MaxFailures,   \* bound: passes that fail
  MaxRestarts    \* bound: restarts of the server

WatcherAssumption ==
  /\ Root \in [FolderIds -> Dirs] /\ Parent \in [Dirs -> Dirs]
  /\ \A f \in FolderIds : Parent[Root[f]] = Root[f]
  /\ Cap \in Nat \ {0} /\ MaxChanges \in Nat \ {0} /\ MaxFailures \in Nat /\ MaxRestarts \in Nat
  /\ {"loop", "forward", "command"} \cap Handlers = {}
  /\ None \notin FolderIds \cup Dirs \cup Handlers \cup {"loop", "forward"}

VARIABLES
  happens,           \* what happens in this behaviour, besides changes of files
  exists, version,   \* the directories there are, and how often each changed
  kernel, queue,     \* directories the kernel watches, and its events
  folders, born,        \* folders there are, and were ever
  shown,           \* the version of each directory the catalog shows in full
  watched,           \* Watcher.watched
  watchedDirs,       \* Watcher.watchedDirs
  events,            \* the channel of signals
  pending,           \* signals the loop is debouncing
  due, round,        \* folders left in this tick, in this round
  ctl,               \* what each goroutine is doing
  mutex,             \* the holder of reconcileMu
  warned,            \* folders said to be on the periodic pass only
  failures, restarts

disk == <<exists, version>>
tables == <<folders, born, shown>>
maps == <<watched, watchedDirs, warned>>
signals == <<events, pending, due, round>>
course == <<happens, failures, restarts>>

(* Folders are created, deleted and scanned on request, or scanned from    *)
(* the command line; deleted directories come back.                        *)
Happenings == {"create", "delete", "scan", "command", "recreate"}
watcherVars == <<disk, kernel, queue, tables, maps, signals, ctl, mutex, course>>

Actors == {"loop", "forward", "command"} \cup Handlers
Below(d) == {c \in Dirs \ {d} : Parent[c] = d}
Under(e) == {d \in Dirs : e \in {d, Parent[d], Parent[Parent[d]]}}
Tree(f) == Under(Root[f])
Append1(q, e) == IF q # <<>> /\ q[Len(q)] = e THEN q ELSE Append(q, e)

Idle == [at |-> "idle", folder |-> None, visit |-> {}, list |-> {}, noting |-> None,
         covered |-> FALSE, passes |-> 0, seen |-> <<>>]

Booting ==
  /\ watched = {} /\ watchedDirs = [d \in Dirs |-> None] /\ warned = {}
  /\ kernel = {} /\ queue = <<>> /\ events = <<>> /\ pending = {} /\ due = {}
  /\ ctl = [a \in Actors |-> IF a = "forward" THEN [Idle EXCEPT !.at = "off"] ELSE Idle]
  /\ mutex = None

WatcherInit ==
  /\ happens \in SUBSET Happenings
  /\ exists \in {E \in SUBSET Dirs : \A d \in E : Parent[d] \in E}
  /\ version = [d \in Dirs |-> IF d \in exists THEN 1 ELSE 0]
  /\ folders \in SUBSET FolderIds /\ born = folders
  /\ \A f, g \in folders : Root[f] = Root[g] => f = g
  /\ shown = [f \in FolderIds |-> [d \in Dirs |-> 0]]
  /\ Booting /\ round = folders /\ failures = 0 /\ restarts = 0

(***************************************************************************)
(* The disk and the kernel.  A watch goes with its directory; a file's     *)
(* event lies in a directory, a directory's own events name the directory. *)
(***************************************************************************)
Tell(kind, d, watchers) ==
  queue' = IF kernel \cap watchers = {} THEN queue ELSE Append1(queue, [dir |-> d, kind |-> kind])

Change(d) ==
  /\ d \in exists /\ version[d] < MaxChanges
  /\ version' = [version EXCEPT ![d] = @ + 1]
  /\ Tell("file", d, {d})
  /\ UNCHANGED <<exists, kernel>>

MakeDir(d) ==
  /\ d \notin exists /\ Parent[d] \in exists \cup {d}
  /\ version[d] < MaxChanges /\ (version[d] = 0 \/ "recreate" \in happens)
  /\ exists' = exists \cup {d} /\ version' = [version EXCEPT ![d] = @ + 1]
  /\ Tell("create", d, {Parent[d]} \ {d})
  /\ UNCHANGED kernel

RemoveDir(d) ==
  /\ d \in exists /\ Below(d) \cap exists = {} /\ version[d] < MaxChanges
  /\ exists' = exists \ {d} /\ version' = [version EXCEPT ![d] = @ + 1]
  /\ kernel' = kernel \ {d}
  /\ Tell("remove", d, {d, Parent[d]})

Disk ==
  /\ \E d \in Dirs : Change(d) \/ MakeDir(d) \/ RemoveDir(d)
  /\ UNCHANGED <<tables, maps, signals, ctl, mutex, course>>

(***************************************************************************)
(* watchTree, one directory at a time: ask the kernel, note the owner,     *)
(* then list what lies below.                                              *)
(***************************************************************************)
Stands(a, stage) == ctl[a].at = stage
Goes(a, c) == ctl' = [ctl EXCEPT ![a] = c]
Walking(f, n) == [Idle EXCEPT !.at = "walk", !.folder = f, !.visit = {Root[f]}, !.passes = n]
Visited(a, d) == [ctl[a] EXCEPT !.visit = @ \ {d}]

Visit(a, d) ==
  /\ Stands(a, "walk") /\ d \in ctl[a].visit
  /\ \/ d \notin exists /\ Goes(a, Visited(a, d)) /\ UNCHANGED kernel
     \/ /\ d \in exists /\ watchedDirs[d] # None
        /\ Goes(a, [Visited(a, d) EXCEPT !.list = @ \cup {d},
                                         !.covered = @ \/ watchedDirs[d] = ctl[a].folder])
        /\ UNCHANGED kernel
     \/ /\ d \in exists /\ watchedDirs[d] = None
        /\ Goes(a, [Visited(a, d) EXCEPT !.at = "note", !.noting = d])
        /\ kernel' = kernel \cup {d}
  /\ UNCHANGED <<watchedDirs, warned>>

NoteOwner(a) ==
  /\ Stands(a, "note")
  /\ watchedDirs' = [watchedDirs EXCEPT ![ctl[a].noting] = ctl[a].folder]
  /\ Goes(a, [ctl[a] EXCEPT !.at = "walk", !.noting = None, !.covered = TRUE,
                            !.list = @ \cup {ctl[a].noting}])
  /\ UNCHANGED <<kernel, warned>>

List(a, d) ==
  /\ Stands(a, "walk") /\ d \in ctl[a].list
  /\ Goes(a, [ctl[a] EXCEPT !.list = @ \ {d}, !.visit = @ \cup (Below(d) \cap exists)])
  /\ UNCHANGED <<kernel, watchedDirs, warned>>

Waits(a, c) ==
  Goes(a, IF a = "forward" THEN [Idle EXCEPT !.at = "send", !.folder = c.folder]
          ELSE IF c.passes = 0 THEN Idle
          ELSE [Idle EXCEPT !.at = "wait", !.folder = c.folder, !.passes = c.passes])

WalkEnds(a) ==
  /\ Stands(a, "walk") /\ ctl[a].visit = {} /\ ctl[a].list = {}
  /\ warned' = IF ctl[a].covered THEN warned \ {ctl[a].folder} ELSE warned \cup {ctl[a].folder}
  /\ Waits(a, ctl[a])
  /\ UNCHANGED <<kernel, watchedDirs>>

WatchTree(a) ==
  /\ WalkEnds(a) \/ NoteOwner(a) \/ \E d \in Dirs : Visit(a, d) \/ List(a, d)
  /\ UNCHANGED <<disk, queue, tables, watched, signals, mutex, course>>

(***************************************************************************)
(* A pass, under reconcileMu, reads a directory and then those it listed   *)
(* in it, before it commits.  What it no longer finds makes it incomplete; *)
(* a root that it does not find makes it fail.                             *)
(***************************************************************************)
Locks(a) == a # "command"

Lock(a) ==
  /\ Stands(a, "wait") /\ (Locks(a) => mutex = None)
  /\ mutex' = IF Locks(a) THEN a ELSE mutex
  /\ Goes(a, [Walking(ctl[a].folder, ctl[a].passes) EXCEPT !.at = "pass"])
  /\ UNCHANGED <<disk, kernel, queue, tables, maps, signals, course>>

(* What a listing shows not to be there is known with it.                  *)
NotThere(d) == UNION {Under(c) : c \in Below(d) \ exists}
Learnt(a, d) ==
  [e \in DOMAIN ctl[a].seen \cup {d} \cup NotThere(d) |->
     IF e \in DOMAIN ctl[a].seen THEN ctl[a].seen[e] ELSE version[e]]

Read(a, d) ==
  /\ Stands(a, "pass") /\ d \in ctl[a].visit
  /\ \/ /\ d \in exists
        /\ Goes(a, [Visited(a, d) EXCEPT !.visit = @ \cup (Below(d) \cap exists), !.list = @ \cup {d},
                                         !.seen = Learnt(a, d)])
     \/ /\ d \notin exists /\ d # Root[ctl[a].folder]
        /\ Goes(a, Visited(a, d))
  /\ UNCHANGED <<disk, kernel, queue, tables, maps, signals, mutex, course>>

PassEnds(a) ==
  /\ mutex' = IF Locks(a) THEN None ELSE mutex
  /\ Waits(a, [ctl[a] EXCEPT !.passes = @ - 1])
  /\ UNCHANGED <<disk, kernel, queue, folders, born, maps, signals, happens, restarts>>

(* ErrRootUnavailable: nothing is written.                                 *)
RootGone(a) ==
  /\ Stands(a, "pass") /\ Root[ctl[a].folder] \in ctl[a].visit \ exists
  /\ PassEnds(a) /\ UNCHANGED <<shown, failures>>

(* What a pass makes of the catalog: all of the tree, or, when it is       *)
(* incomplete, no more than the directories it read, and of those only     *)
(* what was added: all there is to show if nothing went.                   *)
Outcomes(a, f) == LET saw == ctl[a].seen IN
  IF Tree(f) \subseteq DOMAIN saw
  THEN {[d \in Dirs |-> IF d \in Tree(f) THEN saw[d] ELSE 0]}
  ELSE {[d \in Dirs |-> IF d \in S THEN saw[d] ELSE shown[f][d]] : S \in SUBSET ctl[a].list}

(* Faulty: the rows of a folder that is gone are written all the same.     *)
CommitBlindly(a) == LET f == ctl[a].folder IN
  /\ Stands(a, "pass") /\ ctl[a].visit = {}
  /\ \E w \in Outcomes(a, f) : shown' = [shown EXCEPT ![f] = w]
  /\ PassEnds(a) /\ UNCHANGED failures
Commit(a) == LET f == ctl[a].folder IN
  /\ Stands(a, "pass") /\ ctl[a].visit = {}
  /\ IF f \in folders THEN \E w \in Outcomes(a, f) : shown' = [shown EXCEPT ![f] = w]
     ELSE shown' = shown
  /\ PassEnds(a) /\ UNCHANGED failures

Fail(a) ==
  /\ Stands(a, "pass") /\ failures < MaxFailures /\ failures' = failures + 1
  /\ PassEnds(a) /\ UNCHANGED shown

Reconcile(a) == Lock(a) \/ RootGone(a) \/ Commit(a) \/ Fail(a) \/ \E d \in Dirs : Read(a, d)

(* Add: register, walk, and reconcile unless the folder was registered.    *)
Add(a, f, n) ==
  /\ watched' = watched \cup {f}
  /\ Goes(a, Walking(f, IF f \in watched THEN n ELSE n + 1))
  /\ UNCHANGED <<watchedDirs, warned>>

(***************************************************************************)
(* Run: the folders at startup, then signals, ticks and rounds.            *)
(***************************************************************************)
LoopIdle == Stands("loop", "idle")
Selecting == LoopIdle /\ due = {} /\ round = {} /\ ~Stands("forward", "off")

TakeRound(f) ==
  /\ LoopIdle /\ f \in round /\ round' = round \ {f}
  /\ Add("loop", f, IF Stands("forward", "off") THEN 0 ELSE 1)
  /\ UNCHANGED <<events, pending, due>>

Started ==
  /\ LoopIdle /\ round = {} /\ Stands("forward", "off") /\ Goes("forward", Idle)
  /\ UNCHANGED <<maps, signals>>

Receive ==
  /\ Selecting /\ events # <<>>
  /\ events' = Tail(events) /\ pending' = pending \cup {Head(events)}
  /\ UNCHANGED <<maps, due, round, ctl>>

Tick ==
  /\ Selecting /\ due' \in SUBSET pending \ {{}}
  /\ UNCHANGED <<maps, events, pending, round, ctl>>

ReconcileOne(f) ==
  /\ LoopIdle /\ f \in due /\ due' = due \ {f} /\ pending' = pending \ {f}
  /\ Goes("loop", IF f \in watched THEN [Idle EXCEPT !.at = "wait", !.folder = f, !.passes = 1]
                  ELSE Idle)
  /\ UNCHANGED <<maps, events, round>>

(* Faulty: the round is over the folders the watcher remembers.            *)
SafetyRemembered ==
  /\ Selecting /\ round' = {f \in watched : \E d \in kernel : watchedDirs[d] = f}
  /\ UNCHANGED <<maps, events, pending, due, ctl>>
Safety ==
  /\ Selecting /\ round' = folders
  /\ UNCHANGED <<maps, events, pending, due, ctl>>

Loop ==
  \/ /\ Started \/ Receive \/ Tick \/ Safety \/ \E f \in FolderIds : TakeRound(f) \/ ReconcileOne(f)
     /\ UNCHANGED <<disk, kernel, queue, tables, mutex, course>>
  \/ WatchTree("loop") \/ Reconcile("loop")

(***************************************************************************)
(* forwardEvents.                                                          *)
(***************************************************************************)
OwnerOf(e) ==
  IF e.kind = "file" \/ watchedDirs[e.dir] # None THEN watchedDirs[e.dir]
  ELSE watchedDirs[Parent[e.dir]]

TakeEvent == LET e == Head(queue)  f == OwnerOf(e) IN
  /\ Stands("forward", "idle") /\ queue # <<>> /\ queue' = Tail(queue)
  /\ Goes("forward",
       IF f = None THEN Idle
       ELSE IF e.kind = "create" /\ e.dir \in exists /\ f \in watched THEN Walking(f, 0)
       ELSE [Idle EXCEPT !.at = "send", !.folder = f])
  /\ UNCHANGED events

(* Faulty: no signal while a pass runs.                                    *)
SendUnlessRunning == LET f == ctl["forward"].folder IN
  /\ Stands("forward", "send") /\ Goes("forward", Idle)
  /\ events' = IF Len(events) < Cap /\ ~Stands("loop", "pass") THEN Append(events, f) ELSE events
  /\ UNCHANGED queue
Send ==
  /\ Stands("forward", "send") /\ Goes("forward", Idle)
  /\ events' = IF Len(events) < Cap THEN Append(events, ctl["forward"].folder) ELSE events
  /\ UNCHANGED queue

ForwardEvents ==
  \/ /\ TakeEvent \/ Send
     /\ UNCHANGED <<disk, kernel, tables, maps, pending, due, round, mutex, course>>
  \/ WatchTree("forward")

(***************************************************************************)
(* Requests, the command line, and a restart.                              *)
(***************************************************************************)
CreateFolder(h, f) ==
  /\ "create" \in happens /\ Stands(h, "idle") /\ f \notin born
  /\ \A g \in folders : Root[g] # Root[f]
  /\ folders' = folders \cup {f} /\ born' = born \cup {f}
  /\ Goes(h, [Idle EXCEPT !.at = "add", !.folder = f])
  /\ UNCHANGED <<kernel, shown, maps>>

AddFolder(h) ==
  /\ Stands(h, "add") /\ Add(h, ctl[h].folder, 0)
  /\ UNCHANGED <<kernel, tables>>

DeleteFolderRow(h, f) ==
  /\ "delete" \in happens /\ Stands(h, "idle") /\ f \in folders
  /\ folders' = folders \ {f} /\ shown' = [shown EXCEPT ![f] = [d \in Dirs |-> 0]]
  /\ Goes(h, [Idle EXCEPT !.at = "remove", !.folder = f])
  /\ UNCHANGED <<kernel, born, maps>>

RemoveFolder(h) == LET f == ctl[h].folder IN
  /\ Stands(h, "remove")
  /\ watched' = watched \ {f}
  /\ watchedDirs' = [d \in Dirs |-> IF watchedDirs[d] = f THEN None ELSE watchedDirs[d]]
  /\ Goes(h, IF f \in watched
             THEN [Idle EXCEPT !.at = "unwatch", !.visit = {d \in Dirs : watchedDirs[d] = f}]
             ELSE Idle)
  /\ UNCHANGED <<kernel, tables, warned>>

Unwatch(h) ==
  /\ Stands(h, "unwatch") /\ kernel' = kernel \ ctl[h].visit /\ Goes(h, Idle)
  /\ UNCHANGED <<tables, maps>>

ScanFolder(h, f) ==
  /\ Stands(h, "idle") /\ f \in folders
  /\ (IF h = "command" THEN "command" ELSE "scan") \in happens
  /\ Goes(h, [Idle EXCEPT !.at = "wait", !.folder = f, !.passes = 1])
  /\ UNCHANGED <<kernel, tables, maps>>

Serves(h) ==
  \/ /\ AddFolder(h) \/ RemoveFolder(h) \/ Unwatch(h)
     /\ UNCHANGED <<disk, queue, signals, mutex, course>>
  \/ WatchTree(h) \/ Reconcile(h)

Asked(h) ==
  /\ \E f \in FolderIds : ScanFolder(h, f) \/ (h # "command" /\ (CreateFolder(h, f) \/ DeleteFolderRow(h, f)))
  /\ UNCHANGED <<disk, queue, signals, mutex, course>>

Restart ==
  /\ restarts < MaxRestarts /\ restarts' = restarts + 1
  /\ kernel' = {} /\ queue' = <<>> /\ events' = <<>> /\ pending' = {} /\ due' = {} /\ round' = folders
  /\ watched' = {} /\ watchedDirs' = [d \in Dirs |-> None] /\ warned' = {} /\ mutex' = None
  /\ ctl' = [a \in Actors |-> CASE a = "command" -> ctl[a]
                                [] a = "forward" -> [Idle EXCEPT !.at = "off"]
                                [] OTHER -> Idle]
  /\ UNCHANGED <<disk, tables, happens, failures>>

WatcherNext ==
  \/ Disk \/ Loop \/ ForwardEvents \/ Restart
  \/ \E h \in Handlers \cup {"command"} : Serves(h) \/ Asked(h)

WatcherSpec == WatcherInit /\ [][WatcherNext]_watcherVars

(* Goroutines are scheduled; the two timers of the loop fire; a mutex is   *)
(* handed to whoever waits for it.  Nobody need change or ask anything.    *)
FairWatcher ==
  /\ WatcherSpec /\ WF_watcherVars(Loop) /\ SF_watcherVars(Lock("loop"))
  /\ \A h \in Handlers \cup {"command"} : WF_watcherVars(Serves(h)) /\ SF_watcherVars(Lock(h))

(***************************************************************************)
(* Properties.                                                             *)
(***************************************************************************)
Controls == [at : {"idle", "off", "walk", "note", "send", "wait", "pass", "add", "remove", "unwatch"},
             folder : FolderIds \cup {None}, visit : SUBSET Dirs, list : SUBSET Dirs,
             noting : Dirs \cup {None}, covered : BOOLEAN, passes : 0 .. 2,
             seen : UNION {[D -> 0 .. MaxChanges] : D \in SUBSET Dirs}]

(* The state of the watcher, and that reconcileMu is held exactly by a     *)
(* pass of the server (watch.go:367-369).                                  *)
WatcherTypeOK ==
  /\ exists \subseteq Dirs /\ version \in [Dirs -> 0 .. MaxChanges] /\ kernel \subseteq exists
  /\ folders \subseteq born /\ born \subseteq FolderIds
  /\ shown \in [FolderIds -> [Dirs -> 0 .. MaxChanges]]
  /\ watched \subseteq born /\ watchedDirs \in [Dirs -> FolderIds \cup {None}]
  /\ Len(events) <= Cap /\ due \subseteq pending
  /\ ctl \in [Actors -> Controls]
  /\ \A a \in Actors \ {"command"} : mutex = a <=> Stands(a, "pass")

Pending(f) == \E i \in 1 .. Len(events) : events[i] = f

(* A pass over f is on its way: some signal of it exists, or somebody is   *)
(* bound to run it.                                                        *)
Underway(f) ==
  \/ Pending(f) \/ f \in pending \cup round
  \/ \E i \in 1 .. Len(queue) : OwnerOf(queue[i]) = f
  \/ \E a \in Actors :
       ctl[a].folder = f /\ ctl[a].at \in {"walk", "note", "send", "wait"}
                         /\ (a = "forward" \/ ctl[a].passes > 0)

(* One folder, which is at most scanned on request, and no pass failed:    *)
(* a signal that is dropped is then one of several.                        *)
Undisturbed == happens \subseteq {"scan"} /\ failures = 0 /\ \A f, g \in born : f = g

(* A pass that will have seen all of the tree, with d as it is now, unless *)
(* something goes from before it.                                          *)
ToRead(a) == UNION {Under(e) : e \in ctl[a].visit}
WillShow(a, f, d) ==
  /\ Stands(a, "pass") /\ ctl[a].folder = f
  /\ Tree(f) \subseteq DOMAIN ctl[a].seen \cup ToRead(a)
  /\ d \in DOMAIN ctl[a].seen => ctl[a].seen[d] = version[d]

(* A change of a folder that is there and not on the periodic pass is in   *)
(* the catalog, in a pass that has read it, or has a pass on its way,      *)
(* wherever it fell in a walk, a pass or the handling of another event     *)
(* (watch.go:272-309).                                                     *)
NoLostChange ==
  Undisturbed => \A f \in watched \cap folders : \A d \in Tree(f) :
    \/ f \in warned \/ Root[f] \notin exists
    \/ shown[f][d] = version[d] \/ Underway(f)
    \/ \E a \in Actors : WillShow(a, f, d)

(* Nothing of a removed folder comes back into the catalog, whatever pass  *)
(* was reading it when its row was deleted (adminfolders.go:283-293).      *)
RemovedStaysEmpty == \A f \in FolderIds \ folders : shown[f] = [d \in Dirs |-> 0]

(* "Dropping one when a pass is already pending costs nothing"             *)
(* (watch.go:298-300): what is dropped is the signal of a folder that has  *)
(* another.                                                                *)
DroppedOnlyWhenPending ==
  [][(Stands("forward", "send") /\ ctl'["forward"].at = "idle" /\ events' = events)
       => (Pending(ctl["forward"].folder) \/ ctl["forward"].folder \in pending)]_watcherVars

Quiet == queue = <<>> /\ \A a \in Actors : Stands(a, "idle")

(* "A directory created under a watched root gets its own watch"           *)
(* (watch.go:268-271).                                                     *)
NewDirectoryIsWatched ==
  Quiet => \A f \in watched : \A d \in Tree(f) \cap exists : Parent[d] \in kernel => d \in kernel

(* "A folder is on the periodic pass only when no directory of its own is  *)
(* watched, and then the warning names the failure" (watch.go:198-200).    *)
UnwatchedIsWarned ==
  Quiet => \A f \in watched \cap folders :
    (Root[f] \in exists /\ Tree(f) \cap kernel = {}) => f \in warned
=============================================================================
