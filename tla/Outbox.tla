------------------------------- MODULE Outbox -------------------------------
(***************************************************************************)
(* The browser's durable queue: offline-storage.js keeps it, and           *)
(* offline-sync.js sends it, one request at a time, under a lock that the  *)
(* open pages of the account take in turns.  All pages are one device.     *)
(*                                                                         *)
(* A page may close, and a request fail, at any point; what is in the      *)
(* store stays, and a request of a closed page may still arrive.  Every    *)
(* transaction of the store and every request is an action.  Sittings and  *)
(* the reading state kept beside the queue are left out.                   *)
(***************************************************************************)
EXTENDS Naturals, Sequences

CONSTANTS
  Pages,        \* tabs of one browser
  Books, Notes, \* books whose pages are turned, annotations of other books
  Sizes,        \* {FALSE}, or BOOLEAN: a change may be too large to accept
  MaxChanges,   \* page turns and mutations queued
  MaxFaults,    \* closed pages, failed requests and refusals to retry
  MaxOthers,    \* writes of other devices, works they fill or delete
  None

(* A change in the outbox, and what the server has of an annotation.       *)
Records == [rev : Nat, by : Nat, dead : BOOLEAN]
Rows == [kind : {"page", "write", "erase"}, of : Books \cup Notes, base : Nat, big : BOOLEAN,
         state : {"pending", "failed", "conflict"}, attempted : BOOLEAN, server : Records \cup {None}]

OutboxAssumption ==
  /\ MaxChanges \in Nat /\ MaxFaults \in Nat /\ MaxOthers \in Nat
  /\ Sizes \subseteq BOOLEAN /\ None \notin Pages \cup Rows

VARIABLES
  rows,     \* the outbox: change -> its record; later changes have higher numbers
  next,     \* the number of the next change
  copy,     \* annotation -> the local copy: the change it is of, its revision
  page,     \* page -> where its drain is
  lock,     \* the page that holds the queue's lock
  stray,    \* requests of closed pages that may still arrive
  restoring, \* annotations whose change was discarded, being read again
  log,      \* the positions of this device that the server accepted, in order
  held,     \* annotation -> the server's record
  gone,     \* what the server no longer has the work of, nor anything in it
  full,     \* annotations whose work takes no more of them
  faults, others,
  cut       \* history: pages sent again without their locator

store == <<rows, next, copy>>
air == <<stray, restoring>>
server == <<log, held>>
works == <<gone, full>>
bounds == <<faults, others>>
outboxVars == <<store, page, lock, air, server, works, bounds, cut>>

Changes == 1..MaxChanges
At == {"closed", "open", "draining", "sent", "told", "fetched", "resolving"}
Idle(at) == [at |-> at, todo |-> {}, blocked |-> {}, sending |-> 0, row |-> None, told |-> None, seen |-> None]

OutboxInit ==
  /\ rows = [c \in Changes |-> None] /\ next = 1
  /\ copy = [n \in Notes |-> None]
  /\ page = [p \in Pages |-> Idle("closed")] /\ lock = None /\ stray = {} /\ restoring = {}
  /\ log = <<>> /\ held = [n \in Notes |-> None] /\ gone = {} /\ full \in SUBSET Notes
  /\ faults = 0 /\ others = 0 /\ cut = {}

Is(c, kinds) == rows[c] # None /\ rows[c].kind \in kinds
Of(n) == {c \in Changes : Is(c, {"write", "erase"}) /\ rows[c].of = n}
Pending(c) == rows[c] # None /\ rows[c].state = "pending"
Without(C) == [c \in Changes |-> IF c \in C THEN None ELSE rows[c]]
Row(kind, of, base, big) ==
  [kind |-> kind, of |-> of, base |-> base, big |-> big,
   state |-> "pending", attempted |-> FALSE, server |-> None]

-----------------------------------------------------------------------------
(* The reader, in whatever page is open.                                   *)

Reading == \E p \in Pages : page[p].at # "closed"

(* saveReadingPosition: a newer page retires the refused ones before it.   *)
TurnPage(b, big) ==
  LET refused == {c \in Changes : Is(c, {"page"}) /\ rows[c].of = b /\ ~Pending(c)}
  IN /\ Reading /\ next \in Changes
     /\ rows' = [Without(refused) EXCEPT ![next] = Row("page", b, 0, big)]
     /\ next' = next + 1
     /\ UNCHANGED <<copy, page, lock, air, server, works, bounds, cut>>

(* queueOfflineAnnotation: the mutations of this annotation that were not  *)
(* sent, or were answered, give way; a deletion of what the server was     *)
(* never told needs no record.                                             *)
Queued(n, kind, base, big) ==
  LET kept == {c \in Of(n) : rows[c].attempted /\ Pending(c)}
      bare == Without(Of(n) \ kept)
      needed == kind = "write" \/ base > 0 \/ kept # {}
  IN /\ rows' = IF needed THEN [bare EXCEPT ![next] = Row(kind, n, base, big)] ELSE bare
     /\ copy' = [copy EXCEPT ![n] = [intent |-> next, rev |-> base, dead |-> kind = "erase", big |-> big]]
     /\ next' = next + 1

(* A new annotation has an id of its own.                                  *)
Create(n, big) ==
  /\ Reading /\ next \in Changes
  /\ copy[n] = None /\ held[n] = None /\ Of(n) = {}
  /\ (\A q \in stray : q.row.of # n) /\ (\A q \in restoring : q.of # n)
  /\ Queued(n, "write", 0, big)
  /\ UNCHANGED <<page, lock, air, server, works, bounds, cut>>

(* The revision is the one the page shows, which may not have read the     *)
(* store since.  An erased annotation keeps its text until that is known.  *)
Mutate(n, kind, rev, big) ==
  /\ Reading /\ next \in Changes
  /\ copy[n] # None /\ ~copy[n].dead /\ rev \in {0, copy[n].rev}
  /\ kind = "erase" => big = copy[n].big
  /\ Queued(n, kind, rev, big)
  /\ UNCHANGED <<page, lock, air, server, works, bounds, cut>>

-----------------------------------------------------------------------------
(* The server, as a drain meets it: one request, one answer.               *)

(* Positions: a known op_id is a duplicate.                                *)
Taken(c, b) == \E i \in DOMAIN log : log[i] = [change |-> c, of |-> b]
PageAnswer(c, row) ==
  CASE row.of \in gone -> "failed"
    [] row.of \notin gone /\ row.big -> "too large"
    [] row.of \notin gone /\ ~row.big /\ Taken(c, row.of) -> "duplicate"
    [] OTHER -> "applied"

(* PushAnnotations and DeleteAnnotation (see module Annotations): what is  *)
(* too large is never taken; what would be a live record more is refused   *)
(* by a work that is gone or full.                                         *)
Stored(c, row) ==
  LET r == held[row.of] IN r # None /\ r.rev \in {row.base + 1, 1} /\ ~r.dead /\ r.by = c
Stale(row) == held[row.of] # None /\ held[row.of].rev # row.base
NoMore(n) == n \in gone \cup full /\ (held[n] # None => held[n].dead)
NoteAnswer(c, row) ==
  LET n == row.of
  IN IF row.kind = "erase"
     THEN IF held[n] = None \/ (held[n] # None /\ held[n].dead) THEN "duplicate"
          ELSE IF Stale(row) THEN "conflict" ELSE "applied"
     ELSE IF row.big THEN "failed"
          ELSE IF Stored(c, row) THEN "duplicate"
          ELSE IF Stale(row) THEN "conflict"
          ELSE IF NoMore(n) THEN "failed" ELSE "applied"

AnswerTo(c, row) == IF row.kind = "page" THEN PageAnswer(c, row) ELSE NoteAnswer(c, row)

(* What a request makes of the server.                                     *)
Done(c, row) ==
  LET applied == AnswerTo(c, row) = "applied"
  IN /\ log' = IF applied /\ row.kind = "page" THEN Append(log, [change |-> c, of |-> row.of]) ELSE log
     /\ held' = IF applied /\ row.kind # "page"
                THEN [held EXCEPT ![row.of] =
                        [rev |-> IF @ = None THEN 1 ELSE row.base + 1, by |-> c, dead |-> row.kind = "erase"]]
                ELSE held

Arrives(q) ==
  /\ q \in stray /\ stray' = stray \ {q}
  /\ Done(q.change, q.row)
  /\ UNCHANGED <<store, page, lock, restoring, works, bounds, cut>>

(* Another device, through the server.                                     *)
OtherWrites(n, dead) ==
  /\ others < MaxOthers /\ others' = others + 1
  /\ held[n] # None
  /\ dead => ~held[n].dead
  /\ held' = [held EXCEPT ![n] = [rev |-> @.rev + 1, by |-> 0, dead |-> dead]]
  /\ UNCHANGED <<store, page, lock, air, log, works, faults, cut>>

(* A work is deleted, with all that is in it.                              *)
OtherDeletes(w) ==
  /\ others < MaxOthers /\ others' = others + 1
  /\ w \notin gone /\ gone' = gone \cup {w}
  /\ held' = [n \in Notes |-> IF n = w THEN None ELSE held[n]]
  /\ UNCHANGED <<store, page, lock, air, log, full, faults, cut>>

(* The work of an annotation comes to its cap, or below it.                *)
OtherFills(n) ==
  /\ others < MaxOthers /\ others' = others + 1
  /\ full' = IF n \in full THEN full \ {n} ELSE full \cup {n}
  /\ UNCHANGED <<store, page, lock, air, server, gone, faults, cut>>

-----------------------------------------------------------------------------
(* A page drains: syncCoordinator's run, under the lock.                   *)

Goes(p, what) == page' = [page EXCEPT ![p] = what]

(* Faulty: what the server could not take now holds nothing back           *)
BlockNothing(p) == page[p].blocked

(* A position the server could not take now holds its book's later ones    *)
(* back.                                                                   *)
Block(p) ==
  IF page[p].row.kind = "page" THEN page[p].blocked \cup {page[p].row.of} ELSE page[p].blocked

(* listOfflineOutbox.                                                      *)
Begin(p) ==
  /\ page[p].at = "open" /\ lock = None
  /\ lock' = p
  /\ Goes(p, [page[p] EXCEPT !.at = "draining",
              !.todo = {c \in Changes : Pending(c)}])
  /\ UNCHANGED <<store, air, server, works, bounds, cut>>

(* Faulty: a mutation waits for any other                                  *)
SendableAlone(p, c) ==
  /\ Pending(c)
  /\ Is(c, {"page"}) => rows[c].of \notin page[p].blocked
  /\ Is(c, {"write", "erase"}) => Of(rows[c].of) = {c}

(* attemptOfflineRecord: a mutation waits for the one sent before it.      *)
Sendable(p, c) ==
  /\ Pending(c)
  /\ Is(c, {"page"}) => rows[c].of \notin page[p].blocked
  /\ Is(c, {"write", "erase"}) => \A d \in Of(rows[c].of) \ {c} : ~rows[d].attempted

(* One record after the other, by createdAt.                               *)
Attempt(p) ==
  \E c \in page[p].todo : LET rest == page[p].todo \ {c}
  IN /\ page[p].at = "draining" /\ \A d \in rest : c < d
     /\ IF Sendable(p, c)
        THEN /\ rows' = [rows EXCEPT ![c].attempted = TRUE]
             /\ Goes(p, [page[p] EXCEPT !.at = "sent", !.todo = rest, !.sending = c, !.row = rows'[c]])
        ELSE rows' = rows /\ Goes(p, [page[p] EXCEPT !.todo = rest])
     /\ UNCHANGED <<next, copy, lock, air, server, works, bounds, cut>>

Serve(p) ==
  /\ page[p].at = "sent"
  /\ LET c == page[p].sending row == page[p].row
     IN Done(c, row) /\ Goes(p, [page[p] EXCEPT !.at = "told", !.told = AnswerTo(c, row),
                                 !.seen = IF row.kind = "page" THEN None ELSE held'[row.of]])
  /\ UNCHANGED <<store, lock, air, works, bounds, cut>>

(* 429 or 5xx: the record stays pending.                                   *)
NotNow(p) ==
  /\ page[p].at = "sent" /\ faults < MaxFaults /\ faults' = faults + 1
  /\ Goes(p, [page[p] EXCEPT !.at = "draining", !.blocked = Block(p)])
  /\ UNCHANGED <<store, lock, air, server, works, others, cut>>

(* acknowledgeOfflineAnnotation: what was queued meanwhile is rebased.     *)
Acknowledged(c, n, rev, dead) ==
  /\ rows' = [d \in Changes |->
       IF d = c THEN None
       ELSE IF d \in Of(n) /\ ~rows[d].attempted /\ copy[n] # None /\ copy[n].intent # c
            THEN [rows[d] EXCEPT !.base = rev] ELSE rows[d]]
  /\ copy' = [copy EXCEPT ![n] =
       IF @ = None THEN None
       ELSE [@ EXCEPT !.rev = rev, !.dead = IF copy[n].intent = c THEN dead ELSE @]]

(* The answer comes back and is written down.  A position whose locator is *)
(* too large is made bare, and its book's later ones go on.                *)
Heed(p) ==
  LET c == page[p].sending row == page[p].row told == page[p].told r == page[p].seen
      mark == [rows EXCEPT ![c].state = told, ![c].server = r]
  IN /\ page[p].at = "told"
     /\ Goes(p, [page[p] EXCEPT !.at = "draining"])
     /\ IF rows[c] = None THEN UNCHANGED store
        ELSE CASE told \in {"applied", "duplicate"} /\ row.kind = "page" ->
                    rows' = Without({c}) /\ UNCHANGED <<next, copy>>
               [] told \in {"applied", "duplicate"} /\ row.kind # "page" ->
                    /\ Acknowledged(c, row.of, IF r = None THEN row.base + 1 ELSE r.rev, row.kind = "erase")
                    /\ next' = next
               [] told = "too large" ->
                    /\ rows' = [rows EXCEPT ![c].big = FALSE, ![c].attempted = FALSE]
                    /\ UNCHANGED <<next, copy>>
               [] OTHER -> rows' = mark /\ UNCHANGED <<next, copy>>
     /\ cut' = IF told = "too large" /\ rows[c] # None THEN cut \cup {c} ELSE cut
     /\ UNCHANGED <<lock, air, server, works, bounds>>

(* The list is done: reconcileOfflineBook asks for the annotations.        *)
Fetch(p) ==
  /\ page[p].at = "draining" /\ page[p].todo = {}
  /\ Goes(p, [page[p] EXCEPT !.at = "fetched", !.seen = held])
  /\ UNCHANGED <<store, lock, air, server, works, bounds, cut>>

Live(r) == r # None /\ ~r.dead
Clean(r) == [intent |-> 0, rev |-> r.rev, dead |-> FALSE, big |-> FALSE]

(* What was not queued is as the server said, tombstones left out.         *)
Reconcile(p) ==
  /\ page[p].at = "fetched"
  /\ copy' = [n \in Notes |->
       IF Of(n) # {} THEN copy[n]
       ELSE LET r == page[p].seen[n]
            IN IF Live(r) THEN Clean(r) ELSE None]
  /\ Goes(p, [page[p] EXCEPT !.at = "resolving", !.seen = None])
  /\ UNCHANGED <<rows, next, lock, air, server, works, bounds, cut>>

(* handleAnnotationConflict, keeping the local version: a mutation anew.   *)
KeepMine(p, c) ==
  /\ page[p].at = "resolving" /\ Is(c, {"write", "erase"}) /\ rows[c].state = "conflict"
  /\ copy[rows[c].of] # None /\ next \in Changes
  /\ LET n == rows[c].of
     IN \E big \in BOOLEAN :
          /\ copy[n].big = big
          /\ Queued(n, IF copy[n].dead THEN "erase" ELSE "write", rows[c].server.rev, big)
  /\ UNCHANGED <<page, lock, air, server, works, bounds, cut>>

(* Taking the server's version: the record goes, and, in a transaction of  *)
(* its own, the copy becomes the server's, or a tombstone's records go.    *)
TakeTheirs(p, c) ==
  /\ page[p].at = "resolving" /\ Is(c, {"write", "erase"}) /\ rows[c].state = "conflict"
  /\ copy[rows[c].of] # None
  /\ LET n == rows[c].of r == rows[c].server
     IN /\ rows' = Without(IF r.dead THEN Of(n) ELSE {c})
        /\ copy' = IF r.dead THEN copy ELSE [copy EXCEPT ![n] = Clean(r)]
  /\ UNCHANGED <<next, page, lock, air, server, works, bounds, cut>>

Conflicts == {c \in Changes : Is(c, {"write", "erase"}) /\ rows[c].state = "conflict"}

(* The pass ends when the reader has answered what it could show.          *)
EndPass(p) ==
  /\ page[p].at = "resolving"
  /\ \A c \in Conflicts : copy[rows[c].of] = None
  /\ lock' = None /\ Goes(p, Idle("open"))
  /\ UNCHANGED <<store, air, server, works, bounds, cut>>

(* A request fails without an answer, which ends the pass; it may still    *)
(* arrive.                                                                 *)
Throw(p) ==
  /\ page[p].at \in {"sent", "told", "fetched"} /\ faults < MaxFaults /\ faults' = faults + 1
  /\ lock' = None /\ Goes(p, Idle("open"))
  /\ stray' \in {stray} \cup
       (IF page[p].at = "sent" THEN {stray \cup {[change |-> page[p].sending, row |-> page[p].row]}} ELSE {})
  /\ UNCHANGED <<store, restoring, server, works, others, cut>>

OpenPage(p) ==
  /\ page[p].at = "closed" /\ Goes(p, Idle("open"))
  /\ UNCHANGED <<store, lock, air, server, works, bounds, cut>>

(* Closed or crashed anywhere: the lock is released with the page.         *)
ClosePage(p) ==
  /\ page[p].at # "closed" /\ faults < MaxFaults /\ faults' = faults + 1
  /\ lock' = IF lock = p THEN None ELSE lock
  /\ Goes(p, Idle("closed"))
  /\ stray' \in {stray} \cup
       (IF page[p].at = "sent" THEN {stray \cup {[change |-> page[p].sending, row |-> page[p].row]}} ELSE {})
  /\ restoring' = {q \in restoring : q.by # p}
  /\ UNCHANGED <<store, server, works, others, cut>>

(* The stuck panel, under the lock: a change that was refused is sent      *)
(* anew, or is given up.                                                   *)
Refused(c) == rows[c] # None /\ rows[c].state = "failed"

Retry(c) ==
  /\ Reading /\ lock = None
  /\ Refused(c) /\ faults < MaxFaults /\ faults' = faults + 1
  /\ rows' = [rows EXCEPT ![c].state = "pending", ![c].attempted = FALSE, ![c].server = None]
  /\ UNCHANGED <<next, copy, page, lock, air, server, works, others, cut>>

(* removeOfflineOutbox, nothing settled: a copy that is of this very       *)
(* change goes with it, or stays unsaved and is read again.                *)
Discard(p, c) ==
  LET n == rows[c].of
      owned == rows[c].kind # "page" /\ copy[n] # None /\ copy[n].intent = c
  IN /\ page[p].at # "closed" /\ lock = None /\ Refused(c)
     /\ rows' = Without({c})
     /\ copy' = IF ~owned THEN copy
                ELSE [copy EXCEPT ![n] = IF @.rev = 0 THEN None ELSE [@ EXCEPT !.intent = 0, !.dead = FALSE]]
     /\ restoring' = IF owned THEN restoring \cup {[by |-> p, of |-> n, asked |-> FALSE, seen |-> None]}
                     ELSE restoring
     /\ UNCHANGED <<next, page, lock, stray, server, works, bounds, cut>>

(* restoreDiscardedAnnotations: what has a change again is left to it.     *)
Reread(q) ==
  /\ ~q.asked
  /\ restoring' = (restoring \ {q}) \cup
       (IF Of(q.of) = {} THEN {[q EXCEPT !.asked = TRUE, !.seen = held[q.of]]} ELSE {})
  /\ UNCHANGED <<store, page, lock, stray, server, works, bounds, cut>>

(* restoreOfflineAnnotation.                                               *)
Restore(q) ==
  /\ q.asked /\ restoring' = restoring \ {q}
  /\ copy' = IF Of(q.of) = {} /\ (copy[q.of] # None => copy[q.of].intent = 0)
             THEN [copy EXCEPT ![q.of] = IF Live(q.seen) THEN Clean(q.seen) ELSE None]
             ELSE copy
  /\ UNCHANGED <<rows, next, page, lock, stray, server, works, bounds, cut>>

PassStep(p) ==
  \/ Attempt(p) \/ Serve(p) \/ Heed(p) \/ Fetch(p) \/ Reconcile(p) \/ EndPass(p)
  \/ \E c \in Changes : KeepMine(p, c) \/ TakeTheirs(p, c)

OutboxNext ==
  \/ \E b \in Books, big \in Sizes : TurnPage(b, big)
  \/ \E n \in Notes, big \in Sizes : Create(n, big)
  \/ \E n \in Notes, kind \in {"write", "erase"}, rev \in 0..MaxChanges, big \in Sizes : Mutate(n, kind, rev, big)
  \/ \E q \in stray : Arrives(q)
  \/ \E n \in Notes, dead \in BOOLEAN : OtherWrites(n, dead)
  \/ \E w \in Books \cup Notes : OtherDeletes(w)
  \/ \E n \in Notes : OtherFills(n)
  \/ \E p \in Pages : Begin(p)
  \/ \E p \in Pages : PassStep(p)
  \/ \E p \in Pages : NotNow(p) \/ Throw(p)
  \/ \E p \in Pages : OpenPage(p) \/ ClosePage(p)
  \/ \E c \in Changes : Retry(c) \/ \E p \in Pages : Discard(p, c)
  \/ \E q \in restoring : Reread(q) \/ Restore(q)

(* A page is opened again, an open one drains while something is owed (the *)
(* retry ladder of syncCoordinator), and the reader answers what is asked. *)
OutboxSpec ==
  /\ OutboxInit /\ [][OutboxNext]_outboxVars
  /\ \A p \in Pages : WF_outboxVars(OpenPage(p)) /\ SF_outboxVars(Begin(p)) /\ WF_outboxVars(PassStep(p))

-----------------------------------------------------------------------------
(* Properties.                                                             *)

OutboxTypeOK ==
  /\ next \in 1..(MaxChanges + 1) /\ lock \in Pages \cup {None}
  /\ \A p \in Pages : page[p].at \in At /\ (page[p].at \notin {"closed", "open"} <=> lock = p)
  /\ \A c \in Changes : rows[c] # None => c < next /\ rows[c].state \in {"pending", "failed", "conflict"}
  /\ cut \subseteq Changes

(* "Sending the next page before this one is acknowledged lets a later     *)
(* retry of the older page become the server's newest position": the       *)
(* server takes the pages of a book in the order they were turned,         *)
(* whatever closed, failed or arrived late, but for one sent again without *)
(* its locator.                                                            *)
PagesInOrder ==
  \A i, j \in DOMAIN log : i < j /\ log[i].of = log[j].of =>
    log[i].change < log[j].change \/ log[j].change \in cut

(* "Every refusal must have an end" (reader-app.js:314-316): once the      *)
(* reader rests, all that was queued is delivered or put to the reader,    *)
(* and stays so; at most it waits behind a change of the same annotation   *)
(* that is in the panel.                                                   *)
Behind(c) == \E d \in Of(rows[c].of) \ {c} : Refused(d) /\ rows[d].attempted
Drained == \A c \in Changes : Pending(c) => Is(c, {"write", "erase"}) /\ Behind(c)
QueueDrains == <>[]Drained
=============================================================================
