------------------------------ MODULE SyncLog ------------------------------
(***************************************************************************)
(* One account's position log (internal/store/sqlite/ops.go) and the       *)
(* devices that follow it.                                                 *)
(*                                                                         *)
(* The server keeps an append-only log of reading positions, numbered by a *)
(* per-user counter that is never rolled back.  Old positions are removed  *)
(* by compaction, which remembers the newest number it removed as the      *)
(* horizon; a whole work can be deleted, two works merged, and an edition  *)
(* split out of a work, all of which change which positions belong         *)
(* together without writing to the log.                                    *)
(*                                                                         *)
(* A client follows the log with a cursor: it asks for what is newer       *)
(* (GET /v1/changes) and, when told its cursor is below the horizon,       *)
(* rebuilds from GET /v1/heads.  Replies travel: the log may change, or    *)
(* the reply may be lost, between the moment the server reads its snapshot *)
(* and the moment the client applies it.                                   *)
(*                                                                         *)
(* Every store operation runs in one transaction that first takes the      *)
(* account's write lock (lockWorkGraph), so each is one atomic action.     *)
(***************************************************************************)
EXTENDS Integers, Sequences, FiniteSets

CONSTANTS
  Works,          \* work identifiers; one is used at most once
  Editions,       \* sha256 identifiers of files
  Aliases,        \* partial-md5 identifiers, the provenance of kosync ops
  Devices,        \* devices of native tokens
  KosyncDevices,  \* kosync device slots
  OpIds,          \* idempotency keys of native ops
  Batches,        \* the POST /v1/ops bodies that may arrive, as sequences
  KosyncPuts,     \* the PUT /syncs/progress bodies that may arrive
  Clients,        \* delta-sync clients
  Deletable,      \* works no catalog book maps: DeleteWork refuses the others
  PageLimit,      \* ?limit= of GET /v1/changes
  DayLength,      \* ticks of the clock in a calendar day
  MaxSeq,         \* bound: ops ever numbered
  MaxTick,        \* bound: the clock
  NoWork, NoOwner, NoReply, KosyncId

Idents == Editions \cup Aliases
Owners == Idents \cup {NoOwner}

(* What a client sends for one position.  own is the edition named by the  *)
(* op, or NoOwner: with origin_alias it is the op's ownership group.       *)
Submission == [id : OpIds, work : Works, dev : Devices,
               own : Editions \cup {NoOwner}, prog : Nat]
KosyncPut == [alias : Aliases, dev : KosyncDevices, prog : Nat]

(* A stored op.  pending: a kosync op with no inferred_session_id yet.     *)
(* at: received_at.                                                        *)
Op == [seq : Nat \ {0}, id : OpIds \cup {KosyncId}, work : Works,
       dev : Devices \cup KosyncDevices, own : Owners, prog : Nat,
       pending : BOOLEAN, at : Nat]

ASSUME ConstantsAssumption ==
  /\ PageLimit \in Nat \ {0} /\ DayLength \in Nat \ {0}
  /\ MaxSeq \in Nat /\ MaxTick \in Nat
  /\ Batches \subseteq Seq(Submission)
  /\ KosyncPuts \subseteq KosyncPut
  /\ Deletable \subseteq Works
  /\ NoWork \notin Works
  /\ NoOwner \notin Idents /\ Editions \cap Aliases = {}
  /\ KosyncId \notin OpIds
  /\ Devices \cap KosyncDevices = {}

VARIABLES
  works,      \* works that exist
  born,       \* works that ever existed: identifiers are random, never reused
  owner,      \* identifier -> work, or NoWork (aliases and editions tables)
  floor,      \* works.furthest_floor
  log,        \* the ops table
  nextSeq,    \* seq_counters.next_seq
  horizon,    \* compaction_state.horizon
  measured,   \* kosync_devices.measured_sessions_from
  now,        \* the server's clock
  cursor,     \* per client: the highest seq it has reconciled
  known,      \* per client: the seqs it holds
  resync,     \* per client: told 410, must rebuild from heads
  inbox,      \* per client: the reply in flight, or NoReply
  \* History, read by the properties only.
  base,       \* per client: the snapshot_seq of its last rebuild
  asOf,       \* per client: splits at its last rebuild
  splits,     \* number of splits so far
  compacted,  \* seqs removed by compaction
  gone,       \* seqs removed with their work
  hidden,     \* seqs a reader forgot as furthest positions
  accepted    \* submissions ever stored

graphVars == <<works, born, owner>>
logVars == <<log, nextSeq, horizon>>
clientVars == <<cursor, known, resync, inbox, base, asOf>>
historyVars == <<splits, compacted, gone, hidden, accepted>>
vars == <<graphVars, floor, logVars, measured, now, clientVars, historyVars>>

Never == MaxTick + 1

(* A random identifier never used before; which one does not matter.       *)
NewWorks == IF born = Works THEN {} ELSE {CHOOSE w \in Works : w \notin born}

-----------------------------------------------------------------------------
(* Reading the log.                                                        *)

Seqs(S) == {o.seq : o \in S}

(* Faulty variant of Newest: a maximum that is not coalesced to zero.      *)
NewestUncoalesced(S) == IF S = {} THEN -1 ELSE CHOOSE m \in Seqs(S) : \A s \in Seqs(S) : s <= m

(* SELECT COALESCE(MAX(seq), 0)                                            *)
Newest(S) == IF S = {} THEN 0 ELSE CHOOSE m \in Seqs(S) : \A s \in Seqs(S) : s <= m

HighWater == Newest(log)

(* The first n ops of S, ORDER BY seq LIMIT n.                             *)
Lowest(S, n) == {o \in S : Cardinality({s \in Seqs(S) : s < o.seq}) < n}

IsHead(o) == \A p \in log : p.work = o.work /\ p.dev = o.dev => p.seq <= o.seq

(* furthestRank = 1 above the floor: the greatest progression of its       *)
(* ownership group, the first of equals.                                   *)
IsFurthest(o) ==
  /\ o.seq > floor[o.work]
  /\ \A p \in log : p.work = o.work /\ p.own = o.own /\ p.seq > floor[p.work]
       => p.prog < o.prog \/ (p.prog = o.prog /\ o.seq <= p.seq)

HeadOps == {o \in log : IsHead(o)}
FurthestOps == {o \in log : IsFurthest(o)}

(* Faulty variant of Changes: an off-by-one in the horizon check.          *)
ChangesRefusingHorizon(since) ==
  IF since <= horizon
  THEN [kind |-> "resync", seqs |-> {}, next |-> since, splits |-> splits]
  ELSE LET page == Lowest({o \in log : o.seq > since}, PageLimit)
       IN [kind |-> "page", seqs |-> Seqs(page), splits |-> splits,
           next |-> IF page = {} THEN HighWater ELSE Newest(page)]

(* A reply to GET /v1/changes?since=..., read from one snapshot.           *)
Changes(since) ==
  IF since < horizon
  THEN [kind |-> "resync", seqs |-> {}, next |-> since, splits |-> splits]
  ELSE LET page == Lowest({o \in log : o.seq > since}, PageLimit)
       IN [kind |-> "page", seqs |-> Seqs(page), splits |-> splits,
           next |-> IF page = {} THEN HighWater ELSE Newest(page)]

(* Faulty variant of HeadsFor: one head per work, whatever the device.     *)
HeadsForWorks ==
  [kind |-> "heads", next |-> HighWater, splits |-> splits,
   seqs |-> Seqs(FurthestOps \cup {o \in log : \A p \in log : p.work = o.work => p.seq <= o.seq})]

(* A reply to GET /v1/heads, read from one snapshot.                       *)
HeadsFor == [kind |-> "heads", seqs |-> Seqs(HeadOps \cup FurthestOps),
             next |-> HighWater, splits |-> splits]

-----------------------------------------------------------------------------
Init ==
  /\ works = {} /\ born = {}
  /\ owner = [i \in Idents |-> NoWork]
  /\ floor = [w \in Works |-> 0]
  /\ log = {} /\ nextSeq = 1 /\ horizon = 0
  /\ measured = [d \in KosyncDevices |-> Never]
  /\ now = 0
  /\ cursor = [c \in Clients |-> 0]
  /\ known = [c \in Clients |-> {}]
  /\ resync = [c \in Clients |-> FALSE]
  /\ inbox = [c \in Clients |-> NoReply]
  /\ base = [c \in Clients |-> 0]
  /\ asOf = [c \in Clients |-> 0]
  /\ splits = 0
  /\ compacted = {} /\ gone = {} /\ hidden = {} /\ accepted = {}

(***************************************************************************)
(* Writing positions.                                                      *)
(***************************************************************************)
Stored(id) == {o \in log : o.id = id}

SameOp(s, o) == o.work = s.work /\ o.dev = s.dev /\ o.own = s.own /\ o.prog = s.prog

(* The answer a replay of s gets: a known op_id is judged before the work  *)
(* is looked up.                                                           *)
Judge(s) ==
  IF Stored(s.id) # {}
  THEN IF \E o \in Stored(s.id) : SameOp(s, o) THEN "duplicate" ELSE "conflict"
  ELSE IF s.work \in works THEN "applied" ELSE "unknown_work"

(* Items of the batch that are neither duplicates nor conflicts.           *)
Fresh(batch) ==
  {i \in DOMAIN batch : /\ Stored(batch[i].id) = {}
                        /\ \A j \in DOMAIN batch : j < i => batch[j].id # batch[i].id}

(* The edition foreign key: an op may name only an edition of its work.    *)
EditionAgrees(s) == s.own \in Editions => owner[s.own] = s.work

Numbered(s, n) ==
  [seq |-> n, id |-> s.id, work |-> s.work, dev |-> s.dev, own |-> s.own,
   prog |-> s.prog, pending |-> FALSE, at |-> now]

(* Faulty variant of AppendOps: numbers follow the newest op still stored. *)
AppendOpsAfterNewest(batch) ==
  LET fresh == Fresh(batch)
  IN /\ fresh # {}
     /\ \A i \in fresh : batch[i].work \in works /\ EditionAgrees(batch[i])
     /\ nextSeq + Cardinality(fresh) <= MaxSeq + 1
     /\ log' = log \cup {Numbered(batch[i], HighWater + Cardinality({j \in fresh : j <= i})) :
                          i \in fresh}
     /\ nextSeq' = nextSeq + Cardinality(fresh)
     /\ accepted' = accepted \cup {batch[i] : i \in fresh}
     /\ UNCHANGED <<graphVars, floor, horizon, measured, now, clientVars,
                    splits, compacted, gone, hidden>>

(* POST /v1/ops.  One unknown work or edition refuses the whole batch;     *)
(* duplicates and conflicts are answered and the rest is stored.           *)
AppendOps(batch) ==
  LET fresh == Fresh(batch)
      SeqOf(i) == nextSeq + Cardinality({j \in fresh : j < i})
  IN /\ fresh # {}
     /\ \A i \in fresh : batch[i].work \in works /\ EditionAgrees(batch[i])
     /\ nextSeq + Cardinality(fresh) <= MaxSeq + 1
     /\ log' = log \cup {Numbered(batch[i], SeqOf(i)) : i \in fresh}
     /\ nextSeq' = nextSeq + Cardinality(fresh)
     /\ accepted' = accepted \cup {batch[i] : i \in fresh}
     /\ UNCHANGED <<graphVars, floor, horizon, measured, now, clientVars,
                    splits, compacted, gone, hidden>>

(* PUT /syncs/progress.  The digest's work is found or created as a        *)
(* pending one in the transaction that appends the op; the op_id is random *)
(* so a repeated PUT is another op.                                        *)
AppendKosyncOp(put) ==
  /\ nextSeq <= MaxSeq
  /\ \E w \in IF owner[put.alias] # NoWork THEN {owner[put.alias]} ELSE NewWorks :
       /\ works' = works \cup {w}
       /\ born' = born \cup {w}
       /\ owner' = [owner EXCEPT ![put.alias] = w]
       /\ log' = log \cup {[seq |-> nextSeq, id |-> KosyncId, work |-> w,
                            dev |-> put.dev, own |-> put.alias, prog |-> put.prog,
                            pending |-> TRUE, at |-> now]}
  /\ nextSeq' = nextSeq + 1
  /\ UNCHANGED <<floor, horizon, measured, now, clientVars, historyVars>>

(* A measured device's ops no longer need an inferred session.             *)
EnableKosyncStatistics(d) ==
  /\ measured[d] = Never
  /\ measured' = [measured EXCEPT ![d] = now]
  /\ UNCHANGED <<graphVars, floor, logVars, now, clientVars, historyVars>>

(* An op inference still has to read.                                      *)
AwaitsInference(o) == o.pending /\ o.at < measured[o.dev]

(* The materializer stamps the ops of a closed group (received up to t,    *)
(* before the lateness window) with the session inferred from them.        *)
AppendInferredSession(d, a, t) ==
  LET group == {o \in log : AwaitsInference(o) /\ o.dev = d /\ o.own = a /\ o.at <= t}
  IN /\ t < now
     /\ group # {}
     /\ log' = (log \ group) \cup {[o EXCEPT !.pending = FALSE] : o \in group}
     /\ UNCHANGED <<graphVars, floor, nextSeq, horizon, measured, now,
                    clientVars, historyVars>>

(* POST /v1/works/{id}/furthest/forget                                     *)
ForgetFurthest(w, upto) ==
  LET own == {o \in log : o.work = w}
      newest == Newest(own)
      target == IF upto <= newest THEN upto ELSE newest
  IN /\ w \in works
     /\ target > floor[w]
     /\ floor' = [floor EXCEPT ![w] = target]
     /\ hidden' = hidden \cup Seqs({o \in own : o.seq <= target})
     /\ UNCHANGED <<graphVars, logVars, measured, now, clientVars,
                    splits, compacted, gone, accepted>>

(***************************************************************************)
(* Compaction: ops older than the cutoff shrink to the last of each day    *)
(* per work and device.                                                    *)
(***************************************************************************)
Day(t) == t \div DayLength

DailyLast(o, cut) ==
  \A p \in log : /\ p.at < cut /\ p.work = o.work /\ p.dev = o.dev
                 /\ Day(p.at) = Day(o.at)
                 => p.seq <= o.seq

Doomed(cut) ==
  {o \in log : /\ o.at < cut
               /\ ~AwaitsInference(o)
               /\ ~DailyLast(o, cut) /\ ~IsHead(o) /\ ~IsFurthest(o)}

(* Faulty variant of Compact: the horizon becomes the newest seq of this   *)
(* pass, even when an earlier pass removed a newer one.                    *)
CompactLowering(cut) ==
  LET doomed == Doomed(cut)
  IN /\ cut <= now
     /\ doomed # {}
     /\ log' = log \ doomed
     /\ horizon' = Newest(doomed)
     /\ compacted' = compacted \cup Seqs(doomed)
     /\ UNCHANGED <<graphVars, floor, nextSeq, measured, now, clientVars,
                    splits, gone, hidden, accepted>>

Compact(cut) ==
  LET doomed == Doomed(cut)
  IN /\ cut <= now
     /\ doomed # {}
     /\ log' = log \ doomed
     /\ horizon' = IF Newest(doomed) > horizon THEN Newest(doomed) ELSE horizon
     /\ compacted' = compacted \cup Seqs(doomed)
     /\ UNCHANGED <<graphVars, floor, nextSeq, measured, now, clientVars,
                    splits, gone, hidden, accepted>>

Tick ==
  /\ now < MaxTick
  /\ now' = now + 1
  /\ UNCHANGED <<graphVars, floor, logVars, measured, clientVars, historyVars>>

(***************************************************************************)
(* The work graph, as far as the log depends on it.  That rollups refuse a *)
(* split or a merge is not modelled here: these actions may always not     *)
(* happen.                                                                 *)
(***************************************************************************)

(* Resolution registers the identifiers of a file with the one work they   *)
(* agree on, or with a new one; identifiers of two works conflict.         *)
Resolve(ids) ==
  LET matched == {owner[i] : i \in ids} \ {NoWork}
  IN \E w \in IF matched = {} THEN NewWorks ELSE matched :
       /\ matched \subseteq {w}
       /\ owner' = [i \in Idents |-> IF i \in ids THEN w ELSE owner[i]]
       /\ works' = works \cup {w}
       /\ born' = born \cup {w}
       /\ UNCHANGED <<floor, logVars, measured, now, clientVars, historyVars>>

Moved(o, w, moving, into) == IF o.work = w /\ o.own \in moving
                             THEN [o EXCEPT !.work = into] ELSE o

(* An edition and the listed aliases leave w for a new work, with every op *)
(* that names them; the new work inherits the floor.                       *)
SplitWork(w, e, listed, new) ==
  /\ w \in works /\ new \in NewWorks
  /\ owner[e] = w /\ \A a \in listed : owner[a] = w
  /\ works' = works \cup {new}
  /\ born' = born \cup {new}
  /\ floor' = [floor EXCEPT ![new] = floor[w]]
  /\ owner' = [i \in Idents |-> IF i \in {e} \cup listed THEN new ELSE owner[i]]
  /\ log' = {Moved(o, w, {e} \cup listed, new) : o \in log}
  /\ splits' = splits + 1
  /\ UNCHANGED <<nextSeq, horizon, measured, now, clientVars,
                 compacted, gone, hidden, accepted>>

(* Faulty variant of MergeWorks: the survivor keeps its own floor.         *)
MergeWorksOwnFloor(from, into) ==
  /\ from \in works /\ into \in works /\ from # into
  /\ works' = works \ {from}
  /\ owner' = [i \in Idents |-> IF owner[i] = from THEN into ELSE owner[i]]
  /\ log' = {Moved(o, from, Owners, into) : o \in log}
  /\ UNCHANGED <<born, floor, nextSeq, horizon, measured, now, clientVars, historyVars>>

(* Everything of from moves to into, which keeps the higher floor.         *)
MergeWorks(from, into) ==
  /\ from \in works /\ into \in works /\ from # into
  /\ works' = works \ {from}
  /\ owner' = [i \in Idents |-> IF owner[i] = from THEN into ELSE owner[i]]
  /\ floor' = [floor EXCEPT ![into] = IF floor[from] > @ THEN floor[from] ELSE @]
  /\ log' = {Moved(o, from, Owners, into) : o \in log}
  /\ UNCHANGED <<born, nextSeq, horizon, measured, now, clientVars, historyVars>>

(* The cascade takes the work's ops, editions and aliases; the counter and *)
(* the horizon stay.                                                       *)
DeleteWork(w) ==
  LET lost == {o \in log : o.work = w}
  IN /\ w \in works \cap Deletable
     /\ works' = works \ {w}
     /\ owner' = [i \in Idents |-> IF owner[i] = w THEN NoWork ELSE owner[i]]
     /\ log' = log \ lost
     /\ gone' = gone \cup Seqs(lost)
     /\ UNCHANGED <<born, floor, nextSeq, horizon, measured, now, clientVars,
                    splits, compacted, hidden, accepted>>

(***************************************************************************)
(* The clients.                                                            *)
(***************************************************************************)
Request(c) ==
  /\ inbox[c] = NoReply
  /\ inbox' = [inbox EXCEPT ![c] = IF resync[c] THEN HeadsFor ELSE Changes(cursor[c])]
  /\ UNCHANGED <<graphVars, floor, logVars, measured, now, historyVars,
                 cursor, known, resync, base, asOf>>

(* The reply is applied: ops and cursor in one local transaction.          *)
ReceivePage(c) ==
  /\ inbox[c] # NoReply /\ inbox[c].kind = "page"
  /\ known' = [known EXCEPT ![c] = @ \cup inbox[c].seqs]
  /\ cursor' = [cursor EXCEPT ![c] = inbox[c].next]
  /\ inbox' = [inbox EXCEPT ![c] = NoReply]
  /\ UNCHANGED <<graphVars, floor, logVars, measured, now, historyVars,
                 resync, base, asOf>>

ReceiveResync(c) ==
  /\ inbox[c] # NoReply /\ inbox[c].kind = "resync"
  /\ resync' = [resync EXCEPT ![c] = TRUE]
  /\ inbox' = [inbox EXCEPT ![c] = NoReply]
  /\ UNCHANGED <<graphVars, floor, logVars, measured, now, historyVars,
                 cursor, known, base, asOf>>

ReceiveHeads(c) ==
  /\ inbox[c] # NoReply /\ inbox[c].kind = "heads"
  /\ known' = [known EXCEPT ![c] = inbox[c].seqs]
  /\ cursor' = [cursor EXCEPT ![c] = inbox[c].next]
  /\ base' = [base EXCEPT ![c] = inbox[c].next]
  /\ asOf' = [asOf EXCEPT ![c] = inbox[c].splits]
  /\ resync' = [resync EXCEPT ![c] = FALSE]
  /\ inbox' = [inbox EXCEPT ![c] = NoReply]
  /\ UNCHANGED <<graphVars, floor, logVars, measured, now, historyVars>>

Receive(c) == ReceivePage(c) \/ ReceiveResync(c) \/ ReceiveHeads(c)

LoseReply(c) ==
  /\ inbox[c] # NoReply
  /\ inbox' = [inbox EXCEPT ![c] = NoReply]
  /\ UNCHANGED <<graphVars, floor, logVars, measured, now, historyVars,
                 cursor, known, resync, base, asOf>>

Next ==
  \/ \E batch \in Batches : AppendOps(batch)
  \/ \E put \in KosyncPuts : AppendKosyncOp(put)
  \/ \E d \in KosyncDevices : EnableKosyncStatistics(d)
  \/ \E d \in KosyncDevices, a \in Aliases, t \in 0..MaxTick : AppendInferredSession(d, a, t)
  \/ \E w \in Works, upto \in 1..MaxSeq : ForgetFurthest(w, upto)
  \/ \E cut \in 1..MaxTick : Compact(cut)
  \/ Tick
  \/ \E ids \in (SUBSET Idents) \ {{}} : Resolve(ids)
  \/ \E w, new \in Works, e \in Editions, listed \in SUBSET Aliases : SplitWork(w, e, listed, new)
  \/ \E from, into \in Works : MergeWorks(from, into)
  \/ \E w \in Works : DeleteWork(w)
  \/ \E c \in Clients : Request(c)
  \/ \E c \in Clients : Receive(c)
  \/ \E c \in Clients : LoseReply(c)

Spec == Init /\ [][Next]_vars

(* A client keeps asking, and the network does not lose every reply.       *)
FairSpec == Spec /\ \A c \in Clients : WF_vars(Request(c)) /\ SF_vars(Receive(c))

-----------------------------------------------------------------------------
(* Properties.                                                             *)

Reply == [kind : {"page", "resync", "heads"}, seqs : SUBSET Nat, next : Nat, splits : Nat]

TypeOK ==
  /\ works \subseteq Works /\ born \subseteq Works
  /\ owner \in [Idents -> Works \cup {NoWork}]
  /\ floor \in [Works -> Nat]
  /\ log \subseteq Op /\ nextSeq \in Nat \ {0} /\ horizon \in Nat
  /\ measured \in [KosyncDevices -> Nat] /\ now \in Nat
  /\ cursor \in [Clients -> Nat]
  /\ known \in [Clients -> SUBSET Nat]
  /\ resync \in [Clients -> BOOLEAN]
  /\ inbox \in [Clients -> Reply \cup {NoReply}]
  /\ base \in [Clients -> Nat] /\ asOf \in [Clients -> Nat]
  /\ splits \in Nat
  /\ compacted \subseteq Nat /\ gone \subseteq Nat /\ hidden \subseteq Nat

(* "A page you were not told to resync from has no holes in it": every op  *)
(* numbered between a client's last rebuild and its cursor has reached the *)
(* client, even one compaction has removed since, unless it went away with *)
(* its work.  Changes, Compact and the counter have to agree for this.     *)
NoSilentGap ==
  \A c \in Clients : \A s \in Seqs(log) \cup compacted :
    base[c] < s /\ s <= cursor[c] => s \in known[c]

(* A client that has caught up to a seq holds the newest op of every work  *)
(* and device up to it, through compaction, merges, deletes and rebuilds.  *)
(* Only a split since the last rebuild can uncover an older op as the new  *)
(* newest one of its work: the feed does not announce splits.              *)
HeadsKnown ==
  \A c \in Clients : \A o \in HeadOps :
    asOf[c] = splits /\ o.seq <= cursor[c] => o.seq \in known[c]

(* A furthest position a reader forgot never ranks again, whichever works  *)
(* are merged or split afterwards (ForgetFurthest, MergeWorks, SplitWork). *)
ForgottenStaysForgotten == Seqs(FurthestOps) \cap hidden = {}

(* An op is numbered beyond every cursor, every reply in flight and the    *)
(* horizon, so no caught-up client can overlook it, even when deleting a   *)
(* work has lowered the high-water mark.                                   *)
NewOpsBeyondCursors ==
  [][\A s \in Seqs(log') \ Seqs(log) :
       /\ s > horizon
       /\ \A c \in Clients : s > cursor[c] /\ (inbox[c] # NoReply => s > inbox[c].next)]_vars

(* Once the log is quiet every client has reconciled all of it, refused    *)
(* and rebuilding as often as compaction makes it, as long as a snapshot   *)
(* is not itself refused (SnapshotResumes, below, says when one is).       *)
CatchesUp ==
  <>[](HighWater >= horizon) => \A c \in Clients : <>[](~resync[c] /\ cursor[c] = HighWater)

(* GET /v1/heads is where a refused client resumes: its snapshot_seq is    *)
(* itself not refused.                                                     *)
SnapshotResumes == HighWater >= horizon

(* sqlite/ops.go: "a duplicate stays a duplicate even after its work was   *)
(* deleted".                                                               *)
DuplicateOutlivesWork ==
  \A s \in accepted : s.work \notin works => Judge(s) # "unknown_work"
=============================================================================
