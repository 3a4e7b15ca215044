----------------------------- MODULE Annotations ----------------------------
(***************************************************************************)
(* Highlights, notes and bookmarks of one reader                           *)
(* (store/sqlite/annotations.go, api/annotations.go, ADR-0028): mutable    *)
(* records, changed by compare-and-set on a revision, deleted to a         *)
(* tombstone that a later sweep removes, moved by splits and merges of     *)
(* works, and pulled by devices from a feed with its own counter.          *)
(*                                                                         *)
(* Every write is one transaction under the account's work-graph lock.  A  *)
(* pull reads the high water and the rows in two statements.  A push may   *)
(* be processed, its answer lost, and the push sent again.  A batch is     *)
(* the pushes of its items with nothing in between.                        *)
(***************************************************************************)
EXTENDS Naturals, FiniteSets

CONSTANTS Ids, Devices, Works,
          W1,             \* the work there is at first, with the edition
          Eds,            \* whether what is written is of the edition
          Cap,            \* AnnotationMaxPerWork
          Limit,          \* the page size of the feed
          MaxWrites,      \* bound: writes the devices think of
          MaxTries,       \* bound: times a write is processed
          MaxSeq,         \* bound: the annotation counter
          Moves,          \* bound: splits, merges and deletions of works
          None

VARIABLES rec,            \* the annotations table
          seq,            \* the last value of next_annotation_seq
          works, edition, \* the works there are, and the one with the edition
          moves,          \* counts the steps of the work graph
          writes,         \* what devices wrote, numbered: a number is a payload
          tries,          \* how often each was processed
          answer,         \* the last answer each got
          knows,          \* what each device holds of each id
          cursor, pull,   \* each device's place in the feed
          applied,        \* history: times each write was applied to its record
          reborn,         \* history: ids whose record was once removed
          held            \* history: its last try found its own accepted write

server  == <<rec, seq, works, edition>>
clients == <<writes, knows, cursor, pull>>
history == <<applied, reborn, held>>
vars == <<rec, seq, works, edition, moves, writes, tries, answer, knows, cursor, pull,
          applied, reborn, held>>

Numbers == 1..MaxWrites

(***************************************************************************)
(* A row has its revision, its place in the feed, its work, whether it is  *)
(* of the edition, and the write its content is from.                      *)
(***************************************************************************)
Rows == [rev : Nat, seq : 1..MaxSeq, work : Works, ed : BOOLEAN, by : Numbers, dead : BOOLEAN]

Writes == [dev : Devices, id : Ids, base : Nat, work : Works, ed : BOOLEAN, del : BOOLEAN]

Statuses == {"none", "applied", "duplicate", "conflict", "invalid", "not found"}

AnnotationsAssumption ==
    /\ IsFiniteSet(Ids) /\ W1 \in Works /\ Eds \subseteq BOOLEAN
    /\ Limit \in Nat \ {0} /\ MaxWrites \in Nat /\ MaxSeq \in Nat
    /\ None \notin Works /\ None \notin Nat /\ None \notin Rows /\ None \notin Writes

Nothing == [rev |-> 0, by |-> 0, work |-> None, dead |-> FALSE]

TypeOK ==
    /\ rec \in [Ids -> Rows \cup {None}]
    /\ seq \in 0..MaxSeq
    /\ works \subseteq Works
    /\ edition \in works \cup {None}
    /\ writes \in [Numbers -> Writes \cup {None}]
    /\ answer \in [Numbers -> Statuses]
    /\ cursor \in [Devices -> 0..MaxSeq]
    /\ \A i, j \in Ids : rec[i] # None /\ rec[j] # None /\ rec[i].seq = rec[j].seq => i = j
    /\ \A i \in Ids : rec[i] # None => rec[i].seq <= seq

Init ==
    /\ rec = [i \in Ids |-> None]
    /\ seq = 0
    /\ works = {W1}
    /\ edition = W1
    /\ moves = 0
    /\ writes = [n \in Numbers |-> None]
    /\ tries = [n \in Numbers |-> 0]
    /\ answer = [n \in Numbers |-> "none"]
    /\ knows = [d \in Devices |-> [i \in Ids |-> Nothing]]
    /\ cursor = [d \in Devices |-> 0]
    /\ pull = [d \in Devices |-> None]
    /\ applied = [n \in Numbers |-> 0]
    /\ reborn = {}
    /\ held = [n \in Numbers |-> FALSE]

Live(i) == rec[i] # None /\ ~rec[i].dead

LiveCount(w) == Cardinality({i \in Ids : Live(i) /\ rec[i].work = w})

-----------------------------------------------------------------------------
(* A device writes or deletes what it holds, one thing at a time per id.   *)
Think(d, i) ==
    LET known == knows[d][i] IN
    \E n \in Numbers, del \in BOOLEAN, ed \in Eds, w \in Works :
        /\ writes[n] = None
        /\ \A m \in Numbers : m < n => writes[m] # None
        /\ \A m \in Numbers : writes[m] # None /\ writes[m].dev = d /\ writes[m].id = i
                              => answer[m] # "none"
        /\ known.rev = 0 \/ known.dead \/ w = known.work
        /\ del => known.rev > 0 /\ ~known.dead
        /\ writes' = [writes EXCEPT ![n] =
               [dev |-> d, id |-> i, base |-> known.rev, work |-> w, ed |-> ed, del |-> del]]
        /\ UNCHANGED <<server, moves, tries, answer, knows, cursor, pull, history>>

(* Faulty: only an answer to the base revision is recognised *)
IsDuplicateOfBase(n) ==
    LET w == writes[n] r == rec[w.id]
    IN r.rev = w.base + 1 /\ ~r.dead /\ r.by = n /\ r.work = w.work

(* The accepted write, pushed again; the rev-1 arm is for a record that    *)
(* started over.                                                           *)
IsDuplicate(n) ==
    LET w == writes[n] r == rec[w.id]
    IN /\ r.rev = w.base + 1 \/ r.rev = 1
       /\ ~r.dead
       /\ r.by = n
       /\ r.work = w.work

(* Faulty: any base is taken *)
IsStaleWork(n) ==
    LET w == writes[n] r == rec[w.id] IN r.work # w.work

IsStale(n) ==
    LET w == writes[n] r == rec[w.id] IN r.rev # w.base \/ r.work # w.work

MayInsert(n) ==
    LET w == writes[n]
    IN /\ w.work \in works
       /\ w.ed => edition = w.work
       /\ LiveCount(w.work) < Cap

MayEdit(n) == writes[n].ed => edition = writes[n].work

PushStatus(n) ==
    LET i == writes[n].id IN
    CASE rec[i] # None /\ IsDuplicate(n)                          -> "duplicate"
      [] rec[i] # None /\ ~IsDuplicate(n) /\ IsStale(n)           -> "conflict"
      [] rec[i] # None /\ ~IsDuplicate(n) /\ ~IsStale(n) /\ Live(i) ->
             IF MayEdit(n) THEN "applied" ELSE "invalid"
      [] OTHER -> IF MayInsert(n) THEN "applied" ELSE "invalid"

DeleteStatus(n) ==
    LET w == writes[n] r == rec[w.id] IN
    CASE r = None                          -> "not found"
      [] r # None /\ r.dead                -> "duplicate"
      [] r # None /\ ~r.dead /\ r.rev # w.base -> "conflict"
      [] OTHER                             -> "applied"

(* A write that starts a record over has revision 1 whatever its base.     *)
Written(n) ==
    LET w == writes[n] r == rec[w.id]
    IN [rev  |-> IF r = None THEN 1 ELSE w.base + 1,
        seq  |-> seq + 1,
        work |-> IF w.del THEN r.work ELSE w.work,
        ed   |-> w.ed /\ ~w.del,
        by   |-> n,
        dead |-> w.del]

(* A tombstone is told without its work. *)
Seen(r) == [rev |-> r.rev, by |-> r.by, work |-> IF r.dead THEN None ELSE r.work, dead |-> r.dead]

(* Docs/integrating.md: key by id and let the highest rev win. *)
Newer(old, new) == IF new.rev > old.rev THEN new ELSE old

(* What an answer tells its device: the new revision, or the server copy.  *)
Learned(n, status, row) ==
    LET w == writes[n]
        told == CASE status = "applied" -> Seen(row)
                  [] status \in {"conflict", "duplicate"} -> Seen(rec[w.id])
                  [] OTHER -> Nothing
    IN [knows EXCEPT ![w.dev][w.id] = Newer(@, told)]

(* The server processes a push or a delete; its answer arrives or is lost. *)
Serve(n) ==
    LET w == writes[n]
        status == IF w.del THEN DeleteStatus(n) ELSE PushStatus(n)
        row == Written(n)
    IN /\ writes[n] # None
       /\ tries[n] < MaxTries
       /\ status = "applied" => seq < MaxSeq
       /\ tries' = [tries EXCEPT ![n] = @ + 1]
       /\ held' = [held EXCEPT ![n] =
              /\ rec[w.id] # None
              /\ applied[n] > 0
              /\ ~w.del
              /\ rec[w.id].by = n
              /\ rec[w.id].rev \in {1, w.base + 1}
              /\ rec[w.id].work = w.work
              /\ status # "duplicate"]
       /\ IF status = "applied"
          THEN /\ rec' = [rec EXCEPT ![w.id] = row]
               /\ seq' = seq + 1
               /\ applied' = [applied EXCEPT ![n] = @ + 1]
          ELSE UNCHANGED <<rec, seq, applied>>
       /\ \/ /\ answer' = [answer EXCEPT ![n] = status]
             /\ knows' = Learned(n, status, row)
          \/ UNCHANGED <<answer, knows>>
       /\ UNCHANGED <<works, edition, moves, writes, cursor, pull, reborn>>

-----------------------------------------------------------------------------
(* The history of removed records begins again. *)
Removed(S) ==
    /\ reborn' = reborn \cup S
    /\ applied' = [n \in Numbers |->
                      IF writes[n] # None /\ writes[n].id \in S THEN 0 ELSE applied[n]]

(* SweepAnnotationTombstones. *)
Sweep(i) ==
    /\ rec[i] # None
    /\ rec[i].dead
    /\ rec' = [rec EXCEPT ![i] = None]
    /\ Removed({i})
    /\ UNCHANGED <<seq, works, edition, moves, clients, tries, answer, held>>

(* Faulty: a moved record keeps its place in the feed *)
MovedInPlace(S, into) ==
    /\ rec' = [i \in Ids |-> IF i \in S THEN [rec[i] EXCEPT !.work = into, !.rev = @ + 1] ELSE rec[i]]
    /\ seq' = seq

\* The order of the feed.
Rank(S, i) == Cardinality({j \in S : rec[j].seq <= rec[i].seq})

(* moveAnnotationsTx: every record of the set is written again, in the     *)
(* order of the feed.                                                      *)
Moved(S, into) ==
    /\ rec' = [i \in Ids |->
          IF i \in S
          THEN [rec[i] EXCEPT !.work = into, !.rev = @ + 1, !.seq = seq + Rank(S, i)]
          ELSE rec[i]]
    /\ seq' = seq + Cardinality(S)

Split(w) ==
    LET S == {i \in Ids : rec[i] # None /\ rec[i].work = edition /\ rec[i].ed}
    IN /\ moves < Moves
       /\ edition # None
       /\ w \notin works
       /\ seq + Cardinality(S) <= MaxSeq
       /\ works' = works \cup {w}
       /\ edition' = w
       /\ Moved(S, w)
       /\ moves' = moves + 1
       /\ UNCHANGED <<clients, tries, answer, history>>

Merge(from, into) ==
    LET S == {i \in Ids : rec[i] # None /\ rec[i].work = from}
    IN /\ moves < Moves
       /\ from # into
       /\ {from, into} \subseteq works
       /\ seq + Cardinality(S) <= MaxSeq
       /\ works' = works \ {from}
       /\ edition' = IF edition = from THEN into ELSE edition
       /\ Moved(S, into)
       /\ moves' = moves + 1
       /\ UNCHANGED <<clients, tries, answer, history>>

(* The records and tombstones of a deleted work go with it. *)
DeleteWork(w) ==
    LET S == {i \in Ids : rec[i] # None /\ rec[i].work = w}
    IN /\ moves < Moves
       /\ w \in works
       /\ works' = works \ {w}
       /\ edition' = IF edition = w THEN None ELSE edition
       /\ rec' = [i \in Ids |-> IF i \in S THEN None ELSE rec[i]]
       /\ Removed(S)
       /\ moves' = moves + 1
       /\ UNCHANGED <<seq, clients, tries, answer, held>>

-----------------------------------------------------------------------------
(* AnnotationChanges: the high water first, then the page.  A page that is *)
(* lost leaves its device as if it had not asked.                          *)
ReadHighWater(d) ==
    /\ pull[d] = None
    /\ pull' = [pull EXCEPT ![d] = seq]
    /\ UNCHANGED <<server, moves, writes, tries, answer, knows, cursor, history>>

Page(d) ==
    LET newer == {i \in Ids : rec[i] # None /\ rec[i].seq > cursor[d]}
    IN {i \in newer : Cardinality({j \in newer : rec[j].seq < rec[i].seq}) < Limit}

(* The last seq received, and the high water only on an empty page. *)
Advanced(d) ==
    IF Page(d) = {} THEN pull[d]
    ELSE CHOOSE s \in {rec[i].seq : i \in Page(d)} : \A i \in Page(d) : rec[i].seq <= s

ReadRows(d) ==
    /\ pull[d] # None
    /\ knows' = [knows EXCEPT ![d] =
           [i \in Ids |-> IF i \in Page(d) THEN Newer(@[i], Seen(rec[i])) ELSE @[i]]]
    /\ cursor' = [cursor EXCEPT ![d] = Advanced(d)]
    /\ pull' = [pull EXCEPT ![d] = None]
    /\ UNCHANGED <<server, moves, writes, tries, answer, history>>

Next ==
    \/ \E d \in Devices, i \in Ids : Think(d, i)
    \/ \E n \in Numbers : Serve(n)
    \/ \E i \in Ids : Sweep(i)
    \/ \E w \in Works : Split(w) \/ DeleteWork(w)
    \/ \E from, into \in Works : Merge(from, into)
    \/ \E d \in Devices : ReadHighWater(d) \/ ReadRows(d)

Spec == Init /\ [][Next]_vars

-----------------------------------------------------------------------------
(* A device whose cursor is at the counter holds every record as the       *)
(* server does, however edits and moves reordered the feed while it paged; *)
(* except an id whose record was removed and started over                  *)
(* (AnnotationChanges, "a pull since a cursor misses no committed write"). *)
PulledIsCurrent ==
    \A d \in Devices, i \in Ids :
        cursor[d] = seq /\ rec[i] # None /\ i \notin reborn => knows[d][i] = Seen(rec[i])

(* A write, sent again for a lost answer, is applied to its record once,   *)
(* whatever others wrote since, unless the record had started over         *)
(* (pushAnnotationTx).                                                     *)
AppliedOnce ==
    \A n \in Numbers : applied[n] > 1 => writes[n].id \in reborn

(* The retry of an accepted write that is still the content of its record, *)
(* where the write put it, is acknowledged: also after its record started  *)
(* over at revision 1 (pushAnnotationTx).                                  *)
RetryAcknowledged == \A n \in Numbers : ~held[n]

(* "Its retry must be acknowledged too, not conflicted or applied twice"   *)
(* (pushAnnotationTx): also the write that made a record start over is     *)
(* applied to that record once.                                            *)
NeverAppliedTwice == \A n \in Numbers : applied[n] <= 1

(* "The cap of 2,000 live annotations per user per work is an invariant    *)
(* only the store can hold" (ADR-0028).                                    *)
CapHolds == \A w \in Works : LiveCount(w) <= Cap
=============================================================================
