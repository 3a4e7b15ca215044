---------------------------- MODULE RecordsProofs ----------------------------
(***************************************************************************)
(* Proofs about the records of a reader that are sent again, revised and   *)
(* pulled: Annotations, Translations and SourceSessions, for any number of *)
(* records, devices, works, keys and reports.  What the three have in      *)
(* common is an order that arrivals do not respect.                        *)
(***************************************************************************)
EXTENDS Annotations, Translations, SourceSessions,
        FiniteSetTheorems, WellFoundedInduction, TLAPS

-----------------------------------------------------------------------------
(* The least-number principle.                                             *)
LEMMA MinExists ==
  ASSUME NEW S \in SUBSET Nat, S # {}
  PROVE  \E m \in S : \A k \in S : m <= k
<1>1. PICK x \in S : \A y \in S : ~ (<<y, x>> \in OpToRel(<, Nat))
  BY WFMin, NatLessThanWellFounded
<1>2. ASSUME NEW k \in S, k < x PROVE FALSE
  <2>1. k \in Nat /\ x \in Nat
    OBVIOUS
  <2>2. <<k, x>> \in OpToRel(<, Nat)
    BY <1>2, <2>1, Zenon DEF OpToRel
  <2>. QED
    BY <2>2, <1>1, Zenon
<1>3. \A a, b \in Nat : ~(a < b) => b <= a
  BY SMT
<1>. QED
  BY <1>2, <1>3, Zenon

\* A set the elements of a finite set are mapped to is finite.
LEMMA ImageIsFinite ==
    ASSUME NEW S, IsFiniteSet(S), NEW f
    PROVE  IsFiniteSet({f[x] : x \in S})
<1>. DEFINE g == [x \in S |-> f[x]]
<1>1. g \in Surjection(S, {f[x] : x \in S})
  BY DEF Surjection
<1>. QED
  BY <1>1, FS_Surjection

-----------------------------------------------------------------------------
(* Annotations.  A device that pages the feed meets two orders: the        *)
(* counter, which every write and every move of a record takes a number    *)
(* of, and the revision, which decides whether a row or an answer is news. *)
(* The inductive invariant says how far a device's copy may lag behind in  *)
(* the second (NeverAhead), that the first bounds the lag (BehindIsKnown), *)
(* and that an applied write has moved its record beyond the base it was   *)
(* written on (AppliedMovesOn), which is why a retry cannot apply it       *)
(* again.  All of it is about records that were never removed: revisions   *)
(* start at 1 again after a sweep or a deleted work.                       *)

Copies == [rev : Nat, by : Nat, work : Works \cup {None}, dead : BOOLEAN]

RecordTyped ==
    /\ rec \in [Ids -> Rows \cup {None}]
    /\ seq \in 0..MaxSeq
    /\ works \subseteq Works
    /\ edition \in works \cup {None}
    /\ writes \in [Numbers -> Writes \cup {None}]
    /\ answer \in [Numbers -> Statuses]
    /\ knows \in [Devices -> [Ids -> Copies]]
    /\ cursor \in [Devices -> 0..MaxSeq]
    /\ pull \in [Devices -> (0..MaxSeq) \cup {None}]
    /\ applied \in [Numbers -> Nat]
    /\ reborn \subseteq Ids
    /\ held \in [Numbers -> BOOLEAN]

\* The counter is ahead of the rows, of the devices and of their pulls, and
\* gives every row a place of its own.
FeedOrdered ==
    /\ \A i \in Ids : rec[i] # None => rec[i].seq <= seq
    /\ \A i, j \in Ids : rec[i] # None /\ rec[j] # None /\ rec[i].seq = rec[j].seq => i = j
    /\ \A d \in Devices : cursor[d] <= seq
    /\ \A d \in Devices : pull[d] # None => cursor[d] <= pull[d] /\ pull[d] <= seq

\* What a device holds of a record is the record, or an older revision of it.
NeverAhead ==
    \A d \in Devices, i \in Ids \ reborn :
        IF rec[i] = None THEN knows[d][i] = Nothing
        ELSE knows[d][i].rev < rec[i].rev \/ knows[d][i] = Seen(rec[i])

\* What lies at or before a device's cursor, the device has.
BehindIsKnown ==
    \A d \in Devices, i \in Ids \ reborn :
        rec[i] # None /\ rec[i].seq <= cursor[d] => knows[d][i] = Seen(rec[i])

\* A write that was applied has moved its record beyond its base.
AppliedMovesOn ==
    \A n \in Numbers : writes[n] # None /\ writes[n].id \notin reborn =>
        IF rec[writes[n].id] = None THEN writes[n].base = 0 /\ applied[n] = 0
        ELSE applied[n] > 0 => writes[n].base < rec[writes[n].id].rev

\* A row is a tombstone exactly when the write it is from is a deletion.
ContentHasAuthor ==
    /\ \A n \in Numbers : writes[n] = None => applied[n] = 0
    /\ \A i \in Ids : rec[i] # None =>
          /\ writes[rec[i].by] # None
          /\ rec[i].dead = writes[rec[i].by].del

AnnotationsInv ==
    /\ RecordTyped /\ FeedOrdered /\ NeverAhead /\ BehindIsKnown /\ AppliedMovesOn
    /\ ContentHasAuthor /\ AppliedOnce /\ RetryAcknowledged

-----------------------------------------------------------------------------
\* The places a move gives out are new, one for each record.
LEMMA RanksAreNew ==
    ASSUME RecordTyped, IsFiniteSet(Ids), NEW S \in SUBSET Ids, \A i \in S : rec[i] # None
    PROVE  /\ IsFiniteSet(S) /\ Cardinality(S) \in Nat
           /\ \A i \in S : Rank(S, i) \in 1..Cardinality(S)
           /\ \A i, j \in S : rec[i].seq < rec[j].seq => Rank(S, i) < Rank(S, j)
<1>1. IsFiniteSet(S) /\ Cardinality(S) \in Nat
  BY FS_Subset, FS_CardinalityType
<1>2. \A i \in S : rec[i].seq \in Nat
  BY DEF RecordTyped, Rows
<1>. DEFINE UpTo(i) == {j \in S : rec[j].seq <= rec[i].seq}
<1>3. \A i \in S : IsFiniteSet(UpTo(i)) /\ UpTo(i) \subseteq S /\ Cardinality(UpTo(i)) \in Nat
                   /\ Cardinality(UpTo(i)) <= Cardinality(S)
  <2>. SUFFICES ASSUME NEW i \in S
       PROVE IsFiniteSet(UpTo(i)) /\ UpTo(i) \subseteq S /\ Cardinality(UpTo(i)) \in Nat
             /\ Cardinality(UpTo(i)) <= Cardinality(S)
    OBVIOUS
  <2>1. UpTo(i) \in SUBSET S
    OBVIOUS
  <2>. QED
    BY <1>1, <2>1, FS_Subset, FS_CardinalityType
<1>4. ASSUME NEW i \in S PROVE Cardinality(UpTo(i)) # 0
  <2>1. i \in UpTo(i)
    BY <1>2
  <2>. QED
    BY <1>3, <2>1, FS_EmptySet
<1>5. ASSUME NEW i \in S, NEW j \in S, rec[i].seq < rec[j].seq
      PROVE  Cardinality(UpTo(i)) < Cardinality(UpTo(j))
  <2>1. UpTo(i) \in SUBSET UpTo(j)
    BY <1>2, <1>5
  <2>2. j \in UpTo(j) /\ j \notin UpTo(i)
    BY <1>2, <1>5
  <2>3. IsFiniteSet(UpTo(j)) /\ Cardinality(UpTo(j)) \in Nat /\ Cardinality(UpTo(i)) \in Nat
    BY <1>3
  <2>4. Cardinality(UpTo(i)) <= Cardinality(UpTo(j))
    BY <2>1, <2>3, FS_Subset
  <2>5. Cardinality(UpTo(i)) # Cardinality(UpTo(j))
    BY <2>1, <2>2, <2>3, FS_Subset
  <2>. QED
    BY <2>3, <2>4, <2>5
<1>6. \A i \in S : Rank(S, i) = Cardinality(UpTo(i))
  BY DEF Rank
<1>. HIDE DEF UpTo
<1>. QED
  BY <1>1, <1>3, <1>4, <1>5, <1>6

-----------------------------------------------------------------------------
LEMMA InitHolds == ASSUME AnnotationsAssumption, Init PROVE AnnotationsInv
<1>. USE DEF Init, AnnotationsAssumption, Numbers
<1>1. RecordTyped
  BY DEF RecordTyped, Copies, Nothing, Statuses
<1>2. FeedOrdered
  BY DEF FeedOrdered
<1>3. NeverAhead /\ BehindIsKnown
  BY DEF NeverAhead, BehindIsKnown
<1>4. AppliedMovesOn /\ ContentHasAuthor
  BY DEF AppliedMovesOn, ContentHasAuthor
<1>5. AppliedOnce /\ RetryAcknowledged
  BY DEF AppliedOnce, RetryAcknowledged
<1>. QED
  BY <1>1, <1>2, <1>3, <1>4, <1>5 DEF AnnotationsInv

\* A device writes on what it holds, so the base is no revision to come.
LEMMA ThinkStep ==
    ASSUME AnnotationsAssumption, AnnotationsInv, NEW d \in Devices, NEW i \in Ids, Think(d, i)
    PROVE  AnnotationsInv'
<1>1. PICK n \in Numbers, del \in BOOLEAN, ed \in Eds, w \in Works :
        /\ writes[n] = None
        /\ writes' = [writes EXCEPT ![n] =
             [dev |-> d, id |-> i, base |-> knows[d][i].rev, work |-> w, ed |-> ed, del |-> del]]
        /\ UNCHANGED <<server, moves, tries, answer, knows, cursor, pull, history>>
  BY DEF Think
<1>. USE <1>1 DEF server, history
<1>. DEFINE new == [dev |-> d, id |-> i, base |-> knows[d][i].rev, work |-> w, ed |-> ed, del |-> del]
<1>2. new \in Writes /\ new # None
  BY DEF AnnotationsInv, RecordTyped, Copies, Writes, AnnotationsAssumption
<1>3. /\ writes' \in [Numbers -> Writes \cup {None}]
      /\ writes'[n] = new
      /\ \A m \in Numbers : m # n => writes'[m] = writes[m]
  BY <1>2 DEF AnnotationsInv, RecordTyped
<1>4. new.id = i /\ new.base = knows[d][i].rev
  OBVIOUS
<1>. HIDE DEF new
<1>5. RecordTyped'
  BY <1>3 DEF AnnotationsInv, RecordTyped
<1>6. FeedOrdered'
  BY DEF AnnotationsInv, FeedOrdered
<1>7. NeverAhead' /\ BehindIsKnown'
  BY DEF AnnotationsInv, NeverAhead, BehindIsKnown, Seen
<1>8. ContentHasAuthor'
  <2>1. \A m \in Numbers : writes'[m] = None => applied'[m] = 0
    BY <1>2, <1>3 DEF AnnotationsInv, ContentHasAuthor
  <2>2. ASSUME NEW j \in Ids, rec'[j] # None
        PROVE  writes'[rec'[j].by] # None /\ rec'[j].dead = writes'[rec'[j].by].del
    <3>1. rec[j].by \in Numbers /\ writes[rec[j].by] # None
      BY <2>2 DEF AnnotationsInv, RecordTyped, Rows, ContentHasAuthor
    <3>2. rec[j].by # n
      BY <3>1
    <3>. QED
      BY <2>2, <3>1, <3>2, <1>3 DEF AnnotationsInv, ContentHasAuthor
  <2>. QED
    BY <2>1, <2>2 DEF ContentHasAuthor
<1>9. AppliedMovesOn'
  <2>. SUFFICES ASSUME NEW m \in Numbers, writes'[m] # None, writes'[m].id \notin reborn
       PROVE  IF rec[writes'[m].id] = None THEN writes'[m].base = 0 /\ applied[m] = 0
              ELSE applied[m] > 0 => writes'[m].base < rec[writes'[m].id].rev
    BY DEF AppliedMovesOn
  <2>1. CASE m = n
    <3>1. applied[n] = 0
      BY DEF AnnotationsInv, ContentHasAuthor
    <3>2. rec[i] = None => knows[d][i].rev = 0
      BY <1>3, <1>4, <2>1 DEF AnnotationsInv, NeverAhead, Nothing
    <3>. QED
      BY <3>1, <3>2, <2>1, <1>3, <1>4
  <2>2. CASE m # n
    BY <2>2, <1>3 DEF AnnotationsInv, AppliedMovesOn
  <2>. QED
    BY <2>1, <2>2
<1>10. AppliedOnce'
  <2>. SUFFICES ASSUME NEW m \in Numbers, applied[m] > 1 PROVE writes'[m].id \in reborn
    BY DEF AppliedOnce
  <2>1. m # n
    BY DEF AnnotationsInv, ContentHasAuthor
  <2>. QED
    BY <2>1, <1>3 DEF AnnotationsInv, AppliedOnce
<1>11. RetryAcknowledged'
  BY DEF AnnotationsInv, RetryAcknowledged
<1>. QED
  BY <1>5, <1>6, <1>7, <1>8, <1>9, <1>10, <1>11 DEF AnnotationsInv

-----------------------------------------------------------------------------
\* A write that is applied starts its record, or is on its revision.
LEMMA AppliedOnTheBase ==
    ASSUME AnnotationsInv, NEW n \in Numbers, writes[n] # None,
           (IF writes[n].del THEN DeleteStatus(n) ELSE PushStatus(n)) = "applied"
    PROVE  /\ rec[writes[n].id] = None => ~writes[n].del
           /\ rec[writes[n].id] # None => rec[writes[n].id].rev = writes[n].base
<1>. DEFINE r == rec[writes[n].id]
<1>0. writes[n].del \in BOOLEAN
  BY DEF AnnotationsInv, RecordTyped, Writes
<1>1. CASE writes[n].del
  <2>1. DeleteStatus(n) = "applied"
    BY <1>1
  <2>2. r # None
    BY <2>1 DEF DeleteStatus
  <2>3. ~r.dead /\ r.rev = writes[n].base
    BY <2>1, <2>2 DEF DeleteStatus
  <2>. QED
    BY <2>2, <2>3
<1>2. CASE ~writes[n].del
  <2>1. PushStatus(n) = "applied"
    BY <1>2
  <2>2. ASSUME r # None PROVE r.rev = writes[n].base
    <3>1. CASE IsDuplicate(n)
      BY <2>1, <2>2, <3>1 DEF PushStatus
    <3>2. CASE ~IsDuplicate(n) /\ IsStale(n)
      BY <2>1, <2>2, <3>2 DEF PushStatus
    <3>3. CASE ~IsDuplicate(n) /\ ~IsStale(n)
      BY <3>3 DEF IsStale
    <3>. QED
      BY <3>1, <3>2, <3>3
  <2>. QED
    BY <1>2, <2>2
<1>. QED
  BY <1>0, <1>1, <1>2

\* A device's copy is kept, or becomes the record.
LEMMA NewerIsOneOf ==
    ASSUME NEW old \in Copies, NEW new
    PROVE  /\ Newer(old, new) \in {old, new}
           /\ new = Nothing => Newer(old, new) = old
<1>1. Nothing.rev = 0 /\ old.rev \in Nat
  BY DEF Nothing, Copies
<1>. QED
  BY <1>1 DEF Newer

LEMMA SeenIsACopy ==
    ASSUME NEW r \in Rows PROVE Seen(r) \in Copies /\ Seen(r).rev = r.rev
<1>1. r.by \in Nat
  BY DEF Rows, Numbers
<1>. QED
  BY <1>1 DEF Rows, Seen, Copies

\* What is written has a revision above all that was known, and the counter's
\* next place.
LEMMA WrittenIsARow ==
    ASSUME AnnotationsAssumption, AnnotationsInv, NEW n \in Numbers, writes[n] # None, seq < MaxSeq,
           rec[writes[n].id] = None => ~writes[n].del,
           rec[writes[n].id] # None => rec[writes[n].id].rev = writes[n].base
    PROVE  /\ Written(n) \in Rows
           /\ Written(n).rev = (IF rec[writes[n].id] = None THEN 1 ELSE writes[n].base + 1)
           /\ Written(n).seq = seq + 1 /\ Written(n).by = n
           /\ Written(n).dead = writes[n].del
<1>1. writes[n] \in Writes /\ rec[writes[n].id] \in Rows \cup {None}
  BY DEF AnnotationsInv, RecordTyped, Writes
<1>2. seq + 1 \in 1..MaxSeq
  BY DEF AnnotationsInv, RecordTyped, AnnotationsAssumption
<1>3. Written(n).rev = (IF rec[writes[n].id] = None THEN 1 ELSE writes[n].base + 1)
      /\ Written(n).seq = seq + 1 /\ Written(n).by = n /\ Written(n).dead = writes[n].del
  BY DEF Written
<1>4. (IF rec[writes[n].id] = None THEN 1 ELSE writes[n].base + 1) \in Nat
  BY <1>1 DEF Writes
<1>5. (IF writes[n].del THEN rec[writes[n].id].work ELSE writes[n].work) \in Works
  BY <1>1 DEF Writes, Rows
<1>6. (writes[n].ed /\ ~writes[n].del) \in BOOLEAN /\ writes[n].del \in BOOLEAN
  BY <1>1 DEF Writes
<1>7. Written(n) \in Rows
  BY <1>2, <1>4, <1>5, <1>6 DEF Written, Rows
<1>. QED
  BY <1>3, <1>7

\* What an answer leaves in a device: what it held, or the record as it is now.
LEMMA LearnedIsTheRecord ==
    ASSUME AnnotationsAssumption, AnnotationsInv, NEW n \in Numbers, writes[n] # None,
           NEW status, NEW row \in Rows,
           status \in {"conflict", "duplicate"} => rec[writes[n].id] # None
    PROVE  LET K == Learned(n, status, row)
               now == IF status = "applied" THEN row ELSE rec[writes[n].id]
           IN  /\ K \in [Devices -> [Ids -> Copies]]
               /\ \A d \in Devices, i \in Ids :
                    \/ K[d][i] = knows[d][i]
                    \/ i = writes[n].id /\ now \in Rows /\ K[d][i] = Seen(now)
<1>. DEFINE w == writes[n]
            told == CASE status = "applied" -> Seen(row)
                      [] status \in {"conflict", "duplicate"} -> Seen(rec[w.id])
                      [] OTHER -> Nothing
            now == IF status = "applied" THEN row ELSE rec[w.id]
            K == Learned(n, status, row)
<1>1. w \in Writes /\ w.dev \in Devices /\ w.id \in Ids
  BY DEF AnnotationsInv, RecordTyped, Writes
<1>2. told = Nothing \/ (now \in Rows /\ told = Seen(now))
  <2>1. CASE status = "applied"
    BY <2>1
  <2>2. CASE status # "applied" /\ status \in {"conflict", "duplicate"}
    <3>1. rec[w.id] \in Rows
      BY <1>1, <2>2 DEF AnnotationsInv, RecordTyped
    <3>. QED
      BY <2>2, <3>1
  <2>3. CASE status # "applied" /\ status \notin {"conflict", "duplicate"}
    BY <2>3
  <2>. QED
    BY <2>1, <2>2, <2>3
<1>3. K = [knows EXCEPT ![w.dev] = [knows[w.dev] EXCEPT ![w.id] = Newer(knows[w.dev][w.id], told)]]
  BY DEF Learned
<1>4. knows[w.dev][w.id] \in Copies
  BY <1>1 DEF AnnotationsInv, RecordTyped
<1>. DEFINE c == Newer(knows[w.dev][w.id], told)
<1>5. c = knows[w.dev][w.id] \/ (now \in Rows /\ c = Seen(now))
  BY <1>2, <1>4, NewerIsOneOf
<1>6. c \in Copies
  BY <1>4, <1>5, SeenIsACopy
<1>. HIDE DEF c, told, now, K, w
<1>7. knows \in [Devices -> [Ids -> Copies]]
  BY DEF AnnotationsInv, RecordTyped
<1>8. K = [knows EXCEPT ![w.dev] = [knows[w.dev] EXCEPT ![w.id] = c]]
  BY <1>3 DEF c
<1>9. K \in [Devices -> [Ids -> Copies]]
  BY <1>1, <1>6, <1>7, <1>8
<1>10. \A d \in Devices, i \in Ids :
         \/ K[d][i] = knows[d][i]
         \/ i = w.id /\ now \in Rows /\ K[d][i] = Seen(now)
  <2>. SUFFICES ASSUME NEW d \in Devices, NEW i \in Ids
       PROVE  K[d][i] = knows[d][i] \/ (i = w.id /\ now \in Rows /\ K[d][i] = Seen(now))
    OBVIOUS
  <2>1. CASE d = w.dev /\ i = w.id
    <3>1. K[d][i] = c
      BY <2>1, <1>1, <1>7, <1>8
    <3>. QED
      BY <2>1, <3>1, <1>5
  <2>2. CASE ~(d = w.dev /\ i = w.id)
    BY <2>2, <1>1, <1>7, <1>8
  <2>. QED
    BY <2>1, <2>2
<1>. QED
  BY <1>9, <1>10 DEF K, now, w

-----------------------------------------------------------------------------
Answer(n) == IF writes[n].del THEN DeleteStatus(n) ELSE PushStatus(n)

LEMMA AnswersAreStatuses ==
    ASSUME NEW n \in Numbers
    PROVE  /\ Answer(n) \in Statuses
           /\ Answer(n) \in {"conflict", "duplicate"} => rec[writes[n].id] # None
<1>1. DeleteStatus(n) \in Statuses
      /\ (DeleteStatus(n) \in {"conflict", "duplicate"} => rec[writes[n].id] # None)
  BY DEF DeleteStatus, Statuses
<1>2. PushStatus(n) \in Statuses
      /\ (PushStatus(n) \in {"conflict", "duplicate"} => rec[writes[n].id] # None)
  <2>1. CASE rec[writes[n].id] = None
    BY <2>1 DEF PushStatus, Statuses
  <2>2. CASE rec[writes[n].id] # None
    BY <2>2 DEF PushStatus, Statuses
  <2>. QED
    BY <2>1, <2>2
<1>. QED
  BY <1>1, <1>2 DEF Answer

\* An accepted write that is still its record's content is recognised: its
\* record is no tombstone.
LEMMA RetryIsRecognised ==
    ASSUME AnnotationsInv, NEW n \in Numbers, writes[n] # None, ~writes[n].del,
           rec[writes[n].id] # None, rec[writes[n].id].by = n,
           rec[writes[n].id].rev \in {1, writes[n].base + 1},
           rec[writes[n].id].work = writes[n].work
    PROVE  Answer(n) = "duplicate"
<1>1. writes[n].id \in Ids
  BY DEF AnnotationsInv, RecordTyped, Writes
<1>2. ~rec[writes[n].id].dead
  BY <1>1 DEF AnnotationsInv, ContentHasAuthor
<1>3. IsDuplicate(n)
  BY <1>2 DEF IsDuplicate
<1>. QED
  BY <1>3 DEF Answer, PushStatus

\* The answer to a write: the record is written when it is applied, and the
\* device that asked learns of it unless the answer is lost.
LEMMA ServeStep ==
    ASSUME AnnotationsAssumption, AnnotationsInv, NEW n \in Numbers, Serve(n)
    PROVE  AnnotationsInv'
<1>. DEFINE w == writes[n]
            id == writes[n].id
            row == Written(n)
            status == Answer(n)
<1>1. /\ w # None
      /\ status = "applied" => seq < MaxSeq
      /\ held' = [held EXCEPT ![n] =
              /\ rec[id] # None
              /\ applied[n] > 0
              /\ ~w.del
              /\ rec[id].by = n
              /\ rec[id].rev \in {1, w.base + 1}
              /\ rec[id].work = w.work
              /\ status # "duplicate"]
      /\ IF status = "applied"
         THEN /\ rec' = [rec EXCEPT ![id] = row]
              /\ seq' = seq + 1
              /\ applied' = [applied EXCEPT ![n] = @ + 1]
         ELSE UNCHANGED <<rec, seq, applied>>
      /\ \/ answer' = [answer EXCEPT ![n] = status] /\ knows' = Learned(n, status, row)
         \/ UNCHANGED <<answer, knows>>
      /\ UNCHANGED <<works, edition, moves, writes, cursor, pull, reborn>>
  BY DEF Serve, Answer
<1>2. w \in Writes /\ id \in Ids /\ w.dev \in Devices /\ w.base \in Nat
  BY <1>1 DEF AnnotationsInv, RecordTyped, Writes
<1>3. status \in Statuses
  BY AnswersAreStatuses
<1>4. ASSUME status = "applied"
      PROVE  /\ row \in Rows /\ row # None /\ row.seq = seq + 1 /\ row.by = n /\ row.dead = w.del
             /\ row.rev \in Nat
             /\ rec[id] = None => row.rev = 1
             /\ rec[id] # None => rec[id].rev = w.base /\ row.rev = w.base + 1
  <2>1. (rec[id] = None => ~w.del) /\ (rec[id] # None => rec[id].rev = w.base)
    BY <1>1, <1>4, AppliedOnTheBase DEF Answer
  <2>. QED
    BY <1>1, <1>4, <2>1, WrittenIsARow DEF AnnotationsAssumption, Rows
<1>5. /\ knows' \in [Devices -> [Ids -> Copies]]
      /\ \A d \in Devices, i \in Ids :
           \/ knows'[d][i] = knows[d][i]
           \/ i = id /\ rec'[id] # None /\ knows'[d][i] = Seen(rec'[id])
  <2>1. CASE UNCHANGED knows
    BY <2>1 DEF AnnotationsInv, RecordTyped
  <2>2. CASE knows' = Learned(n, status, row) /\ status = "applied"
    <3>1. rec'[id] = row
      BY <1>1, <1>2, <2>2 DEF AnnotationsInv, RecordTyped
    <3>. QED
      BY <1>1, <1>4, <2>2, <3>1, LearnedIsTheRecord
  <2>3. CASE knows' = Learned(n, status, row) /\ status # "applied"
    <3>1. rec'[id] = rec[id]
      BY <1>1, <2>3
    <3>2. status \in {"conflict", "duplicate"} => rec[id] # None
      BY AnswersAreStatuses
    <3>3. CASE status \in {"conflict", "duplicate"}
      <4>1. rec[id] \in Rows /\ rec[id] # None
        BY <3>2, <3>3, <1>2 DEF AnnotationsInv, RecordTyped
      <4>2. knows' = Learned(n, status, rec[id])
        BY <2>3 DEF Learned
      <4>. QED
        BY <1>1, <2>3, <3>1, <4>1, <4>2, LearnedIsTheRecord
    <3>4. CASE status \notin {"conflict", "duplicate"}
      <4>1. knows' = [knows EXCEPT ![w.dev][w.id] = Newer(@, Nothing)]
        BY <2>3, <3>4 DEF Learned
      <4>2. knows[w.dev][w.id] \in Copies
        BY <1>2 DEF AnnotationsInv, RecordTyped
      <4>3. Newer(knows[w.dev][w.id], Nothing) = knows[w.dev][w.id]
        BY <4>2, NewerIsOneOf
      <4>4. knows' = knows
        BY <4>1, <4>3, <1>2 DEF AnnotationsInv, RecordTyped
      <4>. QED
        BY <2>1, <4>4
    <3>. QED
      BY <3>3, <3>4
  <2>. QED
    BY <1>1, <2>1, <2>2, <2>3
<1>6. /\ rec' \in [Ids -> Rows \cup {None}]
      /\ \A i \in Ids : i # id => rec'[i] = rec[i]
      /\ status = "applied" => rec'[id] = row
      /\ status # "applied" => rec' = rec /\ seq' = seq /\ applied' = applied
  BY <1>1, <1>2, <1>4 DEF AnnotationsInv, RecordTyped
<1>7. /\ seq' \in 0..MaxSeq /\ seq \in Nat /\ seq <= seq'
      /\ status = "applied" => seq' = seq + 1
  BY <1>1 DEF AnnotationsInv, RecordTyped, AnnotationsAssumption
<1>8. /\ applied' \in [Numbers -> Nat]
      /\ \A m \in Numbers : m # n => applied'[m] = applied[m]
      /\ status = "applied" => applied'[n] = applied[n] + 1
  BY <1>1 DEF AnnotationsInv, RecordTyped
<1>9. held' = [held EXCEPT ![n] = FALSE]
  BY <1>1, <1>2, RetryIsRecognised
<1>. HIDE DEF row, status
<1>10. RecordTyped'
  BY <1>1, <1>3, <1>5, <1>6, <1>7, <1>8, <1>9 DEF AnnotationsInv, RecordTyped
<1>11. FeedOrdered'
  <2>1. CASE status # "applied"
    BY <1>1, <1>6, <2>1 DEF AnnotationsInv, FeedOrdered
  <2>2. CASE status = "applied"
    <3>1. \A i \in Ids : rec[i] # None => rec[i].seq \in Nat /\ rec[i].seq <= seq
      BY DEF AnnotationsInv, RecordTyped, Rows, FeedOrdered
    <3>2. \A i \in Ids : rec'[i] # None => rec'[i].seq <= seq'
      BY <1>4, <1>6, <1>7, <2>2, <3>1
    <3>3. \A i, j \in Ids :
             rec'[i] # None /\ rec'[j] # None /\ rec'[i].seq = rec'[j].seq => i = j
      <4>. SUFFICES ASSUME NEW i \in Ids, NEW j \in Ids,
                           rec'[i] # None, rec'[j] # None, rec'[i].seq = rec'[j].seq
           PROVE  i = j
        OBVIOUS
      <4>1. CASE i # id /\ j # id
        BY <4>1, <1>6 DEF AnnotationsInv, FeedOrdered
      <4>2. CASE i = id /\ j # id
        BY <4>2, <1>4, <1>6, <1>7, <2>2, <3>1
      <4>3. CASE i # id /\ j = id
        BY <4>3, <1>4, <1>6, <1>7, <2>2, <3>1
      <4>. QED
        BY <4>1, <4>2, <4>3
    <3>4. \A d \in Devices : cursor'[d] <= seq' /\ (pull'[d] # None => cursor'[d] <= pull'[d] /\ pull'[d] <= seq')
      <4>1. \A d \in Devices : cursor[d] \in Nat /\ pull[d] \in Nat \cup {None}
        BY DEF AnnotationsInv, RecordTyped
      <4>. QED
        BY <4>1, <1>1, <1>7, <2>2 DEF AnnotationsInv, FeedOrdered
    <3>. QED
      BY <3>2, <3>3, <3>4 DEF FeedOrdered
  <2>. QED
    BY <2>1, <2>2
<1>12. \A d \in Devices, i \in Ids :
         rec[i] # None => rec[i].rev \in Nat /\ knows[d][i].rev \in Nat /\ Seen(rec[i]).rev = rec[i].rev
  BY SeenIsACopy DEF AnnotationsInv, RecordTyped, Rows, Copies
<1>13. NeverAhead'
  <2>. SUFFICES ASSUME NEW d \in Devices, NEW i \in Ids \ reborn
       PROVE  IF rec'[i] = None THEN knows'[d][i] = Nothing
              ELSE knows'[d][i].rev < rec'[i].rev \/ knows'[d][i] = Seen(rec'[i])
    BY <1>1 DEF NeverAhead, Seen
  <2>1. CASE i = id /\ rec'[id] # None /\ knows'[d][i] = Seen(rec'[id])
    BY <2>1
  <2>2. CASE knows'[d][i] = knows[d][i] /\ (i # id \/ status # "applied")
    BY <2>2, <1>6 DEF AnnotationsInv, NeverAhead
  <2>3. CASE knows'[d][i] = knows[d][i] /\ i = id /\ status = "applied"
    <3>1. CASE rec[id] = None
      BY <2>3, <3>1, <1>4, <1>6 DEF AnnotationsInv, NeverAhead, Nothing
    <3>2. CASE rec[id] # None
      <4>1. knows[d][id].rev <= rec[id].rev
        BY <2>3, <3>2, <1>2, <1>12 DEF AnnotationsInv, NeverAhead
      <4>2. row.rev = rec[id].rev + 1
        BY <2>3, <3>2, <1>4
      <4>. QED
        BY <2>3, <3>2, <4>1, <4>2, <1>4, <1>6, <1>12
    <3>. QED
      BY <3>1, <3>2
  <2>. QED
    BY <1>5, <2>1, <2>2, <2>3
<1>14. BehindIsKnown'
  <2>. SUFFICES ASSUME NEW d \in Devices, NEW i \in Ids \ reborn,
                       rec'[i] # None, rec'[i].seq <= cursor[d]
       PROVE  knows'[d][i] = Seen(rec'[i])
    BY <1>1 DEF BehindIsKnown, Seen
  <2>1. CASE i = id /\ knows'[d][i] = Seen(rec'[id])
    BY <2>1
  <2>2. CASE knows'[d][i] = knows[d][i] /\ (i # id \/ status # "applied")
    BY <2>2, <1>6 DEF AnnotationsInv, BehindIsKnown
  <2>3. CASE i = id /\ status = "applied"
    <3>1. cursor[d] \in Nat /\ cursor[d] <= seq
      BY DEF AnnotationsInv, RecordTyped, FeedOrdered
    <3>. QED
      BY <2>3, <3>1, <1>4, <1>6, <1>7
  <2>. QED
    BY <1>5, <2>1, <2>2, <2>3
<1>15. AppliedMovesOn'
  <2>. SUFFICES ASSUME NEW m \in Numbers, writes[m] # None, writes[m].id \notin reborn
       PROVE  IF rec'[writes[m].id] = None THEN writes[m].base = 0 /\ applied'[m] = 0
              ELSE applied'[m] > 0 => writes[m].base < rec'[writes[m].id].rev
    BY <1>1 DEF AppliedMovesOn
  <2>1. CASE status # "applied"
    BY <2>1, <1>6 DEF AnnotationsInv, AppliedMovesOn
  <2>2. writes[m] \in Writes /\ writes[m].id \in Ids /\ writes[m].base \in Nat /\ applied[m] \in Nat
    BY DEF AnnotationsInv, RecordTyped, Writes
  <2>3. CASE status = "applied" /\ writes[m].id # id
    <3>1. m # n /\ rec'[writes[m].id] = rec[writes[m].id] /\ applied'[m] = applied[m]
      BY <2>2, <2>3, <1>6, <1>8
    <3>. QED
      BY <3>1 DEF AnnotationsInv, AppliedMovesOn
  <2>4. CASE status = "applied" /\ writes[m].id = id /\ m = n
    BY <2>4, <1>2, <1>4, <1>6 DEF AnnotationsInv, AppliedMovesOn
  <2>5. CASE status = "applied" /\ writes[m].id = id /\ m # n
    <3>1. applied'[m] = applied[m] /\ rec'[id] = row
      BY <2>5, <1>6, <1>8
    <3>2. CASE rec[id] = None
      BY <2>5, <3>1, <3>2, <1>4 DEF AnnotationsInv, AppliedMovesOn
    <3>3. CASE rec[id] # None
      BY <2>2, <2>5, <3>1, <3>3, <1>2, <1>4 DEF AnnotationsInv, AppliedMovesOn
    <3>. QED
      BY <3>2, <3>3
  <2>. QED
    BY <2>1, <2>3, <2>4, <2>5
<1>16. ContentHasAuthor'
  <2>1. \A m \in Numbers : writes'[m] = None => applied'[m] = 0
    BY <1>1, <1>6, <1>8 DEF AnnotationsInv, ContentHasAuthor
  <2>2. ASSUME NEW j \in Ids, rec'[j] # None
        PROVE  writes[rec'[j].by] # None /\ rec'[j].dead = writes[rec'[j].by].del
    <3>1. CASE j = id /\ status = "applied"
      BY <3>1, <1>1, <1>4, <1>6
    <3>2. CASE ~(j = id /\ status = "applied")
      BY <2>2, <3>2, <1>6 DEF AnnotationsInv, ContentHasAuthor
    <3>. QED
      BY <3>1, <3>2
  <2>. QED
    BY <1>1, <2>1, <2>2 DEF ContentHasAuthor
<1>17. AppliedOnce'
  <2>. SUFFICES ASSUME NEW m \in Numbers, applied'[m] > 1 PROVE writes[m].id \in reborn
    BY <1>1 DEF AppliedOnce
  <2>1. CASE m # n \/ status # "applied"
    BY <2>1, <1>6, <1>8 DEF AnnotationsInv, AppliedOnce
  <2>2. CASE m = n /\ status = "applied"
    <3>. SUFFICES ASSUME id \notin reborn PROVE FALSE
      BY <2>2
    <3>1. applied[n] > 0 /\ applied[n] \in Nat
      BY <2>2, <1>8 DEF AnnotationsInv, RecordTyped
    <3>2. rec[id] # None /\ w.base < rec[id].rev
      BY <3>1, <1>1 DEF AnnotationsInv, AppliedMovesOn
    <3>. QED
      BY <2>2, <3>2, <1>2, <1>4
  <2>. QED
    BY <2>1, <2>2
<1>18. RetryAcknowledged'
  BY <1>9 DEF AnnotationsInv, RecordTyped, RetryAcknowledged
<1>. QED
  BY <1>10, <1>11, <1>13, <1>14, <1>15, <1>16, <1>17, <1>18 DEF AnnotationsInv

-----------------------------------------------------------------------------
\* Removed records take what was said of them along.
LEMMA RemovedKeeps ==
    ASSUME AnnotationsAssumption, AnnotationsInv, NEW S \in SUBSET Ids,
           rec' = [i \in Ids |-> IF i \in S THEN None ELSE rec[i]], Removed(S),
           works' \subseteq Works, edition' \in works' \cup {None},
           UNCHANGED <<seq, clients, answer, held>>
    PROVE  AnnotationsInv'
<1>. USE DEF clients
<1>1. \A i \in Ids : rec'[i] # None => i \notin S /\ rec'[i] = rec[i]
  OBVIOUS
<1>2. /\ reborn' = reborn \cup S
      /\ \A n \in Numbers : applied'[n] = IF writes[n] # None /\ writes[n].id \in S THEN 0 ELSE applied[n]
      /\ applied' \in [Numbers -> Nat]
  BY DEF Removed, AnnotationsInv, RecordTyped
<1>3. RecordTyped'
  BY <1>2 DEF AnnotationsInv, RecordTyped
<1>4. FeedOrdered'
  BY <1>1 DEF AnnotationsInv, FeedOrdered
<1>5. NeverAhead' /\ BehindIsKnown'
  BY <1>1, <1>2 DEF AnnotationsInv, NeverAhead, BehindIsKnown, Seen
<1>6. AppliedMovesOn'
  <2>. SUFFICES ASSUME NEW n \in Numbers, writes[n] # None, writes[n].id \notin reborn'
       PROVE  IF rec'[writes[n].id] = None THEN writes[n].base = 0 /\ applied'[n] = 0
              ELSE applied'[n] > 0 => writes[n].base < rec'[writes[n].id].rev
    BY DEF AppliedMovesOn
  <2>1. writes[n].id \in Ids
    BY DEF AnnotationsInv, RecordTyped, Writes
  <2>2. rec'[writes[n].id] = rec[writes[n].id] /\ applied'[n] = applied[n]
    BY <2>1, <1>2
  <2>. QED
    BY <2>2, <1>2 DEF AnnotationsInv, AppliedMovesOn
<1>7. ContentHasAuthor'
  BY <1>1, <1>2 DEF AnnotationsInv, ContentHasAuthor
<1>8. AppliedOnce'
  BY <1>2 DEF AnnotationsInv, AppliedOnce
<1>9. RetryAcknowledged'
  BY DEF AnnotationsInv, RetryAcknowledged
<1>. QED
  BY <1>3, <1>4, <1>5, <1>6, <1>7, <1>8, <1>9 DEF AnnotationsInv

LEMMA SweepStep ==
    ASSUME AnnotationsAssumption, AnnotationsInv, NEW i \in Ids, Sweep(i) PROVE AnnotationsInv'
<1>1. rec' = [j \in Ids |-> IF j \in {i} THEN None ELSE rec[j]]
  BY DEF Sweep, AnnotationsInv, RecordTyped
<1>2. works' \subseteq Works /\ edition' \in works' \cup {None}
  BY DEF Sweep, AnnotationsInv, RecordTyped
<1>. QED
  BY <1>1, <1>2, RemovedKeeps DEF Sweep

LEMMA DeleteWorkStep ==
    ASSUME AnnotationsAssumption, AnnotationsInv, NEW w \in Works, DeleteWork(w) PROVE AnnotationsInv'
<1>. DEFINE S == {i \in Ids : rec[i] # None /\ rec[i].work = w}
<1>1. S \in SUBSET Ids /\ Removed(S) /\ rec' = [i \in Ids |-> IF i \in S THEN None ELSE rec[i]]
  BY DEF DeleteWork
<1>2. works' \subseteq Works /\ edition' \in works' \cup {None}
  BY DEF DeleteWork, AnnotationsInv, RecordTyped
<1>3. UNCHANGED <<seq, clients, answer, held>>
  BY DEF DeleteWork
<1>. HIDE DEF S
<1>. QED
  BY <1>1, <1>2, <1>3, RemovedKeeps

-----------------------------------------------------------------------------
Shifted(q, into, k) == [q EXCEPT !.work = into, !.rev = @ + 1, !.seq = k]

\* A moved row keeps its author and what it says.
LEMMA MovedRow ==
    ASSUME NEW q \in Rows, NEW into \in Works, NEW k \in 1..MaxSeq
    PROVE  /\ Shifted(q, into, k) \in Rows
           /\ Shifted(q, into, k).rev = q.rev + 1 /\ Shifted(q, into, k).seq = k
           /\ Shifted(q, into, k).by = q.by /\ Shifted(q, into, k).dead = q.dead
<1>. DEFINE p == [q EXCEPT !.work = into, !.rev = q.rev + 1]
            r == [p EXCEPT !.seq = k]
<1>1. q.rev + 1 \in Nat
  BY DEF Rows
<1>2. p \in Rows /\ p.rev = q.rev + 1 /\ p.by = q.by /\ p.dead = q.dead
  BY <1>1 DEF Rows
<1>3. r = Shifted(q, into, k)
  BY DEF Shifted
<1>. HIDE DEF p
<1>4. r \in Rows /\ r.rev = p.rev /\ r.seq = k /\ r.by = p.by /\ r.dead = p.dead
  BY <1>2 DEF Rows
<1>. HIDE DEF r
<1>. QED
  BY <1>2, <1>3, <1>4

\* Moved records are written again: beyond every cursor, and newer than all
\* that is known of them.
LEMMA MovedKeeps ==
    ASSUME AnnotationsAssumption, AnnotationsInv, NEW S \in SUBSET Ids, \A i \in S : rec[i] # None,
           NEW into \in Works, seq + Cardinality(S) <= MaxSeq, Moved(S, into),
           works' \subseteq Works, edition' \in works' \cup {None},
           UNCHANGED <<clients, answer, history>>
    PROVE  AnnotationsInv'
<1>. USE DEF clients, history
<1>1. /\ Cardinality(S) \in Nat
      /\ \A i \in S : Rank(S, i) \in 1..Cardinality(S)
      /\ \A i, j \in S : rec[i].seq < rec[j].seq => Rank(S, i) < Rank(S, j)
  BY RanksAreNew DEF AnnotationsInv, AnnotationsAssumption
<1>2. /\ seq \in Nat /\ seq' \in 0..MaxSeq /\ seq <= seq'
      /\ \A i \in S : seq + Rank(S, i) \in 1..MaxSeq /\ seq + Rank(S, i) <= seq'
                      /\ seq < seq + Rank(S, i)
  <2>1. seq' = seq + Cardinality(S)
    BY DEF Moved
  <2>2. seq \in Nat /\ MaxSeq \in Nat
    BY DEF AnnotationsInv, RecordTyped, AnnotationsAssumption
  <2>. QED
    BY <2>1, <2>2, <1>1
<1>3. \A i \in Ids : rec[i] # None => rec[i] \in Rows
  BY DEF AnnotationsInv, RecordTyped
<1>4. \A i \in S : /\ rec'[i] \in Rows /\ rec'[i] # None /\ rec'[i].rev = rec[i].rev + 1
                   /\ rec'[i].seq = seq + Rank(S, i) /\ rec'[i].by = rec[i].by
                   /\ rec'[i].dead = rec[i].dead
  <2>. SUFFICES ASSUME NEW i \in S
       PROVE /\ rec'[i] \in Rows /\ rec'[i] # None /\ rec'[i].rev = rec[i].rev + 1
             /\ rec'[i].seq = seq + Rank(S, i) /\ rec'[i].by = rec[i].by
             /\ rec'[i].dead = rec[i].dead
    OBVIOUS
  <2>. DEFINE k == seq + Rank(S, i)
              r == Shifted(rec[i], into, k)
  <2>1. rec[i] \in Rows
    BY <1>3
  <2>2. k \in 1..MaxSeq
    BY <1>2
  <2>3. rec'[i] = r
    BY DEF Moved, Shifted
  <2>. HIDE DEF k
  <2>4. /\ r \in Rows /\ r.rev = rec[i].rev + 1 /\ r.seq = k
        /\ r.by = rec[i].by /\ r.dead = rec[i].dead
    BY <2>1, <2>2, MovedRow
  <2>. HIDE DEF r
  <2>5. r # None
    BY <2>4 DEF AnnotationsAssumption
  <2>. QED
    BY <2>3, <2>4, <2>5 DEF k
<1>6. \A i \in Ids \ S : rec'[i] = rec[i]
  BY DEF Moved
<1>7. RecordTyped'
  <2>1. rec' = [i \in Ids |-> rec'[i]]
    BY DEF Moved
  <2>2. \A i \in Ids : rec'[i] \in Rows \cup {None}
    BY <1>3, <1>4, <1>6
  <2>3. rec' \in [Ids -> Rows \cup {None}]
    BY <2>1, <2>2
  <2>. QED
    BY <2>3, <1>2 DEF AnnotationsInv, RecordTyped
<1>8. \A i \in Ids : rec[i] # None => rec[i].seq \in Nat /\ rec[i].seq <= seq /\ rec[i].rev \in Nat
  BY <1>3 DEF AnnotationsInv, FeedOrdered, Rows
<1>9. FeedOrdered'
  <2>1. \A i \in Ids : rec'[i] # None => rec'[i].seq <= seq'
    BY <1>2, <1>4, <1>6, <1>8
  <2>2. ASSUME NEW i \in Ids, NEW j \in Ids, rec'[i] # None, rec'[j] # None, rec'[i].seq = rec'[j].seq
        PROVE  i = j
    <3>1. CASE i \in S /\ j \in S
      <4>1. Rank(S, i) = Rank(S, j)
        BY <2>2, <3>1, <1>1, <1>2, <1>4
      <4>2. ~(rec[i].seq < rec[j].seq) /\ ~(rec[j].seq < rec[i].seq)
        BY <3>1, <4>1, <1>1
      <4>3. rec[i].seq = rec[j].seq
        BY <3>1, <4>2, <1>8
      <4>. QED
        BY <3>1, <4>3 DEF AnnotationsInv, FeedOrdered
    <3>2. CASE i \in S /\ j \notin S
      BY <2>2, <3>2, <1>2, <1>4, <1>6, <1>8
    <3>3. CASE i \notin S /\ j \in S
      BY <2>2, <3>3, <1>2, <1>4, <1>6, <1>8
    <3>4. CASE i \notin S /\ j \notin S
      BY <2>2, <3>4, <1>6 DEF AnnotationsInv, FeedOrdered
    <3>. QED
      BY <3>1, <3>2, <3>3, <3>4
  <2>3. \A d \in Devices : cursor'[d] <= seq' /\ (pull'[d] # None => cursor'[d] <= pull'[d] /\ pull'[d] <= seq')
    <3>1. \A d \in Devices : cursor[d] \in Nat /\ pull[d] \in Nat \cup {None}
      BY DEF AnnotationsInv, RecordTyped
    <3>. QED
      BY <3>1, <1>2 DEF AnnotationsInv, FeedOrdered
  <2>. QED
    BY <2>1, <2>2, <2>3 DEF FeedOrdered
<1>10. NeverAhead'
  <2>. SUFFICES ASSUME NEW d \in Devices, NEW i \in Ids \ reborn
       PROVE  IF rec'[i] = None THEN knows[d][i] = Nothing
              ELSE knows[d][i].rev < rec'[i].rev \/ knows[d][i] = Seen(rec'[i])
    BY DEF NeverAhead, Seen
  <2>1. CASE i \in S
    <3>1. knows[d][i].rev \in Nat /\ knows[d][i].rev <= rec[i].rev
      BY <2>1, <1>3, <1>8, SeenIsACopy DEF AnnotationsInv, RecordTyped, Copies, NeverAhead
    <3>. QED
      BY <2>1, <3>1, <1>4, <1>8
  <2>2. CASE i \notin S
    BY <2>2, <1>6 DEF AnnotationsInv, NeverAhead
  <2>. QED
    BY <2>1, <2>2
<1>11. BehindIsKnown'
  <2>. SUFFICES ASSUME NEW d \in Devices, NEW i \in Ids \ reborn, rec'[i] # None,
                       rec'[i].seq <= cursor[d]
       PROVE  knows[d][i] = Seen(rec'[i])
    BY DEF BehindIsKnown, Seen
  <2>1. cursor[d] \in Nat /\ cursor[d] <= seq
    BY DEF AnnotationsInv, RecordTyped, FeedOrdered
  <2>2. i \notin S
    BY <2>1, <1>1, <1>2, <1>4
  <2>. QED
    BY <2>2, <1>6 DEF AnnotationsInv, BehindIsKnown
<1>12. AppliedMovesOn'
  <2>. SUFFICES ASSUME NEW n \in Numbers, writes[n] # None, writes[n].id \notin reborn
       PROVE  IF rec'[writes[n].id] = None THEN writes[n].base = 0 /\ applied[n] = 0
              ELSE applied[n] > 0 => writes[n].base < rec'[writes[n].id].rev
    BY DEF AppliedMovesOn
  <2>1. writes[n].id \in Ids /\ writes[n].base \in Nat
    BY DEF AnnotationsInv, RecordTyped, Writes
  <2>2. CASE writes[n].id \in S
    BY <2>1, <2>2, <1>4, <1>8 DEF AnnotationsInv, AppliedMovesOn
  <2>3. CASE writes[n].id \notin S
    BY <2>1, <2>3, <1>6 DEF AnnotationsInv, AppliedMovesOn
  <2>. QED
    BY <2>2, <2>3
<1>13. ContentHasAuthor'
  <2>1. \A i \in Ids : rec'[i] # None =>
           rec[i] # None /\ rec'[i].by = rec[i].by /\ rec'[i].dead = rec[i].dead
    BY <1>4, <1>6
  <2>. QED
    BY <2>1 DEF AnnotationsInv, ContentHasAuthor
<1>14. AppliedOnce' /\ RetryAcknowledged'
  BY DEF AnnotationsInv, AppliedOnce, RetryAcknowledged
<1>. QED
  BY <1>7, <1>9, <1>10, <1>11, <1>12, <1>13, <1>14 DEF AnnotationsInv

LEMMA SplitStep ==
    ASSUME AnnotationsAssumption, AnnotationsInv, NEW w \in Works, Split(w) PROVE AnnotationsInv'
<1>. DEFINE S == {i \in Ids : rec[i] # None /\ rec[i].work = edition /\ rec[i].ed}
<1>1. /\ S \in SUBSET Ids /\ \A i \in S : rec[i] # None
      /\ seq + Cardinality(S) <= MaxSeq /\ Moved(S, w)
      /\ UNCHANGED <<clients, answer, history>>
  BY DEF Split
<1>2. works' \subseteq Works /\ edition' \in works' \cup {None}
  BY DEF Split, AnnotationsInv, RecordTyped
<1>. HIDE DEF S
<1>. QED
  BY <1>1, <1>2, MovedKeeps

LEMMA MergeStep ==
    ASSUME AnnotationsAssumption, AnnotationsInv, NEW from \in Works, NEW into \in Works, Merge(from, into)
    PROVE  AnnotationsInv'
<1>. DEFINE S == {i \in Ids : rec[i] # None /\ rec[i].work = from}
<1>1. /\ S \in SUBSET Ids /\ \A i \in S : rec[i] # None
      /\ seq + Cardinality(S) <= MaxSeq /\ Moved(S, into)
      /\ UNCHANGED <<clients, answer, history>>
  BY DEF Merge
<1>2. works' \subseteq Works /\ edition' \in works' \cup {None}
  BY DEF Merge, AnnotationsInv, RecordTyped
<1>. HIDE DEF S
<1>. QED
  BY <1>1, <1>2, MovedKeeps

-----------------------------------------------------------------------------
Beyond(d) == {i \in Ids : rec[i] # None /\ rec[i].seq > cursor[d]}

\* A page is the first of what is newer than the cursor, and is empty only when
\* nothing is.
LEMMA PageIsFirst ==
    ASSUME AnnotationsAssumption, RecordTyped, NEW d \in Devices
    PROVE  /\ Page(d) \subseteq Beyond(d)
           /\ Page(d) = {} => Beyond(d) = {}
           /\ Page(d) # {} =>
                \E i \in Page(d) :
                   /\ Advanced(d) = rec[i].seq
                   /\ \A j \in Beyond(d) : rec[j].seq <= rec[i].seq => j \in Page(d)
<1>. DEFINE N == Beyond(d)
            Lower(i) == {j \in N : rec[j].seq < rec[i].seq}
<1>1. Page(d) = {i \in N : Cardinality(Lower(i)) < Limit}
  BY DEF Page, Beyond
<1>2. N \subseteq Ids /\ IsFiniteSet(N)
  BY FS_Subset DEF Beyond, AnnotationsAssumption
<1>3. \A i \in N : rec[i].seq \in 1..MaxSeq
  BY DEF Beyond, RecordTyped, Rows
<1>4. \A i \in N : Lower(i) \in SUBSET N /\ IsFiniteSet(Lower(i)) /\ Cardinality(Lower(i)) \in Nat
  BY <1>2, FS_Subset, FS_CardinalityType
<1>5. ASSUME NEW i \in Page(d), NEW j \in N, rec[j].seq <= rec[i].seq
      PROVE  j \in Page(d)
  <2>1. i \in N /\ Cardinality(Lower(i)) < Limit
    BY <1>1
  <2>2. Lower(j) \in SUBSET Lower(i)
    BY <1>3, <1>5, <2>1
  <2>3. Cardinality(Lower(j)) <= Cardinality(Lower(i))
    BY <1>4, <2>1, <2>2, FS_Subset
  <2>4. Cardinality(Lower(j)) \in Nat /\ Cardinality(Lower(i)) \in Nat /\ Limit \in Nat
    BY <1>4, <2>1 DEF AnnotationsAssumption
  <2>5. Cardinality(Lower(j)) < Limit
    BY <2>1, <2>3, <2>4
  <2>. QED
    BY <1>1, <2>5
<1>6. ASSUME N # {} PROVE Page(d) # {}
  <2>. DEFINE T == {rec[i].seq : i \in N}
  <2>1. T \in SUBSET Nat /\ T # {}
    BY <1>3, <1>6
  <2>2. PICK x \in T : \A y \in T : x <= y
    BY <2>1, MinExists
  <2>3. PICK i \in N : x = rec[i].seq
    BY <2>2
  <2>4. \A j \in N : rec[i].seq <= rec[j].seq
    BY <2>2, <2>3
  <2>5. \A j \in N : ~(rec[j].seq < rec[i].seq)
    <3>. HIDE DEF N, T
    <3>. QED
      BY <1>3, <2>4
  <2>6. Lower(i) = {}
    BY <2>5
  <2>7. Cardinality(Lower(i)) = 0
    BY <2>6, FS_EmptySet
  <2>. HIDE DEF Lower, N
  <2>8. Cardinality(Lower(i)) < Limit
    BY <2>7 DEF AnnotationsAssumption
  <2>. QED
    BY <1>1, <2>3, <2>8
<1>7. ASSUME Page(d) # {}
      PROVE  \E i \in Page(d) : Advanced(d) = rec[i].seq
  <2>. DEFINE T == {rec[i].seq : i \in Page(d)}
              R == {MaxSeq - s : s \in T}
  <2>1. T \in SUBSET (1..MaxSeq) /\ T # {}
    BY <1>1, <1>3, <1>7
  <2>. HIDE DEF T
  <2>2. R \in SUBSET Nat /\ R # {}
    <3>1. \A s \in T : MaxSeq - s \in Nat
      BY <2>1 DEF AnnotationsAssumption
    <3>. QED
      BY <2>1, <3>1
  <2>3. PICK x \in R : \A y \in R : x <= y
    BY <2>2, MinExists
  <2>4. PICK s \in T : x = MaxSeq - s
    BY <2>3
  <2>5. \A u \in T : u <= s
    <3>1. \A u \in T : MaxSeq - s <= MaxSeq - u
      BY <2>3, <2>4
    <3>2. MaxSeq \in Nat /\ s \in Nat /\ \A u \in T : u \in Nat
      BY <2>1 DEF AnnotationsAssumption
    <3>. QED
      BY <3>1, <3>2
  <2>6. \A i \in Page(d) : rec[i].seq <= s
    BY <2>5 DEF T
  <2>7. Advanced(d) \in T
    BY <1>7, <2>6 DEF Advanced, T
  <2>. QED
    BY <2>7 DEF T
<1>. QED
  BY <1>1, <1>5, <1>6, <1>7

LEMMA ReadHighWaterStep ==
    ASSUME AnnotationsAssumption, AnnotationsInv, NEW d \in Devices, ReadHighWater(d) PROVE AnnotationsInv'
<1>. USE DEF ReadHighWater, server, history
<1>1. RecordTyped'
  BY DEF AnnotationsInv, RecordTyped
<1>2. FeedOrdered'
  <2>1. \A e \in Devices : pull'[e] = IF e = d THEN seq ELSE pull[e]
    BY DEF AnnotationsInv, RecordTyped
  <2>. QED
    BY <2>1 DEF AnnotationsInv, RecordTyped, FeedOrdered
<1>3. NeverAhead' /\ BehindIsKnown'
  BY DEF AnnotationsInv, NeverAhead, BehindIsKnown, Seen
<1>4. AppliedMovesOn' /\ ContentHasAuthor'
  BY DEF AnnotationsInv, AppliedMovesOn, ContentHasAuthor
<1>5. AppliedOnce' /\ RetryAcknowledged'
  BY DEF AnnotationsInv, AppliedOnce, RetryAcknowledged
<1>. QED
  BY <1>1, <1>2, <1>3, <1>4, <1>5 DEF AnnotationsInv

LEMMA ReadRowsStep ==
    ASSUME AnnotationsAssumption, AnnotationsInv, NEW d \in Devices, ReadRows(d) PROVE AnnotationsInv'
<1>. USE DEF server, history
<1>1. /\ pull[d] # None
      /\ knows' = [knows EXCEPT ![d] =
            [i \in Ids |-> IF i \in Page(d) THEN Newer(knows[d][i], Seen(rec[i])) ELSE knows[d][i]]]
      /\ cursor' = [cursor EXCEPT ![d] = Advanced(d)]
      /\ pull' = [pull EXCEPT ![d] = None]
      /\ UNCHANGED <<server, moves, writes, tries, answer, history>>
  BY DEF ReadRows
<1>2. /\ Page(d) \subseteq Beyond(d)
      /\ Page(d) = {} => Beyond(d) = {}
      /\ Page(d) # {} =>
           \E i \in Page(d) :
              /\ Advanced(d) = rec[i].seq
              /\ \A j \in Beyond(d) : rec[j].seq <= rec[i].seq => j \in Page(d)
  BY PageIsFirst DEF AnnotationsInv
<1>3. \A i \in Ids : rec[i] # None =>
         rec[i] \in Rows /\ rec[i].seq \in 1..MaxSeq /\ rec[i].seq <= seq /\ rec[i].rev \in Nat
  BY DEF AnnotationsInv, RecordTyped, FeedOrdered, Rows
<1>4. seq \in 0..MaxSeq /\ cursor[d] \in 0..MaxSeq /\ pull[d] \in 0..MaxSeq /\ pull[d] <= seq
  BY <1>1 DEF AnnotationsInv, RecordTyped, FeedOrdered
<1>5. Advanced(d) \in 0..MaxSeq /\ Advanced(d) <= seq
  <2>1. CASE Page(d) = {}
    BY <2>1, <1>4 DEF Advanced
  <2>2. CASE Page(d) # {}
    BY <2>2, <1>2, <1>3, <1>4 DEF Beyond
  <2>. QED
    BY <2>1, <2>2
<1>6. \A i \in Page(d) : i \in Ids /\ rec[i] # None
  BY <1>2 DEF Beyond
<1>7. \A i \in Page(d) : /\ Newer(knows[d][i], Seen(rec[i])) \in Copies
                         /\ Newer(knows[d][i], Seen(rec[i])) \in {knows[d][i], Seen(rec[i])}
                         /\ i \notin reborn => Newer(knows[d][i], Seen(rec[i])) = Seen(rec[i])
  <2>. SUFFICES ASSUME NEW i \in Page(d)
       PROVE /\ Newer(knows[d][i], Seen(rec[i])) \in Copies
             /\ Newer(knows[d][i], Seen(rec[i])) \in {knows[d][i], Seen(rec[i])}
             /\ i \notin reborn => Newer(knows[d][i], Seen(rec[i])) = Seen(rec[i])
    OBVIOUS
  <2>1. Seen(rec[i]) \in Copies /\ Seen(rec[i]).rev = rec[i].rev /\ knows[d][i] \in Copies
    BY <1>3, <1>6, SeenIsACopy DEF AnnotationsInv, RecordTyped
  <2>2. Newer(knows[d][i], Seen(rec[i])) \in {knows[d][i], Seen(rec[i])}
    BY <2>1, NewerIsOneOf
  <2>3. i \notin reborn => knows[d][i].rev < rec[i].rev \/ knows[d][i] = Seen(rec[i])
    BY <1>6 DEF AnnotationsInv, NeverAhead
  <2>4. knows[d][i].rev < rec[i].rev => Newer(knows[d][i], Seen(rec[i])) = Seen(rec[i])
    BY <1>3, <1>6, <2>1 DEF Newer, Copies
  <2>. QED
    BY <2>1, <2>2, <2>3, <2>4
<1>8. /\ knows' \in [Devices -> [Ids -> Copies]]
      /\ \A e \in Devices, i \in Ids :
           knows'[e][i] = IF e = d /\ i \in Page(d) THEN Newer(knows[d][i], Seen(rec[i])) ELSE knows[e][i]
  <2>. DEFINE f == [i \in Ids |-> IF i \in Page(d) THEN Newer(knows[d][i], Seen(rec[i])) ELSE knows[d][i]]
  <2>1. knows \in [Devices -> [Ids -> Copies]]
    BY DEF AnnotationsInv, RecordTyped
  <2>2. f \in [Ids -> Copies]
    BY <1>7, <2>1
  <2>3. \A i \in Ids : f[i] = IF i \in Page(d) THEN Newer(knows[d][i], Seen(rec[i])) ELSE knows[d][i]
    OBVIOUS
  <2>4. knows' = [knows EXCEPT ![d] = f]
    BY <1>1
  <2>. HIDE DEF f
  <2>. QED
    BY <2>1, <2>2, <2>3, <2>4
<1>9. /\ cursor' \in [Devices -> 0..MaxSeq] /\ pull' \in [Devices -> (0..MaxSeq) \cup {None}]
      /\ \A e \in Devices : cursor'[e] = IF e = d THEN Advanced(d) ELSE cursor[e]
      /\ \A e \in Devices : pull'[e] = IF e = d THEN None ELSE pull[e]
  BY <1>1, <1>5 DEF AnnotationsInv, RecordTyped
<1>10. RecordTyped'
  BY <1>1, <1>8, <1>9 DEF AnnotationsInv, RecordTyped
<1>11. FeedOrdered'
  BY <1>1, <1>5, <1>9 DEF AnnotationsInv, FeedOrdered
<1>12. NeverAhead'
  <2>. SUFFICES ASSUME NEW e \in Devices, NEW i \in Ids \ reborn
       PROVE  IF rec[i] = None THEN knows'[e][i] = Nothing
              ELSE knows'[e][i].rev < rec[i].rev \/ knows'[e][i] = Seen(rec[i])
    BY <1>1 DEF NeverAhead, Seen
  <2>1. CASE e = d /\ i \in Page(d)
    BY <2>1, <1>6, <1>7, <1>8
  <2>2. CASE ~(e = d /\ i \in Page(d))
    BY <2>2, <1>8 DEF AnnotationsInv, NeverAhead
  <2>. QED
    BY <2>1, <2>2
<1>13. BehindIsKnown'
  <2>. SUFFICES ASSUME NEW e \in Devices, NEW i \in Ids \ reborn, rec[i] # None,
                       rec[i].seq <= cursor'[e]
       PROVE  knows'[e][i] = Seen(rec[i])
    BY <1>1 DEF BehindIsKnown, Seen
  <2>1. CASE e # d
    BY <2>1, <1>8, <1>9 DEF AnnotationsInv, BehindIsKnown
  <2>2. CASE e = d /\ i \in Page(d)
    BY <2>2, <1>7, <1>8
  <2>3. CASE e = d /\ i \notin Page(d)
    <3>1. i \notin Beyond(d)
      BY <2>3, <1>2, <1>9
    <3>2. rec[i].seq <= cursor[d]
      BY <3>1, <1>3, <1>4 DEF Beyond
    <3>. QED
      BY <2>3, <3>2, <1>8 DEF AnnotationsInv, BehindIsKnown
  <2>. QED
    BY <2>1, <2>2, <2>3
<1>14. AppliedMovesOn' /\ ContentHasAuthor'
  BY <1>1 DEF AnnotationsInv, AppliedMovesOn, ContentHasAuthor
<1>15. AppliedOnce' /\ RetryAcknowledged'
  BY <1>1 DEF AnnotationsInv, AppliedOnce, RetryAcknowledged
<1>. QED
  BY <1>10, <1>11, <1>12, <1>13, <1>14, <1>15 DEF AnnotationsInv

-----------------------------------------------------------------------------
(* The inductive invariant holds of every behaviour.                       *)
THEOREM AnnotationsInvariant == ASSUME AnnotationsAssumption PROVE Spec => []AnnotationsInv
<1>1. Init => AnnotationsInv
  BY InitHolds
<1>2. AnnotationsInv /\ [Next]_vars => AnnotationsInv'
  <2>. SUFFICES ASSUME AnnotationsInv, [Next]_vars PROVE AnnotationsInv'
    OBVIOUS
  <2>1. CASE \E d \in Devices, i \in Ids : Think(d, i)
    BY <2>1, ThinkStep
  <2>2. CASE \E n \in Numbers : Serve(n)
    BY <2>2, ServeStep
  <2>3. CASE \E i \in Ids : Sweep(i)
    BY <2>3, SweepStep
  <2>4. CASE \E w \in Works : Split(w) \/ DeleteWork(w)
    BY <2>4, SplitStep, DeleteWorkStep
  <2>5. CASE \E from, into \in Works : Merge(from, into)
    BY <2>5, MergeStep
  <2>6. CASE \E d \in Devices : ReadHighWater(d) \/ ReadRows(d)
    BY <2>6, ReadHighWaterStep, ReadRowsStep
  <2>7. CASE UNCHANGED vars
    BY <2>7 DEF vars, AnnotationsInv, RecordTyped, FeedOrdered, NeverAhead, BehindIsKnown, AppliedMovesOn,
                ContentHasAuthor, AppliedOnce, RetryAcknowledged, Seen
  <2>. QED
    BY <2>1, <2>2, <2>3, <2>4, <2>5, <2>6, <2>7 DEF Next
<1>. QED
  BY <1>1, <1>2, PTL DEF Spec

(* Rows, copies and cursors keep their types, a place of the feed belongs  *)
(* to one record, and no row is beyond the counter.                        *)
THEOREM AnnotationsTyped == ASSUME AnnotationsAssumption PROVE Spec => []TypeOK
<1>1. AnnotationsInv => TypeOK
  BY DEF AnnotationsInv, RecordTyped, FeedOrdered, TypeOK
<1>. QED
  BY <1>1, AnnotationsInvariant, PTL

(* A device whose cursor is at the counter holds every record that was     *)
(* never removed as the server does (AnnotationChanges).                   *)
THEOREM AnnotationsPulled == ASSUME AnnotationsAssumption PROVE Spec => []PulledIsCurrent
<1>1. AnnotationsInv => PulledIsCurrent
  BY DEF AnnotationsInv, FeedOrdered, BehindIsKnown, PulledIsCurrent
<1>. QED
  BY <1>1, AnnotationsInvariant, PTL

(* However often a write is sent again, its record takes it once, unless   *)
(* the record was removed and started over (pushAnnotationTx).             *)
THEOREM AnnotationsApplyOnce == ASSUME AnnotationsAssumption PROVE Spec => []AppliedOnce
<1>1. AnnotationsInv => AppliedOnce
  BY DEF AnnotationsInv
<1>. QED
  BY <1>1, AnnotationsInvariant, PTL

(* The retry of an accepted write that is still its record's content is    *)
(* answered as a duplicate, also when the record had started over          *)
(* (pushAnnotationTx, the arm for revision 1).                             *)
THEOREM AnnotationsAcknowledge == ASSUME AnnotationsAssumption PROVE Spec => []RetryAcknowledged
<1>1. AnnotationsInv => RetryAcknowledged
  BY DEF AnnotationsInv
<1>. QED
  BY <1>1, AnnotationsInvariant, PTL

-----------------------------------------------------------------------------
(* Translations.  A cursor is a stamp and a key, so a row is lost to a     *)
(* device when it is written at or behind the device's cursor.  The        *)
(* inductive invariant keeps the mark between the two (UnderMark): rows    *)
(* and cursors are at or below it, and the stamp a push holds between its  *)
(* two steps is above it (OpenPush).                                       *)
(*                                                                         *)
(* The theorems are about databases that have had the mark from the start: *)
(* Seeded.  One that grew before it may lose the rows, and with them the   *)
(* only trace of the stamps it gave out, before the first push.            *)

Held == [work : CachedWorks, at : Nat, key : Keys \cup {0}, copy : [Keys -> Texts \cup {Absent}]]

CacheTyped ==
    /\ cachedWorks \subseteq CachedWorks
    /\ rows \subseteq CacheRows /\ IsFiniteSet(rows)
    /\ high \in Nat \cup {Absent}
    /\ txn \in [Pushers -> Transactions \cup {Absent}]
    /\ puller \in [Pullers -> Held]
    /\ pushes \in 0..MaxPushes

\* A row is on a work that exists, and a work has one row per key.
OnWorks == \A r \in rows : r.work \in cachedWorks
OnePerKey == \A r, s \in rows : r.work = s.work /\ r.key = s.key => r = s

\* The highest stamp given out by a write that committed.
Top == IF high = Absent THEN 0 ELSE high

UnderMark ==
    /\ \A r \in rows : 0 < r.at /\ r.at <= Top
    /\ \A p \in Pullers : puller[p].at <= Top

\* One push is open at a time, on a work that exists, with a stamp of its own.
OpenPush ==
    \A d \in Pushers : txn[d] # Absent =>
        /\ txn[d].work \in cachedWorks
        /\ txn[d].at > Top
        /\ \A e \in Pushers : txn[e] # Absent => e = d

CacheInv ==
    /\ CacheTyped /\ OnWorks /\ OnePerKey /\ UnderMark /\ OpenPush /\ NothingBehindTheCursor

-----------------------------------------------------------------------------
(* The order of the feed.                                                  *)

\* The feed's order on rows and cursors.
LEMMA BeforeIsAnOrder ==
    /\ \A r : (r.at \in Nat /\ r.key \in Nat) => ~Before(r, r)
    /\ \A r, s, t : (/\ r.at \in Nat /\ r.key \in Nat /\ s.at \in Nat /\ s.key \in Nat
                     /\ t.at \in Nat /\ t.key \in Nat /\ Before(r, s) /\ Before(s, t)) => Before(r, t)
    /\ \A r, s : (/\ r.at \in Nat /\ r.key \in Nat /\ s.at \in Nat /\ s.key \in Nat
                  /\ ~Before(r, s) /\ ~Before(s, r)) => r.at = s.at /\ r.key = s.key
  BY DEF Before

\* A finite set of rows has a last one.
LEMMA LastExists ==
    ASSUME NEW S, IsFiniteSet(S), S # {}, \A r \in S : r.at \in Nat /\ r.key \in Nat
    PROVE  \E r \in S : \A s \in S : ~Before(r, s)
<1>. DEFINE Later(r) == {s \in S : Before(r, s)}
            T == {Cardinality(Later(r)) : r \in S}
<1>1. \A r \in S : Later(r) \in SUBSET S /\ IsFiniteSet(Later(r)) /\ Cardinality(Later(r)) \in Nat
  BY FS_Subset, FS_CardinalityType
<1>2. T \in SUBSET Nat /\ T # {}
  BY <1>1
<1>3. PICK x \in T : \A y \in T : x <= y
  BY <1>2, MinExists
<1>4. PICK r \in S : x = Cardinality(Later(r))
  BY <1>3
<1>5. ASSUME NEW s \in S, Before(r, s) PROVE FALSE
  <2>1. Later(s) \in SUBSET Later(r)
    BY <1>5, BeforeIsAnOrder
  <2>2. s \in Later(r) /\ s \notin Later(s)
    BY <1>5, BeforeIsAnOrder
  <2>3. Cardinality(Later(s)) <= Cardinality(Later(r)) /\ Cardinality(Later(s)) # Cardinality(Later(r))
    BY <1>1, <2>1, <2>2, FS_Subset
  <2>4. Cardinality(Later(s)) \in T
    OBVIOUS
  <2>5. Cardinality(Later(r)) <= Cardinality(Later(s))
    BY <1>3, <1>4, <2>4, Zenon
  <2>6. Cardinality(Later(r)) \in Nat /\ Cardinality(Later(s)) \in Nat
    BY <1>1
  <2>. HIDE DEF Later, T
  <2>. QED
    BY <2>3, <2>5, <2>6
<1>. QED
  BY <1>5

-----------------------------------------------------------------------------
(* What the helpers of the model return.                                   *)

\* A stamp is above every stamp given out before, whatever the clock shows.
LEMMA StampIsNew ==
    ASSUME TranslationsAssumption, CacheInv, NEW now \in Clock
    PROVE  Stamp(now) \in Nat /\ Stamp(now) > Top
<1>1. now \in Nat /\ now > 0
  BY DEF TranslationsAssumption
<1>2. CASE high # Absent
  <2>1. high \in Nat /\ Mark = high /\ Top = high
    BY <1>2 DEF CacheInv, CacheTyped, Mark, Top
  <2>. QED
    BY <1>1, <1>2, <2>1 DEF Stamp
<1>3. CASE high = Absent
  <2>1. Top = 0
    BY <1>3 DEF Top
  <2>2. rows = {}
    BY <2>1 DEF CacheInv, UnderMark, CacheTyped, CacheRows
  <2>3. Mark = Absent
    BY <1>3, <2>2 DEF Mark
  <2>. QED
    BY <1>1, <2>1, <2>3 DEF Stamp
<1>. QED
  BY <1>2, <1>3

LEMMA TopIsNatural ==
    ASSUME TranslationsAssumption, CacheInv
    PROVE  Top \in Nat
  BY DEF CacheInv, CacheTyped, Top, TranslationsAssumption

\* A row an upsert leaves is an old one or carries the new stamp, and no key
\* of the work has two.
LEMMA UpsertedRows ==
    ASSUME TranslationsAssumption, CacheInv,
           NEW w \in cachedWorks, NEW items \in Batches, NEW at \in Nat
    PROVE  /\ Upserted(w, items, at) \subseteq CacheRows
           /\ IsFiniteSet(Upserted(w, items, at))
           /\ \A r \in Upserted(w, items, at) : r.work \in cachedWorks /\ (r \in rows \/ r.at = at)
           /\ \A r, s \in Upserted(w, items, at) : r.work = s.work /\ r.key = s.key => r = s
<1>. DEFINE changed == {k \in DOMAIN items : ~\E r \in Of(w) : r.key = k /\ r.text = items[k]}
            new == [k \in changed |-> [work |-> w, key |-> k, text |-> items[k], at |-> at]]
            Old == {r \in rows : r.work # w \/ r.key \notin changed}
            New == {new[k] : k \in changed}
<1>1. PICK K \in SUBSET Keys : items \in [K -> Texts]
  BY DEF Batches
<1>2. changed \subseteq K /\ K \subseteq Keys /\ w \in CachedWorks
  BY <1>1 DEF CacheInv, CacheTyped
<1>3. IsFiniteSet(changed)
  BY <1>2, FS_Subset DEF TranslationsAssumption
<1>4. \A k \in changed : items[k] \in Texts /\ k \in Keys
  BY <1>1, <1>2
<1>5. Upserted(w, items, at) = Old \cup New
  BY DEF Upserted
<1>. HIDE DEF changed
<1>6. \A k \in changed : new[k] = [work |-> w, key |-> k, text |-> items[k], at |-> at]
  OBVIOUS
<1>7. \A k \in changed : new[k] \in CacheRows /\ new[k].work = w /\ new[k].key = k /\ new[k].at = at
  BY <1>2, <1>4, <1>6 DEF CacheRows
<1>. HIDE DEF new
<1>8. New \subseteq CacheRows /\ \A r \in New : r.work = w /\ r.key \in changed /\ r.at = at /\ r = new[r.key]
  BY <1>7
<1>9. IsFiniteSet(New)
  BY <1>3, ImageIsFinite
<1>10. Old \subseteq rows /\ IsFiniteSet(Old)
  BY FS_Subset DEF CacheInv, CacheTyped
<1>11. IsFiniteSet(Old \cup New)
  BY <1>9, <1>10, FS_Union
<1>12. \A r \in Old : r.work # w \/ r.key \notin changed
  OBVIOUS
<1>. HIDE DEF Old, New
<1>13. \A r, s \in Old \cup New : r.work = s.work /\ r.key = s.key => r = s
  BY <1>8, <1>10, <1>12 DEF CacheInv, OnePerKey
<1>. QED
  BY <1>5, <1>8, <1>10, <1>11, <1>13 DEF CacheInv, CacheTyped, OnWorks

\* A row a merge leaves is an old one of another work than the absorbed, or
\* one of the survivor's with the new stamp.
LEMMA CarriedRows ==
    ASSUME TranslationsAssumption, CacheInv,
           NEW from \in cachedWorks, NEW into \in cachedWorks, from # into, NEW at \in Nat
    PROVE  /\ Carried(from, into, at) \subseteq CacheRows
           /\ IsFiniteSet(Carried(from, into, at))
           /\ \A r \in Carried(from, into, at) :
                 r.work \in cachedWorks \ {from} /\ (r \in rows \/ r.at = at)
           /\ \A r, s \in Carried(from, into, at) : r.work = s.work /\ r.key = s.key => r = s
<1>. DEFINE Going == {r \in Of(from) : \A s \in Of(into) : s.key # r.key}
            new == [r \in Going |-> [r EXCEPT !.work = into, !.at = at]]
            Old == rows \ Of(from)
            New == {new[r] : r \in Going}
<1>1. Going \subseteq rows /\ IsFiniteSet(Going)
  BY FS_Subset DEF CacheInv, CacheTyped, Of
<1>2. Carried(from, into, at) = Old \cup New
  BY DEF Carried
<1>3. \A r \in Going : r \in CacheRows /\ r.work = from /\ \A s \in Of(into) : s.key # r.key
  BY <1>1 DEF Of, CacheInv, CacheTyped
<1>4. into \in CachedWorks /\ from \in CachedWorks
  BY DEF CacheInv, CacheTyped
<1>. HIDE DEF Going
<1>5. \A r \in Going : /\ new[r] \in CacheRows /\ new[r].work = into /\ new[r].at = at
                       /\ new[r].key = r.key
  BY <1>3, <1>4 DEF CacheRows
<1>. HIDE DEF new
<1>6. New \subseteq CacheRows
  BY <1>5
<1>7. IsFiniteSet(New)
  BY <1>1, ImageIsFinite
<1>8. Old \subseteq rows /\ IsFiniteSet(Old) /\ \A r \in Old : r.work # from
  BY FS_Subset DEF CacheInv, CacheTyped, Of
<1>9. IsFiniteSet(Old \cup New)
  BY <1>7, <1>8, FS_Union
<1>10. \A r \in Old, q \in Going : r.work = into => r.key # q.key
  BY <1>3, <1>8 DEF Of
<1>11. \A r, s \in Going : r.key = s.key => r = s
  BY <1>1, <1>3 DEF CacheInv, OnePerKey
<1>. HIDE DEF Old
<1>12. ASSUME NEW r \in Old \cup New, NEW s \in Old \cup New, r.work = s.work, r.key = s.key
       PROVE  r = s
  <2>1. CASE r \in Old /\ s \in Old
    BY <1>8, <1>12, <2>1 DEF CacheInv, OnePerKey
  <2>2. CASE r \in Old /\ s \in New
    BY <1>5, <1>10, <1>12, <2>2
  <2>3. CASE r \in New /\ s \in Old
    BY <1>5, <1>10, <1>12, <2>3
  <2>4. CASE r \in New /\ s \in New
    BY <1>5, <1>11, <1>12, <2>4
  <2>. QED
    BY <1>12, <2>1, <2>2, <2>3, <2>4
<1>13. \A r \in Old \cup New : r.work \in cachedWorks \ {from} /\ (r \in rows \/ r.at = at)
  BY <1>5, <1>8 DEF CacheInv, OnWorks
<1>. HIDE DEF New
<1>14. Old \cup New \subseteq CacheRows
  BY <1>6, <1>8 DEF CacheInv, CacheTyped
<1>. QED
  BY <1>2, <1>9, <1>12, <1>13, <1>14

-----------------------------------------------------------------------------
(* The initial states, and one lemma per action.                           *)

LEMMA CacheInitInv ==
    ASSUME TranslationsAssumption, Seeded, CacheInit
    PROVE  CacheInv
<1>1. rows = {} /\ cachedWorks = CachedWorks /\ high = Absent /\ pushes = 0
  BY DEF CacheInit
<1>2. \A w \in CachedWorks : Fresh(w) \in Held /\ Fresh(w).at = 0
  BY DEF Fresh, Held
<1>3. puller \in [Pullers -> {Fresh(w) : w \in CachedWorks}]
  BY DEF CacheInit
<1>4. puller \in [Pullers -> Held] /\ \A p \in Pullers : puller[p].at = 0
  BY <1>2, <1>3
<1>5. txn \in [Pushers -> Transactions \cup {Absent}] /\ \A d \in Pushers : txn[d] = Absent
  BY DEF CacheInit
<1>6. CacheTyped
  BY <1>1, <1>4, <1>5, FS_EmptySet DEF CacheTyped, TranslationsAssumption
<1>7. UnderMark
  BY <1>1, <1>4 DEF UnderMark, Top
<1>. QED
  BY <1>1, <1>5, <1>6, <1>7
  DEF CacheInv, OnWorks, OnePerKey, OpenPush, NothingBehindTheCursor, Of

LEMMA BeginPushInv ==
    ASSUME TranslationsAssumption, CacheInv,
           NEW d \in Pushers, NEW w \in CachedWorks, NEW items \in Batches, NEW now \in Clock,
           BeginPush(d, w, items, now)
    PROVE  CacheInv'
<1>. DEFINE t == [work |-> w, items |-> items, at |-> Stamp(now)]
<1>1. Stamp(now) \in Nat /\ Stamp(now) > Top
  BY StampIsNew
<1>2. t \in Transactions /\ t # Absent /\ t.work = w /\ t.at = Stamp(now)
  BY <1>1 DEF Transactions, TranslationsAssumption
<1>3. txn' = [txn EXCEPT ![d] = t] /\ txn \in [Pushers -> Transactions \cup {Absent}]
  BY DEF BeginPush, CacheInv, CacheTyped
<1>. HIDE DEF t
<1>4. /\ UNCHANGED <<cachedWorks, rows, high, puller>> /\ pushes' = pushes + 1 /\ pushes < MaxPushes
      /\ w \in cachedWorks /\ \A e \in Pushers : txn[e] = Absent
  BY DEF BeginPush, GraphFree
<1>5. Top' = Top
  BY <1>4 DEF Top
<1>6. CacheTyped'
  BY <1>2, <1>3, <1>4 DEF CacheInv, CacheTyped, TranslationsAssumption
<1>7. \A e \in Pushers : txn'[e] = IF e = d THEN t ELSE Absent
  BY <1>3, <1>4
<1>8. OpenPush'
  BY <1>1, <1>2, <1>4, <1>5, <1>7 DEF OpenPush
<1>9. OnWorks' /\ OnePerKey' /\ UnderMark'
  BY <1>4, <1>5 DEF CacheInv, OnWorks, OnePerKey, UnderMark
<1>10. NothingBehindTheCursor'
  BY <1>4 DEF CacheInv, NothingBehindTheCursor, Of, Before
<1>. QED
  BY <1>6, <1>8, <1>9, <1>10 DEF CacheInv

\* What a committed write keeps.  It takes the mark to a stamp beyond it, or
\* leaves the mark where it is and adds nothing.
LEMMA WriteKeepsFeed ==
    ASSUME TranslationsAssumption, CacheInv, UNCHANGED puller, Top' \in Nat,
           rows' \subseteq CacheRows, Top <= Top',
           \A r \in rows' : r \in rows \/ (r.at = Top' /\ Top < Top')
    PROVE  UnderMark' /\ NothingBehindTheCursor'
<1>1. Top \in Nat /\ puller \in [Pullers -> Held] /\ rows \subseteq CacheRows
  BY TopIsNatural DEF CacheInv, CacheTyped
<1>2. \A p \in Pullers : puller[p].at \in Nat /\ puller[p].at <= Top
  BY <1>1 DEF CacheInv, UnderMark, Held
<1>3. \A r \in rows : r.at \in Nat /\ 0 < r.at /\ r.at <= Top
  BY <1>1 DEF CacheInv, UnderMark, CacheRows
<1>4. UnderMark'
  <2>1. \A r \in rows' : 0 < r.at /\ r.at <= Top'
    BY <1>1, <1>3
  <2>2. \A p \in Pullers : puller'[p].at <= Top'
    BY <1>1, <1>2
  <2>. QED
    BY <2>1, <2>2 DEF UnderMark
<1>5. ASSUME NEW p \in Pullers, NEW r \in rows', r.work = puller[p].work, ~Before(puller[p], r)
      PROVE  puller[p].copy[r.key] = r.text
  <2>1. r.at # Top' \/ ~(Top < Top')
    BY <1>1, <1>2, <1>5 DEF Before
  <2>2. r \in Of(puller[p].work)
    BY <1>5, <2>1 DEF Of
  <2>. QED
    BY <1>5, <2>2 DEF CacheInv, NothingBehindTheCursor
<1>6. NothingBehindTheCursor'
  BY <1>5 DEF NothingBehindTheCursor, Of, Before
<1>. QED
  BY <1>4, <1>6

LEMMA CommitPushInv ==
    ASSUME TranslationsAssumption, CacheInv, NEW d \in Pushers, CommitPush(d)
    PROVE  CacheInv'
<1>. DEFINE U == Upserted(txn[d].work, txn[d].items, txn[d].at)
<1>1. txn[d] \in Transactions /\ txn[d] # Absent
  BY DEF CacheInv, CacheTyped, CommitPush
<1>2. /\ txn[d].work \in cachedWorks /\ txn[d].items \in Batches /\ txn[d].at \in Nat
      /\ txn[d].at > Top /\ \A e \in Pushers : txn[e] # Absent => e = d
  BY <1>1 DEF CacheInv, OpenPush, Transactions
<1>3. /\ U \subseteq CacheRows /\ IsFiniteSet(U)
      /\ \A r \in U : r.work \in cachedWorks /\ (r \in rows \/ r.at = txn[d].at)
      /\ \A r, s \in U : r.work = s.work /\ r.key = s.key => r = s
  BY <1>2, UpsertedRows
<1>4. /\ rows' = Kept(U) /\ high' = txn[d].at /\ UNCHANGED <<cachedWorks, puller, pushes>>
      /\ txn' = [txn EXCEPT ![d] = Absent]
  BY DEF CommitPush
<1>. HIDE DEF U
<1>5. rows' \subseteq U
  BY <1>4 DEF Kept
<1>6. IsFiniteSet(rows')
  BY <1>3, <1>5, FS_Subset
<1>7. high' # Absent /\ Top' = txn[d].at
  BY <1>2, <1>4 DEF Top, TranslationsAssumption
<1>8. CacheTyped'
  BY <1>2, <1>3, <1>4, <1>5, <1>6 DEF CacheInv, CacheTyped
<1>9. OnWorks' /\ OnePerKey'
  BY <1>3, <1>4, <1>5 DEF OnWorks, OnePerKey
<1>10. \A e \in Pushers : txn'[e] = Absent
  BY <1>2, <1>4 DEF CacheInv, CacheTyped
<1>11. OpenPush'
  BY <1>10 DEF OpenPush
<1>12. UnderMark' /\ NothingBehindTheCursor'
  <2>1. Top \in Nat /\ Top' \in Nat /\ Top < Top' /\ Top <= Top'
    BY <1>2, <1>7, TopIsNatural
  <2>2. \A r \in rows' : r \in rows \/ (r.at = Top' /\ Top < Top')
    BY <1>3, <1>5, <1>7, <2>1
  <2>3. rows' \subseteq CacheRows /\ UNCHANGED puller
    BY <1>3, <1>4, <1>5
  <2>. QED
    BY <2>1, <2>2, <2>3, WriteKeepsFeed
<1>. QED
  BY <1>8, <1>9, <1>11, <1>12 DEF CacheInv

\* A write that only takes rows away.
LEMMA RemovalInv ==
    ASSUME TranslationsAssumption, CacheInv, NEW R, rows' = rows \ R,
           UNCHANGED <<high, txn, puller>>, GraphFree,
           cachedWorks' \subseteq cachedWorks, \A r \in rows' : r.work \in cachedWorks',
           pushes < MaxPushes, pushes' = pushes + 1
    PROVE  CacheInv'
<1>1. IsFiniteSet(rows') /\ rows' \subseteq rows
  BY FS_Subset DEF CacheInv, CacheTyped
<1>2. CacheTyped'
  BY <1>1 DEF CacheInv, CacheTyped, TranslationsAssumption
<1>3. OnWorks' /\ OnePerKey'
  BY <1>1 DEF CacheInv, OnWorks, OnePerKey
<1>4. OpenPush'
  BY DEF OpenPush, GraphFree
<1>5. Top' = Top /\ Top \in Nat
  BY TopIsNatural DEF Top
<1>6. UnderMark' /\ NothingBehindTheCursor'
  <2>1. rows' \subseteq CacheRows
    BY <1>1 DEF CacheInv, CacheTyped
  <2>2. Top' \in Nat /\ Top <= Top'
    BY <1>5
  <2>. QED
    BY <1>1, <2>1, <2>2, WriteKeepsFeed
<1>. QED
  BY <1>2, <1>3, <1>4, <1>6 DEF CacheInv

LEMMA ClearInv ==
    ASSUME TranslationsAssumption, CacheInv, ClearWork \/ ClearAll
    PROVE  CacheInv'
<1>1. PICK R : Clear(R)
  BY DEF ClearWork, ClearAll
<1>2. /\ rows' = rows \ R /\ UNCHANGED <<cachedWorks, high, txn, puller>> /\ GraphFree
      /\ pushes < MaxPushes /\ pushes' = pushes + 1
  BY <1>1 DEF Clear
<1>3. cachedWorks' \subseteq cachedWorks /\ \A r \in rows' : r.work \in cachedWorks'
  BY <1>2 DEF CacheInv, OnWorks
<1>. QED
  BY <1>2, <1>3, RemovalInv

LEMMA DeleteCachedInv ==
    ASSUME TranslationsAssumption, CacheInv, NEW w \in CachedWorks, DeleteCached(w)
    PROVE  CacheInv'
<1>1. /\ rows' = rows \ Of(w) /\ UNCHANGED <<high, txn, puller>> /\ GraphFree
      /\ pushes < MaxPushes /\ pushes' = pushes + 1 /\ cachedWorks' = cachedWorks \ {w}
  BY DEF DeleteCached
<1>2. cachedWorks' \subseteq cachedWorks /\ \A r \in rows' : r.work \in cachedWorks'
  BY <1>1 DEF CacheInv, OnWorks, Of
<1>. QED
  BY <1>1, <1>2, RemovalInv

LEMMA MergeCachedInv ==
    ASSUME TranslationsAssumption, CacheInv,
           NEW from \in CachedWorks, NEW into \in CachedWorks, NEW now \in Clock, MergeCached(from, into, now)
    PROVE  CacheInv'
<1>1. Stamp(now) \in Nat /\ Stamp(now) > Top
  BY StampIsNew
<1>2. /\ rows' = Carried(from, into, Stamp(now)) /\ high' = Stamp(now)
      /\ cachedWorks' = cachedWorks \ {from} /\ pushes' = pushes + 1 /\ pushes < MaxPushes
      /\ UNCHANGED <<txn, puller>> /\ from \in cachedWorks /\ into \in cachedWorks /\ from # into
      /\ \A d \in Pushers : txn[d] = Absent
  BY DEF MergeCached, GraphFree
<1>3. /\ rows' \subseteq CacheRows /\ IsFiniteSet(rows')
      /\ \A r \in rows' : r.work \in cachedWorks \ {from} /\ (r \in rows \/ r.at = Stamp(now))
      /\ \A r, s \in rows' : r.work = s.work /\ r.key = s.key => r = s
  BY <1>1, <1>2, CarriedRows
<1>4. Top' = Stamp(now)
  BY <1>1, <1>2 DEF Top, TranslationsAssumption
<1>5. CacheTyped'
  BY <1>1, <1>2, <1>3 DEF CacheInv, CacheTyped, TranslationsAssumption
<1>6. OnWorks' /\ OnePerKey' /\ OpenPush'
  BY <1>2, <1>3 DEF OnWorks, OnePerKey, OpenPush
<1>7. UnderMark' /\ NothingBehindTheCursor'
  <2>1. Top \in Nat /\ Top' \in Nat /\ Top < Top' /\ Top <= Top'
    BY <1>1, <1>4, TopIsNatural
  <2>2. \A r \in rows' : r \in rows \/ (r.at = Top' /\ Top < Top')
    BY <1>3, <1>4, <2>1
  <2>. QED
    BY <1>2, <1>3, <2>1, <2>2, WriteKeepsFeed
<1>. QED
  BY <1>5, <1>6, <1>7 DEF CacheInv

-----------------------------------------------------------------------------
(* The devices that page the feed.                                         *)

\* The page of a pull, and the row its cursor is taken from.
PageOf(p) == {r \in After(p) : Cardinality({s \in After(p) : Before(s, r)}) < CachePage}
LastOf(S) == CHOOSE r \in S : \A s \in S : ~Before(r, s)

\* The rows after a cursor are rows of the store, ordered by stamp and key.
LEMMA AfterFacts ==
    ASSUME TranslationsAssumption, CacheInv, NEW p \in Pullers
    PROVE  /\ IsFiniteSet(After(p)) /\ After(p) \subseteq rows
           /\ \A r \in rows : r.at \in Nat /\ r.key \in Nat /\ r.key \in Keys /\ r.text \in Texts
           /\ \A r \in After(p) : r.work = puller[p].work /\ Before(puller[p], r)
           /\ \A r \in rows : r.work = puller[p].work /\ Before(puller[p], r) => r \in After(p)
<1>1. After(p) \subseteq rows
  BY DEF After, Of
<1>2. IsFiniteSet(After(p))
  BY <1>1, FS_Subset DEF CacheInv, CacheTyped
<1>3. \A r \in rows : r.at \in Nat /\ r.key \in Nat /\ r.key \in Keys /\ r.text \in Texts
  BY DEF CacheInv, CacheTyped, CacheRows, TranslationsAssumption
<1>. QED
  BY <1>1, <1>2, <1>3 DEF After, Of

\* A page is a prefix of the feed: a row that precedes one of the page is on it.
LEMMA PageIsAPrefix ==
    ASSUME TranslationsAssumption, CacheInv, NEW p \in Pullers,
           NEW r \in PageOf(p), NEW q \in After(p), Before(q, r)
    PROVE  q \in PageOf(p)
<1>. DEFINE Ahead(x) == {s \in After(p) : Before(s, x)}
<1>1. /\ IsFiniteSet(After(p)) /\ \A x \in After(p) : x.at \in Nat /\ x.key \in Nat
      /\ r \in After(p)
  BY AfterFacts DEF PageOf
<1>2. \A x : Ahead(x) \subseteq After(p) /\ IsFiniteSet(Ahead(x)) /\ Cardinality(Ahead(x)) \in Nat
  BY <1>1, FS_Subset, FS_CardinalityType
<1>3. Ahead(q) \subseteq Ahead(r)
  BY <1>1, BeforeIsAnOrder
<1>4. Cardinality(Ahead(q)) <= Cardinality(Ahead(r))
  BY <1>2, <1>3, FS_Subset
<1>5. Cardinality(Ahead(r)) < CachePage
  BY DEF PageOf
<1>6. Cardinality(Ahead(q)) \in Nat /\ Cardinality(Ahead(r)) \in Nat /\ CachePage \in Nat
  BY <1>2 DEF TranslationsAssumption
<1>7. Cardinality(Ahead(q)) < CachePage
  <2>. HIDE DEF Ahead
  <2>. QED
    BY <1>4, <1>5, <1>6
<1>. QED
  BY <1>7 DEF PageOf

LEMMA PullInv ==
    ASSUME TranslationsAssumption, CacheInv, NEW p \in Pullers, Pull(p)
    PROVE  CacheInv'
<1>. DEFINE last == LastOf(PageOf(p))
            Texted(k) == IF \E r \in PageOf(p) : r.key = k
                         THEN (CHOOSE r \in PageOf(p) : r.key = k).text ELSE puller[p].copy[k]
            copied == [k \in Keys |-> Texted(k)]
            after == [work |-> puller[p].work, at |-> last.at, key |-> last.key, copy |-> copied]
<1>1. /\ PageOf(p) # {} /\ UNCHANGED <<cachedWorks, rows, high, txn, pushes>>
      /\ puller' = [puller EXCEPT ![p] = after]
  BY DEF Pull, PageOf, LastOf
<1>2. puller[p] \in Held /\ puller \in [Pullers -> Held]
  BY DEF CacheInv, CacheTyped
<1>3. /\ IsFiniteSet(After(p)) /\ After(p) \subseteq rows
      /\ \A r \in rows : r.at \in Nat /\ r.key \in Nat /\ r.key \in Keys /\ r.text \in Texts
      /\ \A r \in After(p) : r.work = puller[p].work /\ Before(puller[p], r)
      /\ \A r \in rows : r.work = puller[p].work /\ Before(puller[p], r) => r \in After(p)
  BY AfterFacts
<1>4. PageOf(p) \subseteq After(p) /\ IsFiniteSet(PageOf(p))
  BY <1>3, FS_Subset DEF PageOf
<1>5. \E r \in PageOf(p) : \A s \in PageOf(p) : ~Before(r, s)
  <2>1. \A r \in PageOf(p) : r.at \in Nat /\ r.key \in Nat
    BY <1>3, <1>4
  <2>. QED
    BY <1>1, <1>4, <2>1, LastExists
<1>6. last \in PageOf(p) /\ \A s \in PageOf(p) : ~Before(last, s)
  BY <1>5 DEF LastOf
<1>7. \A k \in Keys : Texted(k) \in Texts \cup {Absent}
  <2>1. ASSUME NEW k \in Keys, \E r \in PageOf(p) : r.key = k
        PROVE  (CHOOSE r \in PageOf(p) : r.key = k).text \in Texts
    BY <1>3, <1>4, <2>1
  <2>2. puller[p].copy \in [Keys -> Texts \cup {Absent}]
    BY <1>2 DEF Held
  <2>. QED
    BY <2>1, <2>2
<1>8. copied \in [Keys -> Texts \cup {Absent}]
  BY <1>7
<1>9. ASSUME NEW r \in rows, r.work = puller[p].work, ~Before(last, r)
      PROVE  copied[r.key] = r.text
  <2>1. r.key \in Keys /\ copied[r.key] = Texted(r.key)
    BY <1>3
  <2>2. \A s \in PageOf(p) : s.key = r.key => s = r
    BY <1>3, <1>4, <1>9 DEF CacheInv, OnePerKey
  <2>3. CASE r \in PageOf(p)
    BY <2>1, <2>2, <2>3
  <2>4. CASE r \notin PageOf(p)
    <3>1. r \notin After(p)
      <4>1. SUFFICES ASSUME r \in After(p) PROVE FALSE
        OBVIOUS
      <4>2. CASE Before(r, last)
        BY <1>6, <2>4, <4>1, <4>2, PageIsAPrefix
      <4>3. CASE ~Before(r, last)
        <5>1. r.at = last.at /\ r.key = last.key
          BY <1>3, <1>4, <1>6, <1>9, <4>3, BeforeIsAnOrder
        <5>. QED
          BY <1>6, <2>2, <2>4, <5>1
      <4>. QED
        BY <4>2, <4>3
    <3>2. ~Before(puller[p], r)
      BY <1>3, <1>9, <3>1
    <3>3. puller[p].copy[r.key] = r.text
      BY <1>9, <3>2 DEF CacheInv, NothingBehindTheCursor, Of
    <3>4. ~\E s \in PageOf(p) : s.key = r.key
      BY <2>2, <2>4
    <3>. QED
      BY <2>1, <3>3, <3>4
  <2>. QED
    BY <2>3, <2>4
<1>10. last \in rows /\ last.at \in Nat /\ last.key \in Keys
  BY <1>3, <1>4, <1>6
<1>. HIDE DEF last, copied
<1>11. after \in Held
  BY <1>2, <1>8, <1>10 DEF Held
<1>12. /\ after.work = puller[p].work /\ after.at = last.at /\ after.key = last.key
       /\ after.copy = copied
  OBVIOUS
<1>. HIDE DEF after
<1>13. \A q \in Pullers : puller'[q] = IF q = p THEN after ELSE puller[q]
  BY <1>1, <1>2
<1>14. CacheTyped'
  BY <1>1, <1>2, <1>11 DEF CacheInv, CacheTyped
<1>15. OnWorks' /\ OnePerKey' /\ OpenPush'
  BY <1>1 DEF CacheInv, OnWorks, OnePerKey, OpenPush, Top
<1>16. UnderMark'
  BY <1>1, <1>10, <1>12, <1>13 DEF CacheInv, UnderMark, Top
<1>17. NothingBehindTheCursor'
  <2>1. SUFFICES ASSUME NEW q \in Pullers, NEW r \in rows, r.work = puller'[q].work,
                        ~Before(puller'[q], r)
                 PROVE  puller'[q].copy[r.key] = r.text
    BY <1>1 DEF NothingBehindTheCursor, Of, Before
  <2>2. CASE q # p
    BY <1>13, <2>1, <2>2 DEF CacheInv, NothingBehindTheCursor, Of
  <2>3. CASE q = p
    <3>1. puller'[q] = after /\ r.work = puller[p].work /\ ~Before(after, r)
      BY <1>12, <1>13, <2>1, <2>3
    <3>2. ~Before(last, r)
      BY <1>12, <3>1 DEF Before
    <3>. QED
      BY <1>9, <1>12, <3>1, <3>2
  <2>. QED
    BY <2>2, <2>3
<1>. QED
  BY <1>14, <1>15, <1>16, <1>17 DEF CacheInv

LEMMA ReresolveInv ==
    ASSUME TranslationsAssumption, CacheInv, NEW p \in Pullers, Reresolve(p)
    PROVE  CacheInv'
<1>1. PICK w \in cachedWorks : puller' = [puller EXCEPT ![p] = Fresh(w)]
  BY DEF Reresolve
<1>2. UNCHANGED <<cachedWorks, rows, high, txn, pushes>>
  BY DEF Reresolve
<1>3. Fresh(w) \in Held /\ Fresh(w).at = 0 /\ w \in CachedWorks
  BY DEF Fresh, Held, CacheInv, CacheTyped
<1>4. puller \in [Pullers -> Held]
  BY DEF CacheInv, CacheTyped
<1>5. \A q \in Pullers : puller'[q] = IF q = p THEN Fresh(w) ELSE puller[q]
  BY <1>1, <1>4
<1>6. CacheTyped'
  BY <1>1, <1>2, <1>3 DEF CacheInv, CacheTyped
<1>7. OnWorks' /\ OnePerKey' /\ OpenPush'
  BY <1>2 DEF CacheInv, OnWorks, OnePerKey, OpenPush, Top
<1>8. UnderMark'
  <2>1. 0 <= Top
    BY TopIsNatural
  <2>. QED
    BY <1>2, <1>3, <1>5, <2>1 DEF CacheInv, UnderMark, Top
<1>9. NothingBehindTheCursor'
  <2>1. SUFFICES ASSUME NEW q \in Pullers, NEW r \in rows, r.work = puller'[q].work,
                        ~Before(puller'[q], r)
                 PROVE  puller'[q].copy[r.key] = r.text
    BY <1>2 DEF NothingBehindTheCursor, Of, Before
  <2>2. CASE q # p
    BY <1>5, <2>1, <2>2 DEF CacheInv, NothingBehindTheCursor, Of
  <2>3. CASE q = p
    BY <1>3, <1>5, <2>1, <2>3 DEF CacheInv, UnderMark, Before
  <2>. QED
    BY <2>2, <2>3
<1>. QED
  BY <1>6, <1>7, <1>8, <1>9 DEF CacheInv

-----------------------------------------------------------------------------
(* The theorems.                                                           *)

LEMMA CacheNextInv ==
    ASSUME TranslationsAssumption, CacheInv, [CacheNext]_cacheVars
    PROVE  CacheInv'
<1>1. ASSUME NEW d \in Pushers, NEW w \in CachedWorks, NEW items \in Batches, NEW now \in Clock,
             BeginPush(d, w, items, now)
      PROVE  CacheInv'
  BY <1>1, BeginPushInv
<1>2. ASSUME NEW d \in Pushers, CommitPush(d) PROVE CacheInv'
  BY <1>2, CommitPushInv
<1>3. CASE ClearWork \/ ClearAll
  BY <1>3, ClearInv
<1>4. ASSUME NEW from \in CachedWorks, NEW into \in CachedWorks, NEW now \in Clock, MergeCached(from, into, now)
      PROVE  CacheInv'
  BY <1>4, MergeCachedInv
<1>5. ASSUME NEW w \in CachedWorks, DeleteCached(w) PROVE CacheInv'
  BY <1>5, DeleteCachedInv
<1>6. ASSUME NEW p \in Pullers, Pulling(p) PROVE CacheInv'
  BY <1>6, PullInv, ReresolveInv DEF Pulling
<1>7. CASE UNCHANGED cacheVars
  BY <1>7 DEF cacheVars, CacheInv, CacheTyped, OnWorks, OnePerKey, UnderMark, OpenPush, Top,
              NothingBehindTheCursor, Of, Before
<1>. QED
  BY <1>1, <1>2, <1>3, <1>4, <1>5, <1>6, <1>7 DEF CacheNext

\* The inductive invariant holds of a database that has had the mark from its
\* first translation.
THEOREM TranslationsInvariant ==
    ASSUME TranslationsAssumption, Seeded
    PROVE  CacheSpec => []CacheInv
<1>1. CacheInit => CacheInv
  BY CacheInitInv
<1>2. CacheInv /\ [CacheNext]_cacheVars => CacheInv'
  BY CacheNextInv
<1>. QED
  BY <1>1, <1>2, PTL DEF CacheSpec

\* The cache keeps one row per work and key, on cachedWorks that exist, and none is
\* stamped beyond the mark.
THEOREM TranslationsTyped ==
    ASSUME TranslationsAssumption, Seeded
    PROVE  CacheSpec => []CacheTypeOK
<1>1. ASSUME CacheInv PROVE CacheTypeOK
  <2>1. high # Absent => \A r \in rows : r.at <= high
    BY <1>1 DEF CacheInv, UnderMark, Top
  <2>2. puller \in [Pullers -> [work : CachedWorks, at : Nat, key : Keys \cup {0},
                                copy : [Keys -> Texts \cup {Absent}]]]
    BY <1>1 DEF CacheInv, CacheTyped, Held
  <2>. QED
    BY <1>1, <2>1, <2>2 DEF CacheTypeOK, CacheInv, CacheTyped, OnWorks, OnePerKey
<1>. QED
  BY <1>1, TranslationsInvariant, PTL

\* No translation is behind the cursor of a device that does not have it: the
\* stamps PushWorkTranslations and a merge give out are beyond every cursor,
\* whatever the clock shows (stampWorkTranslationTx).
THEOREM TranslationsCursor ==
    ASSUME TranslationsAssumption, Seeded
    PROVE  CacheSpec => []NothingBehindTheCursor
<1>1. CacheInv => NothingBehindTheCursor
  BY DEF CacheInv
<1>. QED
  BY <1>1, TranslationsInvariant, PTL

-----------------------------------------------------------------------------
(* SourceSessions.  A report is stored in a later transaction than the one *)
(* that decided where it belongs, and reports of one key arrive in any     *)
(* order.  The inductive invariant orders the revisions of a sitting as    *)
(* its source ordered its reports (SittingsOrdered), keeps them on one     *)
(* file (SittingsTogether), and says that the foreign keys hold whatever   *)
(* was split, merged or deleted in between (ForeignKeys).                  *)

SourceTyped ==
    /\ sourceWorks \subseteq SourceWorks
    /\ alias \in [Books -> sourceWorks \cup {Nowhere}]
    /\ editions \in [Books -> sourceWorks \cup {Nowhere}]
    /\ IsFiniteSet(sessions)
    /\ sessions \subseteq [key : SourceKeys, version : Nat, work : sourceWorks,
                           edition : Books \cup {Nowhere}, revision : Nat]
    /\ imports \subseteq Sittings
    /\ link = NoLink \/ link \in [work : sourceWorks, edition : Books]
    /\ version \in [SourceKeys -> Nat]
    /\ import # Idle => import.session \in [key : Sittings, version : Nat, revision : {0},
                                            work : SourceWorks, edition : Books]

\* A session that names a file, and the link, are on the work of the file.
ForeignKeys ==
    /\ \A s \in sessions : s.edition # Nowhere => editions[s.edition] = s.work
    /\ link # NoLink => editions[link.edition] = link.work

\* No two sessions are one revision of a key, or one report of it.
RevisionsDistinct ==
    \A s, t \in sessions :
        s.key = t.key /\ (s.revision = t.revision \/ s.version = t.version) => s = t

\* The revisions of a sitting are of one file, in the order of its reports.
SittingsTogether ==
    \A s, t \in sessions : s.key \in Sittings /\ s.key = t.key =>
        s.edition \in Books /\ s.edition = t.edition
SittingsOrdered ==
    \A s, t \in sessions : s.key \in Sittings /\ s.key = t.key /\ s.revision <= t.revision =>
        s.version <= t.version

\* The ledger has every sitting there is a session of.
Ledger == \A s \in sessions : s.key \in Sittings => s.key \in imports

SourceInv ==
    /\ SourceTyped /\ ForeignKeys /\ RevisionsDistinct
    /\ SittingsTogether /\ SittingsOrdered /\ Ledger

\* A key with a session has a current one, of the highest revision.
LEMMA CurrentIsLast ==
    ASSUME SourceInv, NEW k, History(k) # {}
    PROVE  /\ Current(k) \in sessions /\ Current(k).key = k
           /\ \A s \in sessions : s.key = k => s.revision <= Current(k).revision
<1>. DEFINE H == History(k)
            Above(s) == {t \in H : s.revision < t.revision}
            T == {Cardinality(Above(s)) : s \in H}
<1>1. H \subseteq sessions /\ IsFiniteSet(H) /\ \A s \in H : s.key = k /\ s.revision \in Nat
  BY FS_Subset DEF History, SourceInv, SourceTyped
<1>2. \A s \in H : Above(s) \in SUBSET H /\ IsFiniteSet(Above(s)) /\ Cardinality(Above(s)) \in Nat
  BY <1>1, FS_Subset, FS_CardinalityType
<1>3. T \in SUBSET Nat /\ T # {}
  BY <1>2
<1>4. PICK x \in T : \A y \in T : x <= y
  BY <1>3, MinExists
<1>5. PICK s \in H : x = Cardinality(Above(s))
  BY <1>4
<1>6. ASSUME NEW t \in H, s.revision < t.revision PROVE FALSE
  <2>1. Above(t) \in SUBSET Above(s) /\ t \in Above(s) /\ t \notin Above(t)
    BY <1>1, <1>6
  <2>2. Cardinality(Above(t)) <= Cardinality(Above(s)) /\ Cardinality(Above(t)) # Cardinality(Above(s))
    BY <1>2, <2>1, FS_Subset
  <2>3. Cardinality(Above(t)) \in T
    OBVIOUS
  <2>4. Cardinality(Above(s)) <= Cardinality(Above(t))
    BY <1>4, <1>5, <2>3, Zenon
  <2>5. Cardinality(Above(s)) \in Nat /\ Cardinality(Above(t)) \in Nat
    BY <1>2
  <2>. HIDE DEF Above, T
  <2>. QED
    BY <2>2, <2>4, <2>5
<1>7. \A t \in H : t.revision <= s.revision
  BY <1>1, <1>6
<1>8. Current(k) \in H /\ \A t \in H : t.revision <= Current(k).revision
  BY <1>7 DEF Current, Latest
<1>. QED
  BY <1>1, <1>8 DEF History

\* A session more: the next revision of its key, of a report that is not stored,
\* and, for a sitting, of a later report than any, on the file of the others.
LEMMA AppendedKeeps ==
    ASSUME SourceInv, NEW n, n \in [key : SourceKeys, version : Nat, work : sourceWorks',
                                    edition : Books \cup {Nowhere}, revision : Nat],
           sessions' = sessions \cup {n},
           n.revision = IF History(n.key) = {} THEN 1 ELSE Current(n.key).revision + 1,
           \A s \in sessions : s.key = n.key => s.version # n.version,
           n.key \in Sittings =>
             /\ n.key \in imports' /\ n.edition \in Books
             /\ History(n.key) # {} => /\ Current(n.key).version < n.version
                                       /\ Current(n.key).edition = n.edition,
           imports \subseteq imports', sourceWorks \subseteq sourceWorks'
    PROVE  /\ IsFiniteSet(sessions')
           /\ sessions' \subseteq [key : SourceKeys, version : Nat, work : sourceWorks',
                                   edition : Books \cup {Nowhere}, revision : Nat]
           /\ RevisionsDistinct' /\ SittingsTogether' /\ SittingsOrdered' /\ Ledger'
<1>1. IsFiniteSet(sessions')
  BY FS_AddElement DEF SourceInv, SourceTyped
<1>2. \A s \in sessions : s \in [key : SourceKeys, version : Nat, work : sourceWorks,
                                 edition : Books \cup {Nowhere}, revision : Nat]
  BY DEF SourceInv, SourceTyped
<1>3. \A s \in sessions : s.revision \in Nat /\ s.version \in Nat
  BY <1>2
<1>4. n.revision \in Nat /\ n.version \in Nat
  OBVIOUS
<1>5. ASSUME NEW s \in sessions, s.key = n.key
      PROVE  /\ s.revision < n.revision /\ s.version # n.version
             /\ n.key \in Sittings => s.version < n.version /\ s.edition = n.edition
  <2>1. History(n.key) # {}
    BY <1>5 DEF History
  <2>2. /\ Current(n.key) \in sessions /\ Current(n.key).key = n.key
        /\ s.revision <= Current(n.key).revision
    BY <1>5, <2>1, CurrentIsLast
  <2>3. s.revision < n.revision
    BY <1>3, <2>1, <2>2
  <2>4. n.key \in Sittings => s.version <= Current(n.key).version /\ s.edition = Current(n.key).edition
    BY <1>5, <2>2 DEF SourceInv, SittingsOrdered, SittingsTogether
  <2>. QED
    BY <1>3, <1>4, <1>5, <2>1, <2>2, <2>3, <2>4
<1>6. sessions' \subseteq [key : SourceKeys, version : Nat, work : sourceWorks',
                           edition : Books \cup {Nowhere}, revision : Nat]
  BY <1>2
<1>7. RevisionsDistinct'
  <2>. SUFFICES ASSUME NEW s \in sessions', NEW t \in sessions', s.key = t.key,
                       s.revision = t.revision \/ s.version = t.version
       PROVE  s = t
    BY DEF RevisionsDistinct
  <2>1. CASE s \in sessions /\ t \in sessions
    BY <2>1 DEF SourceInv, RevisionsDistinct
  <2>2. CASE s = n /\ t \in sessions
    BY <1>3, <1>4, <1>5, <2>2
  <2>3. CASE s \in sessions /\ t = n
    BY <1>3, <1>4, <1>5, <2>3
  <2>. QED
    BY <2>1, <2>2, <2>3
<1>8. SittingsTogether'
  BY <1>5 DEF SourceInv, SittingsTogether
<1>9. SittingsOrdered'
  <2>. SUFFICES ASSUME NEW s \in sessions', NEW t \in sessions', s.key \in Sittings, s.key = t.key,
                       s.revision <= t.revision
       PROVE  s.version <= t.version
    BY DEF SittingsOrdered
  <2>1. CASE s \in sessions /\ t \in sessions
    BY <2>1 DEF SourceInv, SittingsOrdered
  <2>2. CASE s = n /\ t \in sessions
    BY <1>3, <1>4, <1>5, <2>2
  <2>3. CASE s \in sessions /\ t = n
    BY <1>3, <1>4, <1>5, <2>3
  <2>4. CASE s = n /\ t = n
    BY <1>4, <2>4
  <2>. QED
    BY <2>1, <2>2, <2>3, <2>4
<1>10. Ledger'
  BY DEF SourceInv, Ledger
<1>. QED
  BY <1>1, <1>6, <1>7, <1>8, <1>9, <1>10

\* A move of sessions to other works keeps everything but where they are.
LEMMA MovedSessionsKeep ==
    ASSUME SourceInv, NEW f \in [sessions -> SourceWorks], UNCHANGED imports,
           sessions' = {[s EXCEPT !.work = f[s]] : s \in sessions}
    PROVE  /\ IsFiniteSet(sessions')
           /\ RevisionsDistinct' /\ SittingsTogether' /\ SittingsOrdered' /\ Ledger'
<1>. DEFINE g == [s \in sessions |-> [s EXCEPT !.work = f[s]]]
<1>1. sessions' = {g[s] : s \in sessions}
  OBVIOUS
<1>2. \A s \in sessions : s \in [key : SourceKeys, version : Nat, work : sourceWorks,
                                 edition : Books \cup {Nowhere}, revision : Nat]
  BY DEF SourceInv, SourceTyped
<1>3. \A s \in sessions : /\ g[s].key = s.key /\ g[s].version = s.version
                          /\ g[s].revision = s.revision /\ g[s].edition = s.edition
  BY <1>2
<1>. HIDE DEF g
<1>4. IsFiniteSet(sessions')
  BY <1>1, ImageIsFinite DEF SourceInv, SourceTyped
<1>5. RevisionsDistinct' /\ SittingsTogether' /\ SittingsOrdered' /\ Ledger'
  BY <1>1, <1>3
     DEF SourceInv, RevisionsDistinct, SittingsTogether, SittingsOrdered, Ledger
<1>. QED
  BY <1>4, <1>5

-----------------------------------------------------------------------------
(* The initial states, and one lemma per action.                           *)

LEMMA SourceInitInv == ASSUME SourceInit PROVE SourceInv
<1>1. SourceTyped
  BY FS_EmptySet DEF SourceInit, SourceTyped
<1>. QED
  BY <1>1 DEF SourceInit, SourceInv, ForeignKeys, RevisionsDistinct, SittingsTogether,
              SittingsOrdered, Ledger

\* What keeps the sessions keeps what is said of them alone.
LEMMA SessionsKept ==
    ASSUME SourceInv, UNCHANGED sessions, imports \subseteq imports'
    PROVE  RevisionsDistinct' /\ SittingsTogether' /\ SittingsOrdered' /\ Ledger'
  BY DEF SourceInv, RevisionsDistinct, SittingsTogether, SittingsOrdered, Ledger

LEMMA ReportInv ==
    ASSUME SourceInv, NEW k \in SourceKeys, Report(k)
    PROVE  SourceInv'
<1>1. UNCHANGED <<graphVars, sessions, imports, link, import>>
  BY DEF Report
<1>2. version' \in [SourceKeys -> Nat]
  BY DEF Report, SourceInv, SourceTyped
<1>3. SourceTyped' /\ ForeignKeys'
  BY <1>1, <1>2 DEF SourceInv, SourceTyped, ForeignKeys, graphVars
<1>. QED
  BY <1>1, <1>3, SessionsKept DEF SourceInv

\* A book is put on a work, new or its own, with nothing that names its file
\* elsewhere.
LEMMA PlacedKeeps ==
    ASSUME SourceAssumption, SourceInv, NEW b \in Books, NEW w \in SourceWorks,
           sourceWorks' = sourceWorks \cup {w},
           editions' = [editions EXCEPT ![b] = w], editions[b] \in {Nowhere, w},
           UNCHANGED link
    PROVE  /\ editions' \in [Books -> sourceWorks' \cup {Nowhere}]
           /\ \A s \in sessions : s.edition # Nowhere => editions'[s.edition] = s.work
           /\ link' # NoLink => editions'[link'.edition] = link'.work
           /\ link' = NoLink \/ link' \in [work : sourceWorks', edition : Books]
<1>1. \A s \in sessions : s.work \in sourceWorks /\ s.edition \in Books \cup {Nowhere}
  BY DEF SourceInv, SourceTyped
<1>2. Nowhere \notin sourceWorks /\ Nowhere \notin Books
  BY DEF SourceAssumption, SourceInv, SourceTyped
<1>3. editions' \in [Books -> sourceWorks' \cup {Nowhere}]
  BY DEF SourceInv, SourceTyped
<1>4. \A c \in Books : editions[c] # Nowhere => editions'[c] = editions[c]
  BY DEF SourceInv, SourceTyped
<1>5. \A s \in sessions : s.edition # Nowhere => editions'[s.edition] = s.work
  BY <1>1, <1>2, <1>4 DEF SourceInv, ForeignKeys
<1>6. link' = NoLink \/ link' \in [work : sourceWorks', edition : Books]
  BY DEF SourceInv, SourceTyped
<1>7. link' # NoLink => editions'[link'.edition] = link'.work
  <2>. SUFFICES ASSUME link # NoLink PROVE editions'[link.edition] = link.work
    OBVIOUS
  <2>1. link.edition \in Books /\ link.work \in sourceWorks /\ editions[link.edition] = link.work
    BY DEF SourceInv, SourceTyped, ForeignKeys
  <2>. QED
    BY <1>2, <1>4, <2>1
<1>. QED
  BY <1>3, <1>5, <1>6, <1>7

LEMMA UpsertInv ==
    ASSUME SourceAssumption, SourceInv, NEW k \in KoRows, NEW v \in 1 .. MaxVersion,
           UpsertKopluginSession(k, v)
    PROVE  SourceInv'
<1>. DEFINE b == BookOf[k]
            s(w) == [key |-> k, version |-> v, work |-> w, edition |-> Nowhere, revision |-> 0]
<1>1. UNCHANGED <<editions, imports, link, version, import>> /\ b \in Books
  BY DEF UpsertKopluginSession, SourceAssumption
<1>2. PICK w \in SourceWorks :
         /\ sourceWorks' = sourceWorks \cup {w}
         /\ alias' = [alias EXCEPT ![b] = w]
         /\ AppendByArrival(s(w))
  <2>1. PICK w \in IF alias[b] = Nowhere THEN SourceWorks \ born ELSE {alias[b]} :
           /\ sourceWorks' = sourceWorks \cup {w}
           /\ alias' = [alias EXCEPT ![b] = w]
           /\ AppendByArrival(s(w))
    BY DEF UpsertKopluginSession
  <2>2. w \in SourceWorks
    BY <1>1 DEF SourceInv, SourceTyped
  <2>. QED
    BY <2>1, <2>2
<1>3. k \in SourceKeys /\ k \notin Sittings /\ v \in Nat
  BY DEF SourceKeys, SourceAssumption
<1>4. /\ sourceWorks' \subseteq SourceWorks /\ sourceWorks \subseteq sourceWorks'
      /\ alias' \in [Books -> sourceWorks' \cup {Nowhere}]
      /\ editions' \in [Books -> sourceWorks' \cup {Nowhere}]
      /\ link' = NoLink \/ link' \in [work : sourceWorks', edition : Books]
  BY <1>1, <1>2 DEF SourceInv, SourceTyped
<1>5. CASE UNCHANGED sessions
  <2>1. SourceTyped' /\ ForeignKeys'
    BY <1>1, <1>4, <1>5 DEF SourceInv, SourceTyped, ForeignKeys
  <2>. QED
    BY <1>1, <1>5, <2>1, SessionsKept DEF SourceInv
<1>6. CASE Stored(s(w)) = {} /\ sessions' = sessions \cup {Numbered(s(w))}
  <2>. DEFINE n == Numbered(s(w))
  <2>1. \A t \in sessions : t.key = k => t.version # v
    BY <1>6 DEF Stored, History
  <2>2. History(k) # {} => Current(k).revision \in Nat
    BY CurrentIsLast DEF SourceInv, SourceTyped
  <2>3. /\ n.key = k /\ n.version = v /\ n.edition = Nowhere /\ n.work = w
        /\ n.revision = IF History(k) = {} THEN 1 ELSE Current(k).revision + 1
    BY DEF Numbered
  <2>4. n \in [key : SourceKeys, version : Nat, work : sourceWorks',
               edition : Books \cup {Nowhere}, revision : Nat]
    BY <1>2, <1>3, <2>2 DEF Numbered
  <2>. HIDE DEF n
  <2>5. /\ IsFiniteSet(sessions')
        /\ sessions' \subseteq [key : SourceKeys, version : Nat, work : sourceWorks',
                                edition : Books \cup {Nowhere}, revision : Nat]
        /\ RevisionsDistinct' /\ SittingsTogether' /\ SittingsOrdered' /\ Ledger'
    BY <1>1, <1>3, <1>4, <1>6, <2>1, <2>3, <2>4, AppendedKeeps DEF n
  <2>6. SourceTyped'
    BY <1>1, <1>4, <2>5 DEF SourceInv, SourceTyped
  <2>7. ForeignKeys'
    BY <1>1, <1>6, <2>3 DEF n, SourceInv, ForeignKeys
  <2>. QED
    BY <2>5, <2>6, <2>7 DEF SourceInv
<1>. QED
  BY <1>2, <1>5, <1>6 DEF AppendByArrival

LEMMA LinkInv ==
    ASSUME SourceInv, (\E b \in Books : CreateAudiobookLink(b)) \/ DeleteAudiobookLink
    PROVE  SourceInv'
<1>1. UNCHANGED <<graphVars, sessions, imports, version, import>>
  BY DEF CreateAudiobookLink, DeleteAudiobookLink
<1>2. CASE DeleteAudiobookLink
  <2>1. SourceTyped' /\ ForeignKeys'
    BY <1>1, <1>2 DEF DeleteAudiobookLink, SourceInv, SourceTyped, ForeignKeys, graphVars
  <2>. QED
    BY <1>1, <2>1, SessionsKept DEF SourceInv
<1>3. ASSUME NEW b \in Books, CreateAudiobookLink(b) PROVE SourceInv'
  <2>1. link' = [work |-> editions[b], edition |-> b] /\ editions[b] \in sourceWorks
    BY <1>3 DEF CreateAudiobookLink, SourceInv, SourceTyped
  <2>2. SourceTyped' /\ ForeignKeys'
    BY <1>1, <2>1 DEF SourceInv, SourceTyped, ForeignKeys, graphVars
  <2>. QED
    BY <1>1, <2>2, SessionsKept DEF SourceInv
<1>. QED
  BY <1>2, <1>3

LEMMA ImportInv ==
    ASSUME SourceInv, NEW k \in Sittings, NEW v \in 1 .. MaxVersion, ImportSession(k, v)
    PROVE  SourceInv'
<1>1. UNCHANGED <<graphVars, sessions, imports, link, version>> /\ link # NoLink
  BY DEF ImportSession
<1>2. k \in imports =>
        /\ Current(k) \in sessions /\ Current(k).key = k
        /\ Current(k).work \in SourceWorks /\ Current(k).edition \in Books
  <2>. SUFFICES ASSUME k \in imports
       PROVE  /\ Current(k) \in sessions /\ Current(k).key = k
              /\ Current(k).work \in SourceWorks /\ Current(k).edition \in Books
    OBVIOUS
  <2>1. History(k) # {}
    BY DEF ImportSession
  <2>2. Current(k) \in sessions /\ Current(k).key = k
    BY <2>1, CurrentIsLast
  <2>. HIDE DEF Current
  <2>3. Current(k).work \in SourceWorks
    BY <2>2 DEF SourceInv, SourceTyped
  <2>4. Current(k).edition \in Books
    BY <2>2 DEF SourceInv, SittingsTogether
  <2>. QED
    BY <2>2, <2>3, <2>4
<1>3. link.work \in SourceWorks /\ link.edition \in Books
  BY <1>1 DEF SourceInv, SourceTyped
<1>4. import'.session \in [key : Sittings, version : Nat, revision : {0},
                           work : SourceWorks, edition : Books]
  BY <1>2, <1>3 DEF ImportSession
<1>5. SourceTyped' /\ ForeignKeys'
  BY <1>1, <1>4 DEF SourceInv, SourceTyped, ForeignKeys, graphVars
<1>. QED
  BY <1>1, <1>5, SessionsKept DEF SourceInv

LEMMA AppendInv ==
    ASSUME SourceAssumption, SourceInv, AppendAudiobookSession
    PROVE  SourceInv'
<1>. DEFINE s == import.session
<1>1. /\ import # Idle /\ import' = Idle
      /\ UNCHANGED <<graphVars, link, version>>
      /\ IF Deleted(s.key) THEN UNCHANGED sessions ELSE AppendByTime(s)
      /\ imports' = IF sessions' = sessions THEN imports ELSE imports \cup {s.key}
  BY DEF AppendAudiobookSession
<1>2. s \in [key : Sittings, version : Nat, revision : {0}, work : SourceWorks, edition : Books]
  BY <1>1 DEF SourceInv, SourceTyped
<1>. HIDE DEF s
<1>3. imports \subseteq imports' /\ imports' \subseteq Sittings
  BY <1>1, <1>2 DEF SourceInv, SourceTyped
<1>4. CASE UNCHANGED sessions
  <2>1. SourceTyped' /\ ForeignKeys'
    BY <1>1, <1>3, <1>4 DEF SourceInv, SourceTyped, ForeignKeys, graphVars
  <2>. QED
    BY <1>3, <1>4, <2>1, SessionsKept DEF SourceInv
<1>5. CASE /\ Stored(s) = {} /\ ~Outdated(s) /\ Consistent(Replacing(s))
           /\ sessions' = sessions \cup {Numbered(Replacing(s))} /\ sessions' # sessions
  <2>. DEFINE r == Replacing(s)
              n == Numbered(r)
  <2>1. History(s.key) # {} =>
          /\ Current(s.key) \in sessions /\ Current(s.key).key = s.key
          /\ Current(s.key).revision \in Nat /\ Current(s.key).version \in Nat
          /\ Current(s.key).edition \in Books
    <3>. SUFFICES ASSUME History(s.key) # {}
         PROVE  /\ Current(s.key) \in sessions /\ Current(s.key).key = s.key
                /\ Current(s.key).revision \in Nat /\ Current(s.key).version \in Nat
                /\ Current(s.key).edition \in Books
      OBVIOUS
    <3>1. Current(s.key) \in sessions /\ Current(s.key).key = s.key
      BY CurrentIsLast
    <3>2. Current(s.key).revision \in Nat /\ Current(s.key).version \in Nat
      BY <3>1 DEF SourceInv, SourceTyped
    <3>3. Current(s.key).edition \in Books
      BY <1>2, <3>1 DEF SourceInv, SittingsTogether
    <3>. QED
      BY <3>1, <3>2, <3>3
  <2>2. /\ r.key = s.key /\ r.version = s.version /\ r.edition \in Books
        /\ r \in [key : Sittings, version : Nat, revision : {0}, work : {r.work}, edition : Books]
        /\ History(s.key) # {} => r.edition = Current(s.key).edition
    BY <1>2, <2>1 DEF Replacing
  <2>3. r.work \in sourceWorks /\ editions[r.edition] = r.work
    BY <1>1, <1>5, <2>2 DEF Consistent, graphVars, SourceAssumption
  <2>. HIDE DEF r
  <2>4. /\ n.key = s.key /\ n.version = s.version /\ n.edition = r.edition /\ n.work = r.work
        /\ n.revision = IF History(s.key) = {} THEN 1 ELSE Current(s.key).revision + 1
        /\ n \in [key : Sittings, version : Nat, work : sourceWorks, edition : Books, revision : Nat]
    BY <2>1, <2>2, <2>3 DEF Numbered
  <2>5. \A t \in sessions : t.key = s.key => t.version # s.version
    BY <1>5 DEF Stored, History
  <2>6. History(s.key) # {} => Current(s.key).version < s.version
    BY <1>2, <1>5, <2>1 DEF Outdated
  <2>7. s.key \in imports'
    BY <1>1, <1>5
  <2>8. sessions' = sessions \cup {n}
    BY <1>5 DEF r
  <2>. HIDE DEF n
  <2>9. UNCHANGED <<sourceWorks, alias, editions>>
    BY <1>1 DEF graphVars
  <2>10. n \in [key : SourceKeys, version : Nat, work : sourceWorks',
                edition : Books \cup {Nowhere}, revision : Nat]
    BY <2>4, <2>9 DEF SourceKeys
  <2>11. /\ IsFiniteSet(sessions')
         /\ sessions' \subseteq [key : SourceKeys, version : Nat, work : sourceWorks',
                                 edition : Books \cup {Nowhere}, revision : Nat]
         /\ RevisionsDistinct' /\ SittingsTogether' /\ SittingsOrdered' /\ Ledger'
    BY <1>3, <2>2, <2>4, <2>5, <2>6, <2>7, <2>8, <2>9, <2>10, AppendedKeeps
  <2>12. SourceTyped'
    BY <1>1, <1>3, <2>9, <2>11 DEF SourceInv, SourceTyped
  <2>13. ForeignKeys'
    BY <1>1, <2>3, <2>4, <2>8, <2>9 DEF SourceInv, ForeignKeys
  <2>. QED
    BY <2>11, <2>12, <2>13 DEF SourceInv
<1>. QED
  BY <1>1, <1>4, <1>5 DEF AppendByTime

LEMMA ImportFailsInv ==
    ASSUME SourceInv, ImportFails
    PROVE  SourceInv'
<1>1. UNCHANGED <<graphVars, sessions, imports, link, version>> /\ import' = Idle
  BY DEF ImportFails
<1>2. SourceTyped' /\ ForeignKeys'
  BY <1>1 DEF SourceInv, SourceTyped, ForeignKeys, graphVars
<1>. QED
  BY <1>1, <1>2, SessionsKept DEF SourceInv

\* A finite set of one element or none has no two.
LEMMA AtMostOne ==
    ASSUME NEW S, IsFiniteSet(S), Cardinality(S) <= 1, NEW x \in S, NEW y \in S
    PROVE  x = y
<1>1. /\ IsFiniteSet(S \ {x}) /\ Cardinality(S \ {x}) = Cardinality(S) - 1
      /\ Cardinality(S) \in Nat
  BY FS_RemoveElement, FS_CardinalityType
<1>2. Cardinality(S \ {x}) \in Nat
  BY <1>1, FS_CardinalityType
<1>3. Cardinality(S \ {x}) = 0
  BY <1>1, <1>2
<1>4. S \ {x} = {}
  BY <1>1, <1>3, FS_EmptySet
<1>. QED
  BY <1>4

LEMMA ResolveInv ==
    ASSUME SourceAssumption, SourceInv, NEW b \in Books, NEW digest \in BOOLEAN,
           ResolveWork(b, digest)
    PROVE  SourceInv'
<1>. DEFINE known == {editions[b]} \cup (IF digest THEN {alias[b]} ELSE {})
<1>1. /\ Cardinality(known \ {Nowhere}) <= 1
      /\ UNCHANGED <<sessions, imports, link, version, import>>
  BY DEF ResolveWork
<1>2. PICK w \in IF known = {Nowhere} THEN SourceWorks \ born ELSE known \ {Nowhere} :
         /\ sourceWorks' = sourceWorks \cup {w}
         /\ editions' = [editions EXCEPT ![b] = w]
         /\ alias' = IF digest THEN [alias EXCEPT ![b] = w] ELSE alias
  BY DEF ResolveWork
<1>3. known \subseteq sourceWorks \cup {Nowhere} /\ sourceWorks \subseteq SourceWorks
  BY DEF SourceInv, SourceTyped
<1>4. w \in SourceWorks
  BY <1>3
<1>5. editions[b] \in {Nowhere, w}
  <2>1. CASE known = {Nowhere}
    BY <2>1
  <2>2. CASE known # {Nowhere}
    <3>. DEFINE K == known \ {Nowhere}
    <3>1. w \in K /\ (editions[b] = Nowhere \/ editions[b] \in K)
      BY <2>2
    <3>2. IsFiniteSet(known)
      BY FS_EmptySet, FS_AddElement, FS_Union, FS_Singleton
    <3>3. IsFiniteSet(K)
      BY <3>2, FS_Subset
    <3>4. \A x, y \in K : x = y
      BY <1>1, <3>3, AtMostOne
    <3>. QED
      BY <3>1, <3>4
  <2>. QED
    BY <2>1, <2>2
<1>6. /\ editions' \in [Books -> sourceWorks' \cup {Nowhere}]
      /\ \A s \in sessions : s.edition # Nowhere => editions'[s.edition] = s.work
      /\ link' # NoLink => editions'[link'.edition] = link'.work
      /\ link' = NoLink \/ link' \in [work : sourceWorks', edition : Books]
  BY <1>1, <1>2, <1>4, <1>5, PlacedKeeps
<1>. HIDE DEF known
<1>7. sourceWorks' \subseteq SourceWorks /\ alias' \in [Books -> sourceWorks' \cup {Nowhere}]
  BY <1>2, <1>3, <1>4 DEF SourceInv, SourceTyped
<1>8. SourceTyped'
  BY <1>1, <1>2, <1>6, <1>7 DEF SourceInv, SourceTyped
<1>9. ForeignKeys'
  BY <1>1, <1>6 DEF ForeignKeys
<1>. QED
  BY <1>1, <1>8, <1>9, SessionsKept DEF SourceInv

LEMMA SplitInv ==
    ASSUME SourceAssumption, SourceInv, NEW b \in Books, NEW digest \in BOOLEAN,
           NEW new \in SourceWorks, SplitWork(b, digest, new)
    PROVE  SourceInv'
<1>. DEFINE Going(s) == s.work = editions[b] /\ Follows(s, b, digest)
            f == [s \in sessions |-> IF Going(s) THEN new ELSE s.work]
<1>1. /\ editions[b] # Nowhere /\ sourceWorks' = sourceWorks \cup {new}
      /\ editions' = [editions EXCEPT ![b] = new]
      /\ alias' = IF digest THEN [alias EXCEPT ![b] = new] ELSE alias
      /\ sessions' = {IF Going(s) THEN [s EXCEPT !.work = new] ELSE s : s \in sessions}
      /\ link' = IF link # NoLink /\ link.work = editions[b] /\ link.edition = b
                 THEN [link EXCEPT !.work = new] ELSE link
      /\ UNCHANGED <<imports, version, import>>
  BY DEF SplitWork
<1>2. \A s \in sessions : s \in [key : SourceKeys, version : Nat, work : sourceWorks,
                                 edition : Books \cup {Nowhere}, revision : Nat]
  BY DEF SourceInv, SourceTyped
<1>3. f \in [sessions -> SourceWorks]
  BY <1>2 DEF SourceInv, SourceTyped
<1>4. \A s \in sessions :
         (IF Going(s) THEN [s EXCEPT !.work = new] ELSE s) = [s EXCEPT !.work = f[s]]
  BY <1>2
<1>5. sessions' = {[s EXCEPT !.work = f[s]] : s \in sessions}
  <2>. HIDE DEF f, Going
  <2>. QED
    BY <1>1, <1>4
<1>6. \A s \in sessions : f[s] \in sourceWorks' /\ (s.edition = b => f[s] = new)
                          /\ (s.edition \in Books \ {b} => f[s] = s.work)
  <2>. SUFFICES ASSUME NEW s \in sessions
       PROVE  f[s] \in sourceWorks' /\ (s.edition = b => f[s] = new)
              /\ (s.edition \in Books \ {b} => f[s] = s.work)
    OBVIOUS
  <2>1. f[s] \in sourceWorks'
    BY <1>1, <1>2
  <2>2. s.edition = b => Going(s)
    BY DEF Follows, SourceInv, ForeignKeys, SourceAssumption
  <2>3. s.edition \in Books \ {b} => ~Going(s)
    BY DEF Follows, SourceAssumption
  <2>. QED
    BY <2>1, <2>2, <2>3
<1>. HIDE DEF f, Going
<1>7. IsFiniteSet(sessions') /\ RevisionsDistinct' /\ SittingsTogether' /\ SittingsOrdered' /\ Ledger'
  BY <1>1, <1>3, <1>5, MovedSessionsKeep
<1>8. sessions' \subseteq [key : SourceKeys, version : Nat, work : sourceWorks',
                           edition : Books \cup {Nowhere}, revision : Nat]
  BY <1>2, <1>5, <1>6
<1>9. /\ sourceWorks' \subseteq SourceWorks
      /\ editions' \in [Books -> sourceWorks' \cup {Nowhere}]
      /\ alias' \in [Books -> sourceWorks' \cup {Nowhere}]
  BY <1>1 DEF SourceInv, SourceTyped
<1>10. link # NoLink => link \in [work : sourceWorks, edition : Books] /\ editions[link.edition] = link.work
  BY DEF SourceInv, SourceTyped, ForeignKeys
<1>11. /\ link' = NoLink \/ link' \in [work : sourceWorks', edition : Books]
       /\ link' # NoLink => editions'[link'.edition] = link'.work
  <2>1. CASE link = NoLink
    BY <1>1, <2>1
  <2>2. CASE link # NoLink /\ link.edition = b
    <3>1. link' = [link EXCEPT !.work = new]
      BY <1>1, <1>10, <2>2
    <3>. QED
      BY <1>1, <1>9, <1>10, <2>2, <3>1 DEF SourceInv, SourceTyped
  <2>3. CASE link # NoLink /\ link.edition # b
    BY <1>1, <1>10, <2>3
  <2>. QED
    BY <2>1, <2>2, <2>3
<1>12. SourceTyped'
  BY <1>1, <1>7, <1>8, <1>9, <1>11 DEF SourceInv, SourceTyped
<1>13. \A s \in sessions' : s.edition # Nowhere => editions'[s.edition] = s.work
  <2>. SUFFICES ASSUME NEW s \in sessions, s.edition # Nowhere
       PROVE  editions'[s.edition] = f[s]
    BY <1>2, <1>5
  <2>1. editions[s.edition] = s.work /\ s.edition \in Books
    BY <1>2 DEF SourceInv, ForeignKeys
  <2>. QED
    BY <1>1, <1>6, <2>1 DEF SourceInv, SourceTyped
<1>. QED
  BY <1>7, <1>11, <1>12, <1>13 DEF SourceInv, ForeignKeys

LEMMA MergeWorksInv ==
    ASSUME SourceAssumption, SourceInv, NEW from \in SourceWorks, NEW into \in SourceWorks,
           MergeWorks(from, into)
    PROVE  SourceInv'
<1>. DEFINE at(w) == IF w = from THEN into ELSE w
            f == [s \in sessions |-> at(s.work)]
<1>1. /\ from \in sourceWorks /\ into \in sourceWorks /\ from # into
      /\ sourceWorks' = sourceWorks \ {from}
      /\ alias' = [b \in Books |-> at(alias[b])]
      /\ editions' = [b \in Books |-> at(editions[b])]
      /\ sessions' = {[s EXCEPT !.work = at(s.work)] : s \in sessions}
      /\ link' = IF link # NoLink /\ link.work = from
                 THEN [link EXCEPT !.work = into] ELSE link
      /\ UNCHANGED <<imports, version, import>>
  BY DEF MergeWorks
<1>2. \A s \in sessions : s \in [key : SourceKeys, version : Nat, work : sourceWorks,
                                 edition : Books \cup {Nowhere}, revision : Nat]
  BY DEF SourceInv, SourceTyped
<1>3. /\ \A w \in sourceWorks : at(w) \in sourceWorks'
      /\ Nowhere # from /\ at(Nowhere) = Nowhere /\ sourceWorks \subseteq SourceWorks
  BY <1>1 DEF SourceAssumption, SourceInv, SourceTyped
<1>4. f \in [sessions -> SourceWorks] /\ \A s \in sessions : f[s] = at(s.work) /\ f[s] \in sourceWorks'
  BY <1>1, <1>2, <1>3
<1>5. sessions' = {[s EXCEPT !.work = f[s]] : s \in sessions}
  BY <1>1
<1>. HIDE DEF f
<1>6. IsFiniteSet(sessions') /\ RevisionsDistinct' /\ SittingsTogether' /\ SittingsOrdered' /\ Ledger'
  BY <1>1, <1>4, <1>5, MovedSessionsKeep
<1>7. sessions' \subseteq [key : SourceKeys, version : Nat, work : sourceWorks',
                           edition : Books \cup {Nowhere}, revision : Nat]
  BY <1>2, <1>4, <1>5
<1>8. /\ sourceWorks' \subseteq SourceWorks
      /\ editions' \in [Books -> sourceWorks' \cup {Nowhere}]
      /\ alias' \in [Books -> sourceWorks' \cup {Nowhere}]
  BY <1>1, <1>3 DEF SourceInv, SourceTyped
<1>9. link # NoLink => link \in [work : sourceWorks, edition : Books] /\ editions[link.edition] = link.work
  BY DEF SourceInv, SourceTyped, ForeignKeys
<1>10. link # NoLink => link' \in [work : sourceWorks', edition : Books]
                        /\ link'.work = at(link.work) /\ link'.edition = link.edition
  BY <1>1, <1>3, <1>9
<1>11. /\ link' = NoLink \/ link' \in [work : sourceWorks', edition : Books]
       /\ link' # NoLink => editions'[link'.edition] = link'.work
  <2>1. link = NoLink => link' = NoLink
    BY <1>1
  <2>. QED
    BY <1>1, <1>9, <1>10, <2>1
<1>12. SourceTyped'
  BY <1>1, <1>6, <1>7, <1>8, <1>11 DEF SourceInv, SourceTyped
<1>13. \A s \in sessions' : s.edition # Nowhere => editions'[s.edition] = s.work
  <2>. SUFFICES ASSUME NEW s \in sessions, s.edition # Nowhere
       PROVE  editions'[s.edition] = at(s.work)
    BY <1>2, <1>4, <1>5
  <2>1. editions[s.edition] = s.work /\ s.edition \in Books
    BY <1>2 DEF SourceInv, ForeignKeys
  <2>. QED
    BY <1>1, <2>1
<1>. QED
  BY <1>6, <1>11, <1>12, <1>13 DEF SourceInv, ForeignKeys

LEMMA DeleteSourceWorkInv ==
    ASSUME SourceAssumption, SourceInv, NEW w \in SourceWorks, DeleteSourceWork(w)
    PROVE  SourceInv'
<1>. DEFINE left(v) == IF v = w THEN Nowhere ELSE v
<1>1. /\ w \in sourceWorks /\ sourceWorks' = sourceWorks \ {w}
      /\ alias' = [b \in Books |-> left(alias[b])]
      /\ editions' = [b \in Books |-> left(editions[b])]
      /\ sessions' = {s \in sessions : s.work # w}
      /\ link' = IF link # NoLink /\ link.work = w THEN NoLink ELSE link
      /\ UNCHANGED <<imports, version, import>>
  BY DEF DeleteSourceWork
<1>2. IsFiniteSet(sessions') /\ sessions' \subseteq sessions
  BY <1>1, FS_Subset DEF SourceInv, SourceTyped
<1>3. /\ sourceWorks' \subseteq SourceWorks
      /\ editions' \in [Books -> sourceWorks' \cup {Nowhere}]
      /\ alias' \in [Books -> sourceWorks' \cup {Nowhere}]
  BY <1>1 DEF SourceInv, SourceTyped
<1>4. sessions' \subseteq [key : SourceKeys, version : Nat, work : sourceWorks',
                           edition : Books \cup {Nowhere}, revision : Nat]
  BY <1>1 DEF SourceInv, SourceTyped
<1>5. link # NoLink => link \in [work : sourceWorks, edition : Books] /\ editions[link.edition] = link.work
  BY DEF SourceInv, SourceTyped, ForeignKeys
<1>6. link' # NoLink => link' = link /\ link.work # w /\ link # NoLink
  BY <1>1
<1>7. SourceTyped'
  BY <1>1, <1>2, <1>3, <1>4, <1>5, <1>6 DEF SourceInv, SourceTyped
<1>8. ForeignKeys'
  <2>1. ASSUME NEW s \in sessions', s.edition # Nowhere PROVE editions'[s.edition] = s.work
    <3>1. editions[s.edition] = s.work /\ s.edition \in Books /\ s.work # w
      BY <1>1, <2>1 DEF SourceInv, SourceTyped, ForeignKeys
    <3>. QED
      BY <1>1, <3>1
  <2>2. link' # NoLink => editions'[link'.edition] = link'.work
    BY <1>1, <1>5, <1>6
  <2>. QED
    BY <2>1, <2>2 DEF ForeignKeys
<1>9. RevisionsDistinct' /\ SittingsTogether' /\ SittingsOrdered' /\ Ledger'
  BY <1>1, <1>2
     DEF SourceInv, RevisionsDistinct, SittingsTogether, SittingsOrdered, Ledger
<1>. QED
  BY <1>7, <1>8, <1>9 DEF SourceInv

-----------------------------------------------------------------------------
(* The inductive invariant of the reports of sources.                      *)
THEOREM SourceInvariant == ASSUME SourceAssumption PROVE SourceSpec => []SourceInv
<1>1. SourceInit => SourceInv
  BY SourceInitInv
<1>2. SourceInv /\ [SourceNext]_sourceVars => SourceInv'
  <2>. SUFFICES ASSUME SourceInv, [SourceNext]_sourceVars PROVE SourceInv'
    OBVIOUS
  <2>1. CASE \E k \in SourceKeys : Report(k)
    BY <2>1, ReportInv
  <2>2. CASE \E k \in KoRows, v \in 1 .. MaxVersion : UpsertKopluginSession(k, v)
    BY <2>2, UpsertInv
  <2>3. CASE (\E b \in Books : CreateAudiobookLink(b)) \/ DeleteAudiobookLink
    BY <2>3, LinkInv
  <2>4. CASE \E k \in Sittings, v \in 1 .. MaxVersion : ImportSession(k, v)
    BY <2>4, ImportInv
  <2>5. CASE AppendAudiobookSession
    BY <2>5, AppendInv
  <2>6. CASE ImportFails
    BY <2>6, ImportFailsInv
  <2>7. CASE \E b \in Books, digest \in BOOLEAN : ResolveWork(b, digest)
    BY <2>7, ResolveInv
  <2>8. CASE \E b \in Books, digest \in BOOLEAN, new \in SourceWorks : SplitWork(b, digest, new)
    BY <2>8, SplitInv
  <2>9. CASE \E from, into \in SourceWorks : MergeWorks(from, into)
    BY <2>9, MergeWorksInv
  <2>10. CASE \E w \in SourceWorks : DeleteSourceWork(w)
    BY <2>10, DeleteSourceWorkInv
  <2>11. CASE UNCHANGED sourceVars
    <3>1. UNCHANGED <<graphVars, sessions, imports, link, version, import>>
      BY <2>11 DEF sourceVars
    <3>2. SourceTyped' /\ ForeignKeys'
      BY <3>1 DEF SourceInv, SourceTyped, ForeignKeys, graphVars
    <3>. QED
      BY <3>1, <3>2, SessionsKept DEF SourceInv
  <2>. QED
    BY <2>1, <2>2, <2>3, <2>4, <2>5, <2>6, <2>7, <2>8, <2>9, <2>10, <2>11 DEF SourceNext
<1>. QED
  BY <1>1, <1>2, PTL DEF SourceSpec

(* A sitting counts as its source last described it, in whatever order its *)
(* reports arrive and wherever its work went between the two transactions  *)
(* of an import (appendSourceSessionTx).                                   *)
THEOREM SourceLatestCounts == ASSUME SourceAssumption PROVE SourceSpec => []LatestReportCounts
<1>1. SourceInv => LatestReportCounts
  <2>. SUFFICES ASSUME SourceInv, NEW k \in Sittings, History(k) # {}, NEW s \in History(k)
       PROVE  s.version <= Current(k).version
    BY DEF LatestReportCounts
  <2>1. s \in sessions /\ s.key = k
    BY DEF History
  <2>2. Current(k) \in sessions /\ Current(k).key = k /\ s.revision <= Current(k).revision
    BY <2>1, CurrentIsLast
  <2>. HIDE DEF Current
  <2>. QED
    BY <2>1, <2>2 DEF SourceInv, SittingsOrdered
<1>. QED
  BY <1>1, SourceInvariant, PTL

(* The revisions of a sitting are always in one work, so that no deletion  *)
(* makes an older one count again (appendSourceSessionTx takes the work    *)
(* and the file of the current revision).                                  *)
RevisionsTogether ==
    \A s, t \in sessions : s.key \in Sittings /\ s.key = t.key => s.work = t.work

THEOREM SourceTogether == ASSUME SourceAssumption PROVE SourceSpec => []RevisionsTogether
<1>1. SourceInv => RevisionsTogether
  BY DEF SourceAssumption, SourceInv, SittingsTogether, ForeignKeys, RevisionsTogether
<1>. QED
  BY <1>1, SourceInvariant, PTL

(* A session, and the audiobook's link, are on a work that exists, and on  *)
(* the work of the file they name: no split, merge, deletion or            *)
(* resolution breaks a foreign key that its transaction defers.            *)
Referenced ==
    /\ \A s \in sessions : s.work \in sourceWorks /\ (s.edition # Nowhere => editions[s.edition] = s.work)
    /\ link # NoLink => link.work \in sourceWorks /\ editions[link.edition] = link.work

THEOREM SourceForeignKeys == ASSUME SourceAssumption PROVE SourceSpec => []Referenced
<1>1. SourceInv => Referenced
  BY DEF SourceInv, SourceTyped, ForeignKeys, Referenced
<1>. QED
  BY <1>1, SourceInvariant, PTL

(* A sitting that was imported and has no session left was deleted by the  *)
(* reader with its work: no later report, and none that was being imported *)
(* when the work went, brings it back (AppendAudiobookSession).            *)
DeletedStaysDeleted == [][\A k \in Sittings : Deleted(k) => Deleted(k)']_sourceVars

THEOREM SourceDeletedStays == ASSUME SourceAssumption PROVE SourceSpec => DeletedStaysDeleted
<1>1. ASSUME SourceInv, SourceNext, NEW k \in Sittings, Deleted(k) PROVE Deleted(k)'
  <2>1. k \in imports /\ \A s \in sessions : s.key # k
    BY <1>1 DEF Deleted, History
  <2>2. SUFFICES k \in imports' /\ \A s \in sessions' : s.key # k
    BY DEF Deleted, History
  <2>3. CASE \E j \in KoRows, v \in 1 .. MaxVersion : UpsertKopluginSession(j, v)
    <3>1. PICK j \in KoRows, v \in 1 .. MaxVersion : UpsertKopluginSession(j, v)
      BY <2>3
    <3>2. UNCHANGED imports /\ j # k
      BY <3>1 DEF UpsertKopluginSession, SourceAssumption
    <3>3. \A s \in sessions' : s \in sessions \/ s.key = j
      BY <3>1 DEF UpsertKopluginSession, AppendByArrival, Numbered
    <3>. QED
      BY <2>1, <3>2, <3>3
  <2>4. CASE AppendAudiobookSession
    <3>. DEFINE s == import.session
    <3>1. CASE s.key = k
      BY <1>1, <2>1, <2>4, <3>1 DEF AppendAudiobookSession
    <3>2. CASE s.key # k
      <4>1. imports \subseteq imports'
        BY <2>4 DEF AppendAudiobookSession
      <4>2. UNCHANGED sessions \/ sessions' = sessions \cup {Numbered(Replacing(s))}
        BY <2>4 DEF AppendAudiobookSession, AppendByTime
      <4>3. s \in [key : Sittings, version : Nat, revision : {0}, work : SourceWorks, edition : Books]
        BY <1>1, <2>4 DEF SourceInv, SourceTyped, AppendAudiobookSession
      <4>. HIDE DEF s
      <4>4. Numbered(Replacing(s)).key = s.key
        BY <4>3 DEF Numbered, Replacing
      <4>. QED
        BY <2>1, <3>2, <4>1, <4>2, <4>4
    <3>. QED
      BY <3>1, <3>2
  <2>5. CASE \E b \in Books, digest \in BOOLEAN, new \in SourceWorks : SplitWork(b, digest, new)
    <3>1. UNCHANGED imports
      BY <2>5 DEF SplitWork
    <3>2. PICK b \in Books, digest \in BOOLEAN, new \in SourceWorks : SplitWork(b, digest, new)
      BY <2>5
    <3>3. \A s \in sessions' : \E t \in sessions : s = t \/ s = [t EXCEPT !.work = new]
      BY <3>2 DEF SplitWork
    <3>4. \A t \in sessions : [t EXCEPT !.work = new].key = t.key
      BY <1>1 DEF SourceInv, SourceTyped
    <3>. QED
      BY <2>1, <3>1, <3>3, <3>4
  <2>6. CASE \E from, into \in SourceWorks : MergeWorks(from, into)
    <3>1. PICK from \in SourceWorks, into \in SourceWorks : MergeWorks(from, into)
      BY <2>6
    <3>. DEFINE at(w) == IF w = from THEN into ELSE w
    <3>2. UNCHANGED imports /\ sessions' = {[t EXCEPT !.work = at(t.work)] : t \in sessions}
      BY <3>1 DEF MergeWorks
    <3>3. \A t \in sessions : [t EXCEPT !.work = at(t.work)].key = t.key
      BY <1>1 DEF SourceInv, SourceTyped
    <3>. HIDE DEF at
    <3>. QED
      BY <2>1, <3>2, <3>3
  <2>7. CASE \E w \in SourceWorks : DeleteSourceWork(w)
    BY <2>1, <2>7 DEF DeleteSourceWork
  <2>8. CASE UNCHANGED <<sessions, imports>>
    BY <2>1, <2>8
  <2>. QED
    BY <1>1, <2>3, <2>4, <2>5, <2>6, <2>7, <2>8
       DEF SourceNext, Report, CreateAudiobookLink, DeleteAudiobookLink, ImportSession,
           ImportFails, ResolveWork
<1>2. ASSUME SourceInv, [SourceNext]_sourceVars
      PROVE  [\A k \in Sittings : Deleted(k) => Deleted(k)']_sourceVars
  BY <1>1, <1>2
<1>. QED
  BY <1>2, SourceInvariant, PTL DEF SourceSpec, DeletedStaysDeleted

=============================================================================
