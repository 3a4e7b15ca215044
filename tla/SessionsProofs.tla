--------------------------- MODULE SessionsProofs ---------------------------
(***************************************************************************)
(* Proofs about Sessions, for every set of works, devices, requests and    *)
(* events, and every setting that config.Validate accepts: that a session  *)
(* is counted once, that a position is drawn into one session, that what   *)
(* was recorded follows its identifier, and that an event keeps its        *)
(* answer.                                                                 *)
(***************************************************************************)
EXTENDS Sessions, FiniteSetTheorems, WellFoundedInduction, TLAPS

-----------------------------------------------------------------------------
(* The inductive invariant.                                                *)

(* What is counted is finite.                                              *)
FiniteTables == IsFiniteSet(sessions) /\ IsFiniteSet(tombs)

(* A tombstone keeps what it was made of, under the day it was counted on. *)
TombsKeep ==
  \A t \in tombs : t.id = t.fp.id /\ t.work = t.fp.work /\ t.day = Day(t.fp.to, t.zone)

(* A receipt that stored has its session, as a row or archived.            *)
ReceiptsBacked ==
  \A r \in receipts :
    /\ r.outcome = "stored" => /\ r.session = <<r.dev, r.event>>
                               /\ r.session \in Ids(sessions) \cup Ids(tombs)
    /\ r.outcome = "ignored" => r.session = NoSession /\ r.work = NoWork

(* Positions are numbered in the order of their times, one number each.    *)
PositionsOrdered ==
  \A o, p \in ops : /\ o.seq = p.seq => o = p
                    /\ o.seq <= p.seq => o.at <= p.at

(* A drawn position is in a session of its device and its identifier.      *)
DrawnSpanned ==
  \A o \in ops : o.stamp # NoSession =>
    \E s \in Inferred : /\ s.id = o.stamp /\ s.dev = o.dev /\ s.own = o.own
                        /\ s.from <= o.at /\ o.at <= s.to

(* The position an inferred session begins with was drawn into it.         *)
BeginningsDrawn ==
  \A s \in Inferred :
    /\ s.id \in Works \X Devices \X Nat /\ s.id[3] < nextSeq
    /\ \A o \in ops : o.seq = s.id[3] => o.stamp = s.id

(* What the materializer carries are groups of one device, work and        *)
(* identifier.                                                             *)
GroupsUniform ==
  \A g \in job.groups :
    /\ g # {}
    /\ \A o, p \in g : o.dev = p.dev /\ o.work = p.work /\ o.own = p.own

IInv ==
  /\ TypeOK /\ FiniteTables /\ CountedOnce /\ TombsKeep
  /\ PositionsDrawnOnce /\ PositionsOrdered /\ DrawnSpanned /\ BeginningsDrawn /\ GroupsUniform
  /\ EvidenceFollowsIdentity /\ ReceiptsBacked /\ EventsAnsweredOnce

-----------------------------------------------------------------------------
(* Lemmas about numbers, rows and groups.                                  *)

(* The least-number principle.                                             *)
LEMMA MinExists ==
  ASSUME NEW S \in SUBSET Nat, S # {}
  PROVE  \E m \in S : \A k \in S : m <= k
<1>1. PICK x \in S : \A y \in S : ~ (<<y, x>> \in OpToRel(<, Nat))
  BY WFMin, NatLessThanWellFounded
<1>2. ASSUME NEW k \in S, k < x PROVE FALSE
  <2>1. <<k, x>> \in OpToRel(<, Nat)
    BY <1>2, Zenon DEF OpToRel
  <2>. QED
    BY <2>1, <1>1, Zenon
<1>3. \A a, b \in Nat : ~(a < b) => b <= a
  BY SMT
<1>. QED
  BY <1>2, <1>3, Zenon

(* A set of positions below a number has a first and a last.               *)
LEMMA GroupEnds ==
  ASSUME NEW g, g # {}, NEW b \in Nat, \A o \in g : o.seq \in Nat /\ o.seq < b
  PROVE  /\ FirstOp(g) \in g /\ \A o \in g : FirstOp(g).seq <= o.seq
         /\ LastOp(g) \in g /\ \A o \in g : o.seq <= LastOp(g).seq
<1>1. \E o \in g : \A p \in g : o.seq <= p.seq
  <2>. DEFINE S == {o.seq : o \in g}
  <2>1. S \in SUBSET Nat /\ S # {}
    OBVIOUS
  <2>2. PICK m \in S : \A k \in S : m <= k
    BY <2>1, MinExists
  <2>. QED
    BY <2>2
<1>2. \E o \in g : \A p \in g : p.seq <= o.seq
  <2>. DEFINE S == {b - o.seq : o \in g}
  <2>1. S \in SUBSET Nat /\ S # {}
    OBVIOUS
  <2>2. PICK m \in S : \A k \in S : m <= k
    BY <2>1, MinExists
  <2>3. PICK o \in g : m = b - o.seq
    BY <2>2
  <2>4. ASSUME NEW p \in g PROVE p.seq <= o.seq
    <3>1. b - p.seq \in S /\ m <= b - p.seq
      BY <2>2
    <3>. QED
      BY <2>3, <3>1
  <2>. QED
    BY <2>4
<1>. QED
  BY <1>1, <1>2 DEF FirstOp, LastOp

(* A day is a number.                                                      *)
LEMMA DayType ==
  ASSUME NEW t \in Nat, NEW z \in Zones
  PROVE  Day(t, z) \in Int
BY SessionsAssumption DEF Day, SessionsAssumption

(* A session, a position or a receipt that moves changes its work only.    *)
LEMMA MovedSession ==
  ASSUME NEW s \in Session, NEW w, NEW moving, NEW into \in Works
  PROVE  LET m == Moved(s, w, moving, into)
         IN /\ m \in Session
            /\ m.id = s.id /\ m.dev = s.dev /\ m.own = s.own
            /\ m.from = s.from /\ m.to = s.to /\ m.origin = s.origin
            /\ m.work = IF s.work = w /\ s.own \in moving THEN into ELSE s.work
BY DEF Moved, Session

LEMMA MovedPosition ==
  ASSUME NEW o \in Position, NEW w, NEW moving, NEW into \in Works
  PROVE  LET m == Moved(o, w, moving, into)
         IN /\ m \in Position
            /\ m.seq = o.seq /\ m.dev = o.dev /\ m.own = o.own
            /\ m.at = o.at /\ m.stamp = o.stamp
            /\ m.work = IF o.work = w /\ o.own \in moving THEN into ELSE o.work
BY DEF Moved, Position

LEMMA MovedReceipt ==
  ASSUME NEW r \in EventReceipt, NEW w \in Works \cup {NoWork}
  PROVE  LET m == [r EXCEPT !.work = w]
         IN /\ m \in EventReceipt
            /\ m.dev = r.dev /\ m.event = r.event /\ m.hash = r.hash
            /\ m.outcome = r.outcome /\ m.session = r.session /\ m.work = w
BY DEF EventReceipt

(* The members of a group that was read are of one sitting.                *)
LEMMA GroupsAreUniform ==
  ASSUME TypeOK, PositionsOrdered, NEW g \in Groups
  PROVE  /\ g # {} /\ g \subseteq ops
         /\ \A o, p \in g : o.dev = p.dev /\ o.work = p.work /\ o.own = p.own
<1>1. PICK o \in ops : Awaits(o) /\ g = {p \in ops : Joined(o, p) \/ Joined(p, o)}
  BY DEF Groups
<1>2. Joined(o, o)
  <2>. DEFINE between == {q \in ops : /\ Awaits(q) /\ q.dev = o.dev /\ q.work = o.work
                                      /\ o.seq <= q.seq /\ q.seq <= o.seq}
  <2>1. o.seq \in Nat /\ \A q \in ops : q.seq \in Nat
    BY DEF TypeOK, Position
  <2>2. o \in between /\ \A q \in between : q = o
    BY <1>1, <2>1 DEF PositionsOrdered
  <2>. QED
    BY <2>2 DEF Joined
<1>3. ASSUME NEW p \in ops, Joined(o, p) \/ Joined(p, o)
      PROVE  p.dev = o.dev /\ p.work = o.work /\ p.own = o.own
  BY <1>3 DEF Joined
<1>. QED
  BY <1>1, <1>2, <1>3

-----------------------------------------------------------------------------
(* What a step that leaves these variables alone preserves.                *)

LEMMA CountStays ==
  ASSUME FiniteTables, CountedOnce, TombsKeep, UNCHANGED <<sessions, tombs, rollups, accepted, dropped>>
  PROVE  FiniteTables' /\ CountedOnce' /\ TombsKeep'
BY DEF FiniteTables, CountedOnce, StoredOnce, TotalsExact, Backing, TombsKeep, Ids

LEMMA DrawStays ==
  ASSUME PositionsDrawnOnce, PositionsOrdered, DrawnSpanned, BeginningsDrawn,
         Inferred' = Inferred, UNCHANGED <<ops, nextSeq>>
  PROVE  PositionsDrawnOnce' /\ PositionsOrdered' /\ DrawnSpanned' /\ BeginningsDrawn'
BY DEF PositionsDrawnOnce, PositionsOrdered, DrawnSpanned, BeginningsDrawn

LEMMA EvidenceStays ==
  ASSUME EvidenceFollowsIdentity, UNCHANGED <<works, owner, sessions, tombs, receipts, ops>>
  PROVE  EvidenceFollowsIdentity'
BY DEF EvidenceFollowsIdentity

LEMMA ReceiptsStay ==
  ASSUME ReceiptsBacked, EventsAnsweredOnce, UNCHANGED <<sessions, tombs, receipts, answered>>
  PROVE  ReceiptsBacked' /\ EventsAnsweredOnce'
BY DEF ReceiptsBacked, EventsAnsweredOnce, Receipt, Ids

-----------------------------------------------------------------------------
(* The initial states, and the steps that touch no row.                    *)

LEMMA InitInvariant == Init => IInv
<1>. SUFFICES ASSUME Init PROVE IInv
  OBVIOUS
<1>1. Idle \in [zone : Zones, doing : {"idle", "inferring", "reading", "applying"},
                groups : SUBSET SUBSET Position, cut : Int, batch : SUBSET Session]
      /\ Idle.groups = {} /\ Idle.batch = {} /\ Idle.doing = "idle"
  BY SessionsAssumption DEF SessionsAssumption, Idle
<1>2. IsFiniteSet({}) /\ Cardinality({}) = 0
  BY FS_EmptySet
<1>3. TypeOK
  <2>1. rollups \in [DOMAIN rollups -> Nat \ {0}]
    BY DEF Init
  <2>2. measured \in [Devices -> Nat]
    BY SessionsAssumption DEF Init, Never, SessionsAssumption
  <2>. QED
    BY <1>1, <1>2, <2>1, <2>2, SessionsAssumption DEF Init, TypeOK, SessionsAssumption
<1>4. FiniteTables /\ TombsKeep
  BY <1>2 DEF Init, FiniteTables, TombsKeep
<1>5. CountedOnce
  BY DEF Init, CountedOnce, StoredOnce, TotalsExact, Ids
<1>6. PositionsDrawnOnce /\ PositionsOrdered /\ DrawnSpanned /\ BeginningsDrawn
  BY DEF Init, PositionsDrawnOnce, PositionsOrdered, DrawnSpanned, BeginningsDrawn, Inferred, Kept
<1>7. GroupsUniform
  BY <1>1 DEF Init, GroupsUniform
<1>8. EvidenceFollowsIdentity /\ ReceiptsBacked /\ EventsAnsweredOnce
  BY DEF Init, EvidenceFollowsIdentity, ReceiptsBacked, EventsAnsweredOnce
<1>. QED
  BY <1>3, <1>4, <1>5, <1>6, <1>7, <1>8 DEF IInv

LEMMA ClockStep ==
  ASSUME IInv,
         Tick \/ (\E z \in Zones : SetTimezone(z)) \/ \E d \in Devices : EnableKosyncStatistics(d)
  PROVE  IInv'
<1>1. UNCHANGED <<graphVars, storeVars, ops, nextSeq, job, historyVars>>
  BY DEF Tick, SetTimezone, EnableKosyncStatistics, kosyncVars
<1>2. TypeOK'
  <2>1. zone' \in Zones /\ now' \in Nat /\ now <= now'
    BY DEF IInv, TypeOK, Tick, SetTimezone, EnableKosyncStatistics, clockVars
  <2>2. measured' \in [Devices -> Nat]
    BY DEF IInv, TypeOK, Tick, SetTimezone, EnableKosyncStatistics, kosyncVars
  <2>3. \A o \in ops' : o.seq < nextSeq' /\ o.at <= now'
    <3>1. \A o \in ops : o.at \in Nat /\ o.at <= now /\ o.seq < nextSeq
      BY DEF IInv, TypeOK, Position
    <3>2. now \in Nat
      BY DEF IInv, TypeOK
    <3>. QED
      BY <1>1, <2>1, <3>1, <3>2
  <2>. QED
    BY <1>1, <2>1, <2>2, <2>3 DEF IInv, TypeOK, graphVars, storeVars, historyVars
<1>3. FiniteTables' /\ CountedOnce' /\ TombsKeep'
  BY <1>1, CountStays DEF IInv, storeVars, historyVars
<1>4. PositionsDrawnOnce' /\ PositionsOrdered' /\ DrawnSpanned' /\ BeginningsDrawn'
  BY <1>1, DrawStays DEF IInv, storeVars, Inferred, Kept
<1>5. GroupsUniform'
  BY <1>1 DEF IInv, GroupsUniform
<1>6. EvidenceFollowsIdentity'
  BY <1>1, EvidenceStays DEF IInv, storeVars, graphVars
<1>7. ReceiptsBacked' /\ EventsAnsweredOnce'
  BY <1>1, ReceiptsStay DEF IInv, storeVars, historyVars
<1>. QED
  BY <1>2, <1>3, <1>4, <1>5, <1>6, <1>7 DEF IInv

LEMMA ReadingStep ==
  ASSUME IInv, ReadPendingOps \/ StartRollup \/ ReadBatch
  PROVE  IInv'
<1>1. UNCHANGED <<graphVars, storeVars, ops, nextSeq, measured, zone, now, historyVars>>
  BY DEF ReadPendingOps, StartRollup, ReadBatch, kosyncVars, clockVars
<1>. DEFINE Jobs == [zone : Zones, doing : {"idle", "inferring", "reading", "applying"},
                     groups : SUBSET SUBSET Position, cut : Int, batch : SUBSET Session]
            JobFits(j) == /\ j \in Jobs /\ (j.groups # {} => j.doing = "inferring")
                          /\ (j.batch # {} <=> j.doing = "applying")
                          /\ Cardinality(j.batch) <= BatchSize
                          /\ \A g \in j.groups :
                               /\ g # {}
                               /\ \A o, p \in g : o.dev = p.dev /\ o.work = p.work /\ o.own = p.own
<1>2. JobFits(job)
  BY DEF IInv, TypeOK, GroupsUniform
<1>3. JobFits(job')
  <2>1. CASE ReadPendingOps
    <3>. DEFINE G == {g \in Groups : LastOp(g).at < now - Late}
    <3>1. job' = [job EXCEPT !.doing = "inferring", !.groups = G] /\ job.doing = "idle"
      BY <2>1 DEF ReadPendingOps
    <3>2. \A g \in Groups : /\ g # {} /\ g \in SUBSET Position
                            /\ \A o, p \in g : o.dev = p.dev /\ o.work = p.work /\ o.own = p.own
      BY GroupsAreUniform DEF IInv, TypeOK
    <3>. HIDE DEF G
    <3>3. /\ job'.groups = G /\ job'.doing = "inferring" /\ job'.batch = job.batch
          /\ job'.zone = job.zone /\ job'.cut = job.cut
      BY <1>2, <3>1
    <3>4. G \in SUBSET SUBSET Position
      BY <3>2 DEF G
    <3>5. job' \in Jobs
      BY <1>2, <3>1, <3>4
    <3>. QED
      BY <1>2, <3>1, <3>2, <3>3, <3>5 DEF G
  <2>2. CASE StartRollup
    <3>1. job' = [job EXCEPT !.doing = "reading", !.cut = now - Retention, !.zone = zone]
      BY <2>2 DEF StartRollup
    <3>2. now - Retention \in Int /\ zone \in Zones
      BY SessionsAssumption DEF IInv, TypeOK, SessionsAssumption
    <3>. QED
      BY <1>2, <2>2, <3>1, <3>2 DEF StartRollup
  <2>3. CASE ReadBatch /\ job' = Idle
    BY <2>3, FS_EmptySet, SessionsAssumption DEF Idle, SessionsAssumption
  <2>4. CASE ReadBatch /\ job' # Idle
    <3>1. PICK page \in SUBSET Ended(job.cut) :
            /\ page # {} /\ Cardinality(page) <= BatchSize
            /\ job' = [job EXCEPT !.doing = "applying", !.batch = page]
      BY <2>4 DEF ReadBatch
    <3>2. page \in SUBSET Session
      BY <3>1 DEF Ended, IInv, TypeOK
    <3>. QED
      BY <1>2, <2>4, <3>1, <3>2 DEF ReadBatch
  <2>. QED
    BY <2>1, <2>2, <2>3, <2>4
<1>4. TypeOK'
  BY <1>1, <1>3 DEF IInv, TypeOK, graphVars, storeVars, historyVars
<1>5. GroupsUniform'
  BY <1>3 DEF GroupsUniform
<1>6. FiniteTables' /\ CountedOnce' /\ TombsKeep'
  BY <1>1, CountStays DEF IInv, storeVars, historyVars
<1>7. PositionsDrawnOnce' /\ PositionsOrdered' /\ DrawnSpanned' /\ BeginningsDrawn'
  BY <1>1, DrawStays DEF IInv, storeVars, Inferred, Kept
<1>8. EvidenceFollowsIdentity'
  BY <1>1, EvidenceStays DEF IInv, storeVars, graphVars
<1>9. ReceiptsBacked' /\ EventsAnsweredOnce'
  BY <1>1, ReceiptsStay DEF IInv, storeVars, historyVars
<1>. QED
  BY <1>4, <1>5, <1>6, <1>7, <1>8, <1>9 DEF IInv

-----------------------------------------------------------------------------
(* Uploads and events.                                                     *)

(* Rows that are new, and others accepted again, keep the counting right.  *)
LEMMA RowsAdded ==
  ASSUME StoredOnce, NEW fresh, NEW again,
         \A s, t \in fresh : s.id = t.id => s = t,
         Ids(fresh) \cap (Ids(sessions) \cup Ids(tombs)) = {},
         Ids(again) \subseteq Ids(sessions) \cup Ids(tombs),
         sessions' = sessions \cup fresh, tombs' = tombs,
         accepted' = accepted \cup fresh \cup again,
         dropped' = dropped \ (Ids(fresh) \cup Ids(again))
  PROVE  StoredOnce'
<1>1. Ids(sessions') = Ids(sessions) \cup Ids(fresh) /\ Ids(tombs') = Ids(tombs)
      /\ Ids(accepted') = Ids(accepted) \cup Ids(fresh) \cup Ids(again)
  BY DEF Ids
<1>2. \A s, t \in sessions' : s.id = t.id => s = t
  BY DEF StoredOnce, Ids
<1>3. \A s, t \in tombs' : s.id = t.id => s = t
  BY DEF StoredOnce
<1>4. Ids(sessions') \cap Ids(tombs') = {}
  BY <1>1 DEF StoredOnce
<1>5. Ids(accepted') \ dropped' = Ids(sessions') \cup Ids(tombs')
  BY <1>1, Zenon DEF StoredOnce
<1>. QED
  BY <1>2, <1>3, <1>4, <1>5 DEF StoredOnce, Ids

(* What a row's id is judged to be.                                        *)
LEMMA Judged ==
  ASSUME NEW s
  PROVE  /\ Judge(s) \in {"new", "unknown_work"} <=> s.id \notin Ids(sessions) \cup Ids(tombs)
         /\ Judge(s) = "new" => s.work \in works
         /\ Judge(s) = "duplicate" => s \in sessions \/ \E t \in tombs : t.id = s.id /\ t.fp = s
BY DEF Judge, Tomb, Live, Ids

(* No receipt waits for a session that is not there.                       *)
LEMMA NewHasNoReceipt ==
  ASSUME TypeOK, ReceiptsBacked, NEW i \in SessionIds, i \notin Ids(sessions) \cup Ids(tombs)
  PROVE  \A r \in receipts : r.session # i
<1>1. \A r \in receipts : r.outcome \in {"stored", "ignored"}
  BY DEF TypeOK, EventReceipt
<1>. QED
  BY <1>1, InputsAssumption DEF ReceiptsBacked, InputsAssumption

LEMMA UploadStep ==
  ASSUME IInv, NEW batch \in Batches, AppendSessions(batch)
  PROVE  IInv'
<1>. DEFINE fresh == {s \in batch : Judge(s) = "new"}
<1>1. /\ sessions' = sessions \cup fresh /\ accepted' = accepted \cup fresh
      /\ dropped' = dropped \ Ids(fresh)
      /\ UNCHANGED <<graphVars, tombs, rollups, receipts, kosyncVars, clockVars, job, answered>>
  BY DEF AppendSessions, Ids
<1>2. IsFiniteSet(fresh) /\ fresh \subseteq Session
  <2>1. IsFiniteSet(batch) /\ batch \subseteq Session /\ fresh \in SUBSET batch
    BY InputsAssumption DEF InputsAssumption
  <2>. QED
    BY <2>1, FS_Subset
<1>3. \A s \in fresh : s.id \notin Ids(sessions) \cup Ids(tombs) /\ s.work \in works
  BY Judged
<1>4. \A s \in fresh : /\ s.origin = "native" /\ s.own \notin Aliases
                       /\ s.own \in Editions => owner[s.own] = s.work
  BY InputsAssumption DEF AppendSessions, EditionAgrees, InputsAssumption
<1>5. \A s, t \in fresh : s.id = t.id => s = t
  BY DEF AppendSessions
<1>. HIDE DEF fresh
<1>6. TypeOK'
  BY <1>1, <1>2 DEF IInv, TypeOK, graphVars, kosyncVars, clockVars
<1>7. FiniteTables'
  BY <1>1, <1>2, FS_Union DEF IInv, FiniteTables
<1>8. CountedOnce' /\ TombsKeep'
  <2>1. StoredOnce'
    <3>1. Ids(fresh) \cap (Ids(sessions) \cup Ids(tombs)) = {}
      BY <1>3 DEF Ids
    <3>2. /\ Ids({}) \subseteq Ids(sessions) \cup Ids(tombs)
          /\ accepted' = accepted \cup fresh \cup {} /\ dropped' = dropped \ (Ids(fresh) \cup Ids({}))
      BY <1>1 DEF Ids
    <3>. QED
      BY <1>1, <1>5, <3>1, <3>2, RowsAdded, Zenon DEF IInv, CountedOnce
  <2>. QED
    BY <1>1, <2>1 DEF IInv, CountedOnce, TotalsExact, Backing, TombsKeep
<1>9. PositionsDrawnOnce' /\ PositionsOrdered' /\ DrawnSpanned' /\ BeginningsDrawn'
  <2>1. Inferred' = Inferred
    BY <1>1, <1>4 DEF Inferred, Kept
  <2>. QED
    BY <1>1, <2>1, DrawStays DEF IInv, kosyncVars
<1>10. GroupsUniform'
  BY <1>1 DEF IInv, GroupsUniform
<1>11. EvidenceFollowsIdentity'
  <2>1. \A r \in receipts, s \in fresh : r.session # s.id
    <3>1. \A s \in fresh : s.id \in SessionIds
      BY <1>2 DEF Session
    <3>. QED
      BY <1>3, <3>1, NewHasNoReceipt DEF IInv
  <2>2. \A s \in fresh : s.work \in works /\ (s.own \in Idents => owner[s.own] = s.work)
    BY <1>3, <1>4 DEF Idents
  <2>. QED
    BY <1>1, <2>1, <2>2 DEF IInv, EvidenceFollowsIdentity, graphVars, kosyncVars
<1>12. ReceiptsBacked' /\ EventsAnsweredOnce'
  BY <1>1 DEF IInv, ReceiptsBacked, EventsAnsweredOnce, Receipt, Ids
<1>. QED
  BY <1>6, <1>7, <1>8, <1>9, <1>10, <1>11, <1>12 DEF IInv

LEMMA IgnoredEventStep ==
  ASSUME IInv, NEW d \in Devices, NEW e \in Events, IgnoreKosyncSession(d, e)
  PROVE  IInv'
<1>. DEFINE r == [dev |-> d, event |-> e.id, hash |-> e.hash, outcome |-> "ignored",
                  work |-> NoWork, session |-> NoSession]
<1>1. /\ receipts' = receipts \cup {r}
      /\ answered' = answered \cup {[dev |-> d, event |-> e, outcome |-> "ignored"]}
      /\ UNCHANGED <<graphVars, sessions, tombs, rollups, kosyncVars, clockVars, job, accepted, dropped>>
  BY DEF IgnoreKosyncSession
<1>2. r \in EventReceipt
  BY DEF EventReceipt, EventIds
<1>3. TypeOK'
  BY <1>1, <1>2 DEF IInv, TypeOK, graphVars, kosyncVars, clockVars
<1>4. FiniteTables' /\ CountedOnce' /\ TombsKeep'
  BY <1>1, CountStays DEF IInv
<1>5. PositionsDrawnOnce' /\ PositionsOrdered' /\ DrawnSpanned' /\ BeginningsDrawn'
  BY <1>1, DrawStays DEF IInv, kosyncVars, Inferred, Kept
<1>6. GroupsUniform'
  BY <1>1 DEF IInv, GroupsUniform
<1>7. EvidenceFollowsIdentity'
  <2>1. \A s \in sessions : s.id # NoSession
    BY InputsAssumption DEF IInv, TypeOK, Session, InputsAssumption
  <2>. QED
    BY <1>1, <2>1 DEF IInv, EvidenceFollowsIdentity, graphVars, kosyncVars
<1>8. ReceiptsBacked'
  BY <1>1 DEF IInv, ReceiptsBacked, Ids
<1>9. EventsAnsweredOnce'
  <2>1. r \in receipts' /\ receipts \subseteq receipts' /\ r.outcome = "ignored" /\ r.hash = e.hash
        /\ r.dev = d /\ r.event = e.id
    BY <1>1
  <2>. HIDE DEF r
  <2>2. ASSUME NEW x \in answered'
        PROVE  \E q \in receipts' : /\ q.dev = x.dev /\ q.event = x.event.id
                                    /\ q.outcome = x.outcome /\ q.hash = x.event.hash
    <3>1. CASE x \in answered
      BY <2>1, <3>1 DEF IInv, EventsAnsweredOnce, Receipt
    <3>2. CASE x = [dev |-> d, event |-> e, outcome |-> "ignored"]
      BY <2>1, <3>2
    <3>. QED
      BY <1>1, <3>1, <3>2
  <2>. QED
    BY <2>2 DEF EventsAnsweredOnce, Receipt
<1>. QED
  BY <1>3, <1>4, <1>5, <1>6, <1>7, <1>8, <1>9 DEF IInv

LEMMA StoredEventStep ==
  ASSUME IInv, NEW d \in Devices, NEW e \in Events, StoreKosyncSession(d, e)
  PROVE  IInv'
<1>0. PICK w \in IF owner[e.alias] # NoWork THEN {owner[e.alias]} ELSE NewWorks :
        \E own \in {e.alias} \cup {i \in Editions : owner[i] = w} :
          LET s == EventSession(d, e, w, own)
          IN /\ Judge(s) # "mismatch"
             /\ works' = works \cup {w} /\ born' = born \cup {w}
             /\ owner' = [owner EXCEPT ![e.alias] = w]
             /\ sessions' = IF Tomb(s.id) = {} THEN sessions \cup {s} ELSE sessions
             /\ accepted' = accepted \cup {s}
             /\ receipts' = receipts \cup {[dev |-> d, event |-> e.id, hash |-> e.hash,
                                            outcome |-> "stored", work |-> w, session |-> s.id]}
  BY Zenon DEF StoreKosyncSession
<1>1. PICK own \in {e.alias} \cup {i \in Editions : owner[i] = w} :
        LET s == EventSession(d, e, w, own)
        IN /\ Judge(s) # "mismatch"
           /\ works' = works \cup {w} /\ born' = born \cup {w}
           /\ owner' = [owner EXCEPT ![e.alias] = w]
           /\ sessions' = IF Tomb(s.id) = {} THEN sessions \cup {s} ELSE sessions
           /\ accepted' = accepted \cup {s}
           /\ receipts' = receipts \cup {[dev |-> d, event |-> e.id, hash |-> e.hash,
                                          outcome |-> "stored", work |-> w, session |-> s.id]}
  BY <1>0, Zenon
<1>. DEFINE s == EventSession(d, e, w, own)
            r == [dev |-> d, event |-> e.id, hash |-> e.hash,
                  outcome |-> "stored", work |-> w, session |-> s.id]
<1>2. /\ Receipt(d, e) = {}
      /\ answered' = answered \cup {[dev |-> d, event |-> e, outcome |-> "stored"]}
      /\ dropped' = dropped \ {<<d, e.id>>}
      /\ UNCHANGED <<tombs, rollups, kosyncVars, clockVars, job>>
  BY DEF StoreKosyncSession, FirstDelivery
<1>3. e.alias \in Aliases /\ e.alias \in Idents /\ e.from \in Nat /\ e.to \in Nat /\ e.id \in EventIds
  BY InputsAssumption DEF InputsAssumption, Idents, EventIds
<1>4. w \in Works /\ (owner[e.alias] # NoWork => w = owner[e.alias] /\ w \in works)
      /\ (owner[e.alias] = NoWork => w \in Works \ born)
  <2>1. NewWorks \subseteq Works \ born
    BY DEF NewWorks, IInv, TypeOK
  <2>2. owner[e.alias] \in works \cup {NoWork} /\ works \subseteq Works
    BY <1>3 DEF IInv, TypeOK
  <2>. QED
    BY <1>0, <2>1, <2>2
<1>5. /\ s \in Session /\ s.id = <<d, e.id>> /\ s.work = w /\ s.own = own /\ s.origin = "kosync"
      /\ s.id \in SessionIds
  <2>1. <<d, e.id>> \in SessionIds
    BY <1>3 DEF SessionIds
  <2>2. own \in Idents
    BY <1>1, <1>3 DEF Idents
  <2>. QED
    BY <1>3, <1>4, <2>1, <2>2 DEF EventSession, Session
<1>6. /\ r \in EventReceipt /\ r.dev = d /\ r.event = e.id /\ r.hash = e.hash
      /\ r.outcome = "stored" /\ r.work = w /\ r.session = s.id
  BY <1>3, <1>4, <1>5 DEF EventReceipt
<1>7. /\ receipts' = receipts \cup {r} /\ accepted' = accepted \cup {s}
      /\ Judge(s) # "mismatch"
      /\ sessions' = IF s.id \in Ids(tombs) THEN sessions ELSE sessions \cup {s}
  <2>1. Tomb(s.id) = {} <=> s.id \notin Ids(tombs)
    BY DEF Tomb, Ids
  <2>. QED
    BY <1>1, <2>1
<1>8. s.id \in Ids(sessions) /\ s.id \notin Ids(tombs) => s \in sessions
  <2>1. Judge(s) = "duplicate" <=> Judge(s) # "mismatch" /\ s.id \in Ids(sessions) \cup Ids(tombs)
    BY DEF Judge, Tomb, Live, Ids
  <2>. QED
    BY <1>7, <2>1, Judged DEF Ids
<1>. HIDE DEF s, r
<1>9. works' = works \cup {w} /\ born' = born \cup {w} /\ owner' = [owner EXCEPT ![e.alias] = w]
  BY <1>1
<1>10. TypeOK'
  <2>1. owner' \in [Idents -> works' \cup {NoWork}]
    BY <1>3, <1>9 DEF IInv, TypeOK
  <2>2. works' \subseteq born' /\ born' \subseteq Works
    BY <1>4, <1>9 DEF IInv, TypeOK
  <2>3. sessions' \subseteq Session /\ accepted' \subseteq Session /\ receipts' \subseteq EventReceipt
    BY <1>5, <1>6, <1>7 DEF IInv, TypeOK
  <2>4. answered' \subseteq [dev : Devices, event : Events, outcome : {"stored", "ignored"}]
        /\ dropped' \subseteq SessionIds
    BY <1>2 DEF IInv, TypeOK
  <2>. QED
    BY <1>2, <2>1, <2>2, <2>3, <2>4 DEF IInv, TypeOK, kosyncVars, clockVars
<1>11. FiniteTables'
  BY <1>2, <1>7, FS_AddElement DEF IInv, FiniteTables
<1>12. CountedOnce' /\ TombsKeep'
  <2>1. CASE s.id \in Ids(sessions) \cup Ids(tombs)
    <3>1. sessions' = sessions \cup {}
      <4>1. CASE s.id \in Ids(tombs)
        BY <1>7, <4>1
      <4>2. CASE s.id \notin Ids(tombs)
        BY <1>7, <1>8, <2>1, <4>2
      <4>. QED
        BY <4>1, <4>2
    <3>2. /\ Ids({}) = {} /\ Ids({s}) \subseteq Ids(sessions) \cup Ids(tombs)
          /\ accepted' = accepted \cup {} \cup {s} /\ dropped' = dropped \ (Ids({}) \cup Ids({s}))
      BY <1>2, <1>5, <1>7, <2>1 DEF Ids
    <3>3. StoredOnce'
      <4>. DEFINE F == {}
      <4>. HIDE DEF F
      <4>1. \A x, y \in F : x.id = y.id => x = y
        BY DEF F
      <4>2. Ids(F) \cap (Ids(sessions) \cup Ids(tombs)) = {} /\ tombs' = tombs
        BY <1>2, <3>2 DEF F
      <4>3. sessions' = sessions \cup F /\ accepted' = accepted \cup F \cup {s}
            /\ dropped' = dropped \ (Ids(F) \cup Ids({s}))
        BY <3>1, <3>2 DEF F
      <4>. QED
        BY <3>2, <4>1, <4>2, <4>3, RowsAdded, Zenon DEF IInv, CountedOnce
    <3>. QED
      BY <1>2, <3>3 DEF IInv, CountedOnce, TotalsExact, Backing, TombsKeep
  <2>2. CASE s.id \notin Ids(sessions) \cup Ids(tombs)
    <3>1. sessions' = sessions \cup {s} /\ tombs' = tombs
      BY <1>2, <1>7, <2>2
    <3>2. /\ Ids({s}) \cap (Ids(sessions) \cup Ids(tombs)) = {}
          /\ Ids({}) \subseteq Ids(sessions) \cup Ids(tombs)
          /\ accepted' = accepted \cup {s} \cup {} /\ dropped' = dropped \ (Ids({s}) \cup Ids({}))
          /\ \A x, y \in {s} : x.id = y.id => x = y
      BY <1>2, <1>5, <1>7, <2>2 DEF Ids
    <3>3. StoredOnce'
      BY <3>1, <3>2, RowsAdded, Zenon DEF IInv, CountedOnce
    <3>. QED
      BY <1>2, <3>3 DEF IInv, CountedOnce, TotalsExact, Backing, TombsKeep
  <2>. QED
    BY <2>1, <2>2
<1>13. PositionsDrawnOnce' /\ PositionsOrdered' /\ DrawnSpanned' /\ BeginningsDrawn'
  <2>1. Inferred' = Inferred
    BY <1>2, <1>5, <1>7 DEF Inferred, Kept
  <2>. QED
    BY <1>2, <2>1, DrawStays DEF IInv, kosyncVars
<1>14. GroupsUniform'
  BY <1>2 DEF IInv, GroupsUniform
<1>15. \A q \in receipts : q.session # s.id
  <2>1. \A q \in receipts : q.outcome \in {"stored", "ignored"}
    BY DEF IInv, TypeOK, EventReceipt
  <2>2. \A q \in receipts : ~ (q.dev = d /\ q.event = e.id)
    BY <1>2 DEF Receipt
  <2>3. s.id # NoSession
    BY <1>5, InputsAssumption DEF InputsAssumption
  <2>. QED
    BY <1>5, <2>1, <2>2, <2>3 DEF IInv, ReceiptsBacked
<1>16. EvidenceFollowsIdentity'
  <2>1. \A i \in Idents : owner[i] # NoWork => owner'[i] = owner[i]
    BY <1>4, <1>9 DEF IInv, TypeOK
  <2>2. \A x \in works : x # NoWork
    BY SessionsAssumption DEF IInv, TypeOK, SessionsAssumption
  <2>3. \A x \in sessions \cup ops : x.work \in works' /\ (x.own \in Idents => owner'[x.own] = x.work)
    BY <1>9, <2>1, <2>2 DEF IInv, EvidenceFollowsIdentity
  <2>4. s.work \in works' /\ (s.own \in Idents => owner'[s.own] = s.work)
    BY <1>1, <1>3, <1>5, <1>9 DEF IInv, TypeOK
  <2>5. \A x \in sessions' \cup ops' :
          x.work \in works' /\ (x.own \in Idents => owner'[x.own] = x.work)
    BY <1>2, <1>7, <2>3, <2>4 DEF kosyncVars
  <2>6. \A t \in tombs' : t.present => t.work \in works'
    BY <1>2, <1>9 DEF IInv, EvidenceFollowsIdentity
  <2>7. ASSUME NEW q \in receipts', NEW x \in sessions', q.session = x.id PROVE q.work = x.work
    <3>1. CASE q \in receipts
      BY <1>7, <1>15, <2>7, <3>1 DEF IInv, EvidenceFollowsIdentity
    <3>2. CASE q = r
      <4>1. x.id = s.id
        BY <1>6, <2>7, <3>2
      <4>2. s.id \notin Ids(tombs) /\ s \in sessions'
        BY <1>7, <4>1 DEF IInv, CountedOnce, StoredOnce, Ids
      <4>3. x = s
        BY <1>12, <4>1, <4>2 DEF CountedOnce, StoredOnce
      <4>. QED
        BY <1>5, <1>6, <3>2, <4>3
    <3>. QED
      BY <1>7, <3>1, <3>2
  <2>. QED
    BY <2>5, <2>6, <2>7 DEF EvidenceFollowsIdentity
<1>17. ReceiptsBacked'
  <2>1. s.id \in Ids(sessions') \cup Ids(tombs')
    BY <1>2, <1>7 DEF Ids
  <2>2. Ids(sessions) \cup Ids(tombs) \subseteq Ids(sessions') \cup Ids(tombs')
    BY <1>2, <1>7 DEF Ids
  <2>. QED
    BY <1>5, <1>6, <1>7, <2>1, <2>2 DEF IInv, ReceiptsBacked
<1>18. EventsAnsweredOnce'
  <2>1. ASSUME NEW x \in answered'
        PROVE  \E q \in receipts' : /\ q.dev = x.dev /\ q.event = x.event.id
                                    /\ q.outcome = x.outcome /\ q.hash = x.event.hash
    <3>1. CASE x \in answered
      BY <1>7, <3>1 DEF IInv, EventsAnsweredOnce, Receipt
    <3>2. CASE x = [dev |-> d, event |-> e, outcome |-> "stored"]
      BY <1>6, <1>7, <3>2
    <3>. QED
      BY <1>2, <3>1, <3>2
  <2>. QED
    BY <2>1 DEF EventsAnsweredOnce, Receipt
<1>. QED
  BY <1>10, <1>11, <1>12, <1>13, <1>14, <1>16, <1>17, <1>18 DEF IInv

LEMMA PositionStep ==
  ASSUME IInv, NEW d \in Devices, NEW a \in Aliases, AppendKosyncOp(d, a)
  PROVE  IInv'
<1>1. PICK w \in IF owner[a] # NoWork THEN {owner[a]} ELSE NewWorks :
        /\ works' = works \cup {w} /\ born' = born \cup {w}
        /\ owner' = [owner EXCEPT ![a] = w]
        /\ ops' = ops \cup {[seq |-> nextSeq, work |-> w, dev |-> d, own |-> a,
                             at |-> now, stamp |-> NoSession]}
  BY DEF AppendKosyncOp
<1>. DEFINE p == [seq |-> nextSeq, work |-> w, dev |-> d, own |-> a, at |-> now, stamp |-> NoSession]
<1>2. nextSeq' = nextSeq + 1 /\ UNCHANGED <<storeVars, measured, clockVars, job, historyVars>>
  BY DEF AppendKosyncOp
<1>3. nextSeq \in Nat /\ now \in Nat /\ a \in Idents
  BY DEF IInv, TypeOK, Idents
<1>4. w \in Works /\ (owner[a] # NoWork => w = owner[a] /\ w \in works)
  <2>1. NewWorks \subseteq Works \ born
    BY DEF NewWorks, IInv, TypeOK
  <2>2. owner[a] \in works \cup {NoWork} /\ works \subseteq Works
    BY <1>3 DEF IInv, TypeOK
  <2>. QED
    BY <1>1, <2>1, <2>2
<1>5. /\ p \in Position /\ p.seq = nextSeq /\ p.work = w /\ p.dev = d /\ p.own = a
      /\ p.at = now /\ p.stamp = NoSession
  BY <1>3, <1>4 DEF Position
<1>6. ops' = ops \cup {p}
  BY <1>1
<1>. HIDE DEF p
<1>7. \A o \in ops : o.seq \in Nat /\ o.at \in Nat /\ o.seq < nextSeq /\ o.at <= now
  BY DEF IInv, TypeOK, Position
<1>8. TypeOK'
  <2>1. owner' \in [Idents -> works' \cup {NoWork}]
    BY <1>1, <1>3 DEF IInv, TypeOK
  <2>2. works' \subseteq born' /\ born' \subseteq Works
    BY <1>1, <1>4 DEF IInv, TypeOK
  <2>3. ops' \subseteq Position /\ nextSeq' \in Nat
        /\ \A o \in ops' : o.seq < nextSeq' /\ o.at <= now'
    BY <1>2, <1>3, <1>5, <1>6, <1>7 DEF IInv, TypeOK, clockVars
  <2>. QED
    BY <1>2, <2>1, <2>2, <2>3 DEF IInv, TypeOK, storeVars, clockVars, historyVars
<1>9. FiniteTables' /\ CountedOnce' /\ TombsKeep'
  BY <1>2, CountStays DEF IInv, storeVars, historyVars
<1>10. Inferred' = Inferred
  BY <1>2 DEF Inferred, Kept, storeVars
<1>11. DrawnSpanned' /\ PositionsDrawnOnce'
  BY <1>5, <1>6, <1>10 DEF IInv, DrawnSpanned, PositionsDrawnOnce
<1>12. PositionsOrdered'
  BY <1>3, <1>5, <1>6, <1>7 DEF IInv, PositionsOrdered
<1>13. BeginningsDrawn'
  <2>1. \A s \in Inferred : s.id[3] \in Nat
    BY DEF IInv, BeginningsDrawn
  <2>. QED
    BY <1>2, <1>3, <1>5, <1>6, <1>10, <2>1 DEF IInv, BeginningsDrawn
<1>14. GroupsUniform'
  BY <1>2 DEF IInv, GroupsUniform
<1>15. EvidenceFollowsIdentity'
  <2>1. \A i \in Idents : owner[i] # NoWork => owner'[i] = owner[i]
    BY <1>1, <1>4 DEF IInv, TypeOK
  <2>2. \A x \in works : x # NoWork
    BY SessionsAssumption DEF IInv, TypeOK, SessionsAssumption
  <2>3. \A x \in sessions \cup ops : x.work \in works' /\ (x.own \in Idents => owner'[x.own] = x.work)
    BY <1>1, <2>1, <2>2 DEF IInv, EvidenceFollowsIdentity
  <2>4. p.work \in works' /\ owner'[p.own] = p.work
    BY <1>1, <1>3, <1>5 DEF IInv, TypeOK
  <2>5. \A x \in sessions' \cup ops' :
          x.work \in works' /\ (x.own \in Idents => owner'[x.own] = x.work)
    BY <1>2, <1>6, <2>3, <2>4 DEF storeVars
  <2>. QED
    BY <1>1, <1>2, <2>5 DEF IInv, EvidenceFollowsIdentity, storeVars
<1>16. ReceiptsBacked' /\ EventsAnsweredOnce'
  BY <1>2, ReceiptsStay DEF IInv, storeVars, historyVars
<1>. QED
  BY <1>8, <1>9, <1>11, <1>12, <1>13, <1>14, <1>15, <1>16 DEF IInv

-----------------------------------------------------------------------------
(* The work graph.                                                         *)

LEMMA ResolveStep ==
  ASSUME IInv, NEW ids \in (SUBSET Idents) \ {{}}, Resolve(ids)
  PROVE  IInv'
<1>. DEFINE matched == {owner[i] : i \in ids} \ {NoWork}
<1>1. PICK w \in IF matched = {} THEN NewWorks ELSE matched :
        /\ matched \subseteq {w}
        /\ owner' = [i \in Idents |-> IF i \in ids THEN w ELSE owner[i]]
        /\ works' = works \cup {w} /\ born' = born \cup {w}
        /\ UNCHANGED <<storeVars, kosyncVars, clockVars, job, historyVars>>
  BY DEF Resolve
<1>2. w \in Works
  <2>1. NewWorks \subseteq Works
    BY DEF NewWorks, IInv, TypeOK
  <2>2. works \subseteq Works /\ \A i \in Idents : owner[i] \in works \cup {NoWork}
    BY DEF IInv, TypeOK
  <2>3. matched \subseteq works
    <3>. SUFFICES ASSUME NEW i \in ids, owner[i] # NoWork PROVE owner[i] \in works
      OBVIOUS
    <3>. QED
      BY <2>2
  <2>. QED
    BY <1>1, <2>1, <2>2, <2>3
<1>3. \A i \in Idents : owner[i] # NoWork => owner'[i] = owner[i]
  BY <1>1 DEF IInv, TypeOK
<1>4. TypeOK'
  <2>1. owner' \in [Idents -> works' \cup {NoWork}]
    BY <1>1 DEF IInv, TypeOK
  <2>2. works' \subseteq born' /\ born' \subseteq Works
    BY <1>1, <1>2 DEF IInv, TypeOK
  <2>. QED
    BY <1>1, <2>1, <2>2 DEF IInv, TypeOK, storeVars, kosyncVars, clockVars, historyVars
<1>5. FiniteTables' /\ CountedOnce' /\ TombsKeep'
  BY <1>1, CountStays DEF IInv, storeVars, historyVars
<1>6. PositionsDrawnOnce' /\ PositionsOrdered' /\ DrawnSpanned' /\ BeginningsDrawn'
  <2>1. Inferred' = Inferred /\ UNCHANGED <<ops, nextSeq>>
    BY <1>1 DEF Inferred, Kept, storeVars, kosyncVars
  <2>. QED
    BY <2>1, DrawStays DEF IInv
<1>7. GroupsUniform'
  BY <1>1 DEF IInv, GroupsUniform
<1>8. EvidenceFollowsIdentity'
  <2>1. \A x \in works : x # NoWork
    BY SessionsAssumption DEF IInv, TypeOK, SessionsAssumption
  <2>. QED
    BY <1>1, <1>3, <2>1 DEF IInv, EvidenceFollowsIdentity, storeVars, kosyncVars
<1>9. ReceiptsBacked' /\ EventsAnsweredOnce'
  BY <1>1, ReceiptsStay DEF IInv, storeVars, historyVars
<1>. QED
  BY <1>4, <1>5, <1>6, <1>7, <1>8, <1>9 DEF IInv

MovedRows(S, w, moving, into) == {Moved(r, w, moving, into) : r \in S}

(* The rows of a work that moves keep all but the work.                    *)
LEMMA RowsMove ==
  ASSUME IInv, NEW w, NEW moving, NEW into \in Works,
         sessions' = MovedRows(sessions, w, moving, into),
         ops' = MovedRows(ops, w, moving, into),
         UNCHANGED <<tombs, accepted, dropped, nextSeq, now>>
  PROVE  /\ sessions' \subseteq Session /\ ops' \subseteq Position
         /\ \A o \in ops' : o.seq < nextSeq' /\ o.at <= now'
         /\ FiniteTables' /\ StoredOnce' /\ Ids(sessions') = Ids(sessions)
         /\ PositionsDrawnOnce' /\ PositionsOrdered' /\ DrawnSpanned' /\ BeginningsDrawn'
<1>. DEFINE M(x) == Moved(x, w, moving, into)
<1>1. \A s \in sessions : /\ M(s) \in Session /\ M(s).id = s.id /\ M(s).dev = s.dev /\ M(s).own = s.own
                         /\ M(s).from = s.from /\ M(s).to = s.to /\ M(s).origin = s.origin
  BY MovedSession DEF IInv, TypeOK
<1>2. \A o \in ops : /\ M(o) \in Position /\ M(o).seq = o.seq /\ M(o).dev = o.dev /\ M(o).own = o.own
                    /\ M(o).at = o.at /\ M(o).stamp = o.stamp
  <2>. SUFFICES ASSUME NEW o \in ops
                PROVE  /\ M(o) \in Position /\ M(o).seq = o.seq /\ M(o).dev = o.dev
                       /\ M(o).own = o.own /\ M(o).at = o.at /\ M(o).stamp = o.stamp
    OBVIOUS
  <2>1. o \in Position
    BY DEF IInv, TypeOK
  <2>. QED
    BY <2>1, MovedPosition
<1>3. sessions' = {M(s) : s \in sessions} /\ ops' = {M(o) : o \in ops}
  BY DEF MovedRows
<1>. HIDE DEF M
<1>4. sessions' \subseteq Session /\ ops' \subseteq Position
      /\ \A o \in ops' : o.seq < nextSeq' /\ o.at <= now'
  <2>1. \A o \in ops : o.seq < nextSeq' /\ o.at <= now'
    BY DEF IInv, TypeOK
  <2>. QED
    BY <1>1, <1>2, <1>3, <2>1
<1>5. Ids(sessions') = Ids(sessions)
  BY <1>1, <1>3 DEF Ids
<1>6. FiniteTables'
  <2>. DEFINE f == [s \in sessions |-> M(s)]
  <2>1. f \in Surjection(sessions, sessions')
    BY <1>3 DEF Surjection
  <2>2. IsFiniteSet(sessions')
    BY <2>1, FS_Surjection DEF IInv, FiniteTables
  <2>. QED
    BY <2>2 DEF IInv, FiniteTables
<1>7. StoredOnce'
  <2>1. \A s, t \in sessions' : s.id = t.id => s = t
    BY <1>1, <1>3 DEF IInv, CountedOnce, StoredOnce
  <2>. QED
    BY <1>5, <2>1 DEF IInv, CountedOnce, StoredOnce, Ids
<1>8. \A s \in Inferred' : \E t \in Inferred :
        /\ t.id = s.id /\ t.dev = s.dev /\ t.own = s.own /\ t.from = s.from /\ t.to = s.to
        /\ s = IF t \in sessions THEN M(t) ELSE t
  <2>. SUFFICES ASSUME NEW s \in Inferred'
                PROVE  \E t \in Inferred :
                  /\ t.id = s.id /\ t.dev = s.dev /\ t.own = s.own /\ t.from = s.from /\ t.to = s.to
                  /\ s = IF t \in sessions THEN M(t) ELSE t
    OBVIOUS
  <2>1. CASE s \in sessions'
    BY <1>1, <1>3, <2>1 DEF Inferred, Kept
  <2>2. CASE s \in {t.fp : t \in tombs}
    <3>1. s \notin sessions
      BY <2>2 DEF IInv, CountedOnce, StoredOnce, TombsKeep, Ids
    <3>. QED
      BY <2>2, <3>1 DEF Inferred, Kept
  <2>. QED
    BY <2>1, <2>2 DEF Inferred, Kept
<1>9. \A t \in Inferred : \E s \in Inferred' :
        t.id = s.id /\ t.dev = s.dev /\ t.own = s.own /\ t.from = s.from /\ t.to = s.to
  <2>. SUFFICES ASSUME NEW t \in Inferred
                PROVE  \E s \in Inferred' :
                  t.id = s.id /\ t.dev = s.dev /\ t.own = s.own /\ t.from = s.from /\ t.to = s.to
    OBVIOUS
  <2>1. CASE t \in sessions
    BY <1>1, <1>3, <2>1 DEF Inferred, Kept
  <2>2. CASE t \in {u.fp : u \in tombs}
    BY <2>2 DEF Inferred, Kept
  <2>. QED
    BY <2>1, <2>2 DEF Inferred, Kept
<1>10. DrawnSpanned'
  BY <1>2, <1>3, <1>9 DEF IInv, DrawnSpanned
<1>11. PositionsDrawnOnce'
  <2>1. \A o \in ops' : o.stamp # NoSession =>
          \E s \in Inferred' : s.id = o.stamp /\ s.dev = o.dev /\ s.from <= o.at /\ o.at <= s.to
    BY <1>10 DEF DrawnSpanned
  <2>2. \A s, t \in Inferred' : s # t => s.id[3] # t.id[3]
    BY <1>8 DEF IInv, PositionsDrawnOnce
  <2>. QED
    BY <2>1, <2>2 DEF PositionsDrawnOnce
<1>12. PositionsOrdered'
  BY <1>2, <1>3 DEF IInv, PositionsOrdered
<1>13. BeginningsDrawn'
  BY <1>2, <1>3, <1>8 DEF IInv, BeginningsDrawn
<1>. QED
  BY <1>4, <1>5, <1>6, <1>7, <1>10, <1>11, <1>12, <1>13

(* Receipts that keep all but the work keep backing and answering.         *)
LEMMA ReceiptsMove ==
  ASSUME TypeOK, ReceiptsBacked, EventsAnsweredOnce,
         \A q \in receipts' : \E r \in receipts :
           /\ q.dev = r.dev /\ q.event = r.event /\ q.outcome = r.outcome /\ q.session = r.session
           /\ r.outcome = "ignored" => q.work = r.work,
         \A r \in receipts : \E q \in receipts' :
           q.dev = r.dev /\ q.event = r.event /\ q.outcome = r.outcome /\ q.hash = r.hash,
         Ids(sessions') = Ids(sessions), UNCHANGED <<tombs, answered>>
  PROVE  ReceiptsBacked' /\ EventsAnsweredOnce'
<1>1. Ids(sessions') \cup Ids(tombs') = Ids(sessions) \cup Ids(tombs)
  BY DEF Ids
<1>2. ReceiptsBacked'
  BY <1>1 DEF ReceiptsBacked
<1>3. EventsAnsweredOnce'
  BY DEF EventsAnsweredOnce, Receipt
<1>. QED
  BY <1>2, <1>3

LEMMA SplitStep ==
  ASSUME IInv, NEW w \in Works, NEW new \in Works, NEW e \in Editions, NEW listed \in SUBSET Aliases,
         SplitWork(w, e, listed, new)
  PROVE  IInv'
<1>. DEFINE moving == {e} \cup listed
            M(x) == Moved(x, w, moving, new)
            moved == {s.id : s \in {t \in sessions' : t.work = new}}
            R(r) == IF r.session \in moved THEN [r EXCEPT !.work = new] ELSE r
<1>1. /\ w \in works /\ new \in NewWorks
      /\ \A i \in moving : owner[i] = w
      /\ works' = works \cup {new} /\ born' = born \cup {new}
      /\ owner' = [i \in Idents |-> IF i \in moving THEN new ELSE owner[i]]
      /\ ops' = {M(o) : o \in ops} /\ sessions' = {M(s) : s \in sessions}
      /\ receipts' = {R(r) : r \in receipts}
      /\ UNCHANGED <<tombs, rollups, nextSeq, measured, clockVars, job, historyVars>>
  BY DEF SplitWork
<1>2. new \in Works \ born /\ new \notin works
  BY <1>1 DEF NewWorks, IInv, TypeOK
<1>3. /\ sessions' \subseteq Session /\ ops' \subseteq Position
      /\ \A o \in ops' : o.seq < nextSeq' /\ o.at <= now'
      /\ FiniteTables' /\ StoredOnce' /\ Ids(sessions') = Ids(sessions)
      /\ PositionsDrawnOnce' /\ PositionsOrdered' /\ DrawnSpanned' /\ BeginningsDrawn'
  <2>1. UNCHANGED <<tombs, accepted, dropped, nextSeq, now>>
    BY <1>1 DEF clockVars, historyVars
  <2>2. sessions' = MovedRows(sessions, w, moving, new) /\ ops' = MovedRows(ops, w, moving, new)
    BY <1>1 DEF MovedRows
  <2>. HIDE DEF moving
  <2>. QED
    BY <2>1, <2>2, RowsMove, Zenon
<1>4. \A s \in sessions : M(s).id = s.id /\ M(s).own = s.own
                         /\ M(s).work = IF s.work = w /\ s.own \in moving THEN new ELSE s.work
  BY MovedSession DEF IInv, TypeOK
<1>5. \A o \in ops : M(o).own = o.own
                    /\ M(o).work = IF o.work = w /\ o.own \in moving THEN new ELSE o.work
  <2>. SUFFICES ASSUME NEW o \in ops
                PROVE  M(o).own = o.own
                       /\ M(o).work = IF o.work = w /\ o.own \in moving THEN new ELSE o.work
    OBVIOUS
  <2>1. o \in Position
    BY DEF IInv, TypeOK
  <2>. QED
    BY <2>1, MovedPosition
<1>6. \A r \in receipts : /\ R(r) \in EventReceipt /\ R(r).dev = r.dev /\ R(r).event = r.event
                         /\ R(r).hash = r.hash /\ R(r).outcome = r.outcome /\ R(r).session = r.session
                         /\ R(r).work = IF r.session \in moved THEN new ELSE r.work
  <2>. SUFFICES ASSUME NEW r \in receipts
                PROVE  /\ R(r) \in EventReceipt /\ R(r).dev = r.dev /\ R(r).event = r.event
                       /\ R(r).hash = r.hash /\ R(r).outcome = r.outcome /\ R(r).session = r.session
                       /\ R(r).work = IF r.session \in moved THEN new ELSE r.work
    OBVIOUS
  <2>1. r \in EventReceipt
    BY DEF IInv, TypeOK
  <2>2. CASE r.session \in moved
    <3>. HIDE DEF moved
    <3>. QED
      BY <2>1, <2>2, MovedReceipt
  <2>3. CASE r.session \notin moved
    BY <2>1, <2>3
  <2>. QED
    BY <2>2, <2>3
<1>. HIDE DEF R, M
<1>7. moved \subseteq Ids(sessions)
  BY <1>3 DEF Ids
<1>8. TypeOK'
  <2>1. owner' \in [Idents -> works' \cup {NoWork}]
    BY <1>1 DEF IInv, TypeOK
  <2>2. works' \subseteq born' /\ born' \subseteq Works
    BY <1>1, <1>2 DEF IInv, TypeOK
  <2>3. receipts' \subseteq EventReceipt
    BY <1>1, <1>6
  <2>. QED
    BY <1>1, <1>3, <2>1, <2>2, <2>3 DEF IInv, TypeOK, clockVars, historyVars
<1>9. CountedOnce' /\ TombsKeep'
  BY <1>1, <1>3 DEF IInv, CountedOnce, TotalsExact, Backing, TombsKeep
<1>10. GroupsUniform'
  BY <1>1 DEF IInv, GroupsUniform
<1>11. EvidenceFollowsIdentity'
  <2>1. \A i \in Idents : owner'[i] = IF i \in moving THEN new ELSE owner[i]
    BY <1>1
  <2>2. \A x \in sessions \cup ops : x.work \in works /\ (x.own \in Idents => owner[x.own] = x.work)
    BY DEF IInv, EvidenceFollowsIdentity
  <2>3. moving \subseteq Idents
    BY DEF Idents
  <2>4. \A x \in sessions' \cup ops' :
          x.work \in works' /\ (x.own \in Idents => owner'[x.own] = x.work)
    <3>. HIDE DEF moving
    <3>1. \A s \in sessions : M(s).work \in works' /\ (M(s).own \in Idents => owner'[M(s).own] = M(s).work)
      BY <1>1, <1>4, <2>1, <2>2
    <3>2. \A o \in ops : M(o).work \in works' /\ (M(o).own \in Idents => owner'[M(o).own] = M(o).work)
      BY <1>1, <1>5, <2>1, <2>2
    <3>. QED
      BY <1>1, <3>1, <3>2
  <2>5. \A t \in tombs' : t.present => t.work \in works'
    BY <1>1 DEF IInv, EvidenceFollowsIdentity
  <2>6. ASSUME NEW q \in receipts', NEW x \in sessions', q.session = x.id PROVE q.work = x.work
    <3>1. PICK r \in receipts : q = R(r)
      BY <1>1
    <3>2. PICK s \in sessions : x = M(s)
      BY <1>1
    <3>3. r.session = s.id /\ r.work = s.work
      BY <1>4, <1>6, <2>6, <3>1, <3>2 DEF IInv, EvidenceFollowsIdentity
    <3>4. CASE x.work = new
      <4>1. r.session \in moved
        BY <1>6, <2>6, <3>1, <3>4
      <4>. QED
        BY <1>6, <3>1, <3>4, <4>1
    <3>5. CASE x.work # new
      <4>1. r.session \notin moved
        BY <1>3, <1>6, <2>6, <3>1, <3>5 DEF StoredOnce
      <4>2. x.work = s.work
        BY <1>4, <3>2, <3>5
      <4>. QED
        BY <1>6, <3>1, <3>3, <4>1, <4>2
    <3>. QED
      BY <3>4, <3>5
  <2>. QED
    BY <2>4, <2>5, <2>6 DEF EvidenceFollowsIdentity
<1>12. ReceiptsBacked' /\ EventsAnsweredOnce'
  <2>1. \A r \in receipts : r.outcome = "ignored" => r.session \notin moved
    <3>1. NoSession \notin Ids(sessions)
      BY InputsAssumption DEF IInv, TypeOK, Session, Ids, InputsAssumption
    <3>. QED
      BY <1>7, <3>1 DEF IInv, ReceiptsBacked
  <2>. HIDE DEF moved
  <2>2. \A q \in receipts' : \E r \in receipts :
           /\ q.dev = r.dev /\ q.event = r.event /\ q.outcome = r.outcome /\ q.session = r.session
           /\ r.outcome = "ignored" => q.work = r.work
    BY <1>1, <1>6, <2>1
  <2>3. \A r \in receipts : \E q \in receipts' :
           q.dev = r.dev /\ q.event = r.event /\ q.outcome = r.outcome /\ q.hash = r.hash
    BY <1>1, <1>6
  <2>. QED
    BY <1>1, <1>3, <2>2, <2>3, ReceiptsMove DEF IInv, historyVars
<1>. QED
  BY <1>3, <1>8, <1>9, <1>10, <1>11, <1>12 DEF IInv

LEMMA MergeStep ==
  ASSUME IInv, NEW from \in Works, NEW into \in Works, MergeWorks(from, into)
  PROVE  IInv'
<1>. DEFINE all == Idents \cup {NoOwner}
            M(x) == Moved(x, from, all, into)
            R(r) == IF r.work = from THEN [r EXCEPT !.work = into] ELSE r
<1>1. /\ from \in works /\ into \in works /\ from # into /\ ~Archived(from)
      /\ works' = works \ {from}
      /\ owner' = [i \in Idents |-> IF owner[i] = from THEN into ELSE owner[i]]
      /\ ops' = {M(o) : o \in ops} /\ sessions' = {M(s) : s \in sessions}
      /\ receipts' = {R(r) : r \in receipts}
      /\ UNCHANGED <<born, tombs, rollups, nextSeq, measured, clockVars, job, historyVars>>
  BY DEF MergeWorks
<1>2. /\ sessions' \subseteq Session /\ ops' \subseteq Position
      /\ \A o \in ops' : o.seq < nextSeq' /\ o.at <= now'
      /\ FiniteTables' /\ StoredOnce' /\ Ids(sessions') = Ids(sessions)
      /\ PositionsDrawnOnce' /\ PositionsOrdered' /\ DrawnSpanned' /\ BeginningsDrawn'
  <2>1. UNCHANGED <<tombs, accepted, dropped, nextSeq, now>>
    BY <1>1 DEF clockVars, historyVars
  <2>2. sessions' = MovedRows(sessions, from, all, into) /\ ops' = MovedRows(ops, from, all, into)
    BY <1>1 DEF MovedRows
  <2>. HIDE DEF all
  <2>. QED
    BY <2>1, <2>2, RowsMove, Zenon
<1>3. \A s \in sessions : /\ M(s).id = s.id /\ M(s).own = s.own
                         /\ M(s).work = IF s.work = from THEN into ELSE s.work
  <2>. SUFFICES ASSUME NEW s \in sessions
                PROVE  /\ M(s).id = s.id /\ M(s).own = s.own
                       /\ M(s).work = IF s.work = from THEN into ELSE s.work
    OBVIOUS
  <2>1. s \in Session /\ s.own \in all
    BY DEF IInv, TypeOK, Session
  <2>. QED
    BY <2>1, MovedSession
<1>4. \A o \in ops : M(o).own = o.own /\ M(o).work = IF o.work = from THEN into ELSE o.work
  <2>. SUFFICES ASSUME NEW o \in ops
                PROVE  M(o).own = o.own /\ M(o).work = IF o.work = from THEN into ELSE o.work
    OBVIOUS
  <2>1. o \in Position /\ o.own \in all
    BY DEF IInv, TypeOK, Position, Idents
  <2>. QED
    BY <2>1, MovedPosition
<1>5. \A r \in receipts : /\ R(r) \in EventReceipt /\ R(r).dev = r.dev /\ R(r).event = r.event
                         /\ R(r).hash = r.hash /\ R(r).outcome = r.outcome /\ R(r).session = r.session
                         /\ R(r).work = IF r.work = from THEN into ELSE r.work
  <2>. SUFFICES ASSUME NEW r \in receipts
                PROVE  /\ R(r) \in EventReceipt /\ R(r).dev = r.dev /\ R(r).event = r.event
                       /\ R(r).hash = r.hash /\ R(r).outcome = r.outcome /\ R(r).session = r.session
                       /\ R(r).work = IF r.work = from THEN into ELSE r.work
    OBVIOUS
  <2>1. r \in EventReceipt
    BY DEF IInv, TypeOK
  <2>2. CASE r.work = from
    BY <2>1, <2>2, MovedReceipt
  <2>3. CASE r.work # from
    BY <2>1, <2>3
  <2>. QED
    BY <2>2, <2>3
<1>. HIDE DEF R, M, all
<1>6. TypeOK'
  <2>1. owner' \in [Idents -> works' \cup {NoWork}]
    <3>1. \A i \in Idents : owner[i] \in works \cup {NoWork}
      BY DEF IInv, TypeOK
    <3>. QED
      BY <1>1, <3>1
  <2>2. works' \subseteq born' /\ born' \subseteq Works
    BY <1>1 DEF IInv, TypeOK
  <2>3. receipts' \subseteq EventReceipt
    BY <1>1, <1>5
  <2>. QED
    BY <1>1, <1>2, <2>1, <2>2, <2>3 DEF IInv, TypeOK, clockVars, historyVars
<1>7. CountedOnce' /\ TombsKeep'
  BY <1>1, <1>2 DEF IInv, CountedOnce, TotalsExact, Backing, TombsKeep
<1>8. GroupsUniform'
  BY <1>1 DEF IInv, GroupsUniform
<1>9. EvidenceFollowsIdentity'
  <2>1. \A i \in Idents : owner'[i] = IF owner[i] = from THEN into ELSE owner[i]
    BY <1>1
  <2>2. \A x \in sessions \cup ops : x.work \in works /\ (x.own \in Idents => owner[x.own] = x.work)
    BY DEF IInv, EvidenceFollowsIdentity
  <2>3. \A x \in sessions' \cup ops' :
          x.work \in works' /\ (x.own \in Idents => owner'[x.own] = x.work)
    <3>1. \A s \in sessions : M(s).work \in works' /\ (M(s).own \in Idents => owner'[M(s).own] = M(s).work)
      BY <1>1, <1>3, <2>1, <2>2
    <3>2. \A o \in ops : M(o).work \in works' /\ (M(o).own \in Idents => owner'[M(o).own] = M(o).work)
      BY <1>1, <1>4, <2>1, <2>2
    <3>. QED
      BY <1>1, <3>1, <3>2
  <2>4. ASSUME NEW t \in tombs', t.present PROVE t.work \in works'
    <3>1. t \in tombs /\ t.work \in works
      BY <1>1, <2>4 DEF IInv, EvidenceFollowsIdentity
    <3>2. [work |-> t.work, day |-> t.day, zone |-> t.zone] \in DOMAIN rollups
      BY <2>4, <3>1 DEF IInv, CountedOnce, TotalsExact
    <3>3. t.work # from
      BY <1>1, <3>2 DEF Archived
    <3>. QED
      BY <1>1, <3>1, <3>3
  <2>5. \A q \in receipts', x \in sessions' : q.session = x.id => q.work = x.work
    BY <1>1, <1>3, <1>5 DEF IInv, EvidenceFollowsIdentity
  <2>. QED
    BY <2>3, <2>4, <2>5 DEF EvidenceFollowsIdentity
<1>10. ReceiptsBacked' /\ EventsAnsweredOnce'
  <2>1. \A r \in receipts : r.outcome = "ignored" => r.work # from
    BY SessionsAssumption DEF IInv, ReceiptsBacked, SessionsAssumption
  <2>2. \A q \in receipts' : \E r \in receipts :
           /\ q.dev = r.dev /\ q.event = r.event /\ q.outcome = r.outcome /\ q.session = r.session
           /\ r.outcome = "ignored" => q.work = r.work
    BY <1>1, <1>5, <2>1
  <2>3. \A r \in receipts : \E q \in receipts' :
           q.dev = r.dev /\ q.event = r.event /\ q.outcome = r.outcome /\ q.hash = r.hash
    BY <1>1, <1>5
  <2>. QED
    BY <1>1, <1>2, <2>2, <2>3, ReceiptsMove DEF IInv, historyVars
<1>. QED
  BY <1>2, <1>6, <1>7, <1>8, <1>9, <1>10 DEF IInv

LEMMA DeleteStep ==
  ASSUME IInv, NEW w \in Works, DeleteWork(w)
  PROVE  IInv'
<1>. DEFINE lost == {s \in sessions : s.work = w}
            kept == {r \in receipts : r.work # w \/ Tomb(r.session) # {}}
            K(t) == IF t.work = w THEN [t EXCEPT !.present = FALSE] ELSE t
            R(r) == IF r.work = w THEN [r EXCEPT !.work = NoWork] ELSE r
<1>1. /\ w \in works /\ works' = works \ {w}
      /\ owner' = [i \in Idents |-> IF owner[i] = w THEN NoWork ELSE owner[i]]
      /\ sessions' = sessions \ lost /\ dropped' = dropped \cup Ids(lost)
      /\ answered' = {x \in answered : <<x.dev, x.event.id>> \notin Ids(lost)}
      /\ ops' = {o \in ops : o.work # w}
      /\ tombs' = {K(t) : t \in tombs}
      /\ rollups' = [b \in {b \in DOMAIN rollups : b.work # w} |-> rollups[b]]
      /\ receipts' = {R(r) : r \in kept}
      /\ UNCHANGED <<born, nextSeq, measured, clockVars, job, accepted>>
  BY DEF DeleteWork, Ids
<1>2. \A t \in tombs : /\ K(t) \in Tombstone /\ K(t).id = t.id /\ K(t).fp = t.fp /\ K(t).work = t.work
                      /\ K(t).day = t.day /\ K(t).zone = t.zone
                      /\ K(t).present = (t.present /\ t.work # w) /\ (t.work # w => K(t) = t)
  <2>. SUFFICES ASSUME NEW t \in tombs
                PROVE  /\ K(t) \in Tombstone /\ K(t).id = t.id /\ K(t).fp = t.fp /\ K(t).work = t.work
                       /\ K(t).day = t.day /\ K(t).zone = t.zone
                       /\ K(t).present = (t.present /\ t.work # w) /\ (t.work # w => K(t) = t)
    OBVIOUS
  <2>1. t \in Tombstone
    BY DEF IInv, TypeOK
  <2>. QED
    BY <2>1 DEF Tombstone
<1>3. \A r \in receipts : /\ R(r) \in EventReceipt /\ R(r).dev = r.dev /\ R(r).event = r.event
                         /\ R(r).hash = r.hash /\ R(r).outcome = r.outcome /\ R(r).session = r.session
                         /\ R(r).work = IF r.work = w THEN NoWork ELSE r.work
  <2>. SUFFICES ASSUME NEW r \in receipts
                PROVE  /\ R(r) \in EventReceipt /\ R(r).dev = r.dev /\ R(r).event = r.event
                       /\ R(r).hash = r.hash /\ R(r).outcome = r.outcome /\ R(r).session = r.session
                       /\ R(r).work = IF r.work = w THEN NoWork ELSE r.work
    OBVIOUS
  <2>1. r \in EventReceipt
    BY DEF IInv, TypeOK
  <2>2. CASE r.work = w
    BY <2>1, <2>2, MovedReceipt
  <2>3. CASE r.work # w
    BY <2>1, <2>3
  <2>. QED
    BY <2>2, <2>3
<1>. HIDE DEF K, R
<1>4. /\ \A s \in sessions : s \in sessions' <=> s.work # w
      /\ sessions' \subseteq sessions /\ ops' \subseteq ops
      /\ \A o \in ops' : o.work # w
  BY <1>1
<1>5. Ids(tombs') = Ids(tombs) /\ {t.fp : t \in tombs'} = {t.fp : t \in tombs}
  BY <1>1, <1>2 DEF Ids
<1>6. NoWork # w
  BY SessionsAssumption DEF SessionsAssumption
<1>7. TypeOK'
  <2>1. owner' \in [Idents -> works' \cup {NoWork}]
    BY <1>1 DEF IInv, TypeOK
  <2>2. rollups' \in [DOMAIN rollups' -> Nat \ {0}]
    BY <1>1 DEF IInv, TypeOK
  <2>3. tombs' \subseteq Tombstone /\ receipts' \subseteq EventReceipt
    BY <1>1, <1>2, <1>3
  <2>4. dropped' \subseteq SessionIds
    BY <1>1 DEF IInv, TypeOK, Ids, Session
  <2>. QED
    BY <1>1, <2>1, <2>2, <2>3, <2>4 DEF IInv, TypeOK, clockVars
<1>8. FiniteTables'
  <2>. DEFINE f == [t \in tombs |-> K(t)]
  <2>1. f \in Surjection(tombs, tombs')
    BY <1>1 DEF Surjection
  <2>2. IsFiniteSet(tombs')
    BY <2>1, FS_Surjection DEF IInv, FiniteTables
  <2>3. IsFiniteSet(sessions')
    BY <1>4, FS_Subset DEF IInv, FiniteTables
  <2>. QED
    BY <2>2, <2>3 DEF FiniteTables
<1>9. TombsKeep'
  BY <1>1, <1>2 DEF IInv, TombsKeep, Day
<1>10. StoredOnce'
  <2>1. \A s, t \in sessions' : s.id = t.id => s = t
    BY <1>4 DEF IInv, CountedOnce, StoredOnce
  <2>2. \A s, t \in tombs' : s.id = t.id => s = t
    BY <1>1, <1>2 DEF IInv, CountedOnce, StoredOnce
  <2>3. Ids(sessions') = Ids(sessions) \ Ids(lost)
    BY <1>1 DEF IInv, CountedOnce, StoredOnce, Ids
  <2>4. Ids(lost) \cap Ids(tombs) = {}
    BY DEF IInv, CountedOnce, StoredOnce, Ids
  <2>5. Ids(sessions') \cap Ids(tombs') = {}
    BY <1>5, <2>3 DEF IInv, CountedOnce, StoredOnce
  <2>6. Ids(accepted') \ dropped' = Ids(sessions') \cup Ids(tombs')
    <3>1. Ids(accepted') = Ids(accepted)
      BY <1>1 DEF Ids
    <3>. QED
      BY <1>1, <1>5, <2>3, <2>4, <3>1 DEF IInv, CountedOnce, StoredOnce
  <2>. QED
    BY <2>1, <2>2, <2>5, <2>6 DEF StoredOnce, Ids
<1>11. TotalsExact'
  <2>1. DOMAIN rollups' = {b \in DOMAIN rollups : b.work # w}
    BY <1>1
  <2>2. {[work |-> t.work, day |-> t.day, zone |-> t.zone] : t \in {u \in tombs' : u.present}}
          = DOMAIN rollups'
    <3>1. {[work |-> t.work, day |-> t.day, zone |-> t.zone] : t \in {u \in tombs : u.present}}
            = DOMAIN rollups
      BY DEF IInv, CountedOnce, TotalsExact
    <3>2. {u \in tombs' : u.present} = {u \in tombs : u.present /\ u.work # w}
      <4>1. ASSUME NEW u \in tombs', u.present PROVE u \in tombs /\ u.work # w
        <5>1. PICK t \in tombs : u = K(t)
          BY <1>1
        <5>2. t.work # w
          BY <1>2, <4>1, <5>1
        <5>. QED
          BY <1>2, <5>1, <5>2
      <4>2. ASSUME NEW u \in tombs, u.work # w PROVE u \in tombs'
        BY <1>1, <1>2, <4>2
      <4>. QED
        BY <4>1, <4>2
    <3>3. ASSUME NEW u \in tombs, u.present, u.work # w
          PROVE  [work |-> u.work, day |-> u.day, zone |-> u.zone] \in DOMAIN rollups'
      BY <2>1, <3>1, <3>3
    <3>4. ASSUME NEW b \in DOMAIN rollups'
          PROVE  \E u \in tombs : /\ u.present /\ u.work # w
                                  /\ b = [work |-> u.work, day |-> u.day, zone |-> u.zone]
      BY <2>1, <3>1
    <3>. QED
      BY <3>2, <3>3, <3>4
  <2>3. ASSUME NEW b \in DOMAIN rollups'
        PROVE  rollups'[b] = Cardinality(Backing(b))'
    <3>1. b \in DOMAIN rollups /\ b.work # w /\ rollups'[b] = rollups[b]
      BY <1>1
    <3>2. Backing(b)' = Backing(b)
      <4>1. \A t \in tombs : t.fp.work = b.work => K(t) = t
        BY <1>2, <3>1 DEF IInv, TombsKeep
      <4>2. Backing(b)' \subseteq Backing(b)
        BY <1>1, <1>2, <4>1 DEF Backing
      <4>3. Backing(b) \subseteq Backing(b)'
        BY <1>1, <1>2, <4>1 DEF Backing
      <4>. QED
        BY <4>2, <4>3
    <3>. QED
      BY <3>1, <3>2 DEF IInv, CountedOnce, TotalsExact
  <2>. QED
    BY <2>2, <2>3 DEF TotalsExact
<1>12. Inferred' \subseteq Inferred
  BY <1>4, <1>5 DEF Inferred, Kept
<1>13. DrawnSpanned'
  <2>. SUFFICES ASSUME NEW o \in ops', o.stamp # NoSession
                PROVE  \E s \in Inferred' : /\ s.id = o.stamp /\ s.dev = o.dev /\ s.own = o.own
                                            /\ s.from <= o.at /\ o.at <= s.to
    BY DEF DrawnSpanned
  <2>1. o \in ops /\ o.own \in Idents /\ owner[o.own] = o.work /\ o.work # w
    BY <1>4 DEF IInv, TypeOK, Position, Idents, EvidenceFollowsIdentity
  <2>2. PICK s \in Inferred : /\ s.id = o.stamp /\ s.dev = o.dev /\ s.own = o.own
                              /\ s.from <= o.at /\ o.at <= s.to
    BY <2>1 DEF IInv, DrawnSpanned
  <2>3. s \in sessions => s \in sessions'
    BY <1>4, <2>1, <2>2 DEF IInv, EvidenceFollowsIdentity
  <2>4. s \in Inferred'
    BY <1>5, <2>3 DEF Inferred, Kept
  <2>. QED
    BY <2>2, <2>4
<1>14. PositionsDrawnOnce' /\ PositionsOrdered' /\ BeginningsDrawn'
  <2>1. \A o \in ops' : o.stamp # NoSession =>
          \E s \in Inferred' : s.id = o.stamp /\ s.dev = o.dev /\ s.from <= o.at /\ o.at <= s.to
    BY <1>13 DEF DrawnSpanned
  <2>2. PositionsDrawnOnce'
    BY <1>12, <2>1 DEF IInv, PositionsDrawnOnce
  <2>3. PositionsOrdered'
    BY <1>4 DEF IInv, PositionsOrdered
  <2>4. BeginningsDrawn'
    BY <1>1, <1>4, <1>12 DEF IInv, BeginningsDrawn
  <2>. QED
    BY <2>2, <2>3, <2>4
<1>15. GroupsUniform'
  BY <1>1 DEF IInv, GroupsUniform
<1>16. EvidenceFollowsIdentity'
  <2>1. \A x \in sessions' \cup ops' :
          x.work \in works' /\ (x.own \in Idents => owner'[x.own] = x.work)
    BY <1>1, <1>4 DEF IInv, EvidenceFollowsIdentity
  <2>2. ASSUME NEW t \in tombs', t.present PROVE t.work \in works'
    <3>1. PICK u \in tombs : t = K(u)
      BY <1>1
    <3>2. u.present /\ u.work # w /\ t = u
      BY <1>2, <2>2, <3>1
    <3>. QED
      BY <1>1, <3>2 DEF IInv, EvidenceFollowsIdentity
  <2>3. \A q \in receipts', x \in sessions' : q.session = x.id => q.work = x.work
    BY <1>1, <1>3, <1>4 DEF IInv, EvidenceFollowsIdentity
  <2>. QED
    BY <2>1, <2>2, <2>3 DEF EvidenceFollowsIdentity
<1>17. \A r \in receipts : r.outcome = "stored" /\ r.work # w => r.session \in Ids(sessions') \cup Ids(tombs')
  <2>. SUFFICES ASSUME NEW r \in receipts, r.outcome = "stored", r.work # w
                PROVE  r.session \in Ids(sessions') \cup Ids(tombs')
    OBVIOUS
  <2>1. CASE r.session \in Ids(sessions)
    BY <1>4, <2>1 DEF IInv, EvidenceFollowsIdentity, Ids
  <2>2. CASE r.session \in Ids(tombs)
    BY <1>5, <2>2
  <2>. QED
    BY <2>1, <2>2 DEF IInv, ReceiptsBacked
<1>18. \A r \in receipts : Tomb(r.session) # {} <=> r.session \in Ids(tombs)
  BY DEF Tomb, Ids
<1>19. ReceiptsBacked'
  <2>. SUFFICES ASSUME NEW q \in receipts'
                PROVE  /\ q.outcome = "stored" => /\ q.session = <<q.dev, q.event>>
                                                  /\ q.session \in Ids(sessions') \cup Ids(tombs')
                       /\ q.outcome = "ignored" => q.session = NoSession /\ q.work = NoWork
    BY DEF ReceiptsBacked, Ids
  <2>1. PICK r \in kept : q = R(r)
    BY <1>1
  <2>2. r \in receipts /\ (r.work = w => r.session \in Ids(tombs'))
    BY <1>5, <1>18
  <2>3. q.outcome = "stored" => q.session \in Ids(sessions') \cup Ids(tombs')
    BY <1>3, <1>17, <2>1, <2>2
  <2>. QED
    BY <1>3, <2>1, <2>2, <2>3 DEF IInv, ReceiptsBacked
<1>20. EventsAnsweredOnce'
  <2>. SUFFICES ASSUME NEW x \in answered'
                PROVE  \E q \in receipts' : /\ q.dev = x.dev /\ q.event = x.event.id
                                            /\ q.outcome = x.outcome /\ q.hash = x.event.hash
    BY DEF EventsAnsweredOnce, Receipt
  <2>1. x \in answered /\ <<x.dev, x.event.id>> \notin Ids(lost)
    BY <1>1
  <2>2. PICK r \in receipts : /\ r.dev = x.dev /\ r.event = x.event.id
                              /\ r.outcome = x.outcome /\ r.hash = x.event.hash
    BY <2>1 DEF IInv, EventsAnsweredOnce, Receipt
  <2>3. r \in kept
    <3>. SUFFICES ASSUME r.work = w, r.session \notin Ids(tombs) PROVE FALSE
      BY <1>18
    <3>1. r.outcome = "stored"
      BY <1>6 DEF IInv, TypeOK, EventReceipt, ReceiptsBacked
    <3>2. r.session = <<x.dev, x.event.id>> /\ r.session \in Ids(sessions)
      BY <2>2, <3>1 DEF IInv, ReceiptsBacked
    <3>3. r.session \in Ids(lost)
      BY <3>2 DEF IInv, EvidenceFollowsIdentity, Ids
    <3>. QED
      BY <2>1, <3>2, <3>3
  <2>4. R(r) \in receipts'
    BY <1>1, <2>3
  <2>. QED
    BY <1>3, <2>2, <2>4
<1>. QED
  BY <1>7, <1>8, <1>9, <1>10, <1>11, <1>13, <1>14, <1>15, <1>16, <1>19, <1>20 DEF IInv, CountedOnce

-----------------------------------------------------------------------------
(* The materializer writes.                                                *)

(* A group is taken off the list.                                          *)
LEMMA GroupTaken ==
  ASSUME TypeOK, GroupsUniform, NEW g \in job.groups, job' = [job EXCEPT !.groups = @ \ {g}]
  PROVE  /\ job' \in [zone : Zones, doing : {"idle", "inferring", "reading", "applying"},
                      groups : SUBSET SUBSET Position, cut : Int, batch : SUBSET Session]
         /\ job'.groups # {} => job'.doing = "inferring"
         /\ job'.batch # {} <=> job'.doing = "applying"
         /\ Cardinality(job'.batch) <= BatchSize
         /\ GroupsUniform'
<1>1. job \in [zone : Zones, doing : {"idle", "inferring", "reading", "applying"},
               groups : SUBSET SUBSET Position, cut : Int, batch : SUBSET Session]
  BY DEF TypeOK
<1>2. /\ job'.zone = job.zone /\ job'.doing = job.doing /\ job'.cut = job.cut
      /\ job'.batch = job.batch /\ job'.groups = job.groups \ {g}
  BY <1>1
<1>3. job' \in [zone : Zones, doing : {"idle", "inferring", "reading", "applying"},
                groups : SUBSET SUBSET Position, cut : Int, batch : SUBSET Session]
  BY <1>1
<1>. QED
  BY <1>2, <1>3 DEF TypeOK, GroupsUniform

LEMMA InferStep ==
  ASSUME IInv, NEW g \in job.groups, AppendInferredSession(g)
  PROVE  IInv'
<1>. DEFINE first == FirstOp(g)
            last == LastOp(g)
            s == Materialize(g)
            P(o) == [o EXCEPT !.stamp = s.id]
            agree == (\A o \in g : o \in ops /\ Awaits(o)) /\ Judge(s) \in {"new", "duplicate"}
<1>1. /\ job' = [job EXCEPT !.groups = @ \ {g}]
      /\ UNCHANGED <<graphVars, tombs, rollups, receipts, nextSeq, measured, clockVars, answered>>
  BY DEF AppendInferredSession
<1>2. CASE ~agree
  <2>1. UNCHANGED <<ops, sessions, accepted, dropped>>
    BY <1>2 DEF AppendInferredSession
  <2>2. TypeOK' /\ GroupsUniform'
    BY <1>1, <2>1, GroupTaken, Zenon DEF IInv, TypeOK, graphVars, clockVars
  <2>3. FiniteTables' /\ CountedOnce' /\ TombsKeep'
    BY <1>1, <2>1, CountStays DEF IInv
  <2>4. PositionsDrawnOnce' /\ PositionsOrdered' /\ DrawnSpanned' /\ BeginningsDrawn'
    BY <1>1, <2>1, DrawStays DEF IInv, Inferred, Kept
  <2>5. EvidenceFollowsIdentity'
    BY <1>1, <2>1, EvidenceStays DEF IInv, graphVars
  <2>6. ReceiptsBacked' /\ EventsAnsweredOnce'
    BY <1>1, <2>1, ReceiptsStay DEF IInv
  <2>. QED
    BY <2>2, <2>3, <2>4, <2>5, <2>6 DEF IInv
<1>3. CASE agree
  <2>1. /\ ops' = (ops \ g) \cup {P(o) : o \in g}
        /\ sessions' = IF Judge(s) = "new" THEN sessions \cup {s} ELSE sessions
        /\ accepted' = accepted \cup {s} /\ dropped' = dropped \ {s.id}
    BY <1>3 DEF AppendInferredSession
  <2>2. \A o \in ops : /\ o \in Position /\ o.seq \in Nat /\ o.at \in Nat
                       /\ o.seq < nextSeq /\ o.at <= now
    BY DEF IInv, TypeOK, Position
  <2>3. /\ g # {} /\ g \subseteq ops /\ nextSeq \in Nat
        /\ \A o, p \in g : o.dev = p.dev /\ o.work = p.work /\ o.own = p.own
        /\ \A o \in g : o.stamp = NoSession
    BY <1>3 DEF IInv, TypeOK, GroupsUniform, Awaits
  <2>4. /\ first \in g /\ last \in g
        /\ \A o \in g : first.seq <= o.seq /\ o.seq <= last.seq
    BY <2>2, <2>3, GroupEnds
  <2>5. \A o \in g : first.at <= o.at /\ o.at <= last.at
    BY <2>3, <2>4 DEF IInv, PositionsOrdered
  <2>6. /\ s.id = <<last.work, last.dev, first.seq>> /\ s.work = last.work /\ s.dev = last.dev
        /\ s.own = last.own /\ s.from = first.at /\ s.to = last.at /\ s.origin = "inferred"
    BY DEF Materialize
  <2>7. /\ first \in Position /\ last \in Position /\ first \in ops /\ last \in ops
        /\ last.work \in Works /\ last.dev \in Devices /\ last.own \in Idents
        /\ first.seq \in Nat /\ first.at \in Nat /\ last.at \in Nat
    BY <2>2, <2>3, <2>4 DEF Position, Idents
  <2>8. s.id \in Works \X Devices \X Nat /\ s.id[3] = first.seq /\ s.id \in SessionIds
    BY <2>6, <2>7 DEF SessionIds
  <2>9. s \in Session
    BY <2>6, <2>7, <2>8 DEF Materialize, Session
  <2>. HIDE DEF first, last, s, agree
  <2>10. \A t \in Inferred : t.id \in SessionIds /\ t.id # NoSession
    BY InputsAssumption DEF IInv, TypeOK, Session, Tombstone, Inferred, Kept, InputsAssumption
  <2>11. \A t \in Inferred : t.id[3] # first.seq
    BY <2>3, <2>4, <2>7, <2>10 DEF IInv, BeginningsDrawn
  <2>12. Judge(s) = "new"
    <3>1. Judge(s) = "duplicate" => s \in Inferred
      BY <2>6, Judged DEF Inferred, Kept
    <3>. QED
      BY <1>3, <2>8, <2>11, <3>1 DEF agree
  <2>13. s.id \notin Ids(sessions) \cup Ids(tombs) /\ sessions' = sessions \cup {s}
    BY <2>1, <2>12, Judged
  <2>14. Inferred' = Inferred \cup {s}
    BY <1>1, <2>6, <2>13 DEF Inferred, Kept
  <2>15. \A o \in ops : /\ P(o) \in Position /\ P(o).seq = o.seq /\ P(o).work = o.work /\ P(o).dev = o.dev
                        /\ P(o).own = o.own /\ P(o).at = o.at /\ P(o).stamp = s.id
    <3>. SUFFICES ASSUME NEW o \in Position
                  PROVE  /\ P(o) \in Position /\ P(o).seq = o.seq /\ P(o).work = o.work
                         /\ P(o).dev = o.dev /\ P(o).own = o.own /\ P(o).at = o.at /\ P(o).stamp = s.id
      BY <2>2
    <3>. QED
      BY <2>8 DEF Position
  <2>. HIDE DEF P
  <2>16. \A q \in ops' : \E o \in ops :
           /\ q = IF o \in g THEN P(o) ELSE o
           /\ q \in Position /\ q.seq = o.seq /\ q.work = o.work /\ q.dev = o.dev
           /\ q.own = o.own /\ q.at = o.at
           /\ q.stamp = IF o \in g THEN s.id ELSE o.stamp
    BY <2>1, <2>2, <2>3, <2>15
  <2>17. TypeOK' /\ GroupsUniform'
    <3>1. ops' \subseteq Position /\ \A q \in ops' : q.seq < nextSeq' /\ q.at <= now'
      BY <1>1, <2>2, <2>16 DEF clockVars
    <3>2. sessions' \subseteq Session /\ accepted' \subseteq Session /\ dropped' \subseteq SessionIds
      BY <2>1, <2>9, <2>13 DEF IInv, TypeOK
    <3>. QED
      BY <1>1, <3>1, <3>2, GroupTaken, Zenon DEF IInv, TypeOK, graphVars, clockVars
  <2>18. FiniteTables'
    BY <1>1, <2>13, FS_AddElement DEF IInv, FiniteTables
  <2>19. CountedOnce' /\ TombsKeep'
    <3>1. sessions' = sessions \cup {s} /\ tombs' = tombs
      BY <1>1, <2>13
    <3>2. /\ Ids({s}) \cap (Ids(sessions) \cup Ids(tombs)) = {}
          /\ Ids({}) \subseteq Ids(sessions) \cup Ids(tombs)
          /\ accepted' = accepted \cup {s} \cup {} /\ dropped' = dropped \ (Ids({s}) \cup Ids({}))
          /\ \A x, y \in {s} : x.id = y.id => x = y
      BY <2>1, <2>13 DEF Ids
    <3>3. StoredOnce'
      BY <3>1, <3>2, RowsAdded, Zenon DEF IInv, CountedOnce
    <3>. QED
      BY <1>1, <3>3 DEF IInv, CountedOnce, TotalsExact, Backing, TombsKeep
  <2>20. PositionsOrdered'
    BY <2>16 DEF IInv, PositionsOrdered
  <2>21. DrawnSpanned'
    <3>. SUFFICES ASSUME NEW q \in ops', q.stamp # NoSession
                  PROVE  \E t \in Inferred' : /\ t.id = q.stamp /\ t.dev = q.dev /\ t.own = q.own
                                              /\ t.from <= q.at /\ q.at <= t.to
      BY DEF DrawnSpanned
    <3>1. PICK o \in ops : /\ q.dev = o.dev /\ q.own = o.own /\ q.at = o.at
                           /\ q.stamp = IF o \in g THEN s.id ELSE o.stamp
      BY <2>16
    <3>2. CASE o \in g
      BY <2>3, <2>4, <2>5, <2>6, <2>14, <3>1, <3>2
    <3>3. CASE o \notin g
      BY <2>14, <3>1, <3>3 DEF IInv, DrawnSpanned
    <3>. QED
      BY <3>2, <3>3
  <2>22. PositionsDrawnOnce'
    <3>1. \A o \in ops' : o.stamp # NoSession =>
            \E t \in Inferred' : t.id = o.stamp /\ t.dev = o.dev /\ t.from <= o.at /\ o.at <= t.to
      BY <2>21 DEF DrawnSpanned
    <3>2. \A t, u \in Inferred' : t # u => t.id[3] # u.id[3]
      BY <2>8, <2>11, <2>14 DEF IInv, PositionsDrawnOnce
    <3>. QED
      BY <3>1, <3>2 DEF PositionsDrawnOnce
  <2>23. BeginningsDrawn'
    <3>1. ASSUME NEW t \in Inferred
          PROVE  /\ t.id \in Works \X Devices \X Nat /\ t.id[3] < nextSeq'
                 /\ \A q \in ops' : q.seq = t.id[3] => q.stamp = t.id
      BY <1>1, <2>3, <2>10, <2>16 DEF IInv, BeginningsDrawn
    <3>2. \A q \in ops' : q.seq = s.id[3] => q.stamp = s.id
      BY <2>4, <2>7, <2>8, <2>16 DEF IInv, PositionsOrdered
    <3>3. s.id[3] < nextSeq'
      BY <1>1, <2>2, <2>7, <2>8
    <3>. QED
      BY <2>8, <2>14, <3>1, <3>2, <3>3 DEF BeginningsDrawn
  <2>24. EvidenceFollowsIdentity'
    <3>1. \A x \in ops' : x.work \in works' /\ (x.own \in Idents => owner'[x.own] = x.work)
      BY <1>1, <2>16 DEF IInv, EvidenceFollowsIdentity, graphVars
    <3>2. s.work \in works' /\ owner'[s.own] = s.work
      BY <1>1, <2>6, <2>7 DEF IInv, EvidenceFollowsIdentity, graphVars
    <3>3. \A r \in receipts : r.session # s.id
      BY <2>8, <2>13, NewHasNoReceipt DEF IInv
    <3>. QED
      BY <1>1, <2>13, <3>1, <3>2, <3>3 DEF IInv, EvidenceFollowsIdentity, graphVars
  <2>25. ReceiptsBacked' /\ EventsAnsweredOnce'
    BY <1>1, <2>13 DEF IInv, ReceiptsBacked, EventsAnsweredOnce, Receipt, Ids
  <2>. QED
    BY <2>17, <2>18, <2>19, <2>20, <2>21, <2>22, <2>23, <2>24, <2>25 DEF IInv
<1>. QED
  BY <1>2, <1>3

(* Sets without a common member are as many together as one by one.        *)
LEMMA CountsAdd ==
  ASSUME NEW S, NEW T, IsFiniteSet(S), IsFiniteSet(T), S \cap T = {}
  PROVE  IsFiniteSet(S \cup T) /\ Cardinality(S \cup T) = Cardinality(S) + Cardinality(T)
<1>1. Cardinality(S) \in Nat /\ Cardinality(T) \in Nat
  BY FS_CardinalityType
<1>2. Cardinality(S \cap T) = 0
  BY FS_EmptySet
<1>3. /\ IsFiniteSet(S \cup T)
      /\ Cardinality(S \cup T) = Cardinality(S) + Cardinality(T) - Cardinality(S \cap T)
  BY FS_Union
<1>. QED
  BY <1>1, <1>2, <1>3

Entombed(s, z) ==
  [id |-> s.id, fp |-> s, work |-> s.work, day |-> Day(s.to, z), zone |-> z, present |-> TRUE]

(* A tombstone is made of its session, under the bucket it is counted in.  *)
LEMMA TombstoneMade ==
  ASSUME NEW s \in Session, NEW z \in Zones
  PROVE  LET t == Entombed(s, z)
         IN /\ t \in Tombstone /\ t.id = s.id /\ t.fp = s /\ t.work = s.work
            /\ t.day = Day(s.to, z) /\ t.zone = z /\ t.present
            /\ Bucket(s, z) = [work |-> t.work, day |-> t.day, zone |-> t.zone]
<1>1. s.id \in SessionIds /\ s.work \in Works /\ s.to \in Nat
  BY DEF Session
<1>2. Day(s.to, z) \in Int
  BY <1>1, DayType
<1>. QED
  BY <1>1, <1>2 DEF Entombed, Tombstone, Bucket

(* A page that is archived is in the totals as it was in the rows.         *)
LEMMA ArchiveStep ==
  ASSUME IInv, job.doing = "applying", job.batch \subseteq sessions, Archive, UNCHANGED Elsewhere
  PROVE  IInv'
<1>. DEFINE page == job.batch
            z == job.zone
            N(s) == Entombed(s, z)
            New == {N(s) : s \in page}
            touched == {Bucket(s, z) : s \in page}
<1>1. /\ sessions' = sessions \ page /\ tombs' = tombs \cup New
      /\ rollups' = [b \in DOMAIN rollups \cup touched |->
                       (IF b \in DOMAIN rollups THEN rollups[b] ELSE 0) + Cardinality(InBucket(page, b))]
      /\ job' = [job EXCEPT !.doing = "reading", !.batch = {}]
      /\ UNCHANGED <<graphVars, receipts, kosyncVars, clockVars, historyVars>>
  BY DEF Archive, Elsewhere, Entombed
<1>2. page \subseteq sessions /\ page \subseteq Session /\ z \in Zones
      /\ IsFiniteSet(page) /\ IsFiniteSet(tombs)
  BY FS_Subset DEF IInv, TypeOK, FiniteTables
<1>3. /\ \A s \in page : /\ N(s) \in New /\ N(s) \in Tombstone
                         /\ N(s).id = s.id /\ N(s).fp = s /\ N(s).work = s.work
                         /\ N(s).day = Day(s.to, z) /\ N(s).zone = z /\ N(s).present
                         /\ Bucket(s, z) = [work |-> N(s).work, day |-> N(s).day, zone |-> N(s).zone]
      /\ \A u \in New : \E s \in page : u = N(s)
  <2>1. ASSUME NEW s \in page
        PROVE  /\ N(s) \in New /\ N(s) \in Tombstone
               /\ N(s).id = s.id /\ N(s).fp = s /\ N(s).work = s.work
               /\ N(s).day = Day(s.to, z) /\ N(s).zone = z /\ N(s).present
               /\ Bucket(s, z) = [work |-> N(s).work, day |-> N(s).day, zone |-> N(s).zone]
    <3>1. s \in Session
      BY <1>2
    <3>. QED
      BY <1>2, <3>1, TombstoneMade
  <2>. QED
    BY <2>1, Zenon
<1>. HIDE DEF N, New, z
<1>4. Ids(sessions') = Ids(sessions) \ Ids(page) /\ Ids(tombs') = Ids(tombs) \cup Ids(page)
      /\ Ids(page) \subseteq Ids(sessions) /\ Ids(page) \cap Ids(tombs) = {}
  <2>1. Ids(New) = Ids(page)
    BY <1>3 DEF Ids
  <2>2. Ids(tombs \cup New) = Ids(tombs) \cup Ids(New)
    BY DEF Ids
  <2>3. Ids(sessions \ page) = Ids(sessions) \ Ids(page)
    BY <1>2 DEF IInv, CountedOnce, StoredOnce, Ids
  <2>4. Ids(page) \subseteq Ids(sessions)
    BY <1>2 DEF Ids
  <2>. QED
    BY <1>1, <2>1, <2>2, <2>3, <2>4 DEF IInv, CountedOnce, StoredOnce
<1>5. IsFiniteSet(New)
  <2>. DEFINE f == [s \in page |-> N(s)]
  <2>1. f \in Surjection(page, New)
    BY <1>3 DEF Surjection
  <2>. QED
    BY <1>2, <2>1, FS_Surjection
<1>6. FiniteTables' /\ TombsKeep'
  <2>1. IsFiniteSet(tombs')
    BY <1>1, <1>2, <1>5, FS_Union
  <2>2. IsFiniteSet(sessions')
    BY <1>1, FS_Subset DEF IInv, FiniteTables
  <2>3. TombsKeep'
    BY <1>1, <1>3 DEF IInv, TombsKeep, Day
  <2>. QED
    BY <2>1, <2>2, <2>3 DEF FiniteTables
<1>7. StoredOnce'
  <2>1. \A s, t \in sessions' : s.id = t.id => s = t
    BY <1>1 DEF IInv, CountedOnce, StoredOnce
  <2>2. \A t, u \in tombs' : t.id = u.id => t = u
    <3>1. \A t \in tombs, u \in New : t.id # u.id
      BY <1>3, <1>4 DEF Ids
    <3>2. \A t, u \in New : t.id = u.id => t = u
      BY <1>2, <1>3 DEF IInv, CountedOnce, StoredOnce
    <3>. QED
      BY <1>1, <3>1, <3>2 DEF IInv, CountedOnce, StoredOnce
  <2>3. Ids(sessions') \cap Ids(tombs') = {}
    BY <1>4 DEF IInv, CountedOnce, StoredOnce
  <2>4. Ids(accepted') \ dropped' = Ids(sessions') \cup Ids(tombs')
    <3>1. Ids(accepted') = Ids(accepted) /\ dropped' = dropped
      BY <1>1 DEF Ids, historyVars
    <3>. QED
      BY <1>4, <3>1 DEF IInv, CountedOnce, StoredOnce
  <2>. QED
    BY <2>1, <2>2, <2>3, <2>4 DEF StoredOnce, Ids
<1>8. \A b \in DOMAIN rollups \cup touched : b = [work |-> b.work, day |-> b.day, zone |-> b.zone]
  <2>1. \A b \in touched : b = [work |-> b.work, day |-> b.day, zone |-> b.zone]
    BY <1>3
  <2>2. \A b \in DOMAIN rollups : \E t \in tombs :
          t.present /\ b = [work |-> t.work, day |-> t.day, zone |-> t.zone]
    BY DEF IInv, CountedOnce, TotalsExact
  <2>. QED
    BY <2>1, <2>2
<1>9. ASSUME NEW b \in DOMAIN rollups \cup touched
      PROVE  /\ Cardinality(InBucket(page, b)) \in Nat
             /\ b \in touched => Cardinality(InBucket(page, b)) # 0
             /\ Cardinality(Backing(b)') = Cardinality(Backing(b)) + Cardinality(InBucket(page, b))
             /\ b \notin DOMAIN rollups => Cardinality(Backing(b)) = 0
  <2>. DEFINE X == InBucket(page, b)
              Y == {N(s) : s \in X}
  <2>0. X = {s \in page : Bucket(s, z) = b}
    BY DEF InBucket, z
  <2>. HIDE DEF X
  <2>1. X \in SUBSET page /\ IsFiniteSet(X) /\ Cardinality(X) \in Nat
    BY <1>2, <2>0, FS_Subset, FS_CardinalityType
  <2>2. b \in touched => Cardinality(X) # 0
    BY <2>0, <2>1, FS_EmptySet
  <2>3. IsFiniteSet(Y) /\ Cardinality(Y) = Cardinality(X)
    <3>. DEFINE f == [s \in X |-> N(s)]
    <3>1. f \in Surjection(X, Y)
      BY DEF Surjection
    <3>2. \A s, t \in X : N(s) = N(t) => s = t
      BY <1>3, <2>1
    <3>3. f \in Injection(X, Y)
      BY <3>2 DEF Injection, IsInjective
    <3>. QED
      BY <2>1, <3>1, <3>3, FS_Surjection
  <2>4. Backing(b)' = Backing(b) \cup Y
    <3>1. \A s \in page : s \in X <=> /\ s.work = b.work /\ Day(s.to, z) = b.day /\ z = b.zone
      BY <1>3, <1>8, <2>0
    <3>2. ASSUME NEW s \in page
          PROVE  N(s) \in Backing(b)' <=> s \in X
      BY <1>1, <1>3, <3>1 DEF Backing, Day
    <3>3. ASSUME NEW t \in tombs PROVE t \in Backing(b)' <=> t \in Backing(b)
      BY <1>1 DEF Backing, Day
    <3>4. Backing(b)' \subseteq tombs \cup New /\ Backing(b) \subseteq tombs
      BY <1>1 DEF Backing
    <3>. QED
      <4>1. \A t \in Backing(b)' : t \in Backing(b) \cup Y
        BY <1>3, <3>2, <3>3, <3>4
      <4>2. \A t \in Backing(b) \cup Y : t \in Backing(b)'
        BY <2>1, <3>2, <3>3, <3>4
      <4>. QED
        BY <4>1, <4>2
  <2>5. Backing(b) \cap Y = {}
    <3>1. \A t \in Backing(b), u \in Y : t.id # u.id
      BY <1>3, <1>4, <2>1 DEF Backing, Ids
    <3>. QED
      BY <3>1
  <2>6. IsFiniteSet(Backing(b))
    <3>1. Backing(b) \in SUBSET tombs
      BY DEF Backing
    <3>. QED
      BY <1>2, <3>1, FS_Subset
  <2>7. Cardinality(Backing(b)') = Cardinality(Backing(b)) + Cardinality(X)
    BY <2>3, <2>4, <2>5, <2>6, CountsAdd
  <2>8. b \notin DOMAIN rollups => Backing(b) = {}
    <3>. SUFFICES ASSUME NEW t \in Backing(b) PROVE b \in DOMAIN rollups
      OBVIOUS
    <3>1. t \in tombs /\ t.present /\ t.work = b.work /\ t.day = b.day /\ t.zone = b.zone
      BY DEF Backing, IInv, TombsKeep
    <3>2. [work |-> t.work, day |-> t.day, zone |-> t.zone] \in DOMAIN rollups
      BY <3>1 DEF IInv, CountedOnce, TotalsExact
    <3>. QED
      BY <1>8, <3>1, <3>2
  <2>. QED
    BY <2>1, <2>2, <2>7, <2>8, FS_EmptySet DEF X
<1>10. DOMAIN rollups' = DOMAIN rollups \cup touched
  BY <1>1
<1>11. TotalsExact'
  <2>1. {[work |-> t.work, day |-> t.day, zone |-> t.zone] : t \in {u \in tombs' : u.present}}
          = DOMAIN rollups'
    <3>1. {[work |-> t.work, day |-> t.day, zone |-> t.zone] : t \in {u \in tombs : u.present}}
            = DOMAIN rollups
      BY DEF IInv, CountedOnce, TotalsExact
    <3>2. {[work |-> t.work, day |-> t.day, zone |-> t.zone] : t \in {u \in New : u.present}} = touched
      BY <1>3
    <3>3. {u \in tombs' : u.present} = {u \in tombs : u.present} \cup {u \in New : u.present}
      BY <1>1
    <3>. QED
      BY <1>10, <3>1, <3>2, <3>3
  <2>2. ASSUME NEW b \in DOMAIN rollups' PROVE rollups'[b] = Cardinality(Backing(b)')
    <3>1. rollups'[b] = (IF b \in DOMAIN rollups THEN rollups[b] ELSE 0) + Cardinality(InBucket(page, b))
      BY <1>1
    <3>2. b \in DOMAIN rollups => rollups[b] = Cardinality(Backing(b))
      BY DEF IInv, CountedOnce, TotalsExact
    <3>. QED
      BY <1>9, <1>10, <3>1, <3>2
  <2>. QED
    BY <2>1, <2>2 DEF TotalsExact
<1>12. TypeOK'
  <2>1. rollups' \in [DOMAIN rollups' -> Nat \ {0}]
    <3>1. \A b \in DOMAIN rollups : rollups[b] \in Nat \ {0}
      BY DEF IInv, TypeOK
    <3>2. \A b \in DOMAIN rollups \cup touched :
            (IF b \in DOMAIN rollups THEN rollups[b] ELSE 0) + Cardinality(InBucket(page, b)) \in Nat \ {0}
      BY <1>9, <3>1
    <3>. QED
      BY <1>1, <1>10, <3>2
  <2>2. tombs' \subseteq Tombstone /\ sessions' \subseteq Session
    BY <1>1, <1>3 DEF IInv, TypeOK
  <2>3. /\ job' \in [zone : Zones, doing : {"idle", "inferring", "reading", "applying"},
                     groups : SUBSET SUBSET Position, cut : Int, batch : SUBSET Session]
        /\ job'.groups = {} /\ job'.batch = {} /\ job'.doing = "reading"
    BY <1>1 DEF IInv, TypeOK
  <2>4. Cardinality(job'.batch) <= BatchSize
    BY <2>3, FS_EmptySet, SessionsAssumption DEF SessionsAssumption
  <2>. QED
    BY <1>1, <2>1, <2>2, <2>3, <2>4 DEF IInv, TypeOK, graphVars, kosyncVars, clockVars, historyVars
<1>13. PositionsDrawnOnce' /\ PositionsOrdered' /\ DrawnSpanned' /\ BeginningsDrawn'
  <2>1. {t.fp : t \in tombs'} = {t.fp : t \in tombs} \cup page
    BY <1>1, <1>3
  <2>2. Inferred' = Inferred
    BY <1>1, <1>2, <2>1 DEF Inferred, Kept
  <2>. QED
    BY <1>1, <2>2, DrawStays DEF IInv, kosyncVars
<1>14. GroupsUniform'
  BY <1>1 DEF IInv, TypeOK, GroupsUniform
<1>15. EvidenceFollowsIdentity'
  <2>1. \A s \in page : s.work \in works
    BY <1>2 DEF IInv, EvidenceFollowsIdentity
  <2>2. \A t \in New : t.work \in works
    BY <1>3, <2>1
  <2>. QED
    BY <1>1, <2>2 DEF IInv, EvidenceFollowsIdentity, graphVars, kosyncVars
<1>16. ReceiptsBacked' /\ EventsAnsweredOnce'
  <2>1. Ids(sessions') \cup Ids(tombs') = Ids(sessions) \cup Ids(tombs)
    BY <1>4
  <2>2. receipts' = receipts /\ answered' = answered
    BY <1>1 DEF historyVars
  <2>. QED
    BY <2>1, <2>2 DEF IInv, ReceiptsBacked, EventsAnsweredOnce, Receipt, Ids
<1>. QED
  BY <1>6, <1>7, <1>11, <1>12, <1>13, <1>14, <1>15, <1>16 DEF IInv, CountedOnce

LEMMA ApplyStep ==
  ASSUME IInv, ApplyRollups
  PROVE  IInv'
<1>1. CASE job.zone = zone /\ job.batch \subseteq sessions
  <2>1. job.doing = "applying" /\ Archive /\ UNCHANGED Elsewhere
    BY <1>1 DEF ApplyRollups
  <2>. QED
    BY <1>1, <2>1, ArchiveStep
<1>2. CASE ~(job.zone = zone /\ job.batch \subseteq sessions)
  <2>1. job' = Idle /\ UNCHANGED <<graphVars, storeVars, kosyncVars, clockVars, historyVars>>
    BY <1>2 DEF ApplyRollups, Elsewhere, storeVars
  <2>2. /\ Idle \in [zone : Zones, doing : {"idle", "inferring", "reading", "applying"},
                     groups : SUBSET SUBSET Position, cut : Int, batch : SUBSET Session]
        /\ Idle.groups = {} /\ Idle.batch = {} /\ Idle.doing = "idle"
    BY SessionsAssumption DEF SessionsAssumption, Idle
  <2>3. TypeOK'
    BY <2>1, <2>2, FS_EmptySet, SessionsAssumption
       DEF IInv, TypeOK, graphVars, storeVars, kosyncVars, clockVars, historyVars, SessionsAssumption
  <2>4. FiniteTables' /\ CountedOnce' /\ TombsKeep'
    BY <2>1, CountStays DEF IInv, storeVars, historyVars
  <2>5. PositionsDrawnOnce' /\ PositionsOrdered' /\ DrawnSpanned' /\ BeginningsDrawn'
    BY <2>1, DrawStays DEF IInv, storeVars, kosyncVars, Inferred, Kept
  <2>6. GroupsUniform'
    BY <2>1, <2>2 DEF GroupsUniform
  <2>7. EvidenceFollowsIdentity'
    BY <2>1, EvidenceStays DEF IInv, storeVars, graphVars, kosyncVars
  <2>8. ReceiptsBacked' /\ EventsAnsweredOnce'
    BY <2>1, ReceiptsStay DEF IInv, storeVars, historyVars
  <2>. QED
    BY <2>3, <2>4, <2>5, <2>6, <2>7, <2>8 DEF IInv
<1>. QED
  BY <1>1, <1>2

-----------------------------------------------------------------------------
(* The invariant, and what it implies.                                     *)

LEMMA NextInvariant == IInv /\ [Next]_vars => IInv'
<1>. SUFFICES ASSUME IInv, [Next]_vars PROVE IInv'
  OBVIOUS
<1>1. CASE \E batch \in Batches : AppendSessions(batch)
  BY <1>1, UploadStep
<1>2. CASE \E d \in Devices, e \in Events : IgnoreKosyncSession(d, e)
  BY <1>2, IgnoredEventStep
<1>3. CASE \E d \in Devices, e \in Events : StoreKosyncSession(d, e)
  BY <1>3, StoredEventStep
<1>4. CASE \E d \in Devices, a \in Aliases : AppendKosyncOp(d, a)
  BY <1>4, PositionStep
<1>5. CASE Tick \/ (\E z \in Zones : SetTimezone(z)) \/ \E d \in Devices : EnableKosyncStatistics(d)
  BY <1>5, ClockStep
<1>6. CASE \E ids \in (SUBSET Idents) \ {{}} : Resolve(ids)
  BY <1>6, ResolveStep
<1>7. CASE \E w, new \in Works, e \in Editions, listed \in SUBSET Aliases : SplitWork(w, e, listed, new)
  BY <1>7, SplitStep
<1>8. CASE \E from, into \in Works : MergeWorks(from, into)
  BY <1>8, MergeStep
<1>9. CASE \E w \in Works : DeleteWork(w)
  BY <1>9, DeleteStep
<1>10. CASE ReadPendingOps \/ StartRollup \/ ReadBatch
  BY <1>10, ReadingStep
<1>11. CASE \E g \in job.groups : AppendInferredSession(g)
  BY <1>11, InferStep
<1>12. CASE ApplyRollups
  BY <1>12, ApplyStep
<1>13. CASE UNCHANGED vars
  <2>1. UNCHANGED <<graphVars, storeVars, kosyncVars, clockVars, job, historyVars>>
    BY <1>13 DEF vars
  <2>2. TypeOK' /\ GroupsUniform'
    BY <2>1 DEF IInv, TypeOK, GroupsUniform, graphVars, storeVars, kosyncVars, clockVars, historyVars
  <2>3. FiniteTables' /\ CountedOnce' /\ TombsKeep'
    BY <2>1, CountStays DEF IInv, storeVars, historyVars
  <2>4. PositionsDrawnOnce' /\ PositionsOrdered' /\ DrawnSpanned' /\ BeginningsDrawn'
    BY <2>1, DrawStays DEF IInv, storeVars, kosyncVars, Inferred, Kept
  <2>5. EvidenceFollowsIdentity'
    BY <2>1, EvidenceStays DEF IInv, storeVars, graphVars, kosyncVars
  <2>6. ReceiptsBacked' /\ EventsAnsweredOnce'
    BY <2>1, ReceiptsStay DEF IInv, storeVars, historyVars
  <2>. QED
    BY <2>2, <2>3, <2>4, <2>5, <2>6 DEF IInv
<1>. QED
  BY <1>1, <1>2, <1>3, <1>4, <1>5, <1>6, <1>7, <1>8, <1>9, <1>10, <1>11, <1>12, <1>13
     DEF Next, MaterializerStep

(* The invariant holds of every behaviour of the sessions' store and its   *)
(* materializer.                                                           *)
THEOREM SessionsInvariant == Spec => []IInv
<1>1. Init => IInv
  BY InitInvariant
<1>2. IInv /\ [Next]_vars => IInv'
  BY NextInvariant
<1>. QED
  BY <1>1, <1>2, PTL DEF Spec

(* The tables, the totals and the materializer's job have their types; the *)
(* page it holds is within its bound.                                      *)
THEOREM SessionsTyped == Spec => []TypeOK
<1>1. IInv => TypeOK
  BY DEF IInv
<1>. QED
  BY <1>1, SessionsInvariant, PTL

(* Every session ever accepted, by whichever way, is one row or one        *)
(* tombstone until its work is deleted, and a daily total is the number of *)
(* tombstones behind it, whatever is merged, retried or archived           *)
(* (store: appendSessionsTx, AppendInferredSession, ApplyRollups).         *)
THEOREM SessionsCountedOnce == Spec => []CountedOnce
<1>1. IInv => CountedOnce
  BY DEF IInv
<1>. QED
  BY <1>1, SessionsInvariant, PTL

(* A position is drawn into one inferred session that spans it, and no     *)
(* position begins two, although works are merged and split between the    *)
(* materializer's reading and its writing.                                 *)
THEOREM SessionsDrawnOnce == Spec => []PositionsDrawnOnce
<1>1. IInv => PositionsDrawnOnce
  BY DEF IInv
<1>. QED
  BY <1>1, SessionsInvariant, PTL

(* Splits, merges and deletions leave what was recorded under an           *)
(* identifier in the identifier's work, and a receipt with its session.    *)
THEOREM SessionsFollowIdentity == Spec => []EvidenceFollowsIdentity
<1>1. IInv => EvidenceFollowsIdentity
  BY DEF IInv
<1>. QED
  BY <1>1, SessionsInvariant, PTL

(* An event answered once has the receipt to be answered the same again,   *)
(* through rollups, splits and merges, and through the deletion of a work  *)
(* whose session was archived.                                             *)
THEOREM SessionsAnswerAgain == Spec => []EventsAnsweredOnce
<1>1. IInv => EventsAnsweredOnce
  BY DEF IInv
<1>. QED
  BY <1>1, SessionsInvariant, PTL

(* A session judged a duplicate is never stored again, and one that is     *)
(* archived is never taken back into the rows: an id in the tables stays   *)
(* in them until its session goes with its work.                           *)
THEOREM StoredIdsStay ==
  Spec => [][\A i \in Ids(sessions) \cup Ids(tombs) :
               i \in Ids(sessions') \cup Ids(tombs') \/ i \in dropped']_vars
<1>1. IInv /\ IInv' /\ [Next]_vars =>
        [\A i \in Ids(sessions) \cup Ids(tombs) :
           i \in Ids(sessions') \cup Ids(tombs') \/ i \in dropped']_vars
  <2>. SUFFICES ASSUME IInv, IInv', Next,
                       NEW i \in Ids(sessions) \cup Ids(tombs),
                       i \notin dropped'
                PROVE  i \in Ids(sessions') \cup Ids(tombs')
    BY Zenon
  <2>1. accepted \subseteq accepted'
    <3>1. CASE \E batch \in Batches : AppendSessions(batch)
      BY <3>1 DEF AppendSessions
    <3>2. CASE \E d \in Devices, e \in Events : StoreKosyncSession(d, e)
      BY <3>2 DEF StoreKosyncSession
    <3>3. CASE \E g \in job.groups : AppendInferredSession(g)
      BY <3>3 DEF AppendInferredSession
    <3>4. CASE ApplyRollups
      BY <3>4 DEF ApplyRollups, Elsewhere, historyVars
    <3>5. CASE \E w \in Works : DeleteWork(w)
      BY <3>5 DEF DeleteWork
    <3>6. CASE ReadPendingOps \/ StartRollup \/ ReadBatch \/ Tick
      BY <3>6 DEF ReadPendingOps, StartRollup, ReadBatch, Tick, historyVars
    <3>7. CASE \/ \E w, new \in Works, e \in Editions, listed \in SUBSET Aliases :
                    SplitWork(w, e, listed, new)
               \/ \E from, into \in Works : MergeWorks(from, into)
      BY <3>7 DEF SplitWork, MergeWorks, historyVars
    <3>8. CASE \/ \E ids \in (SUBSET Idents) \ {{}} : Resolve(ids)
               \/ \E d \in Devices, e \in Events : IgnoreKosyncSession(d, e)
               \/ \E d \in Devices, a \in Aliases : AppendKosyncOp(d, a)
               \/ \E d \in Devices : EnableKosyncStatistics(d)
               \/ \E z \in Zones : SetTimezone(z)
      BY <3>8 DEF Resolve, IgnoreKosyncSession, AppendKosyncOp, EnableKosyncStatistics, SetTimezone,
                  historyVars
    <3>. QED
      BY <3>1, <3>2, <3>3, <3>4, <3>5, <3>6, <3>7, <3>8 DEF Next, MaterializerStep
  <2>2. i \in Ids(accepted')
    BY <2>1 DEF IInv, CountedOnce, StoredOnce, Ids
  <2>. QED
    BY <2>2 DEF IInv, CountedOnce, StoredOnce, Ids
<1>. QED
  BY <1>1, SessionsInvariant, PTL DEF Spec

=============================================================================
