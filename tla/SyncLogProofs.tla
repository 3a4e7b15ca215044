--------------------------- MODULE SyncLogProofs ---------------------------
(***************************************************************************)
(* Proofs about SyncLog, for every set of works, devices, clients and      *)
(* batches: that clients never miss an op silently, that a forgotten peak  *)
(* stays forgotten, and that the newest op of every device is known to     *)
(* every client that has caught up.                                        *)
(***************************************************************************)
EXTENDS SyncLog, FiniteSetTheorems, WellFoundedInduction, TLAPS

-----------------------------------------------------------------------------
(* The inductive invariant.                                                *)

(* Everything ever numbered is below the counter.                          *)
BelowCounter ==
  /\ \A s \in Seqs(log) \cup compacted \cup hidden : s < nextSeq
  /\ horizon < nextSeq
  /\ \A c \in Clients : /\ cursor[c] < nextSeq
                        /\ inbox[c] # NoReply => inbox[c].next < nextSeq

(* A number names one op.                                                  *)
SeqsUnique == \A o, p \in log : o.seq = p.seq => o = p

(* Ops belong to existing works, and existing works have been born.        *)
OpsHaveWorks == works \subseteq born /\ \A o \in log : o.work \in works

(* The horizon covers everything compaction removed.                       *)
HorizonCovers == \A s \in compacted : s <= horizon

(* A forgotten op that is still stored lies under its work's floor.        *)
ForgottenUnderFloor == \A o \in log : o.seq \in hidden => o.seq <= floor[o.work]

(* A page in flight will leave no gap when it is applied.                  *)
PagesComplete ==
  \A c \in Clients : inbox[c] # NoReply /\ inbox[c].kind = "page" =>
    \A s \in Seqs(log) \cup compacted :
      base[c] < s /\ s <= inbox[c].next => s \in known[c] \cup inbox[c].seqs

(* A reply in flight will leave no head unknown when it is applied.        *)
RepliesHoldHeads ==
  \A c \in Clients : inbox[c] # NoReply => \A o \in HeadOps :
    o.seq <= inbox[c].next =>
      /\ inbox[c].kind = "page" /\ asOf[c] = splits => o.seq \in known[c] \cup inbox[c].seqs
      /\ inbox[c].kind = "heads" /\ inbox[c].splits = splits => o.seq \in inbox[c].seqs

(* No client has seen a split that did not happen.                         *)
SplitsSeen ==
  \A c \in Clients : asOf[c] <= splits /\ (inbox[c] # NoReply => inbox[c].splits <= splits)

IInv ==
  /\ TypeOK /\ BelowCounter /\ SeqsUnique /\ OpsHaveWorks /\ HorizonCovers /\ ForgottenUnderFloor
  /\ NoSilentGap /\ PagesComplete /\ HeadsKnown /\ RepliesHoldHeads /\ SplitsSeen

-----------------------------------------------------------------------------
(* Lemmas about numbers and sets of ops.                                   *)

(* The least-number principle, from the well-foundedness of < on Nat.      *)
LEMMA MinExists ==
  ASSUME NEW S \in SUBSET Nat, S # {}
  PROVE  \E m \in S : \A k \in S : m <= k
<1>1. PICK x \in S : \A y \in S : ~ (<<y, x>> \in OpToRel(<, Nat))
  BY WFMin, NatLessThanWellFounded
<1>2. ASSUME NEW k \in S, k < x PROVE FALSE
  <2>1. k \in Nat /\ x \in Nat
    OBVIOUS
  <2>2. <<k, x>> \in OpToRel(<, Nat)
    BY <1>2, <2>1, Zenon DEF OpToRel
  <2>. QED
    BY <2>2, <1>1, Zenon
<1>3. \A a, b \in Nat : ~(a < b) => b <= a
  BY SMT
<1>. QED
  BY <1>2, <1>3, Zenon

(* A bounded set of numbers has a greatest element.                        *)
LEMMA MaxExists ==
  ASSUME NEW S \in SUBSET Nat, S # {}, NEW b \in Nat, \A s \in S : s <= b
  PROVE  \E m \in S : \A k \in S : k <= m
<1>. DEFINE D == {d \in Nat : b - d \in S}
<1>1. D # {}
  <2>1. PICK s \in S : TRUE
    OBVIOUS
  <2>2. b - s \in Nat /\ b - (b - s) = s
    BY <2>1, SMT
  <2>. QED
    BY <2>1, <2>2
<1>2. PICK d \in D : \A e \in D : d <= e
  BY <1>1, MinExists
<1>3. ASSUME NEW k \in S PROVE k <= b - d
  <2>1. b - k \in D
    BY <1>3, SMT
  <2>. QED
    BY <1>2, <1>3, <2>1, SMT
<1>. QED
  BY <1>2, <1>3

(* Newest is the greatest seq of a bounded set of ops, 0 of an empty one.  *)
LEMMA NewestIsMax ==
  ASSUME NEW S, \A o \in S : o.seq \in Nat, NEW b \in Nat, \A o \in S : o.seq <= b
  PROVE  /\ Newest(S) \in Nat
         /\ \A o \in S : o.seq <= Newest(S)
         /\ Newest(S) <= b
         /\ S # {} => \E o \in S : Newest(S) = o.seq
         /\ S = {} => Newest(S) = 0
<1>1. CASE S = {}
  BY <1>1, SMT DEF Newest
<1>2. CASE S # {}
  <2>1. Seqs(S) \in SUBSET Nat /\ Seqs(S) # {} /\ \A s \in Seqs(S) : s <= b
    BY <1>2 DEF Seqs
  <2>2. \E m \in Seqs(S) : \A s \in Seqs(S) : s <= m
    BY <2>1, MaxExists
  <2>3. Newest(S) \in Seqs(S) /\ \A s \in Seqs(S) : s <= Newest(S)
    BY <1>2, <2>2, Zenon DEF Newest
  <2>. QED
    BY <1>2, <2>1, <2>3 DEF Seqs
<1>. QED
  BY <1>1, <1>2

(* A page is the low end of what it is taken from, and is empty only when  *)
(* there is nothing to take.                                               *)
LEMMA LowestIsPrefix ==
  ASSUME NEW S, \A o \in S : o.seq \in Nat, NEW n \in Nat \ {0}
  PROVE  /\ Lowest(S, n) \subseteq S
         /\ \A o \in Lowest(S, n), p \in S : p.seq <= o.seq => p \in Lowest(S, n)
         /\ Lowest(S, n) = {} => S = {}
<1>. DEFINE Below(k) == {s \in Seqs(S) : s < k}
<1>0. Seqs(S) \in SUBSET Nat
  BY DEF Seqs
<1>1. ASSUME NEW k \in Nat PROVE IsFiniteSet(Below(k)) /\ Cardinality(Below(k)) \in Nat
  <2>1. Below(k) \in SUBSET Nat /\ \A s \in Below(k) : s <= k
    BY <1>0, <1>1, SMT
  <2>2. IsFiniteSet(Below(k))
    BY <1>1, <2>1, FS_BoundedSetOfNaturals, Zenon
  <2>. QED
    BY <2>2, FS_CardinalityType
<1>2. ASSUME NEW o \in Lowest(S, n), NEW p \in S, p.seq <= o.seq
      PROVE  p \in Lowest(S, n)
  <2>1. o \in S /\ o.seq \in Nat /\ p.seq \in Nat /\ Cardinality(Below(o.seq)) < n
    BY <1>2 DEF Lowest
  <2>2. Below(p.seq) \in SUBSET Below(o.seq)
    BY <1>0, <1>2, <2>1, SMT
  <2>3. Cardinality(Below(p.seq)) <= Cardinality(Below(o.seq))
    BY <1>1, <2>1, <2>2, FS_Subset, Zenon
  <2>4. Cardinality(Below(p.seq)) < n
    <3>. HIDE DEF Below
    <3>. QED
      BY <1>1, <2>1, <2>3, SMT
  <2>. QED
    BY <2>4, Zenon DEF Lowest
<1>3. ASSUME S # {} PROVE Lowest(S, n) # {}
  <2>1. Seqs(S) # {}
    BY <1>3 DEF Seqs
  <2>2. PICK m \in Seqs(S) : \A s \in Seqs(S) : m <= s
    BY <1>0, <2>1, MinExists
  <2>3. PICK o \in S : o.seq = m
    BY <2>2 DEF Seqs
  <2>4. Below(o.seq) = {}
    BY <1>0, <2>2, <2>3, SMT
  <2>5. Cardinality(Below(o.seq)) = 0
    BY <2>4, FS_EmptySet, Zenon
  <2>6. Cardinality(Below(o.seq)) < n
    <3>. HIDE DEF Below
    <3>. QED
      BY <2>5, SMT
  <2>. QED
    BY <2>3, <2>6, Zenon DEF Lowest
<1>4. Lowest(S, n) \subseteq S
  BY DEF Lowest
<1>. QED
  BY <1>2, <1>3, <1>4, Zenon

(* The numbers a batch takes: one each, from the counter on, below the     *)
(* next value of the counter.                                              *)
LEMMA FreshNumbers ==
  ASSUME NEW batch \in Seq(Submission), NEW i \in Fresh(batch)
  PROVE  /\ Cardinality(Fresh(batch)) \in Nat
         /\ Cardinality({j \in Fresh(batch) : j < i}) \in Nat
         /\ Cardinality({j \in Fresh(batch) : j < i}) < Cardinality(Fresh(batch))
         /\ i \in Nat
         /\ \A k \in Fresh(batch) : k < i =>
              Cardinality({j \in Fresh(batch) : j < k}) < Cardinality({j \in Fresh(batch) : j < i})
<1>. DEFINE F == Fresh(batch)
            L == {j \in F : j < i}
<1>1. IsFiniteSet(F)
  <2>1. DOMAIN batch = 1..Len(batch) /\ Len(batch) \in Nat
    OBVIOUS
  <2>2. F \in SUBSET (1..Len(batch))
    BY <2>1 DEF Fresh
  <2>3. IsFiniteSet(1..Len(batch))
    BY <2>1, FS_Interval
  <2>. QED
    BY <2>2, <2>3, FS_Subset, Zenon
<1>2. L \in SUBSET F /\ i \in F /\ i \notin L
  <2>1. i \in Nat
    BY DEF Fresh
  <2>. QED
    BY <2>1, SMT
<1>3. /\ IsFiniteSet(L) /\ Cardinality(L) <= Cardinality(F)
      /\ Cardinality(F) = Cardinality(L) => F = L
  BY <1>1, <1>2, FS_Subset, Zenon
<1>4. Cardinality(F) \in Nat /\ Cardinality(L) \in Nat
  BY <1>1, <1>3, FS_CardinalityType, Zenon
<1>5. Cardinality(F) # Cardinality(L)
  BY <1>2, <1>3, Zenon
<1>6. i \in Nat /\ \A k \in F : k \in Nat
  BY DEF Fresh
<1>7. ASSUME NEW k \in F, k < i
      PROVE  Cardinality({j \in F : j < k}) < Cardinality(L)
  <2>. DEFINE M == {j \in F : j < k}
  <2>1. M \in SUBSET L /\ k \in L /\ k \notin M
    <3>. HIDE DEF F
    <3>. QED
      BY <1>6, <1>7, SMT
  <2>2. /\ IsFiniteSet(M) /\ Cardinality(M) <= Cardinality(L)
        /\ Cardinality(L) = Cardinality(M) => L = M
    BY <1>3, <2>1, FS_Subset, Zenon
  <2>3. Cardinality(M) \in Nat /\ Cardinality(L) # Cardinality(M)
    BY <2>1, <2>2, FS_CardinalityType, Zenon
  <2>. HIDE DEF M, L
  <2>4. Cardinality(M) < Cardinality(L)
    BY <1>4, <2>2, <2>3, SMT
  <2>. QED
    BY <2>4, Zenon DEF M
<1>. HIDE DEF F, L
<1>8. Cardinality(L) < Cardinality(F)
  BY <1>3, <1>4, <1>5, SMT
<1>. QED
  BY <1>4, <1>6, <1>7, <1>8, Zenon DEF F, L

-----------------------------------------------------------------------------
(* What a step of the server may do to the clients' view of the log.       *)

(* No client variable changes; every number stored was stored before or is *)
(* beyond the counter; compaction removes only what was stored; and,       *)
(* without a split, every head was a head before or is new.                *)
ServerEffect ==
  /\ clientVars' = clientVars
  /\ nextSeq <= nextSeq' /\ horizon <= horizon' /\ splits <= splits'
  /\ \A s \in Seqs(log') : s \in Seqs(log) \/ nextSeq <= s
  /\ compacted' \subseteq compacted \cup Seqs(log)
  /\ splits' = splits =>
       \A o \in HeadOps' : nextSeq <= o.seq \/ \E p \in HeadOps : p.seq = o.seq

(* The conjuncts of the invariant that only the server's state decides.    *)
ServerInv ==
  /\ TypeOK
  /\ \A s \in Seqs(log) \cup compacted \cup hidden : s < nextSeq
  /\ horizon < nextSeq
  /\ SeqsUnique /\ OpsHaveWorks /\ HorizonCovers /\ ForgottenUnderFloor

ServerNext ==
  \/ \E batch \in Batches : AppendOps(batch)
  \/ \E put \in KosyncPuts : AppendKosyncOp(put)
  \/ \E d \in KosyncDevices : EnableKosyncStatistics(d)
  \/ \E d \in KosyncDevices, a \in Aliases, t \in 0..MaxTick : AppendInferredSession(d, a, t)
  \/ \E w \in Works, upto \in 1..MaxSeq : ForgetFurthest(w, upto)
  \/ \E cut \in 1..MaxTick : Compact(cut)
  \/ Tick
  \/ \E ids \in (SUBSET Idents) \ {{}} : Resolve(ids)
  \/ \E w, new \in Works, e \in Editions, listed \in SUBSET Aliases : SplitWork(w, e, listed, new)
  \/ \E from, into \in Works : MergeWorks(from, into)
  \/ \E w \in Works : DeleteWork(w)

ClientNext == \E c \in Clients : Request(c) \/ Receive(c) \/ LoseReply(c)

(* A step is the server's or a client's.                                    *)
LEMMA NextSplits == Next <=> ServerNext \/ ClientNext
  BY DEF Next, ServerNext, ClientNext

(* An identifier chosen for a new work was never used before.              *)
LEMMA NewWorksAreNew ==
  ASSUME born \subseteq Works
  PROVE  \A w \in NewWorks : w \in Works /\ w \notin born
  BY DEF NewWorks

(* POST /v1/ops numbers its fresh items from the counter on and touches no *)
(* op already stored (AppendOps).                                          *)
LEMMA AppendOpsStep ==
  ASSUME ServerInv, NEW batch \in Batches, AppendOps(batch)
  PROVE  ServerInv' /\ ServerEffect
<1>. USE DEF AppendOps
<1>. DEFINE F == Fresh(batch)
            N(i) == nextSeq + Cardinality({j \in F : j < i})
            new == {Numbered(batch[i], N(i)) : i \in F}
<1>1. batch \in Seq(Submission)
  BY ConstantsAssumption
<1>2. /\ Cardinality(F) \in Nat
      /\ \A i \in F : N(i) \in Nat /\ nextSeq <= N(i) /\ N(i) < nextSeq + Cardinality(F)
  <2>1. ASSUME NEW i \in F
        PROVE  N(i) \in Nat /\ nextSeq <= N(i) /\ N(i) < nextSeq + Cardinality(F)
               /\ Cardinality(F) \in Nat
    <3>1. /\ Cardinality(F) \in Nat
          /\ Cardinality({j \in F : j < i}) \in Nat
          /\ Cardinality({j \in F : j < i}) < Cardinality(F)
      BY <1>1, FreshNumbers
    <3>2. nextSeq \in Nat
      BY DEF ServerInv, TypeOK
    <3>. QED
      BY <3>1, <3>2, SMT
  <2>2. F # {}
    OBVIOUS
  <2>. HIDE DEF F
  <2>. QED
    BY <2>1, <2>2
<1>21. ASSUME NEW i \in F, NEW k \in F, N(k) = N(i)
       PROVE  k = i
  <2>1. /\ i \in Nat /\ k \in Nat
        /\ k < i => Cardinality({j \in F : j < k}) < Cardinality({j \in F : j < i})
        /\ i < k => Cardinality({j \in F : j < i}) < Cardinality({j \in F : j < k})
        /\ Cardinality({j \in F : j < i}) \in Nat /\ Cardinality({j \in F : j < k}) \in Nat
    BY <1>1, FreshNumbers
  <2>2. nextSeq \in Nat
    BY DEF ServerInv, TypeOK
  <2>. HIDE DEF F
  <2>. QED
    BY <1>21, <2>1, <2>2, SMT
<1>22. \A o, p \in new : o.seq = p.seq => o = p
  <2>1. \A i \in F : Numbered(batch[i], N(i)).seq = N(i)
    BY DEF Numbered
  <2>. HIDE DEF N, F
  <2>. QED
    BY <1>21, <2>1
<1>3. ASSUME NEW o \in new
      PROVE  /\ o \in Op /\ nextSeq <= o.seq /\ o.seq < nextSeq + Cardinality(F)
             /\ o.work \in works
  <2>1. PICK i \in F : o = Numbered(batch[i], N(i))
    OBVIOUS
  <2>2. i \in DOMAIN batch /\ batch[i].work \in works
    BY DEF Fresh
  <2>3. batch[i] \in Submission
    BY <1>1, <2>2
  <2>4. nextSeq \in Nat \ {0} /\ now \in Nat
    BY DEF ServerInv, TypeOK
  <2>5. N(i) \in Nat /\ nextSeq <= N(i) /\ N(i) < nextSeq + Cardinality(F)
    BY <1>2
  <2>. HIDE DEF N, F
  <2>6. N(i) \in Nat \ {0}
    BY <2>4, <2>5, SMT
  <2>. QED
    BY <2>1, <2>2, <2>3, <2>4, <2>5, <2>6, SMT DEF Numbered, Submission, Op, Idents, Owners
<1>4. log' = log \cup new /\ nextSeq' = nextSeq + Cardinality(F)
  OBVIOUS
<1>5. /\ log \subseteq Op /\ nextSeq \in Nat \ {0} /\ now \in Nat
      /\ compacted \subseteq Nat /\ hidden \subseteq Nat
  BY DEF ServerInv, TypeOK
<1>. HIDE DEF F, N, new
<1>6. TypeOK'
  <2>1. log' \subseteq Op
    BY <1>3, <1>4, <1>5
  <2>2. nextSeq' \in Nat \ {0}
    BY <1>2, <1>4, <1>5, SMT
  <2>. QED
    BY <2>1, <2>2 DEF ServerInv, TypeOK, graphVars, clientVars
<1>7. \A s \in (Seqs(log) \cup compacted \cup hidden)' : s < nextSeq'
  <2>1. \A s \in Seqs(log) \cup compacted \cup hidden : s \in Nat /\ s < nextSeq
    BY <1>5 DEF ServerInv, Seqs, Op
  <2>2. \A s \in (Seqs(log) \cup compacted \cup hidden)' :
          s \in Seqs(log) \cup compacted \cup hidden \/ \E o \in new : s = o.seq
    BY <1>4 DEF Seqs
  <2>. QED
    BY <1>2, <1>3, <1>4, <1>5, <2>1, <2>2, SMT
<1>8. horizon' < nextSeq'
  BY <1>2, <1>4, <1>5, SMT DEF ServerInv, TypeOK
<1>9. OpsHaveWorks'
  BY <1>3, <1>4 DEF ServerInv, OpsHaveWorks, graphVars
<1>10. HorizonCovers'
  BY DEF ServerInv, HorizonCovers
<1>11. ForgottenUnderFloor'
  <2>1. \A s \in hidden : s \in Nat /\ s < nextSeq
    BY <1>5 DEF ServerInv
  <2>2. \A o \in new : o.seq \in Nat /\ nextSeq <= o.seq
    BY <1>3 DEF Op
  <2>3. \A o \in new : o.seq \notin hidden
    BY <1>5, <2>1, <2>2, SMT
  <2>. QED
    BY <1>4, <2>3 DEF ServerInv, ForgottenUnderFloor
<1>13. SeqsUnique'
  <2>1. \A o \in log : o.seq \in Nat /\ o.seq < nextSeq
    BY <1>5 DEF ServerInv, Seqs, Op
  <2>2. \A o \in new : o.seq \in Nat /\ nextSeq <= o.seq
    BY <1>3 DEF Op
  <2>3. \A o \in log, p \in new : o.seq # p.seq
    BY <1>5, <2>1, <2>2, SMT
  <2>. QED
    BY <1>22, <1>4, <2>3 DEF ServerInv, SeqsUnique
<1>12. ServerEffect
  <2>1. nextSeq <= nextSeq' /\ horizon <= horizon' /\ splits <= splits'
    BY <1>2, <1>4, <1>5, SMT DEF ServerInv, TypeOK
  <2>2. /\ \A s \in Seqs(log') : s \in Seqs(log) \/ nextSeq <= s
        /\ compacted' = compacted
    BY <1>3, <1>4 DEF Seqs
  <2>3. \A o \in HeadOps' : nextSeq <= o.seq \/ o \in HeadOps
    BY <1>3, <1>4 DEF HeadOps, IsHead
  <2>. QED
    BY <2>1, <2>2, <2>3 DEF ServerEffect, clientVars
<1>. QED
  BY <1>6, <1>7, <1>8, <1>9, <1>10, <1>11, <1>12, <1>13 DEF ServerInv

(* PUT /syncs/progress appends one op under the counter (AppendKosyncOp).  *)
LEMMA AppendKosyncOpStep ==
  ASSUME ServerInv, NEW put \in KosyncPuts, AppendKosyncOp(put)
  PROVE  ServerInv' /\ ServerEffect
<1>. USE DEF AppendKosyncOp
<1>1. put.alias \in Idents /\ put.alias \in Owners /\ put.dev \in KosyncDevices /\ put.prog \in Nat
  BY ConstantsAssumption DEF KosyncPut, Owners, Idents
<1>2. /\ log \subseteq Op /\ nextSeq \in Nat \ {0} /\ now \in Nat
      /\ compacted \subseteq Nat /\ hidden \subseteq Nat
      /\ owner \in [Idents -> Works \cup {NoWork}]
      /\ works \subseteq Works /\ born \subseteq Works
  BY DEF ServerInv, TypeOK
<1>3. PICK w \in IF owner[put.alias] # NoWork THEN {owner[put.alias]} ELSE NewWorks :
         /\ works' = works \cup {w}
         /\ born' = born \cup {w}
         /\ owner' = [owner EXCEPT ![put.alias] = w]
         /\ log' = log \cup {[seq |-> nextSeq, id |-> KosyncId, work |-> w,
                              dev |-> put.dev, own |-> put.alias, prog |-> put.prog,
                              pending |-> TRUE, at |-> now]}
  OBVIOUS
<1>4. w \in Works
  BY <1>1, <1>2, NewWorksAreNew
<1>5. PICK new : /\ log' = log \cup {new} /\ new \in Op
                 /\ new.seq = nextSeq /\ new.work = w
  <2>. DEFINE r == [seq |-> nextSeq, id |-> KosyncId, work |-> w, dev |-> put.dev,
                    own |-> put.alias, prog |-> put.prog, pending |-> TRUE, at |-> now]
  <2>1. r \in Op
    BY <1>1, <1>2, <1>4 DEF Op
  <2>2. log' = log \cup {r}
    BY <1>3, Zenon
  <2>3. r.seq = nextSeq /\ r.work = w
    OBVIOUS
  <2>. HIDE DEF r
  <2>. QED
    BY <2>1, <2>2, <2>3, Zenon
<1>6. TypeOK'
  <2>1. /\ works' \subseteq Works /\ born' \subseteq Works /\ log' \subseteq Op
        /\ owner' \in [Idents -> Works \cup {NoWork}]
    BY <1>2, <1>3, <1>4, <1>5
  <2>2. nextSeq' \in Nat \ {0}
    BY <1>2, SMT
  <2>. QED
    BY <2>1, <2>2 DEF ServerInv, TypeOK, clientVars, historyVars
<1>7. \A s \in (Seqs(log) \cup compacted \cup hidden)' : s < nextSeq'
  <2>1. \A s \in Seqs(log) \cup compacted \cup hidden : s \in Nat /\ s < nextSeq
    BY <1>2 DEF ServerInv, Seqs, Op
  <2>2. \A s \in (Seqs(log) \cup compacted \cup hidden)' :
          s \in Seqs(log) \cup compacted \cup hidden \/ s = nextSeq
    BY <1>5 DEF Seqs, historyVars
  <2>. QED
    BY <1>2, <2>1, <2>2, SMT
<1>8. horizon' < nextSeq'
  BY <1>2, SMT DEF ServerInv, TypeOK
<1>9. OpsHaveWorks'
  BY <1>3, <1>5 DEF ServerInv, OpsHaveWorks
<1>10. HorizonCovers'
  BY DEF ServerInv, HorizonCovers, historyVars
<1>11. ForgottenUnderFloor'
  BY <1>2, <1>5 DEF ServerInv, ForgottenUnderFloor, historyVars
<1>13. SeqsUnique'
  BY <1>2, <1>5 DEF ServerInv, SeqsUnique, Seqs
<1>12. ServerEffect
  <2>1. nextSeq <= nextSeq' /\ horizon <= horizon' /\ splits <= splits'
    BY <1>2, SMT DEF ServerInv, TypeOK, historyVars
  <2>2. /\ \A s \in Seqs(log') : s \in Seqs(log) \/ nextSeq <= s
        /\ compacted' = compacted
    BY <1>2, <1>5 DEF Seqs, historyVars
  <2>3. \A o \in HeadOps' : nextSeq <= o.seq \/ o \in HeadOps
    BY <1>2, <1>5 DEF HeadOps, IsHead
  <2>. QED
    BY <2>1, <2>2, <2>3 DEF ServerEffect, clientVars
<1>. QED
  BY <1>6, <1>7, <1>8, <1>9, <1>10, <1>11, <1>12, <1>13 DEF ServerInv

(* A step that leaves the log alone and lowers no floor.                   *)
LEMMA QuietStep ==
  ASSUME ServerInv, TypeOK', logVars' = logVars, clientVars' = clientVars,
         compacted' = compacted, hidden' = hidden, splits' = splits, floor' = floor,
         works \subseteq works', works' \subseteq born'
  PROVE  ServerInv' /\ ServerEffect
<1>1. log' = log /\ nextSeq' = nextSeq /\ horizon' = horizon
  BY DEF logVars
<1>2. HeadOps' = HeadOps
  BY <1>1 DEF HeadOps, IsHead
<1>3. ServerInv'
  BY <1>1 DEF ServerInv, SeqsUnique, OpsHaveWorks, HorizonCovers, ForgottenUnderFloor, Seqs
<1>4. ServerEffect
  <2>1. nextSeq <= nextSeq' /\ horizon <= horizon' /\ splits <= splits'
    BY <1>1, SMT DEF ServerInv, TypeOK
  <2>. QED
    BY <1>1, <1>2, <2>1 DEF ServerEffect
<1>. QED
  BY <1>3, <1>4

(* Measuring a device leaves the log alone (EnableKosyncStatistics).       *)
LEMMA EnableKosyncStatisticsStep ==
  ASSUME ServerInv, NEW d \in KosyncDevices, EnableKosyncStatistics(d)
  PROVE  ServerInv' /\ ServerEffect
<1>. USE DEF EnableKosyncStatistics
<1>1. TypeOK'
  BY DEF ServerInv, TypeOK, graphVars, logVars, clientVars, historyVars
<1>. QED
  BY <1>1, QuietStep DEF ServerInv, OpsHaveWorks, graphVars, historyVars

(* The clock leaves the log alone.                                         *)
LEMMA TickStep ==
  ASSUME ServerInv, Tick
  PROVE  ServerInv' /\ ServerEffect
<1>. USE DEF Tick
<1>0. now' \in Nat
  BY SMT DEF ServerInv, TypeOK
<1>1. TypeOK'
  BY <1>0 DEF ServerInv, TypeOK, graphVars, logVars, clientVars, historyVars
<1>. QED
  BY <1>1, QuietStep DEF ServerInv, OpsHaveWorks, graphVars, historyVars

(* Resolution moves no identifier that is already registered elsewhere.    *)
LEMMA ResolveStep ==
  ASSUME ServerInv, NEW ids \in (SUBSET Idents) \ {{}}, Resolve(ids)
  PROVE  ServerInv' /\ ServerEffect
<1>. USE DEF Resolve
<1>. DEFINE matched == {owner[i] : i \in ids} \ {NoWork}
<1>1. PICK w \in IF matched = {} THEN NewWorks ELSE matched :
         /\ owner' = [i \in Idents |-> IF i \in ids THEN w ELSE owner[i]]
         /\ works' = works \cup {w}
         /\ born' = born \cup {w}
         /\ UNCHANGED <<floor, logVars, measured, now, clientVars, historyVars>>
  OBVIOUS
<1>2. w \in Works
  BY NewWorksAreNew DEF ServerInv, TypeOK
<1>3. TypeOK'
  <2>1. owner' \in [Idents -> Works \cup {NoWork}]
    BY <1>1, <1>2 DEF ServerInv, TypeOK
  <2>. QED
    BY <1>1, <1>2, <2>1 DEF ServerInv, TypeOK, logVars, clientVars, historyVars
<1>4. works \subseteq works' /\ works' \subseteq born'
  BY <1>1, Zenon DEF ServerInv, OpsHaveWorks
<1>5. /\ logVars' = logVars /\ clientVars' = clientVars
      /\ compacted' = compacted /\ hidden' = hidden /\ splits' = splits /\ floor' = floor
  BY <1>1 DEF historyVars
<1>. QED
  BY <1>3, <1>4, <1>5, QuietStep, Zenon

(* Inference only stamps ops: nothing of an op but pending changes.        *)
LEMMA AppendInferredSessionStep ==
  ASSUME ServerInv, NEW d \in KosyncDevices, NEW a \in Aliases, NEW t \in 0..MaxTick,
         AppendInferredSession(d, a, t)
  PROVE  ServerInv' /\ ServerEffect
<1>. USE DEF AppendInferredSession
<1>. DEFINE group == {o \in log : AwaitsInference(o) /\ o.dev = d /\ o.own = a /\ o.at <= t}
            stamped == {[o EXCEPT !.pending = FALSE] : o \in group}
<1>1. log' = (log \ group) \cup stamped
  BY Zenon
<1>2. log \subseteq Op /\ group \subseteq log
  BY DEF ServerInv, TypeOK
<1>3. ASSUME NEW o \in group, NEW q, q = [o EXCEPT !.pending = FALSE]
      PROVE  q \in Op /\ q.seq = o.seq /\ q.work = o.work /\ q.dev = o.dev
  <2>1. o \in Op
    BY <1>2
  <2>. HIDE DEF group
  <2>. QED
    BY <1>3, <2>1 DEF Op
<1>4. ASSUME NEW q \in log'
      PROVE  q \in Op /\ \E o \in log : q.seq = o.seq /\ q.work = o.work /\ q.dev = o.dev
  BY <1>1, <1>2, <1>3
<1>5. ASSUME NEW o \in log
      PROVE  \E q \in log' : q.seq = o.seq /\ q.work = o.work /\ q.dev = o.dev
  <2>1. CASE o \in group
    BY <1>1, <1>3, <2>1
  <2>2. CASE o \notin group
    BY <1>1, <2>2
  <2>. QED
    BY <2>1, <2>2
<1>6. UNCHANGED <<graphVars, floor, nextSeq, horizon, measured, now, clientVars, historyVars>>
  BY Zenon
<1>61. SeqsUnique'
  <2>2. ASSUME NEW q \in stamped
        PROVE  \E o \in group : q = [o EXCEPT !.pending = FALSE] /\ q.seq = o.seq
    BY <1>3
  <2>. HIDE DEF group, stamped
  <2>3. ASSUME NEW q \in stamped, NEW r \in stamped, q.seq = r.seq
        PROVE  q = r
    BY <1>2, <2>2, <2>3 DEF ServerInv, SeqsUnique
  <2>4. ASSUME NEW q \in stamped, NEW r \in log \ group
        PROVE  q.seq # r.seq
    BY <1>2, <2>2 DEF ServerInv, SeqsUnique
  <2>. QED
    BY <1>1, <2>3, <2>4 DEF ServerInv, SeqsUnique
<1>. HIDE DEF AppendInferredSession, group, stamped
<1>7. TypeOK'
  BY <1>4, <1>6 DEF ServerInv, TypeOK, graphVars, clientVars, historyVars
<1>8. Seqs(log') = Seqs(log)
  BY <1>4, <1>5 DEF Seqs
<1>9. ServerInv'
  <2>1. OpsHaveWorks'
    BY <1>4, <1>6 DEF ServerInv, OpsHaveWorks, graphVars
  <2>2. ForgottenUnderFloor'
    BY <1>4, <1>6 DEF ServerInv, ForgottenUnderFloor, historyVars
  <2>3. HorizonCovers'
    BY <1>6 DEF ServerInv, HorizonCovers, historyVars
  <2>4. \A s \in (Seqs(log) \cup compacted \cup hidden)' : s < nextSeq'
    BY <1>6, <1>8 DEF ServerInv, historyVars
  <2>5. horizon' < nextSeq'
    BY <1>6 DEF ServerInv
  <2>. QED
    BY <1>61, <1>7, <2>1, <2>2, <2>3, <2>4, <2>5 DEF ServerInv
<1>10. ServerEffect
  <2>1. nextSeq <= nextSeq' /\ horizon <= horizon' /\ splits <= splits'
    BY <1>6, SMT DEF ServerInv, TypeOK, historyVars
  <2>2. Seqs(log') = Seqs(log) /\ compacted' = compacted
    BY <1>6, <1>8 DEF historyVars
  <2>3. \A o \in HeadOps' : \E p \in HeadOps : p.seq = o.seq
    BY <1>4, <1>5 DEF HeadOps, IsHead
  <2>. QED
    BY <1>6, <2>1, <2>2, <2>3 DEF ServerEffect, clientVars
<1>. QED
  BY <1>9, <1>10

(* Forgetting hides only what the new floor covers.                        *)
LEMMA ForgetFurthestStep ==
  ASSUME ServerInv, NEW w \in Works, NEW upto \in 1..MaxSeq, ForgetFurthest(w, upto)
  PROVE  ServerInv' /\ ServerEffect
<1>. DEFINE own == {o \in log : o.work = w}
            target == IF upto <= Newest(own) THEN upto ELSE Newest(own)
<1>1. /\ target > floor[w]
      /\ floor' = [floor EXCEPT ![w] = target]
      /\ hidden' = hidden \cup Seqs({o \in own : o.seq <= target})
      /\ UNCHANGED <<graphVars, logVars, measured, now, clientVars,
                     splits, compacted, gone, accepted>>
  BY Zenon DEF ForgetFurthest
<1>2. /\ log \subseteq Op /\ nextSeq \in Nat \ {0} /\ floor \in [Works -> Nat]
      /\ hidden \subseteq Nat /\ horizon \in Nat /\ splits \in Nat
      /\ upto \in Nat
  BY ConstantsAssumption DEF ServerInv, TypeOK
<1>3. target \in Nat
  <2>1. \A o \in own : o.seq \in Nat /\ o.seq <= nextSeq
    <3>1. \A o \in own : o.seq \in Nat /\ o.seq < nextSeq
      BY <1>2 DEF ServerInv, Seqs, Op
    <3>. QED
      BY <1>2, <3>1, SMT
  <2>2. Newest(own) \in Nat
    BY <1>2, <2>1, NewestIsMax
  <2>. QED
    BY <1>2, <2>2
<1>. HIDE DEF target
<1>4. \A x \in Works : floor'[x] \in Nat /\ floor[x] <= floor'[x]
  BY <1>1, <1>2, <1>3
<1>5. log' = log /\ nextSeq' = nextSeq /\ horizon' = horizon
  BY <1>1 DEF logVars
<1>6. ASSUME NEW s \in hidden'
      PROVE  s \in hidden \/ \E o \in log : o.seq = s /\ o.work = w /\ s <= target
  BY <1>1 DEF Seqs
<1>7. TypeOK'
  <2>1. floor' \in [Works -> Nat]
    BY <1>1, <1>2, <1>3
  <2>2. hidden' \subseteq Nat
    BY <1>2, <1>6 DEF Op
  <2>. QED
    BY <1>1, <2>1, <2>2 DEF ServerInv, TypeOK, graphVars, logVars, clientVars
<1>8. \A s \in (Seqs(log) \cup compacted \cup hidden)' : s < nextSeq'
  BY <1>1, <1>5, <1>6 DEF ServerInv, Seqs
<1>9. ForgottenUnderFloor'
  <2>. SUFFICES ASSUME NEW o \in log, o.seq \in hidden'
                PROVE  o.seq <= floor'[o.work]
    BY <1>5 DEF ForgottenUnderFloor
  <2>0. o.work \in Works /\ o.seq \in Nat
    BY <1>2 DEF Op
  <2>1. CASE o.seq \in hidden
    <3>1. o.seq <= floor[o.work]
      BY <2>1 DEF ServerInv, ForgottenUnderFloor
    <3>. QED
      BY <1>2, <1>4, <2>0, <3>1, SMT
  <2>2. CASE o.work = w /\ o.seq <= target
    BY <1>1, <1>2, <2>2
  <2>. QED
    BY <1>6, <2>1, <2>2 DEF ServerInv, SeqsUnique
<1>10. ServerInv'
  BY <1>1, <1>5, <1>7, <1>8, <1>9
  DEF ServerInv, SeqsUnique, OpsHaveWorks, HorizonCovers, graphVars
<1>11. ServerEffect
  <2>1. nextSeq <= nextSeq' /\ horizon <= horizon' /\ splits <= splits'
    BY <1>1, <1>2, <1>5, SMT
  <2>. QED
    BY <1>1, <1>5, <2>1 DEF ServerEffect, HeadOps, IsHead, Seqs
<1>. QED
  BY <1>10, <1>11

(* Compaction removes no head, and the horizon rises over what it removes. *)
LEMMA CompactStep ==
  ASSUME ServerInv, NEW cut \in 1..MaxTick, Compact(cut)
  PROVE  ServerInv' /\ ServerEffect
<1>. DEFINE doomed == Doomed(cut)
            top == Newest(doomed)
<1>1. /\ doomed # {}
      /\ log' = log \ doomed
      /\ horizon' = IF top > horizon THEN top ELSE horizon
      /\ compacted' = compacted \cup Seqs(doomed)
      /\ UNCHANGED <<graphVars, floor, nextSeq, measured, now, clientVars,
                     splits, gone, hidden, accepted>>
  BY Zenon DEF Compact
<1>2. /\ log \subseteq Op /\ nextSeq \in Nat \ {0} /\ horizon \in Nat /\ splits \in Nat
      /\ compacted \subseteq Nat /\ hidden \subseteq Nat
  BY DEF ServerInv, TypeOK
<1>3. doomed \subseteq log /\ \A o \in doomed : ~IsHead(o)
  BY DEF Doomed
<1>. HIDE DEF doomed
<1>4. \A o \in log : o.seq \in Nat /\ o.seq < nextSeq
  BY <1>2 DEF ServerInv, Seqs, Op
<1>5. top \in Nat /\ top < nextSeq /\ \A o \in doomed : o.seq <= top
  <2>1. nextSeq - 1 \in Nat /\ \A o \in doomed : o.seq \in Nat /\ o.seq <= nextSeq - 1
    BY <1>2, <1>3, <1>4, SMT
  <2>2. top \in Nat /\ top <= nextSeq - 1 /\ \A o \in doomed : o.seq <= top
    BY <2>1, NewestIsMax, Zenon
  <2>. HIDE DEF top
  <2>. QED
    BY <1>2, <2>2, SMT
<1>. HIDE DEF top
<1>6. horizon' \in Nat /\ horizon <= horizon' /\ top <= horizon' /\ horizon' < nextSeq
  BY <1>1, <1>2, <1>5, SMT DEF ServerInv
<1>7. /\ Seqs(log') \subseteq Seqs(log)
      /\ compacted' \subseteq compacted \cup Seqs(log)
      /\ \A s \in compacted' : s \in compacted \/ \E o \in doomed : s = o.seq
  BY <1>1, <1>3 DEF Seqs
<1>8. ServerInv'
  <2>1. TypeOK'
    <3>1. compacted' \subseteq Nat
      BY <1>2, <1>4, <1>7 DEF Seqs
    <3>. QED
      BY <1>1, <1>6, <3>1 DEF ServerInv, TypeOK, graphVars, clientVars
  <2>2. \A s \in (Seqs(log) \cup compacted \cup hidden)' : s < nextSeq'
    BY <1>1, <1>7 DEF ServerInv
  <2>3. HorizonCovers'
    <3>. SUFFICES ASSUME NEW s \in compacted' PROVE s <= horizon'
      BY DEF HorizonCovers
    <3>1. CASE s \in compacted
      <4>1. s \in Nat /\ s <= horizon
        BY <1>2, <3>1 DEF ServerInv, HorizonCovers
      <4>. QED
        BY <1>2, <1>6, <4>1, SMT
    <3>2. ASSUME NEW o \in doomed, s = o.seq PROVE s <= horizon'
      <4>1. s \in Nat /\ s <= top
        BY <1>3, <1>4, <1>5, <3>2
      <4>. QED
        BY <1>5, <1>6, <4>1, SMT
    <3>. QED
      BY <1>7, <3>1, <3>2
  <2>4. SeqsUnique' /\ OpsHaveWorks' /\ ForgottenUnderFloor'
    BY <1>1 DEF ServerInv, SeqsUnique, OpsHaveWorks, ForgottenUnderFloor, graphVars
  <2>5. horizon' < nextSeq'
    BY <1>1, <1>6
  <2>. QED
    BY <2>1, <2>2, <2>3, <2>4, <2>5 DEF ServerInv
<1>9. ServerEffect
  <2>1. nextSeq <= nextSeq' /\ horizon <= horizon' /\ splits <= splits'
    BY <1>1, <1>2, <1>6, SMT
  <2>2. \A o \in HeadOps' : o \in HeadOps
    <3>. SUFFICES ASSUME NEW o \in log', IsHead(o)', NEW p \in log, p.work = o.work,
                         p.dev = o.dev, ~(p.seq <= o.seq)
                  PROVE  FALSE
      BY <1>1 DEF HeadOps, IsHead
    <3>. DEFINE G == {q \in log : q.work = o.work /\ q.dev = o.dev}
    <3>1. PICK q \in G : \A r \in G : r.seq <= q.seq
      <4>1. Newest(G) \in Nat /\ (\A r \in G : r.seq <= Newest(G)) /\ \E q \in G : Newest(G) = q.seq
        <5>1. \A r \in G : r.seq \in Nat /\ r.seq <= nextSeq
          BY <1>2, <1>4, SMT
        <5>2. p \in G
          OBVIOUS
        <5>. HIDE DEF G
        <5>. QED
          BY <1>2, <5>1, <5>2, NewestIsMax
      <4>. QED
        BY <4>1
    <3>2. q \in log /\ IsHead(q)
      BY <3>1 DEF IsHead
    <3>3. q \in log'
      BY <1>1, <1>3, <3>2
    <3>4. q.seq <= o.seq /\ p.seq <= q.seq
      BY <3>1, <3>3 DEF IsHead
    <3>5. q.seq \in Nat /\ p.seq \in Nat /\ o.seq \in Nat
      BY <1>1, <1>4, <3>2
    <3>. QED
      BY <3>4, <3>5, SMT
  <2>. QED
    BY <1>1, <1>7, <2>1, <2>2 DEF ServerEffect
<1>. QED
  BY <1>8, <1>9

(* A deleted work takes only its own ops; heads of the others stay heads.  *)
LEMMA DeleteWorkStep ==
  ASSUME ServerInv, NEW w \in Works, DeleteWork(w)
  PROVE  ServerInv' /\ ServerEffect
<1>. DEFINE lost == {o \in log : o.work = w}
<1>1. /\ works' = works \ {w}
      /\ owner' = [i \in Idents |-> IF owner[i] = w THEN NoWork ELSE owner[i]]
      /\ log' = log \ lost
      /\ gone' = gone \cup Seqs(lost)
      /\ UNCHANGED <<born, floor, nextSeq, horizon, measured, now, clientVars,
                     splits, compacted, hidden, accepted>>
  BY Zenon DEF DeleteWork
<1>2. /\ log \subseteq Op /\ nextSeq \in Nat /\ horizon \in Nat /\ splits \in Nat
      /\ gone \subseteq Nat /\ owner \in [Idents -> Works \cup {NoWork}]
  BY DEF ServerInv, TypeOK
<1>3. TypeOK'
  <2>1. owner' \in [Idents -> Works \cup {NoWork}]
    BY <1>1, <1>2
  <2>2. gone' \subseteq Nat
    BY <1>1, <1>2 DEF Seqs, Op
  <2>. QED
    BY <1>1, <2>1, <2>2 DEF ServerInv, TypeOK, clientVars
<1>4. ServerInv'
  BY <1>1, <1>3 DEF ServerInv, SeqsUnique, OpsHaveWorks, HorizonCovers, ForgottenUnderFloor, Seqs
<1>5. ServerEffect
  <2>1. nextSeq <= nextSeq' /\ horizon <= horizon' /\ splits <= splits'
    BY <1>1, <1>2, SMT
  <2>2. \A o \in HeadOps' : o \in HeadOps
    BY <1>1 DEF HeadOps, IsHead
  <2>3. Seqs(log') \subseteq Seqs(log) /\ compacted' = compacted
    BY <1>1 DEF Seqs
  <2>. QED
    BY <1>1, <2>1, <2>2, <2>3 DEF ServerEffect
<1>. QED
  BY <1>4, <1>5

(* An op moved to another work keeps everything else.                      *)
LEMMA MovedOps ==
  ASSUME NEW o \in Op, NEW w \in Works, NEW moving, NEW into \in Works
  PROVE  /\ Moved(o, w, moving, into) \in Op
         /\ Moved(o, w, moving, into).seq = o.seq
         /\ Moved(o, w, moving, into).dev = o.dev
         /\ Moved(o, w, moving, into).own = o.own
         /\ Moved(o, w, moving, into).work =
              IF o.work = w /\ o.own \in moving THEN into ELSE o.work
  BY DEF Moved, Op

(* Merging keeps the heads heads: two works become one, and its newest op  *)
(* was the newest of one of the two.                                       *)
LEMMA MergeWorksStep ==
  ASSUME ServerInv, NEW from \in Works, NEW into \in Works, MergeWorks(from, into)
  PROVE  ServerInv' /\ ServerEffect
<1>. DEFINE M(o) == Moved(o, from, Owners, into)
<1>1. /\ from \in works /\ into \in works /\ from # into
      /\ works' = works \ {from}
      /\ owner' = [i \in Idents |-> IF owner[i] = from THEN into ELSE owner[i]]
      /\ floor' = [floor EXCEPT ![into] = IF floor[from] > @ THEN floor[from] ELSE @]
      /\ log' = {M(o) : o \in log}
      /\ UNCHANGED <<born, nextSeq, horizon, measured, now, clientVars, historyVars>>
  BY Zenon DEF MergeWorks
<1>2. /\ log \subseteq Op /\ nextSeq \in Nat /\ horizon \in Nat /\ splits \in Nat
      /\ floor \in [Works -> Nat] /\ owner \in [Idents -> Works \cup {NoWork}]
  BY DEF ServerInv, TypeOK
<1>3. \A o \in log : /\ M(o) \in Op /\ M(o).seq = o.seq /\ M(o).dev = o.dev
                     /\ M(o).work = IF o.work = from THEN into ELSE o.work
  <2>1. \A o \in log : o \in Op /\ o.own \in Owners
    BY <1>2 DEF Op
  <2>. QED
    BY <2>1, MovedOps
<1>. HIDE DEF M
<1>4. /\ floor' \in [Works -> Nat]
      /\ floor[from] <= floor'[into]
      /\ \A x \in Works : floor[x] <= floor'[x]
  BY <1>1, <1>2
<1>5. /\ \A q \in log' : \E o \in log : q = M(o)
      /\ \A o \in log : M(o) \in log'
  BY <1>1
<1>6. Seqs(log') = Seqs(log)
  BY <1>3, <1>5 DEF Seqs
<1>7. TypeOK'
  <2>1. owner' \in [Idents -> Works \cup {NoWork}] /\ log' \subseteq Op
    BY <1>1, <1>2, <1>3, <1>5
  <2>. QED
    BY <1>1, <1>4, <2>1 DEF ServerInv, TypeOK, clientVars, historyVars
<1>8. ServerInv'
  <2>1. \A s \in (Seqs(log) \cup compacted \cup hidden)' : s < nextSeq'
    BY <1>1, <1>6 DEF ServerInv, historyVars
  <2>2. SeqsUnique'
    BY <1>3, <1>5 DEF ServerInv, SeqsUnique
  <2>3. OpsHaveWorks'
    BY <1>1, <1>3, <1>5 DEF ServerInv, OpsHaveWorks
  <2>4. HorizonCovers' /\ horizon' < nextSeq'
    BY <1>1 DEF ServerInv, HorizonCovers, historyVars
  <2>5. ForgottenUnderFloor'
    <3>. SUFFICES ASSUME NEW o \in log, o.seq \in hidden PROVE o.seq <= floor'[M(o).work]
      BY <1>1, <1>3, <1>5 DEF ForgottenUnderFloor, historyVars
    <3>1. o.seq <= floor[o.work]
      BY DEF ServerInv, ForgottenUnderFloor
    <3>2. floor[o.work] <= floor'[M(o).work] /\ M(o).work \in Works /\ o.work \in Works
      BY <1>2, <1>3, <1>4 DEF Op
    <3>3. o.seq \in Nat
      BY <1>2 DEF Op
    <3>. QED
      BY <1>2, <1>4, <3>1, <3>2, <3>3, SMT
  <2>. QED
    BY <1>7, <2>1, <2>2, <2>3, <2>4, <2>5 DEF ServerInv
<1>9. ServerEffect
  <2>1. nextSeq <= nextSeq' /\ horizon <= horizon' /\ splits <= splits'
    BY <1>1, <1>2, SMT DEF historyVars
  <2>2. \A o \in log : IsHead(M(o))' => IsHead(o)
    BY <1>3, <1>5 DEF IsHead
  <2>3. \A o \in HeadOps' : \E p \in HeadOps : p.seq = o.seq
    BY <1>3, <1>5, <2>2 DEF HeadOps
  <2>. QED
    BY <1>1, <1>6, <2>1, <2>3 DEF ServerEffect, historyVars
<1>. QED
  BY <1>8, <1>9

(* A split moves ops to a work that had none, under the same floor.        *)
LEMMA SplitWorkStep ==
  ASSUME ServerInv, NEW w \in Works, NEW new \in Works, NEW e \in Editions,
         NEW listed \in SUBSET Aliases, SplitWork(w, e, listed, new)
  PROVE  ServerInv' /\ ServerEffect
<1>. DEFINE M(o) == Moved(o, w, {e} \cup listed, new)
<1>1. /\ w \in works /\ new \in NewWorks
      /\ works' = works \cup {new}
      /\ born' = born \cup {new}
      /\ floor' = [floor EXCEPT ![new] = floor[w]]
      /\ owner' = [i \in Idents |-> IF i \in {e} \cup listed THEN new ELSE owner[i]]
      /\ log' = {M(o) : o \in log}
      /\ splits' = splits + 1
      /\ UNCHANGED <<nextSeq, horizon, measured, now, clientVars,
                     compacted, gone, hidden, accepted>>
  BY Zenon DEF SplitWork
<1>2. /\ log \subseteq Op /\ nextSeq \in Nat /\ horizon \in Nat /\ splits \in Nat
      /\ floor \in [Works -> Nat] /\ owner \in [Idents -> Works \cup {NoWork}]
  BY DEF ServerInv, TypeOK
<1>3. \A o \in log : /\ M(o) \in Op /\ M(o).seq = o.seq /\ M(o).dev = o.dev
                     /\ M(o).work \in {o.work, new} /\ (M(o).work = new => o.work \in {w, new})
  BY <1>2, MovedOps
<1>. HIDE DEF M
<1>4. /\ \A q \in log' : \E o \in log : q = M(o)
      /\ \A o \in log : M(o) \in log'
  BY <1>1
<1>5. new \notin works /\ \A o \in log : o.work # new
  BY <1>1, NewWorksAreNew DEF ServerInv, TypeOK, OpsHaveWorks
<1>6. Seqs(log') = Seqs(log)
  BY <1>3, <1>4 DEF Seqs
<1>7. TypeOK'
  <2>1. /\ owner' \in [Idents -> Works \cup {NoWork}] /\ log' \subseteq Op
        /\ floor' \in [Works -> Nat] /\ splits' \in Nat
    BY <1>1, <1>2, <1>3, <1>4
  <2>. QED
    BY <1>1, <2>1 DEF ServerInv, TypeOK, clientVars
<1>8. ServerInv'
  <2>1. \A s \in (Seqs(log) \cup compacted \cup hidden)' : s < nextSeq'
    BY <1>1, <1>6 DEF ServerInv
  <2>2. SeqsUnique'
    BY <1>3, <1>4 DEF ServerInv, SeqsUnique
  <2>3. OpsHaveWorks'
    BY <1>1, <1>3, <1>4 DEF ServerInv, OpsHaveWorks
  <2>4. HorizonCovers' /\ horizon' < nextSeq'
    BY <1>1 DEF ServerInv, HorizonCovers
  <2>5. ForgottenUnderFloor'
    <3>. SUFFICES ASSUME NEW o \in log, o.seq \in hidden PROVE o.seq <= floor'[M(o).work]
      BY <1>1, <1>3, <1>4 DEF ForgottenUnderFloor
    <3>1. o.seq <= floor[o.work]
      BY DEF ServerInv, ForgottenUnderFloor
    <3>2. floor'[M(o).work] = floor[o.work]
      BY <1>1, <1>2, <1>3, <1>5 DEF Op
    <3>. QED
      BY <3>1, <3>2
  <2>. QED
    BY <1>7, <2>1, <2>2, <2>3, <2>4, <2>5 DEF ServerInv
<1>9. ServerEffect
  <2>1. nextSeq <= nextSeq' /\ horizon <= horizon' /\ splits <= splits' /\ splits' # splits
    BY <1>1, <1>2, SMT
  <2>. QED
    BY <1>1, <1>6, <2>1 DEF ServerEffect
<1>. QED
  BY <1>8, <1>9

(* Every step of the server keeps its own invariant and does to the        *)
(* clients' view only what ServerEffect says.                              *)
LEMMA ServerStep ==
  ASSUME ServerInv, ServerNext
  PROVE  ServerInv' /\ ServerEffect
  BY AppendOpsStep, AppendKosyncOpStep, EnableKosyncStatisticsStep, AppendInferredSessionStep,
     ForgetFurthestStep, CompactStep, TickStep, ResolveStep, SplitWorkStep, MergeWorksStep,
     DeleteWorkStep DEF ServerNext

-----------------------------------------------------------------------------
(* The clients' half of the invariant.                                     *)

RepliesBelowCounter ==
  \A c \in Clients : /\ cursor[c] < nextSeq
                     /\ inbox[c] # NoReply => inbox[c].next < nextSeq

ClientInv ==
  /\ RepliesBelowCounter
  /\ NoSilentGap /\ PagesComplete /\ HeadsKnown /\ RepliesHoldHeads /\ SplitsSeen

(* The invariant is its half about the server and its half about clients.  *)
LEMMA InvHalves == IInv <=> ServerInv /\ ClientInv
  BY DEF IInv, ServerInv, ClientInv, BelowCounter, RepliesBelowCounter

(* What TypeOK says of one client's variables.                             *)
LEMMA ClientTypes ==
  ASSUME TypeOK, NEW c \in Clients
  PROVE  /\ nextSeq \in Nat /\ splits \in Nat /\ horizon \in Nat
         /\ cursor[c] \in Nat /\ base[c] \in Nat /\ asOf[c] \in Nat
         /\ inbox[c] # NoReply => inbox[c] \in Reply /\ inbox[c].next \in Nat /\ inbox[c].splits \in Nat
  BY DEF TypeOK, Reply

(* What a server step may do to the log cannot put a client in the wrong.  *)
LEMMA ServerKeepsClientInv ==
  ASSUME ServerInv, ClientInv, ServerInv', ServerEffect
  PROVE  ClientInv'
<1>1. /\ cursor' = cursor /\ known' = known /\ resync' = resync /\ inbox' = inbox
      /\ base' = base /\ asOf' = asOf
  BY DEF ServerEffect, clientVars
<1>2. /\ nextSeq \in Nat /\ nextSeq' \in Nat /\ nextSeq <= nextSeq'
      /\ splits \in Nat /\ splits' \in Nat /\ splits <= splits'
  BY DEF ServerEffect, ServerInv, TypeOK
<1>3. \A s \in Seqs(log') \cup compacted' :
        s \in Nat /\ (s \in Seqs(log) \cup compacted \/ nextSeq <= s)
  BY DEF ServerEffect, ServerInv, TypeOK, Seqs, Op
<1>4. \A o \in HeadOps' : o.seq \in Nat
  BY DEF ServerInv, TypeOK, HeadOps, Op
<1>5. ASSUME splits' = splits, NEW o \in HeadOps'
      PROVE  nextSeq <= o.seq \/ \E p \in HeadOps : p.seq = o.seq
  BY <1>5 DEF ServerEffect
<1>6. ASSUME NEW c \in Clients
      PROVE  /\ cursor[c] \in Nat /\ cursor[c] < nextSeq
             /\ asOf[c] \in Nat /\ asOf[c] <= splits
             /\ inbox[c] # NoReply =>
                  /\ inbox[c].next \in Nat /\ inbox[c].next < nextSeq
                  /\ inbox[c].splits \in Nat /\ inbox[c].splits <= splits
  BY ClientTypes DEF ServerInv, ClientInv, RepliesBelowCounter, SplitsSeen
<1>7. RepliesBelowCounter'
  BY <1>1, <1>2, <1>6, SMT DEF RepliesBelowCounter
<1>8. SplitsSeen'
  BY <1>1, <1>2, <1>6, SMT DEF SplitsSeen
<1>9. NoSilentGap'
  <2>. SUFFICES ASSUME NEW c \in Clients, NEW s \in Seqs(log') \cup compacted',
                       base[c] < s, s <= cursor[c]
                PROVE  s \in known[c]
    BY <1>1 DEF NoSilentGap
  <2>1. s \in Seqs(log) \cup compacted
    BY <1>2, <1>3, <1>6, SMT
  <2>. QED
    BY <2>1 DEF ClientInv, NoSilentGap
<1>10. PagesComplete'
  <2>. SUFFICES ASSUME NEW c \in Clients, inbox[c] # NoReply, inbox[c].kind = "page",
                       NEW s \in Seqs(log') \cup compacted',
                       base[c] < s, s <= inbox[c].next
                PROVE  s \in known[c] \cup inbox[c].seqs
    BY <1>1 DEF PagesComplete
  <2>1. s \in Seqs(log) \cup compacted
    BY <1>2, <1>3, <1>6, SMT
  <2>. QED
    BY <2>1 DEF ClientInv, PagesComplete
<1>11. HeadsKnown'
  <2>. SUFFICES ASSUME NEW c \in Clients, NEW o \in HeadOps',
                       asOf[c] = splits', o.seq <= cursor[c]
                PROVE  o.seq \in known[c]
    BY <1>1 DEF HeadsKnown
  <2>1. splits' = splits
    BY <1>2, <1>6, SMT
  <2>2. \E p \in HeadOps : p.seq = o.seq
    <3>1. ~(nextSeq <= o.seq)
      BY <1>2, <1>4, <1>6, SMT
    <3>. QED
      BY <1>5, <2>1, <3>1
  <2>. QED
    BY <2>1, <2>2 DEF ClientInv, HeadsKnown
<1>12. RepliesHoldHeads'
  <2>. SUFFICES ASSUME NEW c \in Clients, inbox[c] # NoReply, NEW o \in HeadOps',
                       o.seq <= inbox[c].next
                PROVE  /\ inbox[c].kind = "page" /\ asOf[c] = splits' => o.seq \in known[c] \cup inbox[c].seqs
                       /\ inbox[c].kind = "heads" /\ inbox[c].splits = splits' => o.seq \in inbox[c].seqs
    BY <1>1 DEF RepliesHoldHeads
  <2>1. asOf[c] = splits' \/ inbox[c].splits = splits' => splits' = splits
    BY <1>2, <1>6, SMT
  <2>2. splits' = splits => \E p \in HeadOps : p.seq = o.seq
    <3>1. ~(nextSeq <= o.seq)
      BY <1>2, <1>4, <1>6, SMT
    <3>. QED
      BY <1>5, <3>1
  <2>. QED
    BY <2>1, <2>2 DEF ClientInv, RepliesHoldHeads
<1>. QED
  BY <1>7, <1>8, <1>9, <1>10, <1>11, <1>12 DEF ClientInv

(* What a reply to GET /v1/changes carries.                                *)
LEMMA ChangesReply ==
  ASSUME ServerInv, NEW since \in Nat, since < nextSeq
  PROVE  /\ Changes(since) \in Reply /\ Changes(since).next < nextSeq
         /\ Changes(since).splits = splits /\ Changes(since).kind # "heads"
         /\ Changes(since).kind = "page" =>
              /\ ~(since < horizon)
              /\ \A o \in log : since < o.seq /\ o.seq <= Changes(since).next
                                => o.seq \in Changes(since).seqs
<1>. DEFINE later == {o \in log : o.seq > since}
            page == Lowest(later, PageLimit)
            next == IF page = {} THEN HighWater ELSE Newest(page)
<1>1. /\ log \subseteq Op /\ nextSeq \in Nat \ {0} /\ splits \in Nat /\ PageLimit \in Nat \ {0}
  BY ConstantsAssumption DEF ServerInv, TypeOK
<1>2. \A o \in log : o.seq \in Nat /\ o.seq < nextSeq
  BY <1>1 DEF ServerInv, Seqs, Op
<1>3. /\ page \subseteq later /\ later \subseteq log
      /\ \A o \in page, p \in later : p.seq <= o.seq => p \in page
      /\ page = {} => later = {}
  <2>1. \A o \in later : o.seq \in Nat
    BY <1>2
  <2>. HIDE DEF later
  <2>2. /\ page \subseteq later
        /\ \A o \in page, p \in later : p.seq <= o.seq => p \in page
        /\ page = {} => later = {}
    BY <1>1, <2>1, LowestIsPrefix, Zenon
  <2>. QED
    BY <2>2 DEF later
<1>. HIDE DEF page
<1>4. nextSeq - 1 \in Nat /\ \A o \in log : o.seq \in Nat /\ o.seq <= nextSeq - 1
  BY <1>1, <1>2, SMT
<1>5. HighWater \in Nat /\ HighWater <= nextSeq - 1
  BY <1>4, NewestIsMax, Zenon DEF HighWater
<1>6. \A o \in page : o.seq \in Nat /\ o.seq <= nextSeq - 1
  BY <1>3, <1>4
<1>7. /\ Newest(page) \in Nat /\ Newest(page) <= nextSeq - 1
      /\ page # {} => \E o \in page : Newest(page) = o.seq
  BY <1>4, <1>6, NewestIsMax, Zenon
<1>8. next \in Nat /\ next < nextSeq
  BY <1>1, <1>5, <1>7, SMT
<1>9. \A o \in log : since < o.seq /\ o.seq <= next => o \in page
  BY <1>2, <1>3, <1>7
<1>10. Seqs(page) \in SUBSET Nat /\ \A o \in page : o.seq \in Seqs(page)
  BY <1>6 DEF Seqs
<1>. HIDE DEF next
<1>11. Changes(since) =
         IF since < horizon
         THEN [kind |-> "resync", seqs |-> {}, next |-> since, splits |-> splits]
         ELSE [kind |-> "page", seqs |-> Seqs(page), splits |-> splits, next |-> next]
  BY Zenon DEF Changes, page, next
<1>12. CASE since < horizon
  BY <1>1, <1>11, <1>12 DEF Reply
<1>13. CASE ~(since < horizon)
  <2>1. Changes(since) = [kind |-> "page", seqs |-> Seqs(page), splits |-> splits, next |-> next]
    BY <1>11, <1>13
  <2>. QED
    BY <1>1, <1>8, <1>9, <1>10, <1>13, <2>1 DEF Reply
<1>. QED
  BY <1>12, <1>13

(* What a reply to GET /v1/heads carries.                                  *)
LEMMA HeadsReply ==
  ASSUME ServerInv
  PROVE  /\ HeadsFor \in Reply /\ HeadsFor.next < nextSeq
         /\ HeadsFor.splits = splits /\ HeadsFor.kind = "heads"
         /\ \A o \in HeadOps : o.seq \in HeadsFor.seqs
<1>1. /\ log \subseteq Op /\ nextSeq \in Nat \ {0} /\ splits \in Nat
  BY DEF ServerInv, TypeOK
<1>2. \A o \in log : o.seq \in Nat /\ o.seq < nextSeq
  BY <1>1 DEF ServerInv, Seqs, Op
<1>3. nextSeq - 1 \in Nat /\ \A o \in log : o.seq \in Nat /\ o.seq <= nextSeq - 1
  BY <1>1, <1>2, SMT
<1>4. HighWater \in Nat /\ HighWater <= nextSeq - 1
  BY <1>3, NewestIsMax, Zenon DEF HighWater
<1>5. HighWater < nextSeq
  BY <1>1, <1>4, SMT
<1>6. Seqs(HeadOps \cup FurthestOps) \in SUBSET Nat
  BY <1>2 DEF Seqs, HeadOps, FurthestOps
<1>7. \A o \in HeadOps : o.seq \in Seqs(HeadOps \cup FurthestOps)
  BY DEF Seqs
<1>. QED
  BY <1>1, <1>4, <1>5, <1>6, <1>7 DEF HeadsFor, Reply

(* A step of a client that leaves the server alone.                        *)
LEMMA ServerUntouched ==
  ASSUME ServerInv, TypeOK',
         UNCHANGED <<graphVars, floor, logVars, measured, now, historyVars>>
  PROVE  /\ ServerInv'
         /\ HeadOps' = HeadOps /\ Seqs(log') = Seqs(log)
         /\ compacted' = compacted /\ splits' = splits /\ nextSeq' = nextSeq
<1>1. /\ log' = log /\ nextSeq' = nextSeq /\ horizon' = horizon /\ works' = works
      /\ born' = born /\ compacted' = compacted /\ splits' = splits /\ hidden' = hidden
      /\ floor' = floor
  BY DEF graphVars, logVars, historyVars
<1>. QED
  BY <1>1 DEF ServerInv, SeqsUnique, OpsHaveWorks, HorizonCovers, ForgottenUnderFloor,
              HeadOps, IsHead, Seqs

(* A request: the server reads a snapshot at or beyond the cursor.         *)
LEMMA RequestStep ==
  ASSUME ServerInv, ClientInv, NEW c \in Clients, Request(c)
  PROVE  ServerInv' /\ ClientInv'
<1>. DEFINE R == IF resync[c] THEN HeadsFor ELSE Changes(cursor[c])
<1>1. /\ inbox' = [inbox EXCEPT ![c] = R]
      /\ UNCHANGED <<graphVars, floor, logVars, measured, now, historyVars,
                     cursor, known, resync, base, asOf>>
  BY Zenon DEF Request
<1>2. cursor[c] \in Nat /\ cursor[c] < nextSeq
  BY ClientTypes DEF ServerInv, ClientInv, RepliesBelowCounter
<1>3. /\ R \in Reply /\ R.next < nextSeq /\ R.splits = splits
      /\ R.kind = "page" => /\ ~(cursor[c] < horizon)
                            /\ \A o \in log : cursor[c] < o.seq /\ o.seq <= R.next => o.seq \in R.seqs
      /\ R.kind = "heads" => \A o \in HeadOps : o.seq \in R.seqs
  BY <1>2, ChangesReply, HeadsReply
<1>. HIDE DEF R
<1>4. inbox \in [Clients -> Reply \cup {NoReply}]
  BY DEF ServerInv, TypeOK
<1>5. /\ inbox' \in [Clients -> Reply \cup {NoReply}]
      /\ inbox'[c] = R /\ \A x \in Clients : x # c => inbox'[x] = inbox[x]
  BY <1>1, <1>3, <1>4
<1>6. TypeOK'
  BY <1>1, <1>5 DEF ServerInv, TypeOK, graphVars, logVars, historyVars
<1>7. /\ ServerInv' /\ HeadOps' = HeadOps /\ Seqs(log') = Seqs(log)
      /\ compacted' = compacted /\ splits' = splits /\ nextSeq' = nextSeq
  BY <1>1, <1>6, ServerUntouched
<1>8. RepliesBelowCounter'
  BY <1>1, <1>3, <1>5, <1>7 DEF ClientInv, RepliesBelowCounter
<1>9. NoSilentGap' /\ HeadsKnown'
  BY <1>1, <1>7 DEF ClientInv, NoSilentGap, HeadsKnown
<1>10. SplitsSeen'
  <2>1. R.splits <= splits
    BY <1>3, SMT DEF ServerInv, TypeOK
  <2>. QED
    BY <1>1, <1>5, <1>7, <2>1 DEF ClientInv, SplitsSeen
<1>11. log \subseteq Op /\ horizon \in Nat /\ compacted \subseteq Nat /\ R.next \in Nat
  BY <1>3 DEF ServerInv, TypeOK, Reply
<1>12. PagesComplete'
  <2>1. ASSUME R.kind = "page", NEW s \in Seqs(log) \cup compacted, base[c] < s, s <= R.next
        PROVE  s \in known[c] \cup R.seqs
    <3>0. s \in Nat
      BY <1>11 DEF Seqs, Op
    <3>1. CASE s <= cursor[c]
      BY <2>1, <3>1 DEF ClientInv, NoSilentGap
    <3>2. CASE cursor[c] < s
      <4>1. s \notin compacted
        <5>1. s \in compacted => s <= horizon
          BY DEF ServerInv, HorizonCovers
        <5>. QED
          BY <1>2, <1>3, <1>11, <2>1, <3>0, <3>2, <5>1, SMT
      <4>2. PICK o \in log : o.seq = s
        BY <2>1, <4>1 DEF Seqs
      <4>. QED
        BY <1>3, <2>1, <3>2, <4>2
    <3>. QED
      BY <1>2, <3>0, <3>1, <3>2, SMT
  <2>. QED
    BY <1>1, <1>5, <1>7, <2>1 DEF ClientInv, PagesComplete
<1>13. RepliesHoldHeads'
  <2>1. ASSUME R.kind = "page", asOf[c] = splits, NEW o \in HeadOps, o.seq <= R.next
        PROVE  o.seq \in known[c] \cup R.seqs
    <3>0. o \in log /\ o.seq \in Nat
      BY <1>11 DEF HeadOps, Op
    <3>1. CASE o.seq <= cursor[c]
      BY <2>1, <3>1 DEF ClientInv, HeadsKnown
    <3>2. CASE cursor[c] < o.seq
      BY <1>3, <2>1, <3>0, <3>2
    <3>. QED
      BY <1>2, <3>0, <3>1, <3>2, SMT
  <2>. QED
    BY <1>1, <1>3, <1>5, <1>7, <2>1 DEF ClientInv, RepliesHoldHeads
<1>. QED
  BY <1>7, <1>8, <1>9, <1>10, <1>12, <1>13 DEF ClientInv

(* A page is applied: what it promised becomes what the client knows.      *)
LEMMA ReceivePageStep ==
  ASSUME ServerInv, ClientInv, NEW c \in Clients, ReceivePage(c)
  PROVE  ServerInv' /\ ClientInv'
<1>. USE DEF ReceivePage
<1>1. /\ inbox[c] \in Reply /\ inbox[c].next \in Nat /\ inbox[c].next < nextSeq
      /\ inbox[c].seqs \subseteq Nat
  BY ClientTypes DEF ServerInv, ClientInv, RepliesBelowCounter, Reply
<1>2. TypeOK'
  BY <1>1 DEF ServerInv, TypeOK, graphVars, logVars, historyVars
<1>3. /\ ServerInv' /\ HeadOps' = HeadOps /\ Seqs(log') = Seqs(log)
      /\ compacted' = compacted /\ splits' = splits /\ nextSeq' = nextSeq
  BY <1>2, ServerUntouched
<1>4. /\ cursor'[c] = inbox[c].next /\ known'[c] = known[c] \cup inbox[c].seqs
      /\ inbox'[c] = NoReply
      /\ \A x \in Clients : x # c => cursor'[x] = cursor[x] /\ known'[x] = known[x] /\ inbox'[x] = inbox[x]
  BY DEF ServerInv, TypeOK
<1>5. RepliesBelowCounter'
  BY <1>1, <1>3, <1>4 DEF ClientInv, RepliesBelowCounter
<1>6. NoSilentGap'
  BY <1>3, <1>4 DEF ClientInv, NoSilentGap, PagesComplete
<1>7. HeadsKnown'
  BY <1>3, <1>4 DEF ClientInv, HeadsKnown, RepliesHoldHeads
<1>8. PagesComplete' /\ RepliesHoldHeads' /\ SplitsSeen'
  BY <1>3, <1>4 DEF ClientInv, PagesComplete, RepliesHoldHeads, SplitsSeen
<1>. QED
  BY <1>3, <1>5, <1>6, <1>7, <1>8 DEF ClientInv

(* A rebuild is applied: the client starts over at the snapshot.           *)
LEMMA ReceiveHeadsStep ==
  ASSUME ServerInv, ClientInv, NEW c \in Clients, ReceiveHeads(c)
  PROVE  ServerInv' /\ ClientInv'
<1>. USE DEF ReceiveHeads
<1>1. /\ inbox[c] \in Reply /\ inbox[c].next \in Nat /\ inbox[c].next < nextSeq
      /\ inbox[c].seqs \subseteq Nat /\ inbox[c].splits \in Nat
  BY ClientTypes DEF ServerInv, ClientInv, RepliesBelowCounter, Reply
<1>2. TypeOK'
  BY <1>1 DEF ServerInv, TypeOK, graphVars, logVars, historyVars
<1>3. /\ ServerInv' /\ HeadOps' = HeadOps /\ Seqs(log') = Seqs(log)
      /\ compacted' = compacted /\ splits' = splits /\ nextSeq' = nextSeq
  BY <1>2, ServerUntouched
<1>4. /\ cursor'[c] = inbox[c].next /\ known'[c] = inbox[c].seqs /\ base'[c] = inbox[c].next
      /\ asOf'[c] = inbox[c].splits /\ inbox'[c] = NoReply
      /\ \A x \in Clients : x # c => /\ cursor'[x] = cursor[x] /\ known'[x] = known[x]
                                    /\ inbox'[x] = inbox[x] /\ base'[x] = base[x] /\ asOf'[x] = asOf[x]
  BY DEF ServerInv, TypeOK
<1>5. RepliesBelowCounter'
  BY <1>1, <1>3, <1>4 DEF ClientInv, RepliesBelowCounter
<1>6. NoSilentGap'
  <2>1. \A s \in Seqs(log) \cup compacted : ~(base'[c] < s /\ s <= cursor'[c])
    <3>1. \A s \in Seqs(log) \cup compacted : s \in Nat
      BY DEF ServerInv, TypeOK, Seqs, Op
    <3>. QED
      BY <1>1, <1>4, <3>1, SMT
  <2>. QED
    BY <1>3, <1>4, <2>1 DEF ClientInv, NoSilentGap
<1>7. HeadsKnown'
  BY <1>3, <1>4 DEF ClientInv, HeadsKnown, RepliesHoldHeads
<1>8. PagesComplete' /\ RepliesHoldHeads' /\ SplitsSeen'
  BY <1>3, <1>4 DEF ClientInv, PagesComplete, RepliesHoldHeads, SplitsSeen
<1>. QED
  BY <1>3, <1>5, <1>6, <1>7, <1>8 DEF ClientInv

(* A refusal, or a reply that is lost, empties the inbox and no more.      *)
LEMMA EmptyInboxStep ==
  ASSUME ServerInv, ClientInv, NEW c \in Clients, ReceiveResync(c) \/ LoseReply(c)
  PROVE  ServerInv' /\ ClientInv'
<1>. USE DEF ReceiveResync, LoseReply
<1>1. /\ UNCHANGED <<graphVars, floor, logVars, measured, now, historyVars,
                     cursor, known, base, asOf>>
      /\ inbox' = [inbox EXCEPT ![c] = NoReply]
  OBVIOUS
<1>2. resync' \in [Clients -> BOOLEAN]
  BY DEF ServerInv, TypeOK
<1>3. TypeOK'
  BY <1>1, <1>2 DEF ServerInv, TypeOK, graphVars, logVars, historyVars
<1>4. /\ ServerInv' /\ HeadOps' = HeadOps /\ Seqs(log') = Seqs(log)
      /\ compacted' = compacted /\ splits' = splits /\ nextSeq' = nextSeq
  BY <1>1, <1>3, ServerUntouched
<1>5. inbox'[c] = NoReply /\ \A x \in Clients : x # c => inbox'[x] = inbox[x]
  BY <1>1 DEF ServerInv, TypeOK
<1>. QED
  BY <1>1, <1>4, <1>5
  DEF ClientInv, RepliesBelowCounter, NoSilentGap, HeadsKnown, PagesComplete,
      RepliesHoldHeads, SplitsSeen

-----------------------------------------------------------------------------
(* The invariant holds.                                                    *)

LEMMA InitInv == Init => IInv
<1>. SUFFICES ASSUME Init PROVE IInv
  OBVIOUS
<1>. USE DEF Init
<1>1. TypeOK
  BY ConstantsAssumption DEF TypeOK, Never
<1>2. Seqs(log) = {} /\ HeadOps = {}
  BY DEF Seqs, HeadOps
<1>. QED
  BY <1>1, <1>2 DEF IInv, BelowCounter, SeqsUnique, OpsHaveWorks, HorizonCovers,
    ForgottenUnderFloor, NoSilentGap, PagesComplete, HeadsKnown, RepliesHoldHeads, SplitsSeen

(* Every step keeps the inductive invariant.                               *)
LEMMA NextInv == IInv /\ [Next]_vars => IInv'
<1>. SUFFICES ASSUME ServerInv, ClientInv, [Next]_vars PROVE IInv'
  BY InvHalves
<1>1. CASE ServerNext
  <2>1. ServerInv' /\ ClientInv'
    BY <1>1, ServerStep, ServerKeepsClientInv
  <2>. QED
    BY <2>1, InvHalves, PTL
<1>2. CASE ClientNext
  <2>1. PICK c \in Clients : Request(c) \/ Receive(c) \/ LoseReply(c)
    BY <1>2 DEF ClientNext
  <2>2. ServerInv' /\ ClientInv'
    BY <2>1, RequestStep, ReceivePageStep, ReceiveHeadsStep, EmptyInboxStep DEF Receive
  <2>. QED
    BY <2>2, InvHalves, PTL
<1>3. CASE UNCHANGED vars
  <2>1. IInv
    BY InvHalves
  <2>. QED
    BY <1>3, <2>1 DEF vars, graphVars, logVars, clientVars, historyVars, IInv, TypeOK, BelowCounter,
      SeqsUnique, OpsHaveWorks, HorizonCovers, ForgottenUnderFloor, NoSilentGap, PagesComplete,
      HeadsKnown, RepliesHoldHeads, SplitsSeen, HeadOps, IsHead, Seqs
<1>. QED
  BY <1>1, <1>2, <1>3, NextSplits

(* The inductive invariant: what the server, the replies in flight and the *)
(* clients keep true of each other in every reachable state.               *)
THEOREM Invariant == Spec => []IInv
  BY InitInv, NextInv, PTL DEF Spec

(* Every variable has its type in every reachable state, for every set of  *)
(* works, devices and clients and every bound.                             *)
THEOREM TypeCorrect == Spec => []TypeOK
<1>1. IInv => TypeOK
  BY DEF IInv
<1>. QED
  BY <1>1, Invariant, PTL

(* GET /v1/changes never skips an op silently: a client that was not told  *)
(* to resync holds every op between its last rebuild and its cursor.       *)
THEOREM FeedHasNoSilentGap == Spec => []NoSilentGap
<1>1. IInv => NoSilentGap
  BY DEF IInv
<1>. QED
  BY <1>1, Invariant, PTL

(* A caught-up client knows the newest op of every work and device, unless *)
(* a split since its last rebuild uncovered an older one.                  *)
THEOREM CaughtUpKnowsHeads == Spec => []HeadsKnown
<1>1. IInv => HeadsKnown
  BY DEF IInv
<1>. QED
  BY <1>1, Invariant, PTL

(* A furthest position a reader forgot never comes back, whatever is       *)
(* merged, split, compacted or appended afterwards.                        *)
THEOREM ForgettingIsFinal == Spec => []ForgottenStaysForgotten
<1>1. IInv => ForgottenStaysForgotten
  <2>. SUFFICES ASSUME IInv, NEW o \in log, o.seq > floor[o.work], o.seq \in hidden
                PROVE  FALSE
    BY DEF ForgottenStaysForgotten, FurthestOps, IsFurthest, Seqs
  <2>1. o.seq \in Nat /\ floor[o.work] \in Nat
    BY DEF IInv, TypeOK, Op
  <2>2. o.seq <= floor[o.work]
    BY DEF IInv, ForgottenUnderFloor
  <2>. QED
    BY <2>1, <2>2, SMT
<1>. QED
  BY <1>1, Invariant, PTL

(* An op is numbered beyond every cursor, every reply in flight and the    *)
(* horizon, even after the newest ops were deleted with their work.        *)
THEOREM NumbersNeverReused == Spec => NewOpsBeyondCursors
<1>. DEFINE Beyond ==
       \A s \in Seqs(log') \ Seqs(log) :
         /\ s > horizon
         /\ \A c \in Clients : s > cursor[c] /\ (inbox[c] # NoReply => s > inbox[c].next)
<1>1. IInv /\ IInv' /\ [Next]_vars => Beyond
  <2>. SUFFICES ASSUME ServerInv, ClientInv, TypeOK', [Next]_vars, NEW s \in Seqs(log') \ Seqs(log)
                PROVE  /\ s > horizon
                       /\ \A c \in Clients : s > cursor[c] /\ (inbox[c] # NoReply => s > inbox[c].next)
    BY InvHalves DEF IInv
  <2>1. CASE ServerNext
    <3>1. nextSeq <= s
      BY <2>1, ServerStep DEF ServerEffect
    <3>2. s \in Nat /\ nextSeq \in Nat /\ horizon \in Nat /\ horizon < nextSeq
      BY DEF TypeOK, ServerInv, Seqs, Op
    <3>3. ASSUME NEW c \in Clients
          PROVE  s > cursor[c] /\ (inbox[c] # NoReply => s > inbox[c].next)
      <4>1. /\ cursor[c] \in Nat /\ cursor[c] < nextSeq
            /\ inbox[c] # NoReply => inbox[c].next \in Nat /\ inbox[c].next < nextSeq
        BY ClientTypes DEF ServerInv, ClientInv, RepliesBelowCounter
      <4>. QED
        BY <3>1, <3>2, <4>1, SMT
    <3>4. s > horizon
      BY <3>1, <3>2, SMT
    <3>. QED
      BY <3>3, <3>4
  <2>2. CASE ClientNext \/ UNCHANGED vars
    <3>1. log' = log
      BY <2>2 DEF ClientNext, vars, logVars, Request, Receive, ReceivePage, ReceiveResync,
                  ReceiveHeads, LoseReply
    <3>. QED
      BY <3>1 DEF Seqs
  <2>. QED
    BY <2>1, <2>2, NextSplits
<1>. QED
  BY <1>1, Invariant, PTL DEF Spec, NewOpsBeyondCursors
=============================================================================
