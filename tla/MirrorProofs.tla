----------------------------- MODULE MirrorProofs -----------------------------
(***************************************************************************)
(* Proofs about Mirror, for any number of peers, readings and failures.    *)
(*                                                                         *)
(* ReturnsAreBounded is an account.  A threat is a row of a peer, or an    *)
(* answer a worker is about to settle, that would append a reading the log *)
(* has already.  Duplicates and threats together never exceed the writes   *)
(* that were not recorded (Accounted): a push is no threat while its       *)
(* worker will remember its mark, and becomes one where that is lost.      *)
(*                                                                         *)
(* NothingWithheld needs what a worker carries in its memory (CoveredHere) *)
(* and, for a mirror whose address was changed, that a newest position     *)
(* taken from the old library leaves the new one fresh (Untouched).        *)
(***************************************************************************)
EXTENDS Mirror, FiniteSetTheorems, SequenceTheorems, TLAPS

Cfis == {None} \cup {place.cfi : place \in HerePlaces \cup TherePlaces}
Foreigns == {None, StartOfBook} \cup {place.foreign : place \in HerePlaces \cup TherePlaces}
Marks == {None} \cup ({"cfi"} \X Cfis) \cup ({"pos"} \X Foreigns) \cup ({"pct"} \X Nat)

Ops == [id : Nat \ {0}, at : Int, frac : Nat, cfi : Cfis, foreign : Foreigns, dev : Peers \cup {Here}]
Answers == [id : Nat, at : Int, frac : Nat, cfi : Cfis, foreign : Foreigns, ours : BOOLEAN]
Held == {r \in Answers : r.id # 0}
Cursors == [pushed : Nat, ts : Int, mark : Marks, library : Nat]

Asking == [stage : {"asking"}, cur : Cursors, fresh : BOOLEAN]
Answered == [stage : {"answered", "taking"}, cur : Cursors, fresh : BOOLEAN,
             ans : Answers \cup {NoRow}, echo : BOOLEAN]
Pushing == [stage : {"pushing", "arrived"}, cur : Cursors, ans : Answers \cup {NoRow},
            op : Ops, seq : Nat \ {0}]
Ended == [stage : {"done"}, cur : Cursors]

Typed ==
  /\ log \in Seq(Ops)
  /\ row \in [Peers -> Held \cup {NoRow}]
  /\ resets \subseteq Peers \ CfiPeers
  /\ library \in [Peers -> Nat]
  /\ cursor \in [Peers -> Cursors]
  /\ worker \in [Peers -> {Idle} \cup Asking \cup Answered \cup Pushing \cup Ended]
  /\ late \in [Peers -> Ops \cup {NoWrite}]
  /\ now \in Nat /\ reads \in Nat /\ unsure \in Nat
  /\ given \in [Peers -> SUBSET Held]

Busy(p) == worker[p] # Idle
Told(p) == worker[p].stage \in {"answered", "taking"}
Sending(p) == worker[p].stage \in {"pushing", "arrived"}

(* Nothing is of the future, and every reading has its number.             *)
Bounded ==
  /\ \A i \in DOMAIN log : log[i].at <= now /\ log[i].id <= reads
  /\ \A p \in Peers : /\ row[p].id <= reads /\ (row[p].id # 0 => row[p].at <= now)
                      /\ Told(p) => /\ worker[p].ans.id <= reads
                                    /\ worker[p].ans # NoRow => worker[p].ans.at <= now

(* What is sent or travels on is a position of the log.                    *)
Sent ==
  \A p \in Peers :
    /\ Sending(p) => /\ worker[p].seq \in DOMAIN log /\ worker[p].op = log[worker[p].seq]
    /\ late[p] # NoWrite => \E i \in DOMAIN log : late[p] = log[i]

(* A worker is about the library its address leads to, no cursor is about  *)
(* a library that is yet to come, and no watermark beyond the log.         *)
Addressed ==
  \A p \in Peers :
    /\ cursor[p].library <= library[p] /\ cursor[p].pushed <= Len(log)
    /\ Busy(p) => /\ log # <<>>
                  /\ worker[p].cur.library = library[p] /\ worker[p].cur.pushed <= Len(log)
    /\ worker[p].stage \in {"asking", "answered"} => worker[p].fresh = Fresh(worker[p].cur)

-----------------------------------------------------------------------------
(* NewestPeerWins.                                                         *)
OneTakes ==
  \A p \in Peers : worker[p].stage = "taking" =>
    /\ worker[p].ans # NoRow /\ ~worker[p].echo /\ worker[p].ans.id # 0
    /\ log # <<>> /\ (Newest.dev = Here \/ worker[p].ans.at > Newest.at)
    /\ \A q \in Peers : worker[q].stage = "taking" => q = p

-----------------------------------------------------------------------------
(* ReturnsAreBounded.                                                      *)
Bare(p, r) == [id |-> 0, frac |-> r.frac, cfi |-> r.cfi, foreign |-> r.foreign, at |-> r.at, dev |-> p]
InLog(x) == \E i \in DOMAIN log : [log[i] EXCEPT !.id = 0] = x
Again(p, r) == r.id \in Readings /\ ~InLog(Bare(p, r))

(* The mark a worker compares with, or will once its push has succeeded.   *)
Sends(p) == IF p \in CfiPeers THEN worker[p].op ELSE [worker[p].op EXCEPT !.cfi = None]
MarkNow(p) ==
  IF worker[p] = Idle THEN CursorFor(p).mark
  ELSE IF worker[p].stage = "arrived" THEN Mark(Sends(p)) ELSE worker[p].cur.mark

Known(p, r) == (p \notin CfiPeers /\ r.ours) \/ MarkNow(p) = Mark(r)
RowThreatens(p) == p \notin resets /\ row[p] # NoRow /\ Again(p, row[p]) /\ ~Known(p, row[p])
AnswerThreatens(p) ==
  Told(p) /\ worker[p].ans # NoRow /\ ~worker[p].echo /\ Again(p, worker[p].ans)

Threats ==
  {Bare(p, row[p]) : p \in {q \in Peers : RowThreatens(q)}}
    \cup {Bare(p, worker[p].ans) : p \in {q \in Peers : AnswerThreatens(q)}}

Accounted == Len(log) + Cardinality(Threats) <= unsure + Cardinality(Readings)

(* A reading that is not in the log is with one peer, and says one thing.  *)
Alike(p, r, q, s) == r.id = s.id => p = q /\ Bare(p, r) = Bare(q, s)
Carried(p) == {r \in {row[p]} \cup (IF Told(p) THEN {worker[p].ans} ELSE {}) : r.id # 0}
OneOrigin ==
  \A p, q \in Peers : \A r \in Carried(p), s \in Carried(q) :
    r.id \in Readings \/ Alike(p, r, q, s)

(* A worker's mark is the one it loaded, or spent, until a push succeeds.  *)
MarkKept ==
  \A p \in Peers :
    Busy(p) /\ worker[p].stage # "done" => worker[p].cur.mark \in {None, CursorFor(p).mark}

(* A reset that is answered is recognised.                                 *)
ResetsTold == \A p \in Peers : Told(p) /\ worker[p].ans # NoRow /\ worker[p].ans.id = 0 =>
                                  IsReset(p, worker[p].ans)

-----------------------------------------------------------------------------
(* NothingWithheld.                                                        *)
Covered(p) == p \in resets \/ \E r \in given[p] : Covers(p, r)

RowsAreGiven ==
  \A p \in Peers :
    /\ row[p] # NoRow => row[p] \in given[p]
    /\ Told(p) /\ worker[p].ans.id # 0 => worker[p].ans \in given[p]
    /\ worker[p].stage = "arrived" => \E r \in given[p] : r.id = worker[p].op.id

CoveredHere ==
  \A p \in Peers : Busy(p) /\ log # <<>> /\ worker[p].cur.pushed = Len(log) => Covered(p)

(* What crossed with a library, as its worker knows or would load it.      *)
CursorNow(p) == IF worker[p] = Idle THEN CursorFor(p) ELSE worker[p].cur

(* The newest position came from this peer's name and yet its library has  *)
(* nothing that covers it: then it is another library since, with which    *)
(* nothing has crossed.                                                    *)
Untouched(p) ==
  /\ given[p] = {} /\ Fresh(CursorNow(p)) /\ Fresh(CursorFor(p))
  /\ Told(p) \/ Sending(p) => worker[p].ans = NoRow
  /\ Sending(p) => worker[p].op.id = Newest.id
  /\ late[p] # NoWrite => late[p].id = Newest.id

FromElsewhere == \A p \in Peers : log # <<>> /\ Newest.dev = p => Covered(p) \/ Untouched(p)

IInv ==
  /\ Typed /\ Bounded /\ Sent /\ Addressed /\ OneTakes
  /\ Accounted /\ OneOrigin /\ MarkKept /\ ResetsTold
  /\ RowsAreGiven /\ CoveredHere /\ FromElsewhere /\ NothingWithheld

-----------------------------------------------------------------------------
(* Finite sets, and the two sides of the account.                          *)

(* A set the elements of a finite set are mapped to is finite.             *)
LEMMA ImageIsFinite ==
  ASSUME NEW S, IsFiniteSet(S), NEW f
  PROVE  IsFiniteSet({f[x] : x \in S}) /\ Cardinality({f[x] : x \in S}) <= Cardinality(S)
<1>. DEFINE g == [x \in S |-> f[x]]
<1>1. g \in Surjection(S, {f[x] : x \in S})
  BY DEF Surjection
<1>. QED
  BY <1>1, FS_Surjection

LEMMA SidesAreFinite ==
  ASSUME MirrorAssumption, Typed
  PROVE  /\ IsFiniteSet(Readings) /\ Cardinality(Readings) \in Nat
         /\ IsFiniteSet(Threats) /\ Cardinality(Threats) \in Nat
         /\ Len(log) \in Nat /\ unsure \in Nat
<1>. DEFINE ids == [i \in DOMAIN log |-> log[i].id]
            R == {q \in Peers : RowThreatens(q)}
            A == {q \in Peers : AnswerThreatens(q)}
            rowOf == [p \in R |-> Bare(p, row[p])]
            ansOf == [p \in A |-> Bare(p, worker[p].ans)]
<1>1. log \in Seq(Ops) /\ Len(log) \in Nat /\ DOMAIN log = 1 .. Len(log) /\ unsure \in Nat
  BY DEF Typed
<1>2. IsFiniteSet(DOMAIN log)
  BY <1>1, FS_Interval
<1>3. Readings = {ids[i] : i \in DOMAIN log}
  BY DEF Readings
<1>4. IsFiniteSet(Readings)
  BY <1>2, <1>3, ImageIsFinite
<1>5. IsFiniteSet(R) /\ IsFiniteSet(A)
  BY FS_Subset DEF MirrorAssumption
<1>6. Threats = {rowOf[p] : p \in R} \cup {ansOf[p] : p \in A}
  BY DEF Threats
<1>. HIDE DEF R, A, rowOf, ansOf
<1>7. IsFiniteSet({rowOf[p] : p \in R}) /\ IsFiniteSet({ansOf[p] : p \in A})
  BY <1>5, ImageIsFinite
<1>8. IsFiniteSet(Threats)
  BY <1>6, <1>7, FS_Union
<1>. QED
  BY <1>1, <1>4, <1>8, FS_CardinalityType

(* The log stays, and each new threat is paid for.                         *)
LEMMA AccountStep ==
  ASSUME MirrorAssumption, Typed, Typed', Accounted, log' = log,
         NEW E, IsFiniteSet(E), Cardinality(E) + unsure <= unsure',
         \A p \in Peers : RowThreatens(p)' => Bare(p, row'[p]) \in Threats \cup E,
         \A p \in Peers : AnswerThreatens(p)' => Bare(p, worker'[p].ans) \in Threats \cup E
  PROVE  Accounted'
<1>1. Threats' \subseteq Threats \cup E
  BY DEF Threats, Bare
<1>2. IsFiniteSet(Threats) /\ Cardinality(Threats) \in Nat /\ Cardinality(Readings) \in Nat
  BY SidesAreFinite
<1>3. IsFiniteSet(Threats \cup E) /\ Cardinality(Threats \cup E) <= Cardinality(Threats) + Cardinality(E)
  <2>1. /\ IsFiniteSet(Threats \cup E)
        /\ Cardinality(Threats \cup E) = Cardinality(Threats) + Cardinality(E) - Cardinality(Threats \cap E)
    BY <1>2, FS_Union
  <2>2. Cardinality(Threats \cap E) \in Nat /\ Cardinality(E) \in Nat
    BY <1>2, FS_Intersection, FS_CardinalityType
  <2>. QED
    BY <1>2, <2>1, <2>2
<1>4. Cardinality(Threats') <= Cardinality(Threats \cup E)
  BY <1>1, <1>3, FS_Subset
<1>5. Readings' = Readings
  BY DEF Readings
<1>6. /\ Cardinality(E) \in Nat /\ Cardinality(Threats') \in Nat /\ Cardinality(Threats \cup E) \in Nat
      /\ Len(log) \in Nat /\ unsure \in Nat /\ unsure' \in Nat
  BY <1>1, <1>3, FS_Subset, FS_CardinalityType DEF Typed
<1>7. Len(log) + Cardinality(Threats) <= unsure + Cardinality(Readings)
  BY DEF Accounted
<1>8. Len(log) + Cardinality(Threats') <= unsure' + Cardinality(Readings)
  BY <1>2, <1>3, <1>4, <1>6, <1>7
<1>. QED
  BY <1>5, <1>8 DEF Accounted

(* What a threat is.                                                       *)
LEMMA ThreatsAre ==
  ASSUME NEW p \in Peers
  PROVE  /\ RowThreatens(p) => Bare(p, row[p]) \in Threats
         /\ AnswerThreatens(p) => Bare(p, worker[p].ans) \in Threats
  BY DEF Threats

(* Readings stay in the log, and what is carried grows no longer.          *)
LEMMA OriginStep ==
  ASSUME OneOrigin, Readings \subseteq Readings', \A q \in Peers : Carried(q)' \subseteq Carried(q)
  PROVE  OneOrigin'
<1>1. SUFFICES ASSUME NEW a \in Peers, NEW b \in Peers, NEW r \in Carried(a)', NEW s \in Carried(b)'
               PROVE  r.id \in Readings' \/ Alike(a, r, b, s)
  BY DEF OneOrigin, Alike, Bare
<1>2. r \in Carried(a) /\ s \in Carried(b)
  OBVIOUS
<1>. QED
  BY <1>2 DEF OneOrigin

(* The shapes of a worker.                                                 *)
LEMMA WorkerShapes ==
  ASSUME Typed, NEW p \in Peers
  PROVE  /\ worker[p].stage = "asking" => worker[p] \in Asking
         /\ Told(p) => worker[p] \in Answered
         /\ Sending(p) => worker[p] \in Pushing
         /\ worker[p].stage = "done" => worker[p] \in Ended
         /\ Busy(p) <=> worker[p].stage # "idle"
         /\ Busy(p) => worker[p].cur \in Cursors
         /\ Busy(p) <=> worker[p].stage \in {"asking", "answered", "taking", "pushing", "arrived", "done"}
  BY DEF Typed, Told, Sending, Busy, Idle, Asking, Answered, Pushing, Ended

-----------------------------------------------------------------------------
(* A step of one worker on its own memory.                                 *)
Answering(w) == w.stage \in {"answered", "taking"}

CursorFits(p, w) ==
  /\ log # <<>> /\ w.cur.library = library[p] /\ w.cur.pushed <= Len(log)
  /\ w.stage \in {"asking", "answered"} => w.fresh = Fresh(w.cur)
  /\ w.stage # "done" => w.cur.mark \in {None, CursorFor(p).mark}

CoverFits(p, w) ==
  /\ log # <<>> /\ w.cur.pushed = Len(log) => Covered(p)
  /\ log # <<>> /\ Newest.dev = p /\ ~Covered(p) =>
       /\ given[p] = {} /\ Fresh(w.cur) /\ Fresh(CursorFor(p))
       /\ late[p] # NoWrite => late[p].id = Newest.id
       /\ Answering(w) \/ w.stage = "pushing" => w.ans = NoRow
       /\ w.stage = "pushing" => w.op.id = Newest.id

AnswerFits(p, w) ==
  Answering(w) =>
    /\ w.ans.id <= reads /\ (w.ans # NoRow => w.ans.at <= now)
    /\ w.ans.id # 0 => w.ans \in given[p] /\ w.ans \in Carried(p)
    /\ w.ans # NoRow /\ w.ans.id = 0 => IsReset(p, w.ans)
    /\ w.ans # NoRow /\ ~w.echo /\ Again(p, w.ans) => Bare(p, w.ans) \in Threats

TakingFits(p, w) ==
  w.stage = "taking" =>
    /\ w.ans # NoRow /\ ~w.echo /\ w.ans.id # 0
    /\ log # <<>> /\ (Newest.dev = Here \/ w.ans.at > Newest.at)
    /\ \A q \in Peers : worker[q].stage # "taking"

MarkFits(p, w) ==
  /\ p \notin resets /\ row[p] # NoRow /\ Again(p, row[p])
  /\ ~(p \notin CfiPeers /\ row[p].ours) /\ w.cur.mark # Mark(row[p])
  => Bare(p, row[p]) \in Threats

Fits(p, w) ==
  /\ CursorFits(p, w) /\ CoverFits(p, w) /\ AnswerFits(p, w) /\ TakingFits(p, w) /\ MarkFits(p, w)
  /\ w.stage = "pushing" => w.seq \in DOMAIN log /\ w.op = log[w.seq]

Workers == Asking \cup Answered \cup Pushing \cup Ended

LEMMA MemoryStep ==
  ASSUME MirrorAssumption, IInv, NEW p \in Peers, NEW w \in Workers, w.stage # "arrived",
         worker' = [worker EXCEPT ![p] = w],
         UNCHANGED <<serverVars, peerVars, late, clockVars, unsure>>,
         Fits(p, w)
  PROVE  IInv'
<1>1. /\ log' = log /\ cursor' = cursor /\ row' = row /\ resets' = resets /\ library' = library
      /\ given' = given /\ late' = late /\ now' = now /\ reads' = reads /\ unsure' = unsure
  BY DEF serverVars, peerVars, clockVars
<1>2. Typed /\ worker \in [Peers -> {Idle} \cup Workers]
  BY DEF IInv, Typed, Workers
<1>3. \A q \in Peers : worker'[q] = IF q = p THEN w ELSE worker[q]
  BY <1>2
<1>4. /\ w # Idle
      /\ w.stage \in {"asking", "answered", "taking", "pushing", "done"}
      /\ w.stage = "asking" => w \in Asking
      /\ Answering(w) => w \in Answered
      /\ w.stage = "pushing" => w \in Pushing
  BY DEF Workers, Asking, Answered, Pushing, Ended, Idle, Answering
<1>5. Typed'
  BY <1>1, <1>2 DEF Typed, Workers
<1>6. Bounded'
  BY <1>1, <1>3 DEF IInv, Bounded, Told, Fits, AnswerFits, Answering
<1>7. Sent'
  BY <1>1, <1>3, <1>4 DEF IInv, Sent, Sending, Fits
<1>8. Addressed'
  BY <1>1, <1>3, <1>4 DEF IInv, Addressed, Busy, Fits, CursorFits, Fresh
<1>9. OneTakes'
  BY <1>1, <1>3, <1>4 DEF IInv, OneTakes, Fits, TakingFits, Newest
<1>10. \A q \in Peers : q # p => (RowThreatens(q)' <=> RowThreatens(q)) /\ (AnswerThreatens(q)' <=> AnswerThreatens(q))
  BY <1>1, <1>3 DEF RowThreatens, AnswerThreatens, Again, InLog, Bare, Readings, Known, MarkNow,
                    CursorFor, NoCursor, Sends, Mark, Told
<1>11. RowThreatens(p)' => Bare(p, row[p]) \in Threats
  <2>1. ASSUME RowThreatens(p)'
        PROVE  /\ p \notin resets /\ row[p] # NoRow /\ Again(p, row[p])
               /\ ~(p \notin CfiPeers /\ row[p].ours) /\ MarkNow(p)' # Mark(row[p])
    BY <1>1, <2>1 DEF RowThreatens, Again, InLog, Bare, Readings, Known, Mark
  <2>2. MarkNow(p)' = w.cur.mark
    BY <1>3, <1>4 DEF MarkNow
  <2>. QED
    BY <2>1, <2>2 DEF Fits, MarkFits
<1>12. AnswerThreatens(p)' => Bare(p, w.ans) \in Threats
  <2>1. ASSUME AnswerThreatens(p)'
        PROVE  Answering(w) /\ w.ans # NoRow /\ ~w.echo /\ Again(p, w.ans)
    BY <1>1, <1>3, <2>1 DEF AnswerThreatens, Again, InLog, Bare, Readings, Told, Answering
  <2>. QED
    BY <2>1 DEF Fits, AnswerFits
<1>13. Accounted'
  <2>1. \A q \in Peers : RowThreatens(q)' => Bare(q, row'[q]) \in Threats \cup {}
    BY <1>1, <1>10, <1>11, ThreatsAre
  <2>2. \A q \in Peers : AnswerThreatens(q)' => Bare(q, worker'[q].ans) \in Threats \cup {}
    BY <1>3, <1>10, <1>12, ThreatsAre
  <2>3. IsFiniteSet({}) /\ Cardinality({}) + unsure <= unsure'
    BY <1>1, <1>2, FS_EmptySet DEF Typed
  <2>. QED
    BY <1>1, <1>2, <1>5, <2>1, <2>2, <2>3, AccountStep DEF IInv
<1>14. OneOrigin'
  <2>1. \A q \in Peers : Carried(q)' \subseteq Carried(q)
    BY <1>1, <1>3 DEF Carried, Told, Fits, AnswerFits, Answering
  <2>2. Readings' = Readings /\ OneOrigin
    BY <1>1 DEF IInv, Readings
  <2>. QED
    BY <2>1, <2>2, OriginStep
<1>15. MarkKept'
  BY <1>1, <1>3, <1>4 DEF IInv, MarkKept, Busy, CursorFor, NoCursor, Fits, CursorFits
<1>16. ResetsTold'
  BY <1>1, <1>3 DEF IInv, ResetsTold, Told, IsReset, Fits, AnswerFits, Answering
<1>17. RowsAreGiven'
  BY <1>1, <1>3, <1>4 DEF IInv, RowsAreGiven, Told, Fits, AnswerFits, Answering
<1>18. \A q \in Peers : Covered(q)' <=> Covered(q)
  BY <1>1 DEF Covered, Covers, Newest, ComparePlaces
<1>19. CoveredHere'
  BY <1>1, <1>3, <1>4, <1>18 DEF IInv, CoveredHere, Busy, Fits, CoverFits
<1>20. FromElsewhere'
  <2>1. SUFFICES ASSUME NEW q \in Peers, log # <<>>, Newest.dev = q, ~Covered(q)
                 PROVE  Untouched(q)'
    BY <1>1, <1>18 DEF FromElsewhere, Newest
  <2>2. CASE q # p
    <3>1. Untouched(q)
      BY <2>1 DEF IInv, FromElsewhere
    <3>. QED
      BY <1>1, <1>3, <2>2, <3>1 DEF Untouched, CursorNow, CursorFor, NoCursor, Fresh, Told, Sending, Newest
  <2>3. CASE q = p
    <3>1. /\ given[p] = {} /\ Fresh(w.cur) /\ Fresh(CursorFor(p)) /\ (late[p] # NoWrite => late[p].id = Newest.id)
          /\ Answering(w) \/ w.stage = "pushing" => w.ans = NoRow
          /\ w.stage = "pushing" => w.op.id = Newest.id
      BY <2>1, <2>3 DEF Fits, CoverFits
    <3>. QED
      BY <1>1, <1>3, <1>4, <2>3, <3>1
      DEF Untouched, CursorNow, CursorFor, NoCursor, Fresh, Told, Sending, Newest, Answering
  <2>. QED
    BY <2>2, <2>3
<1>21. NothingWithheld'
  <2>1. NothingWithheld <=> \A q \in Peers : log # <<>> /\ cursor[q].library = library[q]
                                 /\ cursor[q].pushed = Len(log) => Covered(q)
    BY DEF NothingWithheld, Covered
  <2>2. NothingWithheld' <=> \A q \in Peers : log' # <<>> /\ cursor'[q].library = library'[q]
                                 /\ cursor'[q].pushed = Len(log') => Covered(q)'
    BY DEF NothingWithheld, Covered
  <2>. QED
    BY <1>1, <1>18, <2>1, <2>2 DEF IInv
<1>. QED
  BY <1>5, <1>6, <1>7, <1>8, <1>9, <1>13, <1>14, <1>15, <1>16, <1>17, <1>19, <1>20, <1>21 DEF IInv

(* What the invariant says of the memory of a worker at work.              *)
LEMMA MemoryFits ==
  ASSUME IInv, NEW p \in Peers, Busy(p), worker[p].stage # "arrived"
  PROVE  /\ worker[p].cur \in Cursors /\ worker[p] \in Workers /\ log # <<>>
         /\ worker[p].cur.library = library[p] /\ worker[p].cur.pushed <= Len(log)
         /\ worker[p].stage # "done" => worker[p].cur.mark \in {None, CursorFor(p).mark}
         /\ log # <<>> /\ worker[p].cur.pushed = Len(log) => Covered(p)
         /\ log # <<>> /\ Newest.dev = p /\ ~Covered(p) =>
              /\ given[p] = {} /\ Fresh(worker[p].cur) /\ Fresh(CursorFor(p))
              /\ (late[p] # NoWrite => late[p].id = Newest.id)
              /\ Told(p) \/ Sending(p) => worker[p].ans = NoRow
              /\ Sending(p) => worker[p].op.id = Newest.id
         /\ MarkFits(p, worker[p])
<1>1. Typed
  BY DEF IInv
<1>2. worker[p].cur \in Cursors /\ worker[p] \in Workers /\ worker[p] # Idle
  BY <1>1, WorkerShapes DEF Workers, Typed, Busy
<1>3. MarkFits(p, worker[p])
  <2>1. SUFFICES ASSUME p \notin resets, row[p] # NoRow, Again(p, row[p]),
                        ~(p \notin CfiPeers /\ row[p].ours), worker[p].cur.mark # Mark(row[p])
                 PROVE  RowThreatens(p)
    BY ThreatsAre DEF MarkFits
  <2>. QED
    BY <1>2, <2>1 DEF RowThreatens, Known, MarkNow
<1>4. log # <<>> /\ Newest.dev = p /\ ~Covered(p) => Untouched(p)
  BY DEF IInv, FromElsewhere
<1>. QED
  BY <1>2, <1>3, <1>4 DEF IInv, Addressed, MarkKept, CoveredHere, Untouched, CursorNow, Busy

LEMMA BeginPreserves ==
  ASSUME MirrorAssumption, IInv, NEW p \in Peers, Begin(p)
  PROVE  IInv'
<1>. DEFINE c == CursorFor(p)
            w == [stage |-> "asking", cur |-> c, fresh |-> Fresh(c)]
<1>1. Typed /\ worker[p] = Idle /\ log # <<>> /\ Len(log) \in Nat \ {0}
  <2>1. Typed /\ worker[p] = Idle /\ log # <<>>
    BY DEF IInv, Begin
  <2>. QED
    BY <2>1 DEF Typed
<1>2. c \in Cursors /\ c.library = library[p]
  <2>1. cursor[p] \in Cursors /\ library[p] \in Nat
    BY <1>1 DEF Typed
  <2>2. NoCursor(p) \in Cursors
    BY <2>1 DEF NoCursor, Cursors, Marks
  <2>. QED
    BY <2>1, <2>2 DEF CursorFor, NoCursor
<1>3. w \in Workers /\ w.stage = "asking" /\ w.cur = c /\ w.fresh = Fresh(c)
  BY <1>2 DEF Workers, Asking, Fresh
<1>4. CursorFits(p, w)
  BY <1>1, <1>2, <1>3 DEF IInv, Addressed, CursorFits, CursorFor, NoCursor
<1>5. log # <<>> /\ c.pushed = Len(log) => Covered(p)
  <2>1. c.pushed = Len(log) => cursor[p].library = library[p] /\ cursor[p].pushed = Len(log)
    BY <1>1 DEF CursorFor, NoCursor
  <2>. QED
    BY <1>1, <2>1 DEF IInv, NothingWithheld, Covered
<1>6. log # <<>> /\ Newest.dev = p /\ ~Covered(p) =>
        given[p] = {} /\ Fresh(c) /\ Fresh(CursorFor(p)) /\ (late[p] # NoWrite => late[p].id = Newest.id)
  BY <1>1 DEF IInv, FromElsewhere, Untouched, CursorNow
<1>7. CoverFits(p, w)
  BY <1>3, <1>5, <1>6 DEF CoverFits, Answering
<1>8. MarkFits(p, w)
  <2>1. SUFFICES ASSUME p \notin resets, row[p] # NoRow, Again(p, row[p]),
                        ~(p \notin CfiPeers /\ row[p].ours), c.mark # Mark(row[p])
                 PROVE  RowThreatens(p)
    BY <1>3, ThreatsAre DEF MarkFits
  <2>. QED
    BY <1>1, <2>1 DEF RowThreatens, Known, MarkNow
<1>9. Fits(p, w)
  BY <1>3, <1>4, <1>7, <1>8 DEF Fits, AnswerFits, TakingFits, Answering
<1>10. worker' = [worker EXCEPT ![p] = w] /\ UNCHANGED <<serverVars, peerVars, late, clockVars, unsure>>
  BY DEF Begin
<1>. HIDE DEF w, c
<1>. QED
  BY <1>3, <1>9, <1>10, MemoryStep

LEMMA PullPreserves ==
  ASSUME MirrorAssumption, IInv, NEW p \in Peers, Pull(p)
  PROVE  IInv'
<1>. DEFINE r == Shown(p)
            cur == worker[p].cur
            echo == r # NoRow /\ IsEcho(p, r, cur)
            kept == IF r = NoRow \/ echo THEN cur ELSE [cur EXCEPT !.mark = None]
            w == [stage |-> "answered", fresh |-> worker[p].fresh, ans |-> r, echo |-> echo, cur |-> kept]
<1>1. /\ Typed /\ worker[p].stage = "asking" /\ worker[p] \in Asking /\ Busy(p)
      /\ ~Told(p) /\ ~Sending(p)
  BY WorkerShapes DEF IInv, Pull, Told, Sending
<1>2. /\ cur \in Cursors /\ log # <<>> /\ cur.library = library[p] /\ cur.pushed <= Len(log)
      /\ cur.mark \in {None, CursorFor(p).mark} /\ worker[p].fresh = Fresh(cur)
      /\ log # <<>> /\ cur.pushed = Len(log) => Covered(p)
      /\ log # <<>> /\ Newest.dev = p /\ ~Covered(p) =>
           given[p] = {} /\ Fresh(cur) /\ Fresh(CursorFor(p)) /\ (late[p] # NoWrite => late[p].id = Newest.id)
      /\ MarkFits(p, worker[p])
  BY <1>1, MemoryFits DEF IInv, Addressed
<1>3. /\ kept \in Cursors /\ kept.library = cur.library /\ kept.pushed = cur.pushed /\ kept.ts = cur.ts
      /\ kept.mark \in {None, CursorFor(p).mark}
      /\ (r = NoRow \/ echo) => kept = cur
  BY <1>2 DEF Cursors, Marks
<1>4. r \in Answers \cup {NoRow}
  <2>1. row[p] \in Held \cup {NoRow} /\ now \in Int
    BY <1>1 DEF Typed
  <2>2. p \in resets => r \in Answers
    BY <2>1 DEF Shown, Answers, Cfis, Foreigns
  <2>. QED
    BY <2>1, <2>2 DEF Shown, Held
<1>5. worker[p].fresh \in BOOLEAN
  BY <1>1 DEF Asking
<1>6. /\ w \in Workers /\ w.stage = "answered" /\ w.cur = kept /\ w.ans = r /\ w.echo = echo
      /\ w.fresh = worker[p].fresh
  BY <1>3, <1>4, <1>5 DEF Workers, Answered
<1>. HIDE DEF kept
<1>7. CursorFits(p, w)
  BY <1>2, <1>3, <1>6 DEF CursorFits, Fresh
<1>8. CoverFits(p, w)
  <2>1. log # <<>> /\ Newest.dev = p /\ ~Covered(p) => given[p] = {} /\ p \notin resets
    BY <1>2 DEF Covered
  <2>2. given[p] = {} /\ p \notin resets => r = NoRow
    BY DEF IInv, RowsAreGiven, Shown
  <2>. QED
    BY <1>2, <1>3, <1>6, <2>1, <2>2 DEF CoverFits, Fresh
<1>9. MarkFits(p, w)
  <2>1. SUFFICES ASSUME p \notin resets, row[p] # NoRow, Again(p, row[p]),
                        ~(p \notin CfiPeers /\ row[p].ours), kept.mark # Mark(row[p])
                 PROVE  Bare(p, row[p]) \in Threats
    BY <1>6 DEF MarkFits
  <2>2. r = row[p] /\ cur.mark # Mark(row[p])
    BY <1>3, <2>1 DEF Shown, IsEcho
  <2>. QED
    BY <1>2, <2>1, <2>2 DEF MarkFits
<1>10. AnswerFits(p, w)
  <2>1. CASE p \in resets
    <3>1. /\ r.id = 0 /\ r.frac = 0 /\ r.foreign = StartOfBook /\ r.at = now /\ p \notin CfiPeers
      BY <1>1, <2>1 DEF Shown, Typed
    <3>2. ~Again(p, r) /\ reads \in Nat /\ now \in Nat
      <4>1. \A i \in DOMAIN log : log[i].id \in Nat \ {0}
        <5>1. \A i \in DOMAIN log : log[i] \in Ops
          BY <1>1 DEF Typed
        <5>. QED
          BY <5>1 DEF Ops
      <4>. QED
        BY <1>1, <3>1, <4>1 DEF Again, Readings, Typed
    <3>. QED
      BY <1>6, <3>1, <3>2 DEF AnswerFits, IsReset
  <2>2. CASE p \notin resets
    <3>1. r = row[p] /\ r \in Held \cup {NoRow}
      BY <1>1, <2>2 DEF Shown, Typed
    <3>2. r # NoRow => r.id # 0 /\ r.at <= now /\ r \in given[p]
      BY <3>1 DEF IInv, Bounded, RowsAreGiven, Held
    <3>3. r.id <= reads /\ (r.id # 0 => r \in Carried(p) /\ r # NoRow)
      BY <3>1 DEF IInv, Bounded, Carried, NoRow
    <3>4. r # NoRow /\ ~echo /\ Again(p, r) => Bare(p, r) \in Threats
      BY <1>2, <2>2, <3>1 DEF MarkFits, IsEcho
    <3>. QED
      BY <1>6, <3>2, <3>3, <3>4 DEF AnswerFits
  <2>. QED
    BY <2>1, <2>2
<1>11. Fits(p, w)
  BY <1>6, <1>7, <1>8, <1>9, <1>10 DEF Fits, TakingFits
<1>12. worker' = [worker EXCEPT ![p] = w] /\ UNCHANGED <<serverVars, peerVars, late, clockVars, unsure>>
  BY DEF Pull, kept
<1>. HIDE DEF w
<1>. QED
  BY <1>6, <1>11, <1>12, MemoryStep

(* A worker that ends its pass with the cursor it had, but for the         *)
(* watermarks.                                                             *)
LEMMA EndPreserves ==
  ASSUME MirrorAssumption, IInv, NEW p \in Peers, Busy(p), worker[p].stage # "arrived", NEW c \in Cursors,
         c.library = worker[p].cur.library, c.mark = worker[p].cur.mark, c.pushed <= Len(log),
         log # <<>> /\ c.pushed = Len(log) => Covered(p),
         log # <<>> /\ Newest.dev = p /\ ~Covered(p) => Fresh(c),
         worker' = [worker EXCEPT ![p] = Finished(c)],
         UNCHANGED <<serverVars, peerVars, late, clockVars, unsure>>
  PROVE  IInv'
<1>. DEFINE w == Finished(c)
<1>1. w \in Workers /\ w.stage = "done" /\ w.cur = c
  BY DEF Finished, Workers, Ended
<1>2. Fits(p, w)
  <2>1. CursorFits(p, w)
    BY <1>1, MemoryFits DEF CursorFits
  <2>2. CoverFits(p, w)
    BY <1>1, MemoryFits DEF CoverFits, Answering
  <2>3. MarkFits(p, w)
    BY <1>1, MemoryFits DEF MarkFits
  <2>. QED
    BY <1>1, <2>1, <2>2, <2>3 DEF Fits, AnswerFits, TakingFits, Answering
<1>3. worker' = [worker EXCEPT ![p] = w]
  OBVIOUS
<1>. HIDE DEF w
<1>. QED
  BY <1>1, <1>2, <1>3, MemoryStep

LEMMA PullFailsPreserves ==
  ASSUME MirrorAssumption, IInv, NEW p \in Peers, PullFails(p)
  PROVE  IInv'
<1>1. Typed /\ worker[p].stage = "asking"
  BY DEF IInv, PullFails
<1>2. Busy(p)
  BY <1>1, WorkerShapes
<1>. QED
  BY <1>1, <1>2, MemoryFits, EndPreserves DEF PullFails

LEMMA PushNotHeldPreserves ==
  ASSUME MirrorAssumption, IInv, NEW p \in Peers, PushNotHeld(p)
  PROVE  IInv'
<1>. DEFINE c == [worker[p].cur EXCEPT !.ts = ToldTime(p)]
<1>1. Typed /\ worker[p].stage = "pushing"
  BY DEF IInv, PushNotHeld
<1>2. Busy(p) /\ Sending(p) /\ worker[p].ans \in Answers \cup {NoRow}
  BY <1>1, WorkerShapes DEF Pushing, Sending
<1>3. worker[p].cur \in Cursors
  BY <1>1, <1>2, WorkerShapes
<1>4. /\ c \in Cursors /\ c.library = worker[p].cur.library /\ c.mark = worker[p].cur.mark
      /\ c.pushed = worker[p].cur.pushed /\ (worker[p].ans = NoRow => c = worker[p].cur)
  BY <1>2, <1>3 DEF Cursors, Answers, ToldTime
<1>5. log # <<>> /\ Newest.dev = p /\ ~Covered(p) => Fresh(c)
  <2>1. log # <<>> /\ Newest.dev = p /\ ~Covered(p) => Fresh(worker[p].cur) /\ worker[p].ans = NoRow
    BY <1>1, <1>2, MemoryFits
  <2>2. worker[p].ans = NoRow /\ Fresh(worker[p].cur) => Fresh(c)
    BY <1>4 DEF Fresh
  <2>. HIDE DEF c
  <2>. QED
    BY <2>1, <2>2
<1>6. /\ worker' = [worker EXCEPT ![p] = Finished(c)]
      /\ UNCHANGED <<serverVars, peerVars, late, clockVars, unsure>>
  BY DEF PushNotHeld
<1>. HIDE DEF c
<1>7. c.pushed <= Len(log) /\ (log # <<>> /\ c.pushed = Len(log) => Covered(p))
  BY <1>1, <1>2, <1>4, MemoryFits
<1>. QED
  BY <1>1, <1>2, <1>4, <1>5, <1>6, <1>7, EndPreserves

(* What goes out is the newest position, and the worker keeps its cursor.  *)
LEMMA SettleOwingPreserves ==
  ASSUME MirrorAssumption, IInv, NEW p \in Peers, SettleOwing(p)
  PROVE  IInv'
<1>. DEFINE w == [stage |-> "pushing", cur |-> worker[p].cur, ans |-> worker[p].ans,
                  op |-> Newest, seq |-> Len(log)]
<1>1. /\ Typed /\ worker[p].stage = "answered"
      /\ Len(log) > worker[p].cur.pushed
  BY DEF IInv, SettleOwing, Owes, HaveNews
<1>2. /\ Busy(p) /\ Told(p) /\ ~Sending(p) /\ worker[p] \in Answered
      /\ worker[p].cur \in Cursors /\ worker[p].cur.pushed \in Nat
  BY <1>1, WorkerShapes DEF Told, Sending, Cursors
<1>3. log # <<>> /\ Len(log) \in Nat \ {0} /\ Len(log) \in DOMAIN log /\ Newest \in Ops
  BY <1>1, <1>2 DEF Typed, Newest
<1>4. /\ w \in Workers /\ w.stage = "pushing" /\ w.cur = worker[p].cur /\ w.ans = worker[p].ans
      /\ w.op = Newest /\ w.seq = Len(log)
  BY <1>2, <1>3 DEF Workers, Pushing, Answered
<1>5. Fits(p, w)
  <2>1. CursorFits(p, w)
    BY <1>1, <1>2, <1>4, MemoryFits DEF CursorFits
  <2>2. CoverFits(p, w)
    BY <1>1, <1>2, <1>4, MemoryFits DEF CoverFits, Answering
  <2>3. MarkFits(p, w)
    BY <1>1, <1>2, <1>4, MemoryFits DEF MarkFits
  <2>. QED
    BY <1>3, <1>4, <2>1, <2>2, <2>3 DEF Fits, AnswerFits, TakingFits, Answering, Newest
<1>6. worker' = [worker EXCEPT ![p] = w] /\ UNCHANGED <<serverVars, peerVars, late, clockVars, unsure>>
  BY DEF SettleOwing
<1>. HIDE DEF w
<1>. QED
  BY <1>4, <1>5, <1>6, MemoryStep

(* The lock lets one worker take, and only what is newer.                  *)
LEMMA SettleTakingPreserves ==
  ASSUME MirrorAssumption, IInv, NEW p \in Peers, SettleTaking(p)
  PROVE  IInv'
<1>. DEFINE w == [worker[p] EXCEPT !.stage = "taking"]
<1>1. /\ Typed /\ worker[p].stage = "answered" /\ LockFree /\ Standing(p) = "newer"
  BY DEF IInv, SettleTaking, Takes
<1>2. Busy(p) /\ Told(p) /\ ~Sending(p) /\ worker[p] \in Answered
  BY <1>1, WorkerShapes DEF Told, Sending
<1>3. /\ w \in Workers /\ w.stage = "taking" /\ w.cur = worker[p].cur /\ w.ans = worker[p].ans
      /\ w.echo = worker[p].echo
  BY <1>2 DEF Workers, Answered
<1>4. /\ worker[p].ans # NoRow /\ ~IsReset(p, worker[p].ans) /\ ~worker[p].echo
      /\ worker[p].ans.at > Newest.at
  BY <1>1 DEF Standing, StandingBeside
<1>5. worker[p].ans.id # 0
  BY <1>2, <1>4 DEF IInv, ResetsTold
<1>6. Fits(p, w)
  <2>1. CursorFits(p, w)
    BY <1>1, <1>2, <1>3, MemoryFits DEF CursorFits
  <2>2. CoverFits(p, w)
    BY <1>1, <1>2, <1>3, MemoryFits DEF CoverFits, Answering
  <2>3. MarkFits(p, w) /\ log # <<>>
    BY <1>1, <1>2, <1>3, MemoryFits DEF MarkFits
  <2>4. TakingFits(p, w)
    BY <1>1, <1>3, <1>4, <1>5, <2>3 DEF TakingFits, LockFree
  <2>5. AnswerFits(p, w)
    <3>1. Again(p, worker[p].ans) => Bare(p, worker[p].ans) \in Threats
      BY <1>2, <1>4, ThreatsAre DEF AnswerThreatens
    <3>2. worker[p].ans \in given[p] /\ worker[p].ans \in Carried(p)
      BY <1>2, <1>5 DEF IInv, RowsAreGiven, Carried
    <3>3. worker[p].ans.id <= reads /\ worker[p].ans.at <= now
      BY <1>2, <1>4 DEF IInv, Bounded
    <3>. QED
      BY <1>3, <1>5, <3>1, <3>2, <3>3 DEF AnswerFits
  <2>. QED
    BY <1>3, <2>1, <2>2, <2>3, <2>4, <2>5 DEF Fits
<1>7. worker' = [worker EXCEPT ![p] = w] /\ UNCHANGED <<serverVars, peerVars, late, clockVars, unsure>>
  BY DEF SettleTaking
<1>. HIDE DEF w
<1>. QED
  BY <1>3, <1>6, <1>7, MemoryStep

-----------------------------------------------------------------------------
(* What an answer may amount to, and what each standing says of it.        *)
LEMMA StandingMeans ==
  ASSUME NEW p \in Peers, NEW local
  PROVE  LET s == StandingBeside(p, local)
             r == worker[p].ans
             place == ComparePlaces(local, r, p \in CfiPeers)
         IN /\ s \in {"silent", "reset", "echo", "agree", "localFiner", "newer", "tie", "coarser", "older"}
            /\ s = "silent" <=> r = NoRow
            /\ s \in {"agree", "localFiner", "newer", "tie", "coarser", "older"} => ~IsReset(p, r) /\ ~worker[p].echo
            /\ s \in {"agree", "localFiner"} => place = s
            /\ s = "newer" => r.at > local.at
            /\ s = "tie" => r.at = local.at
            /\ s = "coarser" => place = "peerFiner"
<1>. DEFINE r == worker[p].ans
            place == ComparePlaces(local, r, p \in CfiPeers)
<1>. HIDE DEF place
<1>1. CASE r = NoRow
  BY <1>1 DEF StandingBeside
<1>2. CASE r # NoRow /\ IsReset(p, r)
  BY <1>2 DEF StandingBeside
<1>3. CASE r # NoRow /\ ~IsReset(p, r) /\ worker[p].echo
  BY <1>3 DEF StandingBeside
<1>4. CASE r # NoRow /\ ~IsReset(p, r) /\ ~worker[p].echo
  <2>1. StandingBeside(p, local) = IF place \in {"agree", "localFiner"} THEN place
                   ELSE IF r.at > local.at THEN "newer"
                   ELSE IF r.at = local.at THEN "tie"
                   ELSE IF place = "peerFiner" THEN "coarser" ELSE "older"
    BY <1>4 DEF StandingBeside, place
  <2>. QED
    BY <1>4, <2>1 DEF place
<1>. QED
  BY <1>1, <1>2, <1>3, <1>4

(* A worker that sends nothing and takes nothing has a reason.             *)
LEMMA SettleNothingPreserves ==
  ASSUME MirrorAssumption, IInv, NEW p \in Peers, SettleNothing(p)
  PROVE  IInv'
<1>. DEFINE r == worker[p].ans
            cur == worker[p].cur
            s == Standing(p)
            c == [cur EXCEPT !.pushed = Len(log), !.ts = NotedTime(p)]
<1>1. Typed /\ worker[p].stage = "answered" /\ ~Owes(p)
  BY DEF IInv, SettleNothing
<1>2. Busy(p) /\ Told(p) /\ worker[p] \in Answered
  BY <1>1, WorkerShapes DEF Told
<1>3. /\ cur \in Cursors /\ log # <<>> /\ cur.pushed <= Len(log) /\ r \in Answers \cup {NoRow}
      /\ worker[p].fresh = Fresh(cur)
      /\ cur.pushed = Len(log) => Covered(p)
      /\ Newest.dev = p /\ ~Covered(p) => Fresh(cur)
  BY <1>1, <1>2, MemoryFits DEF IInv, Addressed, Answered
<1>4. Len(log) \in Nat /\ cur.pushed \in Nat /\ cur.ts \in Int /\ Newest \in Ops
  BY <1>1, <1>3 DEF Typed, Cursors, Newest
<1>5. /\ s \in {"silent", "reset", "echo", "agree", "localFiner", "newer", "tie", "coarser", "older"}
      /\ s = "silent" <=> r = NoRow
      /\ s \in {"agree", "newer", "tie", "coarser"} => ~IsReset(p, r)
      /\ s = "agree" => ComparePlaces(Newest, r, p \in CfiPeers) = "agree"
      /\ s \in {"newer", "tie"} => r.at >= Newest.at
      /\ s = "coarser" => ComparePlaces(Newest, r, p \in CfiPeers) = "peerFiner"
  <2>1. r # NoRow => r.at \in Int /\ Newest.at \in Int
    BY <1>3, <1>4 DEF Answers, Ops
  <2>. QED
    BY <2>1, StandingMeans DEF Standing
<1>6. NotedTime(p) \in Int
  <2>1. s # "silent" => r.at \in Int
    BY <1>3, <1>5 DEF Answers
  <2>. QED
    BY <1>4, <1>5, <2>1 DEF NotedTime
<1>7. Covered(p)
  <2>1. CASE ~HaveNews(p)
    <3>1. cur.pushed = Len(log) \/ (~worker[p].fresh /\ Newest.dev = p)
      BY <1>3, <1>4, <2>1 DEF HaveNews
    <3>. QED
      BY <1>3, <3>1
  <2>2. CASE HaveNews(p)
    <3>1. s \in {"agree", "newer", "tie", "coarser"}
      BY <1>1, <1>5, <2>2 DEF Owes
    <3>2. r \in given[p]
      BY <1>2, <1>5, <3>1 DEF IInv, ResetsTold, RowsAreGiven
    <3>3. Covers(p, r)
      BY <1>5, <3>1 DEF Covers
    <3>. QED
      BY <3>2, <3>3 DEF Covered
  <2>. QED
    BY <2>1, <2>2
<1>8. c \in Cursors /\ c.library = cur.library /\ c.mark = cur.mark /\ c.pushed = Len(log)
  BY <1>3, <1>4, <1>6 DEF Cursors
<1>9. /\ worker' = [worker EXCEPT ![p] = Finished(c)]
      /\ UNCHANGED <<serverVars, peerVars, late, clockVars, unsure>>
  BY DEF SettleNothing
<1>10. c.pushed <= Len(log)
  BY <1>4, <1>8
<1>. HIDE DEF c
<1>. QED
  BY <1>1, <1>2, <1>7, <1>8, <1>9, <1>10, EndPreserves

-----------------------------------------------------------------------------
(* Marks.                                                                  *)
LEMMA MarkTyped ==
  ASSUME MirrorAssumption, NEW r, r.cfi \in Cfis, r.foreign \in Foreigns, r.frac \in Nat
  PROVE  Mark(r) \in Marks /\ Mark(r) # None
<1>. QED
  BY DEF MirrorAssumption, Mark, Marks, Cfis, Foreigns

LEMMA PushSucceedsPreserves ==
  ASSUME MirrorAssumption, IInv, NEW p \in Peers, PushSucceeds(p)
  PROVE  IInv'
<1>. DEFINE c == Pushed(p)
            w == Finished(c)
<1>1. Typed /\ worker[p].stage = "arrived"
  BY DEF IInv, PushSucceeds
<1>2. /\ Busy(p) /\ Sending(p) /\ worker[p].cur \in Cursors
      /\ worker[p].ans \in Answers \cup {NoRow} /\ worker[p].op \in Ops /\ worker[p].seq \in Nat \ {0}
  BY <1>1, WorkerShapes DEF Sending, Pushing
<1>3. Mark(Sends(p)) \in Marks
  <2>1. /\ Sends(p).cfi \in Cfis /\ Sends(p).foreign \in Foreigns /\ Sends(p).frac \in Nat
    BY <1>2 DEF Sends, Ops, Cfis
  <2>. QED
    BY <2>1, MarkTyped
<1>4. /\ c \in Cursors /\ c.library = worker[p].cur.library /\ c.mark = Mark(Sends(p))
      /\ c.pushed = worker[p].seq
  <2>1. ToldTime(p) \in Int
    BY <1>2 DEF ToldTime, Cursors, Answers
  <2>. QED
    BY <1>2, <1>3, <2>1 DEF Pushed, Cursors, Sends
<1>5. w \in Workers /\ w.stage = "done" /\ w.cur = c
  BY <1>4 DEF Finished, Workers, Ended
<1>. HIDE DEF c
<1>6. worker[p].seq \in DOMAIN log /\ worker[p].op = log[worker[p].seq] /\ Len(log) \in Nat /\ log # <<>>
  BY <1>1, <1>2 DEF IInv, Sent, Typed
<1>7. \E r \in given[p] : r.id = worker[p].op.id
  BY <1>1 DEF IInv, RowsAreGiven
<1>8. CursorFits(p, w)
  <2>1. worker[p].seq <= Len(log) /\ c.library = library[p]
    BY <1>1, <1>2, <1>4, <1>6 DEF IInv, Addressed, Typed
  <2>. QED
    BY <1>4, <1>5, <1>6, <2>1 DEF CursorFits
<1>9. CoverFits(p, w)
  <2>1. c.pushed = Len(log) => Covered(p)
    BY <1>4, <1>6, <1>7 DEF Covered, Covers, Newest
  <2>2. Newest.dev = p => Covered(p)
    <3>1. ~Untouched(p)
      BY <1>7 DEF Untouched
    <3>. QED
      BY <1>6, <3>1 DEF IInv, FromElsewhere
  <2>. QED
    BY <1>5, <2>1, <2>2 DEF CoverFits
<1>10. MarkFits(p, w)
  <2>1. SUFFICES ASSUME p \notin resets, row[p] # NoRow, Again(p, row[p]),
                        ~(p \notin CfiPeers /\ row[p].ours), c.mark # Mark(row[p])
                 PROVE  RowThreatens(p)
    BY <1>5, ThreatsAre DEF MarkFits
  <2>2. MarkNow(p) = c.mark
    BY <1>1, <1>2, <1>4 DEF MarkNow, Busy
  <2>. QED
    BY <2>1, <2>2 DEF RowThreatens, Known
<1>11. Fits(p, w)
  BY <1>5, <1>8, <1>9, <1>10 DEF Fits, AnswerFits, TakingFits, Answering
<1>12. worker' = [worker EXCEPT ![p] = w] /\ UNCHANGED <<serverVars, peerVars, late, clockVars, unsure>>
  BY DEF PushSucceeds, c
<1>. HIDE DEF w
<1>. QED
  BY <1>1, <1>5, <1>11, <1>12, MemoryStep

(* A pass that ends puts back the cursor it worked with.                   *)
LEMMA PutCursorPreserves ==
  ASSUME MirrorAssumption, IInv, NEW p \in Peers, PutCursor(p)
  PROVE  IInv'
<1>. DEFINE c == worker[p].cur
<1>1. /\ log' = log /\ row' = row /\ resets' = resets /\ library' = library
      /\ given' = given /\ late' = late /\ now' = now /\ reads' = reads /\ unsure' = unsure
      /\ worker[p].stage = "done" /\ Typed
      /\ cursor' = [cursor EXCEPT ![p] = c] /\ worker' = [worker EXCEPT ![p] = Idle]
  BY DEF PutCursor, peerVars, clockVars, IInv
<1>2. /\ \A q \in Peers : worker'[q] = IF q = p THEN Idle ELSE worker[q]
      /\ \A q \in Peers : cursor'[q] = IF q = p THEN c ELSE cursor[q]
  BY <1>1 DEF Typed
<1>3. /\ Busy(p) /\ ~Told(p) /\ ~Sending(p) /\ c \in Cursors /\ c.library = library[p]
      /\ c.pushed <= Len(log) /\ worker[p] # Idle
      /\ Idle.stage = "idle"
      /\ log # <<>> /\ c.pushed = Len(log) => Covered(p)
  BY <1>1, WorkerShapes, MemoryFits DEF IInv, Addressed, Told, Sending, Idle, Busy
<1>4. CursorFor(p)' = c /\ \A q \in Peers : q # p => CursorFor(q)' = CursorFor(q)
  BY <1>1, <1>2, <1>3 DEF CursorFor, NoCursor
<1>5. Typed'
  BY <1>1, <1>2, <1>3 DEF Typed
<1>6. Bounded' /\ Sent'
  BY <1>1, <1>2, <1>3 DEF IInv, Bounded, Sent, Told, Sending
<1>7. Addressed'
  <2>1. library[p] \in Nat
    BY <1>1 DEF Typed
  <2>. QED
    BY <1>1, <1>2, <1>3, <2>1 DEF IInv, Addressed, Busy, Fresh
<1>8. OneTakes'
  BY <1>1, <1>2, <1>3 DEF IInv, OneTakes, Newest
<1>9. MarkNow(p)' = MarkNow(p)
  BY <1>1, <1>2, <1>3, <1>4 DEF MarkNow
<1>10. \A q \in Peers : MarkNow(q)' = MarkNow(q)
  <2>1. SUFFICES ASSUME NEW q \in Peers, q # p
                 PROVE  MarkNow(q)' = MarkNow(q)
    BY <1>9
  <2>2. worker'[q] = worker[q] /\ CursorFor(q)' = CursorFor(q)
    BY <1>2, <1>4, <2>1
  <2>. QED
    BY <2>2 DEF MarkNow, Sends, Mark
<1>11. \A q \in Peers : /\ RowThreatens(q)' => RowThreatens(q)
                        /\ AnswerThreatens(q)' => AnswerThreatens(q) /\ worker'[q] = worker[q]
  BY <1>1, <1>2, <1>3, <1>10 DEF RowThreatens, AnswerThreatens, Again, InLog, Bare, Readings, Known, Mark, Told
<1>12. Accounted'
  <2>1. \A q \in Peers : RowThreatens(q)' => Bare(q, row'[q]) \in Threats \cup {}
    BY <1>1, <1>11, ThreatsAre
  <2>2. \A q \in Peers : AnswerThreatens(q)' => Bare(q, worker'[q].ans) \in Threats \cup {}
    BY <1>11, ThreatsAre
  <2>3. IsFiniteSet({}) /\ Cardinality({}) + unsure <= unsure'
    BY <1>1, FS_EmptySet DEF Typed
  <2>. QED
    BY <1>1, <1>5, <2>1, <2>2, <2>3, AccountStep DEF IInv
<1>13. OneOrigin'
  <2>1. \A q \in Peers : Carried(q)' \subseteq Carried(q)
    BY <1>1, <1>2, <1>3 DEF Carried, Told
  <2>2. Readings' = Readings /\ OneOrigin
    BY <1>1 DEF IInv, Readings
  <2>. QED
    BY <2>1, <2>2, OriginStep
<1>14. MarkKept' /\ ResetsTold'
  BY <1>1, <1>2, <1>3, <1>4 DEF IInv, MarkKept, ResetsTold, Busy, Told, IsReset
<1>15. RowsAreGiven'
  BY <1>1, <1>2, <1>3 DEF IInv, RowsAreGiven, Told
<1>16. \A q \in Peers : Covered(q)' <=> Covered(q)
  BY <1>1 DEF Covered, Covers, Newest, ComparePlaces
<1>17. CoveredHere'
  BY <1>1, <1>2, <1>3, <1>16 DEF IInv, CoveredHere, Busy
<1>18. FromElsewhere'
  <2>1. SUFFICES ASSUME NEW q \in Peers, log # <<>>, Newest.dev = q, ~Covered(q)
                 PROVE  Untouched(q)'
    BY <1>1, <1>16 DEF FromElsewhere, Newest
  <2>2. Untouched(q)
    BY <2>1 DEF IInv, FromElsewhere
  <2>3. CursorNow(q)' = CursorNow(q) /\ (q = p => CursorFor(q)' = CursorNow(q))
    BY <1>2, <1>3, <1>4 DEF CursorNow
  <2>4. Fresh(CursorNow(q)') /\ Fresh(CursorFor(q)')
    BY <1>4, <2>2, <2>3 DEF Untouched
  <2>. QED
    BY <1>1, <1>2, <1>3, <2>2, <2>4 DEF Untouched, Told, Sending, Newest, Fresh, CursorNow, CursorFor, NoCursor
<1>19. NothingWithheld'
  <2>1. NothingWithheld <=> \A q \in Peers : log # <<>> /\ cursor[q].library = library[q]
                                 /\ cursor[q].pushed = Len(log) => Covered(q)
    BY DEF NothingWithheld, Covered
  <2>2. NothingWithheld' <=> \A q \in Peers : log' # <<>> /\ cursor'[q].library = library'[q]
                                 /\ cursor'[q].pushed = Len(log') => Covered(q)'
    BY DEF NothingWithheld, Covered
  <2>. QED
    BY <1>1, <1>2, <1>3, <1>16, <2>1, <2>2 DEF IInv
<1>. QED
  BY <1>5, <1>6, <1>7, <1>8, <1>12, <1>13, <1>14, <1>15, <1>17, <1>18, <1>19 DEF IInv

LEMMA TickPreserves ==
  ASSUME MirrorAssumption, IInv, Tick
  PROVE  IInv'
<1>1. /\ log' = log /\ cursor' = cursor /\ row' = row /\ resets' = resets /\ library' = library
      /\ given' = given /\ worker' = worker /\ late' = late /\ reads' = reads /\ unsure' = unsure
      /\ now' = now + 1 /\ Typed
  BY DEF IInv, Tick, serverVars, peerVars
<1>2. Typed' /\ Sent' /\ Addressed' /\ OneTakes'
  BY <1>1 DEF IInv, Typed, Sent, Sending, Addressed, Busy, Fresh, OneTakes, Newest
<1>3. Bounded'
  <2>1. \A i \in DOMAIN log : log[i].at \in Int
    <3>1. \A i \in DOMAIN log : log[i] \in Ops
      BY <1>1 DEF Typed
    <3>. QED
      BY <3>1 DEF Ops
  <2>2. \A p \in Peers : row[p].id # 0 => row[p].at \in Int
    <3>1. \A p \in Peers : row[p] \in Held \cup {NoRow}
      BY <1>1 DEF Typed
    <3>. QED
      BY <3>1 DEF Held, Answers, NoRow
  <2>3. \A p \in Peers : Told(p) /\ worker[p].ans # NoRow => worker[p].ans.at \in Int
    <3>1. \A p \in Peers : Told(p) => worker[p].ans \in Answers \cup {NoRow}
      BY <1>1, WorkerShapes DEF Answered
    <3>. QED
      BY <3>1 DEF Answers
  <2>4. now \in Int
    BY <1>1 DEF Typed
  <2>. QED
    BY <1>1, <2>1, <2>2, <2>3, <2>4 DEF IInv, Bounded, Told
<1>4. /\ Readings' = Readings /\ Threats' = Threats
  BY <1>1 DEF Readings, Threats, RowThreatens, AnswerThreatens, Again, InLog, Bare, Known, MarkNow,
              CursorFor, NoCursor, Sends, Mark, Told
<1>5. Accounted' /\ MarkKept' /\ ResetsTold'
  BY <1>1, <1>4 DEF IInv, Accounted, MarkKept, ResetsTold, Busy, CursorFor, NoCursor, Told, IsReset
<1>6. OneOrigin'
  <2>1. \A q \in Peers : Carried(q)' \subseteq Carried(q)
    BY <1>1 DEF Carried, Told
  <2>. QED
    BY <1>4, <2>1, OriginStep DEF IInv
<1>7. RowsAreGiven' /\ CoveredHere' /\ NothingWithheld'
  BY <1>1 DEF IInv, RowsAreGiven, CoveredHere, NothingWithheld, Covered, Covers, Newest, ComparePlaces,
              Told, Busy
<1>8. FromElsewhere'
  BY <1>1 DEF IInv, FromElsewhere, Untouched, Covered, Covers, Newest, ComparePlaces, CursorNow,
              CursorFor, NoCursor, Fresh, Told, Sending
<1>. QED
  BY <1>2, <1>3, <1>5, <1>6, <1>7, <1>8 DEF IInv

-----------------------------------------------------------------------------
(* A step that adds a position to the log.                                 *)
LEMMA LogGrows ==
  ASSUME MirrorAssumption, Typed, NEW op \in Ops, log' = Append(log, op)
  PROVE  /\ log' \in Seq(Ops) /\ Len(log') = Len(log) + 1 /\ Len(log) \in Nat /\ log' # <<>>
         /\ \A i \in DOMAIN log : i \in DOMAIN log' /\ log'[i] = log[i] /\ i <= Len(log)
         /\ DOMAIN log' = DOMAIN log \cup {Len(log) + 1} /\ log'[Len(log) + 1] = op
         /\ Newest' = op
         /\ Readings' = Readings \cup {op.id}
         /\ Cardinality(Readings') = Cardinality(Readings) + IF op.id \in Readings THEN 0 ELSE 1
         /\ \A x : InLog(x) => InLog(x)'
<1>1. log \in Seq(Ops) /\ Len(log) \in Nat /\ DOMAIN log = 1 .. Len(log)
  BY DEF Typed
<1>2. /\ log' \in Seq(Ops) /\ Len(log') = Len(log) + 1 /\ log'[Len(log) + 1] = op
      /\ \A i \in 1 .. Len(log) : log'[i] = log[i]
  BY <1>1, AppendProperties
<1>3. DOMAIN log' = 1 .. (Len(log) + 1)
  BY <1>1, <1>2
<1>4. DOMAIN log' = DOMAIN log \cup {Len(log) + 1} /\ log' # <<>>
  BY <1>1, <1>2, <1>3
<1>5. Readings' = Readings \cup {op.id}
  <2>1. Readings' = {log'[i].id : i \in DOMAIN log'}
    BY DEF Readings
  <2>. QED
    BY <1>1, <1>2, <1>4, <2>1 DEF Readings
<1>6. Cardinality(Readings') = Cardinality(Readings) + IF op.id \in Readings THEN 0 ELSE 1
  <2>1. IsFiniteSet(Readings) /\ Cardinality(Readings) \in Nat
    BY SidesAreFinite
  <2>2. CASE op.id \in Readings
    <3>1. Readings' = Readings
      BY <1>5, <2>2
    <3>. QED
      BY <2>1, <2>2, <3>1
  <2>3. CASE op.id \notin Readings
    BY <1>5, <2>1, <2>3, FS_AddElement
  <2>. QED
    BY <2>2, <2>3
<1>7. \A x : InLog(x) => InLog(x)'
  <2>1. SUFFICES ASSUME NEW x, InLog(x)
                 PROVE  InLog(x)'
    OBVIOUS
  <2>2. PICK i \in DOMAIN log : [log[i] EXCEPT !.id = 0] = x
    BY <2>1 DEF InLog
  <2>3. i \in DOMAIN log' /\ log'[i] = log[i]
    BY <1>1, <1>2, <1>4
  <2>. QED
    BY <2>2, <2>3 DEF InLog
<1>. QED
  BY <1>1, <1>2, <1>4, <1>5, <1>6, <1>7 DEF Newest

(* The log gains a position and the workers are as they were, but for one  *)
(* that took it.                                                           *)
LEMMA GrowthStep ==
  ASSUME MirrorAssumption, IInv, NEW op \in Ops, log' = Append(log, op), op.at <= now, op.id <= reads',
         reads <= reads', reads' \in Nat, UNCHANGED <<cursor, peerVars, late, now, unsure>>,
         worker' \in [Peers -> {Idle} \cup Asking \cup Answered \cup Pushing \cup Ended],
         \A q \in Peers : worker'[q] = worker[q] \/
           /\ worker[q].stage = "taking" /\ worker'[q].stage = "done" /\ worker'[q].cur \in Cursors
           /\ worker'[q].cur.library = worker[q].cur.library /\ worker'[q].cur.mark = worker[q].cur.mark
           /\ worker'[q].cur.pushed = worker[q].cur.pushed,
         op.dev = Here \/ \E r \in given[op.dev] : r.id = op.id,
         \A q \in Peers : worker'[q].stage = "taking" => op.dev = Here,
         Accounted'
  PROVE  IInv'
<1>1. /\ cursor' = cursor /\ row' = row /\ resets' = resets /\ library' = library
      /\ given' = given /\ late' = late /\ now' = now /\ unsure' = unsure /\ Typed
  BY DEF IInv, peerVars
<1>2. /\ log' \in Seq(Ops) /\ Len(log') = Len(log) + 1 /\ Len(log) \in Nat /\ log' # <<>>
      /\ \A i \in DOMAIN log : i \in DOMAIN log' /\ log'[i] = log[i]
      /\ DOMAIN log' = DOMAIN log \cup {Len(log) + 1} /\ log'[Len(log) + 1] = op
      /\ Newest' = op /\ Readings' = Readings \cup {op.id}
  BY <1>1, LogGrows
<1>3. \A q \in Peers : /\ Told(q)' => Told(q) /\ worker'[q] = worker[q]
                       /\ Sending(q)' => worker'[q] = worker[q]
                       /\ Busy(q)' => /\ Busy(q) /\ worker'[q].cur.library = worker[q].cur.library
                                      /\ worker'[q].cur.pushed = worker[q].cur.pushed
                       /\ worker'[q].stage \in {"asking", "answered", "taking", "arrived"} => worker'[q] = worker[q]
                       /\ worker'[q].stage # "done" => worker'[q] = worker[q]
  BY DEF Told, Sending, Busy, Idle
<1>4. Typed'
  BY <1>1, <1>2 DEF Typed
<1>5. Bounded'
  <2>1. reads \in Nat /\ \A i \in DOMAIN log : log[i].id \in Nat
    <3>1. \A i \in DOMAIN log : log[i] \in Ops
      BY <1>1 DEF Typed
    <3>. QED
      BY <1>1, <3>1 DEF Typed, Ops
  <2>2. \A i \in DOMAIN log' : log'[i].at <= now' /\ log'[i].id <= reads'
    BY <1>1, <1>2, <2>1 DEF IInv, Bounded
  <2>3. \A q \in Peers : row[q].id \in Nat
    <3>1. \A q \in Peers : row[q] \in Held \cup {NoRow}
      BY <1>1 DEF Typed
    <3>. QED
      BY <3>1 DEF Held, Answers, NoRow
  <2>4. \A q \in Peers : Told(q) => worker[q].ans.id \in Nat
    <3>1. \A q \in Peers : Told(q) => worker[q].ans \in Answers \cup {NoRow}
      BY <1>1, WorkerShapes DEF Answered
    <3>. QED
      BY <3>1 DEF Answers, NoRow
  <2>5. \A q \in Peers : row'[q].id <= reads' /\ (row'[q].id # 0 => row'[q].at <= now')
    BY <1>1, <2>1, <2>3 DEF IInv, Bounded
  <2>6. \A q \in Peers : Told(q)' => worker'[q].ans.id <= reads'
    BY <1>1, <1>3, <2>1, <2>4 DEF IInv, Bounded
  <2>7. \A q \in Peers : Told(q)' /\ worker'[q].ans # NoRow => worker'[q].ans.at <= now'
    BY <1>1, <1>3 DEF IInv, Bounded
  <2>. QED
    BY <2>2, <2>5, <2>6, <2>7, Zenon DEF Bounded, Told
<1>6. Sent'
  <2>1. Sent /\ \A i \in DOMAIN log : i \in DOMAIN log' /\ log'[i] = log[i]
    BY <1>2 DEF IInv
  <2>2. \A q \in Peers : Sending(q)' => worker'[q].seq \in DOMAIN log' /\ worker'[q].op = log'[worker'[q].seq]
    BY <1>3, <2>1 DEF Sent, Sending
  <2>3. \A q \in Peers : late'[q] # NoWrite => \E i \in DOMAIN log' : late'[q] = log'[i]
    BY <1>1, <2>1 DEF Sent
  <2>. QED
    BY <2>2, <2>3, Zenon DEF Sent, Sending
<1>7. \A q \in Peers : cursor[q].pushed \in Nat /\ (Busy(q) => worker[q].cur.pushed \in Nat)
  <2>1. \A q \in Peers : cursor[q] \in Cursors /\ (Busy(q) => worker[q].cur \in Cursors)
    BY <1>1, WorkerShapes DEF Typed
  <2>. QED
    BY <2>1 DEF Cursors
<1>8. Addressed'
  <2>1. \A q \in Peers : cursor[q].library <= library[q] /\ cursor[q].pushed <= Len(log')
    BY <1>2, <1>7 DEF IInv, Addressed
  <2>2. \A q \in Peers : Busy(q)' => worker'[q].cur.library = library[q] /\ worker'[q].cur.pushed <= Len(log')
    BY <1>2, <1>3, <1>7 DEF IInv, Addressed
  <2>3. \A q \in Peers : worker'[q].stage \in {"asking", "answered"} => worker'[q].fresh = Fresh(worker'[q].cur)
    BY <1>3 DEF IInv, Addressed, Fresh
  <2>. QED
    BY <1>1, <1>2, <2>1, <2>2, <2>3 DEF Addressed, Fresh
<1>9. OneTakes'
  BY <1>2, <1>3 DEF IInv, OneTakes
<1>10. OneOrigin'
  <2>1. \A q \in Peers : Carried(q)' \subseteq Carried(q)
    BY <1>1, <1>3 DEF Carried
  <2>. QED
    BY <1>2, <2>1, OriginStep DEF IInv
<1>11. MarkKept' /\ ResetsTold' /\ RowsAreGiven'
  BY <1>1, <1>3 DEF IInv, MarkKept, ResetsTold, RowsAreGiven, CursorFor, NoCursor, IsReset
<1>12. CoveredHere'
  BY <1>1, <1>2, <1>3, <1>7 DEF IInv, CoveredHere, Addressed
<1>13. FromElsewhere'
  BY <1>1, <1>2 DEF FromElsewhere, Covered, Covers, MirrorAssumption
<1>14. NothingWithheld'
  BY <1>1, <1>2, <1>7 DEF IInv, NothingWithheld, Addressed
<1>. QED
  BY <1>4, <1>5, <1>6, <1>8, <1>9, <1>10, <1>11, <1>12, <1>13, <1>14 DEF IInv

(* A reading uploaded here is new, whatever time it carries.               *)
LEMMA ReadHerePreserves ==
  ASSUME MirrorAssumption, IInv, NEW place \in HerePlaces, ReadHere(place)
  PROVE  IInv'
<1>1. PICK at \in {t \in now - Late .. now : t > 0} : log' = Append(log, NextOp(place, at))
  BY DEF ReadHere
<1>. DEFINE op == NextOp(place, at)
<1>2. /\ Typed /\ reads' = reads + 1 /\ worker' = worker
      /\ UNCHANGED <<cursor, peerVars, late, now, unsure>>
  BY DEF IInv, ReadHere
<1>3. /\ row' = row /\ resets' = resets /\ library' = library /\ cursor' = cursor /\ unsure' = unsure
      /\ reads \in Nat /\ now \in Nat /\ Late \in Nat /\ unsure \in Nat
  BY <1>2 DEF peerVars, Typed, MirrorAssumption
<1>4. at \in Int /\ at <= now
  BY <1>3
<1>5. op \in Ops /\ op.at = at /\ op.id = reads + 1 /\ op.dev = Here
  BY <1>3, <1>4 DEF NextOp, Ops, Cfis, Foreigns, MirrorAssumption
<1>. HIDE DEF op
<1>6. log' = Append(log, op)
  BY <1>1 DEF op
<1>7. /\ Len(log') = Len(log) + 1 /\ Len(log) \in Nat /\ Readings' = Readings \cup {op.id}
      /\ Cardinality(Readings') = Cardinality(Readings) + IF op.id \in Readings THEN 0 ELSE 1
      /\ \A x : InLog(x) => InLog(x)'
  BY <1>2, <1>5, <1>6, LogGrows
<1>8. reads + 1 \notin Readings
  <2>1. \A i \in DOMAIN log : log[i].id \in Nat /\ log[i].id <= reads
    <3>1. \A i \in DOMAIN log : log[i] \in Ops
      BY <1>2 DEF Typed
    <3>. QED
      BY <3>1 DEF Ops, IInv, Bounded
  <2>. QED
    BY <1>3, <2>1 DEF Readings
<1>9. \A q \in Peers : \A r : r.id \in Nat /\ r.id <= reads /\ Again(q, r)' => Again(q, r)
  <2>1. SUFFICES ASSUME NEW q \in Peers, NEW r, r.id \in Nat, r.id <= reads, Again(q, r)'
                 PROVE  Again(q, r)
    OBVIOUS
  <2>2. r.id \in Readings
    BY <1>3, <1>5, <1>7, <2>1 DEF Again
  <2>3. ~InLog(Bare(q, r))
    BY <1>7, <2>1 DEF Again, Bare
  <2>. QED
    BY <2>2, <2>3 DEF Again
<1>10. \A q \in Peers : RowThreatens(q)' => RowThreatens(q)
  <2>1. SUFFICES ASSUME NEW q \in Peers, RowThreatens(q)'
                 PROVE  RowThreatens(q)
    OBVIOUS
  <2>2. Known(q, row[q])' <=> Known(q, row[q])
    BY <1>2, <1>3 DEF Known, MarkNow, CursorFor, NoCursor, Sends, Mark
  <2>3. row[q].id \in Nat /\ row[q].id <= reads
    <3>1. row[q] \in Held \cup {NoRow}
      BY <1>2 DEF Typed
    <3>. QED
      BY <3>1 DEF Held, Answers, NoRow, IInv, Bounded
  <2>4. Again(q, row[q])
    BY <1>3, <1>9, <2>1, <2>3 DEF RowThreatens, Again, Bare
  <2>. QED
    BY <1>3, <2>1, <2>2, <2>4 DEF RowThreatens, Known
<1>11. \A q \in Peers : AnswerThreatens(q)' => AnswerThreatens(q)
  <2>1. SUFFICES ASSUME NEW q \in Peers, AnswerThreatens(q)'
                 PROVE  AnswerThreatens(q)
    OBVIOUS
  <2>2. Told(q) /\ worker[q].ans # NoRow /\ ~worker[q].echo
    BY <1>2, <2>1 DEF AnswerThreatens, Told
  <2>3. worker[q].ans.id \in Nat /\ worker[q].ans.id <= reads
    BY <1>2, <2>2, WorkerShapes DEF Answered, Answers, NoRow, IInv, Bounded
  <2>4. Again(q, worker[q].ans)
    BY <1>2, <1>9, <2>1, <2>3 DEF AnswerThreatens, Again, Bare
  <2>. QED
    BY <2>2, <2>4 DEF AnswerThreatens
<1>12. Accounted'
  <2>1. Threats' \subseteq Threats
    BY <1>2, <1>3, <1>10, <1>11 DEF Threats, Bare
  <2>2. /\ IsFiniteSet(Threats) /\ Cardinality(Threats) \in Nat /\ Cardinality(Readings) \in Nat
    BY <1>2, SidesAreFinite
  <2>3. Cardinality(Threats') <= Cardinality(Threats) /\ Cardinality(Threats') \in Nat
    BY <2>1, <2>2, FS_Subset, FS_CardinalityType
  <2>4. Cardinality(Readings') = Cardinality(Readings) + 1
    BY <1>5, <1>7, <1>8
  <2>5. Len(log) + Cardinality(Threats) <= unsure + Cardinality(Readings)
    BY DEF IInv, Accounted
  <2>6. Len(log') + Cardinality(Threats') <= unsure' + Cardinality(Readings')
    BY <1>3, <1>7, <2>2, <2>3, <2>4, <2>5
  <2>. QED
    BY <2>6 DEF Accounted
<1>13. /\ op.at <= now /\ op.id <= reads' /\ reads <= reads' /\ reads' \in Nat
       /\ worker' \in [Peers -> {Idle} \cup Asking \cup Answered \cup Pushing \cup Ended]
  BY <1>2, <1>3, <1>4, <1>5 DEF Typed
<1>. QED
  BY <1>2, <1>5, <1>6, <1>12, <1>13, GrowthStep

(* What is taken is what the account provides for, or a reading the log    *)
(* has not seen.                                                           *)
LEMMA ApplyPreserves ==
  ASSUME MirrorAssumption, IInv, NEW p \in Peers, Apply(p)
  PROVE  IInv'
<1>0. PICK r : r = worker[p].ans
  OBVIOUS
<1>. DEFINE op == Inbound(p, r)
            c == [worker[p].cur EXCEPT !.ts = r.at]
<1>1. Typed /\ worker[p].stage = "taking"
  BY DEF IInv, Apply
<1>2. /\ Busy(p) /\ Told(p) /\ ~Sending(p) /\ worker[p] \in Answered /\ worker[p].cur \in Cursors
      /\ r # NoRow /\ ~worker[p].echo /\ r.id # 0 /\ r \in given[p]
  BY <1>0, <1>1, WorkerShapes DEF IInv, OneTakes, RowsAreGiven, Told, Sending
<1>3. r \in Answers /\ r.id <= reads /\ r.at <= now
  BY <1>0, <1>2 DEF Answered, IInv, Bounded
<1>4. /\ c \in Cursors /\ c.library = worker[p].cur.library /\ c.mark = worker[p].cur.mark
      /\ c.pushed = worker[p].cur.pushed
  BY <1>2, <1>3 DEF Cursors, Answers
<1>5. /\ cursor' = cursor /\ row' = row /\ resets' = resets /\ library' = library /\ given' = given
      /\ late' = late /\ now' = now /\ reads' = reads /\ unsure' = unsure
      /\ UNCHANGED <<peerVars, late, clockVars, unsure>>
      /\ worker' = [worker EXCEPT ![p] = Finished(c)]
  BY <1>0 DEF Apply, peerVars, clockVars
<1>6. op \in Ops /\ [op EXCEPT !.id = 0] = Bare(p, r) /\ op.at = r.at /\ op.id = r.id /\ op.dev = p
  BY <1>2, <1>3 DEF Inbound, Ops, Answers, Bare
<1>7. log' = IF InLog(Bare(p, r)) THEN log ELSE Append(log, op)
  BY <1>0, <1>6 DEF Apply, AppendOnce, InLog
<1>8. Finished(c) \in Ended /\ Finished(c).stage = "done" /\ Finished(c).cur = c
  BY <1>4 DEF Finished, Ended
<1>. HIDE DEF c, op
<1>9. CASE InLog(Bare(p, r))
  <2>1. UNCHANGED <<serverVars, peerVars, late, clockVars, unsure>>
    BY <1>5, <1>7, <1>9 DEF serverVars
  <2>2. /\ c.pushed <= Len(log) /\ (log # <<>> /\ c.pushed = Len(log) => Covered(p))
        /\ log # <<>> /\ Newest.dev = p /\ ~Covered(p) => Fresh(c)
    BY <1>1, <1>2, <1>4, MemoryFits
  <2>. QED
    BY <1>1, <1>2, <1>4, <1>5, <2>1, <2>2, EndPreserves
<1>10. CASE ~InLog(Bare(p, r))
  <2>1. log' = Append(log, op)
    BY <1>7, <1>10
  <2>2. /\ Len(log') = Len(log) + 1 /\ Len(log) \in Nat /\ Readings' = Readings \cup {r.id}
        /\ Cardinality(Readings') = Cardinality(Readings) + IF r.id \in Readings THEN 0 ELSE 1
        /\ (\A x : InLog(x) => InLog(x)') /\ log'[Len(log) + 1] = op
        /\ DOMAIN log' = DOMAIN log \cup {Len(log) + 1}
    BY <1>1, <1>6, <2>1, LogGrows
  <2>3. InLog(Bare(p, r))'
    <3>1. \E i \in DOMAIN log' : [log'[i] EXCEPT !.id = 0] = Bare(p, r)
      BY <1>6, <2>2
    <3>. QED
      BY <1>5, <3>1 DEF InLog, Bare
  <2>4. \A q \in Peers : worker'[q] = IF q = p THEN Finished(c) ELSE worker[q]
    BY <1>1, <1>5 DEF Typed
  <2>5. \A q \in Peers : MarkNow(q)' = MarkNow(q)
    <3>1. MarkNow(p)' = MarkNow(p)
      BY <1>1, <1>2, <1>4, <1>8, <2>4 DEF MarkNow, Busy, Idle
    <3>2. SUFFICES ASSUME NEW q \in Peers, q # p
                   PROVE  MarkNow(q)' = MarkNow(q)
      BY <3>1
    <3>3. worker'[q] = worker[q] /\ CursorFor(q)' = CursorFor(q)
      BY <1>5, <2>4, <3>2 DEF CursorFor, NoCursor
    <3>. QED
      BY <3>3 DEF MarkNow, Sends, Mark
  <2>6. \A q \in Peers : \A x \in Carried(q) : Again(q, x)' => Again(q, x)
    <3>1. SUFFICES ASSUME NEW q \in Peers, NEW x \in Carried(q), Again(q, x)'
                   PROVE  Again(q, x)
      OBVIOUS
    <3>2. ~InLog(Bare(q, x)) /\ ~InLog(Bare(q, x))'
      BY <2>2, <3>1 DEF Again, Bare
    <3>3. x.id \in Readings \cup {r.id}
      BY <2>2, <3>1 DEF Again
    <3>4. CASE x.id = r.id /\ r.id \notin Readings
      <4>1. r \in Carried(p)
        BY <1>0, <1>2 DEF Carried
      <4>2. Alike(q, x, p, r)
        BY <3>4, <4>1 DEF IInv, OneOrigin
      <4>. QED
        BY <2>3, <3>2, <3>4, <4>2 DEF Alike
    <3>. QED
      BY <3>2, <3>3, <3>4 DEF Again
  <2>7. \A q \in Peers : RowThreatens(q)' => RowThreatens(q) /\ ~InLog(Bare(q, row[q]))'
    <3>1. SUFFICES ASSUME NEW q \in Peers, RowThreatens(q)'
                   PROVE  RowThreatens(q) /\ ~InLog(Bare(q, row[q]))'
      OBVIOUS
    <3>2. /\ q \notin resets /\ row[q] # NoRow /\ Again(q, row[q])' /\ ~Known(q, row[q])
      BY <1>5, <2>5, <3>1 DEF RowThreatens, Again, Bare, Known, Mark
    <3>a. PICK x : x = row[q]
      OBVIOUS
    <3>3. x \in Carried(q)
      <4>1. row[q].id # 0
        BY <1>1, <3>2 DEF Typed, Held
      <4>. QED
        BY <3>a, <4>1 DEF Carried
    <3>4. Again(q, row[q])
      <4>1. Again(q, x)'
        BY <1>5, <3>2, <3>a DEF Again, Bare
      <4>. QED
        BY <2>6, <3>a, <3>3, <4>1
    <3>. QED
      BY <1>5, <3>2, <3>4 DEF RowThreatens, Again, Bare
  <2>8. \A q \in Peers : AnswerThreatens(q)' =>
           AnswerThreatens(q) /\ worker'[q] = worker[q] /\ ~InLog(Bare(q, worker[q].ans))'
    <3>1. SUFFICES ASSUME NEW q \in Peers, AnswerThreatens(q)'
                   PROVE  AnswerThreatens(q) /\ worker'[q] = worker[q] /\ ~InLog(Bare(q, worker[q].ans))'
      OBVIOUS
    <3>2. q # p /\ worker'[q] = worker[q]
      BY <1>8, <2>4, <3>1 DEF AnswerThreatens, Told
    <3>3. PICK x : x = worker[q].ans
      OBVIOUS
    <3>a. /\ Told(q) /\ x # NoRow /\ ~worker[q].echo /\ Again(q, x)'
      BY <3>1, <3>2, <3>3 DEF AnswerThreatens, Told, Again, Bare
    <3>4. x.id # 0
      <4>1. \A i \in DOMAIN log : log[i].id # 0
        <5>1. \A i \in DOMAIN log : log[i] \in Ops
          BY <1>1 DEF Typed
        <5>. QED
          BY <5>1 DEF Ops
      <4>. QED
        BY <1>2, <2>2, <3>a, <4>1 DEF Again, Readings
    <3>5. x \in Carried(q)
      BY <3>3, <3>a, <3>4 DEF Carried
    <3>. QED
      BY <2>6, <3>2, <3>3, <3>a, <3>5 DEF AnswerThreatens, Again, Bare
  <2>9. Threats' \subseteq Threats /\ Bare(p, r) \notin Threats'
    <3>1. \A t \in Threats' : t \in Threats /\ ~InLog(t)'
      <4>1. SUFFICES ASSUME NEW t \in Threats'
                     PROVE  t \in Threats /\ ~InLog(t)'
        OBVIOUS
      <4>2. PICK q \in Peers : \/ RowThreatens(q)' /\ t = Bare(q, row'[q])
                               \/ AnswerThreatens(q)' /\ t = Bare(q, worker'[q].ans)
        BY DEF Threats, Bare
      <4>3. CASE RowThreatens(q)' /\ t = Bare(q, row'[q])
        BY <1>5, <2>7, <4>3, ThreatsAre DEF Bare
      <4>4. CASE AnswerThreatens(q)' /\ t = Bare(q, worker'[q].ans)
        BY <2>8, <4>4, ThreatsAre DEF Bare
      <4>. QED
        BY <4>2, <4>3, <4>4
    <3>. QED
      BY <2>3, <3>1
  <2>10. IsFiniteSet(Threats) /\ Cardinality(Threats) \in Nat /\ Cardinality(Readings) \in Nat /\ unsure \in Nat
    BY <1>1, SidesAreFinite
  <2>11. Len(log) + Cardinality(Threats) <= unsure + Cardinality(Readings)
    BY DEF IInv, Accounted
  <2>12. Cardinality(Threats') \in Nat /\ Cardinality(Threats') <= Cardinality(Threats)
    BY <2>9, <2>10, FS_Subset, FS_CardinalityType
  <2>13. Len(log') + Cardinality(Threats') <= unsure' + Cardinality(Readings')
    <3>1. CASE r.id \in Readings
      <4>1. Bare(p, r) \in Threats
        BY <1>0, <1>2, <1>10, <3>1, ThreatsAre DEF AnswerThreatens, Again
      <4>2. Cardinality(Threats') <= Cardinality(Threats) - 1
        <5>1. Threats' \subseteq Threats \ {Bare(p, r)}
          BY <2>9
        <5>2. /\ IsFiniteSet(Threats \ {Bare(p, r)})
              /\ Cardinality(Threats \ {Bare(p, r)}) = Cardinality(Threats) - 1
          BY <2>10, <4>1, FS_RemoveElement
        <5>3. Cardinality(Threats') <= Cardinality(Threats \ {Bare(p, r)})
          BY <5>1, <5>2, FS_Subset
        <5>. QED
          BY <5>2, <5>3
      <4>. QED
        BY <1>5, <2>2, <2>10, <2>11, <2>12, <3>1, <4>2
    <3>2. CASE r.id \notin Readings
      BY <1>5, <2>2, <2>10, <2>11, <2>12, <3>2
    <3>. QED
      BY <3>1, <3>2
  <2>14. Accounted'
    BY <2>13 DEF Accounted
  <2>15. worker' \in [Peers -> {Idle} \cup Asking \cup Answered \cup Pushing \cup Ended]
    BY <1>1, <1>5, <1>8 DEF Typed
  <2>16. \A q \in Peers : worker'[q].stage # "taking"
    BY <1>1, <1>8, <2>4 DEF IInv, OneTakes
  <2>17. /\ op.at <= now /\ op.id <= reads' /\ reads <= reads' /\ reads' \in Nat
         /\ UNCHANGED <<cursor, peerVars, late, now, unsure>>
         /\ \E s \in given[op.dev] : s.id = op.id
    BY <1>1, <1>2, <1>3, <1>5, <1>6 DEF Typed
  <2>. QED
    BY <1>0, <1>1, <1>4, <1>6, <1>8, <2>1, <2>4, <2>14, <2>15, <2>16, <2>17, GrowthStep
<1>. QED
  BY <1>9, <1>10

-----------------------------------------------------------------------------
(* A step at one peer's library, or of a worker that sends there: the log  *)
(* and the cursors stay, and the library has held all that it held.        *)
WorkerSent(p) ==
  \/ worker'[p] = worker[p]
  \/ Busy(p) /\ worker'[p] = Finished(worker[p].cur)
  \/ /\ worker[p].stage = "pushing" /\ worker'[p] = [worker[p] EXCEPT !.stage = "arrived"]
     /\ \E r \in given'[p] : r.id = worker[p].op.id

LEMMA SentShapes ==
  ASSUME IInv, NEW p \in Peers, WorkerSent(p)
  PROVE  /\ Told(p)' => Told(p) /\ worker'[p] = worker[p]
         /\ Sending(p)' => /\ Sending(p) /\ worker'[p].op = worker[p].op /\ worker'[p].seq = worker[p].seq
                           /\ worker'[p].ans = worker[p].ans
         /\ Busy(p)' <=> Busy(p)
         /\ Busy(p)' => worker'[p].cur = worker[p].cur
         /\ worker'[p].stage \in {"asking", "answered", "taking"} => worker'[p] = worker[p]
         /\ worker'[p].stage = "arrived" => worker'[p] = worker[p] \/ \E r \in given'[p] : r.id = worker'[p].op.id
         /\ worker'[p].stage # "done" => worker[p].stage # "done"
<1>1. Typed
  BY DEF IInv
<1>2. CASE worker'[p] = worker[p]
  BY <1>2 DEF Told, Sending, Busy
<1>3. CASE Busy(p) /\ worker'[p] = Finished(worker[p].cur)
  BY <1>3 DEF Told, Sending, Busy, Finished, Idle
<1>4. CASE /\ worker[p].stage = "pushing" /\ worker'[p] = [worker[p] EXCEPT !.stage = "arrived"]
           /\ \E r \in given'[p] : r.id = worker[p].op.id
  <2>1. worker[p] \in Pushing /\ Busy(p) /\ Sending(p)
    BY <1>1, <1>4, WorkerShapes DEF Sending
  <2>2. /\ worker'[p].stage = "arrived" /\ worker'[p].cur = worker[p].cur /\ worker'[p].op = worker[p].op
        /\ worker'[p].seq = worker[p].seq /\ worker'[p].ans = worker[p].ans /\ worker'[p] # Idle
    BY <1>4, <2>1 DEF Pushing, Idle
  <2>. QED
    BY <1>4, <2>1, <2>2 DEF Told, Sending, Busy
<1>. QED
  BY <1>2, <1>3, <1>4 DEF WorkerSent

LEMMA LibraryStep ==
  ASSUME MirrorAssumption, IInv, NEW p \in Peers,
         UNCHANGED <<serverVars, library, now>>, reads <= reads',
         Typed', Accounted', OneOrigin', WorkerSent(p),
         \A q \in Peers : q # p => worker'[q] = worker[q] /\ late'[q] = late[q] /\ given'[q] = given[q],
         \A q \in Peers : given[q] \subseteq given'[q] /\ (log # <<>> /\ Covered(q) => Covered(q)'),
         \A q \in Peers : row'[q] = row[q] \/
           (row'[q] \in given'[q] /\ row'[q].id <= reads' /\ row'[q].at <= now),
         \/ late'[p] \in {late[p], NoWrite}
         \/ Sending(p) /\ late'[p] = worker[p].op,
         log # <<>> /\ Untouched(p) => Covered(p)' \/ given'[p] = given[p]
  PROVE  IInv'
<1>1. /\ log' = log /\ cursor' = cursor /\ library' = library /\ now' = now /\ Typed
      /\ Newest' = Newest
  BY DEF IInv, serverVars, Newest
<1>2. \A q \in Peers :
         /\ Told(q)' => Told(q) /\ worker'[q] = worker[q]
         /\ Sending(q)' => /\ Sending(q) /\ worker'[q].op = worker[q].op /\ worker'[q].seq = worker[q].seq
                           /\ worker'[q].ans = worker[q].ans
         /\ Busy(q)' <=> Busy(q)
         /\ Busy(q)' => worker'[q].cur = worker[q].cur
         /\ worker'[q].stage \in {"asking", "answered", "taking"} => worker'[q] = worker[q]
         /\ worker'[q].stage = "arrived" => worker'[q] = worker[q] \/ \E r \in given'[q] : r.id = worker'[q].op.id
         /\ worker'[q].stage # "done" => worker[q].stage # "done"
  <2>1. SUFFICES ASSUME NEW q \in Peers, q # p
                 PROVE  Told(q)' = Told(q) /\ Sending(q)' = Sending(q) /\ Busy(q)' = Busy(q)
    BY SentShapes
  <2>. QED
    BY <2>1 DEF Told, Sending, Busy
<1>3. \A q \in Peers : CursorFor(q)' = CursorFor(q) /\ CursorNow(q)' = CursorNow(q)
  <2>1. SUFFICES ASSUME NEW q \in Peers
                 PROVE  CursorFor(q)' = CursorFor(q) /\ CursorNow(q)' = CursorNow(q)
    OBVIOUS
  <2>2. CursorFor(q)' = CursorFor(q)
    BY <1>1 DEF CursorFor, NoCursor
  <2>. QED
    BY <1>2, <2>2 DEF CursorNow, Busy
<1>4. Bounded'
  <2>1. \A q \in Peers : row[q].id \in Nat
    <3>1. \A q \in Peers : row[q] \in Held \cup {NoRow}
      BY <1>1 DEF Typed
    <3>. QED
      BY <3>1 DEF Held, Answers, NoRow
  <2>2. \A q \in Peers : Told(q) => worker[q].ans.id \in Nat
    <3>1. \A q \in Peers : Told(q) => worker[q].ans \in Answers \cup {NoRow}
      BY <1>1, WorkerShapes DEF Answered
    <3>. QED
      BY <3>1 DEF Answers, NoRow
  <2>3. \A i \in DOMAIN log : log[i].id \in Nat
    <3>1. \A i \in DOMAIN log : log[i] \in Ops
      BY <1>1 DEF Typed
    <3>. QED
      BY <3>1 DEF Ops
  <2>4. reads \in Nat /\ reads' \in Nat
    BY <1>1 DEF Typed
  <2>5. \A i \in DOMAIN log' : log'[i].at <= now' /\ log'[i].id <= reads'
    BY <1>1, <2>3, <2>4 DEF IInv, Bounded
  <2>6. \A q \in Peers : row'[q].id <= reads' /\ (row'[q].id # 0 => row'[q].at <= now')
    BY <1>1, <2>1, <2>4 DEF IInv, Bounded
  <2>7. \A q \in Peers : Told(q)' => worker'[q].ans.id <= reads'
    BY <1>2, <2>2, <2>4 DEF IInv, Bounded
  <2>8. \A q \in Peers : Told(q)' /\ worker'[q].ans # NoRow => worker'[q].ans.at <= now'
    BY <1>1, <1>2 DEF IInv, Bounded
  <2>. QED
    BY <2>5, <2>6, <2>7, <2>8, Zenon DEF Bounded, Told
<1>5. Sent'
  <2>1. \A q \in Peers : Sending(q)' => worker'[q].seq \in DOMAIN log /\ worker'[q].op = log[worker'[q].seq]
    BY <1>2 DEF IInv, Sent
  <2>2. \A q \in Peers : late'[q] # NoWrite => \E i \in DOMAIN log : late'[q] = log[i]
    BY DEF IInv, Sent
  <2>. QED
    BY <1>1, <2>1, <2>2 DEF Sent, Sending
<1>6. Addressed'
  BY <1>1, <1>2 DEF IInv, Addressed, Fresh
<1>7. OneTakes'
  BY <1>1, <1>2 DEF IInv, OneTakes
<1>8. MarkKept' /\ ResetsTold'
  BY <1>1, <1>2, <1>3 DEF IInv, MarkKept, ResetsTold, IsReset
<1>9. RowsAreGiven'
  BY <1>1, <1>2 DEF IInv, RowsAreGiven
<1>10. CoveredHere'
  BY <1>1, <1>2 DEF IInv, CoveredHere
<1>11. FromElsewhere'
  <2>1. SUFFICES ASSUME NEW q \in Peers, log # <<>>, Newest.dev = q, ~Covered(q)'
                 PROVE  Untouched(q)'
    BY <1>1 DEF FromElsewhere
  <2>2. Untouched(q)
    BY <2>1 DEF IInv, FromElsewhere
  <2>3. given'[q] = {}
    BY <2>1, <2>2 DEF Untouched
  <2>4. Fresh(CursorNow(q)') /\ Fresh(CursorFor(q)')
    BY <1>3, <2>2 DEF Untouched
  <2>5. Told(q)' \/ Sending(q)' => worker'[q].ans = NoRow
    BY <1>2, <2>2 DEF Untouched
  <2>6. Sending(q)' => worker'[q].op.id = Newest.id
    BY <1>2, <2>2 DEF Untouched
  <2>7. late'[q] # NoWrite => late'[q].id = Newest.id
    BY <2>2 DEF Untouched
  <2>. QED
    BY <1>1, <2>3, <2>4, <2>5, <2>6, <2>7 DEF Untouched, Told, Sending, Fresh, CursorNow, CursorFor, NoCursor
<1>12. NothingWithheld'
  <2>1. NothingWithheld <=> \A q \in Peers : log # <<>> /\ cursor[q].library = library[q]
                                 /\ cursor[q].pushed = Len(log) => Covered(q)
    BY DEF NothingWithheld, Covered
  <2>2. NothingWithheld' <=> \A q \in Peers : log' # <<>> /\ cursor'[q].library = library'[q]
                                 /\ cursor'[q].pushed = Len(log') => Covered(q)'
    BY DEF NothingWithheld, Covered
  <2>. QED
    BY <1>1, <2>1, <2>2 DEF IInv
<1>. QED
  BY <1>4, <1>5, <1>6, <1>7, <1>8, <1>9, <1>10, <1>11, <1>12 DEF IInv

(* What a library has held still covers, as long as it does not forget.    *)
LEMMA CoverKept ==
  ASSUME log' = log, NEW p \in Peers, given[p] \subseteq given'[p], Covered(p),
         p \in resets => p \in resets' \/ \E r \in given'[p] : Covers(p, r)
  PROVE  Covered(p)'
<1>1. \A r : Covers(p, r)' <=> Covers(p, r)
  BY DEF Covers, Newest, ComparePlaces
<1>. QED
  BY <1>1 DEF Covered

(* A reader there makes a reading of their own, which nothing here has.    *)
LEMMA ReadTherePreserves ==
  ASSUME MirrorAssumption, IInv, NEW p \in Peers, NEW place \in TherePlaces, ReadThere(p, place)
  PROVE  IInv'
<1>0. PICK r : r = [id |-> reads + 1, at |-> now, frac |-> place.frac, cfi |-> place.cfi,
                    foreign |-> place.foreign, ours |-> FALSE]
  OBVIOUS
<1>1. /\ log' = log /\ cursor' = cursor /\ library' = library /\ worker' = worker /\ late' = late
      /\ now' = now /\ unsure' = unsure /\ reads' = reads + 1 /\ resets' = resets \ {p}
      /\ row' = [row EXCEPT ![p] = r] /\ UNCHANGED <<serverVars, library, now>>
      /\ given' = [given EXCEPT ![p] = @ \cup {row'[p]}] /\ Typed
  BY <1>0 DEF IInv, ReadThere, serverVars
<1>2. now \in Nat /\ reads \in Nat /\ unsure \in Nat
  BY <1>1 DEF Typed
<1>3. r \in Held /\ r.id = reads + 1 /\ r.at = now /\ r # NoRow
  BY <1>0, <1>2 DEF Held, Answers, Cfis, Foreigns, NoRow, MirrorAssumption
<1>4. /\ row'[p] = r /\ given'[p] = given[p] \cup {r}
      /\ \A q \in Peers : q # p => row'[q] = row[q] /\ given'[q] = given[q]
  BY <1>1 DEF Typed
<1>5. Typed'
  <2>1. row' \in [Peers -> Held \cup {NoRow}]
    BY <1>1, <1>3 DEF Typed
  <2>2. given' \in [Peers -> SUBSET Held]
    BY <1>1, <1>3, <1>4 DEF Typed
  <2>. QED
    BY <1>1, <1>2, <2>1, <2>2 DEF Typed
<1>6. /\ \A i \in DOMAIN log : log[i].id \in Nat /\ log[i].id <= reads
      /\ \A q \in Peers : row[q].id \in Nat /\ row[q].id <= reads
      /\ \A q \in Peers : Told(q) => worker[q].ans.id \in Nat /\ worker[q].ans.id <= reads
  <2>1. \A i \in DOMAIN log : log[i].id \in Nat
    <3>1. \A i \in DOMAIN log : log[i] \in Ops
      BY <1>1 DEF Typed
    <3>. QED
      BY <3>1 DEF Ops
  <2>2. \A q \in Peers : row[q].id \in Nat
    <3>1. \A q \in Peers : row[q] \in Held \cup {NoRow}
      BY <1>1 DEF Typed
    <3>. QED
      BY <3>1 DEF Held, Answers, NoRow
  <2>3. \A q \in Peers : Told(q) => worker[q].ans.id \in Nat
    <3>1. \A q \in Peers : Told(q) => worker[q].ans \in Answers \cup {NoRow}
      BY <1>1, WorkerShapes DEF Answered
    <3>. QED
      BY <3>1 DEF Answers, NoRow
  <2>. QED
    BY <2>1, <2>2, <2>3 DEF IInv, Bounded
<1>7. reads + 1 \notin Readings
  BY <1>2, <1>6 DEF Readings
<1>8. OneOrigin'
  <2>1. \A q \in Peers : Carried(q)' \subseteq Carried(q) \cup (IF q = p THEN {r} ELSE {})
    BY <1>1, <1>4 DEF Carried, Told
  <2>2. \A q \in Peers : \A x \in Carried(q) : x.id # reads + 1
    <3>1. SUFFICES ASSUME NEW q \in Peers, NEW x \in Carried(q)
                   PROVE  x.id # reads + 1
      OBVIOUS
    <3>2. x = row[q] \/ (Told(q) /\ x = worker[q].ans)
      BY DEF Carried
    <3>. QED
      BY <1>2, <1>6, <3>2
  <2>3. Readings' = Readings /\ OneOrigin
    BY <1>1 DEF IInv, Readings
  <2>4. SUFFICES ASSUME NEW a \in Peers, NEW b \in Peers, NEW x \in Carried(a)', NEW y \in Carried(b)'
                 PROVE  x.id \in Readings' \/ Alike(a, x, b, y)
    BY DEF OneOrigin, Alike, Bare
  <2>5. CASE x \in Carried(a) /\ y \in Carried(b)
    BY <2>3, <2>5 DEF OneOrigin
  <2>6. CASE x \notin Carried(a) \/ y \notin Carried(b)
    BY <1>3, <2>1, <2>2, <2>6 DEF Alike
  <2>. QED
    BY <2>5, <2>6
<1>9. Accounted'
  <2>1. \A q \in Peers : RowThreatens(q)' => Bare(q, row'[q]) \in Threats \cup {}
    <3>1. ~RowThreatens(p)'
      BY <1>1, <1>3, <1>4, <1>7 DEF RowThreatens, Again, Readings
    <3>2. SUFFICES ASSUME NEW q \in Peers, q # p, RowThreatens(q)'
                   PROVE  RowThreatens(q) /\ row'[q] = row[q]
      BY <3>1, ThreatsAre
    <3>3. row'[q] = row[q] /\ (q \in resets' <=> q \in resets)
      BY <1>1, <1>4, <3>2
    <3>. QED
      BY <1>1, <3>2, <3>3 DEF RowThreatens, Again, InLog, Bare, Readings, Known, MarkNow, CursorFor,
                              NoCursor, Sends, Mark
  <2>2. \A q \in Peers : AnswerThreatens(q)' => Bare(q, worker'[q].ans) \in Threats \cup {}
    BY <1>1, ThreatsAre DEF AnswerThreatens, Again, InLog, Bare, Readings, Told
  <2>3. IsFiniteSet({}) /\ Cardinality({}) + unsure <= unsure'
    BY <1>1, <1>2, FS_EmptySet
  <2>. QED
    BY <1>1, <1>5, <2>1, <2>2, <2>3, AccountStep DEF IInv
<1>10. log # <<>> => Covered(p)'
  <2>1. SUFFICES ASSUME log # <<>>
                 PROVE  Covers(p, r)'
    BY <1>4 DEF Covered, Covers, Newest, ComparePlaces
  <2>2. Len(log) \in DOMAIN log /\ Newest \in Ops
    BY <1>1, <2>1 DEF Typed, Newest
  <2>3. Newest.at <= now
    BY <2>2 DEF IInv, Bounded, Newest
  <2>. QED
    BY <1>1, <1>2, <1>3, <2>2, <2>3 DEF Covers, Newest, Ops
<1>11. \A q \in Peers : given[q] \subseteq given'[q] /\ (log # <<>> /\ Covered(q) => Covered(q)')
  <2>1. \A q \in Peers : q # p => (Covered(q) => Covered(q)')
    BY <1>1, <1>4, CoverKept
  <2>. QED
    BY <1>4, <1>10, <2>1
<1>12. WorkerSent(p)
  BY <1>1 DEF WorkerSent
<1>13. \A q \in Peers : row'[q] = row[q] \/
           (row'[q] \in given'[q] /\ row'[q].id <= reads' /\ row'[q].at <= now)
  BY <1>1, <1>2, <1>3, <1>4
<1>14. reads <= reads'
  BY <1>1, <1>2
<1>. QED
  BY <1>1, <1>4, <1>5, <1>8, <1>9, <1>10, <1>11, <1>12, <1>13, <1>14, LibraryStep

LEMMA ResetTherePreserves ==
  ASSUME MirrorAssumption, IInv, NEW p \in Peers, ResetThere(p)
  PROVE  IInv'
<1>1. /\ log' = log /\ cursor' = cursor /\ library' = library /\ worker' = worker /\ late' = late
      /\ row' = row /\ given' = given
      /\ now' = now /\ unsure' = unsure /\ reads' = reads /\ resets' = resets \cup {p} /\ p \notin CfiPeers
      /\ UNCHANGED <<serverVars, library, now>> /\ Typed
  BY DEF IInv, ResetThere, serverVars
<1>2. Typed' /\ reads <= reads' /\ WorkerSent(p)
  BY <1>1 DEF Typed, WorkerSent
<1>3. OneOrigin'
  <2>1. Readings' = Readings /\ \A q \in Peers : Carried(q)' \subseteq Carried(q)
    BY <1>1 DEF Readings, Carried, Told
  <2>. QED
    BY <2>1, OriginStep DEF IInv
<1>4. Accounted'
  <2>1. \A q \in Peers : RowThreatens(q)' => Bare(q, row'[q]) \in Threats \cup {}
    <3>1. SUFFICES ASSUME NEW q \in Peers, RowThreatens(q)'
                   PROVE  RowThreatens(q) /\ row'[q] = row[q]
      BY ThreatsAre
    <3>. QED
      BY <1>1, <3>1 DEF RowThreatens, Again, InLog, Bare, Readings, Known, MarkNow, CursorFor, NoCursor,
                        Sends, Mark
  <2>2. \A q \in Peers : AnswerThreatens(q)' => Bare(q, worker'[q].ans) \in Threats \cup {}
    BY <1>1, ThreatsAre DEF AnswerThreatens, Again, InLog, Bare, Readings, Told
  <2>3. IsFiniteSet({}) /\ Cardinality({}) + unsure <= unsure'
    BY <1>1, FS_EmptySet DEF Typed
  <2>. QED
    BY <1>1, <1>2, <2>1, <2>2, <2>3, AccountStep DEF IInv
<1>5. \A q \in Peers : Covered(q) => Covered(q)'
  BY <1>1, CoverKept
<1>. QED
  BY <1>1, <1>2, <1>3, <1>4, <1>5, LibraryStep

(* A position that reaches a library.                                      *)
LEMMA WriteIs ==
  ASSUME MirrorAssumption, Typed, Bounded, NEW p \in Peers, NEW op \in Ops, \E i \in DOMAIN log : op = log[i],
         Write(p, op), log' = log, now' = now
  PROVE  LET r == Written(p, op)
         IN /\ r \in Held /\ r.id = op.id /\ r.at <= now /\ r.id <= reads /\ op.id \in Readings
            /\ Mark(r) = Mark(IF p \in CfiPeers THEN op ELSE [op EXCEPT !.cfi = None])
            /\ row' \in [Peers -> Held \cup {NoRow}] /\ given' \in [Peers -> SUBSET Held]
            /\ row'[p] = r /\ given'[p] = given[p] \cup {r}
            /\ \A q \in Peers : q # p => row'[q] = row[q] /\ given'[q] = given[q]
<1>0. PICK r : r = Written(p, op)
  OBVIOUS
<1>1. now \in Nat /\ op.id \in Readings /\ op.id <= reads /\ op.at <= now
  BY DEF Typed, Bounded, Readings
<1>2. /\ r \in Held /\ r.id = op.id /\ r.at <= now
      /\ r.cfi = (IF p \in CfiPeers THEN op.cfi ELSE None) /\ r.foreign = op.foreign /\ r.frac = op.frac
  BY <1>0, <1>1 DEF Written, Held, Answers, Ops, Cfis
<1>3. Mark(r) = Mark(IF p \in CfiPeers THEN op ELSE [op EXCEPT !.cfi = None])
  BY <1>2 DEF Mark, Ops
<1>4. row' = [row EXCEPT ![p] = r] /\ given' = [given EXCEPT ![p] = @ \cup {r}]
  BY <1>0 DEF Write
<1>5. /\ row' \in [Peers -> Held \cup {NoRow}] /\ given' \in [Peers -> SUBSET Held]
      /\ row'[p] = r /\ given'[p] = given[p] \cup {r}
      /\ \A q \in Peers : q # p => row'[q] = row[q] /\ given'[q] = given[q]
  BY <1>2, <1>4 DEF Typed
<1>. QED
  BY <1>0, <1>1, <1>2, <1>3, <1>5

(* A reading of the log, carried by one more, is of one origin all the same. *)
LEMMA OriginOfSent ==
  ASSUME IInv, log' = log, NEW r, r.id \in Readings,
         \A q \in Peers : Carried(q)' \subseteq Carried(q) \cup {r}
  PROVE  OneOrigin'
<1>1. Readings' = Readings /\ OneOrigin
  BY DEF IInv, Readings
<1>2. SUFFICES ASSUME NEW a \in Peers, NEW b \in Peers, NEW x \in Carried(a)', NEW y \in Carried(b)'
               PROVE  x.id \in Readings \/ Alike(a, x, b, y)
  BY <1>1 DEF OneOrigin, Alike, Bare
<1>3. CASE x \in Carried(a) /\ y \in Carried(b)
  BY <1>1, <1>3 DEF OneOrigin
<1>4. CASE x = r \/ y = r
  BY <1>4 DEF Alike
<1>. QED
  BY <1>3, <1>4

(* A write that timed out arrives, and nobody will remember its mark.      *)
LEMMA DeliverLatePreserves ==
  ASSUME MirrorAssumption, IInv, NEW p \in Peers, DeliverLate(p)
  PROVE  IInv'
<1>0. PICK op : op = late[p]
  OBVIOUS
<1>1. /\ log' = log /\ cursor' = cursor /\ library' = library /\ worker' = worker /\ resets' = resets
      /\ now' = now /\ unsure' = unsure + 1 /\ reads' = reads /\ Write(p, op)
      /\ late' = [late EXCEPT ![p] = NoWrite] /\ op # NoWrite
      /\ UNCHANGED <<serverVars, library, now>> /\ Typed /\ Bounded
  BY <1>0 DEF IInv, DeliverLate, serverVars, clockVars
<1>2. op \in Ops /\ \E i \in DOMAIN log : op = log[i]
  BY <1>0, <1>1 DEF IInv, Sent, Typed
<1>3. PICK r : r = Written(p, op)
  OBVIOUS
<1>4. /\ r \in Held /\ r.id = op.id /\ r.at <= now /\ r.id <= reads /\ r.id \in Readings
      /\ row' \in [Peers -> Held \cup {NoRow}] /\ given' \in [Peers -> SUBSET Held]
      /\ row'[p] = r /\ given'[p] = given[p] \cup {r}
      /\ \A q \in Peers : q # p => row'[q] = row[q] /\ given'[q] = given[q]
  BY <1>1, <1>2, <1>3, WriteIs
<1>5. Typed' /\ reads <= reads' /\ WorkerSent(p) /\ unsure \in Nat
  <2>1. late' \in [Peers -> Ops \cup {NoWrite}]
    BY <1>1 DEF Typed
  <2>2. Typed' /\ reads <= reads' /\ unsure \in Nat
    BY <1>1, <1>4, <2>1 DEF Typed
  <2>. QED
    BY <1>1, <2>2 DEF WorkerSent
<1>6. OneOrigin'
  <2>1. \A q \in Peers : Carried(q)' \subseteq Carried(q) \cup {r}
    BY <1>1, <1>4 DEF Carried, Told
  <2>. QED
    BY <1>1, <1>4, <2>1, OriginOfSent
<1>7. Accounted'
  <2>1. \A q \in Peers : RowThreatens(q)' => Bare(q, row'[q]) \in Threats \cup {Bare(p, r)}
    <3>1. SUFFICES ASSUME NEW q \in Peers, q # p, RowThreatens(q)'
                   PROVE  RowThreatens(q) /\ row'[q] = row[q]
      BY <1>4, ThreatsAre
    <3>2. row'[q] = row[q]
      BY <1>4, <3>1
    <3>. QED
      BY <1>1, <3>1, <3>2 DEF RowThreatens, Again, InLog, Bare, Readings, Known, MarkNow, CursorFor,
                              NoCursor, Sends, Mark
  <2>2. \A q \in Peers : AnswerThreatens(q)' => Bare(q, worker'[q].ans) \in Threats \cup {Bare(p, r)}
    BY <1>1, ThreatsAre DEF AnswerThreatens, Again, InLog, Bare, Readings, Told
  <2>3. IsFiniteSet({Bare(p, r)}) /\ Cardinality({Bare(p, r)}) + unsure <= unsure'
    <3>1. \A x : IsFiniteSet({x}) /\ Cardinality({x}) = 1
      BY FS_Singleton
    <3>2. IsFiniteSet({Bare(p, r)}) /\ Cardinality({Bare(p, r)}) = 1
      BY <3>1
    <3>. QED
      BY <1>1, <1>5, <3>2
  <2>. QED
    BY <1>1, <1>5, <2>1, <2>2, <2>3, AccountStep DEF IInv
<1>8. \A q \in Peers : given[q] \subseteq given'[q] /\ (Covered(q) => Covered(q)')
  <2>1. \A q \in Peers : given[q] \subseteq given'[q]
    BY <1>4
  <2>. QED
    BY <1>1, <2>1, CoverKept
<1>9. Untouched(p) => Covered(p)'
  <2>1. SUFFICES ASSUME op.id = Newest.id
                 PROVE  Covered(p)'
    BY <1>0, <1>1 DEF Untouched
  <2>. QED
    BY <1>1, <1>4, <2>1 DEF Covered, Covers, Newest
<1>10. \A q \in Peers : row'[q] = row[q] \/
           (row'[q] \in given'[q] /\ row'[q].id <= reads' /\ row'[q].at <= now)
  BY <1>1, <1>4
<1>11. late'[p] = NoWrite /\ \A q \in Peers : q # p => late'[q] = late[q]
  BY <1>1 DEF Typed
<1>. QED
  BY <1>1, <1>4, <1>5, <1>6, <1>7, <1>8, <1>9, <1>10, <1>11, LibraryStep

(* A write its worker will remember is no threat.                          *)
LEMMA ArrivePreserves ==
  ASSUME MirrorAssumption, IInv, NEW p \in Peers, Arrive(p)
  PROVE  IInv'
<1>0. PICK op : op = worker[p].op
  OBVIOUS
<1>1. /\ log' = log /\ cursor' = cursor /\ library' = library /\ resets' = resets /\ late' = late
      /\ now' = now /\ unsure' = unsure /\ reads' = reads /\ Write(p, op)
      /\ worker[p].stage = "pushing" /\ worker' = [worker EXCEPT ![p].stage = "arrived"]
      /\ UNCHANGED <<serverVars, library, now>> /\ Typed /\ Bounded
  BY <1>0 DEF IInv, Arrive, serverVars, clockVars
<1>2. worker[p] \in Pushing /\ Busy(p) /\ Sending(p) /\ ~Told(p)
  BY <1>1, WorkerShapes DEF Sending, Told
<1>3. op \in Ops /\ \E i \in DOMAIN log : op = log[i]
  BY <1>0, <1>2 DEF IInv, Sent, Pushing
<1>4. PICK r : r = Written(p, op)
  OBVIOUS
<1>5. /\ r \in Held /\ r.id = op.id /\ r.at <= now /\ r.id <= reads /\ r.id \in Readings
      /\ Mark(r) = Mark(Sends(p))
      /\ row' \in [Peers -> Held \cup {NoRow}] /\ given' \in [Peers -> SUBSET Held]
      /\ row'[p] = r /\ given'[p] = given[p] \cup {r}
      /\ \A q \in Peers : q # p => row'[q] = row[q] /\ given'[q] = given[q]
  BY <1>0, <1>1, <1>3, <1>4, WriteIs DEF Sends
<1>6. /\ worker'[p] = [worker[p] EXCEPT !.stage = "arrived"] /\ worker'[p] \in Pushing
      /\ worker'[p].stage = "arrived" /\ worker'[p].op = worker[p].op /\ worker'[p] # Idle
      /\ \A q \in Peers : q # p => worker'[q] = worker[q]
  BY <1>1, <1>2 DEF Typed, Pushing, Idle
<1>7. WorkerSent(p)
  BY <1>0, <1>1, <1>5, <1>6 DEF WorkerSent
<1>8. Typed' /\ reads <= reads' /\ unsure \in Nat
  <2>1. worker' \in [Peers -> {Idle} \cup Asking \cup Answered \cup Pushing \cup Ended]
    BY <1>1, <1>6 DEF Typed
  <2>. QED
    BY <1>1, <1>5, <2>1 DEF Typed
<1>9. OneOrigin'
  <2>1. \A q \in Peers : Carried(q)' \subseteq Carried(q) \cup {r}
    BY <1>1, <1>5, <1>6 DEF Carried, Told
  <2>. QED
    BY <1>1, <1>5, <2>1, OriginOfSent
<1>10. Accounted'
  <2>1. MarkNow(p)' = Mark(r)
    BY <1>5, <1>6 DEF MarkNow, Sends, Mark
  <2>2. ~RowThreatens(p)'
    BY <1>5, <2>1 DEF RowThreatens, Known, Mark
  <2>3. \A q \in Peers : RowThreatens(q)' => Bare(q, row'[q]) \in Threats \cup {}
    <3>1. SUFFICES ASSUME NEW q \in Peers, q # p, RowThreatens(q)'
                   PROVE  RowThreatens(q) /\ row'[q] = row[q]
      BY <2>2, ThreatsAre
    <3>2. row'[q] = row[q] /\ worker'[q] = worker[q]
      BY <1>5, <1>6, <3>1
    <3>. QED
      BY <1>1, <3>1, <3>2 DEF RowThreatens, Again, InLog, Bare, Readings, Known, MarkNow, CursorFor,
                              NoCursor, Sends, Mark
  <2>4. \A q \in Peers : AnswerThreatens(q)' => Bare(q, worker'[q].ans) \in Threats \cup {}
    <3>1. SUFFICES ASSUME NEW q \in Peers, AnswerThreatens(q)'
                   PROVE  AnswerThreatens(q) /\ worker'[q] = worker[q]
      BY ThreatsAre
    <3>2. worker'[q] = worker[q]
      BY <1>6, <3>1 DEF AnswerThreatens, Told
    <3>. QED
      BY <1>1, <3>1, <3>2 DEF AnswerThreatens, Again, InLog, Bare, Readings, Told
  <2>5. IsFiniteSet({}) /\ Cardinality({}) + unsure <= unsure'
    BY <1>1, <1>8, FS_EmptySet
  <2>. QED
    BY <1>1, <1>8, <2>3, <2>4, <2>5, AccountStep DEF IInv
<1>11. \A q \in Peers : given[q] \subseteq given'[q] /\ (Covered(q) => Covered(q)')
  <2>1. \A q \in Peers : given[q] \subseteq given'[q]
    BY <1>5
  <2>. QED
    BY <1>1, <2>1, CoverKept
<1>12. Untouched(p) => Covered(p)'
  <2>1. SUFFICES ASSUME op.id = Newest.id
                 PROVE  Covered(p)'
    BY <1>0, <1>2 DEF Untouched
  <2>. QED
    BY <1>1, <1>5, <2>1 DEF Covered, Covers, Newest
<1>13. \A q \in Peers : row'[q] = row[q] \/
           (row'[q] \in given'[q] /\ row'[q].id <= reads' /\ row'[q].at <= now)
  BY <1>1, <1>5
<1>. QED
  BY <1>1, <1>5, <1>6, <1>7, <1>8, <1>9, <1>10, <1>11, <1>12, <1>13, LibraryStep

(* A push that fails was heard of, or may still be, and is accounted for.  *)
LEMMA PushFailsPreserves ==
  ASSUME MirrorAssumption, IInv, NEW p \in Peers, PushFails(p)
  PROVE  IInv'
<1>1. /\ log' = log /\ cursor' = cursor /\ library' = library /\ resets' = resets /\ row' = row
      /\ given' = given /\ now' = now /\ reads' = reads /\ worker[p].stage \in {"pushing", "arrived"}
      /\ unsure' = (IF worker[p].stage = "arrived" THEN unsure + 1 ELSE unsure)
      /\ worker' = [worker EXCEPT ![p] = Finished(worker[p].cur)]
      /\ late' = late \/ late' = [late EXCEPT ![p] = worker[p].op]
      /\ UNCHANGED <<serverVars, library, now>> /\ Typed
  BY DEF IInv, PushFails, serverVars, peerVars, clockVars
<1>2. /\ Busy(p) /\ Sending(p) /\ ~Told(p) /\ worker[p].cur \in Cursors /\ worker[p].op \in Ops
      /\ unsure \in Nat
  BY <1>1, WorkerShapes DEF Sending, Told, Pushing, Typed
<1>3. /\ worker'[p] = Finished(worker[p].cur) /\ worker'[p] \in Ended /\ worker'[p].stage = "done"
      /\ worker'[p].cur = worker[p].cur /\ worker'[p] # Idle
      /\ \A q \in Peers : q # p => worker'[q] = worker[q]
  BY <1>1, <1>2 DEF Typed, Finished, Ended, Idle
<1>4. WorkerSent(p)
  BY <1>2, <1>3 DEF WorkerSent
<1>5. Typed' /\ reads <= reads'
  <2>1. worker' \in [Peers -> {Idle} \cup Asking \cup Answered \cup Pushing \cup Ended]
    BY <1>1, <1>3 DEF Typed
  <2>2. late' \in [Peers -> Ops \cup {NoWrite}]
    BY <1>1, <1>2 DEF Typed
  <2>. QED
    BY <1>1, <1>2, <2>1, <2>2 DEF Typed
<1>6. OneOrigin'
  <2>1. Readings' = Readings /\ \A q \in Peers : Carried(q)' \subseteq Carried(q)
    BY <1>1, <1>3 DEF Readings, Carried, Told
  <2>. QED
    BY <2>1, OriginStep DEF IInv
<1>7. Accounted'
  <2>. DEFINE E == IF worker[p].stage = "arrived" THEN {Bare(p, row[p])} ELSE {}
  <2>1. \A q \in Peers : RowThreatens(q)' => Bare(q, row'[q]) \in Threats \cup E
    <3>1. SUFFICES ASSUME NEW q \in Peers, q # p \/ worker[p].stage # "arrived", RowThreatens(q)'
                   PROVE  RowThreatens(q)
      BY <1>1, ThreatsAre
    <3>2. MarkNow(q)' = MarkNow(q)
      <4>1. q = p => MarkNow(q)' = MarkNow(q)
        BY <1>2, <1>3, <3>1 DEF MarkNow, Busy
      <4>2. q # p => worker'[q] = worker[q] /\ CursorFor(q)' = CursorFor(q)
        BY <1>1, <1>3 DEF CursorFor, NoCursor
      <4>3. q # p => MarkNow(q)' = MarkNow(q)
        BY <4>2 DEF MarkNow, Sends, Mark
      <4>. QED
        BY <4>1, <4>3
    <3>. QED
      BY <1>1, <3>1, <3>2 DEF RowThreatens, Again, InLog, Bare, Readings, Known, Mark
  <2>2. \A q \in Peers : AnswerThreatens(q)' => Bare(q, worker'[q].ans) \in Threats \cup E
    <3>1. SUFFICES ASSUME NEW q \in Peers, AnswerThreatens(q)'
                   PROVE  AnswerThreatens(q) /\ worker'[q] = worker[q]
      BY ThreatsAre
    <3>2. worker'[q] = worker[q]
      BY <1>3, <3>1 DEF AnswerThreatens, Told
    <3>. QED
      BY <1>1, <3>1, <3>2 DEF AnswerThreatens, Again, InLog, Bare, Readings, Told
  <2>3. IsFiniteSet(E) /\ Cardinality(E) + unsure <= unsure'
    <3>1. \A x : IsFiniteSet({x}) /\ Cardinality({x}) = 1
      BY FS_Singleton
    <3>2. IsFiniteSet({Bare(p, row[p])}) /\ Cardinality({Bare(p, row[p])}) = 1
      BY <3>1
    <3>3. IsFiniteSet({}) /\ Cardinality({}) = 0
      BY FS_EmptySet
    <3>. QED
      BY <1>1, <1>2, <3>2, <3>3
  <2>. HIDE DEF E
  <2>. QED
    BY <1>1, <1>5, <2>1, <2>2, <2>3, AccountStep DEF IInv
<1>8. \A q \in Peers : given[q] \subseteq given'[q] /\ (Covered(q) => Covered(q)')
  BY <1>1, CoverKept
<1>9. /\ late'[p] \in {late[p], NoWrite} \/ late'[p] = worker[p].op
      /\ \A q \in Peers : q # p => late'[q] = late[q]
  BY <1>1 DEF Typed
<1>. QED
  BY <1>1, <1>2, <1>3, <1>4, <1>5, <1>6, <1>7, <1>8, <1>9, LibraryStep

-----------------------------------------------------------------------------
(* The process stops: what the workers held is gone, and of the peers in   *)
(* Moved the libraries are others since.                                   *)
LEMMA StopStep ==
  ASSUME MirrorAssumption, IInv, NEW Moved \in SUBSET Peers,
         UNCHANGED <<serverVars, now, reads>>,
         worker' = [q \in Peers |-> Idle], unsure' = unsure + Cardinality(Unsaved \ Moved),
         Typed',
         \A q \in Peers \ Moved : /\ row'[q] = row[q] /\ library'[q] = library[q] /\ given'[q] = given[q]
                                  /\ late'[q] = late[q] /\ (q \in resets' <=> q \in resets),
         \A q \in Moved : /\ row'[q] = NoRow /\ library'[q] = library[q] + 1 /\ given'[q] = {}
                          /\ late'[q] = NoWrite
  PROVE  IInv'
<1>1. /\ log' = log /\ cursor' = cursor /\ now' = now /\ reads' = reads /\ Typed /\ unsure \in Nat
      /\ Newest' = Newest
  BY DEF IInv, serverVars, Newest, Typed
<1>2. \A q \in Peers : /\ worker'[q] = Idle /\ ~Told(q)' /\ ~Sending(q)' /\ ~Busy(q)'
                       /\ worker'[q].stage = "idle"
  BY DEF Told, Sending, Busy, Idle
<1>3. \A q \in Peers : library[q] \in Nat /\ row[q].id \in Nat
  <2>1. \A q \in Peers : row[q] \in Held \cup {NoRow}
    BY <1>1 DEF Typed
  <2>. QED
    BY <1>1, <2>1 DEF Typed, Held, Answers, NoRow
<1>4. \A q \in Peers \ Moved : CursorFor(q)' = CursorFor(q)
  BY <1>1 DEF CursorFor, NoCursor
<1>5. Bounded'
  <2>1. \A q \in Peers : row'[q].id <= reads' /\ (row'[q].id # 0 => row'[q].at <= now')
    <3>1. \A q \in Moved : row'[q].id = 0
      BY DEF NoRow
    <3>. QED
      BY <1>1, <3>1 DEF IInv, Bounded, Typed
  <2>. QED
    BY <1>1, <1>2, <2>1 DEF IInv, Bounded, Told
<1>6. Sent' /\ OneTakes' /\ MarkKept' /\ ResetsTold'
  BY <1>1, <1>2 DEF IInv, Sent, OneTakes, MarkKept, ResetsTold, Sending, Told, Busy
<1>7. Addressed'
  <2>1. \A q \in Peers : cursor[q].library \in Nat
    BY <1>1 DEF Typed, Cursors
  <2>. QED
    BY <1>1, <1>2, <1>3, <2>1 DEF IInv, Addressed, Busy
<1>8. OneOrigin'
  <2>1. Readings' = Readings /\ \A q \in Peers : Carried(q)' \subseteq Carried(q)
    BY <1>1, <1>2 DEF Readings, Carried, Told, NoRow
  <2>. QED
    BY <2>1, OriginStep DEF IInv
<1>9. \A q \in Peers : RowThreatens(q)' => q \notin Moved /\ (RowThreatens(q) \/ q \in Unsaved \ Moved)
  <2>1. SUFFICES ASSUME NEW q \in Peers, RowThreatens(q)', ~RowThreatens(q)
                 PROVE  q \in Unsaved \ Moved
    BY DEF RowThreatens
  <2>2. q \notin Moved /\ row'[q] = row[q] /\ CursorFor(q)' = CursorFor(q)
    BY <1>4, <2>1 DEF RowThreatens
  <2>3. /\ q \notin resets /\ row[q] # NoRow /\ Again(q, row[q]) /\ ~(q \notin CfiPeers /\ row[q].ours)
        /\ MarkNow(q)' # Mark(row[q])
    BY <1>1, <2>1, <2>2 DEF RowThreatens, Again, InLog, Bare, Readings, Known, Mark
  <2>4. MarkNow(q) = Mark(row[q])
    BY <2>1, <2>3 DEF RowThreatens, Known
  <2>5. CursorFor(q).mark # Mark(row[q])
    BY <1>2, <2>2, <2>3 DEF MarkNow
  <2>6. Mark(row[q]) # None
    <3>1. row[q] \in Answers
      BY <1>1, <2>3 DEF Typed, Held
    <3>. QED
      BY <3>1, MarkTyped DEF Answers
  <2>7. Busy(q) /\ (worker[q].stage # "arrived" => worker[q].cur.mark = Mark(row[q]))
    BY <2>4, <2>5 DEF MarkNow, Busy
  <2>8. CASE worker[q].stage = "arrived"
    BY <2>2, <2>8 DEF Unsaved
  <2>9. CASE worker[q].stage # "arrived"
    <3>1. worker[q].stage = "done"
      BY <2>5, <2>6, <2>7, <2>9 DEF IInv, MarkKept
    <3>. QED
      BY <2>2, <2>5, <2>6, <2>7, <2>9, <3>1 DEF Unsaved
  <2>. QED
    BY <2>8, <2>9
<1>10. Accounted'
  <2>. DEFINE S == Unsaved \ Moved
              f == [q \in S |-> Bare(q, row[q])]
              E == {f[q] : q \in S}
  <2>1. IsFiniteSet(S)
    BY FS_Subset DEF MirrorAssumption, Unsaved
  <2>2. \A q \in S : f[q] = Bare(q, row[q])
    OBVIOUS
  <2>. HIDE DEF f
  <2>3. IsFiniteSet(E) /\ Cardinality(E) <= Cardinality(S)
    BY <2>1, ImageIsFinite
  <2>4. \A q \in Peers : RowThreatens(q)' => Bare(q, row'[q]) \in Threats \cup E
    <3>1. SUFFICES ASSUME NEW q \in Peers, RowThreatens(q)'
                   PROVE  Bare(q, row'[q]) \in Threats \cup E
      OBVIOUS
    <3>2. row'[q] = row[q] /\ (RowThreatens(q) \/ q \in S)
      BY <1>9, <3>1
    <3>3. CASE RowThreatens(q)
      BY <3>2, <3>3, ThreatsAre
    <3>4. CASE q \in S
      BY <2>2, <3>2, <3>4
    <3>. QED
      BY <3>2, <3>3, <3>4
  <2>5. \A q \in Peers : AnswerThreatens(q)' => Bare(q, worker'[q].ans) \in Threats \cup E
    BY <1>2 DEF AnswerThreatens, Told
  <2>6. Cardinality(E) + unsure <= unsure'
    <3>1. Cardinality(E) \in Nat /\ Cardinality(S) \in Nat
      BY <2>1, <2>3, FS_CardinalityType
    <3>. QED
      BY <1>1, <2>3, <3>1
  <2>. HIDE DEF E
  <2>. QED
    BY <1>1, <2>3, <2>4, <2>5, <2>6, AccountStep DEF IInv
<1>11. RowsAreGiven' /\ CoveredHere'
  BY <1>1, <1>2 DEF IInv, RowsAreGiven, CoveredHere, Told, Busy
<1>12. \A q \in Peers \ Moved : Covered(q)' <=> Covered(q)
  BY <1>1 DEF Covered, Covers, Newest, ComparePlaces
<1>13. FromElsewhere'
  <2>1. SUFFICES ASSUME NEW q \in Peers, log # <<>>, Newest.dev = q, ~Covered(q)'
                 PROVE  Untouched(q)'
    BY <1>1 DEF FromElsewhere
  <2>2. CursorNow(q)' = CursorFor(q)'
    BY <1>2 DEF CursorNow
  <2>3. CASE q \in Moved
    <3>1. CursorFor(q)' = NoCursor(q)'
      BY <1>1, <1>3, <1>7, <2>3 DEF IInv, Addressed, CursorFor, Typed, Cursors
    <3>2. Fresh(CursorFor(q)') /\ Fresh(CursorNow(q)')
      BY <2>2, <3>1 DEF Fresh, NoCursor
    <3>. QED
      BY <1>2, <2>3, <3>2 DEF Untouched, Fresh, CursorFor, CursorNow, NoCursor, Told, Sending
  <2>4. CASE q \notin Moved
    <3>1. Untouched(q)
      BY <1>12, <2>1, <2>4 DEF IInv, FromElsewhere
    <3>2. Fresh(CursorFor(q)') /\ Fresh(CursorNow(q)')
      BY <1>4, <2>2, <2>4, <3>1 DEF Untouched
    <3>. QED
      BY <1>1, <1>2, <2>4, <3>1, <3>2 DEF Untouched, Fresh, CursorFor, CursorNow, NoCursor, Told, Sending
  <2>. QED
    BY <2>3, <2>4
<1>14. NothingWithheld'
  <2>1. NothingWithheld <=> \A q \in Peers : log # <<>> /\ cursor[q].library = library[q]
                                 /\ cursor[q].pushed = Len(log) => Covered(q)
    BY DEF NothingWithheld, Covered
  <2>2. NothingWithheld' <=> \A q \in Peers : log' # <<>> /\ cursor'[q].library = library'[q]
                                 /\ cursor'[q].pushed = Len(log') => Covered(q)'
    BY DEF NothingWithheld, Covered
  <2>3. \A q \in Moved : cursor[q].library # library'[q]
    <3>1. \A q \in Peers : cursor[q].library \in Nat
      BY <1>1 DEF Typed, Cursors
    <3>. QED
      BY <1>3, <3>1 DEF IInv, Addressed
  <2>. QED
    BY <1>1, <1>12, <2>1, <2>2, <2>3 DEF IInv
<1>. QED
  BY <1>5, <1>6, <1>7, <1>8, <1>10, <1>11, <1>13, <1>14 DEF IInv

LEMMA RestartPreserves ==
  ASSUME MirrorAssumption, IInv, Restart
  PROVE  IInv'
<1>1. /\ UNCHANGED <<serverVars, now, reads>> /\ Typed
      /\ log' = log /\ cursor' = cursor
      /\ row' = row /\ library' = library /\ given' = given /\ late' = late /\ resets' = resets
      /\ worker' = [q \in Peers |-> Idle] /\ unsure' = unsure + Cardinality(Unsaved)
  BY DEF IInv, Restart, peerVars, clockVars, serverVars
<1>2. IsFiniteSet(Unsaved) /\ Unsaved \ {} = Unsaved
  BY FS_Subset DEF MirrorAssumption, Unsaved
<1>3. Typed'
  <2>1. unsure' \in Nat
    BY <1>1, <1>2, FS_CardinalityType DEF Typed
  <2>. QED
    BY <1>1, <2>1 DEF Typed
<1>4. {} \in SUBSET Peers
  OBVIOUS
<1>. QED
  BY <1>1, <1>2, <1>3, <1>4, StopStep

LEMMA RepointPreserves ==
  ASSUME MirrorAssumption, IInv, NEW p \in Peers, Repoint(p)
  PROVE  IInv'
<1>1. /\ UNCHANGED <<serverVars, now, reads>> /\ Typed
      /\ log' = log /\ cursor' = cursor
      /\ row' = [row EXCEPT ![p] = NoRow] /\ library' = [library EXCEPT ![p] = @ + 1]
      /\ given' = [given EXCEPT ![p] = {}] /\ late' = [late EXCEPT ![p] = NoWrite]
      /\ resets' = resets \ {p}
      /\ worker' = [q \in Peers |-> Idle] /\ unsure' = unsure + Cardinality(Unsaved \ {p})
  BY DEF IInv, Repoint, serverVars
<1>2. IsFiniteSet(Unsaved \ {p})
  BY FS_Subset DEF MirrorAssumption, Unsaved
<1>3. Typed'
  <2>1. unsure' \in Nat
    BY <1>1, <1>2, FS_CardinalityType DEF Typed
  <2>2. /\ row' \in [Peers -> Held \cup {NoRow}] /\ library' \in [Peers -> Nat]
        /\ given' \in [Peers -> SUBSET Held] /\ late' \in [Peers -> Ops \cup {NoWrite}]
    BY <1>1 DEF Typed
  <2>. QED
    BY <1>1, <2>1, <2>2 DEF Typed
<1>4. /\ {p} \in SUBSET Peers
      /\ \A q \in Peers \ {p} : /\ row'[q] = row[q] /\ library'[q] = library[q] /\ given'[q] = given[q]
                                /\ late'[q] = late[q] /\ (q \in resets' <=> q \in resets)
      /\ \A q \in {p} : /\ row'[q] = NoRow /\ library'[q] = library[q] + 1 /\ given'[q] = {}
                        /\ late'[q] = NoWrite
  BY <1>1 DEF Typed
<1>. QED
  BY <1>1, <1>3, <1>4, StopStep

-----------------------------------------------------------------------------
LEMMA StutterPreserves ==
  ASSUME IInv, UNCHANGED vars
  PROVE  IInv'
<1>1. /\ log' = log /\ cursor' = cursor /\ row' = row /\ resets' = resets /\ library' = library
      /\ given' = given /\ worker' = worker /\ late' = late /\ now' = now /\ reads' = reads
      /\ unsure' = unsure
  BY DEF vars, serverVars, peerVars, clockVars
<1>2. Typed' /\ Bounded' /\ Sent' /\ Addressed' /\ OneTakes'
  BY <1>1 DEF IInv, Typed, Bounded, Sent, Sending, Told, Addressed, Busy, Fresh, OneTakes, Newest
<1>3. Readings' = Readings /\ Threats' = Threats
  BY <1>1 DEF Readings, Threats, RowThreatens, AnswerThreatens, Again, InLog, Bare, Known, MarkNow,
              CursorFor, NoCursor, Sends, Mark, Told
<1>4. Accounted' /\ MarkKept' /\ ResetsTold'
  BY <1>1, <1>3 DEF IInv, Accounted, MarkKept, ResetsTold, Busy, CursorFor, NoCursor, Told, IsReset
<1>5. OneOrigin'
  <2>1. \A q \in Peers : Carried(q)' \subseteq Carried(q)
    BY <1>1 DEF Carried, Told
  <2>. QED
    BY <1>3, <2>1, OriginStep DEF IInv
<1>6. RowsAreGiven' /\ CoveredHere' /\ NothingWithheld'
  BY <1>1 DEF IInv, RowsAreGiven, CoveredHere, NothingWithheld, Covered, Covers, Newest, ComparePlaces,
              Told, Busy
<1>7. FromElsewhere'
  BY <1>1 DEF IInv, FromElsewhere, Untouched, Covered, Covers, Newest, ComparePlaces, CursorNow,
              CursorFor, NoCursor, Fresh, Told, Sending
<1>. QED
  BY <1>2, <1>4, <1>5, <1>6, <1>7 DEF IInv

LEMMA InitHolds ==
  ASSUME MirrorAssumption, Init
  PROVE  IInv
<1>1. /\ log = <<>> /\ Len(log) = 0 /\ DOMAIN log = {} /\ now = 1 /\ reads = 0 /\ unsure = 0 /\ resets = {}
      /\ \A p \in Peers : /\ row[p] = NoRow /\ library[p] = 0 /\ late[p] = NoWrite /\ worker[p] = Idle
                          /\ cursor[p] = [pushed |-> 0, ts |-> 0, mark |-> None, library |-> 0]
  BY DEF Init
<1>2. \A p \in Peers : ~Told(p) /\ ~Sending(p) /\ ~Busy(p) /\ worker[p].stage = "idle"
  BY <1>1 DEF Told, Sending, Busy, Idle
<1>3. Typed
  <2>1. [pushed |-> 0, ts |-> 0, mark |-> None, library |-> 0] \in Cursors
    BY DEF Cursors, Marks
  <2>. QED
    BY <2>1 DEF Init, Typed
<1>4. Bounded /\ Sent /\ Addressed /\ OneTakes
  BY <1>1, <1>2 DEF Bounded, Sent, Addressed, OneTakes, NoRow
<1>5. Accounted
  <2>1. Threats = {}
    BY <1>1, <1>2 DEF Threats, RowThreatens, AnswerThreatens
  <2>2. Readings = {} /\ Cardinality({}) = 0
    BY <1>1, FS_EmptySet DEF Readings
  <2>. QED
    BY <1>1, <2>1, <2>2 DEF Accounted
<1>6. OneOrigin
  BY <1>1, <1>2 DEF OneOrigin, Carried, NoRow
<1>7. MarkKept /\ ResetsTold /\ RowsAreGiven
  BY <1>1, <1>2 DEF MarkKept, ResetsTold, RowsAreGiven
<1>8. CoveredHere /\ FromElsewhere /\ NothingWithheld
  BY <1>1 DEF CoveredHere, FromElsewhere, NothingWithheld
<1>. QED
  BY <1>3, <1>4, <1>5, <1>6, <1>7, <1>8 DEF IInv

(* A worker that takes displaces only what is older, or was made here.     *)
LEMMA TakenIsNewer ==
  ASSUME MirrorAssumption, IInv, [Next]_vars
  PROVE  Taken /\ Newest.dev # Here => log'[Len(log')].at > Newest.at
<1>1. SUFFICES ASSUME Taken, Newest.dev # Here
               PROVE  log'[Len(log')].at > Newest.at
  OBVIOUS
<1>2. Typed /\ Len(log) \in Nat /\ log' # log
  BY <1>1 DEF IInv, Typed, Taken
<1>3. CASE \E place \in HerePlaces : ReadHere(place)
  <2>1. PICK place \in HerePlaces, at \in {t \in now - Late .. now : t > 0} : log' = Append(log, NextOp(place, at))
    BY <1>3 DEF ReadHere
  <2>2. log'[Len(log')] = NextOp(place, at)
    BY <1>2, <2>1 DEF Typed
  <2>. QED
    BY <1>1, <2>2 DEF Taken, NextOp
<1>4. CASE \E p \in Peers : Apply(p)
  <2>1. PICK p \in Peers : Apply(p)
    BY <1>4
  <2>2. log' = Append(log, Inbound(p, worker[p].ans)) /\ worker[p].stage = "taking"
    BY <1>2, <2>1 DEF Apply, AppendOnce
  <2>3. log'[Len(log')] = Inbound(p, worker[p].ans)
    BY <1>2, <2>2 DEF Typed
  <2>. QED
    BY <1>1, <2>2, <2>3 DEF IInv, OneTakes, Inbound
<1>5. CASE Tick \/ Restart \/ \E p \in Peers, place \in TherePlaces : ReadThere(p, place)
  BY <1>2, <1>5 DEF Tick, Restart, ReadThere, serverVars
<1>6. CASE \E p \in Peers : ResetThere(p) \/ DeliverLate(p) \/ Repoint(p)
  BY <1>2, <1>6 DEF ResetThere, DeliverLate, Repoint, serverVars
<1>7. CASE \E p \in Peers : PullFails(p) \/ PushFails(p) \/ PushNotHeld(p) \/ Pull(p) \/ Arrive(p) \/ PushSucceeds(p)
  BY <1>2, <1>7 DEF PullFails, PushFails, PushNotHeld, Pull, Arrive, PushSucceeds, serverVars
<1>8. CASE \E p \in Peers : Begin(p) \/ SettleOwing(p) \/ SettleTaking(p) \/ SettleNothing(p) \/ PutCursor(p)
  BY <1>2, <1>8 DEF Begin, SettleOwing, SettleTaking, SettleNothing, PutCursor, serverVars
<1>9. CASE UNCHANGED vars
  BY <1>2, <1>9 DEF vars, serverVars
<1>. QED
  BY <1>3, <1>4, <1>5, <1>6, <1>7, <1>8, <1>9 DEF Next, WorkerStep, OnItsOwn

LEMMA NextPreserves ==
  ASSUME MirrorAssumption, IInv, [Next]_vars
  PROVE  IInv'
<1>1. CASE \E place \in HerePlaces : ReadHere(place)
  BY <1>1, ReadHerePreserves
<1>2. CASE \E p \in Peers, place \in TherePlaces : ReadThere(p, place)
  BY <1>2, ReadTherePreserves
<1>3. CASE \E p \in Peers : ResetThere(p) \/ DeliverLate(p) \/ Repoint(p)
  BY <1>3, ResetTherePreserves, DeliverLatePreserves, RepointPreserves
<1>4. CASE \E p \in Peers : PullFails(p) \/ PushFails(p) \/ PushNotHeld(p)
  BY <1>4, PullFailsPreserves, PushFailsPreserves, PushNotHeldPreserves
<1>5. CASE \E p \in Peers : Pull(p) \/ Arrive(p) \/ PushSucceeds(p)
  BY <1>5, PullPreserves, ArrivePreserves, PushSucceedsPreserves
<1>6. CASE \E p \in Peers : Begin(p) \/ SettleOwing(p) \/ SettleTaking(p) \/ SettleNothing(p)
  BY <1>6, BeginPreserves, SettleOwingPreserves, SettleTakingPreserves, SettleNothingPreserves
<1>7. CASE \E p \in Peers : Apply(p) \/ PutCursor(p)
  BY <1>7, ApplyPreserves, PutCursorPreserves
<1>8. CASE Tick \/ Restart
  BY <1>8, TickPreserves, RestartPreserves
<1>9. CASE UNCHANGED vars
  BY <1>9, StutterPreserves
<1>. QED
  BY <1>1, <1>2, <1>3, <1>4, <1>5, <1>6, <1>7, <1>8, <1>9 DEF Next, WorkerStep, OnItsOwn

(* The invariant holds of every behaviour: whatever the peers do to what   *)
(* they are sent (mirror/sync.go exchange, settle, push and apply).        *)
THEOREM MirrorInvariant == MirrorAssumption /\ Spec => []IInv
<1>1. SUFFICES ASSUME MirrorAssumption
               PROVE  Spec => []IInv
  OBVIOUS
<1>2. Init => IInv
  BY <1>1, InitHolds
<1>3. IInv /\ [Next]_vars => IInv'
  BY <1>1, NextPreserves
<1>. QED
  BY <1>2, <1>3, PTL DEF Spec

(* ADR-0048: whatever is lost, delayed or restamped, and however many      *)
(* peers pass a position round, the log repeats a reading no more often    *)
(* than a write reached a peer and went unrecorded (mirror/sync.go push).  *)
THEOREM ReturnsBounded == MirrorAssumption /\ Spec => []ReturnsAreBounded
<1>1. SUFFICES ASSUME MirrorAssumption
               PROVE  Spec => []ReturnsAreBounded
  OBVIOUS
<1>2. IInv => ReturnsAreBounded
  <2>1. SUFFICES ASSUME IInv
                 PROVE  ReturnsAreBounded
    OBVIOUS
  <2>2. /\ Len(log) \in Nat /\ unsure \in Nat
        /\ Cardinality(Readings) \in Nat /\ Cardinality(Threats) \in Nat
    BY <1>1, <2>1, SidesAreFinite DEF IInv
  <2>. QED
    BY <2>1, <2>2 DEF IInv, Accounted, ReturnsAreBounded
<1>3. Spec => []IInv
  BY <1>1, MirrorInvariant
<1>. QED
  BY <1>2, <1>3, PTL

(* A worker that will send the newest position no more has a reason, even  *)
(* where its answer was stale by the time it settled, a reset was taken    *)
(* back, or the mirror leads to another library (mirror/sync.go settle).   *)
THEOREM NothingIsWithheld == MirrorAssumption /\ Spec => []NothingWithheld
<1>1. IInv => NothingWithheld
  BY DEF IInv
<1>. QED
  BY <1>1, MirrorInvariant, PTL

(* Newest wins among peers: between deciding to take a position and        *)
(* appending it no other worker's newer one is displaced, for the lock of  *)
(* the account keeps the other workers out (mirror/sync.go accountLocks).  *)
THEOREM NewestPeer == MirrorAssumption /\ Spec => NewestPeerWins
<1>1. SUFFICES ASSUME MirrorAssumption
               PROVE  Spec => NewestPeerWins
  OBVIOUS
<1>2. IInv /\ [Next]_vars => [Taken /\ Newest.dev # Here => log'[Len(log')].at > Newest.at]_vars
  BY <1>1, TakenIsNewer
<1>3. Spec => []IInv
  BY <1>1, MirrorInvariant
<1>. QED
  BY <1>2, <1>3, PTL DEF Spec, NewestPeerWins

(* ADR-0047: as long as every write that reached a peer was recorded, what *)
(* goes out does not come back at all.                                     *)
THEOREM NoEchoOfTheRecorded == MirrorAssumption /\ Spec => [](unsure = 0 => NoEcho)
<1>1. SUFFICES ASSUME MirrorAssumption
               PROVE  Spec => [](unsure = 0 => NoEcho)
  OBVIOUS
<1>2. IInv => (unsure = 0 => NoEcho)
  <2>1. SUFFICES ASSUME IInv, unsure = 0
                 PROVE  NoEcho
    OBVIOUS
  <2>2. /\ Len(log) \in Nat /\ DOMAIN log = 1 .. Len(log)
        /\ Cardinality(Readings) \in Nat /\ Cardinality(Threats) \in Nat
    BY <1>1, <2>1, SidesAreFinite DEF IInv, Typed
  <2>3. Cardinality(Readings) <= Len(log)
    <3>. DEFINE ids == [i \in DOMAIN log |-> log[i].id]
    <3>1. IsFiniteSet(DOMAIN log) /\ Cardinality(DOMAIN log) = Len(log)
      <4>1. \A n \in Int : /\ IsFiniteSet(1 .. n)
                           /\ Cardinality(1 .. n) = IF 1 > n THEN 0 ELSE n - 1 + 1
        <5>1. 1 \in Int
          OBVIOUS
        <5>. QED
          BY <5>1, FS_Interval, Zenon
      <4>. QED
        BY <2>2, <4>1
    <3>2. Readings = {ids[i] : i \in DOMAIN log}
      BY DEF Readings
    <3>. HIDE DEF ids
    <3>. QED
      BY <3>1, <3>2, ImageIsFinite
  <2>. QED
    BY <2>1, <2>2, <2>3 DEF IInv, Accounted, NoEcho
<1>3. Spec => []IInv
  BY <1>1, MirrorInvariant
<1>. QED
  BY <1>2, <1>3, PTL

=============================================================================
