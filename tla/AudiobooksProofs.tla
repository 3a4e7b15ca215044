-------------------------- MODULE AudiobooksProofs --------------------------
(***************************************************************************)
(* Proofs about AudiobookPositions, AudiobookLinks and AudiobookSessions,  *)
(* for every recording, library, page size and set of devices.  No place   *)
(* of the player is passed over; nothing crosses an alignment that nobody  *)
(* vouched for; and no session is left behind an import's boundary, as     *)
(* long as none is deleted between two of its pages.                       *)
(***************************************************************************)
EXTENDS AudiobookPositions, AudiobookLinks, AudiobookSessions,
        FiniteSetTheorems, WellFoundedInduction, TLAPS

-----------------------------------------------------------------------------
(* Positions.                                                              *)

OpSort == [id : Nat, at : Nat, place : Nat, abs : BOOLEAN, ed : BOOLEAN, gen : Nat]
RowSort == [id : Nat, at : Nat, place : Nat, done : BOOLEAN]
Marks == {Nowhere} \cup (Nat \X BOOLEAN)
Remotes == RowSort \cup {Nowhere}
CurSort == [pushed : Nat, mark : Marks, ms : Nat]
Fetched == [stage : {"fetched"}, remote : Remotes]
Underway ==
  [stage : {"pull", "push", "append", "close", "patch", "readback", "save"},
   cur : CurSort, remote : Remotes, local : OpSort, seq : Nat, gen : Nat]

PlacesTyped ==
  /\ recording \in Recordings
  /\ now \in Nat /\ reads \in Nat
  /\ log \in Seq(OpSort)
  /\ row \in Remotes /\ player \in Remotes
  /\ cursor \in [gen : Nat, pushed : Nat, mark : Marks, ms : Nat]
  /\ exchange \in {Resting} \cup Fetched \cup Underway

(* What was seen has happened.                                             *)
InThePast ==
  /\ row # Nowhere => row.at \in 1..now
  /\ cursor.ms <= now
  /\ exchange.stage # "idle" /\ exchange.remote # Nowhere => exchange.remote.at \in 1..now
  /\ exchange \in Underway => exchange.cur.ms <= now

(* The player's place is unchanged, or its time is later.                  *)
RowGoesOn ==
  exchange.stage # "idle" /\ exchange.remote # Nowhere =>
    row # Nowhere /\ (row = exchange.remote \/ row.at > exchange.remote.at)

(* What a pass needs to have found to get where it is.                     *)
PassKnows ==
  /\ exchange.stage \in {"pull", "append"} =>
       exchange.remote # Nowhere /\ InBook(exchange.remote) # Nowhere
  /\ exchange.stage \in {"push", "close", "patch", "readback"} =>
       /\ \E i \in 1..Len(log) : log[i] = exchange.local
       /\ InAudio(exchange.local) # Nowhere
  /\ exchange.stage = "readback" =>
       row # Nowhere /\ exchange.cur.mark = <<InAudio(exchange.local), Finishes(exchange.local)>>

(* The player's place, if it was counted as seen by then, is in the log.   *)
Seen(ms) == row # Nowhere /\ row.at <= ms => \E i \in 1..Len(log) : Together(log[i], row)

PlacesSeen == Seen(cursor.ms) /\ (exchange \in Underway => Seen(exchange.cur.ms))

PlacesInv == PlacesTyped /\ InThePast /\ RowGoesOn /\ PassKnows /\ PlacesSeen

(* A set of numbers with a bound has a greatest one.                       *)
LEMMA GreatestExists ==
  ASSUME NEW N \in Nat, NEW S, S \subseteq 0..N, S # {}
  PROVE  \E a \in S : \A b \in S : b <= a
<1>. DEFINE T == {n \in 0..N : N - n \in S}
<1>1. T # {} /\ T \subseteq Nat
  <2>1. PICK a \in S : TRUE
    OBVIOUS
  <2>2. N - a \in T
    BY <2>1
  <2>. QED
    BY <2>2
<1>2. PICK n \in T : \A m \in T : ~(<<m, n>> \in OpToRel(<, Nat))
  BY <1>1, NatLessThanWellFounded, WFMin
<1>3. \A m \in T : ~(m < n)
  BY <1>1, <1>2 DEF OpToRel
<1>4. ASSUME NEW b \in S PROVE b <= N - n
  <2>1. N - b \in T
    OBVIOUS
  <2>. QED
    BY <2>1, <1>3
<1>. QED
  BY <1>4

(* The mapping leads from places to places.                                *)
LEMMA MappingTyped ==
  ASSUME AudiobookAssumption, recording \in Recordings
  PROVE  /\ Top \in Nat /\ Covered \subseteq 0..Top
         /\ AudioEnd \in Nat
         /\ \A op \in OpSort : InAudio(op) \in Nat \cup {Nowhere} /\ Finishes(op) \in BOOLEAN
         /\ \A r \in RowSort : InBook(r) \in Nat \cup {Nowhere}
<1>1. Top \in Nat \ {0} /\ Covered \subseteq 0..Top /\ Covered # {} /\ CoversLast \in BOOLEAN
      /\ FullNarrative \in BOOLEAN
  BY DEF AudiobookAssumption, Top, Covered, CoversLast, FullNarrative
<1>2. AudioEnd \in Covered
  <2>1. \E a \in Covered : \A b \in Covered : b <= a
    BY <1>1, GreatestExists
  <2>. QED
    BY <2>1 DEF AudioEnd
<1>3. ASSUME NEW op \in OpSort PROVE InAudio(op) \in Nat \cup {Nowhere} /\ Finishes(op) \in BOOLEAN
  BY <1>1, <1>2 DEF InAudio, Finishes, ToAudio, OpSort
<1>4. ASSUME NEW r \in RowSort PROVE InBook(r) \in Nat \cup {Nowhere}
  BY <1>1, <1>2 DEF InBook, ToBook, Capped, RowSort
<1>. QED
  BY <1>1, <1>2, <1>3, <1>4

(* What Nowhere is not.                                                    *)
LEMMA NowhereIsNoRow == ASSUME AudiobookAssumption PROVE Nowhere \notin RowSort /\ Nowhere \notin Nat
BY DEF AudiobookAssumption, RowSort

LEMMA PlacesInit == ASSUME AudiobookAssumption, PlaceInit PROVE PlacesInv
BY DEF PlaceInit, PlacesInv, PlacesTyped, InThePast, RowGoesOn, PassKnows, PlacesSeen, Seen, Resting,
  Generation, NoCursor, Marks, Remotes, Fetched, Underway

(* The mapping of a recording stays.                                       *)
LEMMA MappingStays ==
  ASSUME recording' = recording
  PROVE  /\ \A op : InAudio(op)' = InAudio(op) /\ Finishes(op)' = Finishes(op)
         /\ \A r : InBook(r)' = InBook(r)
         /\ \A op, r : Together(op, r)' = Together(op, r)
<1>1. Top' = Top /\ Covered' = Covered /\ FullNarrative' = FullNarrative /\ CoversLast' = CoversLast
  BY DEF Top, Covered, FullNarrative, CoversLast
<1>2. AudioEnd' = AudioEnd
  BY <1>1 DEF AudioEnd
<1>3. \A op : InAudio(op)' = InAudio(op) /\ Finishes(op)' = Finishes(op)
  BY <1>1, <1>2 DEF InAudio, Finishes, ToAudio
<1>4. \A r : InBook(r)' = InBook(r)
  BY <1>1, <1>2 DEF InBook, ToBook, Capped
<1>. QED
  BY <1>3, <1>4 DEF Together

(* What was seen stays seen while the player's place stays and the log     *)
(* grows.                                                                  *)
LEMMA SeenStays ==
  ASSUME NEW CONSTANT n,
         recording' = recording, row' = row, Len(log) \in Nat, Len(log') \in Nat,
         Len(log) <= Len(log'), \A i \in 1..Len(log) : log'[i] = log[i],
         Seen(n)
  PROVE  Seen(n)'
<1>. SUFFICES ASSUME row # Nowhere, row.at <= n
              PROVE  (\E i \in 1..Len(log) : Together(log[i], row))'
  BY DEF Seen
<1>1. PICK i \in 1..Len(log) : Together(log[i], row)
  BY DEF Seen
<1>2. i \in 1..Len(log') /\ log'[i] = log[i]
  BY <1>1
<1>3. Together(log[i], row)'
  BY <1>1, <1>2, MappingStays
<1>. QED
  BY <1>2, <1>3

-----------------------------------------------------------------------------
(* What is kept by a step that neither moves the player's place, nor what  *)
(* the cursor and the pass count as seen.                                  *)
LEMMA SeenKept ==
  ASSUME PlacesInv, recording' = recording, row' = row, cursor'.ms = cursor.ms,
         Len(log') \in Nat, Len(log) <= Len(log'), \A i \in 1..Len(log) : log'[i] = log[i],
         exchange' \in Underway => exchange \in Underway /\ exchange'.cur.ms = exchange.cur.ms
  PROVE  PlacesSeen'
<1>1. Len(log) \in Nat
  BY DEF PlacesInv, PlacesTyped
<1>2. \A n : Seen(n) => Seen(n)'
  BY <1>1, SeenStays
<1>. QED
  BY <1>2 DEF PlacesInv, PlacesSeen

(* What a reader does here. *)
LEMMA ReadHereStep == ASSUME AudiobookAssumption, PlacesInv, ReadHere PROVE PlacesInv'
<1>. USE DEF PlacesInv
<1>1. PICK p \in Places, at \in 1..now + 1, ed \in BOOLEAN :
        log' = Append(log, [id |-> reads + 1, at |-> at, place |-> p, abs |-> FALSE,
                            ed |-> ed, gen |-> 0])
  BY DEF ReadHere
<1>2. p \in Nat
  BY MappingTyped DEF Places, PlacesTyped
<1>3. PlacesTyped'
  <2>1. [id |-> reads + 1, at |-> at, place |-> p, abs |-> FALSE, ed |-> ed, gen |-> 0] \in OpSort
    BY <1>2 DEF OpSort, PlacesTyped
  <2>2. log' \in Seq(OpSort) /\ now' \in Nat /\ reads' \in Nat
    BY <1>1, <2>1 DEF ReadHere, PlacesTyped
  <2>. QED
    BY <2>2 DEF ReadHere, PlacesTyped
<1>4. Len(log') = Len(log) + 1 /\ \A i \in 1..Len(log) : log'[i] = log[i]
  BY <1>1 DEF PlacesTyped
<1>5. Len(log) \in Nat
  BY DEF PlacesTyped
<1>6. InThePast'
  BY <1>3 DEF ReadHere, InThePast, PlacesTyped, Underway, CurSort
<1>7. RowGoesOn'
  BY DEF ReadHere, RowGoesOn
<1>8. PassKnows'
  <2>. recording' = recording /\ row' = row /\ exchange' = exchange
    BY DEF ReadHere
  <2>. QED
    BY <1>4, <1>5, MappingStays DEF PassKnows
<1>9. PlacesSeen'
  BY <1>4, <1>5, SeenKept DEF ReadHere
<1>. QED
  BY <1>3, <1>6, <1>7, <1>8, <1>9

(* A place that is new is not one that was seen. *)
LEMMA NewsUnseen ==
  ASSUME PlacesInv, row' # Nowhere, row'.at = now + 1, cursor'.ms = cursor.ms,
         exchange' \in Underway => exchange \in Underway /\ exchange'.cur.ms = exchange.cur.ms
  PROVE  PlacesSeen'
<1>1. now \in Nat /\ cursor.ms \in Nat /\ cursor.ms <= now
  BY DEF PlacesInv, PlacesTyped, InThePast
<1>2. exchange \in Underway => exchange.cur.ms \in Nat /\ exchange.cur.ms <= now
  BY DEF PlacesInv, InThePast, Underway, CurSort
<1>. QED
  BY <1>1, <1>2 DEF PlacesSeen, Seen

(* What a reader does in the player. *)
LEMMA ListenThereStep == ASSUME AudiobookAssumption, PlacesInv, ListenThere \/ Heartbeat PROVE PlacesInv'
<1>. USE DEF PlacesInv
<1>1. row' \in RowSort /\ row'.at = now + 1 /\ player' \in Remotes
  <2>1. CASE ListenThere
    <3>1. PICK p \in Places, done \in BOOLEAN :
            row' = [id |-> reads + 1, at |-> now + 1, place |-> p, done |-> done] /\ player' = row'
      BY <2>1 DEF ListenThere
    <3>2. p \in Nat
      BY MappingTyped DEF Places, PlacesTyped
    <3>. QED
      BY <3>1, <3>2 DEF RowSort, Remotes, PlacesTyped
  <2>2. CASE Heartbeat
    BY <2>2 DEF Heartbeat, RowSort, Remotes, PlacesTyped
  <2>. QED
    BY <2>1, <2>2
<1>2. row' # Nowhere
  BY <1>1, NowhereIsNoRow
<1>3. /\ recording' = recording /\ log' = log /\ cursor' = cursor /\ exchange' = exchange
      /\ now' = now + 1 /\ reads' \in Nat
  BY DEF ListenThere, Heartbeat, PlacesTyped
<1>4. PlacesTyped'
  BY <1>1, <1>3 DEF PlacesTyped, Remotes
<1>5. InThePast'
  BY <1>1, <1>3 DEF InThePast, PlacesTyped, Underway, CurSort
<1>6. RowGoesOn'
  BY <1>1, <1>2, <1>3 DEF RowGoesOn, InThePast, PlacesTyped
<1>7. PassKnows'
  BY <1>2, <1>3, MappingStays DEF PassKnows
<1>8. PlacesSeen'
  BY <1>1, <1>2, <1>3, NewsUnseen
<1>. QED
  BY <1>4, <1>5, <1>6, <1>7, <1>8

LEMMA StopListeningStep == ASSUME AudiobookAssumption, PlacesInv, StopListening PROVE PlacesInv'
<1>. USE DEF PlacesInv
<1>1. /\ recording' = recording /\ log' = log /\ cursor' = cursor /\ exchange' = exchange
      /\ now' = now /\ reads' = reads /\ row' = row /\ player' \in Remotes
  BY DEF StopListening, Remotes
<1>2. PlacesTyped' /\ InThePast' /\ RowGoesOn'
  BY <1>1 DEF PlacesTyped, InThePast, RowGoesOn
<1>3. PassKnows'
  BY <1>1, MappingStays DEF PassKnows
<1>4. PlacesSeen'
  BY <1>1, SeenKept DEF PlacesTyped
<1>. QED
  BY <1>2, <1>3, <1>4

(* A pass begins. *)
LEMMA BeginStep == ASSUME AudiobookAssumption, PlacesInv, Begin PROVE PlacesInv'
<1>. USE DEF PlacesInv
<1>1. /\ recording' = recording /\ log' = log /\ cursor' = cursor /\ now' = now /\ reads' = reads
      /\ row' = row /\ player' = player
      /\ exchange' = [stage |-> "fetched", remote |-> row]
  BY DEF Begin
<1>2. exchange' \in Fetched /\ exchange' \notin Underway /\ exchange'.stage = "fetched"
      /\ exchange'.remote = row
  BY <1>1 DEF Fetched, Underway, PlacesTyped
<1>3. PlacesTyped'
  BY <1>1, <1>2 DEF PlacesTyped
<1>4. InThePast' /\ RowGoesOn' /\ PassKnows'
  BY <1>1, <1>2 DEF InThePast, RowGoesOn, PassKnows
<1>5. PlacesSeen'
  BY <1>1, <1>2, SeenKept DEF PlacesTyped
<1>. QED
  BY <1>3, <1>4, <1>5

(* The decision of a pass: to count an agreed place as seen, or to pull a  *)
(* place of the book, or to push one of the recording, or nothing.         *)
Decides(c, stage) ==
  /\ exchange' = Snapshot(c, stage, NewestOp)
  /\ c \in CurSort /\ stage \in {"save", "pull", "push"}
  /\ \/ c.ms = cursor.ms
     \/ stage = "save" /\ Agree(NewestOp, exchange.remote) /\ c.ms = exchange.remote.at
  /\ stage = "pull" => exchange.remote # Nowhere /\ InBook(exchange.remote) # Nowhere
  /\ stage = "push" => MayPush(NewestOp)

LEMMA NewestOpTyped ==
  ASSUME PlacesTyped
  PROVE  NewestOp \in OpSort /\ (NewestOp # NoOp => \E i \in 1..Len(log) : log[i] = NewestOp)
<1>1. NoOp \in OpSort
  BY DEF NoOp, OpSort
<1>2. ASSUME log # <<>> PROVE Len(log) \in 1..Len(log) /\ log[Len(log)] \in OpSort
  BY <1>2 DEF PlacesTyped
<1>. QED
  BY <1>1, <1>2 DEF NewestOp

LEMMA Decision ==
  ASSUME PlacesTyped, Decide
  PROVE  \E c \in CurSort, stage \in {"save", "pull", "push"} : Decides(c, stage)
<1>. DEFINE r == exchange.remote
            seq == Len(log)
            cur == [pushed |-> cursor.pushed, mark |-> cursor.mark, ms |-> cursor.ms]
            matched == [cur EXCEPT !.mark = IF IsEcho(r, cur) THEN @ ELSE Nowhere]
            agreed == [cur EXCEPT !.pushed = seq, !.ms = r.at]
<1>1. cur \in CurSort /\ matched \in CurSort /\ matched.ms = cursor.ms
  BY DEF PlacesTyped, CurSort, Marks
<1>2. r \in Remotes /\ seq \in Nat
  BY DEF Decide, PlacesTyped, Fetched, Resting, Underway
<1>3. CASE Agree(NewestOp, r)
  <2>1. r \in RowSort
    BY <1>2, <1>3 DEF Agree, Remotes
  <2>2. agreed \in CurSort /\ agreed.ms = r.at
    BY <1>1, <1>2, <2>1 DEF CurSort, RowSort
  <2>3. exchange' = Snapshot(agreed, "save", NewestOp)
    BY <1>3 DEF Decide
  <2>. QED
    BY <1>3, <2>2, <2>3 DEF Decides
<1>4. CASE ~Agree(NewestOp, r) /\ IsEcho(r, cur) /\ seq <= cur.pushed
  <2>1. matched.mark = cur.mark
    BY <1>4
  <2>2. IsEcho(r, matched)
    BY <1>1, <1>4, <2>1 DEF IsEcho
  <2>3. ~ShouldPull(NewestOp, seq, r, matched)
    BY <2>2 DEF ShouldPull
  <2>4. exchange' = Snapshot(matched, "save", NewestOp)
    BY <1>4, <2>3 DEF Decide
  <2>. QED
    BY <1>1, <2>4 DEF Decides
<1>5. CASE /\ ~Agree(NewestOp, r) /\ ~(IsEcho(r, cur) /\ seq <= cur.pushed)
           /\ ShouldPull(NewestOp, seq, r, matched)
  <2>1. exchange' = Snapshot(matched, IF MayPull(NewestOp, r, matched) THEN "pull" ELSE "save", NewestOp)
    BY <1>5 DEF Decide
  <2>2. r # Nowhere /\ (MayPull(NewestOp, r, matched) => InBook(r) # Nowhere)
    BY <1>5 DEF ShouldPull, MayPull
  <2>. QED
    BY <1>1, <2>1, <2>2 DEF Decides
<1>6. CASE /\ ~Agree(NewestOp, r) /\ ~(IsEcho(r, cur) /\ seq <= cur.pushed)
           /\ ~ShouldPull(NewestOp, seq, r, matched)
  <2>1. exchange' = Snapshot(matched, IF MayPush(NewestOp) THEN "push" ELSE "save", NewestOp)
    BY <1>6 DEF Decide
  <2>. QED
    BY <1>1, <2>1 DEF Decides
<1>. QED
  BY <1>3, <1>4, <1>5, <1>6

LEMMA DecideStep == ASSUME AudiobookAssumption, PlacesInv, Decide PROVE PlacesInv'
<1>. USE DEF PlacesInv
<1>1. PICK c \in CurSort, stage \in {"save", "pull", "push"} : Decides(c, stage)
  BY Decision
<1>2. /\ recording' = recording /\ log' = log /\ cursor' = cursor /\ now' = now /\ reads' = reads
      /\ row' = row /\ player' = player /\ exchange.stage = "fetched"
      /\ exchange \in Fetched
  BY DEF Decide, PlacesTyped, Resting, Underway, Fetched
<1>3. /\ exchange'.stage = stage /\ exchange'.cur = c /\ exchange'.remote = exchange.remote
      /\ exchange'.local = NewestOp
  BY <1>1 DEF Decides, Snapshot
<1>4. exchange' \in Underway
  BY <1>1, <1>2, NewestOpTyped DEF Decides, Snapshot, Underway, Fetched, PlacesTyped
<1>5. PlacesTyped'
  BY <1>2, <1>4 DEF PlacesTyped
<1>6. exchange.remote # Nowhere => exchange.remote.at \in 1..now
  BY <1>2 DEF InThePast
<1>7. Agree(NewestOp, exchange.remote) => exchange.remote # Nowhere
  BY DEF Agree
<1>8. c.ms \in Nat /\ c.ms <= now
  BY <1>1, <1>6, <1>7 DEF Decides, InThePast, PlacesTyped
<1>9. InThePast' /\ RowGoesOn'
  BY <1>2, <1>3, <1>8 DEF InThePast, RowGoesOn
<1>10. PassKnows'
  <2>1. stage = "push" => InAudio(NewestOp) # Nowhere /\ \E i \in 1..Len(log) : log[i] = NewestOp
    BY <1>1, NewestOpTyped DEF Decides, MayPush
  <2>. QED
    BY <1>1, <1>2, <1>3, <2>1, MappingStays DEF Decides, PassKnows
<1>11. Seen(cursor.ms)
  BY DEF PlacesSeen
<1>12. Seen(c.ms)
  <2>1. CASE c.ms = cursor.ms
    BY <1>11, <2>1
  <2>2. CASE Agree(NewestOp, exchange.remote) /\ c.ms = exchange.remote.at
    <3>1. exchange.remote # Nowhere /\ (row = exchange.remote \/ row.at > exchange.remote.at)
      BY <1>2, <1>7, <2>2 DEF RowGoesOn
    <3>2. CASE row = exchange.remote
      <4>1. PICK i \in 1..Len(log) : log[i] = NewestOp
        BY <2>2, NewestOpTyped DEF Agree
      <4>2. Together(log[i], row)
        BY <2>2, <3>2, <4>1 DEF Agree, Same, Together
      <4>. QED
        BY <4>2 DEF Seen
    <3>3. CASE row # exchange.remote
      <4>1. row # Nowhere => row.at \in Nat /\ exchange.remote.at \in Nat
        BY <1>6, <3>1 DEF InThePast
      <4>. QED
        BY <2>2, <3>1, <3>3, <4>1 DEF Seen
    <3>. QED
      BY <3>2, <3>3
  <2>. QED
    BY <1>1, <2>1, <2>2 DEF Decides
<1>13. PlacesSeen'
  <2>1. \A n : Seen(n) => Seen(n)'
    BY <1>2, SeenStays DEF PlacesTyped
  <2>2. Seen(cursor.ms)' /\ Seen(c.ms)'
    BY <1>2, <1>11, <1>12, <2>1
  <2>. QED
    BY <1>3, <2>2 DEF PlacesSeen
<1>. QED
  BY <1>5, <1>9, <1>10, <1>13

(* Steps that only get on, or give up. *)
LEMMA StageStep ==
  ASSUME AudiobookAssumption, PlacesInv, Ready \/ AppendRefused \/ Close \/ ReadBackFails
  PROVE  PlacesInv'
<1>. USE DEF PlacesInv
<1>1. exchange \in Underway
  BY DEF Ready, AppendRefused, Close, ReadBackFails, PlacesTyped, Resting, Fetched
<1>2. /\ recording' = recording /\ log' = log /\ cursor' = cursor /\ now' = now /\ reads' = reads
      /\ row' = row /\ player' \in Remotes
  BY DEF Ready, AppendRefused, Close, ReadBackFails, PlacesTyped, Remotes
<1>3. PICK stage \in {"save", "append", "close", "patch"} :
        /\ exchange' = [exchange EXCEPT !.stage = stage]
        /\ stage = "append" => exchange.stage = "pull"
        /\ stage = "close" => exchange.stage = "push"
        /\ stage = "patch" => exchange.stage = "close"
  BY DEF Ready, AppendRefused, Close, ReadBackFails
<1>4. /\ exchange' \in Underway /\ exchange'.stage = stage /\ exchange'.cur = exchange.cur
      /\ exchange'.remote = exchange.remote /\ exchange'.local = exchange.local
      /\ exchange.stage # "idle"
  BY <1>1, <1>3 DEF Underway
<1>5. PlacesTyped'
  BY <1>2, <1>4 DEF PlacesTyped
<1>6. InThePast' /\ RowGoesOn'
  BY <1>1, <1>2, <1>4 DEF InThePast, RowGoesOn
<1>7. PassKnows'
  BY <1>2, <1>3, <1>4, MappingStays DEF PassKnows
<1>8. PlacesSeen'
  BY <1>1, <1>2, <1>4, SeenKept DEF PlacesTyped
<1>. QED
  BY <1>5, <1>6, <1>7, <1>8

(* A place is pulled: an op is at it. *)
LEMMA AppendPulledStep == ASSUME AudiobookAssumption, PlacesInv, AppendPulled PROVE PlacesInv'
<1>. USE DEF PlacesInv
<1>. DEFINE r == exchange.remote
            op == [id |-> r.id, at |-> r.at, place |-> InBook(r), abs |-> TRUE, ed |-> TRUE,
                   gen |-> exchange.gen]
            stored == {i \in 1..Len(log) : log[i] = op}
            seq == IF stored = {} THEN Len(log) + 1 ELSE CHOOSE i \in stored : TRUE
<1>1. exchange \in Underway /\ exchange.stage = "append"
  BY DEF AppendPulled, PlacesTyped, Resting, Fetched
<1>2. /\ recording' = recording /\ cursor' = cursor /\ now' = now /\ reads' = reads
      /\ row' = row /\ player' = player
      /\ log' = (IF stored = {} THEN Append(log, op) ELSE log)
      /\ exchange' = [exchange EXCEPT !.stage = "save", !.cur.pushed = seq, !.cur.ms = r.at]
  BY DEF AppendPulled
<1>3. r \in RowSort /\ r.at \in 1..now /\ InBook(r) \in Nat
  BY <1>1, MappingTyped DEF PassKnows, InThePast, Underway, Remotes, PlacesTyped
<1>4. op \in OpSort
  BY <1>1, <1>3 DEF OpSort, RowSort, Underway
<1>5. log \in Seq(OpSort) /\ Len(log) \in Nat
  BY DEF PlacesTyped
<1>6. seq \in Nat
  <2>1. CASE stored = {}
    BY <1>5, <2>1
  <2>2. CASE stored # {}
    <3>1. seq \in stored
      BY <2>2
    <3>. QED
      BY <1>5, <3>1
  <2>. QED
    BY <2>1, <2>2
<1>7. /\ exchange' \in Underway /\ exchange'.stage = "save" /\ exchange'.cur.ms = r.at
      /\ exchange'.remote = r
  <2>1. [exchange.cur EXCEPT !.pushed = seq, !.ms = r.at] \in CurSort
    BY <1>1, <1>3, <1>6 DEF Underway, CurSort, RowSort
  <2>2. exchange' = [exchange EXCEPT !.stage = "save",
                                     !.cur = [exchange.cur EXCEPT !.pushed = seq, !.ms = r.at]]
    BY <1>1, <1>2 DEF Underway, CurSort
  <2>. HIDE DEF seq
  <2>. QED
    BY <1>1, <1>3, <2>1, <2>2 DEF Underway, CurSort
<1>8. /\ log' \in Seq(OpSort) /\ Len(log') \in Nat /\ Len(log) <= Len(log')
      /\ \A i \in 1..Len(log) : log'[i] = log[i]
      /\ \E i \in 1..Len(log') : log'[i] = op
  <2>1. CASE stored = {}
    <3>1. log' = Append(log, op)
      BY <1>2, <2>1
    <3>2. Len(log') = Len(log) + 1 /\ log'[Len(log) + 1] = op
      BY <1>4, <1>5, <3>1
    <3>. HIDE DEF op
    <3>. QED
      BY <1>4, <1>5, <3>1, <3>2
  <2>2. CASE stored # {}
    <3>1. log' = log /\ \E i \in 1..Len(log) : log[i] = op
      BY <1>2, <2>2
    <3>. HIDE DEF op
    <3>. QED
      BY <1>5, <3>1
  <2>. QED
    BY <2>1, <2>2
<1>9. PlacesTyped'
  BY <1>2, <1>7, <1>8 DEF PlacesTyped
<1>10. InThePast' /\ RowGoesOn' /\ PassKnows'
  <2>1. exchange.stage # "idle"
    BY <1>1
  <2>. QED
    BY <1>2, <1>3, <1>7, <2>1 DEF InThePast, RowGoesOn, PassKnows
<1>11. Seen(cursor.ms)'
  <2>1. \A n : Seen(n) => Seen(n)'
    BY <1>2, <1>5, <1>8, SeenStays
  <2>. QED
    BY <1>2, <2>1 DEF PlacesSeen
<1>12. Seen(exchange.cur.ms)'
  <2>1. CASE row = r
    <3>1. PICK i \in 1..Len(log') : log'[i] = op
      BY <1>8
    <3>2. \A q : InBook(q)' = InBook(q)
      BY <1>2, MappingStays
    <3>3. log'[i].place = InBook(row) /\ row' = row
      <4>1. op.place = InBook(r)
        OBVIOUS
      <4>. HIDE DEF op
      <4>2. log'[i].place = InBook(r)
        BY <3>1, <4>1
      <4>. QED
        BY <1>2, <2>1, <4>2
    <3>4. Together(log[i], row)'
      BY <3>2, <3>3 DEF Together
    <3>. QED
      BY <3>1, <3>4 DEF Seen
  <2>2. CASE row # r
    <3>1. row' # Nowhere /\ row'.at > r.at /\ r.at \in Nat /\ row'.at \in Nat
      BY <1>1, <1>2, <1>3, <2>2 DEF RowGoesOn, InThePast, PassKnows
    <3>. QED
      BY <1>7, <3>1 DEF Seen
  <2>. QED
    BY <2>1, <2>2
<1>. QED
  BY <1>9, <1>10, <1>11, <1>12 DEF PlacesSeen

(* A place is pushed: it is later than any that was seen. *)
LEMMA PatchStep == ASSUME AudiobookAssumption, PlacesInv, Patch \/ PatchFails PROVE PlacesInv'
<1>. USE DEF PlacesInv
<1>1. exchange \in Underway /\ exchange.stage = "patch"
  BY DEF Patch, PatchFails, PlacesTyped, Resting, Fetched
<1>2. recording' = recording /\ log' = log /\ cursor' = cursor /\ reads' = reads /\ player' = player
  BY DEF Patch, PatchFails
<1>3. \/ row' = Pushed /\ now' = now + 1
      \/ row' = row /\ now' = now /\ PatchFails
  BY DEF Patch, PatchFails
<1>4. /\ Pushed \in RowSort /\ Pushed.at = now + 1 /\ Pushed # Nowhere
      /\ Mark(Pushed) = <<InAudio(exchange.local), Finishes(exchange.local)>>
      /\ Mark(Pushed) \in Marks
  <2>1. exchange.local \in OpSort
    BY <1>1 DEF Underway
  <2>2. InAudio(exchange.local) \in Nat /\ Finishes(exchange.local) \in BOOLEAN
    BY <1>1, <2>1, MappingTyped DEF PlacesTyped, PassKnows
  <2>3. Pushed \in RowSort
    BY <2>1, <2>2 DEF Pushed, RowSort, OpSort, PlacesTyped
  <2>. QED
    BY <2>2, <2>3, NowhereIsNoRow DEF Pushed, Mark, Marks
<1>5. /\ exchange' \in Underway /\ exchange'.cur.ms = exchange.cur.ms
      /\ exchange'.remote = exchange.remote /\ exchange'.local = exchange.local
      /\ \/ exchange'.stage = "save" /\ PatchFails
         \/ exchange'.stage = "readback" /\ exchange'.cur.mark = Mark(Pushed) /\ Patch
  <2>1. CASE Patch
    <3>. DEFINE c == [exchange.cur EXCEPT !.pushed = exchange.seq, !.mark = Mark(Pushed)]
    <3>1. c \in CurSort /\ c.ms = exchange.cur.ms /\ c.mark = Mark(Pushed)
      BY <1>1, <1>4 DEF Underway, CurSort
    <3>2. exchange' = [exchange EXCEPT !.stage = "readback", !.cur = c]
      BY <1>1, <2>1 DEF Patch, Underway, CurSort
    <3>. HIDE DEF c
    <3>. QED
      BY <1>1, <2>1, <3>1, <3>2 DEF Underway
  <2>2. CASE PatchFails
    BY <1>1, <2>2 DEF PatchFails, Underway
  <2>. QED
    BY <2>1, <2>2
<1>6. PlacesTyped'
  BY <1>2, <1>3, <1>4, <1>5 DEF PlacesTyped, Remotes
<1>7. InThePast' /\ RowGoesOn'
  <2>1. exchange.stage # "idle" /\ exchange'.stage # "idle" /\ now \in Nat
    BY <1>1, <1>5 DEF PlacesTyped
  <2>2. InThePast'
    BY <1>1, <1>2, <1>3, <1>4, <1>5, <2>1 DEF InThePast, Underway, CurSort, PlacesTyped
  <2>. QED
    BY <1>3, <1>4, <1>5, <2>1, <2>2 DEF InThePast, RowGoesOn
<1>8. PassKnows'
  <2>1. \A op : InAudio(op)' = InAudio(op) /\ Finishes(op)' = Finishes(op)
    BY <1>2, MappingStays
  <2>2. row' = Pushed \/ exchange'.stage = "save"
    BY <1>5 DEF Patch
  <2>. QED
    BY <1>1, <1>2, <1>4, <1>5, <2>1, <2>2 DEF PassKnows
<1>9. PlacesSeen'
  <2>1. CASE row' = Pushed
    BY <1>1, <1>2, <1>4, <1>5, <2>1, NewsUnseen
  <2>2. CASE row' = row
    BY <1>1, <1>2, <1>5, <2>2, SeenKept DEF PlacesTyped
  <2>. QED
    BY <1>3, <2>1, <2>2
<1>. QED
  BY <1>6, <1>7, <1>8, <1>9

(* What is read back is the place that was pushed, or is not counted. *)
LEMMA ReadBackStep == ASSUME AudiobookAssumption, PlacesInv, ReadBack PROVE PlacesInv'
<1>. USE DEF PlacesInv
<1>1. exchange \in Underway /\ exchange.stage = "readback"
  BY DEF ReadBack, PlacesTyped, Resting, Fetched
<1>2. /\ recording' = recording /\ log' = log /\ cursor' = cursor /\ reads' = reads /\ player' = player
      /\ row' = row /\ now' = now
  BY DEF ReadBack
<1>3. row # Nowhere /\ row \in RowSort /\ row.at \in 1..now
  BY <1>1 DEF PassKnows, PlacesTyped, Remotes, InThePast
<1>4. EchoTime(row) \in Nat /\ EchoTime(row) <= now
  BY <1>1, <1>3 DEF EchoTime, InThePast, Underway, CurSort
<1>5. /\ exchange' \in Underway /\ exchange'.stage = "save" /\ exchange'.cur.ms = EchoTime(row)
      /\ exchange'.remote = exchange.remote
  <2>. DEFINE c == [exchange.cur EXCEPT !.ms = EchoTime(row)]
  <2>1. c \in CurSort /\ c.ms = EchoTime(row)
    BY <1>1, <1>4 DEF Underway, CurSort
  <2>2. exchange' = [exchange EXCEPT !.stage = "save", !.cur = c]
    BY <1>1 DEF ReadBack, Underway, CurSort
  <2>. HIDE DEF c
  <2>. QED
    BY <1>1, <2>1, <2>2 DEF Underway
<1>6. PlacesTyped'
  BY <1>2, <1>5 DEF PlacesTyped
<1>7. InThePast' /\ RowGoesOn' /\ PassKnows'
  BY <1>1, <1>2, <1>4, <1>5 DEF InThePast, RowGoesOn, PassKnows
<1>8. Seen(EchoTime(row))
  <2>1. CASE Mark(row) = exchange.cur.mark
    <3>1. PICK i \in 1..Len(log) : log[i] = exchange.local
      BY <1>1 DEF PassKnows
    <3>2. row.place = InAudio(log[i]) /\ row.done = Finishes(log[i])
      BY <1>1, <2>1, <3>1 DEF PassKnows, Mark
    <3>. QED
      BY <3>2 DEF Together, Seen
  <2>2. CASE Mark(row) # exchange.cur.mark
    BY <1>1, <2>2 DEF EchoTime, PlacesSeen
  <2>. QED
    BY <2>1, <2>2
<1>9. PlacesSeen'
  <2>1. \A n : Seen(n) => Seen(n)'
    BY <1>2, SeenStays DEF PlacesTyped
  <2>2. Seen(cursor.ms)
    BY DEF PlacesSeen
  <2>3. Seen(cursor.ms)'
    BY <1>2, <2>1, <2>2
  <2>4. Seen(exchange.cur.ms)'
    BY <1>5, <1>8, <2>1
  <2>. QED
    BY <2>3, <2>4 DEF PlacesSeen
<1>. QED
  BY <1>6, <1>7, <1>9

(* A pass ends: what it counted is stored, or forgotten. *)
LEMMA EndStep ==
  ASSUME AudiobookAssumption, PlacesInv, Save \/ Stop \/ MergeUnder \/ Remap
  PROVE  PlacesInv'
<1>. USE DEF PlacesInv
<1>1. /\ recording' = recording /\ log' = log /\ reads' = reads /\ player' = player
      /\ row' = row /\ now' = now
      /\ exchange' = Resting \/ exchange' = exchange
  BY DEF Save, Stop, MergeUnder, Remap
<1>2. /\ Resting \notin Underway /\ Resting \notin Fetched /\ Resting.stage = "idle"
  BY DEF Resting, Underway, Fetched
<1>3. /\ cursor' \in [gen : Nat, pushed : Nat, mark : Marks, ms : Nat]
      /\ \/ cursor'.ms = cursor.ms
         \/ exchange \in Underway /\ cursor'.ms = exchange.cur.ms
         \/ cursor'.ms = 0
  <2>1. CASE Save
    <3>1. exchange \in Underway
      BY <2>1 DEF Save, PlacesTyped, Resting, Fetched
    <3>. QED
      BY <2>1, <3>1 DEF Save, PlacesTyped, Generation, Underway, CurSort
  <2>2. CASE Stop
    BY <2>2 DEF Stop, PlacesTyped
  <2>3. CASE MergeUnder
    BY <2>3 DEF MergeUnder, PlacesTyped
  <2>4. CASE Remap
    BY <2>4 DEF Remap, PlacesTyped, Generation, NoCursor, Marks
  <2>. QED
    BY <2>1, <2>2, <2>3, <2>4
<1>4. PlacesTyped'
  BY <1>1, <1>3 DEF PlacesTyped
<1>5. InThePast' /\ RowGoesOn'
  BY <1>1, <1>2, <1>3 DEF InThePast, RowGoesOn, PlacesTyped
<1>6. PassKnows'
  <2>1. CASE exchange' = Resting
    BY <1>2, <2>1 DEF PassKnows
  <2>2. CASE exchange' = exchange
    BY <1>1, <2>2, MappingStays DEF PassKnows
  <2>. QED
    BY <1>1, <2>1, <2>2
<1>7. PlacesSeen'
  <2>1. \A n : Seen(n) => Seen(n)'
    BY <1>1, SeenStays DEF PlacesTyped
  <2>2. Seen(0)
    BY DEF Seen, InThePast
  <2>3. Seen(cursor.ms) /\ (exchange \in Underway => Seen(exchange.cur.ms))
    BY DEF PlacesSeen
  <2>4. Seen(cursor.ms)'
    BY <1>3, <2>1, <2>2, <2>3
  <2>5. exchange' \in Underway => exchange' = exchange
    BY <1>1, <1>2
  <2>6. exchange' \in Underway => Seen(exchange.cur.ms)'
    BY <2>1, <2>3, <2>5
  <2>. QED
    BY <2>4, <2>6 DEF PlacesSeen
<1>. QED
  BY <1>4, <1>5, <1>6, <1>7

LEMMA PlacesStep ==
  ASSUME AudiobookAssumption, PlacesInv, [PlaceNext]_placeVars
  PROVE  PlacesInv'
<1>1. CASE UNCHANGED placeVars
  <2>. USE <1>1 DEF placeVars
  <2>1. PlacesTyped' /\ InThePast' /\ RowGoesOn'
    BY DEF PlacesInv, PlacesTyped, InThePast, RowGoesOn
  <2>2. PassKnows'
    BY MappingStays DEF PlacesInv, PassKnows
  <2>3. PlacesSeen'
    BY SeenKept DEF PlacesInv, PlacesTyped
  <2>. QED
    BY <2>1, <2>2, <2>3 DEF PlacesInv
<1>2. CASE PlaceNext
  BY <1>2, ReadHereStep, ListenThereStep, StopListeningStep, BeginStep, DecideStep, StageStep,
    AppendPulledStep, PatchStep, ReadBackStep, EndStep DEF PlaceNext, PlaceStep
<1>. QED
  BY <1>1, <1>2

(* The inductive invariant of the exchange of places, from the first state *)
(* on: what the cursor and a pass count as seen is in the work's log.      *)
THEOREM PlacesInvariant == ASSUME AudiobookAssumption PROVE PlaceSpec => []PlacesInv
<1>1. PlaceInit => PlacesInv
  BY PlacesInit
<1>2. PlacesInv /\ [PlaceNext]_placeVars => PlacesInv'
  BY PlacesStep
<1>. QED
  BY <1>1, <1>2, PTL DEF PlaceSpec

(* A place of the player that the cursor counts as seen is a place some op *)
(* of the work is at, for every recording, every order of readings and     *)
(* passes and whatever fails between their steps (exchange).               *)
THEOREM PlacesNothingPassedOver ==
  ASSUME AudiobookAssumption PROVE PlaceSpec => []NothingPassedOver
<1>1. PlacesInv => NothingPassedOver
  BY DEF PlacesInv, PlacesSeen, Seen, NothingPassedOver
<1>. QED
  BY <1>1, PlacesInvariant, PTL

-----------------------------------------------------------------------------
(* Links.                                                                  *)

States == {"active", "needs_mapping", "suspended"}
LinkSort ==
  [gen : Nat, item : Items, work : Works, book : Books, edition : Editions,
   source : {"auto", "manual"}, key : Books \X Versions \X Versions \X BOOLEAN,
   linear : BOOLEAN, mapped : BOOLEAN, state : States]

JobSort ==
  [stage : {"linked"}, item : Items]
    \cup [stage : {"matched"}, item : Items, book : Books, edition : Editions,
          reserved : SUBSET Works, rejects : SUBSET (Works \X Items)]
    \cup [stage : {"new"}, item : Items, book : Books, edition : Editions,
          source : {"auto", "manual"}]
    \cup [stage : {"create", "update", "confirmed"}, link : LinkSort]
PassSort == [todo : SUBSET Items, seen : SUBSET Items, snap : SUBSET LinkSort]

WorldTyped ==
  /\ bytes \in [Books -> Versions] /\ shelf \subseteq Books
  /\ chapters \in [Items -> Versions] /\ listed \subseteq Items

GraphTyped ==
  /\ works \subseteq Works /\ unborn \subseteq Works /\ works \cap unborn = {}
  /\ edition \in [Editions -> works \cup {None}]
  /\ bookWork \in [Books -> works \cup {None}]

(* An alignment that is in use, or kept for when the link's book is back,  *)
(* is one somebody vouched for.                                            *)
Vouched(l) ==
  /\ l.state = "active" => l.mapped
  /\ l.mapped => <<l.item, l.key>> \in approved

(* A link joins one item and one work there is.                            *)
LinksJoin ==
  /\ links \subseteq LinkSort /\ gens \in Nat
  /\ \A l \in links : l.work \in works /\ l.gen \in 1..gens /\ Vouched(l)
  /\ \A l, k \in links : l.item = k.item \/ l.work = k.work => l = k

(* What a pass and the holder of the gate remember.                        *)
PassRemembers ==
  pass # None => pass \in PassSort /\ \A l \in pass.snap : Vouched(l)
JobRemembers ==
  job # None =>
    /\ job \in JobSort
    /\ job.stage = "create" => (job.link.mapped <=> job.link.state = "active")
    /\ job.stage = "update" => Vouched(job.link)
    /\ job.stage = "confirmed" => job.link.mapped

LinksInv ==
  /\ WorldTyped /\ GraphTyped /\ rejected \subseteq works \X Items
  /\ LinksJoin /\ PassRemembers /\ JobRemembers

LEMMA LinksInit == ASSUME LinksAssumption, LinkInit PROVE LinksInv
<1>1. 1 \in Versions
  BY DEF LinksAssumption, Versions
<1>. QED
  BY <1>1 DEF LinkInit, LinksInv, WorldTyped, GraphTyped, LinksJoin, PassRemembers, JobRemembers

(* What was vouched for stays so.                                          *)
LEMMA VouchedStays ==
  ASSUME approved \subseteq approved'
  PROVE  /\ \A l : Vouched(l) => Vouched(l)'
         /\ PassRemembers /\ pass' = pass => PassRemembers'
         /\ JobRemembers /\ job' = job => JobRemembers'
<1>1. \A l : Vouched(l) => Vouched(l)'
  BY DEF Vouched
<1>2. PassRemembers /\ pass' = pass => PassRemembers'
  BY <1>1 DEF PassRemembers
<1>3. JobRemembers /\ job' = job => JobRemembers'
  BY <1>1 DEF JobRemembers
<1>. QED
  BY <1>1, <1>2, <1>3

(* Resolution names a work, old or new.                                    *)
LEMMA ResolveKeeps ==
  ASSUME WorldTyped, GraphTyped, NEW b \in Books, NEW w \in Resolvable(b), Resolve(b, w)
  PROVE  GraphTyped' /\ w \in works' /\ w \in Works /\ works \subseteq works'
<1>1. <<b, bytes[b]>> \in Editions
  BY DEF WorldTyped, Editions
<1>2. w \in works \cup unborn
  BY <1>1 DEF Resolvable, GraphTyped
<1>. QED
  BY <1>1, <1>2 DEF Resolve, GraphTyped

(* A new link, if it may be stored. *)
LEMMA CreateKeeps ==
  ASSUME LinksJoin, NEW l \in LinkSort, l.mapped <=> l.state = "active", Create(l), works' = works
  PROVE  LinksJoin' /\ approved \subseteq approved' /\ rejected' \subseteq rejected
<1>. USE DEF LinksJoin
<1>1. CASE l.work \in works /\ \A k \in links : k.item # l.item /\ k.work # l.work
  <2>1. PICK n : n = [l EXCEPT !.gen = gens + 1]
    OBVIOUS
  <2>2. /\ n \in LinkSort /\ n.gen = gens + 1 /\ n.item = l.item /\ n.work = l.work
        /\ n.state = l.state /\ n.mapped = l.mapped /\ n.key = l.key
    BY <2>1 DEF LinkSort
  <2>3. /\ links' = links \cup {n} /\ gens' = gens + 1
        /\ approved' = IF l.state = "active" THEN approved \cup {<<l.item, l.key>>} ELSE approved
        /\ rejected' \subseteq rejected
    BY <1>1, <2>1 DEF Create
  <2>4. \A k : Vouched(k) => Vouched(k)'
    BY <2>3, VouchedStays
  <2>5. Vouched(n)'
    BY <2>2, <2>3 DEF Vouched
  <2>. QED
    BY <1>1, <2>2, <2>3, <2>4, <2>5
<1>2. CASE ~(l.work \in works /\ \A k \in links : k.item # l.item /\ k.work # l.work)
  <2>1. UNCHANGED linkVars
    BY <1>2 DEF Create
  <2>. QED
    BY <2>1 DEF linkVars, Vouched
<1>. QED
  BY <1>1, <1>2

(* A link is rewritten on the work it has now. *)
LEMMA UpdateKeeps ==
  ASSUME LinksJoin, NEW l \in LinkSort, Update(l), works' = works, approved \subseteq approved',
         l.state = "active" => l.mapped, l.mapped => <<l.item, l.key>> \in approved'
  PROVE  LinksJoin'
<1>. USE DEF LinksJoin
<1>1. \A k : Vouched(k) => Vouched(k)'
  BY VouchedStays
<1>2. CASE \E k \in links : k.item = l.item /\ k.gen = l.gen
  <2>1. PICK old \in links : old = (CHOOSE k \in LinkOf(l.item) : TRUE) /\ old.item = l.item
    BY <1>2 DEF LinkOf
  <2>2. PICK n : n = [l EXCEPT !.gen = gens + 1, !.work = old.work]
    OBVIOUS
  <2>3. links' = {k \in links : k.item # l.item} \cup {n} /\ gens' = gens + 1
    BY <1>2, <2>1, <2>2 DEF Update
  <2>4. old \in LinkSort /\ old.work \in Works
    BY DEF LinkSort
  <2>5. /\ n \in LinkSort /\ n.gen = gens + 1 /\ n.item = l.item /\ n.work = old.work
        /\ n.state = l.state /\ n.mapped = l.mapped /\ n.key = l.key
    <3>1. [l EXCEPT !.gen = gens + 1] \in LinkSort
      BY DEF LinkSort
    <3>2. n = [[l EXCEPT !.gen = gens + 1] EXCEPT !.work = old.work]
      BY <2>2 DEF LinkSort
    <3>. QED
      BY <2>4, <3>1, <3>2 DEF LinkSort
  <2>6. Vouched(n)'
    BY <2>5 DEF Vouched
  <2>. QED
    BY <1>1, <2>1, <2>3, <2>5, <2>6
<1>3. CASE ~\E k \in links : k.item = l.item /\ k.gen = l.gen
  BY <1>1, <1>3 DEF Update
<1>. QED
  BY <1>2, <1>3

(* A link that is given another work, and with it a generation. *)
Regraft(l, w, g) == [l EXCEPT !.work = w, !.gen = g]
LEMMA RegraftTyped ==
  ASSUME NEW l \in LinkSort, NEW w \in Works, NEW g \in Nat
  PROVE  /\ Regraft(l, w, g) \in LinkSort /\ Regraft(l, w, g).gen = g
         /\ Regraft(l, w, g).item = l.item /\ Regraft(l, w, g).work = w
         /\ Regraft(l, w, g).state = l.state /\ Regraft(l, w, g).mapped = l.mapped
         /\ Regraft(l, w, g).key = l.key
<1>1. [l EXCEPT !.work = w] \in LinkSort
  BY DEF LinkSort
<1>2. Regraft(l, w, g) = [[l EXCEPT !.work = w] EXCEPT !.gen = g]
  BY DEF LinkSort, Regraft
<1>. QED
  BY <1>1, <1>2 DEF LinkSort

(* A merge: of two links the survivor's stays, and takes nothing over. *)
LEMMA MergeStep ==
  ASSUME LinksAssumption, LinksInv, NEW from \in Works, NEW into \in Works, Merge(from, into)
  PROVE  LinksInv'
<1>. USE DEF LinksInv
<1>1. /\ from \in works /\ into \in works /\ from # into
      /\ links' = Carried(from, into) /\ gens' = gens + 1
      /\ works' = works \ {from} /\ unborn' = unborn
      /\ bytes' = bytes /\ shelf' = shelf /\ chapters' = chapters /\ listed' = listed
      /\ pass' = pass /\ job' = job /\ approved' = approved
  BY DEF Merge, worldVars
<1>2. WorldTyped' /\ GraphTyped'
  BY <1>1 DEF Merge, WorldTyped, GraphTyped
<1>3. rejected' \subseteq works' \X Items
  <2>1. ASSUME NEW r \in rejected PROVE <<IF r[1] = from THEN into ELSE r[1], r[2]>> \in works' \X Items
    BY <1>1
  <2>. QED
    BY <2>1 DEF Merge
<1>4. PassRemembers' /\ JobRemembers' /\ \A l : Vouched(l) => Vouched(l)'
  BY <1>1, VouchedStays
<1>5. LinksJoin'
  <2>. USE DEF LinksJoin
  <2>. DEFINE staying == IF \E l \in links : l.work = into THEN {l \in links : l.work # from} ELSE links
              F(l) == IF l.work = from THEN [l EXCEPT !.work = into, !.gen = gens + 1] ELSE l
  <2>1. links' = {F(l) : l \in staying} /\ staying \subseteq links
    BY <1>1 DEF Carried
  <2>2. \A l \in staying : l.work = from => \A k \in links : k.work # into
    OBVIOUS
  <2>3. ASSUME NEW l \in staying
        PROVE  /\ F(l) \in LinkSort /\ F(l).work \in works' /\ F(l).gen \in 1..gens' /\ F(l).item = l.item
               /\ F(l).work = (IF l.work = from THEN into ELSE l.work)
               /\ F(l).state = l.state /\ F(l).mapped = l.mapped /\ F(l).key = l.key
    <3>1. l \in links /\ l \in LinkSort /\ into \in Works
      BY <2>1
    <3>2. CASE l.work = from
      <4>1. PICK n : n = Regraft(l, into, gens + 1)
        OBVIOUS
      <4>2. F(l) = n
        BY <3>2, <4>1 DEF Regraft
      <4>. HIDE DEF F
      <4>3. /\ n \in LinkSort /\ n.gen = gens + 1 /\ n.item = l.item /\ n.work = into
            /\ n.state = l.state /\ n.mapped = l.mapped /\ n.key = l.key
        <5>1. gens + 1 \in Nat
          OBVIOUS
        <5>. QED
          BY <3>1, <4>1, <5>1, RegraftTyped
      <4>. QED
        BY <1>1, <3>2, <4>2, <4>3
    <3>3. CASE l.work # from
      BY <1>1, <3>1, <3>3
    <3>. QED
      BY <3>2, <3>3
  <2>. HIDE DEF F
  <2>4. ASSUME NEW n \in links' PROVE n \in LinkSort /\ n.work \in works' /\ n.gen \in 1..gens' /\ Vouched(n)'
    <3>1. PICK l \in staying : n = F(l)
      BY <2>1
    <3>2. Vouched(l)
      BY <2>1
    <3>. QED
      BY <1>1, <2>3, <3>1, <3>2 DEF Vouched
  <2>5. ASSUME NEW n \in links', NEW m \in links', n.item = m.item \/ n.work = m.work PROVE n = m
    <3>1. PICK l \in staying, k \in staying : n = F(l) /\ m = F(k)
      BY <2>1
    <3>2. l.item = k.item \/ l.work = k.work
      BY <2>1, <2>2, <2>3, <2>5, <3>1
    <3>. QED
      BY <2>1, <3>1, <3>2
  <2>. HIDE DEF staying
  <2>. QED
    BY <1>1, <2>4, <2>5
<1>. QED
  BY <1>2, <1>3, <1>4, <1>5

(* A split: the link of the edition goes along to a work nobody has. *)
LEMMA SplitStep ==
  ASSUME LinksAssumption, LinksInv, NEW e \in Editions, NEW w \in Works, Split(e, w)
  PROVE  LinksInv'
<1>. USE DEF LinksInv
<1>1. /\ edition[e] # None /\ w \in unborn
      /\ links' = {IF l.work = edition[e] /\ l.edition = e
                   THEN [l EXCEPT !.work = w, !.gen = gens + 1] ELSE l : l \in links}
      /\ gens' = gens + 1
      /\ works' = works \cup {w} /\ unborn' = unborn \ {w} /\ rejected' = rejected
      /\ bytes' = bytes /\ shelf' = shelf /\ chapters' = chapters /\ listed' = listed
      /\ pass' = pass /\ job' = job /\ approved' = approved
  BY DEF Split, worldVars
<1>2. WorldTyped' /\ GraphTyped' /\ rejected' \subseteq works' \X Items
  BY <1>1 DEF Split, WorldTyped, GraphTyped
<1>3. PassRemembers' /\ JobRemembers' /\ \A l : Vouched(l) => Vouched(l)'
  BY <1>1, VouchedStays
<1>4. LinksJoin'
  <2>. USE DEF LinksJoin
  <2>. DEFINE moved(l) == l.work = edition[e] /\ l.edition = e
              F(l) == IF moved(l) THEN [l EXCEPT !.work = w, !.gen = gens + 1] ELSE l
  <2>1. links' = {F(l) : l \in links}
    BY <1>1
  <2>2. w \notin works
    BY <1>1 DEF GraphTyped
  <2>0. works' = works \cup {w} /\ gens' = gens + 1 /\ gens \in Nat
    BY <1>1
  <2>3. ASSUME NEW l \in links
        PROVE  /\ F(l) \in LinkSort /\ F(l).work \in works' /\ F(l).gen \in 1..gens' /\ F(l).item = l.item
               /\ F(l).work = (IF moved(l) THEN w ELSE l.work)
               /\ F(l).state = l.state /\ F(l).mapped = l.mapped /\ F(l).key = l.key
    <3>1. CASE moved(l)
      <4>1. PICK n : n = Regraft(l, w, gens + 1)
        OBVIOUS
      <4>2. F(l) = n
        BY <3>1, <4>1 DEF Regraft
      <4>. HIDE DEF F, moved
      <4>3. /\ n \in LinkSort /\ n.gen = gens + 1 /\ n.item = l.item /\ n.work = w
            /\ n.state = l.state /\ n.mapped = l.mapped /\ n.key = l.key
        <5>1. l \in LinkSort /\ gens + 1 \in Nat
          OBVIOUS
        <5>. QED
          BY <4>1, <5>1, RegraftTyped
      <4>. QED
        BY <2>0, <3>1, <4>2, <4>3
    <3>2. CASE ~moved(l)
      <4>1. F(l) = l
        BY <3>2
      <4>2. l \in LinkSort /\ l.work \in works /\ l.gen \in 1..gens
        OBVIOUS
      <4>. HIDE DEF F, moved
      <4>. QED
        BY <2>0, <3>2, <4>1, <4>2
    <3>. QED
      BY <3>1, <3>2
  <2>. HIDE DEF F
  <2>4. ASSUME NEW n \in links' PROVE n \in LinkSort /\ n.work \in works' /\ n.gen \in 1..gens' /\ Vouched(n)'
    <3>1. PICK l \in links : n = F(l)
      BY <2>1
    <3>2. Vouched(l)
      OBVIOUS
    <3>. QED
      BY <1>1, <2>3, <3>1, <3>2 DEF Vouched
  <2>5. ASSUME NEW n \in links', NEW m \in links', n.item = m.item \/ n.work = m.work PROVE n = m
    <3>1. PICK l \in links, k \in links : n = F(l) /\ m = F(k)
      BY <2>1
    <3>2. l.item = k.item \/ l.work = k.work
      BY <2>2, <2>3, <2>5, <3>1
    <3>. QED
      BY <3>1, <3>2
  <2>. HIDE DEF moved
  <2>6. gens' \in Nat
    BY <2>0
  <2>. QED
    BY <2>4, <2>5, <2>6
<1>. QED
  BY <1>2, <1>3, <1>4

(* A work goes, with its links. *)
LEMMA DeleteWorkStep ==
  ASSUME LinksAssumption, LinksInv, NEW w \in Works, DeleteWork(w)
  PROVE  LinksInv'
<1>. USE DEF LinksInv
<1>1. /\ works' = works \ {w} /\ links' = {l \in links : l.work # w} /\ gens' = gens
      /\ rejected' = {r \in rejected : r[1] # w} /\ unborn' = unborn
      /\ bytes' = bytes /\ shelf' = shelf /\ chapters' = chapters /\ listed' = listed
      /\ bookWork' = bookWork /\ \A b \in Books : bookWork[b] # w
      /\ pass' = pass /\ job' = job /\ approved' = approved
  BY DEF DeleteWork, worldVars
<1>2. WorldTyped' /\ rejected' \subseteq works' \X Items
  BY <1>1 DEF WorldTyped
<1>3. GraphTyped'
  <2>1. edition' \in [Editions -> works' \cup {None}]
    BY <1>1 DEF DeleteWork, GraphTyped
  <2>. QED
    BY <1>1, <2>1 DEF GraphTyped
<1>4. PassRemembers' /\ JobRemembers' /\ \A l : Vouched(l) => Vouched(l)'
  BY <1>1, VouchedStays
<1>5. LinksJoin'
  <2>1. gens' = gens /\ \A l \in links' : l \in links /\ l.work \in works'
    BY <1>1 DEF LinksJoin
  <2>2. ASSUME NEW l \in links' PROVE l \in LinkSort /\ l.work \in works' /\ l.gen \in 1..gens' /\ Vouched(l)'
    BY <1>4, <2>1 DEF LinksJoin
  <2>3. \A l, k \in links' : l.item = k.item \/ l.work = k.work => l = k
    BY <2>1 DEF LinksJoin
  <2>. QED
    BY <2>1, <2>2, <2>3 DEF LinksJoin
<1>. QED
  BY <1>2, <1>3, <1>4, <1>5

(* The library and the peer change. *)
LEMMA WorldStep ==
  ASSUME LinksAssumption, LinksInv,
         \/ \E b \in Books : Replace(b) \/ Vanish(b)
         \/ \E i \in Items : Recut(i) \/ Unlist(i)
  PROVE  LinksInv'
<1>. USE DEF LinksInv
<1>1. /\ links' = links /\ gens' = gens /\ rejected' = rejected /\ approved' = approved
      /\ pass' = pass /\ job' = job /\ works' = works /\ unborn' = unborn /\ bookWork' = bookWork
  BY DEF Replace, Vanish, Recut, Unlist, linkVars, graphVars
<1>2. WorldTyped' /\ edition' \in [Editions -> works \cup {None}]
  <2>1. ASSUME NEW b \in Books, Replace(b) PROVE WorldTyped' /\ edition' \in [Editions -> works \cup {None}]
    <3>1. bytes[b] + 1 \in Versions
      BY <2>1 DEF Replace, WorldTyped, Versions, LinksAssumption
    <3>2. bytes' = [bytes EXCEPT ![b] = bytes[b] + 1]
      BY <2>1 DEF Replace
    <3>3. WorldTyped'
      BY <2>1, <3>1, <3>2 DEF Replace, WorldTyped
    <3>. QED
      BY <2>1, <3>3 DEF Replace, GraphTyped
  <2>2. ASSUME NEW b \in Books, Vanish(b) PROVE WorldTyped' /\ edition' = edition
    BY <2>2 DEF Vanish, WorldTyped, graphVars
  <2>3. ASSUME NEW i \in Items, Recut(i) PROVE WorldTyped' /\ edition' = edition
    <3>1. chapters[i] + 1 \in Versions
      BY <2>3 DEF Recut, WorldTyped, Versions, LinksAssumption
    <3>2. chapters' = [chapters EXCEPT ![i] = chapters[i] + 1]
      BY <2>3 DEF Recut
    <3>. QED
      BY <2>3, <3>1, <3>2 DEF Recut, WorldTyped, graphVars
  <2>4. ASSUME NEW i \in Items, Unlist(i) PROVE WorldTyped' /\ edition' = edition
    BY <2>4 DEF Unlist, WorldTyped, graphVars
  <2>. QED
    BY <2>1, <2>2, <2>3, <2>4 DEF GraphTyped
<1>3. GraphTyped' /\ rejected' \subseteq works' \X Items
  BY <1>1, <1>2 DEF GraphTyped
<1>4. PassRemembers' /\ JobRemembers' /\ LinksJoin'
  BY <1>1, VouchedStays DEF LinksJoin
<1>. QED
  BY <1>2, <1>3, <1>4

(* A pass begins, takes an item and ends. *)
LEMMA LinkPassStep ==
  ASSUME LinksAssumption, LinksInv, BeginPass \/ \E i \in Items : TakeItem(i)
  PROVE  LinksInv'
<1>. USE DEF LinksInv
<1>1. /\ links' = links /\ gens' = gens /\ rejected' = rejected /\ approved' = approved
      /\ works' = works /\ unborn' = unborn /\ bookWork' = bookWork /\ edition' = edition
      /\ bytes' = bytes /\ shelf' = shelf /\ chapters' = chapters /\ listed' = listed
  BY DEF BeginPass, TakeItem, linkVars, graphVars, worldVars
<1>2. WorldTyped' /\ GraphTyped' /\ rejected' \subseteq works' \X Items
  BY <1>1 DEF WorldTyped, GraphTyped
<1>3. LinksJoin' /\ \A l : Vouched(l) => Vouched(l)'
  BY <1>1, VouchedStays DEF LinksJoin
<1>4. PassRemembers' /\ JobRemembers'
  <2>1. CASE BeginPass
    <3>1. pass' = [todo |-> listed, seen |-> listed, snap |-> links] /\ job' = job
      BY <2>1 DEF BeginPass
    <3>2. pass' \in PassSort /\ pass'.snap = links
      BY <3>1 DEF PassSort, WorldTyped, LinksJoin
    <3>3. \A l \in links : Vouched(l)'
      BY <1>3 DEF LinksJoin
    <3>4. PassRemembers'
      BY <3>2, <3>3 DEF PassRemembers
    <3>. QED
      BY <1>1, <3>1, <3>4, VouchedStays
  <2>2. ASSUME NEW i \in Items, TakeItem(i) PROVE PassRemembers' /\ JobRemembers'
    <3>1. pass' = [pass EXCEPT !.todo = @ \ {i}] /\ pass # None
      BY <2>2 DEF TakeItem
    <3>2. pass' \in PassSort /\ pass'.snap = pass.snap
      BY <3>1 DEF PassRemembers, PassSort
    <3>3. PassRemembers'
      BY <1>3, <3>1, <3>2 DEF PassRemembers
    <3>. DEFINE matched == [stage |-> "matched", item |-> i, book |-> MatchOf[i],
                            edition |-> <<MatchOf[i], bytes[MatchOf[i]]>>,
                            reserved |-> {l.work : l \in links}, rejects |-> rejected]
                linked == [stage |-> "linked", item |-> i]
    <3>4. job' \in {linked, matched, None}
      BY <2>2 DEF TakeItem
    <3>5. linked \in JobSort /\ linked.stage = "linked"
      BY DEF JobSort
    <3>6. matched \in JobSort /\ matched.stage = "matched"
      <4>1. MatchOf[i] \in Books /\ <<MatchOf[i], bytes[MatchOf[i]]>> \in Editions
        BY DEF LinksAssumption, WorldTyped, Editions
      <4>2. {l.work : l \in links} \subseteq Works /\ rejected \subseteq Works \X Items
        BY DEF LinksJoin, GraphTyped
      <4>. QED
        BY <4>1, <4>2 DEF JobSort
    <3>. HIDE DEF matched, linked
    <3>7. JobRemembers'
      BY <3>4, <3>5, <3>6 DEF JobRemembers
    <3>. QED
      BY <3>3, <3>7
  <2>. QED
    BY <2>1, <2>2
<1>. QED
  BY <1>2, <1>3, <1>4

(* A work is resolved, for a match or for a link. *)
LEMMA ResolveSteps ==
  ASSUME LinksAssumption, LinksInv, ResolveMatch \/ NewLink
  PROVE  LinksInv'
<1>. USE DEF LinksInv
<1>1. /\ links' = links /\ gens' = gens /\ rejected' = rejected /\ approved' = approved
      /\ bytes' = bytes /\ shelf' = shelf /\ chapters' = chapters /\ listed' = listed
      /\ pass' = pass /\ job # None /\ job \in JobSort
  BY DEF ResolveMatch, NewLink, linkVars, worldVars, JobRemembers
<1>2. /\ job.stage \in {"matched", "new"}
      /\ job.item \in Items /\ job.book \in Books /\ job.edition \in Editions
      /\ job.stage = "new" => job.source \in {"auto", "manual"}
  BY <1>1 DEF ResolveMatch, NewLink, JobSort
<1>3. PICK w \in Resolvable(job.book) :
        /\ Resolve(job.book, w)
        /\ \/ /\ ResolveMatch
              /\ job' = IF Refused(w) THEN None
                        ELSE [stage |-> "new", item |-> job.item, book |-> job.book,
                              edition |-> job.edition, source |-> "auto"]
           \/ /\ NewLink /\ job.stage = "new"
              /\ LET full == <<job.edition[2], chapters[job.item]>> \in Aligned
                     key == <<job.book, job.edition[2], chapters[job.item], FALSE>>
                 IN job' = [stage |-> "create",
                            link |-> [gen |-> 0, item |-> job.item, work |-> w, book |-> job.book,
                                      edition |-> job.edition, source |-> job.source, key |-> key,
                                      linear |-> FALSE, mapped |-> full,
                                      state |-> IF full THEN "active" ELSE "needs_mapping"]]
  BY DEF ResolveMatch, NewLink
<1>4. GraphTyped' /\ w \in Works /\ works \subseteq works'
  BY <1>2, <1>3, ResolveKeeps
<1>5. WorldTyped' /\ rejected' \subseteq works' \X Items
  BY <1>1, <1>4 DEF WorldTyped
<1>6. PassRemembers' /\ \A l : Vouched(l) => Vouched(l)'
  BY <1>1, VouchedStays
<1>7. LinksJoin'
  BY <1>1, <1>4, <1>6 DEF LinksJoin
<1>8. JobRemembers'
  <2>1. CASE ResolveMatch /\ job' = IF Refused(w) THEN None
                                    ELSE [stage |-> "new", item |-> job.item, book |-> job.book,
                                          edition |-> job.edition, source |-> "auto"]
    <3>1. [stage |-> "new", item |-> job.item, book |-> job.book,
           edition |-> job.edition, source |-> "auto"] \in JobSort
      BY <1>2 DEF JobSort
    <3>. QED
      BY <2>1, <3>1 DEF JobRemembers
  <2>2. CASE NewLink /\ job.stage = "new"
    <3>. DEFINE full == <<job.edition[2], chapters[job.item]>> \in Aligned
                key == <<job.book, job.edition[2], chapters[job.item], FALSE>>
                state == IF full THEN "active" ELSE "needs_mapping"
                l == [gen |-> 0, item |-> job.item, work |-> w, book |-> job.book,
                      edition |-> job.edition, source |-> job.source, key |-> key,
                      linear |-> FALSE, mapped |-> full, state |-> state]
    <3>1. job' = [stage |-> "create", link |-> l]
      BY <1>2, <1>3, <2>2 DEF ResolveMatch
    <3>2. key \in Books \X Versions \X Versions \X BOOLEAN
      BY <1>2 DEF WorldTyped, Editions
    <3>3. full \in BOOLEAN /\ state \in {"active", "needs_mapping"} /\ (full <=> state = "active")
      OBVIOUS
    <3>. HIDE DEF full, key, state
    <3>4. l \in LinkSort /\ (l.mapped <=> l.state = "active")
      <4>1. l.mapped = full /\ l.state = state
        OBVIOUS
      <4>2. l \in LinkSort
        BY <1>2, <1>4, <2>2, <3>2, <3>3 DEF LinkSort, States
      <4>. QED
        BY <3>3, <4>1, <4>2
    <3>. HIDE DEF l
    <3>5. job' \in JobSort /\ job'.stage = "create" /\ job'.link = l
      BY <3>1, <3>4 DEF JobSort
    <3>. QED
      BY <3>4, <3>5 DEF JobRemembers
  <2>. QED
    BY <1>3, <2>1, <2>2
<1>. QED
  BY <1>4, <1>5, <1>6, <1>7, <1>8

(* A link is stored, or rewritten. *)
LEMMA StoreSteps ==
  ASSUME LinksAssumption, LinksInv, CreateLink \/ UpdateLink \/ StoreConfirmed
  PROVE  LinksInv'
<1>. USE DEF LinksInv
<1>1. /\ works' = works /\ unborn' = unborn /\ bookWork' = bookWork /\ edition' = edition
      /\ bytes' = bytes /\ shelf' = shelf /\ chapters' = chapters /\ listed' = listed
      /\ pass' = pass /\ job # None /\ job \in JobSort
      /\ job.stage \in {"create", "update", "confirmed"} /\ job.link \in LinkSort
  BY DEF CreateLink, UpdateLink, StoreConfirmed, graphVars, worldVars, JobRemembers, JobSort
<1>2. PICK l \in LinkSort : l = job.link
  BY <1>1
<1>3. WorldTyped' /\ GraphTyped'
  BY <1>1 DEF WorldTyped, GraphTyped
<1>4. LinksJoin' /\ approved \subseteq approved' /\ rejected' \subseteq rejected
  <2>1. CASE CreateLink
    <3>1. l.mapped <=> l.state = "active"
      BY <1>1, <1>2, <2>1 DEF CreateLink, JobRemembers
    <3>2. CASE job.link.book \in shelf
      <4>1. Create(l)
        BY <1>2, <2>1, <3>2 DEF CreateLink
      <4>. QED
        BY <1>1, <3>1, <4>1, CreateKeeps
    <3>3. CASE job.link.book \notin shelf
      BY <1>1, <2>1, <3>3 DEF CreateLink, linkVars, LinksJoin, Vouched
    <3>. QED
      BY <3>2, <3>3
  <2>2. CASE UpdateLink
    <3>1. Update(l) /\ Vouched(l) /\ approved' = approved /\ rejected' = rejected
      BY <1>1, <1>2, <2>2 DEF UpdateLink, JobRemembers
    <3>2. (l.state = "active" => l.mapped) /\ (l.mapped => <<l.item, l.key>> \in approved')
      BY <3>1 DEF Vouched
    <3>. QED
      BY <1>1, <3>1, <3>2, UpdateKeeps
  <2>3. CASE StoreConfirmed
    <3>1. CASE job.link.book \in shelf
      <4>1. Update(l) /\ approved' = approved \cup {<<l.item, l.key>>} /\ rejected' = rejected
        BY <1>2, <2>3, <3>1 DEF StoreConfirmed
      <4>2. l.state = "active" => l.mapped
        BY <1>1, <1>2, <2>3 DEF StoreConfirmed, JobRemembers
      <4>. QED
        BY <1>1, <4>1, <4>2, UpdateKeeps
    <3>2. CASE job.link.book \notin shelf
      BY <1>1, <2>3, <3>2 DEF StoreConfirmed, LinksJoin, Vouched
    <3>. QED
      BY <3>1, <3>2
  <2>. QED
    BY <2>1, <2>2, <2>3
<1>5. PassRemembers'
  BY <1>1, <1>4, VouchedStays
<1>6. JobRemembers'
  <2>1. [stage |-> "linked", item |-> job.link.item] \in JobSort
    BY <1>1 DEF JobSort, LinkSort
  <2>2. job' \in {None, [stage |-> "linked", item |-> job.link.item]}
    BY DEF CreateLink, UpdateLink, StoreConfirmed
  <2>. QED
    BY <2>1, <2>2 DEF JobRemembers
<1>7. rejected' \subseteq works' \X Items
  BY <1>1, <1>4
<1>. QED
  BY <1>3, <1>4, <1>5, <1>6, <1>7

(* Revalidation reads a link and decides; what it decides on was vouched   *)
(* for or is not mapped.                                                   *)
LEMMA RevalidateStep ==
  ASSUME LinksAssumption, LinksInv, Revalidate \/ LinkGone
  PROVE  LinksInv'
<1>. USE DEF LinksInv
<1>1. /\ links' = links /\ gens' = gens /\ rejected' = rejected /\ approved' = approved
      /\ works' = works /\ unborn' = unborn /\ bookWork' = bookWork /\ edition' = edition
      /\ bytes' = bytes /\ shelf' = shelf /\ chapters' = chapters /\ listed' = listed
      /\ pass' = pass
  BY DEF Revalidate, LinkGone, linkVars, graphVars, worldVars
<1>2. WorldTyped' /\ GraphTyped' /\ rejected' \subseteq works' \X Items
  BY <1>1 DEF WorldTyped, GraphTyped
<1>3. LinksJoin' /\ PassRemembers' /\ \A l : Vouched(l) => Vouched(l)'
  BY <1>1, VouchedStays DEF LinksJoin
<1>4. JobRemembers'
  <2>1. CASE LinkGone
    BY <2>1 DEF LinkGone, JobRemembers
  <2>2. CASE Revalidate
    <3>1. PICK l \in links :
            LET next == IF Candidates(l) = {} THEN {[l EXCEPT !.state = "suspended"]}
                        ELSE {IF l.key # Key(b, l.item, l.linear) \/ b # l.book THEN Remapped(l, b)
                              ELSE IF l.state = "suspended" THEN Resumed(l) ELSE l : b \in Candidates(l)}
            IN \E n \in next : job' = IF n = l THEN None ELSE [stage |-> "update", link |-> n]
      BY <2>2 DEF Revalidate, LinkOf
    <3>2. l \in LinkSort /\ Vouched(l)
      BY DEF LinksJoin
    <3>3. /\ [l EXCEPT !.state = "suspended"] \in LinkSort
          /\ Vouched([l EXCEPT !.state = "suspended"])
      BY <3>2 DEF LinkSort, States, Vouched
    <3>4. Resumed(l) \in LinkSort /\ Vouched(Resumed(l))
      BY <3>2 DEF LinkSort, States, Vouched, Resumed
    <3>5. ASSUME NEW b \in Candidates(l)
          PROVE  Remapped(l, b) \in LinkSort /\ Vouched(Remapped(l, b))
      <4>1. b \in Books
        BY DEF Candidates, WorldTyped
      <4>2. /\ Key(b, l.item, l.linear) \in Books \X Versions \X Versions \X BOOLEAN
            /\ <<b, bytes[b]>> \in Editions
        BY <3>2, <4>1 DEF Key, WorldTyped, LinkSort, Editions
      <4>3. PICK k \in Books \X Versions \X Versions \X BOOLEAN, e \in Editions :
              k = Key(b, l.item, l.linear) /\ e = <<b, bytes[b]>>
        BY <4>2
      <4>4. Remapped(l, b) = [l EXCEPT !.book = b, !.edition = e, !.key = k, !.mapped = FALSE,
                                       !.state = "needs_mapping"]
        BY <4>3 DEF Remapped
      <4>5. Remapped(l, b) \in LinkSort
        <5>1. [l EXCEPT !.book = b] \in LinkSort
          BY <3>2, <4>1 DEF LinkSort
        <5>2. [[l EXCEPT !.book = b] EXCEPT !.edition = e] \in LinkSort
          BY <5>1 DEF LinkSort
        <5>3. [[[l EXCEPT !.book = b] EXCEPT !.edition = e] EXCEPT !.key = k] \in LinkSort
          BY <5>2 DEF LinkSort
        <5>4. [[[[l EXCEPT !.book = b] EXCEPT !.edition = e] EXCEPT !.key = k] EXCEPT !.mapped = FALSE]
                \in LinkSort
          BY <5>3 DEF LinkSort
        <5>5. [[[[[l EXCEPT !.book = b] EXCEPT !.edition = e] EXCEPT !.key = k] EXCEPT !.mapped = FALSE]
                 EXCEPT !.state = "needs_mapping"] \in LinkSort
          BY <5>4 DEF LinkSort, States
        <5>. QED
          BY <4>4, <5>5
      <4>6. Remapped(l, b).mapped = FALSE /\ Remapped(l, b).state = "needs_mapping"
        BY <3>2, <4>4 DEF LinkSort
      <4>. QED
        BY <4>5, <4>6 DEF Vouched
    <3>6. PICK n \in LinkSort :
            Vouched(n) /\ job' = IF n = l THEN None ELSE [stage |-> "update", link |-> n]
      BY <3>1, <3>2, <3>3, <3>4, <3>5
    <3>7. [stage |-> "update", link |-> n] \in JobSort
      BY DEF JobSort
    <3>8. Vouched(n)'
      BY <1>3, <3>6
    <3>. QED
      BY <3>6, <3>7, <3>8 DEF JobRemembers
  <2>. QED
    BY <2>1, <2>2
<1>. QED
  BY <1>2, <1>3, <1>4

(* Links of items the peer does not list are paused, as they were. *)
LEMMA EndPassStep ==
  ASSUME LinksAssumption, LinksInv, EndPass
  PROVE  LinksInv'
<1>. USE DEF LinksInv
<1>1. /\ rejected' = rejected /\ approved' = approved /\ job' = job
      /\ works' = works /\ unborn' = unborn /\ bookWork' = bookWork /\ edition' = edition
      /\ bytes' = bytes /\ shelf' = shelf /\ chapters' = chapters /\ listed' = listed
      /\ pass # None /\ pass \in PassSort /\ \A l \in pass.snap : Vouched(l)
  BY DEF EndPass, graphVars, worldVars, PassRemembers
<1>2. WorldTyped' /\ GraphTyped' /\ rejected' \subseteq works' \X Items
  BY <1>1 DEF WorldTyped, GraphTyped
<1>3. JobRemembers' /\ \A l : Vouched(l) => Vouched(l)'
  BY <1>1, VouchedStays
<1>4. LinksJoin' /\ PassRemembers'
  <2>1. CASE pass' = None /\ UNCHANGED <<links, gens>>
    BY <1>1, <1>3, <2>1 DEF LinksJoin, PassRemembers
  <2>2. CASE ~(pass' = None /\ UNCHANGED <<links, gens>>)
    <3>1. PICK l \in pass.snap :
            Update([l EXCEPT !.state = "suspended"]) /\ pass' = [pass EXCEPT !.snap = @ \ {l}]
      BY <2>2 DEF EndPass
    <3>2. PICK n : n = [l EXCEPT !.state = "suspended"]
      OBVIOUS
    <3>3. l \in LinkSort /\ Vouched(l)
      BY <1>1 DEF PassSort
    <3>4. /\ n \in LinkSort /\ n.state = "suspended" /\ n.mapped = l.mapped /\ n.item = l.item
          /\ n.key = l.key
      BY <3>2, <3>3 DEF LinkSort, States
    <3>5. Update(n)
      BY <3>1, <3>2
    <3>6. n.mapped => <<n.item, n.key>> \in approved'
      BY <1>1, <3>3, <3>4 DEF Vouched
    <3>7. LinksJoin'
      BY <1>1, <3>4, <3>5, <3>6, UpdateKeeps
    <3>8. pass' \in PassSort /\ pass'.snap \subseteq pass.snap
      BY <1>1, <3>1 DEF PassSort
    <3>9. PassRemembers'
      BY <1>1, <1>3, <3>8 DEF PassRemembers
    <3>. QED
      BY <3>7, <3>9
  <2>. QED
    BY <2>1, <2>2
<1>. QED
  BY <1>2, <1>3, <1>4

(* What the reader does on the page of links. *)
LEMMA ReaderStep ==
  ASSUME LinksAssumption, LinksInv,
         \/ \E i \in Items, b \in Books : LinkByHand(i, b)
         \/ \E l \in links : Unlink(l) \/ Confirm(l, TRUE) \/ Confirm(l, FALSE)
  PROVE  LinksInv'
<1>. USE DEF LinksInv
<1>1. /\ gens' = gens /\ approved' = approved
      /\ works' = works /\ unborn' = unborn /\ bookWork' = bookWork /\ edition' = edition
      /\ bytes' = bytes /\ shelf' = shelf /\ chapters' = chapters /\ listed' = listed
      /\ pass' = pass
  BY DEF LinkByHand, Unlink, Confirm, linkVars, graphVars, worldVars
<1>2. WorldTyped' /\ GraphTyped'
  BY <1>1 DEF WorldTyped, GraphTyped
<1>3. PassRemembers' /\ (\A l : Vouched(l) => Vouched(l)') /\ (job' = job => JobRemembers')
  BY <1>1, VouchedStays
<1>4. ASSUME NEW i \in Items, NEW b \in Books, LinkByHand(i, b)
      PROVE  links' = links /\ rejected' = rejected /\ JobRemembers'
  <2>1. <<b, bytes[b]>> \in Editions
    BY DEF WorldTyped, Editions
  <2>2. [stage |-> "new", item |-> i, book |-> b, edition |-> <<b, bytes[b]>>, source |-> "manual"]
          \in JobSort
    BY <2>1 DEF JobSort
  <2>3. job' = [stage |-> "new", item |-> i, book |-> b, edition |-> <<b, bytes[b]>>,
                source |-> "manual"]
    BY <1>4 DEF LinkByHand
  <2>. QED
    BY <1>4, <2>2, <2>3 DEF LinkByHand, linkVars, JobRemembers
<1>5. ASSUME NEW l \in links, Unlink(l)
      PROVE  /\ links' \subseteq links /\ rejected' \subseteq works \X Items /\ job' = job
  BY <1>5 DEF Unlink, LinksJoin, LinkSort
<1>6. ASSUME NEW l \in links, NEW linear \in BOOLEAN, Confirm(l, linear)
      PROVE  links' = links /\ rejected' = rejected /\ JobRemembers'
  <2>. DEFINE asLinear == linear \/ l.linear
              n == [l EXCEPT !.linear = asLinear, !.mapped = TRUE, !.state = "active",
                             !.edition = <<l.book, bytes[l.book]>>,
                             !.key = Key(l.book, l.item, asLinear)]
  <2>1. job' = [stage |-> "confirmed", link |-> n]
    BY <1>6 DEF Confirm
  <2>2. l \in LinkSort /\ l.book \in Books /\ l.item \in Items
    BY DEF LinksJoin, LinkSort
  <2>3. asLinear \in BOOLEAN
    OBVIOUS
  <2>. HIDE DEF asLinear
  <2>4. /\ Key(l.book, l.item, asLinear) \in Books \X Versions \X Versions \X BOOLEAN
        /\ <<l.book, bytes[l.book]>> \in Editions
    BY <2>2, <2>3 DEF Key, WorldTyped, Editions
  <2>5. PICK k \in Books \X Versions \X Versions \X BOOLEAN, e \in Editions, s \in BOOLEAN :
          k = Key(l.book, l.item, asLinear) /\ e = <<l.book, bytes[l.book]>> /\ s = asLinear
    BY <2>3, <2>4
  <2>6. n = [[[[[l EXCEPT !.linear = s] EXCEPT !.mapped = TRUE] EXCEPT !.state = "active"]
                  EXCEPT !.edition = e] EXCEPT !.key = k]
    BY <2>2, <2>5 DEF LinkSort
  <2>. HIDE DEF n
  <2>7. [l EXCEPT !.linear = s] \in LinkSort
    BY <2>2 DEF LinkSort
  <2>8. /\ [[l EXCEPT !.linear = s] EXCEPT !.mapped = TRUE] \in LinkSort
        /\ [[l EXCEPT !.linear = s] EXCEPT !.mapped = TRUE].mapped
    BY <2>7 DEF LinkSort
  <2>9. /\ [[[l EXCEPT !.linear = s] EXCEPT !.mapped = TRUE] EXCEPT !.state = "active"] \in LinkSort
        /\ [[[l EXCEPT !.linear = s] EXCEPT !.mapped = TRUE] EXCEPT !.state = "active"].mapped
    BY <2>8 DEF LinkSort, States
  <2>10. PICK m \in LinkSort :
           m = [[[l EXCEPT !.linear = s] EXCEPT !.mapped = TRUE] EXCEPT !.state = "active"] /\ m.mapped
    BY <2>9
  <2>11. n \in LinkSort /\ n.mapped
    <3>1. [m EXCEPT !.edition = e] \in LinkSort /\ [m EXCEPT !.edition = e].mapped
      BY <2>10 DEF LinkSort
    <3>2. n = [[m EXCEPT !.edition = e] EXCEPT !.key = k]
      BY <2>6, <2>10
    <3>. QED
      BY <3>1, <3>2 DEF LinkSort
  <2>12. job' \in JobSort /\ job'.stage = "confirmed" /\ job'.link = n
    BY <2>1, <2>11 DEF JobSort
  <2>13. JobRemembers'
    BY <2>11, <2>12 DEF JobRemembers
  <2>. QED
    BY <1>6, <2>13 DEF Confirm, linkVars
<1>7. links' \subseteq links /\ rejected' \subseteq works' \X Items /\ JobRemembers'
  BY <1>1, <1>3, <1>4, <1>5, <1>6
<1>8. LinksJoin'
  BY <1>1, <1>3, <1>7 DEF LinksJoin
<1>. QED
  BY <1>2, <1>3, <1>7, <1>8

LEMMA LinksStep ==
  ASSUME LinksAssumption, LinksInv, [LinkNext]_libraryVars
  PROVE  LinksInv'
<1>1. CASE UNCHANGED libraryVars
  <2>. USE <1>1 DEF libraryVars, graphVars, worldVars, linkVars, LinksInv
  <2>1. WorldTyped' /\ GraphTyped' /\ rejected' \subseteq works' \X Items
    BY DEF WorldTyped, GraphTyped
  <2>. QED
    BY <2>1, VouchedStays DEF LinksJoin
<1>2. CASE LinkNext
  <2>1. CASE Work \/ LinkStep
    BY <2>1, ResolveSteps, StoreSteps, RevalidateStep, LinkPassStep, EndPassStep DEF Work, LinkStep
  <2>2. CASE ~(Work \/ LinkStep)
    BY <1>2, <2>2, MergeStep, SplitStep, DeleteWorkStep, WorldStep, ReaderStep DEF LinkNext
  <2>. QED
    BY <2>1, <2>2
<1>. QED
  BY <1>1, <1>2

(* The inductive invariant of the links of a reader: what is mapped was    *)
(* vouched for, in the store and in what a pass or the reader is about to  *)
(* store.                                                                  *)
THEOREM LinksInvariant == ASSUME LinksAssumption PROVE LinkSpec => []LinksInv
<1>1. LinkInit => LinksInv
  BY LinksInit
<1>2. LinksInv /\ [LinkNext]_libraryVars => LinksInv'
  BY LinksStep
<1>. QED
  BY <1>1, <1>2, PTL DEF LinkSpec

(* A link joins one item and one work, and a work that exists, whatever is *)
(* merged, split, deleted, unlinked or matched meanwhile                   *)
(* (CreateAudiobookLink, moveAudiobookLinksTx, splitAudiobookLinksTx).     *)
THEOREM LinksTyped == ASSUME LinksAssumption PROVE LinkSpec => []LinkTypeOK
<1>1. LinksInv => LinkTypeOK
  BY DEF LinksInv, GraphTyped, LinksJoin, LinkTypeOK, LinkSort, States
<1>. QED
  BY <1>1, LinksInvariant, PTL

(* Nothing crosses an alignment that was neither of full confidence when   *)
(* the link was made nor confirmed by the reader, for any library, peer    *)
(* and graph of works (revalidate).                                        *)
THEOREM LinksNothingUnconfirmed == ASSUME LinksAssumption PROVE LinkSpec => []NothingUnconfirmed
<1>1. LinksInv => NothingUnconfirmed
  BY DEF LinksInv, LinksJoin, Vouched, NothingUnconfirmed
<1>. QED
  BY <1>1, LinksInvariant, PTL

-----------------------------------------------------------------------------
(* Sessions.                                                               *)

Dates == 0..(MaxClock + Skew)

ImportSort ==
  [now : Nat, gen : Nat, boundary : Int, mark : Nat, page : Nat, rows : SUBSET (Ids \X Dates),
   last : BOOLEAN]

FeedTyped ==
  /\ clock \in Start..MaxClock
  /\ dates \in Clocks
  /\ remote \in [Ids -> Dates] /\ kept \in [Ids -> Dates]
  /\ gone \subseteq Ids \ Listed
  /\ changes \in Nat
  /\ mark \in [gen : 0..changes, watermark : 0..clock]
  /\ import \in ImportSort \cup {NoImport}

(* What a device that is behind can have dated so far; everything the      *)
(* import has read was.                                                    *)
Dated(d) == d = 0 \/ \E j \in dates : d <= clock + j

Importing == import # NoImport
Upto(r) == Smaller(r[2], import.now)

DatesSeen ==
  /\ \A i \in Ids : Dated(remote[i])
  /\ Dated(mark.watermark)
  /\ Importing => /\ Dated(import.mark) /\ import.mark <= import.now
                  /\ import.now <= clock /\ import.gen <= mark.gen
                  /\ \A r \in import.rows : Dated(r[2])

(* A session to be imported comes later than the watermark the import is   *)
(* about to leave, whichever rows it still stores; or it is one of these;  *)
(* or it is on a page that is still to be read.                            *)
Above(i) ==
  /\ remote[i] > Boundary(import.mark)
  /\ \A r \in import.rows : remote[i] > Boundary(Upto(r))
InHand(i) == <<i, remote[i]>> \in import.rows
ToRead(i) == ~import.last /\ import.page * PerPage <= Cardinality(Ahead(i))

ImportGoesOn ==
  Importing /\ mark.gen = import.gen =>
    /\ import.boundary = Boundary(mark.watermark)
    /\ \A i \in Listed : kept[i] < remote[i] => Above(i) \/ InHand(i) \/ ToRead(i)

FeedSeen == FeedTyped /\ DatesSeen
StillToCome == NothingMissed /\ ImportGoesOn

(* The list is ordered, and who is ahead of a session has fewer ahead.     *)
LEMMA ListOrdered ==
  ASSUME SessionsAssumption, remote \in [Ids -> Dates]
  PROVE  /\ IsFiniteSet(Listed)
         /\ \A i \in Listed : /\ Ahead(i) \subseteq Listed /\ IsFiniteSet(Ahead(i))
                              /\ Cardinality(Ahead(i)) \in Nat
                              /\ Cardinality(Ahead(i)) < Cardinality(Listed)
                              /\ \A j \in Ahead(i) :
                                   /\ Ahead(j) \subseteq Ahead(i)
                                   /\ Cardinality(Ahead(j)) < Cardinality(Ahead(i))
         /\ \A i, j \in Listed : i \in Ahead(j) \/ j \in Ahead(i) \/ i = j
<1>0. Ids \subseteq Int /\ IsFiniteSet(Ids) /\ Dates \subseteq Int
  BY DEF SessionsAssumption, Dates
<1>1. IsFiniteSet(Listed)
  BY <1>0, FS_Subset DEF Listed
<1>9. \A i \in Listed : i \in Int /\ remote[i] \in Int
  BY <1>0 DEF Listed
<1>10. \A i, j : j \in Ahead(i) <=> /\ j \in Listed
                                  /\ (remote[j] > remote[i] \/ (remote[j] = remote[i] /\ j < i))
  BY DEF Ahead
<1>2. ASSUME NEW i \in Listed
      PROVE  Ahead(i) \subseteq Listed /\ IsFiniteSet(Ahead(i)) /\ Cardinality(Ahead(i)) \in Nat /\ i \notin Ahead(i)
  <2>1. Ahead(i) \subseteq Listed /\ i \notin Ahead(i)
    BY <1>9, <1>10
  <2>. QED
    BY <2>1, <1>1, FS_Subset, FS_CardinalityType
<1>3. ASSUME NEW i \in Listed PROVE Cardinality(Ahead(i)) < Cardinality(Listed)
  <2>1. Cardinality(Ahead(i)) <= Cardinality(Listed) /\ Cardinality(Ahead(i)) # Cardinality(Listed)
    BY <1>1, <1>2, FS_Subset
  <2>. QED
    BY <2>1, <1>1, <1>2, FS_CardinalityType
<1>4. ASSUME NEW i \in Listed, NEW j \in Ahead(i)
      PROVE  Ahead(j) \subseteq Ahead(i) /\ Cardinality(Ahead(j)) < Cardinality(Ahead(i))
  <2>1. Ahead(j) \subseteq Ahead(i)
    BY <1>9, <1>10
  <2>2. j \in Listed /\ j \notin Ahead(j)
    BY <1>2
  <2>3. /\ Cardinality(Ahead(j)) <= Cardinality(Ahead(i))
        /\ Cardinality(Ahead(i)) = Cardinality(Ahead(j)) => Ahead(i) = Ahead(j)
    BY <2>1, <1>2, FS_Subset
  <2>. QED
    BY <2>1, <2>2, <2>3, <1>2
<1>5. ASSUME NEW i \in Listed, NEW j \in Listed PROVE i \in Ahead(j) \/ j \in Ahead(i) \/ i = j
  BY <1>9, <1>10
<1>. QED
  BY <1>1, <1>2, <1>3, <1>4, <1>5

(* A page with sessions behind it is full.                                 *)
LEMMA PageIsFull ==
  ASSUME SessionsAssumption, remote \in [Ids -> Dates], NEW n \in Nat,
         NEW i \in Listed, (n + 1) * PerPage <= Cardinality(Ahead(i))
  PROVE  PerPage <= Cardinality(Page(n)) /\ Cardinality(Page(n)) \in Nat
<1>. DEFINE N == Cardinality(Ahead(i))
            Slot == (n * PerPage)..((n + 1) * PerPage - 1)
            f == [j \in Ahead(i) |-> Cardinality(Ahead(j))]
            g == [j \in Page(n) |-> Cardinality(Ahead(j))]
<1>1. PerPage \in Nat /\ PerPage > 0 /\ n * PerPage \in Nat /\ (n + 1) * PerPage = n * PerPage + PerPage
  BY DEF SessionsAssumption
<1>2. N \in Nat /\ IsFiniteSet(Ahead(i)) /\ Ahead(i) \subseteq Listed
  BY ListOrdered
<1>3. f \in Injection(Ahead(i), 0..(N - 1))
  <2>1. \A j \in Ahead(i) : Cardinality(Ahead(j)) \in 0..(N - 1)
    BY <1>2, ListOrdered
  <2>2. ASSUME NEW j \in Ahead(i), NEW k \in Ahead(i), j # k PROVE f[j] # f[k]
    <3>1. j \in Listed /\ k \in Listed
      BY <1>2
    <3>2. Cardinality(Ahead(j)) \in Nat /\ Cardinality(Ahead(k)) \in Nat
      BY <3>1, ListOrdered
    <3>3. Cardinality(Ahead(j)) < Cardinality(Ahead(k)) \/ Cardinality(Ahead(k)) < Cardinality(Ahead(j))
      BY <3>1, <2>2, ListOrdered
    <3>. QED
      BY <3>2, <3>3
  <2>. QED
    BY <2>1, <2>2 DEF Injection, IsInjective
<1>4. f \in Surjection(Ahead(i), 0..(N - 1))
  <2>1. IsFiniteSet(0..(N - 1)) /\ Cardinality(0..(N - 1)) = N
    <3>. HIDE DEF N
    <3>. QED
      BY <1>2, FS_Interval
  <2>. QED
    BY <1>3, <2>1, FS_Injection
<1>5. Slot \subseteq 0..(N - 1)
  BY <1>1, <1>2
<1>6. \A v \in Slot : \E j \in Page(n) : g[j] = v
  <2>1. ASSUME NEW v \in Slot PROVE \E j \in Page(n) : g[j] = v
    <3>1. PICK j \in Ahead(i) : Cardinality(Ahead(j)) = v
      BY <1>4, <1>5 DEF Surjection
    <3>2. j \in Page(n)
      BY <3>1, <1>1, <1>2 DEF Page
    <3>. QED
      BY <3>1, <3>2
  <2>. QED
    BY <2>1
<1>7. \A j \in Page(n) : g[j] \in Slot
  BY <1>1, ListOrdered DEF Page
<1>8. g \in Surjection(Page(n), Slot)
  BY <1>6, <1>7 DEF Surjection
<1>9. IsFiniteSet(Page(n))
  BY ListOrdered, FS_Subset DEF Page
<1>10. Cardinality(Slot) = PerPage
  BY <1>1, FS_Interval
<1>. QED
  BY <1>8, <1>9, <1>10, FS_Surjection, FS_CardinalityType

LEMMA ImportTyped ==
  ASSUME FeedTyped, Importing
  PROVE  /\ import.now \in Nat /\ import.gen \in Nat /\ import.boundary \in Int
         /\ import.mark \in Nat /\ import.page \in Nat /\ import.rows \subseteq Ids \X Dates
         /\ import.last \in BOOLEAN /\ import \in ImportSort
BY DEF FeedTyped, Importing, ImportSort

LEMMA OffsetsAreInt ==
  ASSUME SessionsAssumption, FeedTyped
  PROVE  clock \in Int /\ \A j \in dates : j \in Int
<1>1. Start \in Nat /\ Clocks \subseteq SUBSET Int
  BY DEF SessionsAssumption
<1>2. clock \in Start..MaxClock /\ dates \in Clocks
  BY DEF FeedTyped
<1>. QED
  BY <1>1, <1>2

LEMMA FeedBegins == ASSUME SessionsAssumption, FeedInit PROVE FeedSeen /\ StillToCome
<1>. USE DEF FeedInit
<1>1. Listed = {}
  BY DEF Listed
<1>2. FeedTyped
  BY <1>1 DEF FeedTyped, Dates, SessionsAssumption
<1>3. DatesSeen
  BY DEF DatesSeen, Dated, Importing
<1>. QED
  BY <1>1, <1>2, <1>3 DEF FeedSeen, StillToCome, NothingMissed, ImportGoesOn, Importing

LEMMA TickStep == ASSUME SessionsAssumption, FeedSeen, Tick PROVE FeedSeen' /\ (StillToCome => StillToCome')
<1>. USE DEF Tick, peerVars
<1>0. clock \in Int /\ \A j \in dates : j \in Int
  BY OffsetsAreInt DEF FeedSeen
<1>1. FeedTyped'
  <2>1. clock' \in Start..MaxClock /\ mark' \in [gen : 0..changes', watermark : 0..clock']
    BY DEF FeedSeen, FeedTyped, SessionsAssumption
  <2>2. Listed' = Listed
    BY DEF Listed
  <2>. QED
    BY <2>1, <2>2 DEF FeedSeen, FeedTyped
<1>2. \A d \in Int : Dated(d) => Dated(d)'
  BY <1>0 DEF Dated
<1>3. DatesSeen'
  <2>1. /\ \A i \in Ids : remote[i] \in Int
        /\ mark.watermark \in Int
        /\ Importing => import.mark \in Int /\ import.now \in Int /\ \A r \in import.rows : r[2] \in Int
    BY ImportTyped DEF FeedSeen, FeedTyped, Dates
  <2>. QED
    BY <1>0, <1>2, <2>1 DEF FeedSeen, DatesSeen, Importing
<1>. SUFFICES ASSUME StillToCome PROVE NothingMissed' /\ ImportGoesOn'
  BY <1>1, <1>3 DEF FeedSeen, StillToCome
<1>4. NothingMissed'
  BY DEF StillToCome, NothingMissed, Listed, Boundary
<1>5. ImportGoesOn'
  <2>1. Listed' = Listed /\ \A i \in Listed : Ahead(i)' = Ahead(i)
    BY DEF Listed, Ahead
  <2>. QED
    BY <2>1 DEF StillToCome, ImportGoesOn, Importing, Above, InHand, ToRead, Boundary, Upto, Smaller
<1>. QED
  BY <1>4, <1>5

(* What is dated now comes later than the overlap before anything that an  *)
(* import has seen, or the clock.                                          *)
LEMMA NewIsAbove ==
  ASSUME SessionsAssumption, FeedTyped, NEW k \in dates, clock + k > 0, NEW d \in Nat, Dated(d), d <= clock
  PROVE  clock + k > Boundary(d)
<1>1. /\ \A j \in dates : j \in Int
      /\ clock \in Int /\ Overlap \in Nat /\ Overlap > 0
      /\ (k > 0 - Overlap \/ \A j \in dates : j < k + Overlap)
  BY OffsetsAreInt DEF FeedTyped, SessionsAssumption
<1>. QED
  BY <1>1 DEF Dated, Boundary

LEMMA ListenStep ==
  ASSUME SessionsAssumption, FeedSeen, NEW l \in Ids, NEW k \in dates, Listen(l, k)
  PROVE  FeedSeen' /\ (StillToCome => StillToCome')
<1>. DEFINE at == clock + k
<1>0. /\ clock \in Int /\ k \in Int /\ \A j \in dates : j \in Int
      /\ Ids \subseteq Int /\ IsFiniteSet(Ids)
      /\ at > remote[l] /\ at > 0 /\ at \in Dates
      /\ Dates \subseteq Nat
      /\ remote \in [Ids -> Dates] /\ kept \in [Ids -> Dates]
  BY DEF FeedSeen, FeedTyped, SessionsAssumption, Listen, Dates
<1>1. /\ remote' \in [Ids -> Dates] /\ remote'[l] = at
      /\ \A i \in Ids \ {l} : remote'[i] = remote[i]
      /\ UNCHANGED <<clock, dates, gone, deletes, kept, mark, changes, import, lapses>>
      /\ l \notin gone
  BY <1>0 DEF Listen
<1>. HIDE DEF at
<1>7. \A j \in Ids : remote[j] \in Nat /\ remote'[j] \in Nat
  BY <1>0, <1>1
<1>2. Listed' = Listed \cup {l}
  <2>1. \A j : j \in Listed <=> j \in Ids /\ remote[j] # 0
    BY DEF Listed
  <2>2. \A j : j \in Listed' <=> j \in Ids /\ remote'[j] # 0
    BY DEF Listed
  <2>3. remote'[l] # 0 /\ \A j \in Ids : j # l => remote'[j] = remote[j]
    BY <1>0, <1>1
  <2>. QED
    BY <2>1, <2>2, <2>3
<1>3. FeedTyped'
  BY <1>1, <1>2 DEF FeedSeen, FeedTyped
<1>4. DatesSeen'
  <2>1. Dated(at)
    BY <1>0 DEF Dated, at
  <2>. QED
    BY <1>1, <2>1 DEF FeedSeen, DatesSeen, Dated, Importing
<1>. SUFFICES ASSUME StillToCome PROVE NothingMissed' /\ ImportGoesOn'
  BY <1>3, <1>4 DEF FeedSeen, StillToCome
<1>5. NothingMissed'
  <2>1. at > Boundary(mark.watermark)
    BY <1>0, NewIsAbove DEF FeedSeen, DatesSeen, FeedTyped, at
  <2>. QED
    BY <1>1, <1>2, <2>1 DEF StillToCome, NothingMissed, Boundary, Listed
<1>6. ImportGoesOn'
  <2>. SUFFICES ASSUME Importing, mark.gen = import.gen
                PROVE  /\ import.boundary = Boundary(mark.watermark)
                       /\ \A i \in Listed' : kept[i] < remote'[i] => (Above(i)' \/ InHand(i)' \/ ToRead(i)')
    <3>1. /\ mark' = mark /\ import' = import /\ kept' = kept
          /\ Boundary(mark.watermark)' = Boundary(mark.watermark)
      BY <1>1 DEF Boundary
    <3>. QED
      BY <3>1, Zenon DEF ImportGoesOn, Importing
  <2>. SUFFICES ASSUME NEW i \in Listed', kept[i] < remote'[i]
                PROVE  /\ import.boundary = Boundary(mark.watermark)
                       /\ Above(i)' \/ InHand(i)' \/ ToRead(i)'
    <3>1. import.boundary = Boundary(mark.watermark)
      BY DEF StillToCome, ImportGoesOn
    <3>. QED
      BY <3>1
  <2>1. import.boundary = Boundary(mark.watermark)
    BY DEF StillToCome, ImportGoesOn
  <2>2. CASE i = l
    <3>1. at > Boundary(import.mark)
      BY <1>0, NewIsAbove, ImportTyped DEF FeedSeen, DatesSeen, at
    <3>2. ASSUME NEW r \in import.rows PROVE at > Boundary(Upto(r))
      <4>1. /\ r[2] \in Nat /\ import.now \in Nat /\ import.now <= clock /\ Dated(r[2])
        BY <1>0, ImportTyped DEF FeedSeen, DatesSeen
      <4>2. Upto(r) \in Nat /\ Upto(r) <= clock /\ Dated(Upto(r))
        BY <1>0, <4>1 DEF Upto, Smaller, Dated
      <4>. QED
        BY <1>0, <4>2, NewIsAbove DEF FeedSeen, at
    <3>. QED
      BY <2>1, <2>2, <3>1, <3>2, <1>1 DEF Above, Boundary, Upto, Smaller
  <2>3. CASE i # l
    <3>1. i \in Listed /\ kept[i] < remote[i] /\ remote'[i] = remote[i]
      BY <1>1, <1>2, <2>3 DEF Listed
    <3>2. Above(i) \/ InHand(i) \/ ToRead(i)
      BY <3>1 DEF StillToCome, ImportGoesOn
    <3>3. ToRead(i) => ToRead(i)'
      <4>1. Ahead(i) \subseteq Ahead(i)'
        <5>1. \A j : j \in Ahead(i) <=> /\ j \in Listed
                                        /\ (remote[j] > remote[i] \/ (remote[j] = remote[i] /\ j < i))
          BY DEF Ahead
        <5>2. \A j : j \in Ahead(i)' <=> /\ j \in Listed'
                                         /\ (remote'[j] > remote'[i] \/ (remote'[j] = remote'[i] /\ j < i))
          BY DEF Ahead
        <5>3. \A j \in Listed : remote'[j] >= remote[j] /\ remote[j] \in Int /\ remote'[j] \in Int
          <6>1. Listed \subseteq Ids
            BY DEF Listed
          <6>. QED
            BY <6>1, <1>0, <1>1, <1>7
        <5>4. \A j \in Listed : remote'[j] > remote[j] \/ remote'[j] = remote[j]
          BY <5>3
        <5>. QED
          BY <1>2, <3>1, <5>1, <5>2, <5>3, <5>4
      <4>2. IsFiniteSet(Ahead(i)') /\ Cardinality(Ahead(i)') \in Nat
        <5>1. Ahead(i)' \subseteq Ids
          BY DEF Ahead, Listed
        <5>. QED
          BY <5>1, <1>0, FS_Subset, FS_CardinalityType
      <4>3. Cardinality(Ahead(i)) <= Cardinality(Ahead(i)') /\ Cardinality(Ahead(i)) \in Nat
        BY <4>1, <4>2, FS_Subset, FS_CardinalityType
      <4>4. import.page * PerPage \in Nat
        BY ImportTyped DEF FeedSeen, SessionsAssumption
      <4>. QED
        BY <1>1, <4>2, <4>3, <4>4 DEF ToRead
    <3>. QED
      BY <2>1, <3>1, <3>2, <3>3, <1>1 DEF Above, InHand, Boundary, Upto, Smaller
  <2>. QED
    BY <2>2, <2>3
<1>. QED
  BY <1>5, <1>6

LEMMA DeleteThereStep ==
  ASSUME SessionsAssumption, FeedSeen, NEW l \in Ids, DeleteThere(l)
  PROVE  FeedSeen' /\ (Steady /\ StillToCome => StillToCome')
<1>0. /\ PerPage \in Nat /\ IsFiniteSet(Ids) /\ 0 \in Dates /\ l \in Listed /\ l \notin gone
      /\ remote \in [Ids -> Dates] /\ clock \in Nat
  BY DEF FeedSeen, FeedTyped, SessionsAssumption, DeleteThere, Dates
<1>1. /\ remote' \in [Ids -> Dates] /\ remote'[l] = 0
      /\ \A i \in Ids \ {l} : remote'[i] = remote[i]
      /\ gone' = gone \cup {l} /\ gone' # gone
      /\ UNCHANGED <<clock, dates, listens, kept, mark, changes, import, lapses>>
  BY <1>0 DEF DeleteThere
<1>2. Listed' = Listed \ {l}
  <2>1. \A j : j \in Listed <=> j \in Ids /\ remote[j] # 0
    BY DEF Listed
  <2>2. \A j : j \in Listed' <=> j \in Ids /\ remote'[j] # 0
    BY DEF Listed
  <2>. QED
    BY <1>1, <2>1, <2>2
<1>3. FeedTyped'
  BY <1>1, <1>2 DEF FeedSeen, FeedTyped
<1>4. DatesSeen'
  BY <1>1 DEF FeedSeen, DatesSeen, Dated, Importing
<1>. SUFFICES ASSUME Steady, StillToCome PROVE NothingMissed' /\ ImportGoesOn'
  BY <1>3, <1>4 DEF FeedSeen, StillToCome
<1>5. NothingMissed'
  BY <1>1, <1>2 DEF StillToCome, NothingMissed, Boundary, Listed
<1>6. ImportGoesOn'
  <2>. SUFFICES ASSUME Importing, mark.gen = import.gen
                PROVE  /\ import.boundary = Boundary(mark.watermark)
                       /\ \A i \in Listed' : kept[i] < remote'[i] => (Above(i)' \/ InHand(i)' \/ ToRead(i)')
    <3>1. /\ mark' = mark /\ import' = import /\ kept' = kept
          /\ Boundary(mark.watermark)' = Boundary(mark.watermark)
      BY <1>1 DEF Boundary
    <3>. QED
      BY <3>1, Zenon DEF ImportGoesOn, Importing
  <2>1. import.boundary = Boundary(mark.watermark)
    BY DEF StillToCome, ImportGoesOn
  <2>2. ASSUME NEW i \in Listed', kept[i] < remote'[i] PROVE Above(i)' \/ InHand(i)' \/ ToRead(i)'
    <3>1. i \in Listed /\ i \in Ids /\ kept[i] < remote[i] /\ remote'[i] = remote[i]
      BY <1>1, <1>2, <2>2 DEF Listed
    <3>2. Above(i) \/ InHand(i) \/ ToRead(i)
      BY <3>1 DEF StillToCome, ImportGoesOn
    <3>3. ToRead(i) => ToRead(i)'
      <4>1. import.page = 0 \/ import.last
        BY <1>1 DEF Steady, Importing
      <4>2. Cardinality(Ahead(i)') \in Nat
        <5>1. Ahead(i)' \subseteq Ids
          BY DEF Ahead, Listed
        <5>. QED
          BY <5>1, <1>0, FS_Subset, FS_CardinalityType
      <4>. QED
        BY <1>0, <1>1, <4>1, <4>2 DEF ToRead
    <3>. QED
      BY <3>1, <3>2, <3>3, <1>1 DEF Above, InHand, Boundary, Upto, Smaller
  <2>. QED
    BY <2>1, <2>2
<1>. QED
  BY <1>5, <1>6

(* What the import holds stays what it was unless the link changes, and    *)
(* then it holds nothing of the link any more.                             *)
LEMMA LinkChangeStep == ASSUME SessionsAssumption, FeedSeen, ReadAnew \/ Carry PROVE FeedSeen' /\ (StillToCome => StillToCome')
<1>0. /\ changes \in Nat /\ clock \in Nat /\ Overlap \in Nat /\ Overlap > 0
      /\ mark \in [gen : 0..changes, watermark : 0..clock] /\ mark.gen \in Nat /\ mark.watermark \in Nat
  BY DEF FeedSeen, FeedTyped, SessionsAssumption
<1>1. /\ UNCHANGED <<clock, peerVars, kept, import, lapses>>
      /\ changes' = changes + 1
      /\ mark' \in [gen : 0..(changes + 1), watermark : 0..clock]
      /\ mark'.gen = mark.gen + 1
      /\ mark'.watermark = 0 \/ mark'.watermark = mark.watermark
  BY <1>0 DEF ReadAnew, Carry
<1>2. UNCHANGED <<clock, dates, remote, gone, kept, import>> /\ Listed' = Listed
  BY <1>1 DEF peerVars, Listed
<1>3. FeedTyped'
  BY <1>0, <1>1, <1>2 DEF FeedSeen, FeedTyped
<1>4. DatesSeen'
  <2>1. Importing => import.gen <= mark'.gen
    BY <1>0, <1>1, ImportTyped DEF FeedSeen, DatesSeen
  <2>2. \A d : Dated(d)' = Dated(d)
    BY <1>2 DEF Dated
  <2>3. Dated(mark'.watermark)
    BY <1>1 DEF FeedSeen, DatesSeen, Dated
  <2>. QED
    BY <1>2, <2>1, <2>3 DEF FeedSeen, DatesSeen, Importing, Dated
<1>. SUFFICES ASSUME StillToCome PROVE NothingMissed' /\ ImportGoesOn'
  BY <1>3, <1>4 DEF FeedSeen, StillToCome
<1>5. NothingMissed'
  <2>1. \A i \in Listed : remote[i] \in Nat
    BY DEF FeedSeen, FeedTyped, Dates, Listed
  <2>2. \A i \in Listed' : kept'[i] < remote'[i] => remote'[i] > mark'.watermark - Overlap
    BY <1>0, <1>1, <1>2, <2>1 DEF StillToCome, NothingMissed, Boundary
  <2>. QED
    BY <2>2 DEF NothingMissed, Boundary
<1>6. ImportGoesOn'
  <2>1. Importing => import.gen # mark'.gen
    BY <1>0, <1>1, ImportTyped DEF FeedSeen, DatesSeen
  <2>. QED
    BY <1>2, <2>1 DEF ImportGoesOn, Importing
<1>. QED
  BY <1>5, <1>6

LEMMA BeginImportStep == ASSUME SessionsAssumption, FeedSeen, BeginImport PROVE FeedSeen' /\ (StillToCome => StillToCome')
<1>0. /\ clock \in Nat /\ mark.gen \in Nat /\ mark.watermark \in Nat /\ mark.watermark <= clock
      /\ Overlap \in Nat /\ PerPage \in Nat
  BY DEF FeedSeen, FeedTyped, SessionsAssumption
<1>1. /\ UNCHANGED <<clock, dates, remote, gone, kept, mark, changes>>
      /\ Listed' = Listed
      /\ import' = [now |-> clock, gen |-> mark.gen, boundary |-> Boundary(mark.watermark),
                    mark |-> mark.watermark, page |-> 0, rows |-> {}, last |-> FALSE]
  BY DEF BeginImport, peerVars, Listed
<1>2. FeedTyped'
  <2>1. import' \in ImportSort
    BY <1>0, <1>1 DEF ImportSort, Boundary
  <2>. QED
    BY <1>1, <2>1 DEF FeedSeen, FeedTyped
<1>3. DatesSeen'
  BY <1>0, <1>1 DEF FeedSeen, DatesSeen, Dated, Importing
<1>. SUFFICES ASSUME StillToCome PROVE NothingMissed' /\ ImportGoesOn'
  BY <1>2, <1>3 DEF FeedSeen, StillToCome
<1>4. NothingMissed'
  BY <1>1 DEF StillToCome, NothingMissed, Boundary
<1>5. ImportGoesOn'
  <2>1. \A i \in Listed' : ToRead(i)'
    <3>1. ASSUME NEW i \in Listed PROVE Cardinality(Ahead(i)) \in Nat /\ Ahead(i)' = Ahead(i)
      BY <1>1, ListOrdered DEF FeedSeen, FeedTyped, Ahead
    <3>. QED
      BY <1>0, <1>1, <3>1 DEF ToRead
  <2>2. import'.boundary = mark'.watermark - Overlap
    BY <1>1 DEF Boundary
  <2>. QED
    BY <2>1, <2>2 DEF ImportGoesOn, Boundary
<1>. QED
  BY <1>4, <1>5

LEMMA StopImportStep == ASSUME SessionsAssumption, FeedSeen, ImportRefused \/ Lapse PROVE FeedSeen' /\ (StillToCome => StillToCome')
<1>1. UNCHANGED <<clock, dates, remote, gone, kept, mark, changes>> /\ import' = NoImport /\ Listed' = Listed
  BY DEF ImportRefused, Lapse, peerVars, Listed
<1>. QED
  BY <1>1 DEF FeedSeen, StillToCome, FeedTyped, DatesSeen, Dated, Importing, NothingMissed, Boundary, ImportGoesOn

LEMMA EndImportStep == ASSUME SessionsAssumption, FeedSeen, EndImport PROVE FeedSeen' /\ (StillToCome => StillToCome')
<1>0. /\ Importing /\ import.rows = {} /\ import.last /\ import' = NoImport
      /\ UNCHANGED <<clock, dates, remote, gone, kept, changes>> /\ Listed' = Listed
      /\ mark' = IF mark.gen = import.gen THEN [mark EXCEPT !.watermark = import.mark] ELSE mark
  BY DEF EndImport, Importing, peerVars, Listed
<1>1. /\ clock \in Nat /\ import.mark \in Nat /\ import.mark <= clock /\ Dated(import.mark)
      /\ mark \in [gen : 0..changes, watermark : 0..clock]
  BY <1>0, ImportTyped DEF FeedSeen, FeedTyped, DatesSeen, SessionsAssumption
<1>2. FeedTyped'
  BY <1>0, <1>1 DEF FeedSeen, FeedTyped
<1>3. DatesSeen'
  BY <1>0, <1>1 DEF FeedSeen, DatesSeen, Dated, Importing
<1>. SUFFICES ASSUME StillToCome PROVE NothingMissed' /\ ImportGoesOn'
  BY <1>2, <1>3 DEF FeedSeen, StillToCome
<1>4. NothingMissed'
  <2>1. CASE mark.gen = import.gen
    <3>1. mark'.watermark = import.mark
      BY <1>0, <1>1, <2>1
    <3>2. \A i \in Listed : kept[i] < remote[i] => remote[i] > Boundary(import.mark)
      BY <1>0, <2>1 DEF StillToCome, ImportGoesOn, Above, InHand, ToRead
    <3>. QED
      BY <1>0, <3>1, <3>2 DEF NothingMissed, Boundary
  <2>2. CASE mark.gen # import.gen
    BY <1>0, <2>2 DEF StillToCome, NothingMissed, Boundary
  <2>. QED
    BY <2>1, <2>2
<1>5. ImportGoesOn'
  BY <1>0 DEF ImportGoesOn, Importing
<1>. QED
  BY <1>4, <1>5

(* An import with one thing changed is one.                                *)
LEMMA ImportUpdated ==
  ASSUME NEW a \in ImportSort
  PROVE  /\ \A p \in Nat : [a EXCEPT !.page = p] \in ImportSort
         /\ \A l \in BOOLEAN : [a EXCEPT !.last = l] \in ImportSort
         /\ \A rs \in SUBSET (Ids \X Dates) : [a EXCEPT !.rows = rs] \in ImportSort
<1>. USE DEF ImportSort
<1>1. \A p \in Nat : [a EXCEPT !.page = p] \in ImportSort
  OBVIOUS
<1>2. \A l \in BOOLEAN : [a EXCEPT !.last = l] \in ImportSort
  OBVIOUS
<1>3. \A rs \in SUBSET (Ids \X Dates) : [a EXCEPT !.rows = rs] \in ImportSort
  OBVIOUS
<1>. QED
  BY <1>1, <1>2, <1>3

LEMMA ReadPageStep == ASSUME SessionsAssumption, FeedSeen, ReadPage PROVE FeedSeen' /\ (StillToCome => StillToCome')
<1>. DEFINE n == import.page
            batch == Page(n)
            rows == {<<i, remote[i]>> : i \in {i \in Valid(batch) : remote[i] > import.boundary}}
<1>0. /\ PerPage \in Nat /\ PerPage > 0 /\ Overlap \in Nat /\ Overlap > 0 /\ Skew \in Nat
      /\ remote \in [Ids -> Dates] /\ Dates \subseteq Nat /\ Listed \subseteq Ids
  BY DEF FeedSeen, FeedTyped, SessionsAssumption, Dates, Listed
<1>1. /\ Importing /\ import.rows = {} /\ ~import.last
      /\ UNCHANGED <<clock, dates, remote, gone, kept, mark, changes>> /\ Listed' = Listed
      /\ import' = [import EXCEPT !.page = n + 1, !.last = Last(batch), !.rows = rows]
  BY DEF ReadPage, Importing, peerVars, Listed
<1>2. /\ import.now \in Nat /\ import.mark \in Nat /\ n \in Nat /\ import \in ImportSort
      /\ import.mark <= import.now
  BY <1>1, ImportTyped DEF FeedSeen, DatesSeen
<1>3. \A j \in batch : /\ j \in Listed /\ n * PerPage <= Cardinality(Ahead(j))
                       /\ Cardinality(Ahead(j)) < (n + 1) * PerPage
  BY DEF Page
<1>4. \A r \in rows : \E j \in batch : /\ r = <<j, remote[j]>> /\ remote[j] <= import.now + Skew
                                       /\ remote[j] > import.boundary
  BY DEF Valid
<1>5. rows \subseteq Ids \X Dates
  BY <1>0, <1>3, <1>4
<1>6. Last(batch) \in BOOLEAN
  BY DEF Last
<1>. HIDE DEF n, batch, rows
<1>7. /\ import' \in ImportSort
      /\ import'.now = import.now /\ import'.gen = import.gen /\ import'.boundary = import.boundary
      /\ import'.mark = import.mark
      /\ import'.page = n + 1 /\ import'.last = Last(batch) /\ import'.rows = rows
  <2>1. [import EXCEPT !.page = n + 1] \in ImportSort
    BY <1>2, ImportUpdated
  <2>2. [[import EXCEPT !.page = n + 1] EXCEPT !.last = Last(batch)] \in ImportSort
    BY <1>6, <2>1, ImportUpdated
  <2>4. [[[import EXCEPT !.page = n + 1] EXCEPT !.last = Last(batch)] EXCEPT !.rows = rows] \in ImportSort
    BY <1>5, <2>2, ImportUpdated
  <2>5. import' = [[[import EXCEPT !.page = n + 1] EXCEPT !.last = Last(batch)] EXCEPT !.rows = rows]
    BY <1>1, Zenon
  <2>3. import' \in ImportSort
    BY <2>4, <2>5, Zenon
  <2>. QED
    BY <1>1, <1>2, <2>3 DEF ImportSort
<1>8. FeedTyped'
  BY <1>1, <1>7 DEF FeedSeen, FeedTyped
<1>9. DatesSeen'
  <2>1. \A r \in rows : Dated(r[2])
    BY <1>0, <1>3, <1>4 DEF FeedSeen, DatesSeen
  <2>. QED
    BY <1>1, <1>7, <2>1 DEF FeedSeen, DatesSeen, Dated, Importing
<1>. SUFFICES ASSUME StillToCome PROVE NothingMissed' /\ ImportGoesOn'
  BY <1>8, <1>9 DEF FeedSeen, StillToCome
<1>10. NothingMissed'
  BY <1>1 DEF StillToCome, NothingMissed, Boundary
<1>14. /\ \A j \in Listed : remote[j] \in Nat
       /\ \A j, k : j \in Ahead(k) => remote[j] > remote[k] \/ remote[j] = remote[k]
  BY <1>0 DEF Ahead
<1>15. \A r \in rows : r[2] \in Nat
  BY <1>0, <1>5
<1>11. ImportGoesOn'
  <2>. SUFFICES ASSUME mark.gen = import.gen
                PROVE  /\ import.boundary = Boundary(mark.watermark)
                       /\ \A i \in Listed : kept[i] < remote[i] => (Above(i)' \/ InHand(i)' \/ ToRead(i)')
    <3>1. /\ mark' = mark /\ import'.gen = import.gen /\ import'.boundary = import.boundary
          /\ kept' = kept /\ remote' = remote /\ Listed' = Listed
          /\ Boundary(mark.watermark)' = Boundary(mark.watermark)
      BY <1>1, <1>7 DEF Boundary
    <3>. QED
      BY <3>1, Zenon DEF ImportGoesOn, Importing
  <2>1. import.boundary = Boundary(mark.watermark)
    BY <1>1 DEF StillToCome, ImportGoesOn
  <2>2. ASSUME NEW i \in Listed, kept[i] < remote[i] PROVE Above(i)' \/ InHand(i)' \/ ToRead(i)'
    <3>1. /\ remote[i] > import.boundary /\ remote[i] \in Nat
          /\ Cardinality(Ahead(i)) \in Nat /\ Cardinality(Ahead(i)) < Cardinality(Listed)
          /\ Cardinality(Listed) \in Nat
      BY <1>0, <2>1, <2>2, ListOrdered, FS_CardinalityType DEF StillToCome, NothingMissed
    <3>2. Above(i) \/ ToRead(i)
      BY <1>1, <2>2 DEF StillToCome, ImportGoesOn, InHand
    <3>3. CASE (n + 1) * PerPage <= Cardinality(Ahead(i))
      <4>1. \A j \in batch : remote[j] \in Nat /\ remote[i] <= remote[j]
        <5>1. ASSUME NEW j \in batch PROVE remote[j] \in Nat /\ remote[i] <= remote[j]
          <6>1. j \in Listed /\ Cardinality(Ahead(j)) \in Nat /\ Cardinality(Ahead(j)) < Cardinality(Ahead(i))
            BY <1>0, <1>2, <1>3, <3>1, <3>3, ListOrdered
          <6>2. j \in Ahead(i)
            BY <1>0, <3>1, <6>1, ListOrdered
          <6>. QED
            BY <1>14, <6>1, <6>2, <3>1
        <5>. QED
          BY <5>1
      <4>2. ~(\E j \in Valid(batch) : remote[j] <= import.boundary)
        <5>1. import.boundary \in Int
          BY <1>2 DEF ImportSort
        <5>2. Valid(batch) \subseteq batch
          BY DEF Valid
        <5>. QED
          BY <3>1, <4>1, <5>1, <5>2
      <4>3. ~(Cardinality(batch) < PerPage)
        BY <1>0, <1>2, <3>3, PageIsFull DEF batch
      <4>4. ~((n + 1) * PerPage >= Cardinality(Listed))
        BY <1>0, <1>2, <3>1, <3>3
      <4>5. ~Last(batch)
        BY <4>2, <4>3, <4>4 DEF Last, n
      <4>6. Ahead(i)' = Ahead(i)
        BY <1>1 DEF Ahead
      <4>. QED
        BY <1>7, <3>3, <4>5, <4>6 DEF ToRead
    <3>4. CASE Cardinality(Ahead(i)) < (n + 1) * PerPage /\ n * PerPage <= Cardinality(Ahead(i))
      <4>1. i \in batch
        BY <3>4 DEF batch, Page
      <4>2. CASE remote[i] <= import.now + Skew
        <5>1. <<i, remote[i]>> \in rows
          BY <3>1, <4>1, <4>2 DEF rows, Valid
        <5>. QED
          BY <1>1, <1>7, <5>1 DEF InHand
      <4>3. CASE remote[i] > import.now + Skew
        <5>1. \A r \in rows : Smaller(r[2], import.now) <= import.now /\ Smaller(r[2], import.now) \in Nat
          BY <1>2, <1>15 DEF Smaller
        <5>2. \A r \in rows : remote[i] > Smaller(r[2], import.now) - Overlap
          BY <1>0, <1>2, <3>1, <4>3, <5>1
        <5>3. remote[i] > import.mark - Overlap
          BY <1>0, <1>2, <3>1, <4>3
        <5>. QED
          BY <1>1, <1>7, <5>2, <5>3 DEF Above, Boundary, Upto, Smaller
      <4>. QED
        BY <1>0, <1>2, <3>1, <4>2, <4>3
    <3>5. CASE Cardinality(Ahead(i)) < n * PerPage
      <4>1. Above(i)
        BY <1>0, <1>2, <3>1, <3>2, <3>5 DEF ToRead, n
      <4>2. \A r \in rows : r[2] \in Nat /\ r[2] <= remote[i]
        <5>1. ASSUME NEW j \in batch PROVE remote[j] \in Nat /\ remote[j] <= remote[i]
          <6>1. j \in Listed /\ Cardinality(Ahead(j)) \in Nat /\ Cardinality(Ahead(i)) < Cardinality(Ahead(j))
            BY <1>0, <1>2, <1>3, <3>1, <3>5, ListOrdered
          <6>2. i \in Ahead(j)
            BY <1>0, <3>1, <6>1, ListOrdered
          <6>. QED
            BY <1>14, <6>1, <6>2, <3>1
        <5>. QED
          BY <1>4, <5>1
      <4>3. \A r \in rows : remote[i] > Smaller(r[2], import.now) - Overlap
        BY <1>0, <1>2, <3>1, <4>2 DEF Smaller
      <4>. QED
        BY <1>1, <1>7, <4>1, <4>3 DEF Above, Boundary, Upto, Smaller
    <3>. QED
      BY <1>0, <1>2, <3>1, <3>3, <3>4, <3>5
  <2>. QED
    BY <2>1, <2>2
<1>. QED
  BY <1>10, <1>11

LEMMA ImportRowStep == ASSUME SessionsAssumption, FeedSeen, ImportRow PROVE FeedSeen' /\ (StillToCome => StillToCome')
<1>1. PICK r \in import.rows :
        /\ kept[r[1]] >= r[2] \/ mark.gen = import.gen
        /\ kept' = [kept EXCEPT ![r[1]] = Bigger(@, r[2])]
        /\ import' = [import EXCEPT !.rows = @ \ {r}, !.mark = Marked(r[2])]
  BY DEF ImportRow
<1>2. /\ Importing
      /\ UNCHANGED <<clock, dates, remote, gone, mark, changes>> /\ Listed' = Listed
  BY DEF ImportRow, Importing, peerVars, Listed
<1>3. /\ import.now \in Nat /\ import.mark \in Nat /\ import.mark <= import.now /\ import \in ImportSort
      /\ r[1] \in Ids /\ r[2] \in Dates /\ r[2] \in Nat /\ Dates \subseteq Nat
      /\ Dated(r[2]) /\ Dated(import.mark)
      /\ kept \in [Ids -> Dates] /\ remote \in [Ids -> Dates] /\ Listed \subseteq Ids
  BY <1>2, ImportTyped DEF FeedSeen, FeedTyped, DatesSeen, Dates, Listed
<1>. DEFINE at == Marked(r[2])
<1>4. /\ at = import.mark \/ at = Upto(r)
      /\ at \in Nat /\ at <= import.now
  BY <1>3 DEF Marked, Bigger, Smaller, Upto
<1>5. Dated(at)
  <2>1. clock \in Int /\ \A j \in dates : j \in Int
    BY OffsetsAreInt DEF FeedSeen
  <2>2. at = import.mark \/ at = r[2] \/ at < r[2]
    BY <1>3 DEF Marked, Bigger, Smaller
  <2>. QED
    BY <1>3, <1>4, <2>1, <2>2 DEF Dated
<1>. HIDE DEF at
<1>6. /\ import' \in ImportSort
      /\ import'.now = import.now /\ import'.gen = import.gen /\ import'.boundary = import.boundary
      /\ import'.page = import.page /\ import'.last = import.last
      /\ import'.mark = at /\ import'.rows = import.rows \ {r}
  <2>0. import' = [import EXCEPT !.rows = import.rows \ {r}, !.mark = at]
    BY <1>1 DEF at
  <2>1. import.rows \ {r} \in SUBSET (Ids \X Dates)
    BY <1>3 DEF ImportSort
  <2>2. import' \in ImportSort
    BY <1>3, <1>4, <2>0, <2>1 DEF ImportSort
  <2>. QED
    BY <1>3, <2>0, <2>2 DEF ImportSort
<1>7. /\ kept' \in [Ids -> Dates]
      /\ \A i \in Ids : kept'[i] \in Nat /\ kept[i] \in Nat /\ kept'[i] >= kept[i]
      /\ kept'[r[1]] >= r[2]
  BY <1>1, <1>3 DEF Bigger
<1>8. FeedTyped'
  BY <1>2, <1>6, <1>7 DEF FeedSeen, FeedTyped
<1>9. DatesSeen'
  BY <1>2, <1>4, <1>5, <1>6 DEF FeedSeen, DatesSeen, Dated, Importing
<1>10. \A i \in Listed : remote[i] \in Nat /\ (kept'[i] < remote[i] => kept[i] < remote[i])
  <2>1. \A i \in Listed : i \in Ids /\ remote[i] \in Nat
    BY <1>3
  <2>. QED
    BY <1>7, <2>1
<1>. SUFFICES ASSUME StillToCome PROVE NothingMissed' /\ ImportGoesOn'
  BY <1>8, <1>9 DEF FeedSeen, StillToCome
<1>11. NothingMissed'
  BY <1>2, <1>10 DEF StillToCome, NothingMissed, Boundary
<1>12. ImportGoesOn'
  <2>. SUFFICES ASSUME mark.gen = import.gen
                PROVE  /\ import.boundary = Boundary(mark.watermark)
                       /\ \A i \in Listed : kept'[i] < remote[i] => (Above(i)' \/ InHand(i)' \/ ToRead(i)')
    <3>1. /\ mark' = mark /\ import'.gen = import.gen /\ import'.boundary = import.boundary
          /\ remote' = remote /\ Listed' = Listed
          /\ Boundary(mark.watermark)' = Boundary(mark.watermark)
      BY <1>2, <1>6 DEF Boundary
    <3>. QED
      BY <3>1, Zenon DEF ImportGoesOn, Importing
  <2>1. import.boundary = Boundary(mark.watermark)
    BY <1>2 DEF StillToCome, ImportGoesOn
  <2>2. ASSUME NEW i \in Listed, kept'[i] < remote[i] PROVE Above(i)' \/ InHand(i)' \/ ToRead(i)'
    <3>1. Above(i) \/ InHand(i) \/ ToRead(i)
      BY <1>2, <1>10, <2>2 DEF StillToCome, ImportGoesOn
    <3>2. InHand(i) => InHand(i)'
      <4>1. <<i, remote[i]>> # r
        BY <1>3, <1>7, <2>2
      <4>. QED
        BY <1>2, <1>6, <4>1 DEF InHand
    <3>3. Above(i) => Above(i)'
      <4>1. Above(i) => remote[i] > at - Overlap
        BY <1>4 DEF Above, Boundary
      <4>2. Above(i) => \A s \in import.rows \ {r} : remote[i] > Smaller(s[2], import.now) - Overlap
        BY DEF Above, Boundary, Upto
      <4>. QED
        BY <1>2, <1>6, <4>1, <4>2 DEF Above, Boundary, Upto, Smaller
    <3>4. ToRead(i) => ToRead(i)'
      <4>1. Ahead(i)' = Ahead(i)
        BY <1>2 DEF Ahead
      <4>. QED
        BY <1>6, <4>1 DEF ToRead
    <3>. QED
      BY <3>1, <3>2, <3>3, <3>4
  <2>. QED
    BY <2>1, <2>2
<1>. QED
  BY <1>11, <1>12

LEMMA FeedStep ==
  ASSUME SessionsAssumption, FeedSeen, [FeedNext]_feedVars
  PROVE  FeedSeen' /\ ((gone' = gone \/ Steady) /\ StillToCome => StillToCome')
<1>1. CASE UNCHANGED feedVars
  <2>1. UNCHANGED <<clock, dates, remote, gone, kept, mark, import, changes>> /\ Listed' = Listed
    BY <1>1 DEF feedVars, peerVars, Listed
  <2>2. \A i \in Listed : Ahead(i)' = Ahead(i)
    BY <2>1 DEF Ahead
  <2>3. FeedSeen'
    BY <2>1 DEF FeedSeen, FeedTyped, DatesSeen, Dated, Importing
  <2>4. StillToCome => NothingMissed'
    BY <2>1 DEF StillToCome, NothingMissed, Boundary
  <2>5. StillToCome => ImportGoesOn'
    BY <2>1, <2>2 DEF StillToCome, ImportGoesOn, Importing, Above, InHand, ToRead, Boundary, Upto, Smaller
  <2>. QED
    BY <2>3, <2>4, <2>5 DEF StillToCome
<1>2. CASE \E l \in Ids : DeleteThere(l)
  <2>1. gone' = gone => Steady
    BY DEF Steady
  <2>. QED
    BY <1>2, <2>1, DeleteThereStep
<1>3. CASE FeedNext /\ ~\E l \in Ids : DeleteThere(l)
  BY <1>3, TickStep, ListenStep, LinkChangeStep, BeginImportStep, ReadPageStep,
     ImportRowStep, StopImportStep, EndImportStep
     DEF FeedNext, ImportStep
<1>. QED
  BY <1>1, <1>2, <1>3

(* Types, and the watermark never passes this server's clock, whatever the *)
(* devices' say and whatever is deleted (importSessions).                  *)
THEOREM FeedTypes == ASSUME SessionsAssumption PROVE FeedSpec => []FeedTypeOK
<1>1. FeedInit => FeedSeen
  BY FeedBegins
<1>2. FeedSeen /\ [FeedNext]_feedVars => FeedSeen'
  BY FeedStep
<1>3. FeedSeen => FeedTypeOK
  <2>. SUFFICES ASSUME FeedSeen PROVE FeedTypeOK
    OBVIOUS
  <2>1. Importing => import.mark \in 0..clock
    BY ImportTyped DEF FeedSeen, FeedTyped, DatesSeen, SessionsAssumption
  <2>. QED
    BY <2>1 DEF FeedSeen, FeedTyped, FeedTypeOK, Importing, Dates
<1>. QED
  BY <1>1, <1>2, <1>3, PTL DEF FeedSpec

(* No session the peer holds is left behind the boundary of the next       *)
(* import in a revision that was not imported: for any page size, overlap  *)
(* and devices, whenever imports fail and the link changes, as long as no  *)
(* session is deleted between two pages of an import (importSessions).     *)
THEOREM FeedNothingMissed ==
  ASSUME SessionsAssumption
  PROVE  FeedSpec /\ [][Steady]_gone => []NothingMissed
<1>1. FeedInit => FeedSeen /\ StillToCome
  BY FeedBegins
<1>2. FeedSeen /\ StillToCome /\ [FeedNext]_feedVars /\ [Steady]_gone => FeedSeen' /\ StillToCome'
  BY FeedStep
<1>3. StillToCome => NothingMissed
  BY DEF StillToCome
<1>. QED
  BY <1>1, <1>2, <1>3, PTL DEF FeedSpec
=============================================================================
