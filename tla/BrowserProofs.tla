-------------------------- MODULE BrowserProofs ---------------------------
(***************************************************************************)
(* Proofs about both ends of an open page.  LiveHub, for every set of      *)
(* accounts, streams, writers and topics: no committed change is lost to a *)
(* stream that follows it, no stream sleeps over what it owes, and a       *)
(* revoked credential gets at most one more frame.  Outbox, for every set  *)
(* of pages, books and notes and any bounds: the server takes the pages of *)
(* a book in the order they were turned.                                   *)
(***************************************************************************)
EXTENDS Integers, LiveHub, Outbox, TLAPS

-----------------------------------------------------------------------------
(* The inductive invariant.                                                *)

StaleAllowed == \A s \in Streams : stale[s] \subseteq Allowed[s]

(* What was drained is kept only until it is sent.                         *)
TakenHeld == \A s \in Streams : taken[s] # {} => pc[s] \in {"taken", "cleared"}

(* A frame past the revocation leaves nothing cleared behind it.           *)
LateIsLast ==
  \A s \in Streams : late[s] > 0 => ~valid[s] /\ late[s] = 1 /\ pc[s] # "cleared"

IInv ==
  /\ TypeOK /\ StaleAllowed /\ TakenHeld /\ NoLostInvalidation /\ WakeUpComes /\ LateIsLast

(* Nothing is followed, owed or stale before the first connection.         *)
LEMMA InitInv == Init => IInv
<1>. SUFFICES ASSUME Init PROVE IInv
  OBVIOUS
<1>1. TypeOK
  BY HubAssumption DEF Init, TypeOK, Stages
<1>2. \A s \in Streams : /\ stale[s] = {} /\ taken[s] = {} /\ pending[s] = {}
                         /\ pc[s] = "new" /\ late[s] = 0
  BY DEF Init
<1>. QED
  BY <1>1, <1>2, SMT
  DEF IInv, StaleAllowed, TakenHeld, NoLostInvalidation, WakeUpComes, LateIsLast, Following, Opened

-----------------------------------------------------------------------------
(* One lemma per part of the invariant, by cases on the step.              *)

(* Every step keeps the types.                                             *)
LEMMA TypeStep == TypeOK /\ [Next]_vars => TypeOK'
<1>. SUFFICES ASSUME TypeOK, [Next]_vars PROVE TypeOK'
  OBVIOUS
<1>. USE HubAssumption DEF TypeOK, Stages, hubVars, subVars, streamVars, writerVars, clientVars
<1>1. ASSUME NEW w \in Writers, NEW a \in Accounts, NEW T \in (SUBSET Topics) \ {{}}, Commit(w, a, T)
      PROVE  TypeOK'
  BY <1>1 DEF Commit
<1>2. ASSUME NEW w \in Writers, CopySubs(w) PROVE TypeOK'
  BY <1>2 DEF CopySubs
<1>3. ASSUME NEW w \in Writers, NEW s \in Streams, RaiseFor(w, s) PROVE TypeOK'
  BY <1>3 DEF RaiseFor
<1>4. ASSUME NEW w \in Writers, Poke(w) PROVE TypeOK'
  BY <1>4 DEF Poke
<1>5. ASSUME NEW w \in Writers, NotifyReturns(w) PROVE TypeOK'
  BY <1>5 DEF NotifyReturns
<1>6. ASSUME NEW s \in Streams, Subscribe(s) PROVE TypeOK'
  <2>1. CASE closed
    BY <1>6, <2>1 DEF Subscribe
  <2>2. CASE ~closed
    BY <1>6, <2>2 DEF Subscribe
  <2>. QED
    BY <2>1, <2>2
<1>16. ASSUME NEW s \in Streams, Refuse(s) PROVE TypeOK'
  BY <1>16 DEF Refuse
<1>7. ASSUME NEW s \in Streams, Open(s) PROVE TypeOK'
  BY <1>7 DEF Open
<1>17. ASSUME NEW s \in Streams, PokeSelf(s) PROVE TypeOK'
  BY <1>17 DEF PokeSelf
<1>19. ASSUME NEW s \in Streams, WakeUp(s) PROVE TypeOK'
  BY <1>19 DEF WakeUp
<1>18. ASSUME NEW s \in Streams, Take(s) PROVE TypeOK'
  BY <1>18 DEF Take
<1>8. ASSUME NEW s \in Streams, End(s) PROVE TypeOK'
  BY <1>8 DEF End
<1>9. ASSUME NEW s \in Streams, Authorize(s) PROVE TypeOK'
  BY <1>8, <1>9 DEF Authorize
<1>10. ASSUME NEW s \in Streams, Send(s) PROVE TypeOK'
  BY <1>10 DEF Send
<1>11. ASSUME NEW s \in Streams, Revoke(s) PROVE TypeOK'
  BY <1>11 DEF Revoke
<1>12. ASSUME NEW s \in Streams, NEW t \in Topics, ReadFeed(s, t) PROVE TypeOK'
  BY <1>12 DEF ReadFeed
<1>13. ASSUME CloseHub PROVE TypeOK'
  BY <1>13 DEF CloseHub
<1>14. ASSUME NEW s \in Streams, Finish(s) PROVE TypeOK'
  BY <1>14 DEF Finish
<1>15. CASE UNCHANGED vars
  BY <1>15 DEF vars
<1>. HIDE DEF TypeOK
<1>. QED
  BY <1>1, <1>2, <1>3, <1>4, <1>5, <1>6, <1>7, <1>8, <1>9, <1>10, <1>11, <1>12, <1>13, <1>14, <1>15, <1>16, <1>17, <1>18, <1>19
  DEF Next, WriterStep, StreamStep, ObserveDone, Revalidate, Leave

(* A client never lacks a topic its token does not permit.                 *)
LEMMA StaleStep ==
  ASSUME TypeOK, StaleAllowed, [Next]_vars
  PROVE  StaleAllowed'
<1>. USE HubAssumption DEF hubVars, subVars, streamVars, writerVars, clientVars
<1>. USE DEF TypeOK, StaleAllowed
<1>1. ASSUME NEW w \in Writers, NEW a \in Accounts, NEW T \in (SUBSET Topics) \ {{}}, Commit(w, a, T) PROVE StaleAllowed'
  BY <1>1 DEF Commit
<1>2. ASSUME NEW w \in Writers, CopySubs(w) PROVE StaleAllowed'
  BY <1>2 DEF CopySubs
<1>3. ASSUME NEW w \in Writers, NEW s \in Streams, RaiseFor(w, s) PROVE StaleAllowed'
  BY <1>3 DEF RaiseFor
<1>4. ASSUME NEW w \in Writers, Poke(w) PROVE StaleAllowed'
  BY <1>4 DEF Poke
<1>5. ASSUME NEW w \in Writers, NotifyReturns(w) PROVE StaleAllowed'
  BY <1>5 DEF NotifyReturns
<1>6. ASSUME NEW s \in Streams, Subscribe(s) PROVE StaleAllowed'
  BY <1>6 DEF Subscribe
<1>7. ASSUME NEW s \in Streams, Refuse(s) PROVE StaleAllowed'
  BY <1>7 DEF Refuse
<1>8. ASSUME NEW s \in Streams, Open(s) PROVE StaleAllowed'
  BY <1>8 DEF Open
<1>9. ASSUME NEW s \in Streams, PokeSelf(s) PROVE StaleAllowed'
  BY <1>9 DEF PokeSelf
<1>10. ASSUME NEW s \in Streams, WakeUp(s) PROVE StaleAllowed'
  BY <1>10 DEF WakeUp
<1>11. ASSUME NEW s \in Streams, Take(s) PROVE StaleAllowed'
  BY <1>11 DEF Take
<1>12. ASSUME NEW s \in Streams, End(s) PROVE StaleAllowed'
  BY <1>12 DEF End
<1>13. ASSUME NEW s \in Streams, valid[s], Authorize(s) PROVE StaleAllowed'
  BY <1>13 DEF Authorize, End
<1>14. ASSUME NEW s \in Streams, Send(s) PROVE StaleAllowed'
  BY <1>14 DEF Send
<1>15. ASSUME NEW s \in Streams, Revoke(s) PROVE StaleAllowed'
  BY <1>15 DEF Revoke
<1>16. ASSUME NEW s \in Streams, NEW t \in Topics, ReadFeed(s, t) PROVE StaleAllowed'
  BY <1>16 DEF ReadFeed
<1>17. ASSUME CloseHub PROVE StaleAllowed'
  BY <1>17 DEF CloseHub
<1>18. ASSUME NEW s \in Streams, Finish(s) PROVE StaleAllowed'
  BY <1>18 DEF Finish
<1>19. CASE UNCHANGED vars
  BY <1>19 DEF vars
<1>20. ASSUME NEW s \in Streams, Authorize(s) PROVE StaleAllowed'
  BY <1>12, <1>13, <1>20 DEF Authorize
<1>. HIDE DEF StaleAllowed
<1>. QED
  BY <1>1, <1>2, <1>3, <1>4, <1>5, <1>6, <1>7, <1>8, <1>9, <1>10, <1>11, <1>12, <1>13, <1>14, <1>15, <1>16, <1>17, <1>18, <1>19, <1>20
  DEF Next, WriterStep, StreamStep, ObserveDone, Revalidate, Leave

(* Only a stream between Take and Send holds drained topics.               *)
LEMMA TakenStep ==
  ASSUME TypeOK, TakenHeld, [Next]_vars
  PROVE  TakenHeld'
<1>. USE HubAssumption DEF hubVars, subVars, streamVars, writerVars, clientVars
<1>. USE DEF TypeOK, TakenHeld
<1>1. ASSUME NEW w \in Writers, NEW a \in Accounts, NEW T \in (SUBSET Topics) \ {{}}, Commit(w, a, T) PROVE TakenHeld'
  BY <1>1 DEF Commit
<1>2. ASSUME NEW w \in Writers, CopySubs(w) PROVE TakenHeld'
  BY <1>2 DEF CopySubs
<1>3. ASSUME NEW w \in Writers, NEW s \in Streams, RaiseFor(w, s) PROVE TakenHeld'
  BY <1>3 DEF RaiseFor
<1>4. ASSUME NEW w \in Writers, Poke(w) PROVE TakenHeld'
  BY <1>4 DEF Poke
<1>5. ASSUME NEW w \in Writers, NotifyReturns(w) PROVE TakenHeld'
  BY <1>5 DEF NotifyReturns
<1>6. ASSUME NEW s \in Streams, Subscribe(s) PROVE TakenHeld'
  BY <1>6 DEF Subscribe
<1>7. ASSUME NEW s \in Streams, Refuse(s) PROVE TakenHeld'
  BY <1>7 DEF Refuse
<1>8. ASSUME NEW s \in Streams, Open(s) PROVE TakenHeld'
  BY <1>8 DEF Open
<1>9. ASSUME NEW s \in Streams, PokeSelf(s) PROVE TakenHeld'
  BY <1>9 DEF PokeSelf
<1>10. ASSUME NEW s \in Streams, WakeUp(s) PROVE TakenHeld'
  BY <1>10 DEF WakeUp
<1>11. ASSUME NEW s \in Streams, Take(s) PROVE TakenHeld'
  BY <1>11 DEF Take
<1>12. ASSUME NEW s \in Streams, End(s) PROVE TakenHeld'
  BY <1>12 DEF End
<1>13. ASSUME NEW s \in Streams, valid[s], Authorize(s) PROVE TakenHeld'
  BY <1>13 DEF Authorize, End
<1>14. ASSUME NEW s \in Streams, Send(s) PROVE TakenHeld'
  BY <1>14 DEF Send
<1>15. ASSUME NEW s \in Streams, Revoke(s) PROVE TakenHeld'
  BY <1>15 DEF Revoke
<1>16. ASSUME NEW s \in Streams, NEW t \in Topics, ReadFeed(s, t) PROVE TakenHeld'
  BY <1>16 DEF ReadFeed
<1>17. ASSUME CloseHub PROVE TakenHeld'
  BY <1>17 DEF CloseHub
<1>18. ASSUME NEW s \in Streams, Finish(s) PROVE TakenHeld'
  BY <1>18 DEF Finish
<1>19. CASE UNCHANGED vars
  BY <1>19 DEF vars
<1>20. ASSUME NEW s \in Streams, Authorize(s) PROVE TakenHeld'
  BY <1>12, <1>13, <1>20 DEF Authorize
<1>. HIDE DEF TakenHeld
<1>. QED
  BY <1>1, <1>2, <1>3, <1>4, <1>5, <1>6, <1>7, <1>8, <1>9, <1>10, <1>11, <1>12, <1>13, <1>14, <1>15, <1>16, <1>17, <1>18, <1>19, <1>20
  DEF Next, WriterStep, StreamStep, ObserveDone, Revalidate, Leave

(* The credential is checked between Take and Send: once it is revoked,    *)
(* the frame already cleared is the last.                                  *)
LEMMA LateStep ==
  ASSUME TypeOK, LateIsLast, [Next]_vars
  PROVE  LateIsLast'
<1>. USE HubAssumption DEF hubVars, subVars, streamVars, writerVars, clientVars
<1>. USE DEF TypeOK, LateIsLast
<1>1. ASSUME NEW w \in Writers, NEW a \in Accounts, NEW T \in (SUBSET Topics) \ {{}}, Commit(w, a, T) PROVE LateIsLast'
  BY <1>1 DEF Commit
<1>2. ASSUME NEW w \in Writers, CopySubs(w) PROVE LateIsLast'
  BY <1>2 DEF CopySubs
<1>3. ASSUME NEW w \in Writers, NEW s \in Streams, RaiseFor(w, s) PROVE LateIsLast'
  BY <1>3 DEF RaiseFor
<1>4. ASSUME NEW w \in Writers, Poke(w) PROVE LateIsLast'
  BY <1>4 DEF Poke
<1>5. ASSUME NEW w \in Writers, NotifyReturns(w) PROVE LateIsLast'
  BY <1>5 DEF NotifyReturns
<1>6. ASSUME NEW s \in Streams, Subscribe(s) PROVE LateIsLast'
  BY <1>6 DEF Subscribe
<1>7. ASSUME NEW s \in Streams, Refuse(s) PROVE LateIsLast'
  BY <1>7 DEF Refuse
<1>8. ASSUME NEW s \in Streams, Open(s) PROVE LateIsLast'
  BY <1>8 DEF Open
<1>9. ASSUME NEW s \in Streams, PokeSelf(s) PROVE LateIsLast'
  BY <1>9 DEF PokeSelf
<1>10. ASSUME NEW s \in Streams, WakeUp(s) PROVE LateIsLast'
  BY <1>10 DEF WakeUp
<1>11. ASSUME NEW s \in Streams, Take(s) PROVE LateIsLast'
  BY <1>11 DEF Take
<1>12. ASSUME NEW s \in Streams, End(s) PROVE LateIsLast'
  BY <1>12 DEF End
<1>13. ASSUME NEW s \in Streams, valid[s], Authorize(s) PROVE LateIsLast'
  BY <1>13 DEF Authorize, End
<1>14. ASSUME NEW s \in Streams, Send(s) PROVE LateIsLast'
  BY <1>14 DEF Send
<1>15. ASSUME NEW s \in Streams, Revoke(s) PROVE LateIsLast'
  BY <1>15 DEF Revoke
<1>16. ASSUME NEW s \in Streams, NEW t \in Topics, ReadFeed(s, t) PROVE LateIsLast'
  BY <1>16 DEF ReadFeed
<1>17. ASSUME CloseHub PROVE LateIsLast'
  BY <1>17 DEF CloseHub
<1>18. ASSUME NEW s \in Streams, Finish(s) PROVE LateIsLast'
  BY <1>18 DEF Finish
<1>19. CASE UNCHANGED vars
  BY <1>19 DEF vars
<1>20. ASSUME NEW s \in Streams, Authorize(s) PROVE LateIsLast'
  BY <1>12, <1>13, <1>20 DEF Authorize
<1>. HIDE DEF LateIsLast
<1>. QED
  BY <1>1, <1>2, <1>3, <1>4, <1>5, <1>6, <1>7, <1>8, <1>9, <1>10, <1>11, <1>12, <1>13, <1>14, <1>15, <1>16, <1>17, <1>18, <1>19, <1>20
  DEF Next, WriterStep, StreamStep, ObserveDone, Revalidate, Leave

(* Whoever makes a pending set grow pokes, and only the stream that was    *)
(* poked consumes the wake-up.                                             *)
LEMMA WakeStep ==
  ASSUME TypeOK, WakeUpComes, [Next]_vars
  PROVE  WakeUpComes'
<1>. USE HubAssumption DEF hubVars, subVars, streamVars, writerVars, clientVars
<1>. USE DEF TypeOK, WakeUpComes
<1>1. ASSUME NEW w \in Writers, NEW a \in Accounts, NEW T \in (SUBSET Topics) \ {{}}, Commit(w, a, T) PROVE WakeUpComes'
  BY <1>1 DEF Commit
<1>2. ASSUME NEW w \in Writers, CopySubs(w) PROVE WakeUpComes'
  BY <1>2 DEF CopySubs
<1>3. ASSUME NEW w \in Writers, NEW s \in Streams, RaiseFor(w, s) PROVE WakeUpComes'
  BY <1>3 DEF RaiseFor
<1>4. ASSUME NEW w \in Writers, Poke(w) PROVE WakeUpComes'
  BY <1>4 DEF Poke
<1>5. ASSUME NEW w \in Writers, NotifyReturns(w) PROVE WakeUpComes'
  BY <1>5 DEF NotifyReturns
<1>6. ASSUME NEW s \in Streams, Subscribe(s) PROVE WakeUpComes'
  BY <1>6 DEF Subscribe
<1>7. ASSUME NEW s \in Streams, Refuse(s) PROVE WakeUpComes'
  BY <1>7 DEF Refuse
<1>8. ASSUME NEW s \in Streams, Open(s) PROVE WakeUpComes'
  BY <1>8 DEF Open
<1>9. ASSUME NEW s \in Streams, PokeSelf(s) PROVE WakeUpComes'
  BY <1>9 DEF PokeSelf
<1>10. ASSUME NEW s \in Streams, WakeUp(s) PROVE WakeUpComes'
  BY <1>10 DEF WakeUp
<1>11. ASSUME NEW s \in Streams, Take(s) PROVE WakeUpComes'
  BY <1>11 DEF Take
<1>12. ASSUME NEW s \in Streams, End(s) PROVE WakeUpComes'
  BY <1>12 DEF End
<1>13. ASSUME NEW s \in Streams, valid[s], Authorize(s) PROVE WakeUpComes'
  BY <1>13 DEF Authorize, End
<1>14. ASSUME NEW s \in Streams, Send(s) PROVE WakeUpComes'
  BY <1>14 DEF Send
<1>15. ASSUME NEW s \in Streams, Revoke(s) PROVE WakeUpComes'
  BY <1>15 DEF Revoke
<1>16. ASSUME NEW s \in Streams, NEW t \in Topics, ReadFeed(s, t) PROVE WakeUpComes'
  BY <1>16 DEF ReadFeed
<1>17. ASSUME CloseHub PROVE WakeUpComes'
  BY <1>17 DEF CloseHub
<1>18. ASSUME NEW s \in Streams, Finish(s) PROVE WakeUpComes'
  BY <1>18 DEF Finish
<1>19. CASE UNCHANGED vars
  BY <1>19 DEF vars
<1>20. ASSUME NEW s \in Streams, Authorize(s) PROVE WakeUpComes'
  BY <1>12, <1>13, <1>20 DEF Authorize
<1>. HIDE DEF WakeUpComes
<1>. QED
  BY <1>1, <1>2, <1>3, <1>4, <1>5, <1>6, <1>7, <1>8, <1>9, <1>10, <1>11, <1>12, <1>13, <1>14, <1>15, <1>16, <1>17, <1>18, <1>19, <1>20
  DEF Next, WriterStep, StreamStep, ObserveDone, Revalidate, Leave

(* A stale topic moves from the writer to the pending set, to the frame,   *)
(* and is dropped only when the client reads the feed.                     *)
LEMMA LostStep ==
  ASSUME TypeOK, StaleAllowed, TakenHeld, NoLostInvalidation, [Next]_vars
  PROVE  NoLostInvalidation'
<1>. USE HubAssumption DEF hubVars, subVars, streamVars, writerVars, clientVars
<1>. USE DEF TypeOK, NoLostInvalidation, Following, Opened, Owes, StaleAllowed, TakenHeld
<1>1. ASSUME NEW w \in Writers, NEW a \in Accounts, NEW T \in (SUBSET Topics) \ {{}}, Commit(w, a, T) PROVE NoLostInvalidation'
  BY <1>1 DEF Commit
<1>2. ASSUME NEW w \in Writers, CopySubs(w) PROVE NoLostInvalidation'
  BY <1>2 DEF CopySubs
<1>3. ASSUME NEW w \in Writers, NEW s \in Streams, RaiseFor(w, s) PROVE NoLostInvalidation'
  BY <1>3 DEF RaiseFor
<1>4. ASSUME NEW w \in Writers, Poke(w) PROVE NoLostInvalidation'
  BY <1>4 DEF Poke
<1>5. ASSUME NEW w \in Writers, NotifyReturns(w) PROVE NoLostInvalidation'
  BY <1>5 DEF NotifyReturns
<1>6. ASSUME NEW s \in Streams, Subscribe(s) PROVE NoLostInvalidation'
  BY <1>6 DEF Subscribe
<1>7. ASSUME NEW s \in Streams, Refuse(s) PROVE NoLostInvalidation'
  BY <1>7 DEF Refuse
<1>8. ASSUME NEW s \in Streams, Open(s) PROVE NoLostInvalidation'
  BY <1>8 DEF Open
<1>9. ASSUME NEW s \in Streams, PokeSelf(s) PROVE NoLostInvalidation'
  BY <1>9 DEF PokeSelf
<1>10. ASSUME NEW s \in Streams, WakeUp(s) PROVE NoLostInvalidation'
  BY <1>10 DEF WakeUp
<1>11. ASSUME NEW s \in Streams, Take(s) PROVE NoLostInvalidation'
  BY <1>11 DEF Take
<1>12. ASSUME NEW s \in Streams, End(s) PROVE NoLostInvalidation'
  BY <1>12 DEF End
<1>13. ASSUME NEW s \in Streams, valid[s], Authorize(s) PROVE NoLostInvalidation'
  BY <1>13 DEF Authorize, End
<1>14. ASSUME NEW s \in Streams, Send(s) PROVE NoLostInvalidation'
  BY <1>14 DEF Send
<1>15. ASSUME NEW s \in Streams, Revoke(s) PROVE NoLostInvalidation'
  BY <1>15 DEF Revoke
<1>16. ASSUME NEW s \in Streams, NEW t \in Topics, ReadFeed(s, t) PROVE NoLostInvalidation'
  BY <1>16 DEF ReadFeed
<1>17. ASSUME CloseHub PROVE NoLostInvalidation'
  BY <1>17 DEF CloseHub
<1>18. ASSUME NEW s \in Streams, Finish(s) PROVE NoLostInvalidation'
  BY <1>18 DEF Finish
<1>19. CASE UNCHANGED vars
  BY <1>19 DEF vars
<1>20. ASSUME NEW s \in Streams, Authorize(s) PROVE NoLostInvalidation'
  BY <1>12, <1>13, <1>20 DEF Authorize
<1>. HIDE DEF NoLostInvalidation
<1>. QED
  BY <1>1, <1>2, <1>3, <1>4, <1>5, <1>6, <1>7, <1>8, <1>9, <1>10, <1>11, <1>12, <1>13, <1>14, <1>15, <1>16, <1>17, <1>18, <1>19, <1>20
  DEF Next, WriterStep, StreamStep, ObserveDone, Revalidate, Leave

-----------------------------------------------------------------------------
(* The theorems.                                                           *)

(* Every step keeps the inductive invariant.                               *)
LEMMA NextInv == IInv /\ [Next]_vars => IInv'
  BY TypeStep, StaleStep, TakenStep, LateStep, WakeStep, LostStep DEF IInv

(* The inductive invariant of the hub, its writers and its streams.        *)
THEOREM HubInvariant == Spec => []IInv
  BY InitInv, NextInv, PTL DEF Spec

(* Every variable has its type.                                            *)
THEOREM HubTypeCorrect == Spec => []TypeOK
<1>1. IInv => TypeOK
  BY DEF IInv
<1>. QED
  BY <1>1, HubInvariant, PTL

(* Subscribing and committing in either order loses no refresh.            *)
THEOREM NothingIsLost == Spec => []NoLostInvalidation
<1>1. IInv => NoLostInvalidation
  BY DEF IInv
<1>. QED
  BY <1>1, HubInvariant, PTL

(* No stream sleeps over what it owes.                                     *)
THEOREM NobodyOversleeps == Spec => []WakeUpComes
<1>1. IInv => WakeUpComes
  BY DEF IInv
<1>. QED
  BY <1>1, HubInvariant, PTL

(* A revoked credential gets at most the frame already cleared for it.     *)
THEOREM RevocationEndsStreams == Spec => []OneLateFrame
<1>1. IInv => OneLateFrame
  <2>. SUFFICES ASSUME IInv, NEW s \in Streams PROVE late[s] <= 1
    BY DEF OneLateFrame
  <2>1. late[s] \in Nat /\ (late[s] > 0 => late[s] = 1)
    BY DEF IInv, TypeOK, LateIsLast
  <2>. QED
    BY <2>1, SMT
<1>. QED
  BY <1>1, HubInvariant, PTL

-----------------------------------------------------------------------------
(* The outbox: types.                                                      *)

Answers == {"applied", "duplicate", "conflict", "failed", "too large"}
Shown == [Notes -> Records \cup {None}]
Drains ==
  [at : At, todo : SUBSET Changes, blocked : SUBSET Books, sending : 0..MaxChanges,
   row : Rows \cup {None}, told : Answers \cup {None}, seen : Records \cup {None} \cup Shown]

OutboxTyped ==
  /\ rows \in [Changes -> Rows \cup {None}] /\ next \in 1..(MaxChanges + 1)
  /\ page \in [Pages -> Drains] /\ lock \in Pages \cup {None}
  /\ stray \subseteq [change : Changes, row : Rows]
  /\ log \in Seq([change : Changes, of : Books]) /\ held \in Shown
  /\ gone \subseteq Books \cup Notes /\ cut \subseteq Changes

(* A change of a page is of a book, one of a note of a note.               *)
Fits(r) == IF r.kind = "page" THEN r.of \in Books ELSE r.of \in Notes

(* A position is refused for its book; a conflict comes with a record.     *)
RowsHold ==
  \A c \in Changes : rows[c] # None =>
    /\ c < next /\ Fits(rows[c])
    /\ rows[c].kind = "page" /\ rows[c].state # "pending" => rows[c].of \in gone
    /\ rows[c].kind # "page" /\ rows[c].state = "conflict" => rows[c].server \in Records

(* Whoever drains holds the lock.                                          *)
OneDrains ==
  \A p \in Pages :
    /\ page[p].at \notin {"closed", "open"} <=> lock = p
    /\ page[p].at \in {"closed", "open"} => page[p].todo = {}
    /\ \A c \in page[p].todo : c < next

(* A request is of the change that its number names.                       *)
Names(c, r) ==
  /\ c \in Changes /\ c < next /\ r \in Rows /\ Fits(r)
  /\ rows[c] # None => rows[c].kind = r.kind /\ rows[c].of = r.of

Answered(c, r, told, seen) ==
  /\ told \in Answers /\ seen \in Records \cup {None}
  /\ told = "conflict" => r.kind # "page" /\ seen \in Records
  /\ r.kind = "page" /\ r.of \notin gone =>
       \/ told = "too large"
       \/ told \in {"applied", "duplicate"} /\ Taken(c, r.of)

AnswersHold ==
  \A p \in Pages :
    /\ page[p].at \in {"sent", "told"} => Names(page[p].sending, page[p].row)
    /\ page[p].at = "told" =>
         Answered(page[p].sending, page[p].row, page[p].told, page[p].seen)
    /\ page[p].at = "fetched" => page[p].seen \in Shown

LogHolds == PagesInOrder /\ \A i \in DOMAIN log : log[i].change < next

(* A request that may still reach the server.                              *)
Asked(c, r) ==
  \/ [change |-> c, row |-> r] \in stray
  \/ \E p \in Pages : page[p].at = "sent" /\ page[p].sending = c /\ page[p].row = r

(* A page turn that the server has yet to take.                            *)
Waiting(c, b) ==
  /\ rows[c] # None /\ rows[c].kind = "page" /\ rows[c].of = b /\ rows[c].state = "pending"
  /\ b \notin gone /\ ~Taken(c, b)

(* What was asked was taken or still waits.                                *)
AskedIsKnown ==
  \A c \in Changes : \A r \in Rows : Asked(c, r) =>
    Names(c, r) /\ (r.kind = "page" /\ r.of \notin gone => Taken(c, r.of) \/ Waiting(c, r.of))

Launched(d, b) == Taken(d, b) \/ \E r \in Rows : Asked(d, r) /\ r.kind = "page" /\ r.of = b

(* No page turn overtakes one that waits, but for one cut short.           *)
NoneOvertakes ==
  \A c, d \in Changes : \A b \in Books :
    c < d /\ Waiting(c, b) /\ c \notin cut => ~Launched(d, b)

(* In a drain, the earlier is tried before the later, or holds it back.    *)
InTurn ==
  \A p \in Pages : \A d \in page[p].todo : \A c \in Changes : \A b \in Books :
    c < d /\ Waiting(c, b) /\ c \notin cut =>
      \/ c \in page[p].todo \/ b \in page[p].blocked
      \/ page[p].at \in {"sent", "told"} /\ page[p].sending = c

OutboxInv ==
  /\ OutboxTyped /\ RowsHold /\ OneDrains /\ AnswersHold
  /\ LogHolds /\ AskedIsKnown /\ NoneOvertakes /\ InTurn

LEMMA DrainTyped ==
  ASSUME OutboxTyped, NEW p \in Pages
  PROVE  /\ page[p] \in Drains /\ page[p].at \in At /\ page[p].todo \subseteq Changes
         /\ page[p].blocked \subseteq Books /\ page[p].row \in Rows \cup {None}
BY DEF OutboxTyped, Drains

(* A drain with one thing changed is one.                                  *)
LEMMA DrainUpdated ==
  ASSUME NEW w \in Drains
  PROVE  /\ \A at \in At : [w EXCEPT !.at = at] \in Drains
         /\ \A T \in SUBSET Changes : [w EXCEPT !.todo = T] \in Drains
         /\ \A B \in SUBSET Books : [w EXCEPT !.blocked = B] \in Drains
         /\ \A c \in Changes : [w EXCEPT !.sending = c] \in Drains
         /\ \A r \in Rows : [w EXCEPT !.row = r] \in Drains
         /\ \A t \in Answers : [w EXCEPT !.told = t] \in Drains
         /\ \A s \in Records \cup {None} \cup Shown : [w EXCEPT !.seen = s] \in Drains
<1>. USE DEF Drains
<1>1. \A at \in At : [w EXCEPT !.at = at] \in Drains
  OBVIOUS
<1>2. \A T \in SUBSET Changes : [w EXCEPT !.todo = T] \in Drains
  OBVIOUS
<1>3. \A B \in SUBSET Books : [w EXCEPT !.blocked = B] \in Drains
  OBVIOUS
<1>4. \A c \in Changes : [w EXCEPT !.sending = c] \in Drains
  BY DEF Changes
<1>5. \A r \in Rows : [w EXCEPT !.row = r] \in Drains
  OBVIOUS
<1>6. \A t \in Answers : [w EXCEPT !.told = t] \in Drains
  OBVIOUS
<1>7. \A s \in Records \cup {None} \cup Shown : [w EXCEPT !.seen = s] \in Drains
  OBVIOUS
<1>. QED
  BY <1>1, <1>2, <1>3, <1>4, <1>5, <1>6, <1>7

LEMMA RowUpdated ==
  ASSUME NEW r \in Rows
  PROVE  /\ \A s \in {"pending", "failed", "conflict"} : [r EXCEPT !.state = s] \in Rows
         /\ \A a \in BOOLEAN : [r EXCEPT !.attempted = a] \in Rows
         /\ \A b \in BOOLEAN : [r EXCEPT !.big = b] \in Rows
         /\ \A n \in Nat : [r EXCEPT !.base = n] \in Rows
         /\ \A s \in Records \cup {None} : [r EXCEPT !.server = s] \in Rows
<1>. USE DEF Rows
<1>1. \A s \in {"pending", "failed", "conflict"} : [r EXCEPT !.state = s] \in Rows
  OBVIOUS
<1>2. \A a \in BOOLEAN : [r EXCEPT !.attempted = a] \in Rows
  OBVIOUS
<1>3. \A b \in BOOLEAN : [r EXCEPT !.big = b] \in Rows
  OBVIOUS
<1>4. \A n \in Nat : [r EXCEPT !.base = n] \in Rows
  OBVIOUS
<1>5. \A s \in Records \cup {None} : [r EXCEPT !.server = s] \in Rows
  OBVIOUS
<1>. QED
  BY <1>1, <1>2, <1>3, <1>4, <1>5

LEMMA MembersOfSequences == ASSUME NEW S, NEW s \in Seq(S), NEW i \in 1..Len(s) PROVE s[i] \in S
OBVIOUS

LEMMA EntryTyped ==
  ASSUME OutboxTyped, NEW i \in DOMAIN log
  PROVE  i \in 1..Len(log) /\ log[i].change \in Changes /\ log[i].of \in Books
<1>1. log \in Seq([change : Changes, of : Books])
  BY DEF OutboxTyped
<1>2. DOMAIN log = 1..Len(log) /\ i \in 1..Len(log)
  BY <1>1
<1>3. log[i] \in [change : Changes, of : Books]
  BY <1>1, <1>2, MembersOfSequences
<1>. QED
  BY <1>2, <1>3

LEMMA ChangesAreInt == ASSUME OutboxAssumption, OutboxTyped PROVE Changes \subseteq Int /\ next \in Int
BY DEF OutboxAssumption, OutboxTyped, Changes

LEMMA LaunchedBefore ==
  ASSUME OutboxAssumption, OutboxInv, NEW d \in Changes, NEW b, Launched(d, b)
  PROVE  d < next
<1>1. CASE Taken(d, b)
  BY <1>1 DEF OutboxInv, LogHolds, Taken
<1>2. CASE \E r \in Rows : Asked(d, r)
  BY <1>2 DEF OutboxInv, AskedIsKnown, Names
<1>. QED
  BY <1>1, <1>2 DEF Launched

(* What waits comes before all that is launched as long as nothing else is *)
(* launched and nothing else waits but what is new.                        *)
LEMMA NothingNewIsLaunched ==
  ASSUME OutboxAssumption, OutboxInv,
         \A c \in Changes : \A b \in Books :
           Waiting(c, b)' /\ c \notin cut' => (Waiting(c, b) /\ c \notin cut) \/ c >= next,
         \A d \in Changes : \A b \in Books : Launched(d, b)' => Launched(d, b)
  PROVE  NoneOvertakes'
<1>. SUFFICES ASSUME NEW c \in Changes, NEW d \in Changes, NEW b \in Books,
                     c < d, Waiting(c, b)', c \notin cut', Launched(d, b)'
              PROVE  FALSE
  BY Zenon DEF NoneOvertakes, Changes
<1>1. Launched(d, b) /\ d < next
  BY LaunchedBefore
<1>2. Waiting(c, b) /\ c \notin cut
  BY <1>1, ChangesAreInt DEF OutboxInv
<1>. QED
  BY <1>1, <1>2 DEF OutboxInv, NoneOvertakes

(* The store of the outbox changes: a row is new, goes, or is revised.     *)
RowMoves(c) ==
  \/ rows'[c] = rows[c]
  \/ rows'[c] = None /\ (rows[c] # None /\ rows[c].kind = "page" => rows[c].of \in gone)
  \/ c = next /\ next' = next + 1 /\ rows'[c] \in Rows /\ Fits(rows'[c]) /\ rows'[c].state = "pending"
  \/ /\ rows[c] # None /\ rows'[c] \in Rows
     /\ rows'[c].kind = rows[c].kind /\ rows'[c].of = rows[c].of
     /\ rows[c].kind = "page" => rows[c].of \in gone
     /\ rows[c].kind # "page" => rows'[c].state = "pending"

LEMMA StoreStep ==
  ASSUME OutboxAssumption, OutboxInv,
         UNCHANGED <<page, lock, stray, log, gone, cut>>, held' \in Shown,
         next' \in {next, next + 1}, next' \in 1..(MaxChanges + 1),
         rows' \in [Changes -> Rows \cup {None}],
         \A c \in Changes : RowMoves(c)
  PROVE  OutboxInv'
<1>0. next \in Int /\ Changes \subseteq Int /\ next <= next'
  BY ChangesAreInt DEF OutboxInv
<1>1. OutboxTyped'
  BY DEF OutboxInv, OutboxTyped, Shown, Drains
<1>2. RowsHold'
  <2>. SUFFICES ASSUME NEW c \in Changes, rows'[c] # None
                PROVE  /\ c < next' /\ Fits(rows'[c])
                       /\ rows'[c].kind = "page" /\ rows'[c].state # "pending" => rows'[c].of \in gone
                       /\ rows'[c].kind # "page" /\ rows'[c].state = "conflict" => rows'[c].server \in Records
    BY DEF RowsHold, Changes, Fits
  <2>1. CASE rows'[c] = rows[c]
    BY <1>0, <2>1 DEF OutboxInv, RowsHold
  <2>2. CASE c = next /\ next' = next + 1 /\ Fits(rows'[c]) /\ rows'[c].state = "pending"
    BY <1>0, <2>2
  <2>3. CASE /\ rows[c] # None
             /\ rows'[c].kind = rows[c].kind /\ rows'[c].of = rows[c].of
             /\ rows[c].kind = "page" => rows[c].of \in gone
             /\ rows[c].kind # "page" => rows'[c].state = "pending"
    BY <1>0, <2>3 DEF OutboxInv, RowsHold, Fits
  <2>. QED
    BY <2>1, <2>2, <2>3 DEF RowMoves
<1>3. OneDrains'
  <2>1. \A p \in Pages : \A c \in page[p].todo : c < next'
    <3>. TAKE p \in Pages
    <3>. TAKE c \in page[p].todo
    <3>1. c < next /\ c \in Int
      BY <1>0, DrainTyped DEF OutboxInv, OneDrains
    <3>. QED
      BY <1>0, <3>1
  <2>2. \A p \in Pages :
          /\ page[p].at \notin {"closed", "open"} <=> lock = p
          /\ page[p].at \in {"closed", "open"} => page[p].todo = {}
    BY DEF OutboxInv, OneDrains
  <2>. QED
    BY <2>1, <2>2 DEF OneDrains
<1>4. \A c \in Changes : \A r : Names(c, r) => Names(c, r)'
  <2>. SUFFICES ASSUME NEW c \in Changes, NEW r, Names(c, r), rows'[c] # None
                PROVE  c < next' /\ rows'[c].kind = r.kind /\ rows'[c].of = r.of
    BY <1>0 DEF Names, Changes, Fits
  <2>1. c < next /\ c # next /\ c < next'
    BY <1>0 DEF Names
  <2>. QED
    BY <2>1 DEF RowMoves, Names
<1>5. AnswersHold'
  <2>1. \A c, r, t, s : Answered(c, r, t, s)' = Answered(c, r, t, s)
    BY DEF Answered, Taken
  <2>2. \A p \in Pages : page[p].at \in {"sent", "told"} => Names(page[p].sending, page[p].row)'
    BY <1>4 DEF OutboxInv, AnswersHold, Names
  <2>3. \A p \in Pages : page[p].at = "told" =>
           Answered(page[p].sending, page[p].row, page[p].told, page[p].seen)'
    BY <2>1 DEF OutboxInv, AnswersHold
  <2>. QED
    BY <2>2, <2>3 DEF OutboxInv, AnswersHold, Names, Answered, Taken, Shown, Fits, Changes
<1>6. LogHolds'
  <2>1. \A i \in DOMAIN log : log[i].change < next'
    <3>. TAKE i \in DOMAIN log
    <3>1. log[i].change \in Int /\ log[i].change < next
      BY <1>0, EntryTyped DEF OutboxInv, LogHolds
    <3>. QED
      BY <1>0, <3>1
  <2>. QED
    BY <2>1 DEF OutboxInv, LogHolds, PagesInOrder
<1>7. \A c \in Changes : \A b \in Books :
        /\ Waiting(c, b)' => Waiting(c, b) \/ c >= next
        /\ c < next /\ Waiting(c, b) => Waiting(c, b)'
  <2>. SUFFICES ASSUME NEW c \in Changes, NEW b \in Books
                PROVE  /\ Waiting(c, b)' => Waiting(c, b) \/ c >= next
                       /\ c < next /\ Waiting(c, b) => Waiting(c, b)'
    BY DEF Changes, Waiting, Taken
  <2>1. RowMoves(c)
    OBVIOUS
  <2>2. Taken(c, b)' = Taken(c, b)
    BY DEF Taken
  <2>. QED
    BY <1>0, <2>1, <2>2 DEF Waiting, RowMoves
<1>8. \A c, r : Asked(c, r)' = Asked(c, r)
  BY DEF Asked
<1>9. AskedIsKnown'
  <2>. SUFFICES ASSUME NEW c \in Changes, NEW r \in Rows, Asked(c, r)'
                PROVE  Names(c, r)' /\ (r.kind = "page" /\ r.of \notin gone => Taken(c, r.of)' \/ Waiting(c, r.of)')
    BY DEF AskedIsKnown, Changes, Rows, Records
  <2>1. Names(c, r) /\ (r.kind = "page" /\ r.of \notin gone => Taken(c, r.of) \/ Waiting(c, r.of))
    BY <1>8 DEF OutboxInv, AskedIsKnown
  <2>2. r.kind = "page" => r.of \in Books
    BY <2>1 DEF Names, Fits
  <2>3. Taken(c, r.of) => Taken(c, r.of)'
    BY DEF Taken
  <2>. QED
    BY <1>4, <1>7, <2>1, <2>2, <2>3 DEF Names
<1>10. NoneOvertakes'
  <2>1. \A d \in Changes : \A b \in Books : Launched(d, b)' => Launched(d, b)
    BY <1>8 DEF Launched, Taken
  <2>. QED
    BY <1>7, <2>1, NothingNewIsLaunched
<1>11. InTurn'
  <2>. SUFFICES ASSUME NEW p \in Pages, NEW d \in page[p].todo, NEW c \in Changes, NEW b \in Books,
                       c < d, Waiting(c, b)', c \notin cut
                PROVE  \/ c \in page[p].todo \/ b \in page[p].blocked
                       \/ page[p].at \in {"sent", "told"} /\ page[p].sending = c
    BY DEF InTurn, Changes, Waiting, Taken
  <2>1. d < next /\ d \in Int
    BY <1>0, DrainTyped DEF OutboxInv, OneDrains
  <2>2. Waiting(c, b)
    BY <1>0, <1>7, <2>1
  <2>. QED
    BY <2>2 DEF OutboxInv, InTurn
<1>. QED
  BY <1>1, <1>2, <1>3, <1>5, <1>6, <1>9, <1>10, <1>11 DEF OutboxInv

-----------------------------------------------------------------------------
(* A page's drain goes on, asking for nothing.                             *)
LEMMA NothingIsAsked ==
  ASSUME OutboxAssumption, OutboxInv, UNCHANGED <<rows, next, log, gone, cut>>,
         \A c, r : Asked(c, r)' => Asked(c, r)
  PROVE  /\ RowsHold' /\ LogHolds' /\ AskedIsKnown' /\ NoneOvertakes'
         /\ \A c, b : Waiting(c, b)' = Waiting(c, b)
         /\ \A c, r : Names(c, r)' = Names(c, r)
         /\ \A c, r, t, s : Answered(c, r, t, s)' = Answered(c, r, t, s)
<1>1. \A c, b : Waiting(c, b)' = Waiting(c, b)
  BY DEF Waiting, Taken
<1>2. \A c, r : Names(c, r)' = Names(c, r)
  BY DEF Names
<1>3. \A c, r, t, s : Answered(c, r, t, s)' = Answered(c, r, t, s)
  BY DEF Answered, Taken
<1>4. RowsHold'
  BY DEF OutboxInv, RowsHold
<1>5. LogHolds'
  BY DEF OutboxInv, LogHolds, PagesInOrder
<1>6. \A c, b : Taken(c, b)' = Taken(c, b)
  BY DEF Taken
<1>7. AskedIsKnown'
  BY <1>1, <1>2, <1>6 DEF OutboxInv, AskedIsKnown
<1>8. \A d \in Changes : \A b \in Books : Launched(d, b)' => Launched(d, b)
  BY <1>6 DEF Launched
<1>9. NoneOvertakes'
  BY <1>1, <1>8, NothingNewIsLaunched
<1>. QED
  BY <1>1, <1>2, <1>3, <1>4, <1>5, <1>7, <1>9

LEMMA OthersRest ==
  ASSUME OutboxAssumption, OutboxInv, NEW p \in Pages, lock \in {p, None}, NEW q \in Pages, q # p
  PROVE  page[q].at \in {"closed", "open"} /\ page[q].todo = {}
<1>1. lock # q
  BY DEF OutboxAssumption
<1>. QED
  BY <1>1 DEF OutboxInv, OneDrains

LEMMA PageMoves ==
  ASSUME OutboxAssumption, OutboxInv, NEW p \in Pages, NEW w \in Drains,
         page' = [page EXCEPT ![p] = w], UNCHANGED <<rows, next, log, held, gone, cut>>,
         \/ lock \in {p, None} /\ lock' \in {p, None}
         \/ lock' = lock /\ page[p].at \in {"closed", "open"} /\ w.at \in {"closed", "open"},
         w.at \notin {"closed", "open"} <=> lock' = p,
         w.at \in {"closed", "open"} => w.todo = {},
         w.at \notin {"sent", "told"}, w.at = "fetched" => w.seen \in Shown,
         \A c \in w.todo : c < next,
         stray' \subseteq [change : Changes, row : Rows],
         \A q \in stray' \ stray : page[p].at = "sent" /\ q = [change |-> page[p].sending, row |-> page[p].row],
         \A d \in w.todo : \A c \in Changes : \A b \in Books :
           c < d /\ Waiting(c, b) /\ c \notin cut => c \in w.todo \/ b \in w.blocked
  PROVE  OutboxInv'
<1>1. page'[p] = w /\ \A q \in Pages \ {p} : page'[q] = page[q]
  BY DEF OutboxInv, OutboxTyped
<1>2. lock' \in Pages \cup {None}
  BY DEF OutboxInv, OutboxTyped
<1>3. OutboxTyped'
  BY <1>2 DEF OutboxInv, OutboxTyped, Drains, Shown
<1>4. \A c, r : Asked(c, r)' => Asked(c, r)
  <2>. SUFFICES ASSUME NEW c, NEW r, Asked(c, r)' PROVE Asked(c, r)
    OBVIOUS
  <2>1. CASE [change |-> c, row |-> r] \in stray'
    <3>1. CASE [change |-> c, row |-> r] \in stray
      BY <3>1 DEF Asked
    <3>2. CASE [change |-> c, row |-> r] \notin stray
      <4>1. /\ page[p].at = "sent"
            /\ [change |-> c, row |-> r] = [change |-> page[p].sending, row |-> page[p].row]
        BY <2>1, <3>2
      <4>2. c = page[p].sending /\ r = page[p].row
        BY <4>1
      <4>. QED
        BY <4>1, <4>2 DEF Asked
    <3>. QED
      BY <3>1, <3>2
  <2>2. CASE \E q \in Pages : page'[q].at = "sent" /\ page'[q].sending = c /\ page'[q].row = r
    BY <1>1, <2>2 DEF Asked
  <2>. QED
    BY <2>1, <2>2 DEF Asked
<1>5. /\ RowsHold' /\ LogHolds' /\ AskedIsKnown' /\ NoneOvertakes'
      /\ \A c, b : Waiting(c, b)' = Waiting(c, b)
      /\ \A c, r : Names(c, r)' = Names(c, r)
      /\ \A c, r, t, s : Answered(c, r, t, s)' = Answered(c, r, t, s)
  BY <1>4, NothingIsAsked, Zenon
<1>6. OneDrains'
  <2>. SUFFICES ASSUME NEW q \in Pages
                PROVE  /\ page'[q].at \notin {"closed", "open"} <=> lock' = q
                       /\ page'[q].at \in {"closed", "open"} => page'[q].todo = {}
                       /\ \A c \in page'[q].todo : c < next
    BY DEF OneDrains
  <2>1. CASE q = p
    BY <1>1, <2>1
  <2>2. CASE q # p /\ lock \in {p, None} /\ lock' \in {p, None}
    <3>1. page'[q] = page[q] /\ page[q].at \in {"closed", "open"} /\ page[q].todo = {}
      BY <1>1, <2>2, OthersRest
    <3>2. lock' # q
      BY <2>2 DEF OutboxAssumption
    <3>. QED
      BY <3>1, <3>2
  <2>3. CASE q # p /\ lock' = lock
    BY <1>1, <2>3 DEF OutboxInv, OneDrains
  <2>. QED
    BY <2>1, <2>2, <2>3
<1>7. AnswersHold'
  <2>. SUFFICES ASSUME NEW q \in Pages
                PROVE  /\ page'[q].at \in {"sent", "told"} => Names(page'[q].sending, page'[q].row)
                       /\ page'[q].at = "told" =>
                            Answered(page'[q].sending, page'[q].row, page'[q].told, page'[q].seen)
                       /\ page'[q].at = "fetched" => page'[q].seen \in Shown
    BY <1>5, Zenon DEF AnswersHold, Shown, Records
  <2>1. CASE q = p
    BY <1>1, <2>1
  <2>2. CASE q # p
    BY <1>1, <2>2 DEF OutboxInv, AnswersHold
  <2>. QED
    BY <2>1, <2>2
<1>8. InTurn'
  <2>. SUFFICES ASSUME NEW q \in Pages, NEW d \in page'[q].todo, NEW c \in Changes, NEW b \in Books,
                       c < d, Waiting(c, b), c \notin cut
                PROVE  \/ c \in page'[q].todo \/ b \in page'[q].blocked
                       \/ page'[q].at \in {"sent", "told"} /\ page'[q].sending = c
    <3>1. cut' = cut /\ \A c, b : Waiting(c, b)' => Waiting(c, b)
      BY <1>5
    <3>. QED
      BY <3>1, SMT DEF InTurn, Changes
  <2>1. CASE q = p
    BY <1>1, <2>1
  <2>2. CASE q # p
    BY <1>1, <2>2 DEF OutboxInv, InTurn
  <2>. QED
    BY <2>1, <2>2
<1>. QED
  BY <1>3, <1>5, <1>6, <1>7, <1>8 DEF OutboxInv

LEMMA IdleTyped ==
  ASSUME OutboxAssumption, NEW at \in At
  PROVE  Idle(at) \in Drains /\ Idle(at).todo = {} /\ Idle(at).at = at
BY DEF Idle, Drains, Changes, OutboxAssumption

LEMMA BeginStep ==
  ASSUME OutboxAssumption, OutboxInv, NEW p \in Pages, Begin(p)
  PROVE  OutboxInv'
<1>. DEFINE T == {c \in Changes : Pending(c)}
            w == [page[p] EXCEPT !.at = "draining", !.todo = T]
<1>1. page[p] \in Drains
  BY DrainTyped DEF OutboxInv
<1>2. /\ page[p].at = "open" /\ lock = None /\ lock' = p /\ page' = [page EXCEPT ![p] = w]
      /\ UNCHANGED <<rows, next, log, held, gone, cut>> /\ stray' = stray
  BY DEF Begin, Goes, store, server, air, works
<1>3. w.at = "draining" /\ w.todo = T
  BY <1>1 DEF Drains
<1>4. w \in Drains
  <2>1. [page[p] EXCEPT !.at = "draining"] \in Drains
    BY <1>1, DrainUpdated DEF At
  <2>2. [[page[p] EXCEPT !.at = "draining"] EXCEPT !.todo = T] \in Drains
    BY <2>1, DrainUpdated
  <2>. QED
    BY <2>2
<1>5. \A c \in T : c < next
  BY DEF OutboxInv, RowsHold, Pending
<1>6. \A c \in Changes : \A b \in Books : Waiting(c, b) => c \in T
  BY DEF Waiting, Pending
<1>7. stray \subseteq [change : Changes, row : Rows]
  BY DEF OutboxInv, OutboxTyped
<1>. HIDE DEF w, T
<1>. QED
  BY <1>2, <1>3, <1>4, <1>5, <1>6, <1>7, PageMoves

(* What leaves the list of a drain was sent, or its book is held back.     *)
LEMMA SkippedStep ==
  ASSUME OutboxAssumption, OutboxInv, NEW p \in Pages, NEW c \in page[p].todo, page[p].at = "draining",
         \A d \in page[p].todo \ {c} : c < d, ~Sendable(p, c),
         page' = [page EXCEPT ![p] = [page[p] EXCEPT !.todo = page[p].todo \ {c}]],
         UNCHANGED <<rows, next, lock, stray, server, gone, cut>>
  PROVE  OutboxInv'
<1>. DEFINE rest == page[p].todo \ {c}
            w == [page[p] EXCEPT !.todo = rest]
<1>1. page[p] \in Drains /\ page[p].todo \subseteq Changes
  BY DrainTyped DEF OutboxInv
<1>2. w \in Drains
  BY <1>1, DrainUpdated
<1>3. w.at = "draining" /\ w.todo = rest /\ w.blocked = page[p].blocked
  BY <1>1 DEF Drains
<1>4. lock = p /\ \A d \in rest : d < next
  BY DEF OutboxInv, OneDrains
<1>5. \A b \in Books : Waiting(c, b) => b \in page[p].blocked
  BY DEF Sendable, Waiting, Pending, Is
<1>6. \A d \in rest : \A e \in Changes : \A b \in Books :
        e < d /\ Waiting(e, b) /\ e \notin cut => e \in rest \/ b \in page[p].blocked
  BY <1>5 DEF OutboxInv, InTurn
<1>7. stray \subseteq [change : Changes, row : Rows]
  BY DEF OutboxInv, OutboxTyped
<1>8. UNCHANGED <<rows, next, lock, stray, log, held, gone, cut>> /\ page' = [page EXCEPT ![p] = w]
  BY DEF server
<1>. HIDE DEF w, rest
<1>. QED
  BY <1>2, <1>3, <1>4, <1>6, <1>7, <1>8, PageMoves

LEMMA NotNowStep ==
  ASSUME OutboxAssumption, OutboxInv, NEW p \in Pages, NotNow(p)
  PROVE  OutboxInv'
<1>. DEFINE w == [page[p] EXCEPT !.at = "draining", !.blocked = Block(p)]
<1>1. page[p] \in Drains /\ page[p].blocked \subseteq Books
  BY DrainTyped DEF OutboxInv
<1>2. /\ page[p].at = "sent" /\ page' = [page EXCEPT ![p] = w]
      /\ UNCHANGED <<rows, next, lock, stray, log, held, gone, cut>>
  BY DEF NotNow, Goes, store, server, air, works
<1>3. Names(page[p].sending, page[p].row)
  BY <1>2 DEF OutboxInv, AnswersHold
<1>4. Block(p) \subseteq Books /\ page[p].blocked \subseteq Block(p)
  BY <1>1, <1>3 DEF Block, Names, Fits
<1>5. w \in Drains
  <2>1. [page[p] EXCEPT !.at = "draining"] \in Drains
    BY <1>1, DrainUpdated DEF At
  <2>2. [[page[p] EXCEPT !.at = "draining"] EXCEPT !.blocked = Block(p)] \in Drains
    BY <1>4, <2>1, DrainUpdated
  <2>. QED
    BY <2>2
<1>6. w.at = "draining" /\ w.todo = page[p].todo /\ w.blocked = Block(p)
  BY <1>1 DEF Drains
<1>7. lock = p /\ \A d \in page[p].todo : d < next
  BY <1>2 DEF OutboxInv, OneDrains
<1>8. \A b \in Books : Waiting(page[p].sending, b) => b \in Block(p)
  BY <1>3 DEF Waiting, Names, Block
<1>9. \A d \in page[p].todo : \A e \in Changes : \A b \in Books :
        e < d /\ Waiting(e, b) /\ e \notin cut => e \in page[p].todo \/ b \in Block(p)
  BY <1>4, <1>8 DEF OutboxInv, InTurn
<1>10. stray \subseteq [change : Changes, row : Rows]
  BY DEF OutboxInv, OutboxTyped
<1>. HIDE DEF w
<1>. QED
  BY <1>2, <1>5, <1>6, <1>7, <1>9, <1>10, PageMoves

LEMMA FetchStep ==
  ASSUME OutboxAssumption, OutboxInv, NEW p \in Pages, Fetch(p)
  PROVE  OutboxInv'
<1>. DEFINE w == [page[p] EXCEPT !.at = "fetched", !.seen = held]
<1>1. page[p] \in Drains /\ held \in Shown
  BY DrainTyped DEF OutboxInv, OutboxTyped
<1>2. /\ page[p].at = "draining" /\ page[p].todo = {} /\ page' = [page EXCEPT ![p] = w]
      /\ UNCHANGED <<rows, next, lock, stray, log, held, gone, cut>>
  BY DEF Fetch, Goes, store, server, air, works
<1>3. w \in Drains
  <2>1. [page[p] EXCEPT !.at = "fetched"] \in Drains
    BY <1>1, DrainUpdated DEF At
  <2>2. [[page[p] EXCEPT !.at = "fetched"] EXCEPT !.seen = held] \in Drains
    BY <1>1, <2>1, DrainUpdated
  <2>. QED
    BY <2>2
<1>4. w.at = "fetched" /\ w.todo = {} /\ w.seen = held
  BY <1>1, <1>2 DEF Drains
<1>5. lock = p
  BY <1>2 DEF OutboxInv, OneDrains
<1>6. stray \subseteq [change : Changes, row : Rows]
  BY DEF OutboxInv, OutboxTyped
<1>. HIDE DEF w
<1>. QED
  BY <1>1, <1>2, <1>3, <1>4, <1>5, <1>6, PageMoves

LEMMA ReconcileStep ==
  ASSUME OutboxAssumption, OutboxInv, NEW p \in Pages, Reconcile(p)
  PROVE  OutboxInv'
<1>. DEFINE w == [page[p] EXCEPT !.at = "resolving", !.seen = None]
<1>1. page[p] \in Drains
  BY DrainTyped DEF OutboxInv
<1>2. /\ page[p].at = "fetched" /\ page' = [page EXCEPT ![p] = w]
      /\ UNCHANGED <<rows, next, lock, stray, log, held, gone, cut>>
  BY DEF Reconcile, Goes, server, air, works
<1>3. w \in Drains
  <2>1. [page[p] EXCEPT !.at = "resolving"] \in Drains
    BY <1>1, DrainUpdated DEF At
  <2>2. [[page[p] EXCEPT !.at = "resolving"] EXCEPT !.seen = None] \in Drains
    BY <2>1, DrainUpdated
  <2>. QED
    BY <2>2
<1>4. w.at = "resolving" /\ w.todo = page[p].todo /\ w.blocked = page[p].blocked
  BY <1>1 DEF Drains
<1>5. lock = p /\ \A d \in page[p].todo : d < next
  BY <1>2 DEF OutboxInv, OneDrains
<1>6. stray \subseteq [change : Changes, row : Rows]
  BY DEF OutboxInv, OutboxTyped
<1>7. \A d \in page[p].todo : \A e \in Changes : \A b \in Books :
        e < d /\ Waiting(e, b) /\ e \notin cut => e \in page[p].todo \/ b \in page[p].blocked
  BY <1>2 DEF OutboxInv, InTurn
<1>. HIDE DEF w
<1>. QED
  BY <1>2, <1>3, <1>4, <1>5, <1>6, <1>7, PageMoves

(* A page that ends its pass, opens or closes leaves at most the request   *)
(* it was sending.                                                         *)
LEMMA IdleStep ==
  ASSUME OutboxAssumption, OutboxInv, NEW p \in Pages, NEW at \in {"open", "closed"},
         page' = [page EXCEPT ![p] = Idle(at)], UNCHANGED <<rows, next, server, gone, cut>>,
         \/ lock = p /\ lock' = None
         \/ lock # p /\ lock' = lock,
         \/ stray' = stray
         \/ page[p].at = "sent" /\ stray' = stray \cup {[change |-> page[p].sending, row |-> page[p].row]}
  PROVE  OutboxInv'
<1>. DEFINE w == Idle(at)
<1>1. w \in Drains /\ w.todo = {} /\ w.at = at /\ at \in At
  BY IdleTyped DEF At
<1>2. lock' # p /\ (\/ lock \in {p, None} /\ lock' \in {p, None}
                    \/ lock' = lock /\ page[p].at \in {"closed", "open"})
  BY DEF OutboxAssumption, OutboxInv, OneDrains
<1>3. stray' \subseteq [change : Changes, row : Rows]
  BY DEF OutboxInv, OutboxTyped, AnswersHold, Names
<1>4. \A q \in stray' \ stray :
        page[p].at = "sent" /\ q = [change |-> page[p].sending, row |-> page[p].row]
  OBVIOUS
<1>5. UNCHANGED <<rows, next, log, held, gone, cut>> /\ page' = [page EXCEPT ![p] = w]
  BY DEF server
<1>. HIDE DEF w
<1>. QED
  BY <1>1, <1>2, <1>3, <1>4, <1>5, PageMoves

LEMMA IdleSteps ==
  ASSUME OutboxAssumption, OutboxInv, NEW p \in Pages,
         EndPass(p) \/ Throw(p) \/ OpenPage(p) \/ ClosePage(p)
  PROVE  OutboxInv'
<1>0. \A at \in {"draining", "sent", "told", "fetched", "resolving"} : page[p].at = at => lock = p
  BY DEF OutboxInv, OneDrains
<1>1. CASE EndPass(p)
  BY <1>0, <1>1, IdleStep DEF EndPass, Goes, store, air, works
<1>2. CASE Throw(p)
  BY <1>0, <1>2, IdleStep DEF Throw, Goes, store, works
<1>3. CASE OpenPage(p)
  <2>1. lock # p
    BY <1>3 DEF OpenPage, OutboxInv, OneDrains
  <2>. QED
    BY <1>3, <2>1, IdleStep DEF OpenPage, Goes, store, air, works
<1>4. CASE ClosePage(p)
  BY <1>4, IdleStep DEF ClosePage, Goes, store, works
<1>. QED
  BY <1>1, <1>2, <1>3, <1>4

-----------------------------------------------------------------------------
(* A request is sent in turn: no page turn of its book waits before it.    *)
LEMMA SentStep ==
  ASSUME OutboxAssumption, OutboxInv, NEW p \in Pages, NEW c \in page[p].todo, page[p].at = "draining",
         \A d \in page[p].todo \ {c} : c < d, Sendable(p, c),
         rows' = [rows EXCEPT ![c].attempted = TRUE],
         page' = [page EXCEPT ![p] = [page[p] EXCEPT !.at = "sent", !.todo = page[p].todo \ {c},
                                                     !.sending = c, !.row = rows'[c]]],
         UNCHANGED <<next, lock, stray, server, gone, cut>>
  PROVE  OutboxInv'
<1>0. PICK r : r = [rows[c] EXCEPT !.attempted = TRUE]
  OBVIOUS
<1>. DEFINE rest == page[p].todo \ {c}
            w == [page[p] EXCEPT !.at = "sent", !.todo = rest, !.sending = c, !.row = r]
<1>1. page[p] \in Drains /\ page[p].todo \subseteq Changes /\ c \in Changes /\ c < next
  BY DrainTyped DEF OutboxInv, OneDrains
<1>2. rows \in [Changes -> Rows \cup {None}] /\ rows[c] \in Rows /\ rows[c] # None /\ rows[c].state = "pending"
  BY <1>1 DEF OutboxInv, OutboxTyped, Sendable, Pending
<1>3. /\ r \in Rows /\ r.kind = rows[c].kind /\ r.of = rows[c].of /\ r.state = rows[c].state
      /\ r.server = rows[c].server /\ r # None
  <2>1. r \in Rows
    BY <1>0, <1>2, RowUpdated
  <2>2. r # None
    BY <2>1 DEF OutboxAssumption
  <2>. QED
    BY <1>0, <1>2, <2>1, <2>2 DEF Rows
<1>4. rows'[c] = r /\ \A d \in Changes \ {c} : rows'[d] = rows[d]
  BY <1>0, <1>1, <1>2
<1>5. page'[p] = w /\ \A q \in Pages \ {p} : page'[q] = page[q]
  BY <1>4 DEF OutboxInv, OutboxTyped
<1>6. w \in Drains
  <2>1. [page[p] EXCEPT !.at = "sent"] \in Drains
    BY <1>1, DrainUpdated DEF At
  <2>2. [[page[p] EXCEPT !.at = "sent"] EXCEPT !.todo = rest] \in Drains
    BY <1>1, <2>1, DrainUpdated
  <2>3. [[[page[p] EXCEPT !.at = "sent"] EXCEPT !.todo = rest] EXCEPT !.sending = c] \in Drains
    BY <1>1, <2>2, DrainUpdated
  <2>4. [[[[page[p] EXCEPT !.at = "sent"] EXCEPT !.todo = rest] EXCEPT !.sending = c] EXCEPT !.row = r] \in Drains
    BY <1>3, <2>3, DrainUpdated
  <2>. QED
    BY <2>4
<1>7. w.at = "sent" /\ w.todo = rest /\ w.sending = c /\ w.row = r /\ w.blocked = page[p].blocked
  BY <1>1 DEF Drains
<1>8. UNCHANGED <<next, lock, stray, log, held, gone, cut>>
  BY DEF server
<1>9. lock = p /\ \A q \in Pages \ {p} : page[q].at \in {"closed", "open"} /\ page[q].todo = {}
  BY OthersRest DEF OutboxInv, OneDrains
<1>. HIDE DEF w
<1>10. OutboxTyped'
  <2>1. rows' \in [Changes -> Rows \cup {None}]
    BY <1>0, <1>2, <1>3
  <2>2. page' \in [Pages -> Drains]
    BY <1>4, <1>6 DEF OutboxInv, OutboxTyped, w
  <2>. QED
    BY <1>8, <2>1, <2>2 DEF OutboxInv, OutboxTyped, Shown, Drains
<1>11. RowsHold'
  <2>. SUFFICES ASSUME NEW d \in Changes, rows'[d] # None
                PROVE  /\ d < next /\ Fits(rows'[d])
                       /\ rows'[d].kind = "page" /\ rows'[d].state # "pending" => rows'[d].of \in gone
                       /\ rows'[d].kind # "page" /\ rows'[d].state = "conflict" => rows'[d].server \in Records
    BY <1>8 DEF RowsHold, Changes, Fits
  <2>1. CASE d = c
    BY <1>1, <1>2, <1>3, <1>4, <2>1 DEF OutboxInv, RowsHold, Fits
  <2>2. CASE d # c
    BY <1>4, <2>2 DEF OutboxInv, RowsHold
  <2>. QED
    BY <2>1, <2>2
<1>12. OneDrains'
  BY <1>5, <1>7, <1>8, <1>9 DEF OutboxInv, OneDrains
<1>13. Names(c, r)' /\ \A d, s : Names(d, s) => Names(d, s)'
  <2>1. Fits(r)
    BY <1>1, <1>2, <1>3 DEF OutboxInv, RowsHold, Fits
  <2>2. Names(c, r)'
    BY <1>1, <1>3, <1>4, <1>8, <2>1 DEF Names, Fits, Changes
  <2>3. ASSUME NEW d, NEW s, Names(d, s) PROVE Names(d, s)'
    BY <1>2, <1>3, <1>4, <1>8, <2>3 DEF Names, Fits, Changes
  <2>. QED
    BY <2>2, <2>3
<1>14. AnswersHold'
  <2>1. \A q \in Pages \ {p} : page'[q].at \in {"closed", "open"}
    BY <1>5, <1>9
  <2>2. page'[p].at = "sent"
    BY <1>5, <1>7
  <2>3. Names(page[p].sending, page[p].row)'
    BY <1>5, <1>7, <1>13 DEF Names
  <2>. QED
    BY <2>1, <2>2, <2>3 DEF AnswersHold
<1>15. LogHolds'
  BY <1>8 DEF OutboxInv, LogHolds, PagesInOrder
<1>16. \A d, b : Taken(d, b)' = Taken(d, b)
  BY <1>8 DEF Taken
<1>17. \A d \in Changes : \A b : Waiting(d, b)' = Waiting(d, b)
  <2>. SUFFICES ASSUME NEW d \in Changes, NEW b PROVE Waiting(d, b)' = Waiting(d, b)
    OBVIOUS
  <2>1. CASE d = c
    BY <1>2, <1>3, <1>4, <1>8, <1>16, <2>1 DEF Waiting
  <2>2. CASE d # c
    BY <1>4, <1>8, <1>16, <2>2 DEF Waiting
  <2>. QED
    BY <2>1, <2>2
<1>18. \A d, s : Asked(d, s)' => Asked(d, s) \/ (d = c /\ s = r)
  BY <1>5, <1>7, <1>8 DEF Asked
<1>19. r.kind = "page" /\ r.of \notin gone => Taken(c, r.of) \/ Waiting(c, r.of)
  BY <1>2, <1>3 DEF Waiting
<1>20. AskedIsKnown'
  <2>. SUFFICES ASSUME NEW d \in Changes, NEW s \in Rows, Asked(d, s)'
                PROVE  Names(d, s)' /\ (s.kind = "page" /\ s.of \notin gone => Taken(d, s.of)' \/ Waiting(d, s.of)')
    BY <1>8 DEF AskedIsKnown, Changes, Rows, Records
  <2>0. \A b : (Taken(d, b) => Taken(d, b)') /\ (Waiting(d, b) => Waiting(d, b)')
    BY <1>16, <1>17
  <2>1. CASE Asked(d, s)
    <3>1. Names(d, s) /\ (s.kind = "page" /\ s.of \notin gone => Taken(d, s.of) \/ Waiting(d, s.of))
      BY <2>1 DEF OutboxInv, AskedIsKnown
    <3>. QED
      BY <1>13, <2>0, <3>1
  <2>2. CASE d = c /\ s = r
    BY <1>13, <1>19, <2>0, <2>2
  <2>. QED
    BY <1>18, <2>1, <2>2
<1>21. NoneOvertakes'
  <2>. SUFFICES ASSUME NEW e \in Changes, NEW d \in Changes, NEW b \in Books,
                       e < d, Waiting(e, b), e \notin cut, Launched(d, b)'
                PROVE  FALSE
    BY <1>8, <1>17, SMT DEF NoneOvertakes, Changes
  <2>1. ~Launched(d, b)
    BY DEF OutboxInv, NoneOvertakes
  <2>2. d = c /\ r.kind = "page" /\ r.of = b
    BY <1>16, <1>18, <2>1 DEF Launched
  <2>3. b \notin page[p].blocked
    BY <1>2, <1>3, <2>2 DEF Sendable, Is
  <2>4. e \in page[p].todo
    BY <2>2, <2>3 DEF OutboxInv, InTurn
  <2>5. e \in Int /\ d \in Int
    BY ChangesAreInt DEF OutboxInv
  <2>6. e # c /\ c < e
    BY <2>2, <2>4, <2>5
  <2>. QED
    BY <2>2, <2>5, <2>6
<1>22. InTurn'
  <2>. SUFFICES ASSUME NEW q \in Pages, NEW d \in page'[q].todo, NEW e \in Changes, NEW b \in Books,
                       e < d, Waiting(e, b), e \notin cut
                PROVE  \/ e \in page'[q].todo \/ b \in page'[q].blocked
                       \/ page'[q].at \in {"sent", "told"} /\ page'[q].sending = e
    BY <1>8, <1>17, SMT DEF InTurn, Changes
  <2>1. q = p /\ d \in rest
    BY <1>5, <1>7, <1>9
  <2>2. e \in page[p].todo \/ b \in page[p].blocked
    BY <2>1 DEF OutboxInv, InTurn
  <2>. QED
    BY <1>5, <1>7, <2>1, <2>2
<1>. QED
  BY <1>10, <1>11, <1>12, <1>14, <1>15, <1>20, <1>21, <1>22 DEF OutboxInv

LEMMA AttemptStep ==
  ASSUME OutboxAssumption, OutboxInv, NEW p \in Pages, Attempt(p)
  PROVE  OutboxInv'
<1>1. PICK c \in page[p].todo :
        /\ page[p].at = "draining" /\ \A d \in page[p].todo \ {c} : c < d
        /\ IF Sendable(p, c)
           THEN /\ rows' = [rows EXCEPT ![c].attempted = TRUE]
                /\ page' = [page EXCEPT ![p] = [page[p] EXCEPT !.at = "sent", !.todo = page[p].todo \ {c},
                                                               !.sending = c, !.row = rows'[c]]]
           ELSE rows' = rows /\ page' = [page EXCEPT ![p] = [page[p] EXCEPT !.todo = page[p].todo \ {c}]]
        /\ UNCHANGED <<next, lock, stray, server, gone, cut>>
  BY Zenon DEF Attempt, Goes, bounds, air, works
<1>2. CASE Sendable(p, c)
  BY <1>1, <1>2, SentStep
<1>3. CASE ~Sendable(p, c)
  BY <1>1, <1>3, SkippedStep
<1>. QED
  BY <1>2, <1>3

-----------------------------------------------------------------------------
(* A request reaches the server, from its page or after it.                *)
LEMMA AnswersAre ==
  ASSUME NEW c \in Changes, NEW r \in Rows, Fits(r), held \in Shown
  PROVE  /\ AnswerTo(c, r) \in Answers
         /\ r.kind = "page" =>
              /\ AnswerTo(c, r) \notin {"conflict"}
              /\ r.of \notin gone /\ ~r.big => AnswerTo(c, r) = IF Taken(c, r.of) THEN "duplicate" ELSE "applied"
              /\ r.of \notin gone /\ r.big => AnswerTo(c, r) = "too large"
              /\ AnswerTo(c, r) = "applied" => r.of \notin gone /\ ~Taken(c, r.of)
         /\ r.kind # "page" => r.of \in Notes /\ (AnswerTo(c, r) = "conflict" => held[r.of] \in Records)
<1>. USE DEF Answers
<1>1. CASE r.kind = "page"
  BY <1>1 DEF AnswerTo, PageAnswer, Rows
<1>2. CASE r.kind # "page"
  <2>. DEFINE h == held[r.of]
  <2>1. r.of \in Notes /\ r.kind \in {"write", "erase"} /\ h \in Records \cup {None}
    BY <1>2 DEF Fits, Rows, Shown
  <2>2. AnswerTo(c, r) = NoteAnswer(c, r)
    BY <1>2 DEF AnswerTo
  <2>3. CASE r.kind = "write"
    BY <2>1, <2>2, <2>3, <1>2 DEF NoteAnswer, Stale
  <2>4. CASE r.kind = "erase"
    BY <2>1, <2>2, <2>4, <1>2 DEF NoteAnswer, Stale
  <2>. QED
    BY <2>1, <2>3, <2>4
<1>. QED
  BY <1>1, <1>2

LEMMA AppendedSequences ==
  ASSUME NEW S, NEW s \in Seq(S), NEW e \in S
  PROVE  Append(s, e) \in Seq(S)
OBVIOUS

LEMMA EntryIs ==
  ASSUME log \in Seq([change : Changes, of : Books]), NEW i \in 1..Len(log)
  PROVE  log[i] = [change |-> log[i].change, of |-> log[i].of]
<1>1. log[i] \in [change : Changes, of : Books]
  BY MembersOfSequences
<1>2. \A e \in [change : Changes, of : Books] : e = [change |-> e.change, of |-> e.of]
  OBVIOUS
<1>. QED
  BY <1>1, <1>2

LEMMA Delivered ==
  ASSUME OutboxAssumption, OutboxInv, NEW c \in Changes, NEW r \in Rows, Asked(c, r), Done(c, r),
         NEW told, told = AnswerTo(c, r), NEW seen, seen = IF r.kind = "page" THEN None ELSE held'[r.of],
         UNCHANGED <<rows, next, gone, cut>>, \A d, s : Asked(d, s)' => Asked(d, s)
  PROVE  /\ log' \in Seq([change : Changes, of : Books]) /\ held' \in Shown
         /\ RowsHold' /\ LogHolds' /\ AskedIsKnown' /\ NoneOvertakes'
         /\ \A d, b : Waiting(d, b)' => Waiting(d, b)
         /\ \A d, s : Names(d, s)' = Names(d, s)
         /\ \A d, s, t, u : Answered(d, s, t, u) => Answered(d, s, t, u)'
         /\ Names(c, r)
         /\ Answered(c, r, told, seen)'
<1>. DEFINE E == [change |-> c, of |-> r.of]
<1>1. /\ Names(c, r) /\ Fits(r) /\ c < next /\ held \in Shown
      /\ r.kind = "page" /\ r.of \notin gone => Taken(c, r.of) \/ Waiting(c, r.of)
  BY DEF OutboxInv, AskedIsKnown, Names, OutboxTyped
<1>2. /\ told \in Answers
      /\ r.kind = "page" =>
           /\ told \notin {"conflict"}
           /\ r.of \notin gone /\ ~r.big => told = IF Taken(c, r.of) THEN "duplicate" ELSE "applied"
           /\ r.of \notin gone /\ r.big => told = "too large"
           /\ told = "applied" => r.of \notin gone /\ ~Taken(c, r.of)
      /\ r.kind # "page" => r.of \in Notes /\ (told = "conflict" => held[r.of] \in Records)
  BY <1>1, AnswersAre
<1>3. /\ log' = IF told = "applied" /\ r.kind = "page" THEN Append(log, E) ELSE log
      /\ held' = IF told = "applied" /\ r.kind # "page"
                 THEN [held EXCEPT ![r.of] =
                         [rev |-> IF @ = None THEN 1 ELSE r.base + 1, by |-> c, dead |-> r.kind = "erase"]]
                 ELSE held
  BY DEF Done
<1>4. log \in Seq([change : Changes, of : Books]) /\ (r.kind = "page" => E \in [change : Changes, of : Books])
  BY <1>1 DEF OutboxInv, OutboxTyped, Fits
<1>5. log' \in Seq([change : Changes, of : Books])
  BY <1>3, <1>4, AppendedSequences
<1>6. held' \in Shown
  <2>1. CASE told = "applied" /\ r.kind # "page"
    <3>1. c \in Nat /\ r.base \in Nat
      BY DEF Rows, Changes
    <3>2. [rev |-> IF held[r.of] = None THEN 1 ELSE r.base + 1, by |-> c, dead |-> r.kind = "erase"] \in Records
      BY <3>1 DEF Records
    <3>. QED
      BY <1>1, <1>2, <1>3, <2>1, <3>2 DEF Shown
  <2>. QED
    BY <1>1, <1>3, <2>1
<1>7. told = "conflict" => r.kind # "page" /\ held'[r.of] = held[r.of] /\ held[r.of] \in Records
  BY <1>2, <1>3
<1>8. CASE ~(told = "applied" /\ r.kind = "page")
  <2>1. log' = log
    BY <1>3, <1>8
  <2>2. /\ RowsHold' /\ LogHolds' /\ AskedIsKnown' /\ NoneOvertakes'
        /\ \A d, b : Waiting(d, b)' = Waiting(d, b)
        /\ \A d, s : Names(d, s)' = Names(d, s)
        /\ \A d, s, t, u : Answered(d, s, t, u)' = Answered(d, s, t, u)
    BY <2>1, NothingIsAsked
  <2>3. seen \in Records \cup {None}
    BY <1>2, <1>6 DEF Shown
  <2>4. Answered(c, r, told, seen)
    BY <1>2, <1>7, <1>8, <2>3 DEF Answered
  <2>. QED
    BY <1>1, <1>5, <1>6, <2>2, <2>4 DEF Answered
<1>9. CASE told = "applied" /\ r.kind = "page"
  <2>1. log' = Append(log, E) /\ held' = held /\ r.of \in Books /\ r.of \notin gone /\ ~Taken(c, r.of)
    BY <1>1, <1>2, <1>3, <1>9 DEF Fits
  <2>2. Waiting(c, r.of)
    BY <1>1, <1>9, <2>1
  <2>3. /\ DOMAIN log' = 1..(Len(log) + 1) /\ DOMAIN log = 1..Len(log) /\ Len(log) \in Nat
        /\ log'[Len(log) + 1] = E /\ \A i \in DOMAIN log : log'[i] = log[i]
    <3>. HIDE DEF E
    <3>. QED
      BY <1>4, <1>9, <2>1
  <2>4. \A d, b : Taken(d, b)' <=> Taken(d, b) \/ (d = c /\ b = r.of)
    <3>. SUFFICES ASSUME NEW d, NEW b PROVE Taken(d, b)' <=> Taken(d, b) \/ (d = c /\ b = r.of)
      OBVIOUS
    <3>1. Taken(d, b) => Taken(d, b)'
      BY <2>3 DEF Taken
    <3>2. d = c /\ b = r.of => Taken(d, b)'
      BY <2>3 DEF Taken
    <3>3. Taken(d, b)' => Taken(d, b) \/ (d = c /\ b = r.of)
      BY <2>3 DEF Taken
    <3>. QED
      BY <3>1, <3>2, <3>3
  <2>5. \A d, b : Waiting(d, b)' <=> Waiting(d, b) /\ ~(d = c /\ b = r.of)
    BY <2>4 DEF Waiting
  <2>6. RowsHold' /\ \A d, s : Names(d, s)' = Names(d, s)
    BY DEF OutboxInv, RowsHold, Names
  <2>7. \A d, s, t, u : Answered(d, s, t, u) => Answered(d, s, t, u)'
    BY <2>4 DEF Answered
  <2>8. Answered(c, r, told, seen)'
    BY <1>2, <1>9, <2>4 DEF Answered
  <2>9. LogHolds'
    <3>1. \A i \in DOMAIN log' : log'[i].change < next
      BY <1>1, <2>3 DEF OutboxInv, LogHolds
    <3>2. ASSUME NEW i \in DOMAIN log, log[i].of = r.of PROVE log[i].change < c \/ c \in cut
      <4>1. log[i].change \in Changes /\ log[i].of \in Books /\ log[i].change \in Int /\ c \in Int
        BY EntryTyped, ChangesAreInt DEF OutboxInv
      <4>2. Taken(log[i].change, r.of)
        <5>1. log[i] = [change |-> log[i].change, of |-> r.of]
          BY <1>4, <2>3, <3>2, EntryIs
        <5>. QED
          BY <5>1 DEF Taken
      <4>3. log[i].change # c
        BY <2>1, <4>2
      <4>4. ~(c < log[i].change /\ c \notin cut)
        BY <2>1, <2>2, <4>1, <4>2 DEF OutboxInv, NoneOvertakes, Launched
      <4>. QED
        BY <4>1, <4>3, <4>4
    <3>3. ASSUME NEW i \in DOMAIN log', NEW j \in DOMAIN log', i < j, log'[i].of = log'[j].of
          PROVE  log'[i].change < log'[j].change \/ log'[j].change \in cut
      <4>1. i \in DOMAIN log /\ (j \in DOMAIN log \/ j = Len(log) + 1)
        BY <2>3, <3>3
      <4>2. CASE j \in DOMAIN log
        BY <2>3, <3>3, <4>1, <4>2 DEF OutboxInv, LogHolds, PagesInOrder
      <4>3. CASE j = Len(log) + 1
        BY <2>3, <3>2, <3>3, <4>1, <4>3
      <4>. QED
        BY <4>1, <4>2, <4>3
    <3>4. PagesInOrder'
      BY <3>3 DEF PagesInOrder
    <3>. QED
      BY <3>1, <3>4 DEF LogHolds
  <2>10. AskedIsKnown'
    <3>. SUFFICES ASSUME NEW d \in Changes, NEW s \in Rows, Asked(d, s)'
                  PROVE  Names(d, s)' /\ (s.kind = "page" /\ s.of \notin gone => Taken(d, s.of)' \/ Waiting(d, s.of)')
      BY DEF AskedIsKnown, Changes, Rows, Records
    <3>1. Names(d, s) /\ (s.kind = "page" /\ s.of \notin gone => Taken(d, s.of) \/ Waiting(d, s.of))
      BY DEF OutboxInv, AskedIsKnown
    <3>. QED
      BY <2>4, <2>5, <2>6, <3>1
  <2>11. NoneOvertakes'
    <3>1. \A d \in Changes : \A b \in Books : Launched(d, b)' => Launched(d, b)
      BY <1>9, <2>4 DEF Launched
    <3>. QED
      BY <2>5, <3>1, NothingNewIsLaunched
  <2>. QED
    BY <1>1, <1>5, <1>6, <1>9, <2>5, <2>6, <2>7, <2>8, <2>9, <2>10, <2>11 DEF Answered
<1>. QED
  BY <1>8, <1>9

LEMMA ArrivesStep ==
  ASSUME OutboxAssumption, OutboxInv, NEW q \in stray, Arrives(q)
  PROVE  OutboxInv'
<1>1. PICK c \in Changes, r \in Rows : q = [change |-> c, row |-> r]
  BY DEF OutboxInv, OutboxTyped
<1>2. PICK told, seen : told = AnswerTo(c, r) /\ seen = IF r.kind = "page" THEN None ELSE held'[r.of]
  OBVIOUS
<1>3. /\ Done(c, r) /\ stray' = stray \ {q}
      /\ UNCHANGED <<rows, next, page, lock, gone, cut>>
  BY <1>1 DEF Arrives, store, works
<1>4. Asked(c, r) /\ \A d, s : Asked(d, s)' => Asked(d, s)
  BY <1>1, <1>3 DEF Asked
<1>5. /\ log' \in Seq([change : Changes, of : Books]) /\ held' \in Shown
      /\ RowsHold' /\ LogHolds' /\ AskedIsKnown' /\ NoneOvertakes'
      /\ \A d, b : Waiting(d, b)' => Waiting(d, b)
      /\ \A d, s : Names(d, s)' = Names(d, s)
      /\ \A d, s, t, u : Answered(d, s, t, u) => Answered(d, s, t, u)'
  BY <1>2, <1>3, <1>4, Delivered
<1>6. OutboxTyped'
  BY <1>3, <1>5 DEF OutboxInv, OutboxTyped, Drains, Shown
<1>7. OneDrains'
  BY <1>3 DEF OutboxInv, OneDrains
<1>8. AnswersHold'
  <2>1. \A p \in Pages : page[p].at \in {"sent", "told"} => Names(page[p].sending, page[p].row)'
    BY <1>3 DEF OutboxInv, AnswersHold, Names
  <2>2. \A p \in Pages : page[p].at = "told" =>
           Answered(page[p].sending, page[p].row, page[p].told, page[p].seen)'
    <3>. TAKE p \in Pages
    <3>1. PICK d, s, t, u : d = page[p].sending /\ s = page[p].row /\ t = page[p].told /\ u = page[p].seen
      OBVIOUS
    <3>2. page[p].at = "told" => Answered(d, s, t, u)
      BY <3>1 DEF OutboxInv, AnswersHold
    <3>3. page[p].at = "told" => Answered(d, s, t, u)'
      BY <1>5, <3>2
    <3>. QED
      BY <1>3, <3>1, <3>3 DEF Answered
  <2>. QED
    BY <1>3, <2>1, <2>2 DEF OutboxInv, AnswersHold, Shown
<1>9. InTurn'
  BY <1>3, <1>5 DEF OutboxInv, InTurn
<1>. QED
  BY <1>5, <1>6, <1>7, <1>8, <1>9 DEF OutboxInv

LEMMA ServeStep ==
  ASSUME OutboxAssumption, OutboxInv, NEW p \in Pages, Serve(p)
  PROVE  OutboxInv'
<1>1. PICK c, r : c = page[p].sending /\ r = page[p].row
  OBVIOUS
<1>2. PICK told, seen : told = AnswerTo(c, r) /\ seen = IF r.kind = "page" THEN None ELSE held'[r.of]
  OBVIOUS
<1>. DEFINE w == [page[p] EXCEPT !.at = "told", !.told = told, !.seen = seen]
<1>3. /\ page[p].at = "sent" /\ Done(c, r) /\ page' = [page EXCEPT ![p] = w]
      /\ UNCHANGED <<rows, next, lock, stray, gone, cut>>
  BY <1>1, <1>2 DEF Serve, Goes, store, air, works
<1>4. Names(c, r) /\ c \in Changes /\ r \in Rows /\ Asked(c, r)
  BY <1>1, <1>3 DEF OutboxInv, AnswersHold, Names, Asked
<1>5. page[p] \in Drains /\ lock = p
  BY <1>3, DrainTyped DEF OutboxInv, OneDrains
<1>6. /\ page'[p] = w /\ \A q \in Pages \ {p} : page'[q] = page[q]
      /\ \A q \in Pages \ {p} : page'[q].at \in {"closed", "open"} /\ page'[q].todo = {}
  <2>1. page'[p] = w /\ \A q \in Pages \ {p} : page'[q] = page[q]
    BY <1>3 DEF OutboxInv, OutboxTyped
  <2>. QED
    BY <1>5, <2>1, OthersRest
<1>7. /\ w.at = "told" /\ w.told = told /\ w.seen = seen /\ w.todo = page[p].todo
      /\ w.blocked = page[p].blocked /\ w.sending = c /\ w.row = r
  BY <1>1, <1>5 DEF Drains
<1>8. \A d, s : Asked(d, s)' => Asked(d, s)
  <2>. HIDE DEF w
  <2>. QED
    BY <1>3, <1>6, <1>7 DEF Asked
<1>9. /\ log' \in Seq([change : Changes, of : Books]) /\ held' \in Shown
      /\ RowsHold' /\ LogHolds' /\ AskedIsKnown' /\ NoneOvertakes'
      /\ \A d, b : Waiting(d, b)' => Waiting(d, b)
      /\ \A d, s : Names(d, s)' = Names(d, s)
      /\ Answered(c, r, told, seen)'
  BY <1>2, <1>3, <1>4, <1>8, Delivered
<1>10. w \in Drains
  <2>1. told \in Answers /\ seen \in Records \cup {None}
    BY <1>9 DEF Answered
  <2>2. [page[p] EXCEPT !.at = "told"] \in Drains
    BY <1>5, DrainUpdated DEF At
  <2>3. [[page[p] EXCEPT !.at = "told"] EXCEPT !.told = told] \in Drains
    BY <2>1, <2>2, DrainUpdated
  <2>4. [[[page[p] EXCEPT !.at = "told"] EXCEPT !.told = told] EXCEPT !.seen = seen] \in Drains
    BY <2>1, <2>3, DrainUpdated
  <2>. QED
    BY <2>4
<1>. HIDE DEF w
<1>11. OutboxTyped'
  BY <1>3, <1>9, <1>10 DEF OutboxInv, OutboxTyped, Shown, Drains
<1>12. OneDrains'
  <2>1. \A d \in page[p].todo : d < next
    BY DEF OutboxInv, OneDrains
  <2>2. lock' = p /\ next' = next
    BY <1>3, <1>5
  <2>. QED
    BY <1>6, <1>7, <2>1, <2>2 DEF OneDrains
<1>13. AnswersHold'
  <2>1. \A q \in Pages \ {p} : page'[q].at \in {"closed", "open"}
    BY <1>6
  <2>2. page'[p].at = "told"
    BY <1>6, <1>7
  <2>3. Names(page[p].sending, page[p].row)'
    BY <1>3, <1>4, <1>6, <1>7 DEF Names
  <2>4. Answered(page[p].sending, page[p].row, page[p].told, page[p].seen)'
    BY <1>6, <1>7, <1>9 DEF Answered
  <2>. QED
    BY <2>1, <2>2, <2>3, <2>4 DEF AnswersHold
<1>14. InTurn'
  <2>. SUFFICES ASSUME NEW q \in Pages, NEW d \in page'[q].todo, NEW e \in Changes, NEW b \in Books,
                       e < d, Waiting(e, b)', e \notin cut
                PROVE  \/ e \in page'[q].todo \/ b \in page'[q].blocked
                       \/ page'[q].at \in {"sent", "told"} /\ page'[q].sending = e
    BY <1>3 DEF InTurn, Changes, Waiting, Taken
  <2>1. q = p /\ d \in page[p].todo
    BY <1>6, <1>7
  <2>2. Waiting(e, b)
    BY <1>9
  <2>3. e \in page[p].todo \/ b \in page[p].blocked \/ page[p].sending = e
    BY <2>1, <2>2 DEF OutboxInv, InTurn
  <2>. QED
    BY <1>1, <1>6, <1>7, <2>1, <2>3
<1>. QED
  BY <1>9, <1>11, <1>12, <1>13, <1>14 DEF OutboxInv

LEMMA OtherDeletesStep ==
  ASSUME OutboxAssumption, OutboxInv, NEW b \in Books \cup Notes, OtherDeletes(b)
  PROVE  OutboxInv'
<1>1. /\ gone' = gone \cup {b}
      /\ UNCHANGED <<rows, next, page, lock, stray, log, cut>> /\ held' \in Shown
  BY DEF OtherDeletes, store, air, OutboxInv, OutboxTyped, Shown
<1>2. /\ \A d, s : Names(d, s)' = Names(d, s)
      /\ \A d, s : Asked(d, s)' = Asked(d, s)
      /\ \A d, k : Taken(d, k)' = Taken(d, k)
      /\ \A d, k : Waiting(d, k)' <=> Waiting(d, k) /\ k # b
  BY <1>1 DEF Names, Asked, Taken, Waiting
<1>3. \A d, s, t, u : Answered(d, s, t, u) => Answered(d, s, t, u)'
  BY <1>1 DEF Answered, Taken
<1>4. OutboxTyped'
  BY <1>1 DEF OutboxInv, OutboxTyped, Shown, Drains
<1>5. RowsHold' /\ LogHolds' /\ OneDrains'
  <2>1. RowsHold'
    BY <1>1 DEF OutboxInv, RowsHold
  <2>2. LogHolds'
    BY <1>1 DEF OutboxInv, LogHolds, PagesInOrder
  <2>3. OneDrains'
    BY <1>1 DEF OutboxInv, OneDrains
  <2>. QED
    BY <2>1, <2>2, <2>3
<1>6. AnswersHold'
  <2>1. \A p \in Pages : page[p].at \in {"sent", "told"} => Names(page[p].sending, page[p].row)'
    BY <1>1 DEF OutboxInv, AnswersHold, Names
  <2>2. \A p \in Pages : page[p].at = "told" =>
           Answered(page[p].sending, page[p].row, page[p].told, page[p].seen)'
    <3>. TAKE p \in Pages
    <3>1. PICK d, s, t, u : d = page[p].sending /\ s = page[p].row /\ t = page[p].told /\ u = page[p].seen
      OBVIOUS
    <3>2. page[p].at = "told" => Answered(d, s, t, u)
      BY <3>1 DEF OutboxInv, AnswersHold
    <3>3. page[p].at = "told" => Answered(d, s, t, u)'
      BY <1>3, <3>2
    <3>. QED
      BY <1>1, <3>1, <3>3 DEF Answered
  <2>. QED
    BY <1>1, <2>1, <2>2 DEF OutboxInv, AnswersHold, Shown
<1>7. AskedIsKnown'
  <2>. SUFFICES ASSUME NEW d \in Changes, NEW s \in Rows, Asked(d, s)'
                PROVE  Names(d, s)' /\ (s.kind = "page" /\ s.of \notin gone' => Taken(d, s.of)' \/ Waiting(d, s.of)')
    BY DEF AskedIsKnown, Changes, Rows, Records
  <2>1. Names(d, s) /\ (s.kind = "page" /\ s.of \notin gone => Taken(d, s.of) \/ Waiting(d, s.of))
    BY <1>2 DEF OutboxInv, AskedIsKnown
  <2>. QED
    BY <1>1, <1>2, <2>1
<1>8. NoneOvertakes'
  <2>1. \A d \in Changes : \A k \in Books : Launched(d, k)' => Launched(d, k)
    BY <1>2 DEF Launched
  <2>. QED
    BY <1>1, <1>2, <2>1, NothingNewIsLaunched
<1>9. InTurn'
  BY <1>1, <1>2 DEF OutboxInv, InTurn
<1>. QED
  BY <1>4, <1>5, <1>6, <1>7, <1>8, <1>9 DEF OutboxInv

-----------------------------------------------------------------------------
(* The answer of the request on its way is written down.                   *)
LEMMA HeedMoves ==
  ASSUME OutboxAssumption, OutboxInv, NEW p \in Pages, page[p].at = "told",
         NEW c, c = page[p].sending,
         page' = [page EXCEPT ![p] = [page[p] EXCEPT !.at = "draining"]],
         rows' \in [Changes -> Rows \cup {None}], cut' \in {cut, cut \cup {c}},
         UNCHANGED <<next, lock, stray, server, gone>>,
         \A d \in Changes : rows'[d] # None =>
           rows[d] # None /\ rows'[d].kind = rows[d].kind /\ rows'[d].of = rows[d].of,
         \A d \in Changes \ {c} :
           /\ rows[d] # None => rows'[d] # None
           /\ rows'[d] # None => rows'[d].state = rows[d].state /\ rows'[d].server = rows[d].server,
         rows'[c] # None =>
           /\ rows'[c].kind = "page" /\ rows'[c].state # "pending" => rows'[c].of \in gone
           /\ rows'[c].kind # "page" /\ rows'[c].state = "conflict" => rows'[c].server \in Records,
         \A b \in Books : /\ Waiting(c, b) => Waiting(c, b)' /\ c \in cut'
                          /\ Waiting(c, b)' => Waiting(c, b)
  PROVE  OutboxInv'
<1>. DEFINE w == [page[p] EXCEPT !.at = "draining"]
<1>1. page[p] \in Drains /\ lock = p /\ c \in Changes
  BY DrainTyped DEF OutboxInv, OneDrains, AnswersHold, Names
<1>2. w \in Drains
  BY <1>1, DrainUpdated DEF At
<1>3. w.at = "draining" /\ w.todo = page[p].todo /\ w.blocked = page[p].blocked
  BY <1>1 DEF Drains
<1>4. UNCHANGED <<next, lock, stray, log, held, gone>> /\ cut \subseteq cut' /\ cut' \subseteq Changes
  BY <1>1 DEF server, OutboxInv, OutboxTyped
<1>5. /\ page'[p] = w /\ \A q \in Pages \ {p} : page'[q] = page[q]
      /\ \A q \in Pages \ {p} : page'[q].at \in {"closed", "open"} /\ page'[q].todo = {}
  <2>1. page'[p] = w /\ \A q \in Pages \ {p} : page'[q] = page[q]
    BY DEF OutboxInv, OutboxTyped
  <2>. QED
    BY <1>1, <2>1, OthersRest
<1>6. page' \in [Pages -> Drains]
  BY <1>2 DEF OutboxInv, OutboxTyped
<1>. HIDE DEF w
<1>7. OutboxTyped'
  BY <1>4, <1>6 DEF OutboxInv, OutboxTyped, Shown, Drains
<1>8. RowsHold'
  <2>. SUFFICES ASSUME NEW d \in Changes, rows'[d] # None
                PROVE  /\ d < next /\ Fits(rows'[d])
                       /\ rows'[d].kind = "page" /\ rows'[d].state # "pending" => rows'[d].of \in gone
                       /\ rows'[d].kind # "page" /\ rows'[d].state = "conflict" => rows'[d].server \in Records
    BY <1>4 DEF RowsHold, Changes, Fits
  <2>1. /\ rows[d] # None /\ d < next /\ Fits(rows[d])
        /\ rows[d].kind = "page" /\ rows[d].state # "pending" => rows[d].of \in gone
        /\ rows[d].kind # "page" /\ rows[d].state = "conflict" => rows[d].server \in Records
        /\ rows'[d].kind = rows[d].kind /\ rows'[d].of = rows[d].of
    BY DEF OutboxInv, RowsHold
  <2>2. CASE d = c
    BY <2>1, <2>2 DEF Fits
  <2>3. CASE d # c
    BY <2>1, <2>3 DEF Fits
  <2>. QED
    BY <2>2, <2>3
<1>9. OneDrains'
  <2>1. \A d \in page[p].todo : d < next
    BY DEF OutboxInv, OneDrains
  <2>. QED
    BY <1>1, <1>3, <1>4, <1>5, <2>1 DEF OneDrains
<1>10. AnswersHold'
  BY <1>3, <1>5 DEF AnswersHold
<1>11. LogHolds'
  BY <1>4 DEF OutboxInv, LogHolds, PagesInOrder
<1>12. \A d, s : Names(d, s) => Names(d, s)'
  <2>. SUFFICES ASSUME NEW d, NEW s, Names(d, s) PROVE Names(d, s)'
    OBVIOUS
  <2>1. d \in Changes /\ (rows'[d] # None => rows[d] # None /\ rows'[d].kind = rows[d].kind /\ rows'[d].of = rows[d].of)
    BY DEF Names
  <2>. QED
    BY <1>4, <2>1 DEF Names, Fits, Changes
<1>13. \A d, b : Taken(d, b)' = Taken(d, b)
  BY <1>4 DEF Taken
<1>14. \A d \in Changes : \A b \in Books : Waiting(d, b)' <=> Waiting(d, b)
  <2>. SUFFICES ASSUME NEW d \in Changes, NEW b \in Books PROVE Waiting(d, b)' <=> Waiting(d, b)
    OBVIOUS
  <2>1. CASE d = c
    BY <2>1
  <2>2. CASE d # c
    BY <1>4, <1>13, <2>2 DEF Waiting
  <2>. QED
    BY <2>1, <2>2
<1>15. \A d, s : Asked(d, s)' => Asked(d, s)
  BY <1>3, <1>4, <1>5 DEF Asked
<1>16. AskedIsKnown'
  <2>. SUFFICES ASSUME NEW d \in Changes, NEW s \in Rows, Asked(d, s)'
                PROVE  Names(d, s)' /\ (s.kind = "page" /\ s.of \notin gone => Taken(d, s.of)' \/ Waiting(d, s.of)')
    BY <1>4 DEF AskedIsKnown, Changes, Rows, Records
  <2>1. Names(d, s) /\ (s.kind = "page" /\ s.of \notin gone => Taken(d, s.of) \/ Waiting(d, s.of))
    BY <1>15 DEF OutboxInv, AskedIsKnown
  <2>2. s.kind = "page" => s.of \in Books
    BY <2>1 DEF Names, Fits
  <2>. QED
    BY <1>12, <1>13, <1>14, <2>1, <2>2
<1>17. NoneOvertakes'
  <2>1. \A d \in Changes : \A b \in Books : Launched(d, b)' => Launched(d, b)
    BY <1>13, <1>15 DEF Launched
  <2>. QED
    BY <1>4, <1>14, <2>1, NothingNewIsLaunched
<1>18. InTurn'
  <2>. SUFFICES ASSUME NEW q \in Pages, NEW d \in page'[q].todo, NEW e \in Changes, NEW b \in Books,
                       e < d, Waiting(e, b)', e \notin cut'
                PROVE  e \in page'[q].todo \/ b \in page'[q].blocked
    BY DEF InTurn, Changes, Waiting, Taken
  <2>1. q = p /\ d \in page[p].todo
    BY <1>3, <1>5
  <2>2. Waiting(e, b) /\ e \notin cut
    BY <1>4, <1>14
  <2>3. e \in page[p].todo \/ b \in page[p].blocked \/ page[p].sending = e
    BY <2>1, <2>2 DEF OutboxInv, InTurn
  <2>4. e # c
    BY <2>2
  <2>. QED
    BY <1>3, <1>5, <2>1, <2>3, <2>4
<1>. QED
  BY <1>7, <1>8, <1>9, <1>10, <1>11, <1>16, <1>17, <1>18 DEF OutboxInv

LEMMA HeedStep ==
  ASSUME OutboxAssumption, OutboxInv, NEW p \in Pages, Heed(p)
  PROVE  OutboxInv'
<1>1. PICK c, row, told, r : c = page[p].sending /\ row = page[p].row /\ told = page[p].told /\ r = page[p].seen
  OBVIOUS
<1>2. /\ page[p].at = "told" /\ page' = [page EXCEPT ![p] = [page[p] EXCEPT !.at = "draining"]]
      /\ UNCHANGED <<next, lock, stray, server, gone>>
      /\ cut' = IF told = "too large" /\ rows[c] # None THEN cut \cup {c} ELSE cut
  <2>1. UNCHANGED next
    BY <1>1, Zenon DEF Heed, store, air, works
  <2>. QED
    BY <1>1, <2>1 DEF Heed, Goes, store, air, works
<1>3. /\ Names(c, row) /\ Answered(c, row, told, r) /\ c \in Changes
      /\ rows \in [Changes -> Rows \cup {None}]
      /\ \A d \in Changes : rows[d] # None => rows[d] \in Rows
  BY <1>1, <1>2 DEF OutboxInv, OutboxTyped, AnswersHold, Names
<1>4. CASE rows[c] = None
  <2>1. rows' = rows
    BY <1>1, <1>4 DEF Heed, store
  <2>2. \A b : ~Waiting(c, b) /\ ~Waiting(c, b)'
    BY <1>4, <2>1 DEF Waiting
  <2>. QED
    BY <1>1, <1>2, <1>3, <1>4, <2>1, <2>2, HeedMoves
<1>5. CASE rows[c] # None /\ told \in {"applied", "duplicate"} /\ row.kind = "page"
  <2>1. rows' = Without({c})
    BY <1>1, <1>5 DEF Heed
  <2>2. rows' \in [Changes -> Rows \cup {None}] /\ rows'[c] = None /\ \A d \in Changes \ {c} : rows'[d] = rows[d]
    BY <1>3, <2>1 DEF Without
  <2>3. \A b : ~Waiting(c, b) /\ ~Waiting(c, b)'
    BY <1>3, <1>5, <2>2 DEF Waiting, Names, Answered
  <2>4. cut' = cut
    BY <1>2, <1>5
  <2>. QED
    BY <1>1, <1>2, <1>5, <2>2, <2>3, <2>4, HeedMoves
<1>6. CASE rows[c] # None /\ told \in {"applied", "duplicate"} /\ row.kind # "page"
  <2>. DEFINE rev == IF r = None THEN row.base + 1 ELSE r.rev
  <2>1. \E copied :
          rows' = [d \in Changes |->
            IF d = c THEN None
            ELSE IF d \in Of(row.of) /\ ~rows[d].attempted /\ copied
                 THEN [rows[d] EXCEPT !.base = rev] ELSE rows[d]]
    <3>1. Acknowledged(c, row.of, rev, row.kind = "erase")
      BY <1>1, <1>6 DEF Heed
    <3>. QED
      BY <3>1 DEF Acknowledged
  <2>2. rev \in Nat
    <3>1. row \in Rows /\ r \in Records \cup {None}
      BY <1>3 DEF Answered, Names
    <3>2. row.base \in Nat
      BY <3>1 DEF Rows
    <3>3. r # None => r.rev \in Nat
      BY <3>1 DEF Records
    <3>. QED
      BY <3>2, <3>3
  <2>. HIDE DEF rev
  <2>3. rows'[c] = None
    BY <1>3, <2>1
  <2>4. ASSUME NEW d \in Changes, d # c
        PROVE  rows'[d] = rows[d] \/ (rows[d] \in Rows /\ rows'[d] = [rows[d] EXCEPT !.base = rev])
    <3>1. \A e \in Of(row.of) : rows[e] # None
      BY DEF Of, Is
    <3>. QED
      BY <1>3, <2>1, <2>4, <3>1
  <2>5. \A d \in Changes \ {c} :
          /\ rows'[d] \in Rows \cup {None} /\ (rows[d] # None => rows'[d] # None)
          /\ rows'[d] # None => /\ rows[d] # None /\ rows'[d].kind = rows[d].kind /\ rows'[d].of = rows[d].of
                                /\ rows'[d].state = rows[d].state /\ rows'[d].server = rows[d].server
    <3>. TAKE d \in Changes \ {c}
    <3>1. CASE rows'[d] = rows[d]
      BY <1>3, <3>1
    <3>2. CASE rows[d] \in Rows /\ rows'[d] = [rows[d] EXCEPT !.base = rev]
      <4>1. rows'[d] \in Rows
        BY <2>2, <3>2, RowUpdated
      <4>2. rows'[d] # None /\ rows[d] # None
        BY <3>2, <4>1 DEF OutboxAssumption
      <4>. QED
        BY <3>2, <4>1, <4>2 DEF Rows
    <3>. QED
      BY <2>4, <3>1, <3>2
  <2>6. rows' \in [Changes -> Rows \cup {None}]
    <3>1. \E f : rows' = [d \in Changes |-> f[d]]
      <4>1. PICK copied :
          rows' = [d \in Changes |->
            IF d = c THEN None
            ELSE IF d \in Of(row.of) /\ ~rows[d].attempted /\ copied
                 THEN [rows[d] EXCEPT !.base = rev] ELSE rows[d]]
        BY <2>1
      <4>2. rows' = [d \in Changes |-> rows'[d]]
        BY <4>1
      <4>. QED
        BY <4>2
    <3>. QED
      BY <2>3, <2>5, <3>1
  <2>7. \A b : ~Waiting(c, b) /\ ~Waiting(c, b)'
    BY <1>3, <1>6, <2>3 DEF Waiting, Names
  <2>8. cut' = cut
    BY <1>2, <1>6
  <2>. QED
    BY <1>1, <1>2, <2>3, <2>5, <2>6, <2>7, <2>8, HeedMoves
<1>7. CASE rows[c] # None /\ told = "too large"
  <2>1. PICK k : k = [[rows[c] EXCEPT !.big = FALSE] EXCEPT !.attempted = FALSE]
    OBVIOUS
  <2>2. rows' = [rows EXCEPT ![c] = k]
    <3>1. rows' = [rows EXCEPT ![c].big = FALSE, ![c].attempted = FALSE]
      BY <1>1, <1>7, Zenon DEF Heed
    <3>. QED
      BY <1>3, <2>1, <3>1
  <2>3. k \in Rows
    BY <1>3, <1>7, <2>1, RowUpdated
  <2>4. k.kind = rows[c].kind /\ k.of = rows[c].of /\ k.state = rows[c].state /\ k.server = rows[c].server /\ k # None
    <3>1. k # None
      BY <2>3 DEF OutboxAssumption
    <3>. QED
      BY <1>3, <1>7, <2>1, <3>1 DEF Rows
  <2>5. rows' \in [Changes -> Rows \cup {None}] /\ rows'[c] = k /\ \A d \in Changes \ {c} : rows'[d] = rows[d]
    BY <1>3, <2>2, <2>3
  <2>6. \A b : Waiting(c, b)' <=> Waiting(c, b)
    BY <1>2, <1>7, <2>4, <2>5 DEF Waiting, Taken, server
  <2>7. c \in cut' /\ cut' \in {cut, cut \cup {c}}
    BY <1>2, <1>7
  <2>8. /\ rows'[c].kind = "page" /\ rows'[c].state # "pending" => rows'[c].of \in gone
        /\ rows'[c].kind # "page" /\ rows'[c].state = "conflict" => rows'[c].server \in Records
    BY <1>3, <1>7, <2>4, <2>5 DEF OutboxInv, RowsHold
  <2>. QED
    BY <1>1, <1>2, <1>7, <2>4, <2>5, <2>6, <2>7, <2>8, HeedMoves
<1>8. CASE rows[c] # None /\ told \in {"conflict", "failed"}
  <2>1. PICK k : k = [[rows[c] EXCEPT !.state = told] EXCEPT !.server = r]
    OBVIOUS
  <2>2. rows' = [rows EXCEPT ![c] = k]
    <3>1. rows' = [rows EXCEPT ![c].state = told, ![c].server = r]
      BY <1>1, <1>8, Zenon DEF Heed
    <3>. QED
      BY <1>3, <2>1, <3>1
  <2>3. k \in Rows
    BY <1>3, <1>8, <2>1, RowUpdated DEF Answered
  <2>4. k.kind = rows[c].kind /\ k.of = rows[c].of /\ k.state = told /\ k.server = r /\ k # None
    <3>1. k # None
      BY <2>3 DEF OutboxAssumption
    <3>. QED
      BY <1>3, <1>8, <2>1, <3>1 DEF Rows
  <2>5. rows' \in [Changes -> Rows \cup {None}] /\ rows'[c] = k /\ \A d \in Changes \ {c} : rows'[d] = rows[d]
    BY <1>3, <2>2, <2>3
  <2>6. \A b : ~Waiting(c, b) /\ ~Waiting(c, b)'
    BY <1>3, <1>8, <2>4, <2>5 DEF Waiting, Names, Answered
  <2>7. /\ rows'[c].kind = "page" /\ rows'[c].state # "pending" => rows'[c].of \in gone
        /\ rows'[c].kind # "page" /\ rows'[c].state = "conflict" => rows'[c].server \in Records
    BY <1>3, <1>8, <2>4, <2>5 DEF Answered, Names
  <2>8. cut' = cut
    BY <1>2, <1>8
  <2>. QED
    BY <1>1, <1>2, <1>8, <2>4, <2>5, <2>6, <2>7, <2>8, HeedMoves
<1>. QED
  BY <1>3, <1>4, <1>5, <1>6, <1>7, <1>8 DEF Answered, Answers

-----------------------------------------------------------------------------
(* The reader changes the store; other devices write.                      *)
LEMMA RowTyped ==
  ASSUME OutboxAssumption, NEW kind \in {"page", "write", "erase"}, NEW of \in Books \cup Notes,
         NEW base \in Nat, NEW big \in BOOLEAN
  PROVE  /\ Row(kind, of, base, big) \in Rows /\ Row(kind, of, base, big) # None
         /\ Row(kind, of, base, big).kind = kind /\ Row(kind, of, base, big).of = of
         /\ Row(kind, of, base, big).state = "pending"
<1>1. Row(kind, of, base, big) \in Rows
  BY DEF Row, Rows
<1>2. Row(kind, of, base, big) # None
  BY <1>1 DEF OutboxAssumption
<1>. QED
  BY <1>1, <1>2 DEF Row

LEMMA TurnPageStep ==
  ASSUME OutboxAssumption, OutboxInv, NEW b \in Books, NEW big \in Sizes, TurnPage(b, big)
  PROVE  OutboxInv'
<1>. DEFINE refused == {c \in Changes : Is(c, {"page"}) /\ rows[c].of = b /\ ~Pending(c)}
<1>1. PICK r : r = Row("page", b, 0, big)
  OBVIOUS
<1>2. /\ next \in Changes /\ next' = next + 1 /\ rows' = [Without(refused) EXCEPT ![next] = r]
      /\ UNCHANGED <<page, lock, stray, log, held, gone, cut>>
  BY <1>1 DEF TurnPage, server, air, works
<1>3. r \in Rows /\ r # None /\ r.kind = "page" /\ r.of = b /\ r.state = "pending"
  BY <1>1, RowTyped DEF OutboxAssumption
<1>4. rows \in [Changes -> Rows \cup {None}] /\ held \in Shown /\ MaxChanges \in Nat
  BY DEF OutboxInv, OutboxTyped, OutboxAssumption
<1>5. /\ rows' \in [Changes -> Rows \cup {None}] /\ rows'[next] = r
      /\ \A c \in Changes \ {next} : rows'[c] = IF c \in refused THEN None ELSE rows[c]
  BY <1>2, <1>3, <1>4 DEF Without
<1>6. \A c \in refused : rows[c] # None /\ rows[c].kind = "page" => rows[c].of \in gone
  BY DEF OutboxInv, RowsHold, Pending
<1>. HIDE DEF refused
<1>7. \A c \in Changes : RowMoves(c)
  BY <1>2, <1>3, <1>5, <1>6 DEF RowMoves, Fits
<1>8. next' \in 1..(MaxChanges + 1)
  BY <1>2, <1>4 DEF Changes
<1>. QED
  BY <1>2, <1>4, <1>5, <1>7, <1>8, StoreStep

LEMMA QueuedStep ==
  ASSUME OutboxAssumption, OutboxInv, NEW n \in Notes, NEW kind \in {"write", "erase"}, NEW base \in Nat, NEW big \in BOOLEAN,
         next \in Changes, Queued(n, kind, base, big),
         UNCHANGED <<page, lock, stray, server, gone, cut>>
  PROVE  OutboxInv'
<1>1. PICK r : r = Row(kind, n, base, big)
  OBVIOUS
<1>2. r \in Rows /\ r # None /\ r.kind = kind /\ r.of = n /\ r.state = "pending"
  <2>1. r \in Rows
    BY <1>1 DEF Row, Rows
  <2>2. r # None
    BY <2>1 DEF OutboxAssumption
  <2>. QED
    BY <1>1, <2>2, <2>1 DEF Row
<1>3. PICK gives \in SUBSET Of(n) :
        next' = next + 1 /\ rows' \in {Without(gives), [Without(gives) EXCEPT ![next] = r]}
  BY <1>1 DEF Queued
<1>4. \A c \in gives : rows[c].kind # "page"
  BY DEF Of, Is
<1>5. rows \in [Changes -> Rows \cup {None}] /\ held \in Shown /\ MaxChanges \in Nat
  BY DEF OutboxInv, OutboxTyped, OutboxAssumption
<1>6. /\ rows' \in [Changes -> Rows \cup {None}]
      /\ \A c \in Changes : rows'[c] = rows[c] \/ (c = next /\ rows'[c] = r) \/ (c \in gives /\ rows'[c] = None)
  BY <1>2, <1>3, <1>5 DEF Without
<1>7. \A c \in Changes : RowMoves(c)
  BY <1>2, <1>3, <1>4, <1>6 DEF RowMoves, Fits
<1>8. next' \in 1..(MaxChanges + 1)
  BY <1>3, <1>5 DEF Changes
<1>. QED
  BY <1>3, <1>5, <1>6, <1>7, <1>8, StoreStep DEF server

LEMMA TakeTheirsStep ==
  ASSUME OutboxAssumption, OutboxInv, NEW p \in Pages, NEW c \in Changes, TakeTheirs(p, c)
  PROVE  OutboxInv'
<1>1. PICK gives \in SUBSET Of(rows[c].of) :
        rows' = Without(gives) /\ UNCHANGED <<next, page, lock, stray, server, gone, cut>>
  <2>1. c \in Of(rows[c].of)
    BY DEF TakeTheirs, Of
  <2>. QED
    BY <2>1 DEF TakeTheirs, air, works
<1>2. \A d \in gives : rows[d].kind # "page"
  BY DEF Of, Is
<1>3. rows \in [Changes -> Rows \cup {None}] /\ held \in Shown /\ next \in 1..(MaxChanges + 1)
  BY DEF OutboxInv, OutboxTyped
<1>4. rows' \in [Changes -> Rows \cup {None}]
  BY <1>1, <1>3 DEF Without
<1>5. \A d \in Changes : RowMoves(d)
  BY <1>1, <1>2, <1>3 DEF RowMoves, Without
<1>. QED
  BY <1>1, <1>3, <1>4, <1>5, StoreStep DEF server

LEMMA KeepMineStep ==
  ASSUME OutboxAssumption, OutboxInv, NEW p \in Pages, NEW c \in Changes, KeepMine(p, c)
  PROVE  OutboxInv'
<1>1. PICK kind \in {"write", "erase"}, big \in BOOLEAN : Queued(rows[c].of, kind, rows[c].server.rev, big)
  BY DEF KeepMine
<1>2. rows[c].of \in Notes /\ rows[c].server \in Records
  BY DEF KeepMine, Is, OutboxInv, RowsHold, Fits
<1>3. rows[c].server.rev \in Nat
  BY <1>2 DEF Records
<1>. QED
  BY <1>1, <1>2, <1>3, QueuedStep DEF KeepMine, air, works

(* A refused page turn is of a book that is gone; an annotation's change   *)
(* is sent anew or goes.                                                   *)
LEMMA RetryStep ==
  ASSUME OutboxAssumption, OutboxInv, NEW c \in Changes, Retry(c)
  PROVE  OutboxInv'
<1>1. rows \in [Changes -> Rows \cup {None}] /\ held \in Shown /\ next \in 1..(MaxChanges + 1)
  BY DEF OutboxInv, OutboxTyped
<1>2. /\ rows[c] \in Rows /\ rows[c] # None
      /\ rows[c].kind = "page" => rows[c].of \in gone
  BY <1>1 DEF Retry, Refused, OutboxInv, RowsHold
<1>3. UNCHANGED <<next, page, lock, stray, log, held, gone, cut>>
  BY DEF Retry, server, air, works
<1>4. PICK k : k = [[[rows[c] EXCEPT !.state = "pending"] EXCEPT !.attempted = FALSE] EXCEPT !.server = None]
  OBVIOUS
<1>5. rows' = [rows EXCEPT ![c] = k]
  <2>1. rows' = [rows EXCEPT ![c].state = "pending", ![c].attempted = FALSE, ![c].server = None]
    BY DEF Retry
  <2>. QED
    BY <1>1, <1>4, <2>1
<1>6. k \in Rows
  <2>1. [rows[c] EXCEPT !.state = "pending"] \in Rows
    BY <1>2, RowUpdated
  <2>2. [[rows[c] EXCEPT !.state = "pending"] EXCEPT !.attempted = FALSE] \in Rows
    BY <2>1, RowUpdated
  <2>. QED
    BY <1>4, <2>2, RowUpdated
<1>7. k.kind = rows[c].kind /\ k.of = rows[c].of /\ k.state = "pending"
  BY <1>2, <1>4 DEF Rows
<1>8. rows' \in [Changes -> Rows \cup {None}] /\ rows'[c] = k /\ \A d \in Changes \ {c} : rows'[d] = rows[d]
  BY <1>1, <1>5, <1>6
<1>9. \A d \in Changes : RowMoves(d)
  BY <1>2, <1>6, <1>7, <1>8 DEF RowMoves
<1>. QED
  BY <1>1, <1>3, <1>8, <1>9, StoreStep

LEMMA DiscardStep ==
  ASSUME OutboxAssumption, OutboxInv, NEW p \in Pages, NEW c \in Changes, Discard(p, c)
  PROVE  OutboxInv'
<1>1. rows \in [Changes -> Rows \cup {None}] /\ held \in Shown /\ next \in 1..(MaxChanges + 1)
  BY DEF OutboxInv, OutboxTyped
<1>2. rows[c] # None /\ (rows[c].kind = "page" => rows[c].of \in gone)
  BY DEF Discard, Refused, OutboxInv, RowsHold
<1>3. UNCHANGED <<next, page, lock, stray, log, held, gone, cut>> /\ rows' = Without({c})
  BY Zenon DEF Discard, server, works
<1>4. rows' \in [Changes -> Rows \cup {None}] /\ rows'[c] = None /\ \A d \in Changes \ {c} : rows'[d] = rows[d]
  BY <1>1, <1>3 DEF Without
<1>5. \A d \in Changes : RowMoves(d)
  BY <1>2, <1>4 DEF RowMoves
<1>. QED
  BY <1>1, <1>3, <1>4, <1>5, StoreStep

(* Of the queue and of what the server took, the rest changes nothing.     *)
LEMMA RestStep ==
  ASSUME OutboxAssumption, OutboxInv, UNCHANGED <<rows, next, page, lock, stray, log, held, gone, cut>>
  PROVE  OutboxInv'
<1>1. rows \in [Changes -> Rows \cup {None}] /\ held \in Shown /\ next \in 1..(MaxChanges + 1)
  BY DEF OutboxInv, OutboxTyped
<1>2. \A d \in Changes : RowMoves(d)
  BY DEF RowMoves
<1>. QED
  BY <1>1, <1>2, StoreStep

LEMMA OtherWritesStep ==
  ASSUME OutboxAssumption, OutboxInv, NEW n \in Notes, NEW dead \in BOOLEAN, OtherWrites(n, dead)
  PROVE  OutboxInv'
<1>1. /\ UNCHANGED <<rows, next, page, lock, stray, log, gone, cut>> /\ held[n] # None
      /\ held' = [held EXCEPT ![n] = [rev |-> held[n].rev + 1, by |-> 0, dead |-> dead]]
  BY DEF OtherWrites, store, air, works
<1>2. rows \in [Changes -> Rows \cup {None}] /\ held \in Shown /\ next \in 1..(MaxChanges + 1)
  BY DEF OutboxInv, OutboxTyped
<1>3. held[n] \in Records
  BY <1>1, <1>2 DEF Shown
<1>4. [rev |-> held[n].rev + 1, by |-> 0, dead |-> dead] \in Records
  BY <1>3 DEF Records
<1>5. held' \in Shown
  BY <1>1, <1>2, <1>4 DEF Shown
<1>6. \A d \in Changes : RowMoves(d)
  BY <1>1 DEF RowMoves
<1>. QED
  BY <1>1, <1>2, <1>5, <1>6, StoreStep

-----------------------------------------------------------------------------
LEMMA OutboxInvInit ==
  ASSUME OutboxAssumption, OutboxInit
  PROVE  OutboxInv
<1>1. OutboxTyped
  <2>1. "closed" \in At
    BY DEF At
  <2>2. Idle("closed") \in Drains
    BY <2>1, IdleTyped
  <2>. QED
    BY <2>2 DEF OutboxInit, OutboxTyped, Shown, OutboxAssumption
<1>2. \A p \in Pages : page[p].at = "closed" /\ page[p].todo = {}
  BY DEF OutboxInit, Idle
<1>3. RowsHold /\ AnswersHold /\ NoneOvertakes /\ InTurn
  BY <1>2 DEF OutboxInit, RowsHold, AnswersHold, NoneOvertakes, Waiting, InTurn
<1>4. OneDrains
  BY <1>2 DEF OutboxInit, OneDrains, OutboxAssumption
<1>5. LogHolds
  BY DEF OutboxInit, LogHolds, PagesInOrder
<1>6. AskedIsKnown
  BY <1>2 DEF OutboxInit, AskedIsKnown, Asked
<1>. QED
  BY <1>1, <1>3, <1>4, <1>5, <1>6 DEF OutboxInv

LEMMA OutboxInvStep ==
  ASSUME OutboxAssumption, OutboxInv, [OutboxNext]_outboxVars
  PROVE  OutboxInv'
<1>1. ASSUME NEW b \in Books, NEW big \in Sizes, TurnPage(b, big) PROVE OutboxInv'
  BY <1>1, TurnPageStep
<1>2. ASSUME NEW n \in Notes, NEW big \in Sizes, Create(n, big) PROVE OutboxInv'
  BY <1>2, QueuedStep DEF Create, bounds, air, works, OutboxAssumption
<1>3. ASSUME NEW n \in Notes, NEW kind \in {"write", "erase"}, NEW rev \in 0..MaxChanges, NEW big \in Sizes,
             Mutate(n, kind, rev, big)
      PROVE  OutboxInv'
  BY <1>3, QueuedStep DEF Mutate, bounds, air, works, OutboxAssumption
<1>4. ASSUME NEW q \in stray, Arrives(q) PROVE OutboxInv'
  BY <1>4, ArrivesStep
<1>5. ASSUME NEW n \in Notes, NEW dead \in BOOLEAN, OtherWrites(n, dead) PROVE OutboxInv'
  BY <1>5, OtherWritesStep
<1>6. ASSUME NEW w \in Books \cup Notes, OtherDeletes(w) PROVE OutboxInv'
  BY <1>6, OtherDeletesStep
<1>7. ASSUME NEW p \in Pages, Begin(p) PROVE OutboxInv'
  BY <1>7, BeginStep
<1>8. ASSUME NEW p \in Pages, PassStep(p) PROVE OutboxInv'
  <2>1. ASSUME NEW c \in Changes, KeepMine(p, c) \/ TakeTheirs(p, c) PROVE OutboxInv'
    BY <2>1, KeepMineStep, TakeTheirsStep
  <2>2. CASE Attempt(p) \/ Serve(p) \/ Heed(p) \/ Fetch(p) \/ Reconcile(p) \/ EndPass(p)
    BY <2>2, AttemptStep, ServeStep, HeedStep, FetchStep, ReconcileStep, IdleSteps
  <2>. QED
    BY <1>8, <2>1, <2>2 DEF PassStep
<1>9. ASSUME NEW p \in Pages, NotNow(p) \/ Throw(p) \/ OpenPage(p) \/ ClosePage(p) PROVE OutboxInv'
  BY <1>9, NotNowStep, IdleSteps
<1>10. ASSUME NEW c \in Changes, Retry(c) PROVE OutboxInv'
  BY <1>10, RetryStep
<1>11. ASSUME NEW p \in Pages, NEW c \in Changes, Discard(p, c) PROVE OutboxInv'
  BY <1>11, DiscardStep
<1>12. ASSUME NEW n \in Notes, OtherFills(n) PROVE OutboxInv'
  BY <1>12, RestStep DEF OtherFills, store, server, air
<1>13. ASSUME NEW q \in restoring, Reread(q) \/ Restore(q) PROVE OutboxInv'
  BY <1>13, RestStep DEF Reread, Restore, store, server, works
<1>14. CASE UNCHANGED outboxVars
  BY <1>14, RestStep DEF outboxVars, store, server, air, works
<1>. QED
  BY <1>1, <1>2, <1>3, <1>4, <1>5, <1>6, <1>7, <1>8, <1>9, <1>10, <1>11, <1>12, <1>13, <1>14 DEF OutboxNext

(* What is asked of the server, what it took, and what the store still     *)
(* owes agree, whatever closed or failed.                                  *)
THEOREM OutboxInvariant == OutboxAssumption /\ OutboxSpec => []OutboxInv
<1>. SUFFICES ASSUME OutboxAssumption PROVE OutboxSpec => []OutboxInv
  OBVIOUS
<1>1. OutboxInit => OutboxInv
  BY OutboxInvInit
<1>2. OutboxInv /\ [OutboxNext]_outboxVars => OutboxInv'
  BY OutboxInvStep
<1>. QED
  BY <1>1, <1>2, PTL DEF OutboxSpec

(* Every variable of the queue has its type.                               *)
THEOREM OutboxTypeCorrect == OutboxAssumption /\ OutboxSpec => []OutboxTypeOK
<1>. SUFFICES ASSUME OutboxAssumption PROVE OutboxSpec => []OutboxTypeOK
  OBVIOUS
<1>1. OutboxInv => OutboxTypeOK
  <2>. SUFFICES ASSUME OutboxInv PROVE OutboxTypeOK
    OBVIOUS
  <2>1. \A p \in Pages : page[p].at \in At /\ (page[p].at \notin {"closed", "open"} <=> lock = p)
    BY DrainTyped DEF OutboxInv, OneDrains
  <2>2. \A c \in Changes : rows[c] # None => c < next /\ rows[c].state \in {"pending", "failed", "conflict"}
    <3>1. \A c \in Changes : rows[c] # None => rows[c] \in Rows
      BY DEF OutboxInv, OutboxTyped
    <3>2. \A r \in Rows : r.state \in {"pending", "failed", "conflict"}
      BY DEF Rows
    <3>. QED
      BY <3>1, <3>2 DEF OutboxInv, RowsHold
  <2>. QED
    BY <2>1, <2>2 DEF OutboxInv, OutboxTyped, OutboxTypeOK
<1>. QED
  BY <1>1, OutboxInvariant, PTL

(* The server takes the pages of a book in the order they were turned,     *)
(* whatever closed, failed or arrived late, but for one sent again without *)
(* its locator.                                                            *)
THEOREM PagesArriveInOrder == OutboxAssumption /\ OutboxSpec => []PagesInOrder
<1>. SUFFICES ASSUME OutboxAssumption PROVE OutboxSpec => []PagesInOrder
  OBVIOUS
<1>1. OutboxInv => PagesInOrder
  BY DEF OutboxInv, LogHolds
<1>. QED
  BY <1>1, OutboxInvariant, PTL
=============================================================================
