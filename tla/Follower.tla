------------------------------ MODULE Follower ------------------------------
(* What is promised of a copy of something that changes on its own: it     *)
(* never shows what has not been there, it never goes back, and once the   *)
(* source rests within reach it comes to show it.                          *)
EXTENDS Naturals

VARIABLES source, copy,  \* how often the source changed, and the change shown
          reached        \* whether the source can be reached

Init == source \in Nat /\ copy = 0

Changes == source' > source /\ UNCHANGED copy
Follows == copy < copy' /\ copy' <= source /\ UNCHANGED source

Next == Changes \/ Follows
Steps == Init /\ [][Next]_<<source, copy>>
Settles == <>[][FALSE]_source /\ <>[]reached => <>[](copy = source)

Spec == Steps /\ Settles
=============================================================================
