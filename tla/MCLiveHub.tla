----------------------------- MODULE MCLiveHub -----------------------------
(* One reader's tablet and browser tab.  Two scenarios, each the module    *)
(* with a part of it at rest: two writers and two topics against one       *)
(* stream that may be revoked, and two streams that contend for the        *)
(* account's only place while the hub closes.                              *)
EXTENDS LiveHub

CONSTANTS u1, positions, annotations, tablet, browser, h1, h2

MCAccountOf == [s \in Streams |-> u1]
(* The browser's token lacks the scope of the annotations topic.           *)
MCAllowed == [s \in Streams |-> IF s = browser THEN {positions} ELSE Topics]

VARIABLE scenario

AtRest ==
  \/ /\ scenario = "two writers" /\ pc[browser] = "new" /\ ~closed
     /\ saying[h1] \subseteq {positions} /\ saying[h2] \subseteq {annotations}
  \/ /\ scenario = "two streams" /\ phase[h2] = "idle"
     /\ saying[h1] \subseteq {annotations} /\ valid[browser]

MCInit == Init /\ scenario \in {"two writers", "two streams"} /\ AtRest
MCNext == Next /\ UNCHANGED scenario /\ AtRest'

MCSpec ==
  /\ MCInit /\ [][MCNext]_<<vars, scenario>>
  /\ \A w \in Writers : WF_vars(WriterStep(w))
  /\ \A s \in Streams : WF_vars(StreamStep(s)) /\ WF_vars(Finish(s))
  /\ \A s \in Streams, t \in Topics : WF_vars(ReadFeed(s, t))
=============================================================================
