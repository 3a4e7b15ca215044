------------------------------ MODULE MCRecords -----------------------------
(***************************************************************************)
(* Records that are sent again, changed or pulled by cursor, in four       *)
(* scenarios:                                                              *)
(*   edits    two devices edit one record and lose answers (Annotations)   *)
(*   feed     records move between works while devices page (Annotations)  *)
(*   cache    translations are pushed, evicted and merged (Translations)   *)
(*   reports  sources revise their sessions (SourceSessions)               *)
(* What a scenario does not use rests in its initial state.                *)
(***************************************************************************)
EXTENDS Annotations, Translations, SourceSessions, TLC

CONSTANTS i1, i2, phone, desk, w1, w2, b1, b2, reader, e1, korow, sitting, x1, x2, x3

VARIABLE scenario

MCBookOf == [k \in KoRows |-> e1]

ASSUME AnnotationsAssumption /\ TranslationsAssumption /\ SourceAssumption

Is(s) == scenario = s
mcvars == <<scenario, vars, cacheVars, sourceVars>>

MCInit ==
  /\ scenario \in {"edits", "feed", "cache", "reports"}
  /\ Init /\ CacheInit /\ SourceInit

(* The bounds of the two scenarios of annotations: one record outside the  *)
(* edition, of which each write may be sent twice; and two writes of the   *)
(* edition, sent once, while works are split, merged and deleted.          *)
Thought == {n \in Numbers : writes[n] # None}
OneRecord ==
  /\ moves = 0 /\ seq <= 3
  /\ \A n \in Thought : writes[n].work = W1 /\ ~writes[n].ed
  /\ \A m, n \in Thought : writes[m].id = writes[n].id
TwoRecords ==
  /\ Cardinality(Thought) <= 2
  /\ \A n \in Thought : writes[n].ed /\ tries[n] <= 1

MCNext ==
  /\ \/ Is("edits") /\ Next /\ OneRecord' /\ UNCHANGED <<cacheVars, sourceVars>>
     \/ Is("feed") /\ Next /\ TwoRecords' /\ UNCHANGED <<cacheVars, sourceVars>>
     \/ Is("cache") /\ CacheNext /\ UNCHANGED <<vars, sourceVars>>
     \/ Is("reports") /\ SourceNext /\ UNCHANGED <<vars, cacheVars>>
  /\ UNCHANGED scenario

MCSpec == MCInit /\ [][MCNext]_mcvars

Alike == Permutations(Ids) \cup Permutations(Devices) \cup Permutations({b1, b2})
=============================================================================
