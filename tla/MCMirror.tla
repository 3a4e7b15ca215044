------------------------------ MODULE MCMirror ------------------------------
(***************************************************************************)
(* Mirror in four scenarios, each a part of what Mirror may do:            *)
(*   delayed  a restamping kosync peer, and writes that time out           *)
(*   loops    two restamping peers that may pass one reading round         *)
(*   moves    a kosync peer that resets, late uploads, another library     *)
(*   race     two peers that are read in while both workers run            *)
(* The process may stop in all but the last.                               *)
(***************************************************************************)
EXTENDS Mirror

CONSTANTS bo, kr, ks, kt, c1, c2

VARIABLE scenario
mcvars == <<scenario, vars>>

Place(f, c) == [frac |-> f, cfi |-> c, foreign |-> None]
Rough == {Place(1, None), Place(2, None)}
MCHere == Rough \cup {Place(1, c1), Place(2, c2)}
MCThere == Rough

ASSUME MirrorAssumption

Is(s) == scenario = s

(* The bounds of the scenarios: who takes part, what a client uploads and  *)
(* when, and whether writes travel on and addresses change.                *)
Only(P) == \A p \in Peers \ P : worker[p] = Idle /\ row[p] = NoRow /\ p \notin resets /\ library[p] = 0
Uploads == {log[i] : i \in {j \in DOMAIN log : log[j].dev = Here}}
ReadThereAt(f) == \A p \in Peers : \A r \in given[p] : (\A op \in Uploads : op.id # r.id) => r.frac = f
Promptly == Len(log') > Len(log) /\ log'[Len(log')].dev = Here => log'[Len(log')].at = now
Running == \A p \in Peers : worker'[p] = Idle => worker[p] = Idle \/ worker[p].stage = "done"
Prompt == \A p \in Peers : late[p] = NoWrite
Steady == movesLeft = MaxMoves /\ resetsLeft = MaxResets

Bound ==
  /\ Is("delayed") => Only({kr}) /\ Steady /\ ReadThereAt(2)
                      /\ \A op \in Uploads : op.cfi = None
  /\ Is("loops") => Only({bo, kr}) /\ Steady /\ Prompt /\ reads <= 2 /\ ReadThereAt(2)
                    /\ Cardinality(Uploads) <= 1 /\ \A op \in Uploads : op.cfi # None
  /\ Is("moves") => Only({ks}) /\ Prompt /\ reads <= 2 /\ \A op \in Uploads : op.cfi = None
  /\ Is("race") => /\ Only({ks, kt}) /\ Steady /\ Prompt /\ unsure = 0 /\ ReadThereAt(2)
                   /\ Cardinality(Uploads) <= 1 /\ \A op \in Uploads : op.cfi = None /\ op.frac = 1

MCInit == Init /\ scenario \in {"delayed", "loops", "moves", "race"}
MCNext ==
  /\ Next /\ UNCHANGED scenario
  /\ Bound' /\ (Is("moves") \/ Promptly) /\ (Is("race") => Running)
MCSpec == MCInit /\ [][MCNext]_mcvars
=============================================================================
