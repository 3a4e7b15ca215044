----------------------------- MODULE MCAccounts -----------------------------
(***************************************************************************)
(* The credentials of an instance in three scenarios, the other components *)
(* resting in their initial states:                                        *)
(*   roles    two callers change roles and tokens at once (Accounts)       *)
(*   codes    devices sign up with pairing codes (Pairing)                 *)
(*   tabs     two tabs of one reader mint tokens (ReaderTokens)            *)
(*                                                                         *)
(* In "codes" an account has two codes.  A device signs up twice with the  *)
(* first (the retry), another one shares that code under another slot, and *)
(* one wants the first device's slot with the second code.                 *)
(***************************************************************************)
EXTENDS Accounts, Pairing, ReaderTokens, TLC

CONSTANTS a1, a2

MCSignups == {"first", "retry", "shared", "same slot"}
MCCodeOf == [s \in MCSignups |-> IF s = "same slot" THEN a2 ELSE a1]
MCSlotOf == [s \in MCSignups |-> IF s = "shared" THEN "kobo" ELSE "boox"]
MCUserOf == [c \in {a1, a2} |-> "ann"]

ASSUME NobodyAssumption /\ PairingAssumption /\ ReaderAssumption

VARIABLE scenario

Is(s) == scenario = s
mcvars == <<scenario, vars, pairingVars, readerVars>>

MCInit == scenario \in {"roles", "codes", "tabs"} /\ Init /\ PairingInit /\ ReaderInit

MCNext ==
  /\ \/ Is("roles") /\ Next /\ UNCHANGED <<pairingVars, readerVars>>
     \/ Is("codes") /\ PairingNext /\ UNCHANGED <<vars, readerVars>>
     \/ Is("tabs") /\ ReaderNext /\ UNCHANGED <<vars, pairingVars>>
  /\ UNCHANGED scenario

MCSpec == MCInit /\ [][MCNext]_mcvars

Alike == Permutations(Users) \cup Permutations(Callers) \cup Permutations(Tabs)
=============================================================================
