------------------------------- MODULE Pairing ------------------------------
(***************************************************************************)
(* Pairing a kosync device (adapter/kosync/kosync.go HandleCreateUser;     *)
(* store/postgres/kosync.go).  An account hands out one-time codes; a      *)
(* device signs up with the name of its slot and the key it derives from   *)
(* the code, and sends the sign-up again when no answer came.  Several     *)
(* sign-ups are served at once.                                            *)
(*                                                                         *)
(* A transaction under READ COMMITTED reads what is committed, and the     *)
(* UPDATE that spends a code holds the code's row until the transaction    *)
(* ends: a second UPDATE waits for it and then looks at the row again.     *)
(***************************************************************************)
EXTENDS Naturals, FiniteSets

CONSTANTS Codes,      \* the pairing codes; the derived key names its code
          Signups,    \* the sign-up requests that may be sent
          CodeOf,     \* the code each sign-up carries
          SlotOf,     \* the slot each sign-up names
          UserOf,     \* the account that made each code
          None        \* nobody holds a row

PairingAssumption == None \notin Signups /\ CodeOf \in [Signups -> Codes]

VARIABLES code,       \* the rows of pairing_codes: made, used or expired
          slots,      \* the rows of kosync_devices
          holder,     \* the sign-up whose transaction updated the code's row
          pc,         \* where the service of each sign-up stands
          knew        \* history: paired and not revoked when it was sent

pairingVars == <<code, slots, holder, pc, knew>>

Answers == {"created", "slot taken", "refused"}

PairingStages == {"unsent", "arrived", "pairing", "redeeming", "counting", "inserting"} \cup Answers

SlotRows == [user : {UserOf[c] : c \in Codes}, slot : {SlotOf[s] : s \in Signups},
         key : Codes, revoked : BOOLEAN]

PairingTypeOK ==
    /\ code \in [Codes -> {"unmade", "fresh", "used", "expired"}]
    /\ slots \subseteq SlotRows
    /\ holder \in [Codes -> Signups \cup {None}]
    /\ \A c \in Codes : holder[c] # None => pc[holder[c]] \in {"counting", "inserting"}
    /\ pc \in [Signups -> PairingStages]
    /\ knew \subseteq Signups

PairingInit ==
    /\ code = [c \in Codes |-> "unmade"]
    /\ slots = {}
    /\ holder = [c \in Codes |-> None]
    /\ pc = [s \in Signups |-> "unsent"]
    /\ knew = {}

(* The live slot of the very name and key of a sign-up (KosyncDeviceByKey). *)
Paired(s) ==
    \E d \in slots : d.key = CodeOf[s] /\ d.slot = SlotOf[s] /\ ~d.revoked

SlotRow(s) ==
    \E d \in slots : d.user = UserOf[CodeOf[s]] /\ d.slot = SlotOf[s]

KeyRow(s) == \E d \in slots : d.key = CodeOf[s]

-----------------------------------------------------------------------------
CreatePairingCode(c) ==
    /\ code[c] = "unmade"
    /\ code' = [code EXCEPT ![c] = "fresh"]
    /\ UNCHANGED <<slots, holder, pc, knew>>

(* The clock passes the expiry of a code nobody is spending. *)
ExpireCode(c) ==
    /\ code[c] = "fresh"
    /\ holder[c] = None
    /\ code' = [code EXCEPT ![c] = "expired"]
    /\ UNCHANGED <<slots, holder, pc, knew>>

Send(s) ==
    /\ pc[s] = "unsent"
    /\ pc' = [pc EXCEPT ![s] = "arrived"]
    /\ knew' = IF Paired(s) THEN knew \cup {s} ELSE knew
    /\ UNCHANGED <<code, slots, holder>>

(* Faulty: a device that is paired already is not recognised *)
RecogniseNobody(s) ==
    /\ pc[s] = "arrived"
    /\ pc' = [pc EXCEPT ![s] = "pairing"]
    /\ UNCHANGED <<code, slots, holder, knew>>

(* A device that signs up again with what it paired with is told so. *)
Recognise(s) ==
    /\ pc[s] = "arrived"
    /\ pc' = [pc EXCEPT ![s] = IF Paired(s) THEN "slot taken" ELSE "pairing"]
    /\ UNCHANGED <<code, slots, holder, knew>>

(* The SELECT of redeemPairingCodeTx. *)
ReadCode(s) ==
    /\ pc[s] = "pairing"
    /\ pc' = [pc EXCEPT ![s] = IF code[CodeOf[s]] = "fresh" THEN "redeeming" ELSE "refused"]
    /\ UNCHANGED <<code, slots, holder, knew>>

(* Its UPDATE ... WHERE used_at IS NULL. *)
Redeem(s) ==
    /\ pc[s] = "redeeming"
    /\ holder[CodeOf[s]] = None
    /\ IF code[CodeOf[s]] = "used"
       THEN pc' = [pc EXCEPT ![s] = "refused"] /\ holder' = holder
       ELSE /\ pc' = [pc EXCEPT ![s] = "counting"]
            /\ holder' = [holder EXCEPT ![CodeOf[s]] = s]
    /\ UNCHANGED <<code, slots, knew>>

(* The end of a transaction: the code is spent only when it commits. *)
End(s, answer) ==
    /\ pc' = [pc EXCEPT ![s] = answer]
    /\ holder' = [holder EXCEPT ![CodeOf[s]] = None]

CountSlots(s) ==
    /\ pc[s] = "counting"
    /\ IF SlotRow(s)
       THEN End(s, "slot taken")
       ELSE pc' = [pc EXCEPT ![s] = "inserting"] /\ holder' = holder
    /\ UNCHANGED <<code, slots, knew>>

(* The slot's primary key and the unique key may refuse what the count did *)
(* not see.                                                                *)
Insert(s) ==
    LET row == [user |-> UserOf[CodeOf[s]], slot |-> SlotOf[s], key |-> CodeOf[s], revoked |-> FALSE]
    IN /\ pc[s] = "inserting"
       /\ IF SlotRow(s) \/ KeyRow(s)
          THEN End(s, "refused") /\ UNCHANGED <<code, slots>>
          ELSE /\ End(s, "created")
               /\ slots' = slots \cup {row}
               /\ code' = [code EXCEPT ![CodeOf[s]] = "used"]
       /\ UNCHANGED knew

(* A revoked slot stays taken. *)
RevokeKosyncDevice(d) ==
    /\ ~d.revoked
    /\ slots' = (slots \ {d}) \cup {[d EXCEPT !.revoked = TRUE]}
    /\ UNCHANGED <<code, holder, pc, knew>>

Serve(s) == Recognise(s) \/ ReadCode(s) \/ Redeem(s) \/ CountSlots(s) \/ Insert(s)

PairingNext ==
    \/ \E c \in Codes : CreatePairingCode(c) \/ ExpireCode(c)
    \/ \E s \in Signups : Send(s) \/ Serve(s)
    \/ \E d \in slots : RevokeKosyncDevice(d)

(* The server goes on with the requests it took. *)
PairingSpec == PairingInit /\ [][PairingNext]_pairingVars /\ \A s \in Signups : WF_pairingVars(Serve(s))

-----------------------------------------------------------------------------

(* A device that was paired when it signed up again is not refused for its *)
(* spent code, unless its slot was revoked meanwhile (HandleCreateUser).   *)
RetryOfAPairedDevice ==
    \A s \in knew : pc[s] = "refused" => ~Paired(s)

(* "A device signing up again with the credential it already paired with   *)
(* is told the account exists" (HandleCreateUser): a device whose slot and *)
(* key are paired is never refused.                                        *)
PairedIsNeverRefused ==
    \A s \in Signups : pc[s] = "refused" => ~Paired(s)
=============================================================================
