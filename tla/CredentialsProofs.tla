-------------------------- MODULE CredentialsProofs -------------------------
(***************************************************************************)
(* Proofs about Accounts, Pairing and ReaderTokens, for every set of       *)
(* accounts, callers, codes, sign-ups and tabs.  An instance that has an   *)
(* administrator keeps one, and no live admin token outlives the role of   *)
(* its owner; a device that was paired when it signed up again is told so, *)
(* and a code makes at most one slot; an identity of the browser reader    *)
(* that reading history knows is never lost.                               *)
(***************************************************************************)
EXTENDS Accounts, Pairing, ReaderTokens, NaturalsInduction, WellFoundedInduction, TLAPS

-----------------------------------------------------------------------------
(* The inductive invariant.                                                *)

InLock(c) == Busy(c) /\ tx[c].stage \in {"locked", "decided"}

(* Past its lock step a role transaction holds the lock, so it is alone.   *)
LockHeld == \A c \in Callers : InLock(c) /\ LocksRole(tx[c].req) => lock = c

(* What a role transaction read is still so when it writes.                *)
StillAllowed(req) ==
  /\ req.op = "SetUserAdmin" =>
       req.user \in exists /\ (req.on \/ OthersRemain(req.user))
  /\ req.op = "SetUserDisabled" =>
       req.user \in exists /\ (req.on /\ req.user \in isAdmin => OthersRemain(req.user))
  /\ req.op \in {"CreateToken", "UpdateTokenScopes"} /\ req.on => req.user \in EnabledAdmins

DecisionHolds ==
  \A c \in Callers : Busy(c) /\ tx[c].stage = "decided" => StillAllowed(tx[c].req)

IInv == TypeOK /\ LockHeld /\ DecisionHolds /\ AdminTokensHaveAdmins

(* The instance starts with no account and no transaction.                 *)
LEMMA InitInv == NobodyAssumption /\ Init => IInv
BY SMT DEF Init, IInv, TypeOK, LockHeld, DecisionHolds, AdminTokensHaveAdmins, InLock, Busy,
  Idle, NoToken, TokenRows

-----------------------------------------------------------------------------
(* One lemma per part of the invariant, by cases on the step.              *)

(* Every step keeps the types. *)
LEMMA TypeStep == NobodyAssumption /\ IInv /\ [Next]_vars => TypeOK'
<1>. SUFFICES ASSUME NobodyAssumption, TypeOK, DecisionHolds, [Next]_vars PROVE TypeOK'
  BY DEF IInv
<1>. USE DEF NobodyAssumption, TypeOK, Idle, Busy
<1>1. ASSUME NEW c \in Callers, Begin(c) PROVE TypeOK'
  <2>1. PICK req \in Requests : tx' = [tx EXCEPT ![c] = [req |-> req, stage |-> "begun"]]
    BY <1>1 DEF Begin
  <2>2. [req |-> req, stage |-> "begun"] \in Transactions
    BY DEF Transactions, Stages
  <2>. QED
    BY <1>1, <2>1, <2>2 DEF Begin
<1>2. ASSUME NEW c \in Callers, Lock(c) PROVE TypeOK'
  <2>1. [tx[c] EXCEPT !.stage = "locked"] \in Transactions
    BY <1>2 DEF Lock, Transactions, Stages
  <2>2. lock' \in {lock, c}
    BY <1>2 DEF Lock
  <2>. QED
    BY <1>2, <2>1, <2>2 DEF Lock
<1>3. ASSUME NEW c \in Callers, Guard(c) PROVE TypeOK'
  <2>1. [tx[c] EXCEPT !.stage = "decided"] \in Transactions
    BY <1>3 DEF Guard, Transactions, Stages
  <2>. QED
    BY <1>3, <2>1 DEF Guard
<1>4. ASSUME NEW c \in Callers, Write(c) PROVE TypeOK'
  <2>1. tx' \in [Callers -> Transactions \cup {Idle}] /\ lock' \in Callers \cup {Nobody}
        /\ (lock' # Nobody => tx'[lock'] # Idle)
    BY <1>4 DEF Write, Unlocked
  <2>2. tx[c].req \in Requests /\ StillAllowed(tx[c].req)
    BY <1>4 DEF Write, Transactions, DecisionHolds
  <2>3. \A t \in Tokens : token[t] \in TokenRows
    OBVIOUS
  <2>4. tx[c].req.user \in Users /\ tx[c].req.on \in BOOLEAN /\ tx[c].req.token \in Tokens
    BY <2>2 DEF Requests
  <2>5. CASE SetUserAdmin(tx[c].req)
    <3>1. RevokeAdminTokens(tx[c].req.user) \in [Tokens -> TokenRows]
      <4>1. \A t \in Tokens : [token[t] EXCEPT !.live = FALSE] \in TokenRows
        BY <2>3 DEF TokenRows
      <4>. QED
        BY <2>3, <4>1 DEF RevokeAdminTokens
    <3>2. token' \in [Tokens -> TokenRows]
      BY <2>5, <3>1 DEF SetUserAdmin
    <3>3. exists' = exists /\ disabled' = disabled /\ isAdmin' \subseteq exists
      BY <2>2, <2>5 DEF SetUserAdmin, StillAllowed
    <3>. QED
      BY <2>1, <3>2, <3>3
  <2>6. CASE SetUserDisabled(tx[c].req)
    BY <2>1, <2>2, <2>4, <2>6 DEF SetUserDisabled, StillAllowed
  <2>7. CASE CreateToken(tx[c].req)
    BY <2>1, <2>4, <2>7 DEF CreateToken, TokenRows
  <2>8. CASE UpdateTokenScopes(tx[c].req)
    <3>1. [token[tx[c].req.token] EXCEPT !.admin = tx[c].req.on] \in TokenRows
      BY <2>3, <2>4 DEF TokenRows
    <3>. QED
      BY <2>1, <2>4, <2>8, <3>1 DEF UpdateTokenScopes
  <2>9. CASE CreateFirstAdmin(tx[c].req)
    BY <2>1, <2>4, <2>9 DEF CreateFirstAdmin
  <2>. QED
    BY <1>4, <2>5, <2>6, <2>7, <2>8, <2>9 DEF Write
<1>5. ASSUME NEW c \in Callers, Rollback(c) PROVE TypeOK'
  BY <1>5 DEF Rollback, Unlocked
<1>6. \A t \in Tokens : [token[t] EXCEPT !.live = FALSE] \in TokenRows /\ NoToken \in TokenRows
  <2>1. \A t \in Tokens : token[t] \in TokenRows
    OBVIOUS
  <2>. QED
    BY <2>1 DEF TokenRows, NoToken
<1>7. ASSUME NEW u \in Users, CreateUser(u) \/ RevokeAllUserCredentials(u) PROVE TypeOK'
  <2>1. CASE CreateUser(u)
    BY <2>1 DEF CreateUser
  <2>2. CASE RevokeAllUserCredentials(u)
    BY <1>6, <2>2 DEF RevokeAllUserCredentials
  <2>. QED
    BY <1>7, <2>1, <2>2
<1>9. ASSUME NEW t \in Tokens, RevokeToken(t) \/ DeleteToken(t) PROVE TypeOK'
  BY <1>6, <1>9 DEF RevokeToken, DeleteToken
<1>8. CASE UNCHANGED vars
  BY <1>8 DEF vars
<1>. QED
  BY <1>1, <1>2, <1>3, <1>4, <1>5, <1>7, <1>8, <1>9 DEF Next

(* A role transaction that is past its lock step keeps the lock: nobody    *)
(* else takes it or gives it back.                                         *)
LEMMA LockStep == NobodyAssumption /\ IInv /\ [Next]_vars => LockHeld'
<1>. SUFFICES ASSUME NobodyAssumption, TypeOK, LockHeld, [Next]_vars, NEW d \in Callers,
                     InLock(d)', LocksRole(tx'[d].req)
              PROVE  lock' = d
  BY DEF IInv, LockHeld, InLock, Busy, LocksRole
<1>. USE DEF NobodyAssumption, TypeOK, Idle, Busy, InLock, LockHeld
<1>1. ASSUME NEW c \in Callers, Begin(c) PROVE lock' = d
  BY <1>1 DEF Begin
<1>2. ASSUME NEW c \in Callers, Lock(c) PROVE lock' = d
  <2>1. CASE c = d
    <3>1. tx'[d].req = tx[d].req
      BY <1>2, <2>1 DEF Lock, Transactions
    <3>. QED
      BY <1>2, <2>1, <3>1 DEF Lock
  <2>2. CASE c # d
    BY <1>2, <2>2 DEF Lock
  <2>. QED
    BY <2>1, <2>2
<1>3. ASSUME NEW c \in Callers, Guard(c) PROVE lock' = d
  <2>1. tx'[d].req = tx[d].req /\ InLock(d)
    BY <1>3 DEF Guard, Transactions
  <2>. QED
    BY <1>3, <2>1 DEF Guard
<1>4. ASSUME NEW c \in Callers, Write(c) \/ Rollback(c) PROVE lock' = d
  BY <1>4 DEF Write, Rollback, Unlocked
<1>5. CASE UNCHANGED <<lock, tx>>
  BY <1>5
<1>. QED
  BY <1>1, <1>2, <1>3, <1>4, <1>5
  DEF Next, CreateUser, RevokeAllUserCredentials, RevokeToken, DeleteToken, vars

(* The roles change only in the write of a role transaction, and accounts  *)
(* never go away.                                                          *)
RoleWrite(c) ==
  /\ Write(c)
  /\ tx[c].req.op \in {"SetUserAdmin", "SetUserDisabled", "CreateFirstAdmin"}

(* A step that is not a role write leaves every role as it is.             *)
LEMMA RolesMove ==
  [Next]_vars => \/ \E c \in Callers : RoleWrite(c)
                 \/ UNCHANGED <<isAdmin, disabled>> /\ exists \subseteq exists'
<1>1. ASSUME NEW c \in Callers, Write(c), ~RoleWrite(c)
      PROVE  UNCHANGED <<isAdmin, disabled, exists>>
  BY <1>1 DEF Write, RoleWrite, SetUserAdmin, SetUserDisabled, CreateFirstAdmin, CreateToken,
     UpdateTokenScopes
<1>. QED
  BY <1>1 DEF Next, Begin, Lock, Guard, Rollback, CreateUser, RevokeAllUserCredentials,
     RevokeToken, DeleteToken, vars

(* What a transaction decided on stays true until it writes: only it may   *)
(* change the roles, for it has the lock.                                  *)
LEMMA DecisionStep == NobodyAssumption /\ IInv /\ [Next]_vars => DecisionHolds'
<1>. SUFFICES ASSUME NobodyAssumption, TypeOK, LockHeld, DecisionHolds, [Next]_vars,
                     NEW d \in Callers, Busy(d)', tx'[d].stage = "decided"
              PROVE  StillAllowed(tx[d].req)'
  BY DEF IInv, DecisionHolds, Busy, Idle, StillAllowed, OthersRemain, EnabledAdmins
<1>. USE DEF Busy, Idle
<1>1. CASE Guard(d)
  <2>1. tx'[d].req = tx[d].req /\ UNCHANGED <<isAdmin, disabled, exists>>
    BY <1>1 DEF Guard, Transactions, TypeOK
  <2>2. MayWrite(tx[d].req)
    BY <1>1 DEF Guard
  <2>3. tx[d].req \in Requests
    BY <1>1 DEF Guard, Transactions, TypeOK
  <2>4. StillAllowed(tx[d].req)
    BY <2>2, <2>3 DEF MayWrite, Requests, Ops, MaySetAdmin, MaySetDisabled, MayCreateToken,
       MayUpdateScopes, RequireAdminAccount, StillAllowed
  <2>. QED
    BY <2>1, <2>4 DEF StillAllowed, OthersRemain, EnabledAdmins
<1>2. CASE ~Guard(d)
  <2>1. Busy(d) /\ tx[d].stage = "decided" /\ tx'[d] = tx[d]
    <3>1. ASSUME NEW c \in Callers, Begin(c) \/ Lock(c) \/ Rollback(c) \/ Write(c)
          PROVE  tx'[d] = tx[d]
      BY <3>1 DEF Begin, Lock, Rollback, Write, TypeOK, Transactions
    <3>2. ASSUME NEW c \in Callers, Guard(c) PROVE tx'[d] = tx[d]
      BY <1>2, <3>2 DEF Guard, TypeOK
    <3>. QED
      BY <3>1, <3>2 DEF Next, CreateUser, RevokeAllUserCredentials, RevokeToken, DeleteToken, vars
  <2>2. StillAllowed(tx[d].req)
    BY <2>1 DEF DecisionHolds
  <2>3. CASE UNCHANGED <<isAdmin, disabled>> /\ exists \subseteq exists'
    BY <2>1, <2>2, <2>3 DEF StillAllowed, OthersRemain, EnabledAdmins
  <2>4. ASSUME NEW c \in Callers, RoleWrite(c) PROVE StillAllowed(tx[d].req)'
    <3>1. c # d
      BY <2>1, <2>4 DEF RoleWrite, Write, TypeOK
    <3>2. lock = c
      BY <2>4 DEF RoleWrite, Write, LockHeld, InLock, LocksRole
    <3>3. ~LocksRole(tx[d].req)
      BY <2>1, <3>1, <3>2 DEF LockHeld, InLock
    <3>. QED
      BY <2>1, <3>3 DEF LocksRole, StillAllowed
  <2>. QED
    BY <2>3, <2>4, RolesMove
<1>. QED
  BY <1>1, <1>2

(* A live admin token keeps an owner with the role.                        *)
LEMMA TokensStep == NobodyAssumption /\ IInv /\ [Next]_vars => AdminTokensHaveAdmins'
<1>. SUFFICES ASSUME TypeOK, DecisionHolds, AdminTokensHaveAdmins, [Next]_vars,
                     NEW t \in Tokens, token'[t].live, token'[t].admin
              PROVE  token'[t].owner \in isAdmin'
  BY DEF IInv, AdminTokensHaveAdmins
<1>. USE DEF AdminTokensHaveAdmins
<1>0. token \in [Tokens -> TokenRows] /\ token[t] \in TokenRows
  BY DEF TypeOK
<1>1. ASSUME NEW c \in Callers, Write(c) PROVE token'[t].owner \in isAdmin'
  <2>1. StillAllowed(tx[c].req) /\ tx[c].req \in Requests
    BY <1>1 DEF Write, DecisionHolds, Transactions, TypeOK, Busy, Idle
  <2>2. CASE SetUserAdmin(tx[c].req)
    BY <1>0, <2>2 DEF SetUserAdmin, RevokeAdminTokens, TokenRows
  <2>3. CASE SetUserDisabled(tx[c].req) \/ CreateFirstAdmin(tx[c].req)
    BY <2>3 DEF SetUserDisabled, CreateFirstAdmin
  <2>4. CASE CreateToken(tx[c].req)
    BY <1>0, <2>1, <2>4 DEF CreateToken, StillAllowed, EnabledAdmins, Requests
  <2>5. CASE UpdateTokenScopes(tx[c].req)
    BY <1>0, <2>1, <2>5 DEF UpdateTokenScopes, StillAllowed, EnabledAdmins, Requests, TokenRows
  <2>. QED
    BY <1>1, <2>2, <2>3, <2>4, <2>5 DEF Write
<1>2. ASSUME NEW u \in Users, CreateUser(u) \/ RevokeAllUserCredentials(u)
      PROVE  token'[t].owner \in isAdmin'
  BY <1>0, <1>2 DEF CreateUser, RevokeAllUserCredentials, TokenRows
<1>3. ASSUME NEW r \in Tokens, RevokeToken(r) \/ DeleteToken(r)
      PROVE  token'[t].owner \in isAdmin'
  BY <1>0, <1>3 DEF RevokeToken, DeleteToken, NoToken, TokenRows
<1>4. CASE UNCHANGED <<token, isAdmin>>
  BY <1>4
<1>. QED
  BY <1>1, <1>2, <1>3, <1>4 DEF Next, Begin, Lock, Guard, Rollback, vars

-----------------------------------------------------------------------------
(* The theorems.                                                           *)

(* The invariant holds throughout. *)
LEMMA Invariance == ASSUME NobodyAssumption PROVE Spec => []IInv
<1>1. Init => IInv
  BY InitInv
<1>2. IInv /\ [Next]_vars => IInv'
  BY TypeStep, LockStep, DecisionStep, TokensStep DEF IInv
<1>. QED
  BY <1>1, <1>2, PTL DEF Spec

(* The tables and the lock keep their types, and the lock is never held by *)
(* a caller without a transaction.                                         *)
THEOREM TypesHold == ASSUME NobodyAssumption PROVE Spec => []TypeOK
<1>1. IInv => TypeOK
  BY DEF IInv
<1>. QED
  BY <1>1, Invariance, PTL

(* A live token with the admin scope belongs to an account that has the    *)
(* role, however demotions and grants interleave (requireAdminAccount and  *)
(* the revocation in SetUserAdmin).                                        *)
THEOREM AdminTokens == ASSUME NobodyAssumption PROVE Spec => []AdminTokensHaveAdmins
<1>1. IInv => AdminTokensHaveAdmins
  BY DEF IInv
<1>. QED
  BY <1>1, Invariance, PTL

(* Of any number of demotions and disablings at once, none takes the last  *)
(* administrator who can sign in (SetUserAdmin and SetUserDisabled).       *)
THEOREM AdminRemains == ASSUME NobodyAssumption PROVE Spec => AnAdminRemains
<1>1. IInv /\ [Next]_vars => [EnabledAdmins # {} => EnabledAdmins' # {}]_vars
  <2>. SUFFICES ASSUME IInv, [Next]_vars, EnabledAdmins # {} PROVE EnabledAdmins' # {}
    OBVIOUS
  <2>1. CASE UNCHANGED <<isAdmin, disabled>>
    BY <2>1 DEF EnabledAdmins
  <2>2. ASSUME NEW c \in Callers, RoleWrite(c) PROVE EnabledAdmins' # {}
    <3>1. StillAllowed(tx[c].req)
      BY <2>2 DEF RoleWrite, Write, IInv, DecisionHolds
    <3>2. CASE SetUserAdmin(tx[c].req)
      BY <3>1, <3>2 DEF SetUserAdmin, StillAllowed, OthersRemain, EnabledAdmins
    <3>3. CASE SetUserDisabled(tx[c].req)
      BY <3>1, <3>3 DEF SetUserDisabled, StillAllowed, OthersRemain, EnabledAdmins
    <3>4. CASE CreateFirstAdmin(tx[c].req)
      BY <3>4 DEF CreateFirstAdmin, EnabledAdmins
    <3>. QED
      BY <2>2, <3>2, <3>3, <3>4 DEF RoleWrite, Write, CreateToken, UpdateTokenScopes
  <2>. QED
    BY <2>1, <2>2, RolesMove
<1>. QED
  BY <1>1, Invariance, PTL DEF Spec, AnAdminRemains

-----------------------------------------------------------------------------
(* The inductive invariant.                                                *)

PairingTyped == slots \subseteq SlotRows /\ pc \in [Signups -> PairingStages] /\ knew \subseteq Signups

(* The slot a device was paired with is still there, revoked or not.       *)
KnownSlotStays == \A s \in knew : KeyRow(s)

(* Past the first look at the slots, a device that was paired no longer is:*)
(* its slot was revoked before, and its key makes no other.                *)
PastRecognition(s) == pc[s] \notin {"unsent", "arrived", "slot taken"}

UnpairedWhenServed == \A s \in knew : PastRecognition(s) => ~Paired(s)

(* Who was known was sent.                                                 *)
KnownWereSent == \A s \in knew : pc[s] # "unsent"

(* A code is the key of one row at most.                                   *)
OneSlotPerCode == \A d, e \in slots : d.key = e.key => d = e

PairingInv == PairingTyped /\ KnownWereSent /\ KnownSlotStays /\ UnpairedWhenServed /\ OneSlotPerCode

(* Nothing was sent before the first code. *)
LEMMA PairingInitInv == PairingInit => PairingInv
BY DEF PairingInit, PairingInv, PairingTyped, PairingStages, KnownWereSent, KnownSlotStays, UnpairedWhenServed, OneSlotPerCode

(* A sign-up is only ever moved on by its own request.                     *)
LEMMA ServeStep ==
  ASSUME PairingTyped, NEW s \in Signups, Serve(s)
  PROVE  /\ pc[s] # "unsent" /\ knew' = knew
         /\ \E a \in PairingStages \ {"unsent", "arrived"} : pc' = [pc EXCEPT ![s] = a]
<1>. USE DEF PairingTyped, PairingStages, Answers
<1>1. CASE Recognise(s)
  BY <1>1 DEF Recognise
<1>2. CASE ReadCode(s)
  BY <1>2 DEF ReadCode
<1>3. CASE Redeem(s)
  BY <1>3 DEF Redeem
<1>4. CASE CountSlots(s)
  BY <1>4 DEF CountSlots, End
<1>5. CASE Insert(s)
  BY <1>5 DEF Insert, End
<1>. QED
  BY <1>1, <1>2, <1>3, <1>4, <1>5 DEF Serve

(* What a step does to the rows: none, one new row with a key of its own,  *)
(* or one row that is revoked in its place.                                *)
Fresh(d) == ~d.revoked /\ \A e \in slots : e.key # d.key

Revoked(d) == [d EXCEPT !.revoked = TRUE]

(* These are the only changes of the rows.                                 *)
LEMMA SlotsStep ==
  ASSUME PairingAssumption, PairingTyped, [PairingNext]_pairingVars
  PROVE  \/ slots' = slots
         \/ /\ \E d \in SlotRows : Fresh(d) /\ slots' = slots \cup {d}
            /\ \E s \in Signups : Insert(s)
         \/ \E d \in slots : slots' = (slots \ {d}) \cup {Revoked(d)} /\ UNCHANGED <<pc, knew>>
<1>1. ASSUME NEW s \in Signups, Insert(s), slots' # slots
      PROVE  \E d \in SlotRows : Fresh(d) /\ slots' = slots \cup {d}
  <2>. DEFINE row == [user |-> UserOf[CodeOf[s]], slot |-> SlotOf[s], key |-> CodeOf[s],
                      revoked |-> FALSE]
  <2>1. ~KeyRow(s) /\ slots' = slots \cup {row}
    BY <1>1 DEF Insert
  <2>2. row.key = CodeOf[s] /\ ~row.revoked
    OBVIOUS
  <2>3. row \in SlotRows
    BY DEF SlotRows, PairingAssumption
  <2>. QED
    BY <2>1, <2>2, <2>3 DEF Fresh, KeyRow
<1>. QED
  BY <1>1 DEF PairingNext, pairingVars, CreatePairingCode, ExpireCode, Send, Serve, Recognise, ReadCode, Redeem,
     CountSlots, RevokeKosyncDevice, Revoked

(* SlotRows keep their shape. *)
LEMMA RevokedRow ==
  ASSUME NEW d \in SlotRows
  PROVE  Revoked(d) \in SlotRows /\ Revoked(d).key = d.key /\ Revoked(d).slot = d.slot /\ Revoked(d).revoked
BY DEF SlotRows, Revoked

(* The types, and what each step makes of the sign-ups. *)
LEMMA PairingTypedStep == ASSUME PairingAssumption, PairingTyped, [PairingNext]_pairingVars PROVE PairingTyped'
<1>1. slots' \subseteq SlotRows
  BY SlotsStep, RevokedRow DEF PairingTyped
<1>2. pc' \in [Signups -> PairingStages] /\ knew' \subseteq Signups
  <2>1. ASSUME NEW s \in Signups, Serve(s) PROVE pc' \in [Signups -> PairingStages] /\ knew' \subseteq Signups
    BY <2>1, ServeStep DEF PairingTyped
  <2>2. ASSUME NEW s \in Signups, Send(s) PROVE pc' \in [Signups -> PairingStages] /\ knew' \subseteq Signups
    BY <2>2 DEF Send, PairingTyped, PairingStages
  <2>. QED
    BY <2>1, <2>2 DEF PairingNext, CreatePairingCode, ExpireCode, RevokeKosyncDevice, pairingVars, PairingTyped
<1>. QED
  BY <1>1, <1>2 DEF PairingTyped

(* The rows of a key never disappear, and no key gets a second one.        *)
LEMMA RowsStep ==
  ASSUME PairingAssumption, PairingInv, [PairingNext]_pairingVars
  PROVE  /\ OneSlotPerCode'
         /\ \A s \in Signups : KeyRow(s) => KeyRow(s)' /\ (Paired(s)' => Paired(s))
<1>. USE DEF PairingInv, PairingTyped
<1>1. CASE slots' = slots
  BY <1>1 DEF OneSlotPerCode, KeyRow, Paired
<1>2. ASSUME NEW d \in SlotRows, Fresh(d), slots' = slots \cup {d}
      PROVE  /\ OneSlotPerCode'
             /\ \A s \in Signups : KeyRow(s) => KeyRow(s)' /\ (Paired(s)' => Paired(s))
  BY <1>2 DEF Fresh, OneSlotPerCode, KeyRow, Paired
<1>3. ASSUME NEW d \in slots, slots' = (slots \ {d}) \cup {Revoked(d)}
      PROVE  /\ OneSlotPerCode'
             /\ \A s \in Signups : KeyRow(s) => KeyRow(s)' /\ (Paired(s)' => Paired(s))
  <2>1. Revoked(d).key = d.key /\ Revoked(d).revoked
    BY RevokedRow
  <2>. QED
    BY <1>3, <2>1 DEF OneSlotPerCode, KeyRow, Paired
<1>. QED
  BY <1>1, <1>2, <1>3, SlotsStep

(* Every step keeps what is known of the sign-ups that were sent paired.   *)
LEMMA KnownStep ==
  ASSUME PairingAssumption, PairingInv, [PairingNext]_pairingVars
  PROVE  KnownWereSent' /\ KnownSlotStays' /\ UnpairedWhenServed'
<1>. USE DEF PairingInv, PairingTyped
<1>1. SUFFICES ASSUME NEW s \in Signups, s \in knew'
               PROVE  pc'[s] # "unsent" /\ KeyRow(s)' /\ (PastRecognition(s)' => ~Paired(s)')
  <2>1. knew' \subseteq Signups
    BY PairingTypedStep DEF PairingTyped
  <2>. QED
    BY <1>1, <2>1 DEF KnownWereSent, KnownSlotStays, UnpairedWhenServed
<1>2. ASSUME Send(s) PROVE pc'[s] # "unsent" /\ KeyRow(s)' /\ ~PastRecognition(s)'
  BY <1>1, <1>2 DEF Send, KeyRow, Paired, PastRecognition, KnownWereSent
<1>3. ASSUME s \in knew PROVE KeyRow(s)' /\ (Paired(s)' => Paired(s))
  BY <1>3, RowsStep DEF KnownSlotStays
<1>4. ASSUME s \in knew, Recognise(s) PROVE pc'[s] # "unsent" /\ (PastRecognition(s)' => ~Paired(s)')
  BY <1>3, <1>4 DEF Recognise, PastRecognition
<1>5. ASSUME s \in knew, Serve(s), ~Recognise(s)
      PROVE  pc'[s] # "unsent" /\ (PastRecognition(s)' => ~Paired(s)')
  <2>1. PastRecognition(s)
    BY <1>5 DEF Serve, ReadCode, Redeem, CountSlots, Insert, PastRecognition
  <2>2. pc'[s] # "unsent"
    BY <1>5, ServeStep DEF PairingStages
  <2>. QED
    BY <1>3, <1>5, <2>1, <2>2 DEF UnpairedWhenServed
<1>6. ASSUME ~Send(s), ~Serve(s) PROVE pc'[s] = pc[s] /\ s \in knew
  <2>1. ASSUME NEW r \in Signups, Send(r) PROVE pc'[s] = pc[s] /\ s \in knew
    BY <1>1, <1>6, <2>1 DEF Send
  <2>2. ASSUME NEW r \in Signups, Serve(r) PROVE pc'[s] = pc[s] /\ s \in knew
    BY <1>1, <1>6, <2>2, ServeStep
  <2>. QED
    BY <1>1, <2>1, <2>2 DEF PairingNext, CreatePairingCode, ExpireCode, RevokeKosyncDevice, pairingVars
<1>7. ASSUME Serve(s) PROVE s \in knew
  BY <1>1, <1>7, ServeStep
<1>. QED
  BY <1>2, <1>3, <1>4, <1>5, <1>6, <1>7 DEF KnownWereSent, UnpairedWhenServed, PastRecognition

-----------------------------------------------------------------------------
(* The theorems.                                                           *)

(* The invariant holds throughout. *)
LEMMA PairingInvariance == ASSUME PairingAssumption PROVE PairingSpec => []PairingInv
<1>1. PairingInit => PairingInv
  BY PairingInitInv
<1>2. PairingInv /\ [PairingNext]_pairingVars => PairingInv'
  <2>. SUFFICES ASSUME PairingInv, [PairingNext]_pairingVars PROVE PairingInv'
    OBVIOUS
  <2>1. PairingTyped' /\ OneSlotPerCode'
    BY PairingTypedStep, RowsStep DEF PairingInv
  <2>. QED
    BY <2>1, KnownStep DEF PairingInv
<1>. QED
  BY <1>1, <1>2, PTL DEF PairingSpec

(* A device that was paired when it signed up again is never refused while *)
(* its slot is not revoked, whoever else spends its code (HandleCreateUser *)
(* looks for the slot before it looks at the code).                        *)
THEOREM PairedDeviceIsRecognised ==
  ASSUME PairingAssumption PROVE PairingSpec => []RetryOfAPairedDevice
<1>1. PairingInv => RetryOfAPairedDevice
  BY DEF PairingInv, UnpairedWhenServed, PastRecognition, RetryOfAPairedDevice
<1>. QED
  BY <1>1, PairingInvariance, PTL

(* However many sign-ups carry one code, under whatever slot names and in  *)
(* whatever order, it makes at most one slot (redeemPairingCodeTx and the  *)
(* unique key of kosync_devices).                                          *)
THEOREM CodeMakesOneSlot == ASSUME PairingAssumption PROVE PairingSpec => []OneSlotPerCode
<1>1. PairingInv => OneSlotPerCode
  BY DEF PairingInv
<1>. QED
  BY <1>1, PairingInvariance, PTL

-----------------------------------------------------------------------------
(* The browser reader's tokens: no identity is lost.                       *)

(* What a mint has read is older than what it makes, and an id names the   *)
(* same identity wherever it is seen.                                      *)
IdsAreOrdered ==
  /\ \A t \in tokens : t.id <= minted
  /\ \A c \in Tabs : \A o \in mint[c].seen : o.id <= minted

SameId(o, t) == o.id = t.id => o.device = t.device

IdNamesDevice ==
  \A c \in Tabs : \A o \in mint[c].seen :
     /\ \A t \in tokens : SameId(o, t)
     /\ \A p \in mint[c].seen : o.id = p.id => o = p

(* A token of the same identity that is as new as o.                       *)
AsNew(t, o) == t.device = o.device /\ t.id >= o.id

(* Whatever a mint has seen, a token as new of that identity is kept ...   *)
SeenIsKept == \A c \in Tabs : \A o \in mint[c].seen : \E t \in tokens : AsNew(t, o)

(* ... and of the identity it minted for, one that is newer than its list. *)
OwnIsNewest ==
  \A c \in Tabs : mint[c].stage = "minted" =>
     \E t \in tokens : t.device = mint[c].device /\ \A o \in mint[c].seen : o.id < t.id

ReaderInv == ReaderTypeOK /\ IdsAreOrdered /\ IdNamesDevice /\ SeenIsKept /\ OwnIsNewest

(* There is no token and no request at the start. *)
LEMMA ReaderInitInv == ReaderAssumption /\ ReaderInit => ReaderInv
BY SMT DEF ReaderAssumption, ReaderInit, ReaderInv, ReaderTypeOK, IdsAreOrdered, IdNamesDevice,
  SeenIsKept, OwnIsNewest, IdleTab

-----------------------------------------------------------------------------
(* The newest of some tokens.                                              *)

(* A set of naturals that is not empty has a least element.                *)
LEMMA LeastExists ==
  ASSUME NEW S \in SUBSET Nat, S # {}
  PROVE  \E m \in S : \A k \in S : m <= k
<1>1. PICK x \in S : \A y \in S : ~(<<y, x>> \in OpToRel(<, Nat))
  BY WFMin, NatLessThanWellFounded
<1>2. ASSUME NEW k \in S, k < x PROVE FALSE
  <2>1. <<k, x>> \in OpToRel(<, Nat)
    BY <1>2, Zenon DEF OpToRel
  <2>. QED
    BY <2>1, <1>1, Zenon
<1>3. \A a, b \in Nat : ~(a < b) => b <= a
  BY SMT
<1>. QED
  BY <1>2, <1>3, Zenon

(* Newest returns the element of the greatest id.                          *)
LEMMA NewestOf ==
  ASSUME ReaderAssumption, NEW S \in SUBSET ReaderRows, S # {}
  PROVE  Newest(S) \in S /\ \A o \in S : o.id <= Newest(S).id
<1>. DEFINE Left == {MaxTokens - t.id : t \in S}
<1>1. \A t \in S : t.id \in 1..MaxTokens
  BY DEF ReaderRows
<1>2. Left \in SUBSET Nat /\ Left # {}
  BY <1>1 DEF ReaderAssumption
<1>3. PICK m \in Left : \A k \in Left : m <= k
  BY <1>2, LeastExists
<1>4. PICK t \in S : m = MaxTokens - t.id
  BY <1>3
<1>5. ASSUME NEW o \in S PROVE o.id <= t.id
  <2>1. m <= MaxTokens - o.id
    BY <1>3
  <2>. QED
    BY <2>1, <1>1, <1>4 DEF ReaderAssumption
<1>6. \E x \in S : \A o \in S : o.id <= x.id
  BY <1>5
<1>. QED
  BY <1>6, Zenon DEF Newest

(* The newest token of every identity outlives a mint's deletions: what a  *)
(* mint reaps is older than its own token, or than another one of its list *)
(* (the second of which may be gone, but never without a newer one).       *)
LEMMA ReapSpares ==
  ASSUME ReaderAssumption, ReaderInv, NEW c \in Tabs, Reap(c), NEW t \in tokens
  PROVE  \E m \in tokens' : AsNew(m, t)
<1>. DEFINE S == {o \in tokens : o.device = t.device}
            m == Newest(S)
            seen == mint[c].seen
            gone == {o.id : o \in Reaped(mint[c].seen, mint[c].device)}
<1>0. tokens \subseteq ReaderRows /\ seen \subseteq ReaderRows /\ t \in S
  BY DEF ReaderInv, ReaderTypeOK
<1>1. m \in S /\ \A o \in S : o.id <= m.id
  <2>1. S \in SUBSET ReaderRows /\ S # {}
    BY <1>0
  <2>. QED
    BY <2>1, NewestOf
<1>2. \A o \in ReaderRows : o.id \in Nat
  BY DEF ReaderRows, ReaderAssumption
<1>3. SUFFICES ASSUME m.id \in gone PROVE FALSE
  <2>1. tokens' = {o \in tokens : o.id \notin gone}
    BY DEF Reap
  <2>2. m \in tokens /\ m.device = t.device /\ m.id >= t.id
    BY <1>0, <1>1, <1>2
  <2>. QED
    BY <1>3, <2>1, <2>2 DEF AsNew
<1>4. PICK o \in Reaped(seen, mint[c].device) : o.id = m.id
  BY <1>3
<1>5. o \in seen /\ o \in ReaderRows
  BY <1>0, <1>4 DEF Reaped
<1>6. o.device = m.device /\ m.device = t.device
  BY <1>1, <1>4, <1>5 DEF ReaderInv, IdNamesDevice, SameId
<1>7. CASE o.device = mint[c].device
  <2>1. PICK n \in tokens : n.device = mint[c].device /\ o.id < n.id
    BY <1>5 DEF Reap, ReaderInv, OwnIsNewest
  <2>2. n \in S
    BY <1>6, <1>7, <2>1
  <2>. QED
    BY <1>0, <1>1, <1>2, <1>4, <1>5, <2>1, <2>2
<1>8. CASE o.device # mint[c].device
  <2>. DEFINE Q == {p \in seen : p.device = o.device}
              n == Newest(Q)
  <2>1. n \in Q /\ o.id <= n.id
    <3>1. Q \in SUBSET ReaderRows /\ o \in Q
      BY <1>0, <1>5
    <3>. QED
      BY <3>1, NewestOf
  <2>2. o # n
    BY <1>4, <1>8 DEF Reaped
  <2>3. n.id # o.id
    BY <1>5, <2>1, <2>2 DEF ReaderInv, IdNamesDevice
  <2>4. PICK k \in tokens : AsNew(k, n)
    BY <2>1 DEF ReaderInv, SeenIsKept
  <2>5. k \in S
    BY <1>6, <2>1, <2>4 DEF AsNew
  <2>. QED
    BY <1>0, <1>1, <1>2, <1>4, <1>5, <2>1, <2>3, <2>4, <2>5 DEF AsNew
<1>. QED
  BY <1>7, <1>8

(* A token that dies keeps its place: id and identity.                     *)
Dead(t) == [t EXCEPT !.dead = TRUE]

LEMMA DeadRow ==
  ASSUME NEW t \in ReaderRows
  PROVE  Dead(t) \in ReaderRows /\ Dead(t).id = t.id /\ Dead(t).device = t.device
BY DEF ReaderRows, Dead

(* Every step keeps, of each identity, a token as new as each it had.      *)
LEMMA NewestStays ==
  ASSUME ReaderAssumption, ReaderInv, [ReaderNext]_readerVars, NEW t \in tokens
  PROVE  \E m \in tokens' : AsNew(m, t)
<1>0. t \in ReaderRows /\ t.id \in Nat
  BY DEF ReaderInv, ReaderTypeOK, ReaderRows, ReaderAssumption
<1>1. ASSUME NEW c \in Tabs, Reap(c) PROVE \E m \in tokens' : AsNew(m, t)
  BY <1>1, ReapSpares
<1>2. ASSUME NEW c \in Tabs, Mint(c) PROVE \E m \in tokens' : AsNew(m, t)
  BY <1>0, <1>2 DEF Mint, AsNew
<1>3. ASSUME Dead(t) \in tokens' PROVE \E m \in tokens' : AsNew(m, t)
  BY <1>0, <1>3, DeadRow DEF AsNew
<1>4. ASSUME t \in tokens' PROVE \E m \in tokens' : AsNew(m, t)
  BY <1>0, <1>4 DEF AsNew
<1>5. ASSUME NEW r \in tokens, ExpireToken(r) PROVE \E m \in tokens' : AsNew(m, t)
  BY <1>3, <1>4, <1>5 DEF ExpireToken, Dead
<1>6. ASSUME RevokeNext PROVE \E m \in tokens' : AsNew(m, t)
  BY <1>3, <1>4, <1>6 DEF RevokeNext, Dead
<1>. QED
  BY <1>1, <1>2, <1>4, <1>5, <1>6 DEF ReaderNext, ListTokens, GiveUp, ListToRevoke, readerVars

(* A mint inherits an identity that exists, or starts one.                 *)
LEMMA InheritRow ==
  ASSUME ReaderAssumption, NEW seen \in SUBSET ReaderRows, NEW id \in 1..MaxTokens
  PROVE  /\ Inherit(seen, id) \in 1..MaxTokens
         /\ [id |-> id, device |-> Inherit(seen, id), dead |-> FALSE] \in ReaderRows
<1>1. seen # {} => Newest(seen) \in ReaderRows
  BY NewestOf
<1>2. Inherit(seen, id) \in 1..MaxTokens
  BY <1>1 DEF Inherit, ReaderRows
<1>. QED
  BY <1>2 DEF ReaderRows

(* Tokens are made only by mints, and otherwise keep id and identity.      *)
Continues(n) == \E t \in tokens : t.id = n.id /\ t.device = n.device

LEMMA TokensMove ==
  ASSUME ReaderAssumption, ReaderInv, [ReaderNext]_readerVars
  PROVE  /\ tokens' \subseteq ReaderRows
         /\ \A s, t \in tokens' : s.id = t.id => s = t
         /\ minted' \in 0..MaxTokens /\ minted <= minted'
         /\ \A n \in tokens' : Continues(n) \/ (n.id = minted + 1 /\ minted' = minted + 1)
<1>. DEFINE Goal == /\ tokens' \subseteq ReaderRows
                    /\ \A s, t \in tokens' : s.id = t.id => s = t
                    /\ minted' \in 0..MaxTokens /\ minted <= minted'
                    /\ \A n \in tokens' : Continues(n) \/ (n.id = minted + 1 /\ minted' = minted + 1)
<1>0. /\ tokens \subseteq ReaderRows /\ minted \in 0..MaxTokens
      /\ \A s, t \in tokens : s.id = t.id => s = t
      /\ \A t \in tokens : t.id <= minted /\ t.id \in Nat
  BY DEF ReaderInv, ReaderTypeOK, IdsAreOrdered, ReaderRows, ReaderAssumption
<1>a. ASSUME minted' = minted PROVE minted' \in 0..MaxTokens /\ minted <= minted'
  <2>1. minted \in 0..MaxTokens
    BY <1>0
  <2>. QED
    BY <1>a, <2>1 DEF ReaderAssumption
<1>1. CASE tokens' \subseteq tokens /\ minted' = minted
  <2>1. \A n \in tokens' : Continues(n)
    BY <1>1 DEF Continues
  <2>2. minted' \in 0..MaxTokens /\ minted <= minted'
    BY <1>1, <1>a
  <2>. QED
    BY <1>0, <1>1, <2>1, <2>2
<1>2. ASSUME NEW c \in Tabs, Mint(c) PROVE Goal
  <2>. DEFINE row == [id |-> minted + 1, device |-> Inherit(mint[c].seen, minted + 1), dead |-> FALSE]
  <2>1. mint[c].seen \in SUBSET ReaderRows /\ minted + 1 \in 1..MaxTokens
    BY <1>0, <1>2 DEF ReaderInv, ReaderTypeOK, Mint, ReaderAssumption
  <2>2. row \in ReaderRows /\ row.id = minted + 1
    BY <2>1, InheritRow
  <2>3. tokens' = tokens \cup {row} /\ minted' = minted + 1
    BY <1>2 DEF Mint
  <2>. HIDE DEF row
  <2>4. \A t \in tokens : t.id # row.id
    BY <1>0, <2>2
  <2>. QED
    BY <1>0, <2>1, <2>2, <2>3, <2>4 DEF Continues, ReaderAssumption
<1>3. ASSUME NEW r \in tokens, ExpireToken(r) PROVE Goal
  <2>1. tokens' = (tokens \ {r}) \cup {Dead(r)} /\ minted' = minted
    BY <1>3 DEF ExpireToken, Dead
  <2>2. Dead(r) \in ReaderRows /\ Dead(r).id = r.id /\ Dead(r).device = r.device
    BY <1>0, DeadRow
  <2>3. \A n \in tokens' : n \in ReaderRows /\ Continues(n)
    BY <1>0, <2>1, <2>2 DEF Continues
  <2>4. \A s, t \in tokens' : s.id = t.id => s = t
    BY <1>0, <2>1, <2>2
  <2>5. minted' \in 0..MaxTokens /\ minted <= minted'
    BY <2>1, <1>a
  <2>. QED
    BY <2>3, <2>4, <2>5
<1>4. ASSUME RevokeNext PROVE Goal
  <2>1. PICK id \in signingOut : tokens' = {IF r.id = id THEN Dead(r) ELSE r : r \in tokens}
    BY <1>4 DEF RevokeNext, Dead
  <2>2. \A r \in tokens : Dead(r) \in ReaderRows /\ Dead(r).id = r.id /\ Dead(r).device = r.device
    BY <1>0, DeadRow
  <2>3. minted' = minted
    BY <1>4 DEF RevokeNext
  <2>4. \A n \in tokens' : \E r \in tokens :
          /\ n.id = r.id /\ n.device = r.device /\ n \in ReaderRows
          /\ n = IF r.id = id THEN Dead(r) ELSE r
    BY <1>0, <2>1, <2>2
  <2>5. \A n \in tokens' : n \in ReaderRows /\ Continues(n)
    BY <2>4 DEF Continues
  <2>6. \A s, t \in tokens' : s.id = t.id => s = t
    BY <1>0, <2>4
  <2>7. minted' \in 0..MaxTokens /\ minted <= minted'
    BY <2>3, <1>a
  <2>. QED
    BY <2>5, <2>6, <2>7
<1>. QED
  BY <1>1, <1>2, <1>3, <1>4
  DEF ReaderNext, ListTokens, Reap, GiveUp, ListToRevoke, readerVars

(* What a request has read changes only when it lists, and when it ends.   *)
LEMMA MintMoves ==
  ASSUME ReaderAssumption, ReaderInv, [ReaderNext]_readerVars, NEW c \in Tabs
  PROVE  \/ mint'[c] = mint[c]
         \/ mint'[c] = IdleTab
         \/ mint'[c] = [stage |-> "listed", seen |-> tokens, device |-> 0] /\ UNCHANGED tokens
         \/ Mint(c) /\ mint'[c] = [stage |-> "minted", seen |-> mint[c].seen,
                                   device |-> Inherit(mint[c].seen, minted + 1)]
<1>. USE DEF ReaderInv, ReaderTypeOK
<1>1. ASSUME NEW d \in Tabs, ListTokens(d) \/ Reap(d) \/ GiveUp(d)
      PROVE  \/ mint'[c] = mint[c]
             \/ mint'[c] = IdleTab
             \/ mint'[c] = [stage |-> "listed", seen |-> tokens, device |-> 0] /\ UNCHANGED tokens
  BY <1>1 DEF ListTokens, Reap, GiveUp
<1>2. ASSUME NEW d \in Tabs, Mint(d)
      PROVE  \/ mint'[c] = mint[c]
             \/ Mint(c) /\ mint'[c] = [stage |-> "minted", seen |-> mint[c].seen,
                                       device |-> Inherit(mint[c].seen, minted + 1)]
  BY <1>2 DEF Mint
<1>. QED
  BY <1>1, <1>2 DEF ReaderNext, ExpireToken, ListToRevoke, RevokeNext, readerVars

(* So the list of a request is the one it had, none, or the tokens of now. *)
LEMMA SeenMoves ==
  ASSUME ReaderAssumption, ReaderInv, [ReaderNext]_readerVars, NEW c \in Tabs
  PROVE  \/ mint'[c].seen = mint[c].seen
         \/ mint'[c].seen = {}
         \/ mint'[c].seen = tokens /\ UNCHANGED tokens
<1>1. CASE mint'[c] = IdleTab
  BY <1>1 DEF IdleTab
<1>2. CASE mint'[c] = [stage |-> "listed", seen |-> tokens, device |-> 0] /\ UNCHANGED tokens
  BY <1>2
<1>3. CASE mint'[c] = [stage |-> "minted", seen |-> mint[c].seen,
                       device |-> Inherit(mint[c].seen, minted + 1)]
  BY <1>3
<1>. QED
  BY <1>1, <1>2, <1>3, MintMoves

(* The types. *)
LEMMA ReaderTypeStep ==
  ASSUME ReaderAssumption, ReaderInv, [ReaderNext]_readerVars PROVE ReaderTypeOK'
<1>. DEFINE Requested == [stage : {"idle", "listed", "minted"}, seen : SUBSET ReaderRows,
                          device : 0..MaxTokens]
<1>1. ASSUME NEW c \in Tabs PROVE mint'[c] \in Requested
  <2>1. mint[c] \in Requested /\ tokens \in SUBSET ReaderRows
    BY DEF ReaderInv, ReaderTypeOK
  <2>2. mint[c].seen \in SUBSET ReaderRows
    BY <2>1
  <2>3. IdleTab \in Requested
    BY DEF IdleTab, ReaderAssumption
  <2>4. [stage |-> "listed", seen |-> tokens, device |-> 0] \in Requested
    BY <2>1 DEF ReaderAssumption
  <2>5. ASSUME Mint(c)
        PROVE  [stage |-> "minted", seen |-> mint[c].seen,
                device |-> Inherit(mint[c].seen, minted + 1)] \in Requested
    <3>1. minted + 1 \in 1..MaxTokens
      BY <2>5 DEF ReaderInv, ReaderTypeOK, Mint, ReaderAssumption
    <3>2. Inherit(mint[c].seen, minted + 1) \in 1..MaxTokens
      BY <2>2, <3>1, InheritRow
    <3>3. 1..MaxTokens \subseteq 0..MaxTokens
      BY DEF ReaderAssumption
    <3>. QED
      BY <2>2, <3>2, <3>3
  <2>. QED
    BY <2>1, <2>3, <2>4, <2>5, MintMoves
<1>2. mint' \in [Tabs -> Requested]
  <2>1. mint' = [c \in Tabs |-> mint'[c]]
    BY DEF ReaderInv, ReaderTypeOK, ReaderNext, ListTokens, Mint, Reap, GiveUp, ExpireToken,
       ListToRevoke, RevokeNext, readerVars
  <2>. HIDE DEF Requested
  <2>. QED
    BY <1>1, <2>1, Zenon
<1>3. signingOut' \subseteq 1..MaxTokens
  <2>1. \A t \in tokens : t.id \in 1..MaxTokens
    BY DEF ReaderInv, ReaderTypeOK, ReaderRows
  <2>2. signingOut \subseteq 1..MaxTokens
    BY DEF ReaderInv, ReaderTypeOK
  <2>. QED
    BY <2>1, <2>2 DEF ReaderNext, ListTokens, Mint, Reap, GiveUp, ExpireToken,
       ListToRevoke, RevokeNext, readerVars
<1>. QED
  BY <1>2, <1>3, TokensMove DEF ReaderTypeOK

(* Ids stay in their order and keep their identities.                      *)
LEMMA IdsStep ==
  ASSUME ReaderAssumption, ReaderInv, [ReaderNext]_readerVars
  PROVE  IdsAreOrdered' /\ IdNamesDevice'
<1>0. /\ tokens \subseteq ReaderRows /\ minted \in Nat /\ minted' \in Nat
      /\ \A c \in Tabs : mint[c].seen \subseteq ReaderRows
      /\ \A r \in ReaderRows : r.id \in Nat
      /\ \A s, t \in tokens : s.id = t.id => s = t
  BY TokensMove DEF ReaderInv, ReaderTypeOK, ReaderAssumption, ReaderRows
<1>1. \A t \in tokens' : t.id <= minted'
  BY <1>0, TokensMove DEF ReaderInv, IdsAreOrdered, Continues
<1>3. ASSUME NEW c \in Tabs, NEW o \in mint'[c].seen
      PROVE  /\ o.id <= minted' /\ o.id <= minted
             /\ \A t \in tokens' : SameId(o, t)
             /\ \A p \in mint'[c].seen : o.id = p.id => o = p
  <2>1. CASE mint'[c].seen = mint[c].seen
    <3>1. o.id <= minted /\ o.id \in Nat
      BY <1>0, <1>3, <2>1 DEF ReaderInv, IdsAreOrdered
    <3>2. \A t \in tokens' : SameId(o, t)
      BY <1>0, <1>3, <2>1, <3>1, TokensMove DEF ReaderInv, IdNamesDevice, SameId, Continues
    <3>3. \A p \in mint'[c].seen : o.id = p.id => o = p
      BY <1>3, <2>1 DEF ReaderInv, IdNamesDevice
    <3>. QED
      BY <1>0, <3>1, <3>2, <3>3, TokensMove
  <2>2. CASE mint'[c].seen = tokens /\ tokens' = tokens
    BY <1>0, <1>1, <1>3, <2>2, TokensMove DEF ReaderInv, IdsAreOrdered, SameId
  <2>. QED
    BY <1>3, <2>1, <2>2, SeenMoves
<1>4. IdsAreOrdered'
  BY <1>1, <1>3 DEF IdsAreOrdered
<1>5. IdNamesDevice'
  BY <1>3 DEF IdNamesDevice, SameId
<1>. QED
  BY <1>4, <1>5

(* What a request has seen stays kept, and its own token the newest.       *)
LEMMA KeptStep ==
  ASSUME ReaderAssumption, ReaderInv, [ReaderNext]_readerVars
  PROVE  SeenIsKept' /\ OwnIsNewest'
<1>0. /\ \A t \in tokens : t \in ReaderRows
      /\ \A t \in tokens' : t \in ReaderRows
      /\ \A c \in Tabs : \A o \in mint[c].seen : o \in ReaderRows
      /\ \A r \in ReaderRows : r.id \in Nat
  BY TokensMove DEF ReaderInv, ReaderTypeOK, ReaderRows, ReaderAssumption
<1>1. ASSUME NEW c \in Tabs, NEW o \in mint'[c].seen PROVE \E t \in tokens' : AsNew(t, o)
  <2>1. CASE o \in mint[c].seen
    <3>1. PICK t \in tokens : AsNew(t, o)
      BY <2>1 DEF ReaderInv, SeenIsKept
    <3>2. PICK m \in tokens' : AsNew(m, t)
      BY NewestStays
    <3>3. m.id \in Nat /\ t.id \in Nat /\ o.id \in Nat
      BY <1>0, <2>1
    <3>. QED
      BY <3>1, <3>2, <3>3 DEF AsNew
  <2>2. CASE o \in tokens
    BY <2>2, NewestStays
  <2>. QED
    BY <1>1, <2>1, <2>2, SeenMoves
<1>2. ASSUME NEW c \in Tabs, mint'[c].stage = "minted"
      PROVE  \E t \in tokens' : t.device = mint'[c].device /\ \A o \in mint'[c].seen : o.id < t.id
  <2>1. CASE mint'[c] = mint[c]
    <3>1. PICK t \in tokens : t.device = mint[c].device /\ \A o \in mint[c].seen : o.id < t.id
      BY <1>2, <2>1 DEF ReaderInv, OwnIsNewest
    <3>2. PICK m \in tokens' : AsNew(m, t)
      BY NewestStays
    <3>3. m.id \in Nat /\ t.id \in Nat /\ \A o \in mint[c].seen : o.id \in Nat
      BY <1>0
    <3>. QED
      BY <2>1, <3>1, <3>2, <3>3 DEF AsNew
  <2>2. CASE Mint(c) /\ mint'[c] = [stage |-> "minted", seen |-> mint[c].seen,
                                    device |-> Inherit(mint[c].seen, minted + 1)]
    <3>. DEFINE row == [id |-> minted + 1, device |-> Inherit(mint[c].seen, minted + 1), dead |-> FALSE]
    <3>1. row \in tokens'
      BY <2>2 DEF Mint
    <3>2. row.id = minted + 1 /\ row.device = mint'[c].device /\ mint'[c].seen = mint[c].seen
      BY <2>2
    <3>3. minted \in Nat /\ \A o \in mint[c].seen : o.id <= minted
      BY DEF ReaderInv, ReaderTypeOK, IdsAreOrdered, ReaderAssumption
    <3>. HIDE DEF row
    <3>. QED
      BY <1>0, <3>1, <3>2, <3>3
  <2>. QED
    BY <1>2, <2>1, <2>2, MintMoves DEF IdleTab
<1>3. SeenIsKept'
  BY <1>1 DEF SeenIsKept, AsNew
<1>. QED
  BY <1>2, <1>3 DEF OwnIsNewest

(* The invariant holds throughout. *)
LEMMA ReaderInvariance == ASSUME ReaderAssumption PROVE ReaderSpec => []ReaderInv
<1>1. ReaderInit => ReaderInv
  BY ReaderInitInv
<1>2. ReaderInv /\ [ReaderNext]_readerVars => ReaderInv'
  BY ReaderTypeStep, IdsStep, KeptStep DEF ReaderInv
<1>. QED
  BY <1>1, <1>2, PTL DEF ReaderSpec

-----------------------------------------------------------------------------
(* The theorems about the reader's tokens.                                 *)

(* However many tabs mint from lists that are out of date, whatever        *)
(* expires or is revoked between their steps, and wherever one gives up,   *)
(* an identity that had a token has one still (MintReaderToken spares the  *)
(* newest of each other identity).                                         *)
THEOREM IdentityIsKept == ASSUME ReaderAssumption PROVE ReaderSpec => IdentityPersists
<1>1. ReaderInv /\ [ReaderNext]_readerVars => [Devices(tokens) \subseteq Devices(tokens')]_readerVars
  <2>. SUFFICES ASSUME ReaderInv, [ReaderNext]_readerVars, NEW t \in tokens
                PROVE  t.device \in Devices(tokens')
    BY DEF Devices
  <2>. QED
    BY NewestStays DEF AsNew, Devices
<1>. QED
  BY <1>1, ReaderInvariance, PTL DEF ReaderSpec, IdentityPersists

(* A token is known under one identity by every tab that has it in its     *)
(* list, and nothing a tab still relies on is gone without a newer token   *)
(* of the same identity.                                                   *)
THEOREM ListsAreCovered == ASSUME ReaderAssumption PROVE ReaderSpec => [](IdNamesDevice /\ SeenIsKept)
<1>1. ReaderInv => IdNamesDevice /\ SeenIsKept
  BY DEF ReaderInv
<1>. QED
  BY <1>1, ReaderInvariance, PTL
=============================================================================
