------------------------------ MODULE Accounts ------------------------------
(***************************************************************************)
(* The accounts of an instance: who exists, who is disabled, who is an     *)
(* administrator, and the API tokens that carry the admin scope            *)
(* (store/postgres/users.go; store/sqlite/users.go reads the same with the *)
(* one write lock of SQLite for the advisory lock).                        *)
(*                                                                         *)
(* Under READ COMMITTED a transaction's reads and its write are separate   *)
(* steps: it begins, takes the role lock if its kind does, reads, and      *)
(* writes and commits.  Any other transaction may commit in between unless *)
(* it waits for the same lock.  A transaction may roll back at any step.   *)
(***************************************************************************)
EXTENDS Naturals, FiniteSets

CONSTANTS Users,      \* the account names
          Tokens,     \* the token ids
          Callers,    \* the requests and commands served at the same time
          Nobody      \* no caller, no owner

VARIABLES isAdmin,    \* users.is_admin, of the accounts that exist
          disabled,   \* users.disabled_at IS NOT NULL
          exists,     \* the rows of users
          token,      \* tokens and token_scopes
          lock,       \* the holder of adminRoleLockKey
          tx          \* the transaction of each caller

vars == <<isAdmin, disabled, exists, token, lock, tx>>

(***************************************************************************)
(* What a caller asks for.  SetUserAdmin and SetUserDisabled carry the     *)
(* wanted value; CreateToken and UpdateTokenScopes whether the scopes      *)
(* contain admin.                                                          *)
(***************************************************************************)
Ops == {"SetUserAdmin", "SetUserDisabled", "CreateToken", "UpdateTokenScopes", "CreateFirstAdmin"}

Requests == [op : Ops, user : Users, on : BOOLEAN, token : Tokens]

Stages == {"begun", "locked", "decided"}

Transactions == [req : Requests, stage : Stages]

NobodyAssumption ==
    Nobody \notin Users /\ Nobody \notin Callers /\ Nobody \notin Transactions

NoToken == [owner |-> Nobody, admin |-> FALSE, live |-> FALSE]

TokenRows == [owner : Users \cup {Nobody}, admin : BOOLEAN, live : BOOLEAN]

Idle == Nobody

TypeOK ==
    /\ exists \subseteq Users
    /\ isAdmin \subseteq exists
    /\ disabled \subseteq exists
    /\ token \in [Tokens -> TokenRows]
    /\ lock \in Callers \cup {Nobody}
    /\ tx \in [Callers -> Transactions \cup {Idle}]
    /\ lock # Nobody => tx[lock] # Idle

Init ==
    /\ exists = {}
    /\ isAdmin = {}
    /\ disabled = {}
    /\ token = [t \in Tokens |-> NoToken]
    /\ lock = Nobody
    /\ tx = [c \in Callers |-> Idle]

EnabledAdmins == isAdmin \ disabled

Busy(c) == tx[c] # Idle

-----------------------------------------------------------------------------
(* Faulty: only the admin flag is moved under the lock *)
LocksRoleFlagOnly(req) ==
    \/ req.op \in {"SetUserAdmin", "CreateFirstAdmin"}
    \/ req.op \in {"CreateToken", "UpdateTokenScopes"} /\ req.on

(* Faulty: tokens are granted outside the role lock *)
LocksRoleNotForTokens(req) ==
    req.op \in {"SetUserAdmin", "SetUserDisabled", "CreateFirstAdmin"}

(* Every role and disable transition takes the lock; a token only when its *)
(* scopes contain admin (requireAdminAccount).                             *)
LocksRole(req) ==
    \/ req.op \in {"SetUserAdmin", "SetUserDisabled", "CreateFirstAdmin"}
    \/ req.op \in {"CreateToken", "UpdateTokenScopes"} /\ req.on

OthersRemain(u) == EnabledAdmins \ {u} # {}

(* The guards of each transaction, read after the lock.  A request that    *)
(* finds its value already there commits with nothing written.             *)
MaySetAdmin(req) ==
    /\ req.user \in exists
    /\ (req.user \in isAdmin) # req.on
    /\ req.on \/ OthersRemain(req.user)

MaySetDisabled(req) ==
    /\ req.user \in exists
    /\ (req.user \in disabled) # req.on
    /\ req.on /\ req.user \in isAdmin => OthersRemain(req.user)

RequireAdminAccount(req) ==
    req.on => req.user \in EnabledAdmins

MayCreateToken(req) ==
    /\ RequireAdminAccount(req)
    /\ req.user \in exists
    /\ token[req.token] = NoToken

MayUpdateScopes(req) ==
    /\ RequireAdminAccount(req)
    /\ token[req.token].owner = req.user

MayCreateFirst(req) == exists = {}

MayWrite(req) ==
    CASE req.op = "SetUserAdmin"      -> MaySetAdmin(req)
      [] req.op = "SetUserDisabled"   -> MaySetDisabled(req)
      [] req.op = "CreateToken"       -> MayCreateToken(req)
      [] req.op = "UpdateTokenScopes" -> MayUpdateScopes(req)
      [] req.op = "CreateFirstAdmin"  -> MayCreateFirst(req)

-----------------------------------------------------------------------------
(* A request arrives.  The early checks of the web and of the API only     *)
(* make a better message, and the command line has none, so any request    *)
(* may reach the store.                                                    *)
Begin(c) ==
    /\ ~Busy(c)
    /\ \E req \in Requests : tx' = [tx EXCEPT ![c] = [req |-> req, stage |-> "begun"]]
    /\ UNCHANGED <<isAdmin, disabled, exists, token, lock>>

Lock(c) ==
    /\ Busy(c)
    /\ tx[c].stage = "begun"
    /\ IF LocksRole(tx[c].req)
       THEN lock = Nobody /\ lock' = c
       ELSE lock' = lock
    /\ tx' = [tx EXCEPT ![c].stage = "locked"]
    /\ UNCHANGED <<isAdmin, disabled, exists, token>>

Unlocked(c) == IF lock = c THEN Nobody ELSE lock

Guard(c) ==
    /\ Busy(c)
    /\ tx[c].stage = "locked"
    /\ MayWrite(tx[c].req)
    /\ tx' = [tx EXCEPT ![c].stage = "decided"]
    /\ UNCHANGED <<isAdmin, disabled, exists, token, lock>>

(* A refusal, an error, a cancelled request or a value already there: the  *)
(* transaction ends with nothing written.                                  *)
Rollback(c) ==
    /\ Busy(c)
    /\ tx' = [tx EXCEPT ![c] = Idle]
    /\ lock' = Unlocked(c)
    /\ UNCHANGED <<isAdmin, disabled, exists, token>>

-----------------------------------------------------------------------------

RevokeAdminTokens(u) ==
    [t \in Tokens |->
        IF token[t].owner = u /\ token[t].admin
        THEN [token[t] EXCEPT !.live = FALSE] ELSE token[t]]

SetUserAdmin(req) ==
    /\ req.op = "SetUserAdmin"
    /\ IF req.on
       THEN isAdmin' = isAdmin \cup {req.user} /\ token' = token
       ELSE isAdmin' = isAdmin \ {req.user} /\ token' = RevokeAdminTokens(req.user)
    /\ UNCHANGED <<disabled, exists>>

(* The tokens of a disabled account keep working when it is enabled again; *)
(* every credential lookup refuses them meanwhile.                         *)
SetUserDisabled(req) ==
    /\ req.op = "SetUserDisabled"
    /\ disabled' = IF req.on THEN disabled \cup {req.user} ELSE disabled \ {req.user}
    /\ UNCHANGED <<isAdmin, exists, token>>

CreateToken(req) ==
    /\ req.op = "CreateToken"
    /\ token[req.token] = NoToken
    /\ token' = [token EXCEPT ![req.token] = [owner |-> req.user, admin |-> req.on, live |-> TRUE]]
    /\ UNCHANGED <<isAdmin, disabled, exists>>

(* The UPDATE matches only a token that is not revoked. *)
UpdateTokenScopes(req) ==
    /\ req.op = "UpdateTokenScopes"
    /\ token[req.token].live
    /\ token[req.token].owner = req.user
    /\ token' = [token EXCEPT ![req.token].admin = req.on]
    /\ UNCHANGED <<isAdmin, disabled, exists>>

CreateFirstAdmin(req) ==
    /\ req.op = "CreateFirstAdmin"
    /\ req.user \notin exists
    /\ exists' = exists \cup {req.user}
    /\ isAdmin' = isAdmin \cup {req.user}
    /\ UNCHANGED <<disabled, token>>

Write(c) ==
    /\ Busy(c)
    /\ tx[c].stage = "decided"
    /\ \/ SetUserAdmin(tx[c].req)
       \/ SetUserDisabled(tx[c].req)
       \/ CreateToken(tx[c].req)
       \/ UpdateTokenScopes(tx[c].req)
       \/ CreateFirstAdmin(tx[c].req)
    /\ tx' = [tx EXCEPT ![c] = Idle]
    /\ lock' = Unlocked(c)

-----------------------------------------------------------------------------
(* The single statements, which take no lock. *)
CreateUser(u) ==
    /\ u \notin exists
    /\ exists' = exists \cup {u}
    /\ UNCHANGED <<isAdmin, disabled, token, lock, tx>>

RevokeToken(t) ==
    /\ token[t].live
    /\ token' = [token EXCEPT ![t].live = FALSE]
    /\ UNCHANGED <<isAdmin, disabled, exists, lock, tx>>

DeleteToken(t) ==
    /\ token[t] # NoToken
    /\ token' = [token EXCEPT ![t] = NoToken]
    /\ UNCHANGED <<isAdmin, disabled, exists, lock, tx>>

RevokeAllUserCredentials(u) ==
    /\ u \in exists
    /\ token' = [t \in Tokens |->
                    IF token[t].owner = u THEN [token[t] EXCEPT !.live = FALSE] ELSE token[t]]
    /\ UNCHANGED <<isAdmin, disabled, exists, lock, tx>>

Next ==
    \/ \E c \in Callers : Begin(c) \/ Lock(c) \/ Guard(c) \/ Write(c) \/ Rollback(c)
    \/ \E u \in Users : CreateUser(u) \/ RevokeAllUserCredentials(u)
    \/ \E t \in Tokens : RevokeToken(t) \/ DeleteToken(t)

Spec == Init /\ [][Next]_vars

-----------------------------------------------------------------------------
(* Once an instance has an administrator who can sign in, no order of      *)
(* demotions and disablings, however many at once, leaves it without one   *)
(* (SetUserAdmin and SetUserDisabled, ErrLastAdmin).                       *)
AnAdminRemains ==
    [][EnabledAdmins # {} => EnabledAdmins' # {}]_vars

(* A live token with the admin scope belongs to an account that has the    *)
(* role: no order of a demotion and a grant leaves one behind              *)
(* (requireAdminAccount, and the revocation in SetUserAdmin).              *)
AdminTokensHaveAdmins ==
    \A t \in Tokens : token[t].live /\ token[t].admin => token[t].owner \in isAdmin

=============================================================================
