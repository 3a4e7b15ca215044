---------------------------- MODULE ReaderTokens ----------------------------
(***************************************************************************)
(* The credentials of the browser reader of one account (auth/service.go   *)
(* MintReaderToken, RevokeReaderTokens).  Every tab asks for one when a    *)
(* book is opened and again each hour.  A mint lists the account's tokens, *)
(* inserts one that inherits the identity of the newest, and then deletes  *)
(* the dead ones of its list: three steps between which other tabs mint,   *)
(* tokens expire and the reader signs out.                                 *)
(*                                                                         *)
(* Nobody edits the scopes of these tokens here, so each one that has the  *)
(* reserved name has the reader's shape too.                               *)
(***************************************************************************)
EXTENDS Naturals, FiniteSets

CONSTANTS Tabs,        \* the pages that ask for a credential
          MaxTokens    \* bound: tokens minted in a run

ReaderAssumption == MaxTokens \in Nat

VARIABLES tokens,      \* the reader tokens that are kept
          minted,      \* how many were made so far: their order of creation
          mint,        \* what each tab's request has read
          signingOut   \* what a sign-out has still to revoke

readerVars == <<tokens, minted, mint, signingOut>>

(***************************************************************************)
(* A token is [id, device, dead]: ids are given in order of creation, a    *)
(* device identity is the id of the token that was minted with it, and a   *)
(* token is dead once it expired or was revoked.                           *)
(***************************************************************************)
ReaderRows == [id : 1..MaxTokens, device : 1..MaxTokens, dead : BOOLEAN]

IdleTab == [stage |-> "idle", seen |-> {}, device |-> 0]

ReaderTypeOK ==
    /\ tokens \subseteq ReaderRows
    /\ \A s, t \in tokens : s.id = t.id => s = t
    /\ minted \in 0..MaxTokens
    /\ mint \in [Tabs -> [stage : {"idle", "listed", "minted"}, seen : SUBSET ReaderRows,
                          device : 0..MaxTokens]]
    /\ signingOut \subseteq 1..MaxTokens

ReaderInit ==
    /\ tokens = {}
    /\ minted = 0
    /\ mint = [c \in Tabs |-> IdleTab]
    /\ signingOut = {}

Newest(S) == CHOOSE t \in S : \A o \in S : o.id <= t.id

Devices(S) == {t.device : t \in S}

-----------------------------------------------------------------------------
ListTokens(c) ==
    /\ mint[c].stage = "idle"
    /\ mint' = [mint EXCEPT ![c] = [stage |-> "listed", seen |-> tokens, device |-> 0]]
    /\ UNCHANGED <<tokens, minted, signingOut>>

(* The identity is that of the newest token seen, dead or not. *)
Inherit(seen, id) == IF seen = {} THEN id ELSE Newest(seen).device

Mint(c) ==
    LET id == minted + 1
        device == Inherit(mint[c].seen, id)
    IN /\ mint[c].stage = "listed"
       /\ minted < MaxTokens
       /\ minted' = id
       /\ tokens' = tokens \cup {[id |-> id, device |-> device, dead |-> FALSE]}
       /\ mint' = [mint EXCEPT ![c].stage = "minted", ![c].device = device]
       /\ UNCHANGED signingOut

(* Faulty: another browser's newest is reaped too *)
ReapedOfAnyDevice(seen, device) == {t \in seen : t.dead}

(* The dead ones of the list, as they were read; another identity's newest *)
(* is spared.                                                              *)
Reaped(seen, device) ==
    {t \in seen : /\ t.dead
                  /\ \/ t.device = device
                     \/ t # Newest({o \in seen : o.device = t.device})}

Reap(c) ==
    LET gone == {t.id : t \in Reaped(mint[c].seen, mint[c].device)}
    IN /\ mint[c].stage = "minted"
       /\ tokens' = {t \in tokens : t.id \notin gone}
       /\ mint' = [mint EXCEPT ![c] = IdleTab]
       /\ UNCHANGED <<minted, signingOut>>

(* An error between the list and the insert, or the deletions: best effort. *)
GiveUp(c) ==
    /\ mint[c].stage # "idle"
    /\ mint' = [mint EXCEPT ![c] = IdleTab]
    /\ UNCHANGED <<tokens, minted, signingOut>>

(* A token's hour passes. *)
ExpireToken(t) ==
    /\ ~t.dead
    /\ tokens' = (tokens \ {t}) \cup {[t EXCEPT !.dead = TRUE]}
    /\ UNCHANGED <<minted, mint, signingOut>>

(* handleLogout and handleRevokeBrowsers: RevokeReaderTokens revokes what  *)
(* it listed, one by one.                                                  *)
ListToRevoke ==
    /\ signingOut = {}
    /\ \E t \in tokens : ~t.dead
    /\ signingOut' = {t.id : t \in {o \in tokens : ~o.dead}}
    /\ UNCHANGED <<tokens, minted, mint>>

(* A token that was deleted or revoked since ends the loop with an error. *)
RevokeNext ==
    /\ \E id \in signingOut :
         /\ signingOut' = IF \E t \in tokens : t.id = id THEN signingOut \ {id} ELSE {}
         /\ tokens' = {IF t.id = id THEN [t EXCEPT !.dead = TRUE] ELSE t : t \in tokens}
    /\ UNCHANGED <<minted, mint>>

ReaderNext ==
    \/ \E c \in Tabs : ListTokens(c) \/ Mint(c) \/ Reap(c) \/ GiveUp(c)
    \/ \E t \in tokens : ExpireToken(t)
    \/ ListToRevoke
    \/ RevokeNext

ReaderSpec == ReaderInit /\ [][ReaderNext]_readerVars

-----------------------------------------------------------------------------
(* An identity that reading history knows is never lost: whatever expires, *)
(* is revoked or is reaped by mints that read an old list, some token of   *)
(* each identity stays (MintReaderToken, "comes back as a stranger").      *)
IdentityPersists == [][Devices(tokens) \subseteq Devices(tokens')]_readerVars

(* "One stable device identity per user" (webui/readerorigin.go). *)
OneIdentity == Cardinality(Devices(tokens)) <= 1
=============================================================================
