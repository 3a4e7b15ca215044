------------------------------ MODULE LiveHub ------------------------------
(***************************************************************************)
(* The live event stream: the hub of internal/live/hub.go, the loop of     *)
(* HandleEvents in internal/api/events.go, and the writers that notify it  *)
(* after a commit (internal/store/notify.go).                              *)
(*                                                                         *)
(* Everything here runs concurrently: a writer's goroutine copies the      *)
(* subscriptions under the hub's mutex and then, outside it, marks each    *)
(* under that subscription's mutex and pokes its one-slot channel; the     *)
(* stream's goroutine receives from the channel, drains the set, checks    *)
(* the credential again and writes a frame.  Each mutex section and each   *)
(* channel operation is an action.                                         *)
(*                                                                         *)
(* What a client has not read yet is kept as a set of topics: a commit     *)
(* makes a topic stale, reading the feed of the topic makes it fresh.      *)
(***************************************************************************)
EXTENDS Integers, FiniteSets

CONSTANTS
  Accounts,
  Topics,
  Streams,      \* connections to GET /v1/events: each is one Subscription
  Writers,      \* goroutines that commit and then notify
  AccountOf,    \* stream -> account of its token
  Allowed,      \* stream -> topics its token's scopes permit (never empty)
  MaxPerUser,   \* subscriptions one account may hold
  NoStream

ASSUME HubAssumption ==
  /\ AccountOf \in [Streams -> Accounts]
  /\ Allowed \in [Streams -> (SUBSET Topics) \ {{}}]
  /\ MaxPerUser \in Nat \ {0}
  /\ NoStream \notin Streams

VARIABLES
  subs,       \* Hub.subs: the registered subscriptions
  closed,     \* Hub.closed
  finishing,  \* what Hub.Close copied and has not finished yet
  pending,    \* stream -> Subscription.pending
  wake,       \* stream -> Subscription.wake holds its token
  done,       \* stream -> Subscription.done is closed
  pc,         \* stream -> where HandleEvents is
  taken,      \* stream -> owed: the topics drained but not yet sent
  valid,      \* stream -> its credential still authenticates
  phase,      \* writer -> where the notifying goroutine is
  account,    \* writer -> whose state it committed
  saying,     \* writer -> the topics it notifies
  targets,    \* writer -> its copy of subs, less those already raised
  poking,     \* writer -> the subscription raised but not yet poked
  stale,      \* stream -> topics committed since its client read them
  frames,     \* stream -> topics of frames the client has yet to act on
  late        \* stream -> frames sent since its credential was revoked

hubVars == <<subs, closed, finishing>>
subVars == <<pending, wake, done>>
streamVars == <<pc, taken, valid>>
writerVars == <<phase, account, saying, targets, poking>>
clientVars == <<stale, frames, late>>
vars == <<hubVars, subVars, streamVars, writerVars, clientVars>>

Init ==
  /\ subs = {} /\ closed = FALSE /\ finishing = {}
  /\ pending = [s \in Streams |-> {}]
  /\ wake = [s \in Streams |-> FALSE]
  /\ done = [s \in Streams |-> FALSE]
  /\ pc = [s \in Streams |-> "new"]
  /\ taken = [s \in Streams |-> {}]
  /\ valid = [s \in Streams |-> TRUE]
  /\ phase = [w \in Writers |-> "idle"]
  /\ account \in [Writers -> Accounts]
  /\ saying = [w \in Writers |-> {}]
  /\ targets = [w \in Writers |-> {}]
  /\ poking = [w \in Writers |-> NoStream]
  /\ stale = [s \in Streams |-> {}]
  /\ frames = [s \in Streams |-> {}]
  /\ late = [s \in Streams |-> 0]

-----------------------------------------------------------------------------
(* A writer: a commit that changed something, then Notify.  Every store    *)
(* operation notifies one topic; the hub takes any list.                   *)

Opened(s) == pc[s] \notin {"new", "subscribed", "over"}

Commit(w, a, T) ==
  /\ phase[w] = "idle"
  /\ phase' = [phase EXCEPT ![w] = "committed"]
  /\ account' = [account EXCEPT ![w] = a]
  /\ saying' = [saying EXCEPT ![w] = T]
  /\ stale' = [s \in Streams |-> IF AccountOf[s] = a /\ Opened(s)
                                 THEN stale[s] \cup (T \cap Allowed[s]) ELSE stale[s]]
  /\ UNCHANGED <<hubVars, subVars, streamVars, targets, poking, frames, late>>

(* Hub.Notify under the hub's mutex.                                       *)
CopySubs(w) ==
  /\ phase[w] = "committed"
  /\ phase' = [phase EXCEPT ![w] = "raising"]
  /\ targets' = [targets EXCEPT ![w] = {s \in subs : AccountOf[s] = account[w]}]
  /\ UNCHANGED <<hubVars, subVars, streamVars, account, saying, poking, clientVars>>

(* Subscription.raise under the subscription's mutex.                      *)
RaiseFor(w, s) ==
  LET set == saying[w] \cap Allowed[s]
  IN /\ phase[w] = "raising" /\ poking[w] = NoStream /\ s \in targets[w]
     /\ targets' = [targets EXCEPT ![w] = @ \ {s}]
     /\ pending' = [pending EXCEPT ![s] = @ \cup set]
     /\ poking' = [poking EXCEPT ![w] = IF set \subseteq pending[s] THEN NoStream ELSE s]
     /\ UNCHANGED <<hubVars, wake, done, streamVars, phase, account, saying, clientVars>>

(* The non-blocking send at the end of raise.                              *)
Poke(w) ==
  /\ poking[w] # NoStream
  /\ wake' = [wake EXCEPT ![poking[w]] = TRUE]
  /\ poking' = [poking EXCEPT ![w] = NoStream]
  /\ UNCHANGED <<hubVars, pending, done, streamVars, phase, account, saying, targets, clientVars>>

NotifyReturns(w) ==
  /\ phase[w] = "raising" /\ poking[w] = NoStream /\ targets[w] = {}
  /\ phase' = [phase EXCEPT ![w] = "idle"]
  /\ saying' = [saying EXCEPT ![w] = {}]
  /\ UNCHANGED <<hubVars, subVars, streamVars, account, targets, poking, clientVars>>

WriterStep(w) ==
  \/ CopySubs(w)
  \/ \E s \in Streams : RaiseFor(w, s)
  \/ Poke(w)
  \/ NotifyReturns(w)

-----------------------------------------------------------------------------
(* A stream: HandleEvents.                                                 *)

(* Faulty variant of Subscribe: it does not look whether the hub closed.   *)
SubscribeAnyway(s) ==
  /\ pc[s] = "new"
  /\ Cardinality({r \in subs : AccountOf[r] = AccountOf[s]}) < MaxPerUser
  /\ subs' = subs \cup {s}
  /\ pc' = [pc EXCEPT ![s] = "subscribed"]
  /\ UNCHANGED <<closed, finishing, subVars, taken, valid, writerVars, clientVars>>

(* Hub.Subscribe.  A closed hub hands back a subscription already over.    *)
Subscribe(s) ==
  /\ pc[s] = "new"
  /\ IF closed
     THEN done' = [done EXCEPT ![s] = TRUE] /\ subs' = subs
     ELSE /\ Cardinality({r \in subs : AccountOf[r] = AccountOf[s]}) < MaxPerUser
          /\ subs' = subs \cup {s} /\ done' = done
  /\ pc' = [pc EXCEPT ![s] = "subscribed"]
  /\ UNCHANGED <<closed, finishing, pending, wake, taken, valid, writerVars, clientVars>>

(* 429: the account holds as many subscriptions as it may.                 *)
Refuse(s) ==
  /\ pc[s] = "new" /\ ~closed
  /\ Cardinality({r \in subs : AccountOf[r] = AccountOf[s]}) >= MaxPerUser
  /\ pc' = [pc EXCEPT ![s] = "over"]
  /\ UNCHANGED <<hubVars, subVars, taken, valid, writerVars, clientVars>>

(* Faulty variant of Open: the opening invalidation does not poke.         *)
OpenSilently(s) ==
  /\ pc[s] = "subscribed"
  /\ pending' = [pending EXCEPT ![s] = Allowed[s]]
  /\ pc' = [pc EXCEPT ![s] = "waiting"]
  /\ stale' = [stale EXCEPT ![s] = Allowed[s]]
  /\ UNCHANGED <<hubVars, wake, done, taken, valid, writerVars, frames, late>>

(* The headers are written, then sub.Raise(allowed...).  A client that     *)
(* connects is taken to have read nothing yet.                             *)
Open(s) ==
  /\ pc[s] = "subscribed"
  /\ pending' = [pending EXCEPT ![s] = @ \cup Allowed[s]]
  /\ pc' = [pc EXCEPT ![s] = IF Allowed[s] \subseteq pending[s] THEN "waiting" ELSE "opening"]
  /\ stale' = [stale EXCEPT ![s] = Allowed[s]]
  /\ UNCHANGED <<hubVars, wake, done, taken, valid, writerVars, frames, late>>

PokeSelf(s) ==
  /\ pc[s] = "opening"
  /\ wake' = [wake EXCEPT ![s] = TRUE]
  /\ pc' = [pc EXCEPT ![s] = "waiting"]
  /\ UNCHANGED <<hubVars, pending, done, taken, valid, writerVars, clientVars>>

(* case <-sub.Wake()                                                       *)
WakeUp(s) ==
  /\ pc[s] = "waiting" /\ wake[s]
  /\ wake' = [wake EXCEPT ![s] = FALSE]
  /\ pc' = [pc EXCEPT ![s] = "woken"]
  /\ UNCHANGED <<hubVars, pending, done, taken, valid, writerVars, clientVars>>

(* sub.Take(): nothing owed is a spurious wake-up.                         *)
Take(s) ==
  /\ pc[s] = "woken"
  /\ taken' = [taken EXCEPT ![s] = pending[s]]
  /\ pending' = [pending EXCEPT ![s] = {}]
  /\ pc' = [pc EXCEPT ![s] = IF pending[s] = {} THEN "waiting" ELSE "taken"]
  /\ UNCHANGED <<hubVars, wake, done, valid, writerVars, clientVars>>

(* return, and with it the deferred sub.Close().  Writers that copied the  *)
(* subscription before may still raise it.                                 *)
End(s) ==
  /\ pc' = [pc EXCEPT ![s] = "over"]
  /\ subs' = subs \ {s}
  /\ done' = [done EXCEPT ![s] = TRUE]
  /\ taken' = [taken EXCEPT ![s] = {}]
  /\ stale' = [stale EXCEPT ![s] = {}]
  /\ frames' = [frames EXCEPT ![s] = {}]
  /\ UNCHANGED <<closed, finishing, pending, wake, valid, writerVars, late>>

(* Faulty variant of Authorize: the check made on connecting is enough.    *)
AuthorizeOnce(s) ==
  /\ pc[s] = "taken"
  /\ pc' = [pc EXCEPT ![s] = "cleared"]
  /\ UNCHANGED <<hubVars, subVars, taken, valid, writerVars, clientVars>>

(* liveStillAuthorized, between draining and sending.                      *)
Authorize(s) ==
  /\ pc[s] = "taken"
  /\ \/ /\ valid[s]
        /\ pc' = [pc EXCEPT ![s] = "cleared"]
        /\ UNCHANGED <<hubVars, subVars, taken, valid, writerVars, clientVars>>
     \/ ~valid[s] /\ End(s)

(* Faulty variant of Send: what is owed is only cleared once it was sent.  *)
SendThenClear(s) ==
  /\ pc[s] = "cleared"
  /\ frames' = [frames EXCEPT ![s] = @ \cup taken[s]]
  /\ late' = [late EXCEPT ![s] = IF valid[s] THEN @ ELSE @ + 1]
  /\ taken' = [taken EXCEPT ![s] = {}]
  /\ pending' = [pending EXCEPT ![s] = {}]
  /\ pc' = [pc EXCEPT ![s] = "waiting"]
  /\ UNCHANGED <<hubVars, wake, done, valid, writerVars, stale>>

(* The frame is written.                                                   *)
Send(s) ==
  /\ pc[s] = "cleared"
  /\ frames' = [frames EXCEPT ![s] = @ \cup taken[s]]
  /\ late' = [late EXCEPT ![s] = IF valid[s] THEN @ ELSE @ + 1]
  /\ taken' = [taken EXCEPT ![s] = {}]
  /\ pc' = [pc EXCEPT ![s] = "waiting"]
  /\ UNCHANGED <<hubVars, subVars, valid, writerVars, stale>>

(* case <-sub.Done()                                                       *)
ObserveDone(s) == pc[s] = "waiting" /\ done[s] /\ End(s)

StreamStep(s) ==
  Open(s) \/ PokeSelf(s) \/ WakeUp(s) \/ Take(s) \/ Authorize(s) \/ Send(s) \/ ObserveDone(s)

(* The heartbeat or the revalidation finds the credential gone.            *)
Revalidate(s) == pc[s] = "waiting" /\ ~valid[s] /\ End(s)

(* The client went away, its token expired, or a write failed or timed     *)
(* out: at the top of the loop or while writing.                           *)
Leave(s) == pc[s] \in {"subscribed", "waiting", "cleared"} /\ End(s)

(* The token is revoked, or its account disabled.                          *)
Revoke(s) ==
  /\ valid[s] /\ pc[s] \notin {"new", "over"}
  /\ valid' = [valid EXCEPT ![s] = FALSE]
  /\ UNCHANGED <<hubVars, subVars, pc, taken, writerVars, clientVars>>

(* The client answers a topic by reading its feed: everything committed by *)
(* then, and nothing committed later.                                      *)
ReadFeed(s, t) ==
  /\ t \in frames[s]
  /\ frames' = [frames EXCEPT ![s] = @ \ {t}]
  /\ stale' = [stale EXCEPT ![s] = @ \ {t}]
  /\ UNCHANGED <<hubVars, subVars, streamVars, writerVars, late>>

(* Hub.Close under the mutex, and then the finish of each subscription.    *)
CloseHub ==
  /\ ~closed
  /\ closed' = TRUE
  /\ finishing' = subs
  /\ subs' = {}
  /\ UNCHANGED <<subVars, streamVars, writerVars, clientVars>>

Finish(s) ==
  /\ s \in finishing
  /\ finishing' = finishing \ {s}
  /\ done' = [done EXCEPT ![s] = TRUE]
  /\ UNCHANGED <<subs, closed, pending, wake, streamVars, writerVars, clientVars>>

Next ==
  \/ \E w \in Writers, a \in Accounts, t \in Topics : Commit(w, a, {t})
  \/ \E w \in Writers : WriterStep(w)
  \/ \E s \in Streams : Subscribe(s)
  \/ \E s \in Streams : Refuse(s)
  \/ \E s \in Streams : StreamStep(s)
  \/ \E s \in Streams : Revalidate(s)
  \/ \E s \in Streams : Leave(s)
  \/ \E s \in Streams : Revoke(s)
  \/ \E s \in Streams, t \in Topics : ReadFeed(s, t)
  \/ CloseHub
  \/ \E s \in Streams : Finish(s)

Spec == Init /\ [][Next]_vars

(* Goroutines that can run are run, and a client reads what it was told.   *)
(* Commits, revocations, disconnections and the shutdown may never happen. *)
FairSpec ==
  /\ Spec
  /\ \A w \in Writers : WF_vars(WriterStep(w))
  /\ \A s \in Streams : WF_vars(StreamStep(s)) /\ WF_vars(Finish(s))
  /\ \A s \in Streams, t \in Topics : WF_vars(ReadFeed(s, t))

-----------------------------------------------------------------------------
(* Properties.                                                             *)

Stages == {"new", "subscribed", "opening", "waiting", "woken", "taken", "cleared", "over"}

(* A stream holds and sends only topics its token's scopes permit.         *)
TypeOK ==
  /\ subs \subseteq Streams /\ closed \in BOOLEAN /\ finishing \subseteq Streams
  /\ pending \in [Streams -> SUBSET Topics]
  /\ wake \in [Streams -> BOOLEAN] /\ done \in [Streams -> BOOLEAN]
  /\ pc \in [Streams -> Stages]
  /\ taken \in [Streams -> SUBSET Topics] /\ valid \in [Streams -> BOOLEAN]
  /\ phase \in [Writers -> {"idle", "committed", "raising"}]
  /\ account \in [Writers -> Accounts] /\ saying \in [Writers -> SUBSET Topics]
  /\ targets \in [Writers -> SUBSET Streams] /\ poking \in [Writers -> Streams \cup {NoStream}]
  /\ stale \in [Streams -> SUBSET Topics] /\ frames \in [Streams -> SUBSET Topics]
  /\ late \in [Streams -> Nat]
  /\ \A s \in Streams : pending[s] \cup taken[s] \cup frames[s] \subseteq Allowed[s]

Connected(s) == pc[s] \notin {"new", "over"}

(* Past its opening invalidation, and in the hub.                          *)
Following(s) == s \in subs /\ Opened(s)

(* A writer that will still raise t for s.                                 *)
Owes(w, s, t) ==
  /\ t \in saying[w] /\ account[w] = AccountOf[s]
  /\ phase[w] = "committed" \/ (phase[w] = "raising" /\ s \in targets[w])

(* "Subscribing and committing in either order loses no refresh": whatever *)
(* the client of a followed stream has not read is on its way to it.       *)
NoLostInvalidation ==
  \A s \in Streams : Following(s) => \A t \in stale[s] :
    t \in pending[s] \cup taken[s] \cup frames[s] \/ \E w \in Writers : Owes(w, s, t)

(* A topic is never left pending for a stream that nobody will wake: the   *)
(* set and the wake-up slot are not written together.                      *)
WakeUpComes ==
  \A s \in Streams : pending[s] # {} /\ pc[s] \notin {"opening", "woken", "over"} =>
    wake[s] \/ \E w \in Writers : poking[w] = s

(* A stream is not a longer-lived credential: after a revocation at most   *)
(* the one frame whose authorization had already been checked goes out.    *)
OneLateFrame == \A s \in Streams : late[s] <= 1

(* Whatever is committed reaches the client of every followed stream, or   *)
(* the stream ends.                                                        *)
EveryChangeIsRead ==
  \A s \in Streams : \A t \in Topics :
    (Following(s) /\ t \in stale[s]) ~> (t \notin stale[s] \/ ~Following(s))

(* "Shutdown releases subscriptions", those being set up while the hub     *)
(* closes included.                                                        *)
ShutdownEndsStreams == \A s \in Streams : (closed /\ Connected(s)) ~> ~Connected(s)
=============================================================================
