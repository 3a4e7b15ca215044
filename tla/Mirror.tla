------------------------------- MODULE Mirror -------------------------------
(***************************************************************************)
(* One account's reading positions for one book, and the peers they are    *)
(* mirrored with (internal/mirror).                                        *)
(*                                                                         *)
(* Each peer has a worker that, pass after pass, asks the peer where the   *)
(* reader is, decides under the account's lock what crosses (settle), and  *)
(* sends a position out after letting the lock go.  The peers are other    *)
(* people's servers: they keep one row, may stamp what they are sent with  *)
(* their own clock and drop its device, and may be slow.  Requests and     *)
(* answers are lost, a request that timed out may still arrive, and the    *)
(* process may stop between any two steps, losing the cursor it held in    *)
(* memory.                                                                 *)
(*                                                                         *)
(* A position carries the reading it came from (id).  No code looks at it: *)
(* it is what lets the properties say that a position came back.           *)
(***************************************************************************)
EXTENDS Integers, Sequences, FiniteSets

CONSTANTS
  Peers,
  CfiPeers,      \* peers spoken to in BookOrbit's API; the others speak kosync
  Restamping,    \* kosync peers that stamp a write themselves and drop its device
  HerePlaces,    \* places the reader may reach here: [frac, cfi, foreign]
  TherePlaces,   \* and in the peers' own readers
  None,          \* no CFI, no engine position, no mark
  StartOfBook,   \* the engine position that a reset is answered with
  Late,          \* how late a client may upload a reading made here
  MayTimeOut,    \* whether a write that timed out may still arrive
  MayStop,       \* whether the process may stop and be started again
  MaxReads, MaxTick, MaxResets, MaxMoves, MaxUnsure \* bounds

Here == "here"

MirrorAssumption ==
  /\ IsFiniteSet(Peers) /\ CfiPeers \subseteq Peers /\ Restamping \subseteq Peers \ CfiPeers /\ Here \notin Peers
  /\ Late \in Nat /\ MaxReads \in Nat /\ MaxTick \in Nat /\ MaxResets \in Nat /\ MaxMoves \in Nat
  /\ MaxUnsure \in Nat
  /\ MayTimeOut \in BOOLEAN /\ MayStop \in BOOLEAN
  (* Every place has a mark to be known by.                                *)
  /\ None \notin {<<"cfi", p.cfi>> : p \in HerePlaces \cup TherePlaces}
  /\ None \notin {<<"pos", p.foreign>> : p \in HerePlaces \cup TherePlaces} \cup {<<"pos", StartOfBook>>}
  /\ None \notin {"pct"} \X Nat
  /\ \A p \in HerePlaces \cup TherePlaces : DOMAIN p = {"frac", "cfi", "foreign"} /\ p.frac \in Nat

VARIABLES
  log,      \* the account's positions in this book; an op's seq is its index
  row,      \* what each peer holds, or NoRow
  resets,   \* peers that answer with a reset until the reader reads there
  library,  \* which library each mirror's address leads to
  cursor,   \* mirror_cursors
  worker,   \* what each worker holds in memory
  late,     \* writes that timed out here and may still arrive
  now, reads, resetsLeft, movesLeft,
  given,    \* history: the rows each library ever held, given to it or read there
  unsure    \* history: writes that reached a peer and were not recorded as sent

serverVars == <<log, cursor>>
peerVars == <<row, resets, library, given>>
clockVars == <<now, reads, resetsLeft, movesLeft>>
vars == <<serverVars, peerVars, worker, late, clockVars, unsure>>

NoRow == [id |-> 0]
NoWrite == [id |-> 0]
NoCursor(p) == [pushed |-> 0, ts |-> 0, mark |-> None, library |-> library[p]]
Idle == [stage |-> "idle"]

Init ==
  /\ log = <<>>
  /\ row = [p \in Peers |-> NoRow] /\ resets = {} /\ library = [p \in Peers |-> 0]
  /\ cursor = [p \in Peers |-> [pushed |-> 0, ts |-> 0, mark |-> None, library |-> 0]]
  /\ worker = [p \in Peers |-> Idle] /\ late = [p \in Peers |-> NoWrite]
  /\ now = 1 /\ reads = 0 /\ resetsLeft = MaxResets /\ movesLeft = MaxMoves
  /\ given = [p \in Peers |-> {}] /\ unsure = 0

Newest == log[Len(log)]

(***************************************************************************)
(* The reader, and the peers' side.                                        *)
(***************************************************************************)
NextOp(place, at) ==
  [id |-> reads + 1, at |-> at, frac |-> place.frac, cfi |-> place.cfi, foreign |-> place.foreign,
   dev |-> Here]

(* A client's position, uploaded at once or later.                         *)
ReadHere(place) ==
  /\ reads < MaxReads
  /\ \E at \in {t \in now - Late .. now : t > 0} :
       log' = Append(log, NextOp(place, at))
  /\ reads' = reads + 1
  /\ UNCHANGED <<cursor, peerVars, worker, late, now, resetsLeft, movesLeft, unsure>>

ReadThere(p, place) ==
  /\ reads < MaxReads
  /\ place.cfi # None => p \in CfiPeers
  /\ row' = [row EXCEPT ![p] = [id |-> reads + 1, at |-> now, frac |-> place.frac, cfi |-> place.cfi,
                                foreign |-> place.foreign, ours |-> FALSE]]
  /\ given' = [given EXCEPT ![p] = @ \cup {row'[p]}]
  /\ resets' = resets \ {p}
  /\ reads' = reads + 1
  /\ UNCHANGED <<serverVars, library, worker, late, now, resetsLeft, movesLeft, unsure>>

(* A peer's reading reset stands until somebody reads there.               *)
ResetThere(p) ==
  /\ p \notin CfiPeers /\ resetsLeft > 0 /\ resets' = resets \cup {p}
  /\ resetsLeft' = resetsLeft - 1
  /\ UNCHANGED <<serverVars, row, library, given, worker, late, now, reads, movesLeft, unsure>>

Tick ==
  /\ now < MaxTick /\ now' = now + 1
  /\ UNCHANGED <<serverVars, peerVars, worker, late, reads, resetsLeft, movesLeft, unsure>>

Restamps(p) == p \in CfiPeers \cup Restamping

(* A write replaces the row.  kosync has no field for a CFI; BookOrbit's   *)
(* API has none for a device or a time.                                    *)
Written(p, op) ==
  [id |-> op.id, frac |-> op.frac, foreign |-> op.foreign,
   cfi |-> IF p \in CfiPeers THEN op.cfi ELSE None,
   at |-> IF Restamps(p) THEN now ELSE op.at, ours |-> ~Restamps(p)]

Write(p, op) ==
  /\ row' = [row EXCEPT ![p] = Written(p, op)]
  /\ given' = [given EXCEPT ![p] = @ \cup {Written(p, op)}]

DeliverLate(p) ==
  /\ late[p] # NoWrite /\ unsure < MaxUnsure
  /\ Write(p, late[p])
  /\ late' = [late EXCEPT ![p] = NoWrite] /\ unsure' = unsure + 1
  /\ UNCHANGED <<serverVars, resets, library, worker, clockVars>>

(***************************************************************************)
(* A pass over this book.                                                  *)
(***************************************************************************)
(* The cursor is about one library: one of another says nothing here.      *)
(* Faulty: the name of the mirror is taken for its library.               *)
CursorForAny(p) == [cursor[p] EXCEPT !.library = library[p]]
CursorFor(p) == IF cursor[p].library = library[p] THEN cursor[p] ELSE NoCursor(p)

(* Whether anything ever crossed is read off the two watermarks.           *)
Fresh(cur) == cur.pushed = 0 /\ cur.ts = 0

Begin(p) ==
  /\ worker[p] = Idle /\ log # <<>>
  /\ worker' = [worker EXCEPT ![p] =
       [stage |-> "asking", cur |-> CursorFor(p), fresh |-> Fresh(CursorFor(p))]]
  /\ UNCHANGED <<serverVars, peerVars, late, clockVars, unsure>>

(* What a position says, for a peer that cannot say who wrote it.          *)
Mark(r) == IF r.cfi # None THEN <<"cfi", r.cfi>>
           ELSE IF r.foreign # None THEN <<"pos", r.foreign>>
           ELSE <<"pct", r.frac>>

Shown(p) == IF p \in resets
            THEN [id |-> 0, frac |-> 0, cfi |-> None, foreign |-> StartOfBook, at |-> now, ours |-> FALSE]
            ELSE row[p]

IsReset(p, r) == p \notin CfiPeers /\ r.frac = 0 /\ r.foreign = StartOfBook
(* Faulty: the place of the last push is not remembered.                  *)
IsEchoByDevice(p, r, cur) == p \notin CfiPeers /\ r.ours
IsEcho(p, r, cur) == (p \notin CfiPeers /\ r.ours) \/ cur.mark = Mark(r)

(* Pull.  A mark that is not what came back is spent.                      *)
Pull(p) ==
  /\ worker[p].stage = "asking"
  /\ LET r == Shown(p)
         cur == worker[p].cur
         echo == r # NoRow /\ IsEcho(p, r, cur)
     IN worker' = [worker EXCEPT ![p] =
          [stage |-> "answered", fresh |-> worker[p].fresh, ans |-> r, echo |-> echo,
           cur |-> IF r = NoRow \/ echo THEN cur ELSE [cur EXCEPT !.mark = None]]]
  /\ UNCHANGED <<serverVars, peerVars, late, clockVars, unsure>>

Finished(cur) == [stage |-> "done", cur |-> cur]

(* No answer, or one that the peer does not hold the book.                 *)
PullFails(p) ==
  /\ worker[p].stage = "asking"
  /\ worker' = [worker EXCEPT ![p] = Finished(worker[p].cur)]
  /\ UNCHANGED <<serverVars, peerVars, late, clockVars, unsure>>

(***************************************************************************)
(* settle, under the account's lock: one step where it writes nothing, two *)
(* where it takes the peer's position, for the lock keeps out the other    *)
(* workers and not the clients of this server.                             *)
(***************************************************************************)
(* Faulty: every worker settles on its own.                                *)
LockNone == TRUE
LockFree == \A q \in Peers : worker[q].stage # "taking"

(* How the peer's place compares with ours, by the finest detail both      *)
(* carry: "disagree", "agree", "peerFiner" or "localFiner".                *)
ComparePlaces(local, r, carriesCFI) ==
  LET cfi == IF carriesCFI THEN local.cfi ELSE None
      differ(a, b) == a # None /\ b # None /\ a # b
      same(a, b) == a # None /\ a = b
      peerOnly == (r.cfi # None /\ cfi = None) \/ (r.foreign # None /\ local.foreign = None)
      localOnly == (cfi # None /\ r.cfi = None) \/ (local.foreign # None /\ r.foreign = None)
      matched == same(r.cfi, cfi) \/ same(r.foreign, local.foreign)
      finer == IF peerOnly = localOnly THEN "agree" ELSE IF peerOnly THEN "peerFiner" ELSE "localFiner"
  IN IF \/ r.frac = 0 /\ local.frac = 0
        \/ differ(r.cfi, cfi) \/ differ(r.foreign, local.foreign)
        \/ ~matched /\ (r.frac # local.frac \/ (peerOnly /\ localOnly))
     THEN "disagree" ELSE finer

(* What the answer amounts to beside a position here, in the order the     *)
(* code asks.                                                              *)
StandingBeside(p, local) ==
  LET r == worker[p].ans
      place == ComparePlaces(local, r, p \in CfiPeers)
  IN CASE r = NoRow -> "silent"
       [] r # NoRow /\ IsReset(p, r) -> "reset"
       [] r # NoRow /\ ~IsReset(p, r) /\ worker[p].echo -> "echo"
       [] OTHER -> IF place \in {"agree", "localFiner"} THEN place
                   ELSE IF r.at > local.at THEN "newer"
                   ELSE IF r.at = local.at THEN "tie"
                   ELSE IF place = "peerFiner" THEN "coarser" ELSE "older"

Standing(p) == StandingBeside(p, Newest)

(* Something the peer lacks and did not give us, unless nothing has        *)
(* crossed with this library yet.                                          *)
HaveNews(p) ==
  /\ Len(log) > worker[p].cur.pushed
  /\ worker[p].fresh \/ Newest.dev # p

Owes(p) == HaveNews(p) /\ Standing(p) \in {"silent", "reset", "echo", "localFiner", "older"}

(* News that is not a repetition and not the start of the book.            *)
Takes(p) ==
  /\ Standing(p) = "newer"
  /\ worker[p].ans.at > worker[p].cur.ts
  /\ ~(worker[p].ans.frac = 0 /\ Newest.frac > 0)

(* The op that goes out is the one just read, and nothing is recorded      *)
(* before it has arrived.                                                  *)
SettleOwing(p) ==
  /\ worker[p].stage = "answered" /\ LockFree /\ Owes(p)
  /\ worker' = [worker EXCEPT ![p] =
       [stage |-> "pushing", cur |-> worker[p].cur, ans |-> worker[p].ans,
        op |-> Newest, seq |-> Len(log)]]
  /\ UNCHANGED <<serverVars, peerVars, late, clockVars, unsure>>

(* apply: a kosync op under the peer's name.  Its id is derived from what  *)
(* it says, so taking it twice appends it once.                            *)
Inbound(p, r) ==
  [id |-> r.id, frac |-> r.frac, cfi |-> r.cfi, foreign |-> r.foreign, at |-> r.at, dev |-> p]

AppendOnce(op) ==
  log' = IF \E i \in DOMAIN log : [log[i] EXCEPT !.id = 0] = [op EXCEPT !.id = 0]
         THEN log ELSE Append(log, op)

SettleTaking(p) ==
  /\ worker[p].stage = "answered" /\ LockFree /\ Takes(p)
  /\ worker' = [worker EXCEPT ![p].stage = "taking"]
  /\ UNCHANGED <<serverVars, peerVars, late, clockVars, unsure>>

Apply(p) ==
  /\ worker[p].stage = "taking"
  /\ AppendOnce(Inbound(p, worker[p].ans))
  /\ worker' = [worker EXCEPT ![p] = Finished([@.cur EXCEPT !.ts = worker[p].ans.at])]
  /\ UNCHANGED <<cursor, peerVars, late, clockVars, unsure>>

(* The peer's clock is recorded for an answer that appends nothing, except *)
(* where recording it would make a later answer look taken.                *)
NotedTime(p) ==
  LET r == worker[p].ans
      ts == worker[p].cur.ts
  IN CASE Standing(p) \in {"silent", "reset", "older"} -> ts
       [] Standing(p) \in {"echo", "tie", "coarser"} -> r.at
       [] Standing(p) \in {"agree", "localFiner"} -> IF r.at <= Newest.at THEN r.at ELSE ts
       [] Standing(p) = "newer" -> IF r.at <= ts THEN ts ELSE r.at

(* Faulty: only a push moves the watermark.                               *)
SettleNothingForgetful(p) ==
  /\ worker[p].stage = "answered" /\ LockFree /\ ~Owes(p) /\ ~Takes(p)
  /\ worker' = [worker EXCEPT ![p] = Finished([@.cur EXCEPT !.ts = NotedTime(p)])]
  /\ UNCHANGED <<serverVars, peerVars, late, clockVars, unsure>>
SettleNothing(p) ==
  /\ worker[p].stage = "answered" /\ LockFree /\ ~Owes(p) /\ ~Takes(p)
  /\ worker' = [worker EXCEPT ![p] =
       Finished([@.cur EXCEPT !.pushed = Len(log), !.ts = NotedTime(p)])]
  /\ UNCHANGED <<serverVars, peerVars, late, clockVars, unsure>>

(***************************************************************************)
(* The push, outside the lock.                                             *)
(***************************************************************************)
Arrive(p) ==
  /\ worker[p].stage = "pushing"
  /\ Write(p, worker[p].op)
  /\ worker' = [worker EXCEPT ![p].stage = "arrived"]
  /\ UNCHANGED <<serverVars, resets, library, late, clockVars, unsure>>

(* The peer's clock, as its answer told it.                                *)
ToldTime(p) == IF worker[p].ans = NoRow THEN worker[p].cur.ts ELSE worker[p].ans.at

Pushed(p) ==
  LET w == worker[p]
      sent == IF p \in CfiPeers THEN w.op ELSE [w.op EXCEPT !.cfi = None]
  IN [w.cur EXCEPT !.pushed = w.seq, !.mark = Mark(sent), !.ts = ToldTime(p)]

PushSucceeds(p) ==
  /\ worker[p].stage = "arrived"
  /\ worker' = [worker EXCEPT ![p] = Finished(Pushed(p))]
  /\ UNCHANGED <<serverVars, peerVars, late, clockVars, unsure>>

(* The request is lost, or its answer is, or it timed out and travels on.  *)
PushFails(p) ==
  /\ worker[p].stage \in {"pushing", "arrived"}
  /\ \/ UNCHANGED late
     \/ /\ MayTimeOut /\ worker[p].stage = "pushing" /\ unsure < MaxUnsure
        /\ late' = [late EXCEPT ![p] = worker[p].op]
  /\ unsure' = (IF worker[p].stage = "arrived" THEN unsure + 1 ELSE unsure) /\ unsure' <= MaxUnsure
  /\ worker' = [worker EXCEPT ![p] = Finished(worker[p].cur)]
  /\ UNCHANGED <<serverVars, peerVars, clockVars>>

(* The peer does not hold the book after all: only its clock is recorded.  *)
PushNotHeld(p) ==
  /\ worker[p].stage = "pushing"
  /\ worker' = [worker EXCEPT ![p] = Finished([@.cur EXCEPT !.ts = ToldTime(p)])]
  /\ UNCHANGED <<serverVars, peerVars, late, clockVars, unsure>>

PutCursor(p) ==
  /\ worker[p].stage = "done"
  /\ cursor' = [cursor EXCEPT ![p] = worker[p].cur]
  /\ worker' = [worker EXCEPT ![p] = Idle]
  /\ UNCHANGED <<log, peerVars, late, clockVars, unsure>>

(* Workers that have written to their peer and have yet to save it.        *)
Unsaved == {p \in Peers :
  \/ worker[p].stage = "arrived"
  \/ worker[p].stage = "done" /\ worker[p].cur.mark \notin {None, CursorFor(p).mark}}

(* The process stops and starts again: nothing in memory survives.         *)
Restart ==
  /\ MayStop
  /\ worker # [p \in Peers |-> Idle]
  /\ worker' = [p \in Peers |-> Idle] /\ unsure' = unsure + Cardinality(Unsaved) /\ unsure' <= MaxUnsure
  /\ UNCHANGED <<serverVars, peerVars, late, clockVars>>

(* A mirror is given another address, which takes a restart: another       *)
(* library under the name of the old one.                                  *)
Repoint(p) ==
  /\ movesLeft > 0 /\ movesLeft' = movesLeft - 1
  /\ library' = [library EXCEPT ![p] = @ + 1]
  /\ row' = [row EXCEPT ![p] = NoRow] /\ given' = [given EXCEPT ![p] = {}]
  /\ resets' = resets \ {p} /\ late' = [late EXCEPT ![p] = NoWrite]
  /\ worker' = [q \in Peers |-> Idle] /\ unsure' = unsure + Cardinality(Unsaved \ {p}) /\ unsure' <= MaxUnsure
  /\ UNCHANGED <<serverVars, now, reads, resetsLeft>>

OnItsOwn(p) ==
  \/ Begin(p) \/ SettleOwing(p) \/ SettleTaking(p) \/ SettleNothing(p) \/ Apply(p) \/ PutCursor(p)

WorkerStep(p) == OnItsOwn(p) \/ Pull(p) \/ Arrive(p) \/ PushSucceeds(p)

Next ==
  \/ \E place \in HerePlaces : ReadHere(place)
  \/ \E p \in Peers, place \in TherePlaces : ReadThere(p, place)
  \/ \E p \in Peers : ResetThere(p) \/ DeliverLate(p) \/ Repoint(p)
  \/ \E p \in Peers : WorkerStep(p) \/ PullFails(p) \/ PushFails(p) \/ PushNotHeld(p)
  \/ Tick \/ Restart

Spec == Init /\ [][Next]_vars

(* The peer answers, and takes what it is sent, now and then; the worker   *)
(* passes again as long as the program runs.                               *)
PassesContinue(p) ==
  /\ WF_vars(OnItsOwn(p))
  /\ SF_vars(Pull(p)) /\ SF_vars(Arrive(p)) /\ SF_vars(PushSucceeds(p))

FairSpec == Spec /\ \A p \in Peers : PassesContinue(p)

-----------------------------------------------------------------------------
(***************************************************************************)
(* Properties                                                              *)
(***************************************************************************)
Readings == {log[i].id : i \in DOMAIN log}

(* What goes out does not come back (ADR-0047, "Echo"): no reading is in   *)
(* the log twice, however the peers restamp it.                            *)
NoEcho == Len(log) = Cardinality(Readings)

(* ADR-0048: the worst a lost answer or a crash costs is one duplicate per *)
(* write the peer holds and nobody recorded.  No loop of peers restamping  *)
(* one another's positions ever makes more of them.                        *)
ReturnsAreBounded == Len(log) - Cardinality(Readings) <= unsure

(* Newest wins (docs/deployment.md): what is taken from a peer was read    *)
(* after the position it displaces.                                        *)
Taken == Len(log') > Len(log) /\ log'[Len(log')].dev # Here
NewestWins == [][Taken => log'[Len(log')].at > Newest.at]_vars

(* Among peers it does, in whichever order they answer: the position one   *)
(* worker took while another asked is only displaced by a newer one.       *)
NewestPeerWins == [][Taken /\ Newest.dev # Here => log'[Len(log')].at > Newest.at]_vars

(* What a library held that makes the newest position no news to it: that  *)
(* reading, one at least as new, or one that says the same.                *)
Covers(p, r) ==
  \/ r.id = Newest.id
  \/ r.at >= Newest.at
  \/ ComparePlaces(Newest, r, p \in CfiPeers) \in {"agree", "peerFiner"}

(* A worker that will not send the newest position again has a reason: the *)
(* library its address leads to has held what covers it, or answers with a *)
(* reset.  The library may have moved on from what the worker was told.    *)
NothingWithheld ==
  \A p \in Peers : log # <<>> /\ cursor[p].library = library[p] /\ cursor[p].pushed = Len(log) =>
     p \in resets \/ \E r \in given[p] : Covers(p, r)

(* Every position either reaches every peer or is settled with it, once    *)
(* nobody reads any more: the peers do not keep each other busy.           *)
Settled(p) == log # <<>> => cursor[p].library = library[p] /\ cursor[p].pushed = Len(log)
Converges == <>[](\A p \in Peers : Settled(p))
=============================================================================
