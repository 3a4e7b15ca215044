-------------------------- MODULE AudiobookPositions --------------------------
(***************************************************************************)
(* The place of one reader in one book, exchanged with the place the same  *)
(* reader has in its audiobook on an Audiobookshelf server                 *)
(* (internal/audiobookshelf/sync.go, ADR-0055).                            *)
(*                                                                         *)
(* Pass after pass the service reads the peer's progress, compares it with *)
(* the newest op of the work, and pulls or pushes.  The service's gate     *)
(* keeps its own mutations out of a pass; the clients of this server, the  *)
(* player and merges of works are not kept out.  Requests fail, answers    *)
(* are lost and the process may stop between two steps.                    *)
(*                                                                         *)
(* Places are numbered the same way on both sides: the alignment of the    *)
(* two is left out.  A place carries the reading it came from (id, in the  *)
(* order of the readings); no code looks at it.                            *)
(***************************************************************************)
EXTENDS Integers, Sequences

CONSTANTS Recordings,     \* what a recording may be, and the mapping of it
          MaxReads,       \* bound: readings, here and there
          MaxBeats,       \* bound: repeated reports of an open player
          MaxFaults,      \* bound: faults
          Nowhere

\* top is the end of the book and of the recording; covered are the places the
\* mapping speaks for; full, if the recording is of the whole book; last, if it
\* has the last chapter.
AudiobookAssumption ==
    /\ \A r \in Recordings :
         /\ r.top \in Nat \ {0} /\ r.covered \subseteq 0..r.top /\ r.covered # {}
         /\ {r.full, r.last} \subseteq BOOLEAN /\ (r.full => r.last)
    /\ {MaxReads, MaxBeats, MaxFaults} \subseteq Nat
    /\ Nowhere \notin Nat \cup [id : Nat, at : Nat, place : Nat, done : BOOLEAN]

VARIABLES recording, \* the recording that is linked to the book
          log,       \* the work's ops; an op's seq is its index
          row,       \* the peer's progress, or Nowhere
          player,    \* the reading an open player would report again, or Nowhere
          cursor,    \* audiobook_links: [gen, pushed, mark, ms]
          exchange,  \* what a pass holds in memory
          now,       \* both sides' clock
          reads, beats, faults  \* bounds

placeVars == <<recording, log, row, player, cursor, exchange, now, reads, beats, faults>>

Top == recording.top
Covered == recording.covered
FullNarrative == recording.full
CoversLast == recording.last

Places == 0..Top
Capped == Top - 1                  \* 0.998: a partial recording goes no further
NoCursor == [pushed |-> 0, mark |-> Nowhere, ms |-> 0]

\* The cursor of a link of this generation.
Generation(g, cur) == [gen |-> g, pushed |-> cur.pushed, mark |-> cur.mark, ms |-> cur.ms]

Resting == [stage |-> "idle"]
NoOp == [id |-> 0, at |-> 0, place |-> 0, abs |-> FALSE, ed |-> TRUE, gen |-> 0]

PlaceInit ==
    /\ recording \in Recordings
    /\ log = <<>> /\ row = Nowhere /\ player = Nowhere
    /\ cursor = Generation(1, NoCursor)
    /\ exchange = Resting
    /\ now = 0 /\ reads = 0 /\ beats = 0 /\ faults = 0

Fault == faults < MaxFaults /\ faults' = faults + 1
-----------------------------------------------------------------------------
(* The readers. *)

\* A client's op, uploaded at once or later, of this edition or another.
ReadHere ==
    /\ reads < MaxReads
    /\ \E p \in Places, at \in 1..now + 1, ed \in BOOLEAN :
         log' = Append(log, [id |-> reads + 1, at |-> at, place |-> p, abs |-> FALSE,
                             ed |-> ed, gen |-> 0])
    /\ reads' = reads + 1 /\ now' = now + 1
    /\ UNCHANGED <<recording, row, player, cursor, exchange, beats, faults>>

\* Listening, or marking finished, in the player.
ListenThere ==
    /\ reads < MaxReads
    /\ \E p \in Places, done \in BOOLEAN :
         /\ row' = [id |-> reads + 1, at |-> now + 1, place |-> p, done |-> done]
         /\ player' = row'
    /\ reads' = reads + 1 /\ now' = now + 1
    /\ UNCHANGED <<recording, log, cursor, exchange, beats, faults>>

\* An open player reports its place again.
Heartbeat ==
    /\ beats < MaxBeats
    /\ player # Nowhere
    /\ row' = [player EXCEPT !.at = now + 1]
    /\ beats' = beats + 1 /\ now' = now + 1
    /\ UNCHANGED <<recording, log, player, cursor, exchange, reads, faults>>

\* The player is left.
StopListening ==
    /\ player # Nowhere
    /\ player' = Nowhere
    /\ UNCHANGED <<recording, log, row, cursor, exchange, now, reads, beats, faults>>
-----------------------------------------------------------------------------
(* The mapping. *)

ToBook(a) ==
    IF a \notin Covered THEN Nowhere
    ELSE IF FullNarrative \/ a <= Capped THEN a ELSE Capped

ToAudio(p) == IF p \in Covered THEN p ELSE Nowhere

\* The end of the coverage: a finished recording is there.
AudioEnd == CHOOSE a \in Covered : \A b \in Covered : b <= a

\* Where a progress row is in the book, or Nowhere.
InBook(r) ==
    IF r.done /\ FullNarrative THEN Top
    ELSE ToBook(IF r.done THEN AudioEnd ELSE r.place)

Finishes(op) == op.place = Top /\ CoversLast

\* Where an op is in the recording, or Nowhere.
InAudio(op) == IF Finishes(op) THEN AudioEnd ELSE ToAudio(op.place)

Mark(r) == <<r.place, r.done>>
-----------------------------------------------------------------------------
(* A pass. *)

NewestOp == IF log = <<>> THEN NoOp ELSE log[Len(log)]

\* One GET /api/me per pass, before the gate is taken.
Begin ==
    /\ exchange = Resting
    /\ exchange' = [stage |-> "fetched", remote |-> row]
    /\ UNCHANGED <<recording, log, row, player, cursor, now, reads, beats, faults>>

Same(local, r) ==
    /\ local.place = InBook(r)
    /\ \/ r.done = Finishes(local)
       \/ ~FullNarrative /\ r.done /\ local.place = Capped

Agree(local, r) ==
    r # Nowhere /\ InBook(r) # Nowhere /\ local # NoOp /\ local.ed /\ Same(local, r)

IsEcho(r, cur) == r # Nowhere /\ Mark(r) = cur.mark /\ r.at <= cur.ms

\* Faulty: only the peer's own time is asked.
ShouldPullAlways(local, seq, r, cur) == r # Nowhere /\ ~IsEcho(r, cur)

\* Newest wins, a tie keeps local, and what was seen is not newer news than
\* an op that was never pushed.
ShouldPull(local, seq, r, cur) ==
    /\ r # Nowhere /\ ~IsEcho(r, cur)
    /\ local = NoOp \/ r.at > local.at
    /\ ~(r.at <= cur.ms /\ seq > cur.pushed)

\* A position of zero never displaces one that is not.
MayPull(local, r, cur) ==
    /\ r.at > cur.ms
    /\ InBook(r) # Nowhere
    /\ ~(r.place = 0 /\ local.place > 0)

MayPush(local) == local # NoOp /\ local.ed /\ ~local.abs /\ InAudio(local) # Nowhere

Snapshot(cur, stage, local) ==
    [stage |-> stage, cur |-> cur, remote |-> exchange.remote, local |-> local,
     seq |-> Len(log), gen |-> cursor.gen]

\* processItem up to the decision of exchange.
Decide ==
    /\ exchange.stage = "fetched"
    /\ LET r == exchange.remote
           seq == Len(log)
           cur == [pushed |-> cursor.pushed, mark |-> cursor.mark, ms |-> cursor.ms]
           kept == [cur EXCEPT !.mark = IF IsEcho(r, cur) THEN @ ELSE Nowhere]
           cont == CASE Agree(NewestOp, r) ->
                          Snapshot([cur EXCEPT !.pushed = seq, !.ms = r.at], "save", NewestOp)
                     [] ~Agree(NewestOp, r) /\ IsEcho(r, cur) /\ seq <= cur.pushed ->
                          Snapshot(kept, "save", NewestOp)
                     [] ~Agree(NewestOp, r) /\ ShouldPull(NewestOp, seq, r, kept) ->
                          Snapshot(kept, IF MayPull(NewestOp, r, kept) THEN "pull" ELSE "save",
                                   NewestOp)
                     [] OTHER -> Snapshot(kept, IF MayPush(NewestOp) THEN "push" ELSE "save",
                                            NewestOp)
       IN exchange' = cont
    /\ UNCHANGED <<recording, log, row, player, cursor, now, reads, beats, faults>>

\* ready: the link is as it was and no op has come.
StillReady == cursor.gen = exchange.gen /\ Len(log) = exchange.seq

Ready ==
    /\ exchange.stage \in {"pull", "push"}
    /\ exchange' = [exchange EXCEPT !.stage = IF ~StillReady THEN "save"
                                      ELSE IF exchange.stage = "pull" THEN "append" ELSE "close"]
    /\ UNCHANGED <<recording, log, row, player, cursor, now, reads, beats, faults>>

\* AppendOps, of a derived op: the same position again is a duplicate.
AppendPulled ==
    /\ exchange.stage = "append"
    /\ cursor.gen = exchange.gen
    /\ LET r == exchange.remote
           op == [id |-> r.id, at |-> r.at, place |-> InBook(r), abs |-> TRUE, ed |-> TRUE,
                  gen |-> exchange.gen]
           stored == {i \in 1..Len(log) : log[i] = op}
           seq == IF stored = {} THEN Len(log) + 1 ELSE CHOOSE i \in stored : TRUE
       IN /\ log' = IF stored = {} THEN Append(log, op) ELSE log
          /\ exchange' = [exchange EXCEPT !.stage = "save", !.cur.pushed = seq, !.cur.ms = r.at]
    /\ UNCHANGED <<recording, row, player, cursor, now, reads, beats, faults>>

\* The work was merged away: the op is refused.
AppendRefused ==
    /\ exchange.stage = "append" /\ cursor.gen # exchange.gen
    /\ exchange' = [exchange EXCEPT !.stage = "save"]
    /\ UNCHANGED <<recording, log, row, player, cursor, now, reads, beats, faults>>

\* CloseOpenSessionsForItem: best effort.
Close ==
    /\ exchange.stage = "close"
    /\ player' \in {Nowhere, player}
    /\ exchange' = [exchange EXCEPT !.stage = "patch"]
    /\ UNCHANGED <<recording, log, row, cursor, now, reads, beats, faults>>

Pushed == [id |-> exchange.local.id, at |-> now + 1, place |-> InAudio(exchange.local),
           done |-> Finishes(exchange.local)]

\* UpdateProgress: the mark is kept from here on.
Patch ==
    /\ exchange.stage = "patch"
    /\ row' = Pushed /\ now' = now + 1
    /\ exchange' = [exchange EXCEPT !.stage = "readback", !.cur.pushed = exchange.seq,
                                    !.cur.mark = Mark(Pushed)]
    /\ UNCHANGED <<recording, log, player, cursor, reads, beats, faults>>

\* The call failed, before or after it did its work.
PatchFails ==
    /\ exchange.stage = "patch" /\ Fault
    /\ \/ row' = Pushed /\ now' = now + 1
       \/ UNCHANGED <<row, now>>
    /\ exchange' = [exchange EXCEPT !.stage = "save"]
    /\ UNCHANGED <<recording, log, player, cursor, reads, beats>>

\* Faulty: whatever is read back is taken for the echo.
ReadBackOf(r) == r.at

\* The time of the echo, when the row is still what was written.
EchoTime(r) == IF Mark(r) = exchange.cur.mark THEN r.at ELSE exchange.cur.ms

ReadBack ==
    /\ exchange.stage = "readback"
    /\ exchange' = [exchange EXCEPT !.stage = "save", !.cur.ms = EchoTime(row)]
    /\ UNCHANGED <<recording, log, row, player, cursor, now, reads, beats, faults>>

ReadBackFails ==
    /\ exchange.stage = "readback" /\ Fault
    /\ exchange' = [exchange EXCEPT !.stage = "save"]
    /\ UNCHANGED <<recording, log, row, player, cursor, now, reads, beats>>

\* UpdateAudiobookCursor: of this generation, or nothing.
Save ==
    /\ exchange.stage = "save"
    /\ cursor' = IF cursor.gen = exchange.gen THEN Generation(cursor.gen, exchange.cur) ELSE cursor
    /\ exchange' = Resting
    /\ UNCHANGED <<recording, log, row, player, now, reads, beats, faults>>

\* The process stops, or the store or the peer fails the pass.
Stop ==
    /\ exchange # Resting /\ Fault
    /\ exchange' = Resting
    /\ UNCHANGED <<recording, log, row, player, cursor, now, reads, beats>>

\* A merge gives the link another work and generation; the cursor stays.
MergeUnder ==
    /\ Fault
    /\ cursor' = [cursor EXCEPT !.gen = @ + 1]
    /\ UNCHANGED <<recording, log, row, player, exchange, now, reads, beats>>

\* UpdateAudiobookLink, under the gate: the link starts again from nothing.
Remap ==
    /\ exchange = Resting /\ Fault
    /\ cursor' = Generation(cursor.gen + 1, NoCursor)
    /\ UNCHANGED <<recording, log, row, player, exchange, now, reads, beats>>

PlaceStep == \/ Begin \/ Decide \/ Ready \/ AppendPulled \/ AppendRefused \/ Close
            \/ Patch \/ ReadBack \/ Save

PlaceNext ==
    \/ ReadHere \/ ListenThere \/ Heartbeat \/ StopListening
    \/ PlaceStep
    \/ PatchFails \/ ReadBackFails \/ Stop \/ MergeUnder \/ Remap

\* The runner begins pass after pass, and a pass gets on.
PlaceSpec == PlaceInit /\ [][PlaceNext]_placeVars /\ WF_placeVars(PlaceStep)
-----------------------------------------------------------------------------
Rec(r) == r # Nowhere => r.id \in 1..MaxReads /\ r.at \in 1..now /\ r.place \in Places
                      /\ r.done \in BOOLEAN

\* Types; what the cursor says was pushed or agreed on is an op of the log, and
\* what it says it saw of the peer has happened.
PlaceTypeOK ==
    /\ recording \in Recordings
    /\ \A i \in 1..Len(log) : /\ log[i].id \in 1..reads /\ log[i].at \in 1..now
                              /\ log[i].place \in Places
    /\ Rec(row) /\ Rec(player)
    /\ cursor.gen \in 1..MaxFaults + 1
    /\ cursor.mark \in {Nowhere} \cup (Places \X BOOLEAN)
    /\ cursor.pushed \in 0..Len(log) /\ cursor.ms \in 0..now
    /\ exchange.stage \in {"idle", "fetched", "pull", "push", "append", "close", "patch",
                           "readback", "save"}
    /\ {reads, beats, faults} \subseteq Nat

\* A reading made here never comes back as one of the peer's: a pulled op is of
\* a reading made in the player (IsEcho, the agreement check and the mark that
\* a push leaves).
NeverOurOwn ==
    \A i \in 1..Len(log) : log[i].abs =>
        ~\E j \in 1..Len(log) : ~log[j].abs /\ log[j].id = log[i].id

\* Both sides show one place, seen from the book or from the recording.
Together(op, r) ==
    \/ InBook(r) = op.place
    \/ r.place = InAudio(op) /\ r.done = Finishes(op)

\* A place of the player that the cursor counts as seen is a place some op of
\* the work is at: no listening is passed over, in particular not what is
\* listened to between a push and its readback (EchoTime).
NothingPassedOver ==
    row # Nowhere /\ row.at <= cursor.ms =>
        \E i \in 1..Len(log) : Together(log[i], row)

\* Newest wins: a pulled op never lands on an op with a later client time.
NewestWins ==
    [][Len(log') > Len(log) /\ log'[Len(log')].abs /\ log # <<>> =>
          log[Len(log)].at < log'[Len(log')].at]_placeVars

\* Both sides show the same place, or this is one the code leaves apart: the
\* newest op is of another edition or not in the recording, the player's place
\* is not in the book, or is the start.
PlacesSettled ==
    \/ log = <<>> /\ (row = Nowhere \/ InBook(row) = Nowhere)
    \/ log # <<>> /\ row # Nowhere /\ Together(NewestOp, row)
    \/ log # <<>> /\ (~NewestOp.ed \/ InAudio(NewestOp) = Nowhere)
    \/ row # Nowhere /\ (InBook(row) = Nowhere \/ row.place = 0)
=============================================================================
