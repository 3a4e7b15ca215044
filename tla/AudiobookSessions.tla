--------------------------- MODULE AudiobookSessions ---------------------------
(***************************************************************************)
(* Which listening sessions of an Audiobookshelf item an import reads      *)
(* (internal/audiobookshelf/sessions.go; ADR-0055): the item's list, page  *)
(* by page, newest first, down to the link's watermark less an overlap.    *)
(* SourceSessions says how one of them is stored.                          *)
(*                                                                         *)
(* While the pages are read the reader listens, devices that were offline  *)
(* upload what they hold, sessions are deleted, and the link changes.      *)
(* Sessions are dated by the clocks of the devices that listen.            *)
(***************************************************************************)
EXTENDS Integers, FiniteSets

CONSTANTS Ids,          \* sessions of the item: positive integers
          PerPage, Overlap,
          Skew,         \* maxClockSkew
          Clocks,       \* possible devices: sets of offsets of a date to this clock
          Start, MaxClock,  \* the clock's first value and its bound
          MaxListens, MaxDeletes, MaxChanges, MaxLapses,   \* bounds
          NoImport

\* No device dates or uploads a session later than the overlap, counted from
\* this server's clock or from the device's that is ahead of the others.
SessionsAssumption ==
    /\ Ids \subseteq Nat \ {0} /\ IsFiniteSet(Ids)
    /\ PerPage \in Nat \ {0} /\ Overlap \in Nat \ {0} /\ Skew \in Nat
    /\ Start \in Nat /\ MaxClock \in Nat /\ Start <= MaxClock
    /\ Clocks \subseteq SUBSET Int
    /\ \A D \in Clocks : \A k \in D :
         /\ k > 0 - Overlap \/ \A j \in D : j < k + Overlap
         /\ Start + k > 0

VARIABLES clock,
          dates,    \* the devices there are: an element of Clocks
          remote,   \* updatedAt of the peer's sessions, or 0
          gone,     \* sessions deleted there
          kept,     \* updatedAt of the revision that was imported, or 0
          mark,     \* the link's [gen, watermark]
          import,   \* the import under way, or NoImport
          listens, deletes, changes, lapses

peerVars == <<dates, remote, gone, listens, deletes>>
feedVars == <<clock, peerVars, kept, mark, changes, import, lapses>>

Bigger(a, b) == IF a > b THEN a ELSE b
Smaller(a, b) == IF a < b THEN a ELSE b
Listed == {i \in Ids : remote[i] # 0}

FeedInit ==
    /\ clock = Start /\ dates \in Clocks
    /\ remote = [i \in Ids |-> 0] /\ gone = {} /\ kept = [i \in Ids |-> 0]
    /\ mark = [gen |-> 0, watermark |-> 0] /\ import = NoImport
    /\ listens = 0 /\ deletes = 0 /\ changes = 0 /\ lapses = 0
-----------------------------------------------------------------------------
(* The peer and its devices. *)

Tick ==
    /\ clock < MaxClock /\ clock' = clock + 1
    /\ UNCHANGED <<peerVars, kept, mark, changes, import, lapses>>

\* A session begins, or goes on; or a device uploads one.
Listen(i, k) ==
    /\ listens < MaxListens /\ listens' = listens + 1
    /\ i \notin gone /\ k \in dates
    /\ clock + k > remote[i] /\ clock + k <= MaxClock + Skew
    /\ remote' = [remote EXCEPT ![i] = clock + k]
    /\ UNCHANGED <<clock, dates, gone, deletes, kept, mark, changes, import, lapses>>

DeleteThere(i) ==
    /\ deletes < MaxDeletes /\ deletes' = deletes + 1
    /\ i \in Listed
    /\ remote' = [remote EXCEPT ![i] = 0] /\ gone' = gone \cup {i}
    /\ UNCHANGED <<clock, dates, listens, kept, mark, changes, import, lapses>>

\* The list, newest first.
Ahead(i) == {j \in Listed : remote[j] > remote[i] \/ (remote[j] = remote[i] /\ j < i)}
Page(n) ==
    {i \in Listed : /\ n * PerPage <= Cardinality(Ahead(i))
                    /\ Cardinality(Ahead(i)) < (n + 1) * PerPage}
-----------------------------------------------------------------------------
(* The link. *)

\* A confirmation or a revalidation: everything is read anew.
ReadAnew ==
    /\ changes < MaxChanges /\ changes' = changes + 1
    /\ mark' = [gen |-> mark.gen + 1, watermark |-> 0]
    /\ UNCHANGED <<clock, peerVars, kept, import, lapses>>

\* A merge or a split carries it.
Carry ==
    /\ changes < MaxChanges /\ changes' = changes + 1
    /\ mark' = [mark EXCEPT !.gen = @ + 1]
    /\ UNCHANGED <<clock, peerVars, kept, import, lapses>>
-----------------------------------------------------------------------------
(* importSessions. *)

Boundary(watermark) == watermark - Overlap

BeginImport ==
    /\ import = NoImport
    /\ import' = [now |-> clock, gen |-> mark.gen, boundary |-> Boundary(mark.watermark),
                  mark |-> mark.watermark, page |-> 0, rows |-> {}, last |-> FALSE]
    /\ UNCHANGED <<clock, peerVars, kept, mark, changes, lapses>>

\* Sessions of a page that are dated too far ahead wait for another import.
Valid(batch) == {i \in batch : remote[i] <= import.now + Skew}

\* Faulty: new sessions are on the first page.
LastAlways(batch) == TRUE

\* The boundary is reached, the page is short, or it is the last one.
Last(batch) ==
    \/ \E i \in Valid(batch) : remote[i] <= import.boundary
    \/ Cardinality(batch) < PerPage
    \/ (import.page + 1) * PerPage >= Cardinality(Listed)

ReadPage ==
    /\ import # NoImport /\ import.rows = {} /\ ~import.last
    /\ LET batch == Page(import.page)
           rows == {i \in Valid(batch) : remote[i] > import.boundary}
       IN import' = [import EXCEPT !.page = @ + 1, !.last = Last(batch),
                                   !.rows = {<<i, remote[i]>> : i \in rows}]
    /\ UNCHANGED <<clock, peerVars, kept, mark, changes, lapses>>

\* Never beyond this clock.
Marked(at) == Bigger(import.mark, Smaller(at, import.now))

\* importSession of the newest row: known already, or stored if the link is
\* still the one that was read.
ImportRow ==
    /\ import # NoImport
    /\ \E r \in import.rows :
         /\ \A s \in import.rows : s[2] <= r[2]
         /\ kept[r[1]] >= r[2] \/ mark.gen = import.gen
         /\ kept' = [kept EXCEPT ![r[1]] = Bigger(@, r[2])]
         /\ import' = [import EXCEPT !.rows = @ \ {r}, !.mark = Marked(r[2])]
    /\ UNCHANGED <<clock, peerVars, mark, changes, lapses>>

\* The link has changed: the import ends without a watermark.
ImportRefused ==
    /\ import # NoImport /\ mark.gen # import.gen
    /\ \E r \in import.rows : kept[r[1]] < r[2]
    /\ import' = NoImport
    /\ UNCHANGED <<clock, peerVars, kept, mark, changes, lapses>>

\* The peer or the store fails, a client moves the head of the work, or the
\* process stops.
Lapse ==
    /\ lapses < MaxLapses /\ lapses' = lapses + 1
    /\ import # NoImport /\ import' = NoImport
    /\ UNCHANGED <<clock, peerVars, kept, mark, changes>>

\* UpdateAudiobookCursor.
EndImport ==
    /\ import # NoImport /\ import.rows = {} /\ import.last
    /\ mark' = IF mark.gen = import.gen THEN [mark EXCEPT !.watermark = import.mark] ELSE mark
    /\ import' = NoImport
    /\ UNCHANGED <<clock, peerVars, kept, changes, lapses>>

ImportStep == BeginImport \/ ReadPage \/ ImportRow \/ ImportRefused \/ EndImport

FeedNext ==
    \/ Tick \/ ImportStep \/ Lapse \/ ReadAnew \/ Carry
    \/ \E i \in Ids, k \in dates : Listen(i, k)
    \/ \E i \in Ids : DeleteThere(i)

\* Time passes, and the runner makes pass after pass.
FeedSpec == FeedInit /\ [][FeedNext]_feedVars /\ WF_feedVars(Tick) /\ WF_feedVars(ImportStep)
-----------------------------------------------------------------------------
\* No session is deleted there between two pages of an import: the pages that
\* follow would begin too far down.
Steady == gone' # gone /\ import # NoImport => import.page = 0 \/ import.last

\* Types, and the watermark never passes this server's clock, whatever the
\* devices' say.
FeedTypeOK ==
    /\ clock \in Start..MaxClock /\ dates \in Clocks
    /\ \A i \in Ids : remote[i] \in 0..(MaxClock + Skew) /\ kept[i] \in 0..(MaxClock + Skew)
    /\ gone \subseteq Ids \ Listed
    /\ mark.gen \in 0..changes /\ mark.watermark \in 0..clock
    /\ import # NoImport => import.mark \in 0..clock

\* No session the peer holds lies below the boundary of the next import
\* without having been imported in its last revision.
NothingMissed ==
    \A i \in Listed : kept[i] < remote[i] => remote[i] > Boundary(mark.watermark)
=============================================================================
