---------------------------- MODULE MCAudiobooks ----------------------------
(***************************************************************************)
(* Following a reader on an Audiobookshelf server, in seven scenarios:     *)
(*   late      a client uploads an old reading (AudiobookPositions)        *)
(*   faults    calls are lost, the process stops (AudiobookPositions)      *)
(*   partial   the recording is of the last part (AudiobookPositions)      *)
(*   links     a link, its item and its book change (AudiobookLinks)       *)
(*   graph     works under links are merged, split, deleted (the same)     *)
(*   imports   sessions are read page by page (AudiobookSessions)          *)
(*   deletes   some are deleted, imports fail (the same)                   *)
(* What a scenario does not use rests in its initial state.                *)
(***************************************************************************)
EXTENDS AudiobookPositions, AudiobookLinks, AudiobookSessions

CONSTANTS item, book, w1, w2, w3

VARIABLE scenario

Narrated(top, covered, full) == [top |-> top, covered |-> covered, full |-> full, last |-> TRUE]
Whole == Narrated(2, 0..2, TRUE)
Short == Narrated(1, 0..1, TRUE)
LastPart == Narrated(3, 1..3, FALSE)

MCRecordings == {Whole, Short, LastPart}
MCMatchOf == [i \in Items |-> book]
MCAligned == {<<1, 1>>, <<2, 1>>}
MCClocks == {{-1, 0, 2}, {-4, -3}}

ASSUME AudiobookAssumption /\ LinksAssumption /\ SessionsAssumption

Is(s) == scenario = s
vars == <<scenario, placeVars, libraryVars, feedVars>>

RecordingOf ==
  [late |-> Whole, faults |-> Short, partial |-> LastPart, links |-> Short, graph |-> Short,
   imports |-> Short, deletes |-> Short]

MCInit ==
  /\ scenario \in DOMAIN RecordingOf
  /\ PlaceInit /\ LinkInit /\ FeedInit
  /\ recording = RecordingOf[scenario]
  /\ scenario \notin {"imports", "deletes"} => dates = {-4, -3}
  /\ Is("deletes") => dates = {-1, 0, 2}

(* The bounds of the scenarios of positions: an old reading and nothing    *)
(* else; everything that fails, twice; and once, of a partial recording    *)
(* and with another edition.                                               *)
Prompt == Len(log') > Len(log) /\ ~log'[Len(log')].abs => log'[Len(log')].at = now'
OneEdition == \A k \in 1..Len(log') : log'[k].ed
Closes == exchange'.stage = "patch" => player' = Nowhere

LateNext == PlaceNext /\ beats' = 0 /\ faults' = 0 /\ OneEdition /\ Closes
FaultsNext == PlaceNext /\ reads' <= 2 /\ Prompt /\ OneEdition /\ Closes
PartialNext == PlaceNext /\ reads' <= 2 /\ beats' = 0 /\ faults' <= 1 /\ Prompt

(* Of links: the graph of works stays (works are alike: the first one will *)
(* do), or it is what changes.                                             *)
LibraryNext == LinkNext /\ works' \subseteq {w1} /\ (moves' # moves => works' = works)
GraphNext ==
  /\ LinkNext /\ moves' <= 3 /\ acts' <= 1
  /\ moves' # moves => works' # works \/ bytes' # bytes

(* Of sessions: they stay, and the link changes; or they do not.           *)
ImportsNext == FeedNext /\ deletes' = 0 /\ lapses' = 0
DeletesNext == FeedNext /\ Steady /\ changes' + lapses' <= 1 /\ clock' <= 6

MCNext ==
  /\ \/ Is("late") /\ LateNext /\ UNCHANGED <<libraryVars, feedVars>>
     \/ Is("faults") /\ FaultsNext /\ UNCHANGED <<libraryVars, feedVars>>
     \/ Is("partial") /\ PartialNext /\ UNCHANGED <<libraryVars, feedVars>>
     \/ Is("links") /\ LibraryNext /\ UNCHANGED <<placeVars, feedVars>>
     \/ Is("graph") /\ GraphNext /\ UNCHANGED <<placeVars, feedVars>>
     \/ Is("imports") /\ ImportsNext /\ UNCHANGED <<placeVars, libraryVars>>
     \/ Is("deletes") /\ DeletesNext /\ UNCHANGED <<placeVars, libraryVars>>
  /\ UNCHANGED scenario

(* The runner begins pass after pass; who has the gate gets on.            *)
Exchanging == Is("partial") /\ PlaceStep /\ UNCHANGED <<scenario, libraryVars, feedVars>>
Linking == Is("links") /\ LinkStep /\ UNCHANGED <<scenario, placeVars, feedVars>>
Working == Is("links") /\ Work /\ UNCHANGED <<scenario, placeVars, feedVars>>

FairSpec ==
  /\ MCInit /\ [][MCNext]_vars
  /\ WF_vars(Exchanging) /\ WF_vars(Linking) /\ WF_vars(Working)

(* When the reader stops, book and recording come to show one place, where *)
(* the mapping and the guard against zero let them (sync.go, exchange).    *)
ComeToAgree == <>[](Is("partial") => PlacesSettled)

(* When nothing changes any more, every link whose item is listed and      *)
(* whose book can be served is on the current bytes and chapters and is    *)
(* not paused (Sync).                                                      *)
LinksSettle == <>[](Is("links") => LinksSettled)
=============================================================================
