--------------------------- MODULE SourceSessions ---------------------------
(***************************************************************************)
(* Sessions that come with a key of their source: rows of KOReader's       *)
(* statistics uploaded by the koplugin, and sittings imported from         *)
(* Audiobookshelf.  The source may report one of them again, changed: the  *)
(* log of sessions is append-only, so each report is a session and the     *)
(* last revision of a key is the one that counts.                          *)
(*                                                                         *)
(* Underneath, the reader merges, splits and deletes works.  Every action  *)
(* is one transaction, except that an import reads the key's history first *)
(* and stores the session in a second transaction.  A session is judged by *)
(* its identifier, made of key and content, and by the work it names.      *)
(***************************************************************************)
EXTENDS Integers, FiniteSets

CONSTANTS
  Books,         \* each known by a KOReader digest (alias) and by a file (edition)
  KoRows,        \* keys of koplugin rows
  Sittings,      \* keys of Audiobookshelf sittings, all of one item
  BookOf,        \* the book a koplugin row names
  SourceWorks,
  Nowhere,
  MaxVersion     \* bound: reports of one key

SourceAssumption ==
  /\ KoRows \cap Sittings = {} /\ BookOf \in [KoRows -> Books]
  /\ Nowhere \notin SourceWorks /\ Nowhere \notin Books /\ MaxVersion \in Nat \ {0}

VARIABLES
  sourceWorks,   \* works there are
  born,          \* works there were ever
  alias,         \* aliases: the work a book's digest names
  editions,      \* editions: the work a book's file belongs to
  sessions,      \* sessions with their session_supersessions
  imports,       \* audiobook_session_imports: sittings ever imported
  link,          \* audiobook_links: the item's link, or NoLink
  version,       \* the last report each source has made of a key
  import         \* what an import holds in memory, or Idle

graphVars == <<sourceWorks, born, alias, editions>>
sourceVars == <<graphVars, sessions, imports, link, version, import>>

SourceKeys == KoRows \cup Sittings
NoLink == [work |-> Nowhere, edition |-> Nowhere]
Idle == [stage |-> "idle"]

SourceInit ==
  /\ sourceWorks = {} /\ born = {}
  /\ alias = [b \in Books |-> Nowhere] /\ editions = [b \in Books |-> Nowhere]
  /\ sessions = {} /\ imports = {} /\ link = NoLink
  /\ version = [k \in SourceKeys |-> 0] /\ import = Idle

History(k) == {s \in sessions : s.key = k}
Latest(S) == CHOOSE s \in S : \A t \in S : t.revision <= s.revision
Current(k) == Latest(History(k))

(* The deferred foreign keys, when the transaction commits.                *)
Consistent(s) == s.work \in sourceWorks' /\ (s.edition # Nowhere => editions'[s.edition] = s.work)

(***************************************************************************)
(* appendSourceSessionTx.                                                  *)
(***************************************************************************)
Stored(s) == {t \in History(s.key) : t.version = s.version}
Numbered(s) ==
  [s EXCEPT !.revision = IF History(s.key) = {} THEN 1 ELSE Current(s.key).revision + 1]

(* Arrival decides, without a time of the source.                          *)
AppendByArrival(s) ==
  sessions' = IF Stored(s) # {} THEN sessions ELSE sessions \cup {Numbered(s)}

(* The source's own time decides, and the new revision takes the place of  *)
(* the current one: its work and edition, wherever they went since.        *)
Replacing(s) ==
  IF History(s.key) = {} THEN s
  ELSE [s EXCEPT !.work = Current(s.key).work, !.edition = Current(s.key).edition]

(* Faulty: revisions are taken as they come.                               *)
OutdatedNever(s) == FALSE
Outdated(s) == History(s.key) # {} /\ s.version <= Current(s.key).version

AppendByTime(s) ==
  IF Stored(s) # {} \/ Outdated(s) THEN UNCHANGED sessions
  ELSE Consistent(Replacing(s)) /\ sessions' = sessions \cup {Numbered(Replacing(s))}

(***************************************************************************)
(* koplugin.                                                               *)
(***************************************************************************)
Report(k) ==
  /\ version[k] < MaxVersion /\ version' = [version EXCEPT ![k] = @ + 1]
  /\ UNCHANGED <<graphVars, sessions, imports, link, import>>

(* A row is uploaded, for the first time or again, under the work its      *)
(* digest names, which is made if there is none.                           *)
UpsertKopluginSession(k, v) ==
  LET b == BookOf[k]
  IN /\ k \in KoRows /\ v \in 1 .. version[k]
     /\ \E w \in IF alias[b] = Nowhere THEN SourceWorks \ born ELSE {alias[b]} :
          /\ sourceWorks' = sourceWorks \cup {w} /\ born' = born \cup {w}
          /\ alias' = [alias EXCEPT ![b] = w]
          /\ AppendByArrival([key |-> k, version |-> v, work |-> w, edition |-> Nowhere, revision |-> 0])
     /\ UNCHANGED <<editions, imports, link, version, import>>

(***************************************************************************)
(* Audiobookshelf.                                                         *)
(***************************************************************************)
(* Linking names the book's work and its present file.                     *)
CreateAudiobookLink(b) ==
  /\ link = NoLink /\ editions[b] # Nowhere
  /\ link' = [work |-> editions[b], edition |-> b]
  /\ UNCHANGED <<graphVars, sessions, imports, version, import>>

DeleteAudiobookLink ==
  /\ link # NoLink /\ link' = NoLink
  /\ UNCHANGED <<graphVars, sessions, imports, version, import>>

(* importSession decides where a report belongs: where the sitting is, or  *)
(* where the link points if it was never imported.  A report may be one    *)
(* that has been overtaken.                                                *)
ImportSession(k, v) ==
  /\ k \in Sittings /\ v \in 1 .. version[k] /\ import = Idle /\ link # NoLink
  /\ k \in imports => History(k) # {}
  /\ import' = [stage |-> "ready",
                session |-> [key |-> k, version |-> v, revision |-> 0,
                             work |-> IF k \in imports THEN Current(k).work ELSE link.work,
                             edition |-> IF k \in imports THEN Current(k).edition ELSE link.edition]]
  /\ UNCHANGED <<graphVars, sessions, imports, link, version>>

(* AppendAudiobookSession: a sitting that was imported and is gone was     *)
(* deleted with its work.                                                  *)
Deleted(k) == k \in imports /\ History(k) = {}

AppendAudiobookSession ==
  LET s == import.session
  IN /\ import # Idle /\ import' = Idle
     /\ UNCHANGED <<graphVars, link, version>>
     /\ IF Deleted(s.key) THEN UNCHANGED sessions ELSE AppendByTime(s)
     /\ imports' = IF sessions' = sessions THEN imports ELSE imports \cup {s.key}

(* readyBook found another link, or the transaction broke a foreign key,   *)
(* or the process stopped.                                                 *)
ImportFails ==
  /\ import # Idle /\ import' = Idle
  /\ UNCHANGED <<graphVars, sessions, imports, link, version>>

(***************************************************************************)
(* The work graph.                                                         *)
(***************************************************************************)
(* A client names a book by its file, or by its file and its digest.       *)
ResolveWork(b, digest) ==
  LET known == {editions[b]} \cup (IF digest THEN {alias[b]} ELSE {})
  IN /\ Cardinality(known \ {Nowhere}) <= 1 /\ Nowhere \in known
     /\ \E w \in IF known = {Nowhere} THEN SourceWorks \ born ELSE known \ {Nowhere} :
          /\ sourceWorks' = sourceWorks \cup {w} /\ born' = born \cup {w}
          /\ editions' = [editions EXCEPT ![b] = w]
          /\ alias' = IF digest THEN [alias EXCEPT ![b] = w] ELSE alias
     /\ UNCHANGED <<sessions, imports, link, version, import>>

(* Sessions with a file follow it; those without follow the digest they    *)
(* name, if it is listed.                                                  *)
Follows(s, b, digest) ==
  s.edition = b \/ (digest /\ s.edition = Nowhere /\ s.key \in KoRows /\ BookOf[s.key] = b)

SplitWork(b, digest, new) ==
  /\ editions[b] # Nowhere /\ new \in SourceWorks \ born
  /\ digest => alias[b] = editions[b]
  /\ sourceWorks' = sourceWorks \cup {new} /\ born' = born \cup {new}
  /\ editions' = [editions EXCEPT ![b] = new]
  /\ alias' = IF digest THEN [alias EXCEPT ![b] = new] ELSE alias
  /\ sessions' = {IF s.work = editions[b] /\ Follows(s, b, digest)
                  THEN [s EXCEPT !.work = new] ELSE s : s \in sessions}
  /\ link' = IF link # NoLink /\ link.work = editions[b] /\ link.edition = b
             THEN [link EXCEPT !.work = new] ELSE link
  /\ UNCHANGED <<imports, version, import>>

MergeWorks(from, into) ==
  LET at(w) == IF w = from THEN into ELSE w
  IN /\ from \in sourceWorks /\ into \in sourceWorks /\ from # into
     /\ sourceWorks' = sourceWorks \ {from}
     /\ alias' = [b \in Books |-> at(alias[b])] /\ editions' = [b \in Books |-> at(editions[b])]
     /\ sessions' = {[s EXCEPT !.work = at(@)] : s \in sessions}
     /\ link' = IF link # NoLink /\ link.work = from
                THEN [link EXCEPT !.work = into] ELSE link
     /\ UNCHANGED <<born, imports, version, import>>

(* The cascade takes sessions, revisions and link, not the imports.        *)
DeleteSourceWork(w) ==
  LET left(v) == IF v = w THEN Nowhere ELSE v
  IN /\ w \in sourceWorks /\ sourceWorks' = sourceWorks \ {w}
     /\ alias' = [b \in Books |-> left(alias[b])] /\ editions' = [b \in Books |-> left(editions[b])]
     /\ sessions' = {s \in sessions : s.work # w}
     /\ link' = IF link # NoLink /\ link.work = w THEN NoLink ELSE link
     /\ UNCHANGED <<born, imports, version, import>>

SourceNext ==
  \/ \E k \in SourceKeys : Report(k)
  \/ \E k \in KoRows, v \in 1 .. MaxVersion : UpsertKopluginSession(k, v)
  \/ \E b \in Books : CreateAudiobookLink(b)
  \/ DeleteAudiobookLink
  \/ \E k \in Sittings, v \in 1 .. MaxVersion : ImportSession(k, v)
  \/ AppendAudiobookSession
  \/ ImportFails
  \/ \E b \in Books, digest \in BOOLEAN : ResolveWork(b, digest)
  \/ \E b \in Books, digest \in BOOLEAN, new \in SourceWorks : SplitWork(b, digest, new)
  \/ \E from, into \in SourceWorks : MergeWorks(from, into)
  \/ \E w \in SourceWorks : DeleteSourceWork(w)

SourceSpec == SourceInit /\ [][SourceNext]_sourceVars

-----------------------------------------------------------------------------
(***************************************************************************)
(* Properties                                                              *)
(***************************************************************************)
SourceTypeOK ==
  /\ sourceWorks \subseteq born /\ born \subseteq SourceWorks
  /\ alias \in [Books -> sourceWorks \cup {Nowhere}] /\ editions \in [Books -> sourceWorks \cup {Nowhere}]
  /\ sessions \subseteq [key : SourceKeys, version : 1 .. MaxVersion, work : sourceWorks,
                         edition : Books \cup {Nowhere}, revision : 1 .. MaxVersion]
  /\ imports \subseteq Sittings /\ version \in [SourceKeys -> 0 .. MaxVersion]
  /\ link.work \in sourceWorks \cup {Nowhere}

(* A sitting counts as the source last described it, in whatever order its *)
(* reports arrive.                                                         *)
LatestReportCounts ==
  \A k \in Sittings : History(k) # {} => \A s \in History(k) : s.version <= Current(k).version

=============================================================================
