---------------------------- MODULE AudiobookLinks ----------------------------
(***************************************************************************)
(* Links between the audiobooks of an Audiobookshelf server and a reader's *)
(* works (internal/audiobookshelf/service.go, sync.go;                     *)
(* store/sqlite/audiobooks.go; ADR-0055): made by a pass or by the reader, *)
(* paused and revalidated by passes, confirmed and unlinked by the reader, *)
(* carried by merges and splits of works.                                  *)
(*                                                                         *)
(* The gate makes passes and the reader's mutations exclusive (job).  Who  *)
(* holds it reads the store and the peer in several steps, between which   *)
(* the library, the peer and the graph of works change.  A link's          *)
(* generation is what every later write of it compares.                    *)
(***************************************************************************)
EXTENDS Integers, FiniteSets

CONSTANTS Items, Books, Works,
          MatchOf,      \* the one book an item matches
          MaxVersion,   \* versions of a book's bytes and of an item's chapters
          Aligned,      \* pairs of versions whose chapters align
          MaxMoves,     \* bound: what else happens
          MaxActs,      \* bound: what the reader does
          None

LinksAssumption ==
    /\ MatchOf \in [Items -> Books]
    /\ MaxVersion \in Nat \ {0} /\ Aligned \subseteq (1..MaxVersion) \X (1..MaxVersion)
    /\ MaxMoves \in Nat /\ MaxActs \in Nat

VARIABLES works, unborn, \* works there are, and ids never used
          edition,      \* editions: the work of a book's bytes, or None
          bookWork,     \* user_book_works: the work a book is mapped to, or None
          bytes, shelf, \* each book's bytes; the books that can be served
          chapters, listed,  \* each item's chapters; the items of the peer
          links,        \* audiobook_links
          rejected,     \* audiobook_link_rejections: <<work, item>>
          gens,         \* generations given so far
          pass,         \* the pass under way: [todo, snap], or None
          job,          \* what the holder of the gate remembers, or None
          moves, acts,  \* bounds
          approved      \* history: <<item, key>> aligned with full confidence
                        \* when linked, or confirmed by the reader

graphVars == <<works, unborn, edition, bookWork>>
worldVars == <<bytes, shelf, chapters, listed>>
linkVars == <<links, rejected, gens, approved>>
libraryVars == <<graphVars, worldVars, linkVars, pass, job, moves, acts>>

Versions == 1..MaxVersion
Editions == Books \X Versions
Key(b, i, linear) == <<b, bytes[b], chapters[i], linear>>
LinkOf(i) == {l \in links : l.item = i}

LinkInit ==
    /\ works = {} /\ unborn = Works
    /\ edition = [e \in Editions |-> None]
    /\ bookWork = [b \in Books |-> None]
    /\ bytes = [b \in Books |-> 1] /\ shelf = Books
    /\ chapters = [i \in Items |-> 1] /\ listed = Items
    /\ links = {} /\ rejected = {} /\ gens = 0
    /\ pass = None /\ job = None
    /\ moves = 0 /\ acts = 0 /\ approved = {}
-----------------------------------------------------------------------------
(* The store's part. *)

\* Works a book's resolution may name: the one it is mapped to, the one that
\* has its bytes, or a new one.
Resolvable(b) ==
    IF bookWork[b] # None THEN {bookWork[b]}
    ELSE IF edition[<<b, bytes[b]>>] # None THEN {edition[<<b, bytes[b]>>]}
    ELSE unborn

\* ResolveWork.
Resolve(b, w) ==
    /\ w \in Resolvable(b)
    /\ works' = works \cup {w} /\ unborn' = unborn \ {w}
    /\ bookWork' = [bookWork EXCEPT ![b] = w]
    /\ edition' = IF bookWork[b] # None THEN edition
                  ELSE [edition EXCEPT ![<<b, bytes[b]>>] = w]

\* CreateAudiobookLink: both sides are unique, and a hand-made or automatic
\* link clears the pair's rejection.
Create(l) ==
    IF l.work \in works /\ \A k \in links : k.item # l.item /\ k.work # l.work
    THEN /\ links' = links \cup {[l EXCEPT !.gen = gens + 1]}
         /\ gens' = gens + 1
         /\ rejected' = rejected \ {<<l.work, l.item>>}
         /\ approved' = IF l.state = "active" THEN approved \cup {<<l.item, l.key>>} ELSE approved
    ELSE UNCHANGED linkVars

\* UpdateAudiobookLink: of this generation, or nothing.
Update(l) ==
    IF \E k \in links : k.item = l.item /\ k.gen = l.gen
    THEN /\ links' = {k \in links : k.item # l.item}
                       \cup {[l EXCEPT !.gen = gens + 1,
                                       !.work = (CHOOSE k \in LinkOf(l.item) : TRUE).work]}
         /\ gens' = gens + 1
    ELSE UNCHANGED <<links, gens>>

\* moveAudiobookLinksTx: the survivor's link wins.
Carried(from, into) ==
    LET kept == IF \E l \in links : l.work = into THEN {l \in links : l.work # from} ELSE links
    IN  {IF l.work = from THEN [l EXCEPT !.work = into, !.gen = gens + 1] ELSE l : l \in kept}
-----------------------------------------------------------------------------
(* A reader, a library and a peer that change. *)

Move == moves < MaxMoves /\ moves' = moves + 1

Merge(from, into) ==
    /\ Move
    /\ {from, into} \subseteq works /\ from # into
    /\ links' = Carried(from, into) /\ gens' = gens + 1
    /\ rejected' = {<<IF r[1] = from THEN into ELSE r[1], r[2]>> : r \in rejected}
    /\ works' = works \ {from}
    /\ edition' = [e \in Editions |-> IF edition[e] = from THEN into ELSE edition[e]]
    /\ bookWork' = [b \in Books |-> IF bookWork[b] = from THEN into ELSE bookWork[b]]
    /\ UNCHANGED <<unborn, worldVars, pass, job, acts, approved>>

\* Ids are a bound: every book without a work can still get one.
Spare == Cardinality({b \in Books : bookWork[b] = None}) < Cardinality(unborn)

\* SplitWork of one edition, with the link computed from it and the book that
\* has its bytes now.
Split(e, w) ==
    /\ Move
    /\ edition[e] # None /\ w \in unborn /\ Spare
    /\ works' = works \cup {w} /\ unborn' = unborn \ {w}
    /\ edition' = [edition EXCEPT ![e] = w]
    /\ bookWork' = IF bytes[e[1]] = e[2] /\ bookWork[e[1]] = edition[e]
                   THEN [bookWork EXCEPT ![e[1]] = w] ELSE bookWork
    /\ links' = {IF l.work = edition[e] /\ l.edition = e
                 THEN [l EXCEPT !.work = w, !.gen = gens + 1] ELSE l : l \in links}
    /\ gens' = gens + 1
    /\ UNCHANGED <<worldVars, rejected, pass, job, acts, approved>>

\* DeleteWork, of one no book is mapped to: links and rejections go with it.
DeleteWork(w) ==
    /\ Move
    /\ w \in works /\ \A b \in Books : bookWork[b] # w
    /\ works' = works \ {w}
    /\ edition' = [e \in Editions |-> IF edition[e] = w THEN None ELSE edition[e]]
    /\ links' = {l \in links : l.work # w}
    /\ rejected' = {r \in rejected : r[1] # w}
    /\ UNCHANGED <<unborn, bookWork, worldVars, gens, pass, job, acts, approved>>

\* New bytes: their digest is registered for the book's work, if free.
Replace(b) ==
    /\ Move
    /\ bytes[b] < MaxVersion
    /\ bytes' = [bytes EXCEPT ![b] = @ + 1]
    /\ edition' = IF bookWork[b] # None /\ edition[<<b, bytes[b] + 1>>] = None
                  THEN [edition EXCEPT ![<<b, bytes[b] + 1>>] = bookWork[b]] ELSE edition
    /\ UNCHANGED <<works, unborn, bookWork, shelf, chapters, listed, linkVars, pass, job, acts>>

\* A book goes missing or comes back.
Vanish(b) ==
    /\ Move
    /\ shelf' = IF b \in shelf THEN shelf \ {b} ELSE shelf \cup {b}
    /\ UNCHANGED <<graphVars, bytes, chapters, listed, linkVars, pass, job, acts>>

Recut(i) ==
    /\ Move
    /\ chapters[i] < MaxVersion
    /\ chapters' = [chapters EXCEPT ![i] = @ + 1]
    /\ UNCHANGED <<graphVars, bytes, shelf, listed, linkVars, pass, job, acts>>

Unlist(i) ==
    /\ Move
    /\ listed' = IF i \in listed THEN listed \ {i} ELSE listed \cup {i}
    /\ UNCHANGED <<graphVars, bytes, shelf, chapters, linkVars, pass, job, acts>>
-----------------------------------------------------------------------------
(* A pass. *)

BeginPass ==
    /\ pass = None
    /\ pass' = [todo |-> listed, seen |-> listed, snap |-> links]
    /\ UNCHANGED <<graphVars, worldVars, linkVars, job, moves, acts>>

\* processItem takes the gate and reads links and rejections.
TakeItem(i) ==
    /\ pass # None /\ job = None
    /\ i \in pass.todo
    /\ pass' = [pass EXCEPT !.todo = @ \ {i}]
    /\ job' = IF LinkOf(i) # {} THEN [stage |-> "linked", item |-> i]
              ELSE IF MatchOf[i] \in shelf
                   THEN [stage |-> "matched", item |-> i, book |-> MatchOf[i],
                         edition |-> <<MatchOf[i], bytes[MatchOf[i]]>>,
                         reserved |-> {l.work : l \in links}, rejects |-> rejected]
                   ELSE None
    /\ UNCHANGED <<graphVars, worldVars, linkVars, moves, acts>>

\* The pair may not be linked: the work is taken, or the reader unlinked it.
Refused(w) == w \in job.reserved \/ <<w, job.item>> \in job.rejects

\* The work of the matched book, and whether it may be linked.
ResolveMatch ==
    /\ job # None /\ job.stage = "matched"
    /\ \E w \in Resolvable(job.book) :
         /\ Resolve(job.book, w)
         /\ job' = IF Refused(w) THEN None
                   ELSE [stage |-> "new", item |-> job.item, book |-> job.book,
                         edition |-> job.edition, source |-> "auto"]
    /\ UNCHANGED <<worldVars, linkVars, pass, moves, acts>>

\* newLink: the mapping, from the book as it was read, and its work again.
NewLink ==
    /\ job # None /\ job.stage = "new"
    /\ \E w \in Resolvable(job.book) :
         /\ Resolve(job.book, w)
         /\ LET full == <<job.edition[2], chapters[job.item]>> \in Aligned
                key == <<job.book, job.edition[2], chapters[job.item], FALSE>>
            IN job' = [stage |-> "create",
                       link |-> [gen |-> 0, item |-> job.item, work |-> w, book |-> job.book,
                                 edition |-> job.edition, source |-> job.source, key |-> key,
                                 linear |-> FALSE, mapped |-> full,
                                 state |-> IF full THEN "active" ELSE "needs_mapping"]]
    /\ UNCHANGED <<worldVars, linkVars, pass, moves, acts>>

\* The grant is asked again, and the link stored.
CreateLink ==
    /\ job # None /\ job.stage = "create"
    /\ IF job.link.book \in shelf THEN Create(job.link) ELSE UNCHANGED linkVars
    /\ job' = IF job.link.source = "auto" THEN [stage |-> "linked", item |-> job.link.item] ELSE None
    /\ UNCHANGED <<graphVars, worldVars, pass, moves, acts>>

\* The book of a link, or another of its work when that one is gone.
Candidates(l) ==
    IF l.book \in shelf THEN {l.book} ELSE {b \in shelf : bookWork[b] = l.work}

\* Faulty: the recomputed alignment is stored with the new key.
RemappedKept(l, b) ==
    [l EXCEPT !.book = b, !.edition = <<b, bytes[b]>>, !.key = Key(b, l.item, l.linear),
              !.mapped = <<bytes[b], chapters[l.item]>> \in Aligned, !.state = "needs_mapping"]

\* Another book, other bytes or other chapters: nothing is mapped until the
\* reader confirms.
Remapped(l, b) ==
    [l EXCEPT !.book = b, !.edition = <<b, bytes[b]>>, !.key = Key(b, l.item, l.linear),
              !.mapped = FALSE, !.state = "needs_mapping"]

\* Faulty: a paused link stays paused.
ResumedNever(l) == l

\* A paused link whose book is back, with what it had.
Resumed(l) == [l EXCEPT !.state = IF l.mapped THEN "active" ELSE "needs_mapping"]

\* revalidate: what it reads and decides.
Revalidate ==
    /\ job # None /\ job.stage = "linked"
    /\ \E l \in LinkOf(job.item) :
         LET next == IF Candidates(l) = {} THEN {[l EXCEPT !.state = "suspended"]}
                     ELSE {IF l.key # Key(b, l.item, l.linear) \/ b # l.book THEN Remapped(l, b)
                           ELSE IF l.state = "suspended" THEN Resumed(l) ELSE l : b \in Candidates(l)}
         IN \E n \in next : job' = IF n = l THEN None ELSE [stage |-> "update", link |-> n]
    /\ UNCHANGED <<graphVars, worldVars, linkVars, pass, moves, acts>>

\* The link was deleted meanwhile.
LinkGone ==
    /\ job # None /\ job.stage = "linked"
    /\ LinkOf(job.item) = {}
    /\ job' = None
    /\ UNCHANGED <<graphVars, worldVars, linkVars, pass, moves, acts>>

UpdateLink ==
    /\ job # None /\ job.stage = "update"
    /\ Update(job.link)
    /\ job' = None
    /\ UNCHANGED <<graphVars, worldVars, rejected, pass, moves, acts, approved>>

\* Links of items the peer no longer lists are paused, as they were when the
\* pass began, and the pass is over.
EndPass ==
    /\ pass # None /\ pass.todo = {} /\ job = None
    /\ LET unseen == {l \in pass.snap : l.item \notin pass.seen /\ l.state # "suspended"}
       IN IF unseen = {}
          THEN pass' = None /\ UNCHANGED <<links, gens>>
          ELSE \E l \in unseen : /\ Update([l EXCEPT !.state = "suspended"])
                                 /\ pass' = [pass EXCEPT !.snap = @ \ {l}]
    /\ UNCHANGED <<graphVars, worldVars, rejected, job, moves, acts, approved>>
-----------------------------------------------------------------------------
(* The reader, on the page of links. *)

Act == acts < MaxActs /\ acts' = acts + 1

\* Link, by hand: takes the gate.
LinkByHand(i, b) ==
    /\ Act
    /\ job = None
    /\ i \in listed /\ b \in shelf
    /\ job' = [stage |-> "new", item |-> i, book |-> b, edition |-> <<b, bytes[b]>>,
               source |-> "manual"]
    /\ UNCHANGED <<graphVars, worldVars, linkVars, pass, moves>>

\* Mutate, unlink: of the generation shown.
Unlink(l) ==
    /\ Act
    /\ job = None
    /\ links' = links \ {l}
    /\ rejected' = rejected \cup {<<l.work, l.item>>}
    /\ UNCHANGED <<graphVars, worldVars, gens, pass, job, moves, approved>>

\* Mutate, confirm or linear: what was previewed, if it is still the same.
Confirm(l, linear) ==
    /\ Act
    /\ job = None
    /\ l.state = "needs_mapping"
    /\ l.book \in shelf
    /\ l.key = Key(l.book, l.item, l.linear)
    /\ LET asLinear == linear \/ l.linear
       IN /\ asLinear # (<<bytes[l.book], chapters[l.item]>> \in Aligned)
          /\ job' = [stage |-> "confirmed",
                     link |-> [l EXCEPT !.linear = asLinear, !.mapped = TRUE, !.state = "active",
                                        !.edition = <<l.book, bytes[l.book]>>,
                                        !.key = Key(l.book, l.item, asLinear)]]
    /\ UNCHANGED <<graphVars, worldVars, linkVars, pass, moves>>

StoreConfirmed ==
    /\ job # None /\ job.stage = "confirmed"
    /\ IF job.link.book \in shelf
       THEN Update(job.link) /\ approved' = approved \cup {<<job.link.item, job.link.key>>}
       ELSE UNCHANGED <<links, gens, approved>>
    /\ job' = None
    /\ UNCHANGED <<graphVars, worldVars, rejected, pass, moves, acts>>

\* A holder of the gate gets on.
Work ==
    \/ ResolveMatch \/ NewLink \/ CreateLink
    \/ Revalidate \/ LinkGone \/ UpdateLink \/ StoreConfirmed

LinkStep == BeginPass \/ (\E i \in Items : TakeItem(i)) \/ EndPass

LinkNext ==
    \/ Work \/ LinkStep
    \/ \E from \in Works, into \in Works : Merge(from, into)
    \/ \E e \in Editions, w \in Works : Split(e, w)
    \/ \E w \in Works : DeleteWork(w)
    \/ \E b \in Books : Replace(b) \/ Vanish(b)
    \/ \E i \in Items : Recut(i) \/ Unlist(i)
    \/ \E i \in Items, b \in Books : LinkByHand(i, b)
    \/ \E l \in links : Unlink(l) \/ Confirm(l, TRUE) \/ Confirm(l, FALSE)

\* The runner begins pass after pass; who has the gate gets on.
LinkSpec == LinkInit /\ [][LinkNext]_libraryVars /\ WF_libraryVars(Work) /\ WF_libraryVars(LinkStep)
-----------------------------------------------------------------------------
\* Types; a link joins one item and one work, in whatever state, a work that
\* exists, and has a generation of its own.
LinkTypeOK ==
    /\ works \cap unborn = {}
    /\ edition \in [Editions -> works \cup {None}]
    /\ bookWork \in [Books -> works \cup {None}]
    /\ \A l \in links : /\ l.work \in works /\ l.book \in Books /\ l.edition \in Editions
                        /\ l.state \in {"active", "needs_mapping", "suspended"}
                        /\ l.gen \in 1..gens
    /\ \A l \in links, k \in links : l.item = k.item \/ l.work = k.work => l = k
    /\ rejected \subseteq works \X Items

\* Nothing crosses an alignment that was neither of full confidence when the
\* link was made nor confirmed by the reader: whatever pauses, replacements and
\* returns came in between, an active link is on such a key.
NothingUnconfirmed ==
    \A l \in links : l.state = "active" => l.mapped /\ <<l.item, l.key>> \in approved

\* What the reader unlinked is not linked again by a pass.
RejectedStays ==
    [][\A l \in links' : l.source = "auto" /\ LinkOf(l.item) = {} =>
          <<l.work, l.item>> \notin rejected]_libraryVars

\* A link's edition belongs to the link's work: a position or a session that is
\* imported names both.
EditionOnItsWork ==
    \A l \in links : edition[l.edition] = l.work

\* Every link whose item is listed and whose book can be served is on the
\* current bytes and chapters and is not paused.
LinksSettled ==
    \A l \in links : l.item \in listed /\ l.book \in shelf =>
        l.state # "suspended" /\ l.key = Key(l.book, l.item, l.linear)
=============================================================================
