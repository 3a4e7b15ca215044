------------------------------- MODULE Series -------------------------------
(***************************************************************************)
(* The shelves of a library: the series its folders name, the claims of    *)
(* readers over them, and what administrators merge and split              *)
(* (store/sqlite/seriesmerge.go, seriesoverride.go, reconcile.go;          *)
(* ADR-0018, ADR-0021).                                                    *)
(*                                                                         *)
(* The disk keeps saying the old name, so a merge or a split leaves        *)
(* bindings, which every pass asks before it falls back on the name.  A    *)
(* series is the normalized name of its row, which is unique and never     *)
(* edited; nothing outlives a row that is deleted.  Positions and the      *)
(* names readers give a series, which resolve nothing, are left out.       *)
(***************************************************************************)
EXTENDS Naturals, FiniteSets

CONSTANTS Folders,
          Calibre,     \* the folders that are Calibre libraries
          Books, FolderOf,
          Names,       \* normalized series names
          Layers,      \* whose claims: readers, or everyone's
          Shared,
          MaxEdits,  \* bound: edits on disk
          MaxMoves,    \* bound: merges, splits and their undoing
          MaxClaims,   \* bound: claims made or dropped
          Everywhere   \* a binding of no folder

SeriesAssumption ==
  /\ Calibre \subseteq Folders /\ FolderOf \in [Books -> Folders]
  /\ Shared \in Layers /\ Everywhere \notin Folders
  /\ {MaxEdits, MaxMoves, MaxClaims} \subseteq Nat

VARIABLES
  tags,      \* the one series each book's file or library names; {} is none
  gone,      \* books that are not on the disk
  stat,      \* what a pass would see of a file: as read, touched, rewritten
  rows,      \* books: the rows
  series,    \* series: the rows
  onShelf,   \* book_series
  claims,    \* book_series_overrides that are not deleted: <<book, layer>>
  items,     \* book_series_override_items: <<book, layer, series>>
  bindings,  \* series_bindings
  edits, moves, made,
  loose,     \* history: books freed by an undoing and not read since
  pulled     \* history: books whose name was bound away without moving them

catalog == <<rows, series, onShelf, claims, items, bindings>>
vars == <<tags, gone, stat, catalog, edits, moves, made, loose, pulled>>

In(f) == {b \in Books : FolderOf[b] = f}
Scopes == Folders \cup {Everywhere}
Bindings == [folder : Scopes, name : Names, series : Names]

TypeOK ==
  /\ tags \in [Books -> {{}} \cup {{n} : n \in Names}]
  /\ gone \subseteq Books /\ stat \in [Books -> {"read", "touched", "rewritten"}]
  /\ rows \subseteq Books /\ series \subseteq Names
  /\ onShelf \subseteq rows \X series
  /\ claims \subseteq rows \X Layers
  /\ items \subseteq {<<c[1], c[2], s>> : c \in claims, s \in series}
  /\ bindings \subseteq Bindings
  /\ \A k \in bindings : k.series \in series
  /\ \A k, m \in bindings : k.folder = m.folder /\ k.name = m.name => k = m
  /\ loose \cup pulled \subseteq Books

(* A catalog that was just scanned for the first time.                     *)
Init ==
  /\ tags \in [Books -> {{n} : n \in Names}]
  /\ gone = {} /\ stat = [b \in Books |-> "read"]
  /\ rows = Books /\ series = UNION {tags[b] : b \in Books}
  /\ onShelf = {m \in Books \X Names : m[2] \in tags[m[1]]}
  /\ claims = {} /\ items = {} /\ bindings = {}
  /\ edits = 0 /\ moves = 0 /\ made = 0
  /\ loose = {} /\ pulled = {}

Shelf(s) == {b \in rows : <<b, s>> \in onShelf}

-----------------------------------------------------------------------------
(* What an observed name means.                                            *)

Bound(f, n) == {k \in bindings : k.name = n /\ k.folder = f}

(* Faulty: what holds everywhere wins over what holds in the folder        *)
ResolveGlobalFirst(f, n) ==
  IF Bound(Everywhere, n) # {} THEN (CHOOSE k \in Bound(Everywhere, n) : TRUE).series
  ELSE IF Bound(f, n) # {} THEN (CHOOSE k \in Bound(f, n) : TRUE).series
  ELSE n

(* resolveSeriesTx: this folder's binding, else everyone's, else the name. *)
Resolve(f, n) ==
  IF Bound(f, n) # {} THEN (CHOOSE k \in Bound(f, n) : TRUE).series
  ELSE IF Bound(Everywhere, n) # {} THEN (CHOOSE k \in Bound(Everywhere, n) : TRUE).series
  ELSE n

Meant(b) == {Resolve(FolderOf[b], n) : n \in tags[b]}

(* Faulty: a series is kept by what folders name only                      *)
CollectUnread(S, shelved, claimed) == {s \in S : \E m \in shelved : m[2] = s}

(* collectOrphanEntitiesTx: a series is kept by a book or by a claim.      *)
Collect(S, shelved, claimed) ==
  {s \in S : (\E m \in shelved : m[2] = s) \/ (\E i \in claimed : i[3] = s)}

(* The tables with these memberships and bindings, when the rows of lost   *)
(* are deleted; a series that goes takes its bindings along.               *)
Store(R, lost, S, shelved, B) ==
  LET kept == {i \in items : i[1] \notin lost}
      live == Collect(S, shelved, kept)
  IN /\ rows' = R /\ series' = live /\ onShelf' = shelved
     /\ claims' = {c \in claims : c[1] \notin lost}
     /\ items' = {i \in kept : i[3] \in live}
     /\ bindings' = {k \in B : k.series \in live}

-----------------------------------------------------------------------------
(* The disk.                                                               *)

Edit == edits < MaxEdits /\ edits' = edits + 1

Retag(b, tag) ==
  /\ Edit
  /\ b \notin gone /\ tags[b] # tag
  /\ tags' = [tags EXCEPT ![b] = tag] /\ stat' = [stat EXCEPT ![b] = "rewritten"]
  /\ UNCHANGED <<gone, catalog, moves, made, loose, pulled>>

Touch(b) ==
  /\ Edit
  /\ b \notin gone /\ stat[b] = "read" /\ stat' = [stat EXCEPT ![b] = "touched"]
  /\ UNCHANGED <<tags, gone, catalog, moves, made, loose, pulled>>

Vanish(b) ==
  /\ Edit
  /\ gone' = IF b \in gone THEN gone \ {b} ELSE gone \cup {b}
  /\ UNCHANGED <<tags, stat, catalog, moves, made, loose, pulled>>

(* A pass over a folder that sees the books of here: reconcilePlain reads  *)
(* only what is new or has another stat, a Calibre pass reads every book.  *)
(* New bytes at a path are a new row (rule 4), except in Calibre.  A pass  *)
(* that sees everything drops what a library no longer has.                *)
Pass(f, here) ==
  LET all == In(f) \ gone
      read == {b \in here : f \in Calibre \/ b \notin rows \/ stat[b] # "read"}
      replaced == {b \in read \cap rows : f \notin Calibre /\ stat[b] = "rewritten"}
      purged == IF f \in Calibre /\ here = all /\ here # {} THEN (rows \cap In(f)) \ all ELSE {}
      meant == {m \in read \X Names : m[2] \in Meant(m[1])}
  IN /\ here \subseteq all
     /\ Store((rows \cup here) \ purged, replaced \cup purged, series \cup {m[2] : m \in meant},
              {m \in onShelf : m[1] \notin read \cup purged} \cup meant, bindings)
     /\ stat' = [b \in Books |-> IF b \in read THEN "read" ELSE stat[b]]
     /\ loose' = loose \ (read \cup purged) /\ pulled' = pulled \ (read \cup purged)
     /\ UNCHANGED <<tags, gone, edits, moves, made>>

(* DeleteCatalogBook, which has removed the file, and DeleteMissingBook.   *)
DeleteBook(b) ==
  /\ Edit
  /\ b \in rows
  /\ Store(rows \ {b}, {b}, series, {m \in onShelf : m[1] # b}, bindings)
  /\ gone' = gone \cup {b}
  /\ loose' = loose \ {b} /\ pulled' = pulled \ {b}
  /\ UNCHANGED <<tags, stat, moves, made>>

(* eff_series: a reader's own claim, else everyone's, else the folder.     *)
Effective(b, reader) ==
  LET filed(l) == {s \in series : <<b, l, s>> \in items}
  IN IF <<b, reader>> \in claims THEN filed(reader)
     ELSE IF <<b, Shared>> \in claims THEN filed(Shared)
     ELSE {s \in series : <<b, s>> \in onShelf}

-----------------------------------------------------------------------------
(* Administrators.                                                         *)

Move == moves < MaxMoves /\ moves' = moves + 1

(* CatalogEntityByID: what a reader sees; Shared is one without claims.    *)
Visible(reader) == {s \in series : \E b \in rows : <<b, s>> \in onShelf \/ s \in Effective(b, reader)}

(* Faulty: the binding is not written                                      *)
RebindNothing(K, f, names, into) == K

(* bindSeriesTx, for some names: what held their keys gives way.           *)
Rebind(K, f, names, into) ==
  {k \in K : k.folder # f \/ k.name \notin names}
    \cup {[folder |-> f, name |-> n, series |-> into] : n \in names}

(* Books that stay where they are although their name now means another    *)
(* shelf: nobody asked for that.                                           *)
Strays(moved) == {b \in rows \ moved : Meant(b)' # Meant(b)}

MergeSeries(from, into) ==
  LET renamed(s) == IF s = from THEN into ELSE s
  IN /\ Move
     /\ from # into /\ \E admin \in Layers : {from, into} \subseteq Visible(admin)
     /\ onShelf' = {<<m[1], renamed(m[2])>> : m \in onShelf}
     /\ items' = {<<i[1], i[2], renamed(i[3])>> : i \in items}
     /\ bindings' = Rebind({[k EXCEPT !.series = renamed(@)] : k \in bindings},
                           Everywhere, {from}, into)
     /\ series' = series \ {from}
     /\ UNCHANGED <<tags, gone, stat, rows, claims, edits, made, loose>>
     /\ pulled' = pulled \cup Strays(Shelf(from))

(* foldedNamesTx: the names that resolve to a series in some folder.       *)
Folded(s) == {s} \cup {k.name : k \in {m \in bindings : m.series = s}}

SplitSeriesFolder(s, f, n) ==
  LET leaves(b, t) == FolderOf[b] = f /\ t = s
  IN /\ Move
     /\ s \in series /\ n \notin series
     /\ Shelf(s) \cap In(f) # {} /\ Shelf(s) \ In(f) # {}
     /\ series' = series \cup {n}
     /\ bindings' = Rebind(bindings, f, Folded(s), n)
     /\ onShelf' = {IF leaves(m[1], m[2]) THEN <<m[1], n>> ELSE m : m \in onShelf}
     /\ items' = {IF leaves(i[1], i[3]) THEN <<i[1], i[2], n>> ELSE i : i \in items}
     /\ UNCHANGED <<tags, gone, stat, rows, claims, edits, made, loose>>
     /\ pulled' = pulled \cup Strays(Shelf(s) \cap In(f))

(* DeleteSeriesBinding moves no book: the disk is to put them back.        *)
Unbind(k) ==
  /\ Move
  /\ bindings' = bindings \ {k}
  /\ UNCHANGED <<tags, gone, stat, rows, series, onShelf, claims, items, edits, made, pulled>>
  /\ loose' = loose \cup Strays({})

(* DeleteFolder; the same root may be added again, as another folder.      *)
DeleteFolder(f) ==
  LET lost == rows \cap In(f)
  IN /\ Move
     /\ Store(rows \ lost, lost, series, {m \in onShelf : m[1] \notin lost},
              {k \in bindings : k.folder # f})
     /\ loose' = loose \ lost /\ pulled' = pulled \ lost
     /\ UNCHANGED <<tags, gone, stat, edits, made>>

-----------------------------------------------------------------------------
(* Readers.                                                                *)

(* setSeriesClaimTx: a claim is stated whole, and its names are folded by  *)
(* resolveEntityTx, which asks no binding.                                 *)
Claim(b, l, S) ==
  /\ made < MaxClaims /\ made' = made + 1
  /\ series' = series \cup S
  /\ claims' = claims \cup {<<b, l>>}
  /\ items' = {i \in items : <<i[1], i[2]>> # <<b, l>>} \cup {<<b, l, s>> : s \in S}
  /\ UNCHANGED <<tags, gone, stat, rows, onShelf, bindings, edits, moves, loose, pulled>>

SetClaim(b, l, S) == b \in rows /\ Claim(b, l, S)

ClearClaim(b, l) ==
  /\ made < MaxClaims /\ made' = made + 1
  /\ <<b, l>> \in claims
  /\ claims' = claims \ {<<b, l>>} /\ items' = {i \in items : <<i[1], i[2]>> # <<b, l>>}
  /\ UNCHANGED <<tags, gone, stat, rows, series, onShelf, bindings, edits, moves, loose, pulled>>

(* ReorderSeries, of one book: it keeps the other shelves it is on.        *)
Reorder(b, reader, l, s) ==
  /\ b \in rows /\ s \in Visible(reader) /\ l \in {reader, Shared}
  /\ Claim(b, l, Effective(b, reader) \cup {s})

Next ==
  \/ \E b \in Books :
       \/ (\E n \in Names : Retag(b, {n})) \/ Retag(b, {}) \/ Touch(b) \/ Vanish(b) \/ DeleteBook(b)
       \/ \E l \in Layers : ClearClaim(b, l) \/ SetClaim(b, l, {}) \/ \E n \in Names : SetClaim(b, l, {n})
       \/ \E reader \in Layers \ {Shared}, l \in Layers, s \in Names : Reorder(b, reader, l, s)
  \/ \E f \in Folders : DeleteFolder(f) \/ \E here \in SUBSET In(f) : Pass(f, here)
  \/ \E s, n \in Names : MergeSeries(s, n) \/ \E f \in Folders : SplitSeriesFolder(s, f, n)
  \/ \E k \in bindings : Unbind(k)

Spec == Init /\ [][Next]_vars

-----------------------------------------------------------------------------
(* Properties.                                                             *)

(* On the shelf its name means, or read again soon.                        *)
Agrees(b) == {s \in Names : <<b, s>> \in onShelf} = Meant(b)
Settled == {b \in rows : stat[b] # "rewritten"} \ loose

(* Whatever was merged, split, undone, deleted or brought back, a book is  *)
(* on the shelf that its name on disk means now, so that the next pass     *)
(* moves nothing back, but for books of another shelf whose name was bound *)
(* (seriesmerge.go:16-20, resolveSeriesTx).                                *)
ShelvesHold == \A b \in Settled \ pulled : Agrees(b)

(* "binds that folder's observed names to it, so the next pass over the    *)
(* folder agrees" (store.go:1903-1905): a merge or a split changes what no *)
(* other book's name means.                                                *)
NextPassAgrees == \A b \in Settled : Agrees(b)

(* A claim that puts a book somewhere is emptied by its writer only: it    *)
(* follows its shelf through merges and splits, and keeps a shelf that no  *)
(* folder names any more (seriesmerge.go:77-93, reconcile.go:276-279).     *)
Filed(c) == \E i \in items : i[1] = c[1] /\ i[2] = c[2]
ClaimsFollow ==
  [][\A c \in claims \cap claims' : Filed(c) /\ made' = made => Filed(c)']_vars

(* "Never garbage-collected" (schema.go:442): a binding goes when it is    *)
(* undone or replaced, or with its folder.                                 *)
BindingsStay ==
  [][moves' = moves => \A k \in bindings : k \in bindings']_vars

(* "The next scan puts those books back where the folder says"             *)
(* (webui/series.go:560).                                                  *)
NextScanPutsBack ==
  [][\A f \in Folders, b \in loose :
       FolderOf[b] = f /\ b \notin gone /\ Pass(f, In(f) \ gone) => b \notin loose']_vars
=============================================================================
