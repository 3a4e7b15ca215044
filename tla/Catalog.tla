------------------------------ MODULE Catalog ------------------------------
(***************************************************************************)
(* The catalog of one folder and the works its books belong to for one     *)
(* reader.  A pass lists the folder, reads what changed and writes its     *)
(* findings in one transaction (ReconcileFolder).  In a plain folder the   *)
(* path is the identity of a book and new bytes at a path are a new book;  *)
(* in a Calibre folder Calibre's number is the identity, new bytes are the *)
(* same book, and a book Calibre no longer lists is purged.  The watcher   *)
(* and an upload run passes at the same time; readers open books and       *)
(* administrators delete them between the steps of a pass.                 *)
(***************************************************************************)
EXTENDS Integers, FiniteSets

CONSTANTS
  IsCalibre,     \* whether the folder is a Calibre library
  Keys,          \* paths of a plain folder, numbers of Calibre's books
  Paths,         \* paths of Calibre's files; a plain book's path is its key
  Digests,       \* contents of files
  Works,
  Absent,
  Passes,        \* who runs passes: "watch", "ingest", or both
  Deletes,       \* what an administrator deletes: of "book", "missing"
  MaxFileChanges,   \* bound: changes of one file
  MaxReadFailures   \* bound: files a pass cannot read

Places == Paths \cup Keys \cup ({"parked"} \X Keys)
Contents == Digests \cup {Absent}

(* A file, and a row of the table of books.                                *)
Entries == [bytes : Contents, stat : Nat, path : Places]
Rows == [gen : Nat, bytes : Contents, stat : Nat, path : Places, status : {"active", "missing"},
         blank : BOOLEAN, read : Nat]

CatalogAssumption ==
  /\ IsCalibre \in BOOLEAN
  /\ Passes \subseteq {"watch", "ingest"} /\ Deletes \subseteq {"book", "missing"}
  /\ MaxFileChanges \in Nat /\ MaxReadFailures \in Nat
  /\ Paths \cap ({"parked"} \X Keys) = {}
  /\ Absent \notin Keys \cup Paths \cup Digests \cup Works \cup Entries \cup Rows

VARIABLES
  files,       \* the files, or Calibre's list of books and their files
  changes,     \* how often each changed
  mounted,     \* an unmounted root is readable and empty
  books,       \* the rows of books, by key
  rowsMade,    \* how many rows a key has had
  mapping,     \* user_book_works
  works,       \* works
  history,     \* those with positions, sessions or rollups
  alias,       \* aliases of kind sha256
  edition,     \* editions
  pass,        \* the passes under way
  removal,     \* the book whose file was just removed by a request
  readFailures

bookTables == <<books, rowsMade, mapping>>
graph == <<works, history, alias, edition>>
catalogVars == <<files, changes, mounted, bookTables, graph, pass, removal, readFailures>>

Off == [stage |-> "off", listed |-> <<>>, known |-> <<>>, obs |-> <<>>, complete |-> TRUE]

CatalogInit ==
  /\ files = [k \in Keys |-> Absent] /\ changes = [k \in Keys |-> 0] /\ mounted = TRUE
  /\ books = [k \in Keys |-> Absent] /\ rowsMade = [k \in Keys |-> 0]
  /\ mapping = [k \in Keys |-> Absent]
  /\ works = {} /\ history = {}
  /\ alias = [d \in Digests |-> Absent] /\ edition = [d \in Digests |-> Absent]
  /\ pass = [a \in Passes |-> Off] /\ removal = Absent /\ readFailures = 0

(***************************************************************************)
(* The folder.  A file system with an open directory is not unmounted.     *)
(***************************************************************************)
PathOf(k) == IF IsCalibre THEN Paths ELSE {k}
Holds(k, d, path) == [bytes |-> d, stat |-> changes[k] + 1, path |-> path]
ChangeFile(k, entry) ==
  /\ changes[k] < MaxFileChanges
  /\ files' = [files EXCEPT ![k] = entry] /\ changes' = [changes EXCEPT ![k] = @ + 1]

WriteFile(k) ==
  \E d \in Digests, p \in PathOf(k) :
    /\ \A j \in Keys \ {k} : files[j] # Absent => files[j].path # p
    /\ ChangeFile(k, Holds(k, d, p))

SwapPaths(j, k) ==
  /\ IsCalibre /\ j # k /\ files[j] # Absent /\ files[k] # Absent
  /\ changes[j] < MaxFileChanges /\ changes[k] < MaxFileChanges
  /\ files' = [files EXCEPT ![j].path = files[k].path, ![k].path = files[j].path]
  /\ changes' = [changes EXCEPT ![j] = @ + 1, ![k] = @ + 1]

(* A file moved away and back keeps its bytes, its size and its time.      *)
PutBack(k) ==
  /\ ~IsCalibre /\ files[k] = Absent /\ books[k] # Absent
  /\ ChangeFile(k, [bytes |-> books[k].bytes, stat |-> books[k].stat, path |-> k])

LoseFile(k) == IsCalibre /\ files[k] # Absent /\ ChangeFile(k, [files[k] EXCEPT !.bytes = Absent])
RemoveFile(k) == files[k] # Absent /\ ChangeFile(k, Absent)

Folder ==
  /\ \/ /\ \/ \E k \in Keys : WriteFile(k) \/ PutBack(k) \/ LoseFile(k) \/ RemoveFile(k)
           \/ \E j, k \in Keys : SwapPaths(j, k)
        /\ UNCHANGED mounted
     \/ /\ \A a \in Passes : pass[a].stage # "list" /\ (IsCalibre => pass[a].stage = "off")
        /\ mounted' = ~mounted /\ UNCHANGED <<files, changes>>
  /\ UNCHANGED <<bookTables, graph, pass, removal, readFailures>>

(***************************************************************************)
(* A pass: ScanWatchedRoot lists one path after another, metadata.db is    *)
(* one snapshot; BooksInFolder; then the files that seem to have changed.  *)
(***************************************************************************)
Stage(a) == pass[a].stage
Steps(a, p) == pass' = [pass EXCEPT ![a] = p]
With(f, k, x) == [j \in DOMAIN f \cup {k} |-> IF j = k THEN x ELSE f[j]]
Seen(k) == IF mounted THEN files[k] ELSE Absent
Listing(k) == [entry |-> Seen(k), changes |-> changes[k]]

Begins(a) ==
  Steps(a, [Off EXCEPT !.stage = "list",
                       !.listed = IF IsCalibre THEN [k \in Keys |-> Listing(k)] ELSE <<>>])

Begin(a) ==
  /\ a = "watch" /\ Stage(a) = "off" /\ (IsCalibre => mounted) /\ Begins(a)
  /\ UNCHANGED <<files, changes, mounted, bookTables, graph, removal, readFailures>>

(* Ingest: Place or placeCalibre, and a pass of its own.                   *)
Ingest ==
  /\ "ingest" \in Passes /\ Stage("ingest") = "off" /\ mounted
  /\ \E k \in Keys, d \in Digests : \E p \in PathOf(k) :
       /\ files[k] = Absent /\ (IsCalibre => books[k] = Absent)
       /\ \A j \in Keys : files[j] # Absent => files[j].path # p
       /\ ChangeFile(k, Holds(k, d, p))
       /\ Steps("ingest", [Off EXCEPT !.stage = "list",
            !.listed = IF IsCalibre THEN With([j \in Keys |-> Listing(j)], k,
                                            [entry |-> Holds(k, d, p), changes |-> changes[k] + 1])
                       ELSE <<>>])
  /\ UNCHANGED <<mounted, bookTables, graph, removal, readFailures>>

ListPath(a, k) ==
  /\ Stage(a) = "list" /\ k \notin DOMAIN pass[a].listed
  /\ Steps(a, [pass[a] EXCEPT !.listed = With(@, k, Listing(k))])
  /\ UNCHANGED readFailures

BooksInFolder(a) ==
  /\ Stage(a) = "list" /\ DOMAIN pass[a].listed = Keys
  /\ Steps(a, [pass[a] EXCEPT !.stage = "read", !.known = books])
  /\ UNCHANGED readFailures

(* What a pass says of one book.                                           *)
Observes(how, e, old, version) ==
  [how |-> how, bytes |-> e.bytes, stat |-> e.stat, path |-> e.path, replaces |-> old,
   changes |-> version]

Listed(a, k) == pass[a].listed[k].entry
Unchanged(a, k) == ~IsCalibre /\ pass[a].known[k] # Absent /\ pass[a].known[k].stat = Listed(a, k).stat
Replaces(a, k, d) == ~IsCalibre /\ pass[a].known[k] # Absent /\ pass[a].known[k].bytes # d

SeeAsBefore(a, k) ==
  /\ Unchanged(a, k)
  /\ Steps(a, [pass[a] EXCEPT !.obs =
       With(@, k, Observes("unchanged", [Listed(a, k) EXCEPT !.bytes = pass[a].known[k].bytes],
                           FALSE, pass[a].listed[k].changes))])
  /\ UNCHANGED readFailures

(* The file is at the listed path, now.                                    *)
AtPath(a, k) ==
  {j \in Keys : Seen(j) # Absent /\ Seen(j).path = Listed(a, k).path /\ Seen(j).bytes # Absent}

ReadBook(a, k) ==
  /\ ~Unchanged(a, k)
  /\ \E j \in AtPath(a, k) :
       Steps(a, [pass[a] EXCEPT !.obs =
         With(@, k, Observes("read", Seen(j), Replaces(a, k, Seen(j).bytes),
                             IF IsCalibre THEN pass[a].listed[k].changes ELSE changes[j]))])
  /\ UNCHANGED readFailures

(* A listed file that is not there: unservable in a Calibre library, an    *)
(* error in a plain folder.                                                *)
FindNothing(a, k) ==
  /\ ~Unchanged(a, k) /\ AtPath(a, k) = {}
  /\ IF IsCalibre
     THEN Steps(a, [pass[a] EXCEPT !.obs =
            With(@, k, Observes("unservable", Listed(a, k), FALSE, pass[a].listed[k].changes))])
     ELSE Steps(a, [pass[a] EXCEPT !.complete = FALSE, !.listed[k].entry = Absent])
  /\ UNCHANGED readFailures

FailToRead(a, k) ==
  /\ readFailures < MaxReadFailures /\ readFailures' = readFailures + 1
  /\ Steps(a, [pass[a] EXCEPT !.complete = FALSE, !.listed[k].entry = Absent])

Unread(a) == {k \in Keys : pass[a].listed[k].entry # Absent} \ DOMAIN pass[a].obs

Scans(a) ==
  /\ \/ BooksInFolder(a) \/ \E k \in Keys : ListPath(a, k)
     \/ /\ Stage(a) = "read"
        /\ \E k \in Unread(a) : SeeAsBefore(a, k) \/ ReadBook(a, k) \/ FindNothing(a, k) \/ FailToRead(a, k)
  /\ UNCHANGED <<files, changes, mounted, bookTables, graph, removal>>

(***************************************************************************)
(* ReconcileFolder.                                                        *)
(***************************************************************************)
Observed(a) == DOMAIN pass[a].obs
Obs(a, k) == pass[a].obs[k]
HadBook(k) == books[k] # Absent

(* Faulty: what was not seen is absent, however little was seen.           *)
ConcludesAlways(a) == TRUE
Concludes(a) == pass[a].complete /\ Observed(a) # {}

Written(o, gen, blank) ==
  [gen |-> gen, bytes |-> o.bytes, stat |-> o.stat, path |-> o.path, status |-> "active",
   blank |-> blank, read |-> o.changes]

Missing(b) == [b EXCEPT !.status = "missing"]

(* A parked path goes back unless a book that was written has taken it.    *)
Restored(a, k) ==
  LET taken == \E j \in Observed(a) :
                 Obs(a, j).how # "unservable" /\ Obs(a, j).path = books[k].path
  IN IF IsCalibre /\ Observed(a) # {} /\ taken THEN [books[k] EXCEPT !.path = <<"parked", k>>]
     ELSE books[k]

Finding(a, k) ==
  IF k \notin Observed(a) THEN
    IF ~HadBook(k) THEN Absent
    ELSE IF ~Concludes(a) THEN Restored(a, k)
    ELSE IF IsCalibre THEN Absent ELSE Missing(books[k])
  ELSE IF Obs(a, k).how = "unservable" THEN
    IF HadBook(k) THEN Missing(Restored(a, k)) ELSE Absent
  ELSE IF HadBook(k) /\ Obs(a, k).how = "unchanged"
       THEN [books[k] EXCEPT !.status = "active", !.stat = Obs(a, k).stat,
                             !.path = Obs(a, k).path, !.read = Obs(a, k).changes]
  ELSE IF HadBook(k) /\ ~Obs(a, k).replaces THEN Written(Obs(a, k), books[k].gen, FALSE)
  ELSE Written(Obs(a, k), rowsMade[k] + 1, Obs(a, k).how = "unchanged")

SameRow(b, c) == b # Absent /\ c # Absent /\ b.gen = c.gen

(* collectEmptyWorksTx: works nothing maps and nobody read.                *)
Empty(W, m) == {w \in W \ history : \A k \in Keys : m[k] # w}
Without(f, W) == [d \in DOMAIN f |-> IF f[d] \in W THEN Absent ELSE f[d]]

(* registerReaderDigestTx: the works that may learn digest d.              *)
Rekeyed(a, d) ==
  {mapping[k] : k \in {j \in Observed(a) :
     /\ Obs(a, j).how = "read" /\ Obs(a, j).bytes = d
     /\ SameRow(books[j], Finding(a, j)) /\ books[j].bytes # d}} \ {Absent}

(* Faulty: the new digest is not registered as an alias.                   *)
RegisteredNever(al, ed, A, E, a) == A = al /\ E = ed

Registered(al, ed, A, E, a) ==
  \A d \in Digests : LET free == {w \in Rekeyed(a, d) : {al[d], ed[d]} \subseteq {Absent, w}} IN
    \/ free = {} /\ A[d] = al[d] /\ E[d] = ed[d]
    \/ A[d] \in free /\ E[d] = A[d]

ReconcileFolder(a) ==
  /\ Stage(a) = "read" /\ Unread(a) = {}
  /\ books' = [k \in Keys |-> Finding(a, k)]
  /\ rowsMade' = [k \in Keys |-> IF books'[k] # Absent /\ ~SameRow(books[k], books'[k])
                                 THEN rowsMade[k] + 1 ELSE rowsMade[k]]
  /\ mapping' = [k \in Keys |-> IF SameRow(books[k], books'[k]) THEN mapping[k] ELSE Absent]
  /\ LET drained == IF IsCalibre /\ Concludes(a) THEN Empty(works, mapping) ELSE {}
         purged == IF IsCalibre /\ Concludes(a) THEN Empty(works, mapping') ELSE {}
     IN \E A, E \in [Digests -> Works \cup {Absent}] :
          /\ Registered(Without(alias, drained), Without(edition, drained), A, E, a)
          /\ works' = works \ (drained \cup purged)
          /\ alias' = Without(A, purged) /\ edition' = Without(E, purged)
  /\ Steps(a, Off)
  /\ UNCHANGED <<files, changes, mounted, history, removal, readFailures>>

(***************************************************************************)
(* Readers and administrators.                                             *)
(***************************************************************************)
NewWork == Works \ works

(* resolveWorkTx: one work answers to the identifiers, or none does.       *)
ResolveWorkTx(matches, d, w, withEdition) ==
  /\ matches \ {Absent} = {w} \/ (matches = {Absent} /\ w \in NewWork)
  /\ withEdition => edition[d] \in {Absent, w}
  /\ works' = works \cup {w} /\ alias' = [alias EXCEPT ![d] = w]
  /\ edition' = IF withEdition THEN [edition EXCEPT ![d] = w] ELSE edition

(* Besides its digest a book has an identifier of its own.                 *)
ResolveCatalogBookWork(k) ==
  /\ HadBook(k)
  /\ \E w \in Works :
       /\ ResolveWorkTx({alias[books[k].bytes], mapping[k]}, books[k].bytes, w, TRUE)
       /\ mapping' = [mapping EXCEPT ![k] = w]
  /\ UNCHANGED <<history, books, rowsMade, removal, files, changes>>

(* A device reads a file of its own and sends a position; only some        *)
(* devices describe an edition.                                            *)
DeviceReads(d) ==
  /\ \E w \in Works, described \in BOOLEAN :
       ResolveWorkTx({alias[d]}, d, w, described) /\ history' = history \cup {w}
  /\ UNCHANGED <<bookTables, removal, files, changes>>

(* DeleteBook: the file first, then DeleteCatalogBook.                     *)
RemoveBook(k) ==
  /\ "book" \in Deletes /\ removal = Absent /\ HadBook(k)
  /\ IF IsCalibre THEN files' = [files EXCEPT ![k] = Absent]
     ELSE /\ Seen(k) # Absent => Seen(k).stat = books[k].stat
          /\ files' = IF mounted THEN [files EXCEPT ![k] = Absent] ELSE files
  /\ changes' = IF files' = files THEN changes ELSE [changes EXCEPT ![k] = @ + 1]
  /\ removal' = [key |-> k, gen |-> books[k].gen]
  /\ UNCHANGED <<bookTables, graph>>

DeletesRow(k, forgotten) ==
  /\ books' = [books EXCEPT ![k] = Absent]
  /\ mapping' = [mapping EXCEPT ![k] = Absent]
  /\ LET gone == forgotten \cup Empty(works \ forgotten, mapping')
     IN /\ works' = works \ gone /\ history' = history \ forgotten
        /\ alias' = Without(alias, gone) /\ edition' = Without(edition, gone)
  /\ UNCHANGED rowsMade

(* Faulty: the reading goes with the book, second copy or not.             *)
ForgettableAnyhow(k) == {{}, {mapping[k]} \ {Absent}}
Forgettable(k) ==
  {{}} \cup {{w} : w \in {v \in works : v = mapping[k] /\ \A j \in Keys \ {k} : mapping[j] # v}}

DeleteCatalogBook ==
  /\ removal # Absent
  /\ LET k == removal.key IN
       IF HadBook(k) /\ books[k].gen = removal.gen
       THEN \E forgotten \in Forgettable(k) : DeletesRow(k, forgotten)
       ELSE UNCHANGED <<bookTables, graph>>
  /\ removal' = Absent
  /\ UNCHANGED <<files, changes>>

DeleteMissingBook(k) ==
  /\ "missing" \in Deletes /\ HadBook(k) /\ books[k].status = "missing"
  /\ DeletesRow(k, {})
  /\ UNCHANGED <<removal, files, changes>>

Requests ==
  /\ \/ \E k \in Keys : ResolveCatalogBookWork(k) \/ RemoveBook(k) \/ DeleteMissingBook(k)
     \/ DeleteCatalogBook \/ \E d \in Digests : DeviceReads(d)
  /\ UNCHANGED <<mounted, pass, readFailures>>

CatalogNext ==
  \/ Folder \/ Ingest \/ Requests
  \/ \E a \in Passes : Begin(a) \/ Scans(a) \/ ReconcileFolder(a)

CatalogSpec == CatalogInit /\ [][CatalogNext]_catalogVars

(***************************************************************************)
(* Properties.                                                             *)
(***************************************************************************)
(* The tables and their keys: no two books share a path, a mapping joins a *)
(* book that is there to a work that is there, and so does every name of a *)
(* work (schema.go: UNIQUE (folder_id, relative_path), foreign keys).      *)
CatalogTypeOK ==
  /\ \A k \in Keys : books[k] # Absent =>
       /\ books[k].status \in {"active", "missing"} /\ books[k].gen = rowsMade[k]
       /\ books[k].read <= changes[k]
       /\ \A j \in Keys \ {k} : books[j] # Absent => books[j].path # books[k].path
  /\ \A k \in Keys : mapping[k] # Absent => books[k] # Absent /\ mapping[k] \in works
  /\ history \subseteq works /\ works \subseteq Works
  /\ \A d \in Digests : {alias[d], edition[d]} \subseteq works \cup {Absent}

Committed(a) == Stage(a) = "read" /\ pass'[a].stage = "off"

(* New bytes at a path of a plain folder are another book.                 *)
FindsAnother(a, k) == k \in Observed(a) /\ Obs(a, k).replaces

(* A file that stayed as the catalog last read it, and a book that stayed  *)
(* as the pass listed it and was not found to be another, stays in the     *)
(* catalog under the same row and so with its readers: unmounted, half     *)
(* read, without a file, moved where another book was                      *)
(* (reconcile.go:112-131, 222-256).                                        *)
StaysIfUntouched(a, k) ==
  (Committed(a) /\ books[k] # Absent /\ files[k] # Absent)
  => /\ books[k].read = changes[k] \/ (pass[a].listed[k].changes = changes[k] /\ ~FindsAnother(a, k))
          => SameRow(books[k], books'[k])
     /\ books[k].read = changes[k] /\ books[k].status = "active" /\ files[k].bytes # Absent
          => books'[k].status = "active"
UntouchedBookStays == [][\A a \in Passes, k \in Keys : StaysIfUntouched(a, k)]_catalogVars

(* No pass and no deletion of a book takes a work somebody read, or one    *)
(* another book belongs to (reconcile.go:528-570, delete.go:189-210).      *)
MayGo(w) ==
  /\ \A k \in Keys : mapping[k] = w => ~SameRow(books[k], books'[k])
  /\ w \in history => removal # Absent /\ removal' = Absent /\ mapping[removal.key] = w
ReadingSurvives == [][\A w \in works \ works' : MayGo(w)]_catalogVars

Renamed(a, k) == Committed(a) /\ mapping'[k] # Absent /\ books'[k].bytes # books[k].bytes
NamedBy(d) == {alias[d], edition[d]} \ {Absent}

(* The new bytes of a book somebody reads name a work, unless they were    *)
(* another mapped book's bytes: works nobody needs do not stand in the way *)
(* (reconcile.go:77-85, 573-589).                                          *)
IsNamed(a, k) ==
  Renamed(a, k) => \/ \E j \in Keys : mapping[j] \in NamedBy(books'[k].bytes)
                   \/ {alias'[books'[k].bytes], edition'[books'[k].bytes]} # {Absent}
NewBytesAreNamed == [][\A a \in Passes, k \in Keys : IsNamed(a, k)]_catalogVars

(* "Without this the next sync matches nothing and mints a second work"    *)
(* (reconcile.go:577-579): the bytes of a rewritten book match something.  *)
NextSyncMatches ==
  [][\A a \in Passes, k \in Keys :
       Renamed(a, k) => {alias'[books'[k].bytes], edition'[books'[k].bytes]} # {Absent}]_catalogVars

(* "the store leaves the metadata and relations of an unchanged book       *)
(* alone" (pass.go:168-170): no row is without them.                       *)
RowsAreDescribed == \A k \in Keys : books[k] # Absent => ~books[k].blank
=============================================================================
