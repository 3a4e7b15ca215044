----------------------------- MODULE MCCatalog -----------------------------
(***************************************************************************)
(* Catalog in three scenarios, and Series in one:                          *)
(*   calibre   a Calibre library                                           *)
(*   plain     a plain folder, whose missing books are deleted             *)
(*   requests  a plain folder that is uploaded to, and books removed from  *)
(*   shelves   a plain folder of two books and a Calibre library of one    *)
(* The component that is idle rests in its initial state.                  *)
(***************************************************************************)
EXTENDS Series, Catalog, TLC

CONSTANTS k1, k2, d1, d2, w1, w2, n1, n2, n3

VARIABLE scenario

MCFolderOf == [p1 |-> "plain", p2 |-> "plain", c1 |-> "calibre"]

Plain == INSTANCE Catalog WITH IsCalibre <- FALSE, Deletes <- {"missing"}
Asked == INSTANCE Catalog WITH
  IsCalibre <- FALSE, Digests <- {d1}, Deletes <- {"book", "missing"}, MaxReadFailures <- 1

ASSUME CatalogAssumption /\ Plain!CatalogAssumption /\ Asked!CatalogAssumption /\ SeriesAssumption

Is(s) == scenario = s
Idle(a) == pass[a] = Off
MCvars == <<scenario, catalogVars, vars>>

MCInit ==
  /\ scenario \in {"calibre", "plain", "requests", "shelves"}
  /\ tags = [p1 |-> {n1}, p2 |-> {n2}, c1 |-> {n1}] /\ Init
  /\ IF Is("requests") THEN Asked!CatalogInit ELSE CatalogInit

(* An upload has its folder to itself, and so has the watcher: of two      *)
(* passes at once the properties do not all hold.                          *)
MCNext ==
  /\ \/ Is("calibre") /\ CatalogNext /\ Idle("ingest")' /\ UNCHANGED vars
     \/ Is("plain") /\ Plain!CatalogNext /\ Idle("ingest")' /\ UNCHANGED vars
     \/ Is("requests") /\ Asked!CatalogNext /\ Idle("watch")' /\ UNCHANGED vars
     \/ Is("shelves") /\ Next /\ UNCHANGED catalogVars
  /\ UNCHANGED scenario

MCSpec == MCInit /\ [][MCNext]_MCvars

BytesAndWorks == Permutations({d1, d2}) \cup Permutations({w1, w2})
=============================================================================
