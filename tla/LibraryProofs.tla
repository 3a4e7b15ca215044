---------------------------- MODULE LibraryProofs ---------------------------
(***************************************************************************)
(* Proofs about the library, for every value of the constants.             *)
(*                                                                         *)
(* Series: a settled book is on the shelf that its name means, so a pass   *)
(* moves nothing back; and a claim follows its shelf.  The step that       *)
(* matters is always the same: what a step does to the bindings, and what  *)
(* it does to the shelves, agree.  Resolve is therefore put as a relation  *)
(* over any set of bindings (Leads), which each step is shown to keep.     *)
(*                                                                         *)
(* Watcher: nothing of a removed folder comes back, and no change of a     *)
(* folder is lost.  What makes the second inductive is where a directory   *)
(* that nobody watches yet is held: in a walk that has it, or a directory  *)
(* over it, still before it, or in an event that says it was made.         *)
(*                                                                         *)
(* Catalog: no reading is lost, the new bytes of a book are named, and a   *)
(* book whose file stays keeps its row.  FolderFollows relates what a pass *)
(* holds to the folder: every file and row counts the changes it has seen, *)
(* and of one count of changes there is one content.                       *)
(***************************************************************************)
EXTENDS Series, Watcher, Catalog, SequenceTheorems, TLAPS


-----------------------------------------------------------------------------
(* Where a set K of bindings leads a name.                                 *)

Keyed(K) == \A k, m \in K : k.folder = m.folder /\ k.name = m.name => k = m

NoKey(K, f, n) == \A k \in K : ~(k.folder = f /\ k.name = n)

To(K, f, n, s) == \E k \in K : k.folder = f /\ k.name = n /\ k.series = s

Leads(K, f, n, s) ==
  \/ To(K, f, n, s)
  \/ NoKey(K, f, n) /\ To(K, Everywhere, n, s)
  \/ NoKey(K, f, n) /\ NoKey(K, Everywhere, n) /\ s = n

(* Resolve, with K for the bindings.                                       *)
ResolveIn(K, f, n) ==
  LET At(g) == {k \in K : k.name = n /\ k.folder = g}
  IN  IF At(f) # {} THEN (CHOOSE k \in At(f) : TRUE).series
      ELSE IF At(Everywhere) # {} THEN (CHOOSE k \in At(Everywhere) : TRUE).series
      ELSE n

(* The one binding of a key is the one that is chosen.                     *)
LEMMA ChosenKey ==
  ASSUME NEW K, Keyed(K), NEW f, NEW n, NEW s, To(K, f, n, s)
  PROVE  LET At == {k \in K : k.name = n /\ k.folder = f}
         IN  At # {} /\ (CHOOSE k \in At : TRUE).series = s
<1>. DEFINE At == {k \in K : k.name = n /\ k.folder = f}
<1>1. PICK k \in K : k.folder = f /\ k.name = n /\ k.series = s
  BY DEF To
<1>2. k \in At /\ \A m \in At : m = k
  BY <1>1 DEF Keyed
<1>3. (CHOOSE m \in At : TRUE) \in At
  BY <1>2
<1>. QED
  BY <1>1, <1>2, <1>3

(* A name leads to what it resolves to.                                    *)
LEMMA LeadsToResolved ==
  ASSUME NEW K, Keyed(K), NEW f, NEW n, NEW s, Leads(K, f, n, s)
  PROVE  ResolveIn(K, f, n) = s
<1>1. CASE To(K, f, n, s)
  BY <1>1, ChosenKey DEF ResolveIn
<1>2. CASE NoKey(K, f, n) /\ To(K, Everywhere, n, s)
  <2>1. {k \in K : k.name = n /\ k.folder = f} = {}
    BY <1>2 DEF NoKey
  <2>. QED
    BY <1>2, <2>1, ChosenKey DEF ResolveIn
<1>3. CASE NoKey(K, f, n) /\ NoKey(K, Everywhere, n) /\ s = n
  <2>1. {k \in K : k.name = n /\ k.folder = f} = {} /\ {k \in K : k.name = n /\ k.folder = Everywhere} = {}
    BY <1>3 DEF NoKey
  <2>. QED
    BY <1>3, <2>1 DEF ResolveIn
<1>. QED
  BY <1>1, <1>2, <1>3 DEF Leads

(* Every name leads somewhere.                                             *)
LEMMA ResolvedIsLed ==
  ASSUME NEW K \in SUBSET Bindings, Keyed(K), NEW f, NEW n \in Names
  PROVE  ResolveIn(K, f, n) \in Names /\ Leads(K, f, n, ResolveIn(K, f, n))
<1>1. PICK s \in Names : Leads(K, f, n, s)
  <2>1. \A k \in K : k.series \in Names
    BY DEF Bindings
  <2>. QED
    BY <2>1 DEF Leads, To, NoKey
<1>. QED
  BY <1>1, LeadsToResolved

-----------------------------------------------------------------------------
(* The shelf of a book.                                                    *)

(* Book b, whose tag is T, sits in P where K leads it.                     *)
Sits(b, P, T, K) ==
  /\ T = {} => \A s \in Names : <<b, s>> \notin P
  /\ \A n \in T : \E s \in Names : Leads(K, FolderOf[b], n, s) /\ \A t \in Names : <<b, t>> \in P <=> t = s

Tags == {{}} \cup {{n} : n \in Names}

(* Which is to be on the shelf that its name means.                        *)
LEMMA SitsWhereMeant ==
  ASSUME NEW K \in SUBSET Bindings, Keyed(K), NEW b, NEW P, NEW T \in Tags
  PROVE  Sits(b, P, T, K) <=> {s \in Names : <<b, s>> \in P} = {ResolveIn(K, FolderOf[b], n) : n \in T}
<1>1. CASE T = {}
  BY <1>1 DEF Sits
<1>2. ASSUME NEW n \in Names, T = {n}
      PROVE  Sits(b, P, T, K) <=> {s \in Names : <<b, s>> \in P} = {ResolveIn(K, FolderOf[b], n)}
  <2>. DEFINE r == ResolveIn(K, FolderOf[b], n)
  <2>1. r \in Names /\ Leads(K, FolderOf[b], n, r) /\ \A s \in Names : Leads(K, FolderOf[b], n, s) => s = r
    BY ResolvedIsLed, LeadsToResolved
  <2>2. Sits(b, P, T, K) <=> \E s \in Names : Leads(K, FolderOf[b], n, s) /\ \A t \in Names : <<b, t>> \in P <=> t = s
    BY <1>2 DEF Sits
  <2>. HIDE DEF r
  <2>3. Sits(b, P, T, K) <=> \A t \in Names : <<b, t>> \in P <=> t = r
    BY <2>1, <2>2
  <2>4. (\A t \in Names : <<b, t>> \in P <=> t = r) <=> {s \in Names : <<b, s>> \in P} = {r}
    BY <2>1
  <2>. QED
    BY <2>3, <2>4 DEF r
<1>3. \A n \in Names : T = {n} => {ResolveIn(K, FolderOf[b], m) : m \in T} = {ResolveIn(K, FolderOf[b], n)}
  OBVIOUS
<1>. QED
  BY <1>1, <1>2, <1>3 DEF Tags

-----------------------------------------------------------------------------
(* The inductive invariant: the types, which say that bindings are unique  *)
(* and lead to rows, and the property itself.                              *)

ShelvesInv == TypeOK /\ made \in Nat /\ ShelvesHold

(* What the invariant says of the bindings.                                *)
LEMMA KeyedBindings ==
  ASSUME TypeOK PROVE bindings \in SUBSET Bindings /\ Keyed(bindings) /\ tags \in [Books -> Tags]
BY DEF TypeOK, Keyed, Tags

(* Agrees, of this state and of the next.                                  *)
LEMMA AgreesMeans ==
  ASSUME NEW b
  PROVE  /\ Agrees(b) <=> {s \in Names : <<b, s>> \in onShelf}
                            = {ResolveIn(bindings, FolderOf[b], n) : n \in tags[b]}
         /\ Agrees(b)' <=> {s \in Names : <<b, s>> \in onShelf'}
                            = {ResolveIn(bindings', FolderOf[b], n) : n \in tags'[b]}
BY DEF Agrees, Meant, Resolve, ResolveIn, Bound

(* A settled book sits where the bindings lead its name, and a book that   *)
(* sits so after a step agrees.                                            *)
LEMMA AgreesSits ==
  ASSUME NEW b \in Books
  PROVE  /\ TypeOK => (Agrees(b) <=> Sits(b, onShelf, tags[b], bindings))
         /\ TypeOK' => (Agrees(b)' <=> Sits(b, onShelf', tags'[b], bindings'))
<1>1. ASSUME TypeOK PROVE Agrees(b) <=> Sits(b, onShelf, tags[b], bindings)
  <2>1. bindings \in SUBSET Bindings /\ Keyed(bindings) /\ tags[b] \in Tags
    BY <1>1, KeyedBindings
  <2>. QED
    BY <2>1, AgreesMeans, SitsWhereMeant
<1>2. ASSUME TypeOK' PROVE Agrees(b)' <=> Sits(b, onShelf', tags'[b], bindings')
  <2>1. bindings' \in SUBSET Bindings /\ Keyed(bindings') /\ tags'[b] \in Tags
    BY <1>2 DEF TypeOK, Keyed, Tags
  <2>. QED
    BY <2>1, AgreesMeans, SitsWhereMeant
<1>. QED
  BY <1>1, <1>2

-----------------------------------------------------------------------------
(* Deleting rows, and the series that nothing keeps.                       *)

(* What the writers hand to Store: shelves of the rows that stay, among    *)
(* series that include the present ones, and some of the bindings.         *)
Storable(R, S, shelved, B) ==
  /\ R \subseteq Books /\ S \subseteq Names /\ series \subseteq S
  /\ shelved \subseteq R \X S /\ B \subseteq bindings

(* Store keeps the types. *)
LEMMA StoreTypes ==
  ASSUME SeriesAssumption, TypeOK, NEW R, NEW lost, NEW S, NEW shelved, NEW B,
         Storable(R, S, shelved, B), rows \ lost \subseteq R, Store(R, lost, S, shelved, B)
  PROVE  /\ rows' \subseteq Books /\ series' \subseteq Names
         /\ onShelf' \subseteq rows' \X series'
         /\ claims' \subseteq rows' \X Layers
         /\ items' \subseteq {<<c[1], c[2], s>> : c \in claims', s \in series'}
         /\ bindings' \subseteq Bindings
         /\ \A k \in bindings' : k.series \in series'
         /\ \A k, m \in bindings' : k.folder = m.folder /\ k.name = m.name => k = m
<1>. DEFINE kept == {i \in items : i[1] \notin lost}
            live == Collect(S, shelved, kept)
<1>1. /\ rows' = R /\ series' = live /\ onShelf' = shelved
      /\ claims' = {c \in claims : c[1] \notin lost}
      /\ items' = {i \in kept : i[3] \in live}
      /\ bindings' = {k \in B : k.series \in live}
  BY DEF Store
<1>2. live \subseteq S /\ \A m \in shelved : m[2] \in live
  BY DEF Collect, Storable
<1>3. onShelf' \subseteq rows' \X series'
  BY <1>1, <1>2 DEF Storable
<1>4. claims' \subseteq rows' \X Layers
  BY <1>1 DEF TypeOK
<1>5. items' \subseteq {<<c[1], c[2], s>> : c \in claims', s \in series'}
  <2>1. ASSUME NEW i \in items' PROVE i \in {<<c[1], c[2], s>> : c \in claims', s \in series'}
    <3>1. i \in items /\ i[1] \notin lost /\ i[3] \in live
      BY <1>1, <2>1
    <3>2. PICK c \in claims, s \in series : i = <<c[1], c[2], s>>
      BY <3>1 DEF TypeOK
    <3>3. c \in claims' /\ s \in series'
      BY <1>1, <3>1, <3>2
    <3>. QED
      BY <3>2, <3>3
  <2>. QED
    BY <2>1
<1>. QED
  BY <1>1, <1>2, <1>3, <1>4, <1>5 DEF TypeOK, Storable

(* A name that leads to a shelf with a book leads there still: the         *)
(* bindings that go are those of series that nothing keeps.                *)
LEMMA StoreLeads ==
  ASSUME TypeOK, NEW R, NEW lost, NEW S, NEW shelved, NEW B, Storable(R, S, shelved, B),
         Store(R, lost, S, shelved, B),
         NEW f, NEW n, NEW s, Leads(B, f, n, s), \E m \in shelved : m[2] = s
  PROVE  Leads(bindings', f, n, s)
<1>. DEFINE live == Collect(S, shelved, {i \in items : i[1] \notin lost})
<1>1. bindings' = {k \in B : k.series \in live}
  BY DEF Store
<1>2. s \in live
  BY DEF Collect, Storable
<1>3. \A g : To(B, g, n, s) => To(bindings', g, n, s)
  BY <1>1, <1>2 DEF To
<1>4. \A g : NoKey(B, g, n) => NoKey(bindings', g, n)
  BY <1>1 DEF NoKey
<1>. QED
  BY <1>3, <1>4 DEF Leads

(* So a book that sat where B leads its name sits where the new bindings   *)
(* do.                                                                     *)
LEMMA StoreSits ==
  ASSUME TypeOK, NEW R, NEW lost, NEW S, NEW shelved, NEW B, Storable(R, S, shelved, B),
         Store(R, lost, S, shelved, B), NEW b, Sits(b, shelved, tags[b], B), tags' = tags
  PROVE  Sits(b, onShelf', tags'[b], bindings')
<1>1. onShelf' = shelved
  BY DEF Store
<1>2. ASSUME NEW n \in tags[b], NEW s \in Names, Leads(B, FolderOf[b], n, s),
             \A t \in Names : <<b, t>> \in shelved <=> t = s
      PROVE  Leads(bindings', FolderOf[b], n, s)
  <2>1. <<b, s>> \in shelved /\ <<b, s>>[2] = s
    BY <1>2
  <2>. QED
    BY <1>2, <2>1, StoreLeads
<1>. QED
  BY <1>1, <1>2 DEF Sits

-----------------------------------------------------------------------------
(* The steps.                                                              *)

(* A pass: what it reads is put where its name means.                      *)
LEMMA PassStep ==
  ASSUME SeriesAssumption, ShelvesInv, NEW f \in Folders, NEW here \in SUBSET In(f), Pass(f, here)
  PROVE  ShelvesInv'
<1>. DEFINE all == In(f) \ gone
            read == {b \in here : f \in Calibre \/ b \notin rows \/ stat[b] # "read"}
            replaced == {b \in read \cap rows : f \notin Calibre /\ stat[b] = "rewritten"}
            purged == IF f \in Calibre /\ here = all /\ here # {} THEN (rows \cap In(f)) \ all ELSE {}
            meant == {m \in read \X Names : m[2] \in Meant(m[1])}
            R == (rows \cup here) \ purged
            lost == replaced \cup purged
            S == series \cup {m[2] : m \in meant}
            shelved == {m \in onShelf : m[1] \notin read \cup purged} \cup meant
<1>1. /\ here \subseteq all
      /\ Store(R, lost, S, shelved, bindings)
      /\ stat' = [b \in Books |-> IF b \in read THEN "read" ELSE stat[b]]
      /\ loose' = loose \ (read \cup purged) /\ pulled' = pulled \ (read \cup purged)
      /\ UNCHANGED <<tags, gone, edits, moves, made>>
  BY Zenon DEF Pass
<1>2. TypeOK /\ here \subseteq Books /\ purged \cap here = {} /\ read \subseteq here
  BY <1>1 DEF ShelvesInv, In
<1>. HIDE DEF purged
<1>3. Storable(R, S, shelved, bindings)
  <2>1. meant \subseteq R \X S
    BY <1>2
  <2>2. {m \in onShelf : m[1] \notin read \cup purged} \subseteq R \X S
    BY <1>2 DEF TypeOK
  <2>3. R \subseteq Books /\ S \subseteq Names /\ series \subseteq S
    BY <1>2 DEF TypeOK
  <2>. QED
    BY <2>1, <2>2, <2>3 DEF Storable
<1>4. rows \ lost \subseteq R
  OBVIOUS
<1>5. TypeOK'
  <2>1. /\ rows' \subseteq Books /\ series' \subseteq Names
        /\ onShelf' \subseteq rows' \X series'
        /\ claims' \subseteq rows' \X Layers
        /\ items' \subseteq {<<c[1], c[2], s>> : c \in claims', s \in series'}
        /\ bindings' \subseteq Bindings
        /\ \A k \in bindings' : k.series \in series'
        /\ \A k, m \in bindings' : k.folder = m.folder /\ k.name = m.name => k = m
    BY <1>1, <1>2, <1>3, <1>4, StoreTypes
  <2>2. /\ tags' \in [Books -> {{}} \cup {{n} : n \in Names}] /\ gone' \subseteq Books
        /\ loose' \cup pulled' \subseteq Books
    BY <1>1, <1>2 DEF TypeOK
  <2>3. stat' \in [Books -> {"read", "touched", "rewritten"}]
    BY <1>1, <1>2 DEF TypeOK
  <2>. QED
    BY <2>1, <2>2, <2>3 DEF TypeOK
<1>6. ASSUME NEW b \in (Settled \ pulled)' PROVE Agrees(b)'
  <2>0. b \in Books /\ b \in R /\ tags' = tags /\ b \notin purged
    BY <1>1, <1>2, <1>6 DEF Settled, Store, TypeOK
  <2>1. {s \in Names : <<b, s>> \in shelved} = {ResolveIn(bindings, FolderOf[b], n) : n \in tags[b]}
    <3>1. bindings \in SUBSET Bindings /\ Keyed(bindings) /\ tags \in [Books -> Tags]
      BY <1>2, KeyedBindings
    <3>2. Meant(b) = {ResolveIn(bindings, FolderOf[b], n) : n \in tags[b]}
      BY DEF Meant, Resolve, ResolveIn, Bound
    <3>3. CASE b \in read
      <4>1. \A n \in tags[b] : n \in Names
        BY <2>0, <3>1 DEF Tags
      <4>2. Meant(b) \subseteq Names
        BY <3>1, <3>2, <4>1, ResolvedIsLed
      <4>3. \A s \in Names : <<b, s>> \in shelved <=> s \in Meant(b)
        BY <3>3
      <4>. QED
        BY <3>2, <4>2, <4>3
    <3>4. CASE b \notin read
      <4>1. b \in Settled \ pulled
        BY <1>1, <1>2, <1>6, <2>0, <3>4 DEF Settled
      <4>2. Agrees(b)
        BY <4>1 DEF ShelvesInv, ShelvesHold
      <4>3. \A s \in Names : <<b, s>> \in shelved <=> <<b, s>> \in onShelf
        BY <2>0, <3>4
      <4>. QED
        BY <3>2, <4>2, <4>3 DEF Agrees
    <3>. QED
      BY <3>3, <3>4
  <2>2. Sits(b, shelved, tags[b], bindings)
    BY <1>2, <2>0, <2>1, KeyedBindings, SitsWhereMeant
  <2>3. Sits(b, onShelf', tags'[b], bindings')
    BY <1>1, <1>2, <1>3, <2>0, <2>2, StoreSits
  <2>. QED
    BY <1>5, <2>0, <2>3, AgreesSits
<1>. QED
  BY <1>1, <1>5, <1>6 DEF ShelvesInv, ShelvesHold

(* A deletion, of a book or of a folder: the other books sit where they    *)
(* did, and no binding they need was the folder's.                         *)
LEMMA DeletionStep ==
  ASSUME SeriesAssumption, ShelvesInv, NEW lost, NEW B, B \subseteq bindings,
         Store(rows \ lost, lost, series, {m \in onShelf : m[1] \notin lost}, B),
         \A b \in rows \ lost, k \in bindings : k.folder \in {FolderOf[b], Everywhere} => k \in B,
         gone' \subseteq Books, loose' = loose \ lost, pulled' = pulled \ lost,
         UNCHANGED <<tags, stat, made>>
  PROVE  ShelvesInv'
<1>. DEFINE shelved == {m \in onShelf : m[1] \notin lost}
            R == rows \ lost
<1>1. TypeOK /\ Store(R, lost, series, shelved, B)
  BY DEF ShelvesInv
<1>2. Storable(R, series, shelved, B)
  BY <1>1 DEF Storable, TypeOK
<1>3. TypeOK'
  <2>1. /\ rows' \subseteq Books /\ series' \subseteq Names
        /\ onShelf' \subseteq rows' \X series'
        /\ claims' \subseteq rows' \X Layers
        /\ items' \subseteq {<<c[1], c[2], s>> : c \in claims', s \in series'}
        /\ bindings' \subseteq Bindings
        /\ \A k \in bindings' : k.series \in series'
        /\ \A k, m \in bindings' : k.folder = m.folder /\ k.name = m.name => k = m
    BY <1>1, <1>2, StoreTypes
  <2>. QED
    BY <1>1, <2>1 DEF TypeOK
<1>4. ASSUME NEW b \in (Settled \ pulled)' PROVE Agrees(b)'
  <2>1. b \in Settled \ pulled /\ b \in R /\ b \in Books
    BY <1>1, <1>4 DEF Settled, Store, TypeOK
  <2>2. Sits(b, onShelf, tags[b], bindings)
    BY <1>1, <2>1, AgreesSits DEF ShelvesInv, ShelvesHold
  <2>3. \A s \in Names : <<b, s>> \in shelved <=> <<b, s>> \in onShelf
    BY <2>1
  <2>4. ASSUME NEW n, NEW s, Leads(bindings, FolderOf[b], n, s)
        PROVE  Leads(B, FolderOf[b], n, s)
    BY <2>1, <2>4 DEF Leads, To, NoKey
  <2>5. Sits(b, shelved, tags[b], B)
    BY <2>2, <2>3, <2>4 DEF Sits
  <2>6. Sits(b, onShelf', tags'[b], bindings')
    BY <1>1, <1>2, <2>5, StoreSits
  <2>. QED
    BY <1>3, <2>1, <2>6, AgreesSits
<1>. QED
  BY <1>3, <1>4 DEF ShelvesInv, ShelvesHold

(* What a rebinding leaves of K, and what it adds.                         *)
LEMMA Rebound ==
  ASSUME NEW K \in SUBSET Bindings, Keyed(K), NEW f \in Scopes, NEW names \in SUBSET Names,
         NEW into \in Names
  PROVE  /\ Rebind(K, f, names, into) \in SUBSET Bindings /\ Keyed(Rebind(K, f, names, into))
         /\ \A n \in names : To(Rebind(K, f, names, into), f, n, into)
         /\ \A g, n, s : (g # f \/ n \notin names) /\ To(K, g, n, s) => To(Rebind(K, f, names, into), g, n, s)
         /\ \A g, n : (g # f \/ n \notin names) /\ NoKey(K, g, n) => NoKey(Rebind(K, f, names, into), g, n)
         /\ \A k \in Rebind(K, f, names, into) : k.series = into \/ k \in K
<1>. DEFINE old == {k \in K : k.folder # f \/ k.name \notin names}
            new == {[folder |-> f, name |-> n, series |-> into] : n \in names}
<1>1. Rebind(K, f, names, into) = old \cup new
  BY DEF Rebind
<1>2. \A k \in new : k \in Bindings /\ k.folder = f /\ k.name \in names /\ k.series = into
  BY DEF Bindings
<1>3. \A k, m \in new : k.name = m.name => k = m
  OBVIOUS
<1>4. ASSUME NEW n \in names PROVE \E k \in new : k.folder = f /\ k.name = n /\ k.series = into
  <2>1. [folder |-> f, name |-> n, series |-> into] \in new
    OBVIOUS
  <2>. QED
    BY <2>1
<1>. HIDE DEF new
<1>5. old \cup new \in SUBSET Bindings /\ Keyed(old \cup new)
  BY <1>2, <1>3 DEF Keyed
<1>6. \A n \in names : To(old \cup new, f, n, into)
  BY <1>4 DEF To
<1>7. \A g, n, s : (g # f \/ n \notin names) /\ To(K, g, n, s) => To(old \cup new, g, n, s)
  BY DEF To
<1>8. \A g, n : (g # f \/ n \notin names) /\ NoKey(K, g, n) => NoKey(old \cup new, g, n)
  BY <1>2 DEF NoKey
<1>. QED
  BY <1>1, <1>2, <1>5, <1>6, <1>7, <1>8

(* A merge: whatever led to the one shelf leads to the other.              *)
LEMMA MergeStep ==
  ASSUME SeriesAssumption, ShelvesInv, NEW from \in Names, NEW into \in Names, MergeSeries(from, into)
  PROVE  ShelvesInv'
<1>. DEFINE renamed(s) == IF s = from THEN into ELSE s
            K == {[k EXCEPT !.series = renamed(@)] : k \in bindings}
<1>1. /\ onShelf' = {<<m[1], renamed(m[2])>> : m \in onShelf}
      /\ items' = {<<i[1], i[2], renamed(i[3])>> : i \in items}
      /\ bindings' = Rebind(K, Everywhere, {from}, into)
      /\ series' = series \ {from}
      /\ UNCHANGED <<tags, gone, stat, rows, claims, made, loose>>
      /\ pulled' = pulled \cup Strays(Shelf(from))
  BY Zenon DEF MergeSeries
<1>2. from # into /\ from \in series /\ into \in series
  BY DEF MergeSeries, Visible
<1>3. TypeOK /\ made \in Nat
  BY DEF ShelvesInv
<1>4. \A k \in bindings : /\ [k EXCEPT !.series = renamed(@)] \in Bindings
                          /\ [k EXCEPT !.series = renamed(@)].folder = k.folder
                          /\ [k EXCEPT !.series = renamed(@)].name = k.name
                          /\ [k EXCEPT !.series = renamed(@)].series = renamed(k.series)
                          /\ renamed(k.series) \in series'
  BY <1>1, <1>2, <1>3 DEF TypeOK, Bindings
<1>5. K \in SUBSET Bindings /\ Keyed(K)
  <2>1. \A x \in K : \E k \in bindings : x = [k EXCEPT !.series = renamed(@)]
    OBVIOUS
  <2>. HIDE DEF K
  <2>2. K \in SUBSET Bindings
    BY <1>4, <2>1
  <2>3. ASSUME NEW x \in K, NEW y \in K, x.folder = y.folder, x.name = y.name PROVE x = y
    <3>1. PICK k \in bindings : x = [k EXCEPT !.series = renamed(@)]
      BY <2>1
    <3>2. PICK m \in bindings : y = [m EXCEPT !.series = renamed(@)]
      BY <2>1
    <3>3. k = m
      BY <1>3, <1>4, <2>3, <3>1, <3>2 DEF TypeOK
    <3>. QED
      BY <3>1, <3>2, <3>3
  <2>. QED
    BY <2>2, <2>3 DEF Keyed
<1>6. \A g, n, s : To(bindings, g, n, s) => To(K, g, n, renamed(s))
  BY <1>4 DEF To
<1>7. \A g, n : NoKey(bindings, g, n) => NoKey(K, g, n)
  <2>1. \A x \in K : \E k \in bindings : x.folder = k.folder /\ x.name = k.name
    BY <1>4
  <2>. HIDE DEF K
  <2>. QED
    BY <2>1 DEF NoKey
<1>8. \A k \in K : k.series \in series'
  BY <1>4
<1>. HIDE DEF K
<1>9. /\ bindings' \in SUBSET Bindings /\ Keyed(bindings')
      /\ To(bindings', Everywhere, from, into)
      /\ \A g, n, s : (g # Everywhere \/ n # from) /\ To(K, g, n, s) => To(bindings', g, n, s)
      /\ \A g, n : (g # Everywhere \/ n # from) /\ NoKey(K, g, n) => NoKey(bindings', g, n)
      /\ \A k \in bindings' : k.series = into \/ k \in K
  <2>1. Everywhere \in Scopes /\ {from} \in SUBSET Names /\ \A n : n \in {from} <=> n = from
    BY DEF Scopes
  <2>. QED
    BY <1>1, <1>5, <2>1, Rebound
<1>10. TypeOK'
  <2>1. onShelf' \subseteq rows' \X series'
    BY <1>1, <1>2, <1>3 DEF TypeOK
  <2>2. items' \subseteq {<<c[1], c[2], s>> : c \in claims', s \in series'}
    <3>1. ASSUME NEW i \in items PROVE <<i[1], i[2], renamed(i[3])>> \in {<<c[1], c[2], s>> : c \in claims', s \in series'}
      <4>1. PICK c \in claims, s \in series : i = <<c[1], c[2], s>>
        BY <1>3 DEF TypeOK
      <4>2. c \in claims' /\ renamed(s) \in series'
        BY <1>1, <1>2, <4>1
      <4>. QED
        BY <4>1, <4>2
    <3>. QED
      BY <1>1, <3>1
  <2>3. \A k \in bindings' : k.series \in series'
    BY <1>1, <1>2, <1>8, <1>9
  <2>4. loose' \cup pulled' \subseteq Books
    BY <1>1, <1>3 DEF TypeOK, Strays
  <2>5. /\ tags' \in [Books -> {{}} \cup {{n} : n \in Names}] /\ gone' \subseteq Books
        /\ stat' \in [Books -> {"read", "touched", "rewritten"}]
        /\ rows' \subseteq Books /\ series' \subseteq Names /\ claims' \subseteq rows' \X Layers
    BY <1>1, <1>3 DEF TypeOK
  <2>6. /\ bindings' \subseteq Bindings
        /\ \A k, m \in bindings' : k.folder = m.folder /\ k.name = m.name => k = m
    BY <1>9 DEF Keyed
  <2>. QED
    BY <2>1, <2>2, <2>3, <2>4, <2>5, <2>6 DEF TypeOK
<1>11. ASSUME NEW b \in (Settled \ pulled)' PROVE Agrees(b)'
  <2>1. b \in Settled \ pulled /\ b \in rows /\ b \in Books /\ b \notin Strays(Shelf(from)) /\ tags' = tags
    BY <1>1, <1>3, <1>11 DEF Settled, TypeOK
  <2>2. Agrees(b) /\ FolderOf[b] \in Folders /\ FolderOf[b] # Everywhere
    BY <2>1 DEF ShelvesInv, ShelvesHold, SeriesAssumption
  <2>3. CASE b \notin Shelf(from)
    <3>1. Meant(b)' = Meant(b)
      BY <2>1, <2>3 DEF Strays
    <3>2. \A s \in Names : <<b, s>> \in onShelf' <=> <<b, s>> \in onShelf
      <4>1. \A m \in onShelf : m = <<m[1], m[2]>> /\ (m[1] = b => m[2] # from)
        BY <1>3, <2>1, <2>3 DEF TypeOK, Shelf
      <4>. QED
        BY <1>1, <4>1
    <3>. QED
      BY <2>2, <3>1, <3>2 DEF Agrees
  <2>4. CASE b \in Shelf(from)
    <3>1. Sits(b, onShelf, tags[b], bindings) /\ <<b, from>> \in onShelf
      BY <1>3, <2>1, <2>2, <2>4, AgreesSits DEF Shelf
    <3>2. tags[b] # {}
      BY <3>1 DEF Sits
    <3>3. \A n \in tags[b] : Leads(bindings, FolderOf[b], n, from) /\ \A t \in Names : <<b, t>> \in onShelf <=> t = from
      BY <3>1 DEF Sits
    <3>4. \A t \in Names : <<b, t>> \in onShelf' <=> t = into
      <4>1. \A t \in Names : <<b, t>> \in onShelf <=> t = from
        BY <3>2, <3>3
      <4>2. \A m \in onShelf : m = <<m[1], m[2]>> /\ m[2] \in Names
        BY <1>3 DEF TypeOK
      <4>. QED
        BY <1>1, <3>1, <4>1, <4>2
    <3>5. ASSUME NEW n \in tags[b] PROVE Leads(bindings', FolderOf[b], n, into)
      <4>1. Leads(bindings, FolderOf[b], n, from)
        BY <3>3
      <4>2. CASE To(bindings, FolderOf[b], n, from)
        <5>1. To(K, FolderOf[b], n, into)
          BY <1>6, <4>2
        <5>. QED
          BY <1>9, <2>2, <5>1 DEF Leads
      <4>3. CASE NoKey(bindings, FolderOf[b], n) /\ To(bindings, Everywhere, n, from)
        <5>1. NoKey(bindings', FolderOf[b], n)
          BY <1>7, <1>9, <2>2, <4>3
        <5>2. To(K, Everywhere, n, into)
          BY <1>6, <4>3
        <5>3. To(bindings', Everywhere, n, into)
          BY <1>9, <5>2
        <5>. QED
          BY <5>1, <5>3 DEF Leads
      <4>4. CASE NoKey(bindings, FolderOf[b], n) /\ from = n
        <5>1. NoKey(bindings', FolderOf[b], n)
          BY <1>7, <1>9, <2>2, <4>4
        <5>. QED
          BY <1>9, <4>4, <5>1 DEF Leads
      <4>. QED
        BY <4>1, <4>2, <4>3, <4>4 DEF Leads
    <3>6. Sits(b, onShelf', tags'[b], bindings')
      BY <2>1, <3>2, <3>4, <3>5 DEF Sits
    <3>. QED
      BY <1>10, <2>1, <3>6, AgreesSits
  <2>. QED
    BY <2>3, <2>4
<1>. QED
  BY <1>1, <1>3, <1>10, <1>11 DEF ShelvesInv, ShelvesHold

(* A split: in its folder, every name that led to the shelf leads to the   *)
(* new one, for a binding of each is written.                              *)
LEMMA SplitStep ==
  ASSUME SeriesAssumption, ShelvesInv, NEW s \in Names, NEW n \in Names, NEW f \in Folders,
         SplitSeriesFolder(s, f, n)
  PROVE  ShelvesInv'
<1>. DEFINE leaves(b, t) == FolderOf[b] = f /\ t = s
<1>1. /\ series' = series \cup {n}
      /\ bindings' = Rebind(bindings, f, Folded(s), n)
      /\ onShelf' = {IF leaves(m[1], m[2]) THEN <<m[1], n>> ELSE m : m \in onShelf}
      /\ items' = {IF leaves(i[1], i[3]) THEN <<i[1], i[2], n>> ELSE i : i \in items}
      /\ UNCHANGED <<tags, gone, stat, rows, claims, made, loose>>
      /\ pulled' = pulled \cup Strays(Shelf(s) \cap In(f))
  BY Zenon DEF SplitSeriesFolder
<1>2. TypeOK /\ made \in Nat /\ Keyed(bindings) /\ bindings \in SUBSET Bindings
  BY KeyedBindings DEF ShelvesInv
<1>3. Folded(s) \in SUBSET Names /\ s \in Folded(s) /\ \A k \in bindings : k.series = s => k.name \in Folded(s)
  BY <1>2 DEF Folded, Bindings
<1>4. /\ bindings' \in SUBSET Bindings /\ Keyed(bindings')
      /\ \A m \in Folded(s) : To(bindings', f, m, n)
      /\ \A k \in bindings' : k.series = n \/ k \in bindings
  BY <1>1, <1>2, <1>3, Rebound DEF Scopes
<1>5. TypeOK'
  <2>1. onShelf' \subseteq rows' \X series'
    BY <1>1, <1>2 DEF TypeOK
  <2>2. items' \subseteq {<<c[1], c[2], t>> : c \in claims', t \in series'}
    <3>1. ASSUME NEW i \in items
          PROVE  (IF leaves(i[1], i[3]) THEN <<i[1], i[2], n>> ELSE i) \in {<<c[1], c[2], t>> : c \in claims', t \in series'}
      <4>1. PICK c \in claims, t \in series : i = <<c[1], c[2], t>>
        BY <1>2 DEF TypeOK
      <4>2. c \in claims' /\ t \in series' /\ n \in series'
        BY <1>1, <4>1
      <4>. QED
        BY <4>1, <4>2
    <3>. QED
      BY <1>1, <3>1
  <2>3. \A k \in bindings' : k.series \in series'
    BY <1>1, <1>2, <1>4 DEF TypeOK
  <2>4. loose' \cup pulled' \subseteq Books
    BY <1>1, <1>2 DEF TypeOK, Strays
  <2>5. /\ tags' \in [Books -> {{}} \cup {{m} : m \in Names}] /\ gone' \subseteq Books
        /\ stat' \in [Books -> {"read", "touched", "rewritten"}]
        /\ rows' \subseteq Books /\ series' \subseteq Names /\ claims' \subseteq rows' \X Layers
    BY <1>1, <1>2 DEF TypeOK
  <2>6. /\ bindings' \subseteq Bindings
        /\ \A k, m \in bindings' : k.folder = m.folder /\ k.name = m.name => k = m
    BY <1>4 DEF Keyed
  <2>. QED
    BY <2>1, <2>2, <2>3, <2>4, <2>5, <2>6 DEF TypeOK
<1>6. ASSUME NEW b \in (Settled \ pulled)' PROVE Agrees(b)'
  <2>1. /\ b \in Settled \ pulled /\ b \in rows /\ b \in Books
        /\ b \notin Strays(Shelf(s) \cap In(f)) /\ tags' = tags
    BY <1>1, <1>2, <1>6 DEF Settled, TypeOK
  <2>2. Agrees(b)
    BY <2>1 DEF ShelvesInv, ShelvesHold
  <2>3. \A m \in onShelf : m = <<m[1], m[2]>> /\ m[2] \in Names
    BY <1>2 DEF TypeOK
  <2>4. CASE b \notin Shelf(s) \cap In(f)
    <3>1. Meant(b)' = Meant(b)
      BY <2>1, <2>4 DEF Strays
    <3>2. \A t \in Names : <<b, t>> \in onShelf' <=> <<b, t>> \in onShelf
      <4>1. \A m \in onShelf : m[1] = b => ~leaves(m[1], m[2])
        BY <2>1, <2>3, <2>4 DEF Shelf, In
      <4>. QED
        BY <1>1, <2>3, <4>1
    <3>. QED
      BY <2>2, <3>1, <3>2 DEF Agrees
  <2>5. CASE b \in Shelf(s) \cap In(f)
    <3>1. Sits(b, onShelf, tags[b], bindings) /\ <<b, s>> \in onShelf /\ FolderOf[b] = f
      BY <1>2, <2>1, <2>2, <2>5, AgreesSits DEF Shelf, In
    <3>2. tags[b] # {}
      BY <3>1 DEF Sits
    <3>3. \A m \in tags[b] : Leads(bindings, f, m, s) /\ \A t \in Names : <<b, t>> \in onShelf <=> t = s
      BY <3>1 DEF Sits
    <3>4. \A t \in Names : <<b, t>> \in onShelf' <=> t = n
      <4>1. \A t \in Names : <<b, t>> \in onShelf <=> t = s
        BY <3>2, <3>3
      <4>. QED
        BY <1>1, <2>3, <3>1, <4>1
    <3>5. \A m \in tags[b] : m \in Folded(s)
      BY <1>3, <3>3 DEF Leads, To
    <3>6. Sits(b, onShelf', tags'[b], bindings')
      BY <1>4, <2>1, <3>1, <3>2, <3>4, <3>5 DEF Sits, Leads
    <3>. QED
      BY <1>5, <2>1, <3>6, AgreesSits
  <2>. QED
    BY <2>4, <2>5
<1>. QED
  BY <1>1, <1>2, <1>5, <1>6 DEF ShelvesInv, ShelvesHold

(* The undoing of a binding frees the books whose name changes its         *)
(* meaning, and moves none.                                                *)
LEMMA UnbindStep ==
  ASSUME ShelvesInv, NEW k \in bindings, Unbind(k) PROVE ShelvesInv'
<1>1. TypeOK'
  BY DEF ShelvesInv, Unbind, TypeOK, Strays
<1>2. ASSUME NEW b \in (Settled \ pulled)' PROVE Agrees(b)'
  <2>1. b \in Settled \ pulled /\ b \in rows /\ b \notin Strays({})
    BY <1>2 DEF Unbind, Settled
  <2>2. Meant(b)' = Meant(b) /\ onShelf' = onShelf
    BY <2>1 DEF Strays, Unbind
  <2>. QED
    BY <2>1, <2>2 DEF ShelvesInv, ShelvesHold, Agrees
<1>. QED
  BY <1>1, <1>2 DEF ShelvesInv, ShelvesHold, Unbind

(* The disk moves no shelf, and a book whose file names another series is  *)
(* not settled until it is read.                                           *)
LEMMA DiskStep ==
  ASSUME ShelvesInv, NEW b \in Books,
         (\E n \in Names : Retag(b, {n})) \/ Retag(b, {}) \/ Touch(b) \/ Vanish(b)
  PROVE  ShelvesInv'
<1>1. UNCHANGED <<catalog, made, loose, pulled>>
  BY DEF Retag, Touch, Vanish
<1>2. TypeOK'
  <2>1. ASSUME NEW tag \in {{}} \cup {{n} : n \in Names}, Retag(b, tag) PROVE TypeOK'
    BY <2>1, <1>1 DEF ShelvesInv, TypeOK, Retag, catalog
  <2>2. ASSUME Touch(b) \/ Vanish(b) PROVE TypeOK'
    BY <2>2, <1>1 DEF ShelvesInv, TypeOK, Touch, Vanish, catalog
  <2>. QED
    BY <2>1, <2>2
<1>3. ASSUME NEW c \in (Settled \ pulled)' PROVE Agrees(c)'
  <2>1. c \in Settled \ pulled /\ tags'[c] = tags[c]
    BY <1>1, <1>3 DEF ShelvesInv, TypeOK, Settled, Retag, Touch, Vanish, catalog
  <2>2. Agrees(c)
    BY <2>1 DEF ShelvesInv, ShelvesHold
  <2>. QED
    BY <1>1, <2>1, <2>2, AgreesMeans DEF catalog
<1>. QED
  BY <1>1, <1>2, <1>3 DEF ShelvesInv, ShelvesHold

(* A reader's claim moves no shelf of the folders.                         *)
LEMMA ClaimStep ==
  ASSUME SeriesAssumption, ShelvesInv, NEW b \in rows, NEW l \in Layers, NEW S \in SUBSET Names, Claim(b, l, S)
  PROVE  ShelvesInv'
<1>1. /\ series' = series \cup S /\ made' = made + 1
      /\ claims' = claims \cup {<<b, l>>}
      /\ items' = {i \in items : <<i[1], i[2]>> # <<b, l>>} \cup {<<b, l, s>> : s \in S}
      /\ UNCHANGED <<tags, gone, stat, rows, onShelf, bindings, loose, pulled>>
  BY DEF Claim
<1>2. items' \subseteq {<<c[1], c[2], s>> : c \in claims', s \in series'}
  <2>1. \A s \in S : <<b, l, s>> \in {<<c[1], c[2], t>> : c \in claims', t \in series'}
    <3>1. <<b, l>> \in claims' /\ <<b, l>>[1] = b /\ <<b, l>>[2] = l /\ S \subseteq series'
      BY <1>1
    <3>. QED
      BY <3>1
  <2>2. items \subseteq {<<c[1], c[2], t>> : c \in claims', t \in series'}
    BY <1>1 DEF ShelvesInv, TypeOK
  <2>. QED
    BY <1>1, <2>1, <2>2
<1>3. TypeOK'
  BY <1>1, <1>2 DEF ShelvesInv, TypeOK
<1>4. ShelvesHold'
  BY <1>1, AgreesMeans DEF ShelvesInv, ShelvesHold, Settled
<1>. QED
  BY <1>1, <1>3, <1>4 DEF ShelvesInv

(* Nor does its end. *)
LEMMA ClearStep ==
  ASSUME ShelvesInv, NEW b \in Books, NEW l \in Layers, ClearClaim(b, l) PROVE ShelvesInv'
<1>1. /\ claims' = claims \ {<<b, l>>} /\ items' = {i \in items : <<i[1], i[2]>> # <<b, l>>}
      /\ made' = made + 1
      /\ UNCHANGED <<tags, gone, stat, rows, series, onShelf, bindings, loose, pulled>>
  BY DEF ClearClaim
<1>2. items' \subseteq {<<c[1], c[2], s>> : c \in claims', s \in series'}
  <2>1. ASSUME NEW i \in items' PROVE i \in {<<c[1], c[2], s>> : c \in claims', s \in series'}
    <3>1. i \in items /\ <<i[1], i[2]>> # <<b, l>>
      BY <1>1, <2>1
    <3>2. PICK c \in claims, s \in series : i = <<c[1], c[2], s>>
      BY <3>1 DEF ShelvesInv, TypeOK
    <3>3. c = <<c[1], c[2]>>
      BY <3>2 DEF ShelvesInv, TypeOK
    <3>. QED
      BY <1>1, <3>1, <3>2, <3>3
  <2>. QED
    BY <2>1
<1>3. TypeOK'
  BY <1>1, <1>2 DEF ShelvesInv, TypeOK
<1>4. ShelvesHold'
  BY <1>1, AgreesMeans DEF ShelvesInv, ShelvesHold, Settled
<1>. QED
  BY <1>1, <1>3, <1>4 DEF ShelvesInv

-----------------------------------------------------------------------------
(* The invariant.                                                          *)

(* After the first scan every book is on the shelf its file names. *)
LEMMA InitInv == Init => ShelvesInv
<1>. SUFFICES ASSUME Init PROVE ShelvesInv
  OBVIOUS
<1>1. TypeOK /\ made \in Nat
  BY DEF Init, TypeOK
<1>2. ASSUME NEW b \in Books PROVE Agrees(b)
  <2>1. \A n \in Names : ResolveIn(bindings, FolderOf[b], n) = n
    BY DEF Init, ResolveIn
  <2>2. tags[b] \subseteq Names /\ \A n \in tags[b] : ResolveIn(bindings, FolderOf[b], n) = n
    BY <2>1 DEF Init
  <2>3. {ResolveIn(bindings, FolderOf[b], n) : n \in tags[b]} = tags[b]
    BY <2>2
  <2>4. \A s \in Names : <<b, s>> \in onShelf <=> s \in tags[b]
    BY DEF Init
  <2>. QED
    BY <2>2, <2>3, <2>4, AgreesMeans
<1>. QED
  BY <1>1, <1>2 DEF ShelvesInv, ShelvesHold, Settled, TypeOK

(* What a reader sees is among the series. *)
LEMMA EffectiveIsSeries ==
  ASSUME NEW b, NEW reader PROVE Effective(b, reader) \subseteq series /\ Visible(reader) \subseteq series
BY DEF Effective, Visible

(* Every step keeps the invariant. *)
LEMMA NextInv == SeriesAssumption /\ ShelvesInv /\ [Next]_vars => ShelvesInv'
<1>. SUFFICES ASSUME SeriesAssumption, ShelvesInv, [Next]_vars PROVE ShelvesInv'
  OBVIOUS
<1>0. rows \subseteq Books /\ series \subseteq Names
  BY DEF ShelvesInv, TypeOK
<1>1. ASSUME NEW b \in Books, DeleteBook(b) PROVE ShelvesInv'
  <2>1. Store(rows \ {b}, {b}, series, {m \in onShelf : m[1] \notin {b}}, bindings)
    <3>1. {m \in onShelf : m[1] \notin {b}} = {m \in onShelf : m[1] # b}
      OBVIOUS
    <3>. QED
      BY <1>1, <3>1 DEF DeleteBook
  <2>2. /\ gone' = gone \cup {b} /\ loose' = loose \ {b} /\ pulled' = pulled \ {b}
        /\ UNCHANGED <<tags, stat, made>>
    BY <1>1 DEF DeleteBook
  <2>3. gone' \subseteq Books
    BY <2>2 DEF ShelvesInv, TypeOK
  <2>. QED
    BY <2>1, <2>2, <2>3, DeletionStep
<1>2. ASSUME NEW f \in Folders, DeleteFolder(f) PROVE ShelvesInv'
  <2>. DEFINE lost == rows \cap In(f)
              B == {k \in bindings : k.folder # f}
  <2>1. /\ Store(rows \ lost, lost, series, {m \in onShelf : m[1] \notin lost}, B)
        /\ gone' = gone /\ loose' = loose \ lost /\ pulled' = pulled \ lost
        /\ UNCHANGED <<tags, stat, made>>
    BY <1>2, Zenon DEF DeleteFolder
  <2>2. \A b \in rows \ lost, k \in bindings : k.folder \in {FolderOf[b], Everywhere} => k \in B
    BY <1>0, <1>2 DEF In, SeriesAssumption
  <2>3. gone' \subseteq Books /\ B \subseteq bindings
    BY <2>1 DEF ShelvesInv, TypeOK
  <2>. HIDE DEF lost, B
  <2>. QED
    BY <2>1, <2>2, <2>3, DeletionStep
<1>3. ASSUME NEW b \in Books, NEW l \in Layers,
             SetClaim(b, l, {}) \/ \E n \in Names : SetClaim(b, l, {n})
      PROVE  ShelvesInv'
  BY <1>3, ClaimStep DEF SetClaim
<1>4. ASSUME NEW b \in Books, NEW reader \in Layers \ {Shared}, NEW l \in Layers, NEW s \in Names,
             Reorder(b, reader, l, s)
      PROVE  ShelvesInv'
  <2>1. b \in rows /\ Claim(b, l, Effective(b, reader) \cup {s})
    BY <1>4 DEF Reorder
  <2>2. Effective(b, reader) \cup {s} \in SUBSET Names
    BY <1>0, EffectiveIsSeries
  <2>. QED
    BY <2>1, <2>2, ClaimStep
<1>5. CASE UNCHANGED vars
  <2>1. \A b : Agrees(b) <=> Agrees(b)'
    BY <1>5, AgreesMeans DEF vars, catalog
  <2>. QED
    BY <1>5, <2>1 DEF vars, catalog, ShelvesInv, TypeOK, ShelvesHold, Settled
<1>. QED
  BY <1>1, <1>2, <1>3, <1>4, <1>5, DiskStep, ClearStep, PassStep, MergeStep, SplitStep, UnbindStep DEF Next

(* The invariant holds throughout. *)
THEOREM ShelvesInvariant == ASSUME SeriesAssumption PROVE Spec => []ShelvesInv
<1>1. Init => ShelvesInv
  BY InitInv
<1>2. ShelvesInv /\ [Next]_vars => ShelvesInv'
  BY NextInv
<1>. QED
  BY <1>1, <1>2, PTL DEF Spec

-----------------------------------------------------------------------------
(* The theorems.                                                           *)

(* Shelves, claims and bindings refer to rows that exist, and a name has   *)
(* one binding in a folder.                                                *)
THEOREM ShelvesTyped == ASSUME SeriesAssumption PROVE Spec => []TypeOK
<1>1. ShelvesInv => TypeOK
  BY DEF ShelvesInv
<1>. QED
  BY <1>1, ShelvesInvariant, PTL

(* However shelves of whatever folders are merged, split, undone, deleted  *)
(* and read again, a settled book is on the shelf its name means now,      *)
(* unless its name was bound for another's sake (seriesmerge.go,           *)
(* resolveSeriesTx).                                                       *)
THEOREM BooksOnTheirShelves == ASSUME SeriesAssumption PROVE Spec => []ShelvesHold
<1>1. ShelvesInv => ShelvesHold
  BY DEF ShelvesInv
<1>. QED
  BY <1>1, ShelvesInvariant, PTL

(* A pass moves nothing back: a settled book that it sees, or does not, is *)
(* on the shelf it was on before (seriesmerge.go:16-20).                   *)
PassMovesNothing(f, here) ==
  Pass(f, here) =>
    \A b \in (Settled \ pulled) \cap rows', s \in Names : <<b, s>> \in onShelf' <=> <<b, s>> \in onShelf

THEOREM PassesMoveNothing ==
  ASSUME SeriesAssumption
  PROVE  Spec => [][\A f \in Folders, here \in SUBSET Books : here \subseteq In(f) => PassMovesNothing(f, here)]_vars
<1>1. ASSUME ShelvesInv, NEW f \in Folders, NEW here \in SUBSET In(f), Pass(f, here),
             NEW b \in Settled \ pulled, b \in rows', NEW s \in Names
      PROVE  <<b, s>> \in onShelf' <=> <<b, s>> \in onShelf
  <2>. DEFINE all == In(f) \ gone
              read == {a \in here : f \in Calibre \/ a \notin rows \/ stat[a] # "read"}
              purged == IF f \in Calibre /\ here = all /\ here # {} THEN (rows \cap In(f)) \ all ELSE {}
              meant == {m \in read \X Names : m[2] \in Meant(m[1])}
  <2>1. rows' = (rows \cup here) \ purged /\ onShelf' = {m \in onShelf : m[1] \notin read \cup purged} \cup meant
    BY <1>1, Zenon DEF Pass, Store
  <2>2. Agrees(b)
    BY <1>1 DEF ShelvesInv, ShelvesHold
  <2>3. b \notin purged
    BY <1>1, <2>1
  <2>4. <<b, s>> \in onShelf <=> s \in Meant(b)
    BY <2>2 DEF Agrees
  <2>. HIDE DEF purged
  <2>5. CASE b \in read
    BY <2>1, <2>4, <2>5
  <2>6. CASE b \notin read
    BY <2>1, <2>3, <2>6
  <2>. QED
    BY <2>5, <2>6
<1>2. ShelvesInv /\ [Next]_vars =>
        [\A f \in Folders, here \in SUBSET Books : here \subseteq In(f) => PassMovesNothing(f, here)]_vars
  BY <1>1 DEF PassMovesNothing
<1>. QED
  BY <1>2, ShelvesInvariant, PTL DEF Spec

-----------------------------------------------------------------------------
(* Claims.                                                                 *)

(* A claim that is not the one a reader writes keeps a series when rows    *)
(* and series are deleted: what is claimed is never collected.             *)
LEMMA StoreFiles ==
  ASSUME TypeOK, NEW R, NEW lost, NEW S, NEW shelved, NEW B, series \subseteq S,
         Store(R, lost, S, shelved, B), NEW c \in claims \cap claims', Filed(c)
  PROVE  Filed(c)'
<1>. DEFINE kept == {i \in items : i[1] \notin lost}
            live == Collect(S, shelved, kept)
<1>1. items' = {i \in kept : i[3] \in live} /\ claims' = {d \in claims : d[1] \notin lost}
  BY DEF Store
<1>2. PICK i \in items : i[1] = c[1] /\ i[2] = c[2]
  BY DEF Filed
<1>3. i \in kept
  BY <1>1, <1>2
<1>4. i[3] \in series
  BY <1>2 DEF TypeOK
<1>5. i[3] \in live
  BY <1>3, <1>4 DEF Collect
<1>. QED
  BY <1>1, <1>2, <1>3, <1>5 DEF Filed

(* A shelf that is renamed takes its claims along. *)
LEMMA RenamedFiles ==
  ASSUME NEW c, Filed(c), \A i \in items : \E j \in items' : j[1] = i[1] /\ j[2] = i[2]
  PROVE  Filed(c)'
BY DEF Filed

(* A claim that puts a book on a shelf is emptied by its writer only: it   *)
(* follows the shelf through every merge and split, and a pass or a        *)
(* deletion keeps the series it names (seriesmerge.go, reconcile.go).      *)
THEOREM ClaimsAreFollowed == ASSUME SeriesAssumption PROVE Spec => ClaimsFollow
<1>1. ASSUME ShelvesInv, [Next]_vars, NEW c \in claims \cap claims', Filed(c), made' = made
      PROVE  Filed(c)'
  <2>0. TypeOK /\ made \in Nat
    BY <1>1 DEF ShelvesInv
  <2>1. ASSUME items' = items PROVE Filed(c)'
    BY <1>1, <2>1 DEF Filed
  <2>2. ASSUME NEW f \in Folders, NEW here \in SUBSET In(f), Pass(f, here) PROVE Filed(c)'
    <3>. DEFINE all == In(f) \ gone
                read == {b \in here : f \in Calibre \/ b \notin rows \/ stat[b] # "read"}
                replaced == {b \in read \cap rows : f \notin Calibre /\ stat[b] = "rewritten"}
                purged == IF f \in Calibre /\ here = all /\ here # {} THEN (rows \cap In(f)) \ all ELSE {}
                meant == {m \in read \X Names : m[2] \in Meant(m[1])}
                S == series \cup {m[2] : m \in meant}
    <3>1. Store((rows \cup here) \ purged, replaced \cup purged, S,
                {m \in onShelf : m[1] \notin read \cup purged} \cup meant, bindings)
      BY <2>2, Zenon DEF Pass
    <3>2. series \subseteq S
      OBVIOUS
    <3>. HIDE DEF S, meant, purged, replaced, read
    <3>. QED
      BY <1>1, <2>0, <3>1, <3>2, StoreFiles
  <2>3. ASSUME NEW b \in Books, DeleteBook(b) PROVE Filed(c)'
    BY <1>1, <2>0, <2>3, StoreFiles DEF DeleteBook
  <2>4. ASSUME NEW f \in Folders, DeleteFolder(f) PROVE Filed(c)'
    BY <1>1, <2>0, <2>4, StoreFiles DEF DeleteFolder
  <2>5. ASSUME NEW from \in Names, NEW into \in Names, MergeSeries(from, into) PROVE Filed(c)'
    <3>1. items' = {<<i[1], i[2], IF i[3] = from THEN into ELSE i[3]>> : i \in items}
      BY <2>5 DEF MergeSeries
    <3>2. ASSUME NEW i \in items PROVE \E j \in items' : j[1] = i[1] /\ j[2] = i[2]
      <4>1. <<i[1], i[2], IF i[3] = from THEN into ELSE i[3]>> \in items'
        BY <3>1
      <4>. QED
        BY <4>1
    <3>. QED
      BY <1>1, <3>2, RenamedFiles
  <2>6. ASSUME NEW s \in Names, NEW n \in Names, NEW f \in Folders, SplitSeriesFolder(s, f, n) PROVE Filed(c)'
    <3>1. items' = {IF FolderOf[i[1]] = f /\ i[3] = s THEN <<i[1], i[2], n>> ELSE i : i \in items}
      BY <2>6 DEF SplitSeriesFolder
    <3>2. ASSUME NEW i \in items PROVE \E j \in items' : j[1] = i[1] /\ j[2] = i[2]
      <4>1. (IF FolderOf[i[1]] = f /\ i[3] = s THEN <<i[1], i[2], n>> ELSE i) \in items'
        BY <3>1
      <4>. QED
        BY <4>1
    <3>. QED
      BY <1>1, <3>2, RenamedFiles
  <2>7. ASSUME NEW b, NEW l, NEW S, Claim(b, l, S) \/ ClearClaim(b, l) PROVE FALSE
    BY <1>1, <2>0, <2>7 DEF Claim, ClearClaim
  <2>. QED
    BY <1>1, <2>1, <2>2, <2>3, <2>4, <2>5, <2>6, <2>7
    DEF Next, Retag, Touch, Vanish, SetClaim, Reorder, Unbind, vars, catalog
<1>2. ShelvesInv /\ [Next]_vars => [\A c \in claims \cap claims' : Filed(c) /\ made' = made => Filed(c)']_vars
  BY <1>1
<1>. QED
  BY <1>2, ShelvesInvariant, PTL DEF Spec, ClaimsFollow

-----------------------------------------------------------------------------
(* The watcher: its types.                                                 *)

Passing(a) == Stands(a, "pass")
Walks(a) == ctl[a].at \in {"walk", "note"}

Records == UNION {[D -> 0 .. MaxChanges] : D \in SUBSET Dirs}
Stages == {"idle", "off", "walk", "note", "send", "wait", "pass", "add", "remove", "unwatch"}

LEMMA ControlsAre ==
  Controls = [at : Stages, folder : FolderIds \cup {None}, visit : SUBSET Dirs, list : SUBSET Dirs,
              noting : Dirs \cup {None}, covered : BOOLEAN, passes : 0 .. 2, seen : Records]
  BY DEF Controls, Stages, Records

LEMMA NothingSeen == <<>> \in Records /\ DOMAIN <<>> = {}
<1>1. <<>> \in [{} -> 0 .. MaxChanges] /\ {} \in SUBSET Dirs
  OBVIOUS
<1>. QED
  BY <1>1 DEF Records

LEMMA LearnsMore ==
  ASSUME NEW a, NEW d \in Dirs, ctl[a].seen \in Records, version \in [Dirs -> 0 .. MaxChanges]
  PROVE  LET s == ctl[a].seen  l == Learnt(a, d) IN
         /\ l \in Records /\ DOMAIN l = DOMAIN s \cup {d} \cup NotThere(d)
         /\ \A e \in DOMAIN l : (e \in DOMAIN s /\ l[e] = s[e]) \/ (e \notin DOMAIN s /\ l[e] = version[e])
<1>. DEFINE s == ctl[a].seen
            E == DOMAIN s \cup {d} \cup NotThere(d)
<1>1. PICK D \in SUBSET Dirs : s \in [D -> 0 .. MaxChanges]
  BY DEF Records
<1>2. E \in SUBSET Dirs
  BY <1>1 DEF NotThere, Under
<1>3. Learnt(a, d) = [e \in E |-> IF e \in DOMAIN s THEN s[e] ELSE version[e]]
  BY DEF Learnt
<1>. HIDE DEF E
<1>4. Learnt(a, d) \in [E -> 0 .. MaxChanges]
  BY <1>1, <1>2, <1>3
<1>5. Learnt(a, d) \in Records
  BY <1>2, <1>4 DEF Records
<1>. QED
  BY <1>3, <1>5 DEF E

LEMMA SeenDomain ==
  ASSUME NEW s \in Records
  PROVE  DOMAIN s \subseteq Dirs /\ \A e \in DOMAIN s : s[e] \in 0 .. MaxChanges
  BY DEF Records

(* What a goroutine carries fits what it is doing.                         *)
Fits(a, c, B, v) ==
  /\ c.at # "pass" => c.seen = <<>>
  /\ c.at = "pass" => c.list \subseteq DOMAIN c.seen
  /\ \A d \in DOMAIN c.seen : c.seen[d] <= v[d]
  /\ c.at \notin {"idle", "off", "unwatch"} => c.folder \in B
  /\ c.at \in {"wait", "pass"} => c.passes > 0
  /\ c.at = "note" => c.noting \in Dirs
  /\ a = "loop" => c.at \in {"idle", "walk", "note", "wait", "pass"}
  /\ a = "forward" => c.at \in {"idle", "off", "walk", "note", "send"}
  /\ a \notin {"loop", "forward"} => c.at \notin {"off", "send"}
  /\ a # "forward" => c.at # "send"

Carried ==
  /\ ctl \in [Actors -> Controls]
  /\ \A a \in Actors : Fits(a, ctl[a], born, version)

Held == \A a \in Actors \ {"command"} : mutex = a <=> Passing(a)

DiskTyped == exists \subseteq Dirs /\ version \in [Dirs -> 0 .. MaxChanges] /\ kernel \subseteq exists
QueueTyped == queue \in Seq([dir : Dirs, kind : {"file", "create", "remove"}])
TablesTyped ==
  /\ folders \subseteq born /\ born \subseteq FolderIds
  /\ shown \in [FolderIds -> [Dirs -> 0 .. MaxChanges]]
MapsTyped == watched \subseteq born /\ watchedDirs \in [Dirs -> born \cup {None}]
SignalsTyped ==
  /\ events \in Seq(born) /\ Len(events) <= Cap
  /\ due \subseteq pending /\ pending \subseteq born /\ round \subseteq born
CourseTyped == happens \subseteq Happenings /\ failures \in Nat /\ restarts \in Nat

WatcherTyped ==
  /\ DiskTyped /\ QueueTyped /\ TablesTyped /\ MapsTyped /\ SignalsTyped /\ CourseTyped
  /\ Carried /\ Held

LEMMA TypedGivesTypeOK == WatcherTyped => WatcherTypeOK
<1>. SUFFICES ASSUME WatcherTyped PROVE WatcherTypeOK
  OBVIOUS
<1>1. watchedDirs \in [Dirs -> FolderIds \cup {None}]
  BY DEF WatcherTyped, MapsTyped, TablesTyped
<1>. QED
  BY <1>1 DEF WatcherTyped, WatcherTypeOK, DiskTyped, TablesTyped, MapsTyped, SignalsTyped, Carried,
              Held, Passing

(* What goroutines carry.                                                  *)
LEMMA RestTyped ==
  ASSUME WatcherAssumption
  PROVE  /\ Idle \in Controls /\ Idle.at = "idle" /\ Idle.seen = <<>> /\ Idle.folder = None
         /\ Idle.visit = {} /\ Idle.list = {} /\ Idle.noting = None /\ Idle.covered = FALSE /\ Idle.passes = 0
  BY NothingSeen, ControlsAre DEF Idle, Stages

LEMMA TaskTyped ==
  ASSUME WatcherAssumption, NEW s \in Stages, NEW f \in FolderIds
  PROVE  LET c == [Idle EXCEPT !.at = s, !.folder = f]
         IN  c \in Controls /\ c.at = s /\ c.folder = f /\ c.seen = <<>> /\ c.passes = 0
<1>1. ASSUME NEW r \in Controls
      PROVE  LET c == [r EXCEPT !.at = s, !.folder = f]
             IN  c \in Controls /\ c.at = s /\ c.folder = f /\ c.seen = r.seen /\ c.passes = r.passes
  BY ControlsAre
<1>. QED
  BY <1>1, RestTyped

LEMMA OffTyped ==
  ASSUME WatcherAssumption
  PROVE  LET c == [Idle EXCEPT !.at = "off"] IN c \in Controls /\ c.at = "off" /\ c.seen = <<>>
<1>1. ASSUME NEW r \in Controls
      PROVE  LET c == [r EXCEPT !.at = "off"] IN c \in Controls /\ c.at = "off" /\ c.seen = r.seen
  BY ControlsAre DEF Stages
<1>. QED
  BY <1>1, RestTyped

LEMMA WaitTyped ==
  ASSUME WatcherAssumption, NEW f \in FolderIds, NEW n \in 0 .. 2
  PROVE  LET c == [Idle EXCEPT !.at = "wait", !.folder = f, !.passes = n]
         IN  c \in Controls /\ c.at = "wait" /\ c.folder = f /\ c.seen = <<>> /\ c.passes = n
<1>1. ASSUME NEW r \in Controls
      PROVE  LET c == [r EXCEPT !.at = "wait", !.folder = f, !.passes = n]
             IN  c \in Controls /\ c.at = "wait" /\ c.folder = f /\ c.seen = r.seen /\ c.passes = n
  BY ControlsAre DEF Stages
<1>. QED
  BY <1>1, RestTyped

Once(f) == [Idle EXCEPT !.at = "wait", !.folder = f, !.passes = 1]

LEMMA OnceTyped ==
  ASSUME WatcherAssumption, NEW f \in FolderIds
  PROVE  Once(f) \in Controls /\ Once(f).at = "wait" /\ Once(f).folder = f /\ Once(f).passes = 1
<1>. DEFINE c == [Idle EXCEPT !.at = "wait", !.folder = f, !.passes = 1]
<1>1. 1 \in 0 .. 2
  OBVIOUS
<1>2. c \in Controls /\ c.at = "wait" /\ c.folder = f /\ c.seen = <<>> /\ c.passes = 1
  BY <1>1, WaitTyped
<1>. QED
  BY <1>2 DEF Once

LEMMA WalkingStarts ==
  ASSUME WatcherAssumption, NEW f \in FolderIds, NEW n \in 0 .. 2
  PROVE  LET c == Walking(f, n)
         IN  /\ c \in Controls /\ c.at = "walk" /\ c.folder = f /\ c.seen = <<>> /\ c.passes = n
             /\ c.visit = {Root[f]} /\ c.list = {} /\ c.noting = None /\ c.covered = FALSE
<1>1. ASSUME NEW r \in Controls, NEW v \in SUBSET Dirs
      PROVE  LET c == [r EXCEPT !.at = "walk", !.folder = f, !.visit = v, !.passes = n]
             IN  /\ c \in Controls /\ c.at = "walk" /\ c.folder = f /\ c.seen = r.seen /\ c.passes = n
                 /\ c.visit = v /\ c.list = r.list /\ c.noting = r.noting /\ c.covered = r.covered
  BY ControlsAre DEF Stages
<1>2. {Root[f]} \in SUBSET Dirs
  BY DEF WatcherAssumption
<1>. QED
  BY <1>1, <1>2, RestTyped DEF Walking

LEMMA WalkingTyped ==
  ASSUME WatcherAssumption, NEW f \in FolderIds, NEW n \in 0 .. 2
  PROVE  /\ Walking(f, n) \in Controls /\ Walking(f, n).at = "walk" /\ Walking(f, n).folder = f
         /\ Walking(f, n).seen = <<>> /\ Walking(f, n).passes = n
<1>. DEFINE c == Walking(f, n)
<1>1. /\ c \in Controls /\ c.at = "walk" /\ c.folder = f /\ c.seen = <<>> /\ c.passes = n
      /\ c.visit = {Root[f]} /\ c.list = {} /\ c.noting = None /\ c.covered = FALSE
  BY WalkingStarts, Zenon
<1>. QED
  BY <1>1

LEMMA WalkingFrom ==
  ASSUME WatcherAssumption, NEW f \in FolderIds, NEW n \in 0 .. 2
  PROVE  /\ \A x : x \in Walking(f, n).visit <=> x = Root[f]
         /\ Walking(f, n).list = {} /\ Walking(f, n).noting = None /\ ~Walking(f, n).covered
<1>. DEFINE c == Walking(f, n)
<1>1. /\ c \in Controls /\ c.at = "walk" /\ c.folder = f /\ c.seen = <<>> /\ c.passes = n
      /\ c.visit = {Root[f]} /\ c.list = {} /\ c.noting = None /\ c.covered = FALSE
  BY WalkingStarts, Zenon
<1>. QED
  BY <1>1

LEMMA StepCarried ==
  ASSUME Carried, NEW a \in Actors, ctl' \in [Actors -> Controls],
         \A b \in Actors \ {a} : ctl'[b] = ctl[b],
         Fits(a, ctl'[a], born, version), UNCHANGED <<born, version>>
  PROVE  Carried'
<1>1. ASSUME NEW b \in Actors PROVE Fits(b, ctl'[b], born', version')
  BY DEF Carried
<1>. QED
  BY <1>1 DEF Carried

LEMMA GoesTo ==
  ASSUME ctl \in [Actors -> Controls], NEW a \in Actors, NEW c \in Controls, Goes(a, c)
  PROVE  ctl' \in [Actors -> Controls] /\ ctl'[a] = c /\ \A b \in Actors \ {a} : ctl'[b] = ctl[b]
  BY DEF Goes

(* Everything else may grow.                                               *)
LEMMA CarriedGrows ==
  ASSUME Carried, NEW B, NEW v, ctl' = ctl, born' = B, version' = v, born \subseteq B,
         version \in [Dirs -> 0 .. MaxChanges], v \in [Dirs -> 0 .. MaxChanges], MaxChanges \in Nat,
         \A d \in Dirs : version[d] <= v[d]
  PROVE  Carried'
<1>1. ASSUME NEW a \in Actors PROVE Fits(a, ctl[a], B, v)
  <2>1. ctl[a].seen \in Records
    BY ControlsAre DEF Carried
  <2>2. ASSUME NEW d \in DOMAIN ctl[a].seen PROVE ctl[a].seen[d] <= v[d]
    BY <2>1, <2>2, SeenDomain DEF Carried, Fits
  <2>. QED
    BY <2>2 DEF Carried, Fits
<1>. QED
  BY <1>1 DEF Carried

LEMMA HeldStays ==
  ASSUME Held, NEW a \in Actors, \A b \in Actors \ {a} : ctl'[b] = ctl[b], mutex' = mutex,
         Passing(a) <=> Passing(a)'
  PROVE  Held'
  BY DEF Held, Passing, Stands

(* What each step of a walk or a pass makes of its goroutine.              *)
LEMMA VisitGoes ==
  ASSUME WatcherAssumption, ctl \in [Actors -> Controls], NEW a \in Actors, NEW d \in Dirs, Visit(a, d)
  PROVE  LET c == ctl[a]  n == ctl'[a] IN
    /\ c.at = "walk" /\ d \in c.visit
    /\ ctl' \in [Actors -> Controls] /\ \A b \in Actors \ {a} : ctl'[b] = ctl[b]
    /\ n.visit = c.visit \ {d} /\ n.folder = c.folder /\ n.passes = c.passes /\ n.seen = c.seen
    /\ \/ /\ d \notin exists /\ n.at = "walk" /\ n.list = c.list /\ n.noting = c.noting
          /\ n.covered <=> c.covered
          /\ kernel' = kernel
       \/ /\ d \in exists /\ watchedDirs[d] # None /\ n.at = "walk" /\ n.list = c.list \cup {d}
          /\ n.noting = c.noting
          /\ n.covered <=> (c.covered \/ watchedDirs[d] = c.folder)
          /\ kernel' = kernel
       \/ /\ d \in exists /\ watchedDirs[d] = None /\ n.at = "note" /\ n.list = c.list /\ n.noting = d
          /\ n.covered <=> c.covered
          /\ kernel' = kernel \cup {d}
<1>. DEFINE c == ctl[a]
            v(r) == [r EXCEPT !.visit = @ \ {d}]
<1>0. c \in Controls
  OBVIOUS
<1>1. ASSUME NEW r \in Controls
      PROVE  /\ v(r) \in Controls /\ v(r).visit = r.visit \ {d} /\ v(r).folder = r.folder
             /\ v(r).passes = r.passes /\ v(r).seen = r.seen /\ v(r).at = r.at /\ v(r).list = r.list
             /\ v(r).noting = r.noting /\ v(r).covered = r.covered
  BY ControlsAre
<1>2. ASSUME NEW r \in Controls, NEW b \in BOOLEAN
      PROVE  LET n == [r EXCEPT !.list = @ \cup {d}, !.covered = b] IN
             /\ n \in Controls /\ n.visit = r.visit /\ n.folder = r.folder
             /\ n.passes = r.passes /\ n.seen = r.seen /\ n.at = r.at /\ n.list = r.list \cup {d}
             /\ n.noting = r.noting /\ n.covered = b
  BY ControlsAre
<1>3. ASSUME NEW r \in Controls
      PROVE  LET n == [r EXCEPT !.at = "note", !.noting = d] IN
             /\ n \in Controls /\ n.visit = r.visit /\ n.folder = r.folder
             /\ n.passes = r.passes /\ n.seen = r.seen /\ n.at = "note" /\ n.list = r.list
             /\ n.noting = d /\ n.covered = r.covered
  BY ControlsAre DEF Stages
<1>4. Visited(a, d) = v(c)
  BY DEF Visited
<1>5. c.at = "walk" /\ d \in c.visit
  BY DEF Visit, Stands
<1>. HIDE DEF v
<1>6. CASE d \notin exists /\ Goes(a, Visited(a, d)) /\ kernel' = kernel
  BY <1>0, <1>1, <1>4, <1>5, <1>6 DEF Goes
<1>7. CASE /\ d \in exists /\ watchedDirs[d] # None
           /\ Goes(a, [Visited(a, d) EXCEPT !.list = @ \cup {d},
                                            !.covered = @ \/ watchedDirs[d] = ctl[a].folder])
           /\ kernel' = kernel
  <2>. DEFINE b == v(c).covered \/ watchedDirs[d] = c.folder
              n == [v(c) EXCEPT !.list = @ \cup {d}, !.covered = b]
  <2>1. b \in BOOLEAN /\ (b <=> (c.covered \/ watchedDirs[d] = c.folder))
    BY <1>0, <1>1
  <2>2. Goes(a, n)
    BY <1>4, <1>7
  <2>. HIDE DEF b
  <2>3. /\ n \in Controls /\ n.visit = v(c).visit /\ n.folder = v(c).folder
        /\ n.passes = v(c).passes /\ n.seen = v(c).seen /\ n.at = v(c).at /\ n.list = v(c).list \cup {d}
        /\ n.noting = v(c).noting /\ n.covered = b
    <3>1. v(c) \in Controls /\ b \in BOOLEAN
      BY <1>0, <1>1, <2>1
    <3>. QED
      BY <3>1, <1>2, Zenon
  <2>. HIDE DEF n
  <2>4. ctl'[a] = n /\ ctl' \in [Actors -> Controls] /\ \A e \in Actors \ {a} : ctl'[e] = ctl[e]
    BY <2>2, <2>3 DEF Goes
  <2>. QED
    BY <1>0, <1>1, <1>5, <1>7, <2>1, <2>3, <2>4
<1>8. CASE /\ d \in exists /\ watchedDirs[d] = None
           /\ Goes(a, [Visited(a, d) EXCEPT !.at = "note", !.noting = d])
           /\ kernel' = kernel \cup {d}
  <2>. DEFINE n == [v(c) EXCEPT !.at = "note", !.noting = d]
  <2>2. Goes(a, n)
    BY <1>4, <1>8
  <2>3. /\ n \in Controls /\ n.visit = v(c).visit /\ n.folder = v(c).folder
        /\ n.passes = v(c).passes /\ n.seen = v(c).seen /\ n.at = "note" /\ n.list = v(c).list
        /\ n.noting = d /\ n.covered = v(c).covered
    BY <1>0, <1>1, <1>3
  <2>. HIDE DEF n
  <2>4. ctl'[a] = n /\ ctl' \in [Actors -> Controls] /\ \A e \in Actors \ {a} : ctl'[e] = ctl[e]
    BY <2>2, <2>3 DEF Goes
  <2>. QED
    BY <1>0, <1>1, <1>5, <1>8, <2>3, <2>4
<1>. QED
  BY <1>6, <1>7, <1>8 DEF Visit

LEMMA NoteGoes ==
  ASSUME WatcherAssumption, ctl \in [Actors -> Controls], NEW a \in Actors, NoteOwner(a),
         ctl[a].noting \in Dirs
  PROVE  LET c == ctl[a]  n == ctl'[a] IN
    /\ c.at = "note"
    /\ ctl' \in [Actors -> Controls] /\ \A b \in Actors \ {a} : ctl'[b] = ctl[b]
    /\ n.visit = c.visit /\ n.folder = c.folder /\ n.passes = c.passes /\ n.seen = c.seen
    /\ n.at = "walk" /\ n.noting = None /\ n.covered
    /\ n.list = c.list \cup {c.noting}
<1>. DEFINE c == ctl[a]
            n == [c EXCEPT !.at = "walk", !.noting = None, !.covered = TRUE, !.list = @ \cup {c.noting}]
<1>0. c \in Controls /\ c.at = "note" /\ Goes(a, n)
  BY DEF NoteOwner, Stands
<1>1. SUFFICES /\ n \in Controls /\ n.visit = c.visit /\ n.folder = c.folder /\ n.passes = c.passes
               /\ n.seen = c.seen /\ n.at = "walk" /\ n.noting = None /\ n.covered
               /\ n.list = c.list \cup {c.noting}
  <2>. HIDE DEF n
  <2>. QED
    BY <1>0, <1>1 DEF Goes
<1>. QED
  BY <1>0, ControlsAre DEF Stages

LEMMA ListGoes ==
  ASSUME WatcherAssumption, ctl \in [Actors -> Controls], NEW a \in Actors, NEW d \in Dirs, List(a, d)
  PROVE  LET c == ctl[a]  n == ctl'[a] IN
    /\ c.at = "walk" /\ d \in c.list
    /\ ctl' \in [Actors -> Controls] /\ \A b \in Actors \ {a} : ctl'[b] = ctl[b]
    /\ n.visit = c.visit \cup (Below(d) \cap exists) /\ n.folder = c.folder /\ n.passes = c.passes
    /\ n.seen = c.seen /\ n.at = "walk" /\ n.noting = c.noting
    /\ n.covered <=> c.covered
    /\ n.list = c.list \ {d}
<1>. DEFINE c == ctl[a]
            B == Below(d) \cap exists
            n == [c EXCEPT !.list = @ \ {d}, !.visit = @ \cup B]
<1>0. c \in Controls /\ c.at = "walk" /\ d \in c.list /\ Goes(a, n)
  BY DEF List, Stands
<1>1. SUFFICES /\ n \in Controls /\ n.visit = c.visit \cup B /\ n.folder = c.folder
               /\ n.passes = c.passes /\ n.seen = c.seen /\ n.at = "walk" /\ n.noting = c.noting
               /\ n.covered = c.covered /\ n.list = c.list \ {d}
  <2>. HIDE DEF n, B
  <2>1. n \in Controls /\ ctl' = [ctl EXCEPT ![a] = n]
    BY <1>0, <1>1 DEF Goes
  <2>2. ctl'[a] = n /\ ctl' \in [Actors -> Controls] /\ \A b \in Actors \ {a} : ctl'[b] = ctl[b]
    BY <2>1
  <2>3. n.visit = c.visit \cup (Below(d) \cap exists)
    BY <1>1 DEF B
  <2>. QED
    BY <1>0, <1>1, <2>2, <2>3
<1>2. B \in SUBSET Dirs
  BY DEF Below
<1>. HIDE DEF B
<1>. QED
  BY <1>0, <1>2, ControlsAre

(* Where a goroutine goes when it is done with a walk or a pass.           *)
LEMMA WaitsGoes ==
  ASSUME WatcherAssumption, ctl \in [Actors -> Controls], NEW a \in Actors, NEW c \in Controls,
         c.folder \in FolderIds, Waits(a, c)
  PROVE  LET n == ctl'[a] IN
    /\ ctl' \in [Actors -> Controls] /\ \A b \in Actors \ {a} : ctl'[b] = ctl[b]
    /\ n.seen = <<>>
    /\ \/ a = "forward" /\ n.at = "send" /\ n.folder = c.folder
       \/ a # "forward" /\ c.passes = 0 /\ n = Idle
       \/ /\ a # "forward" /\ c.passes > 0 /\ n.at = "wait" /\ n.folder = c.folder
          /\ n.passes = c.passes
<1>1. CASE a = "forward"
  <2>. DEFINE n == [Idle EXCEPT !.at = "send", !.folder = c.folder]
  <2>1. n \in Controls /\ n.at = "send" /\ n.folder = c.folder /\ n.seen = <<>>
    <3>1. "send" \in Stages
      BY DEF Stages
    <3>. QED
      BY <3>1, TaskTyped
  <2>2. Goes(a, n)
    BY <1>1 DEF Waits
  <2>. HIDE DEF n
  <2>. QED
    BY <1>1, <2>1, <2>2 DEF Goes
<1>2. CASE a # "forward" /\ c.passes = 0
  <2>1. Goes(a, Idle)
    BY <1>2 DEF Waits
  <2>. QED
    BY <1>2, <2>1, RestTyped DEF Goes
<1>3. CASE a # "forward" /\ c.passes # 0
  <2>. DEFINE n == [Idle EXCEPT !.at = "wait", !.folder = c.folder, !.passes = c.passes]
  <2>0. c.passes \in 0 .. 2
    BY ControlsAre
  <2>1. n \in Controls /\ n.at = "wait" /\ n.folder = c.folder /\ n.seen = <<>> /\ n.passes = c.passes
    BY <2>0, WaitTyped
  <2>2. Goes(a, n)
    BY <1>3 DEF Waits
  <2>. HIDE DEF n
  <2>. QED
    BY <1>3, <2>0, <2>1, <2>2 DEF Goes
<1>. QED
  BY <1>1, <1>2, <1>3

LEMMA PassEndsGoes ==
  ASSUME WatcherAssumption, ctl \in [Actors -> Controls], NEW a \in Actors, a # "forward",
         ctl[a].folder \in FolderIds, ctl[a].passes > 0, PassEnds(a)
  PROVE  LET c == ctl[a]  n == ctl'[a] IN
    /\ ctl' \in [Actors -> Controls] /\ \A b \in Actors \ {a} : ctl'[b] = ctl[b]
    /\ n.seen = <<>>
    /\ \/ c.passes = 1 /\ n = Idle
       \/ n.at = "wait" /\ n.folder = c.folder /\ n.passes = c.passes - 1 /\ n.passes > 0
<1>. DEFINE c == ctl[a]
            m == [c EXCEPT !.passes = @ - 1]
<1>0. c \in Controls /\ c.passes \in 1 .. 2
  BY ControlsAre
<1>1. m \in Controls /\ m.folder = c.folder /\ m.passes = c.passes - 1
  BY <1>0, ControlsAre
<1>2. Waits(a, m)
  BY DEF PassEnds
<1>. HIDE DEF m
<1>. QED
  BY <1>0, <1>1, <1>2, WaitsGoes

LEMMA LockGoes ==
  ASSUME WatcherAssumption, ctl \in [Actors -> Controls], NEW a \in Actors, Lock(a),
         ctl[a].folder \in FolderIds
  PROVE  LET c == ctl[a]  n == ctl'[a] IN
    /\ c.at = "wait"
    /\ ctl' \in [Actors -> Controls] /\ \A b \in Actors \ {a} : ctl'[b] = ctl[b]
    /\ n.at = "pass" /\ n.folder = c.folder /\ n.passes = c.passes /\ n.seen = <<>>
    /\ n.list = {}
    /\ \A x : x \in n.visit <=> x = Root[c.folder]
<1>. DEFINE f == ctl[a].folder
            k == ctl[a].passes
            w == Walking(f, k)
            n == [w EXCEPT !.at = "pass"]
<1>1. Goes(a, n) /\ ctl[a].at = "wait"
  BY DEF Lock, Stands
<1>2. f \in FolderIds /\ k \in 0 .. 2
  BY ControlsAre
<1>. HIDE DEF f, k
<1>3. w \in Controls /\ w.folder = f /\ w.seen = <<>> /\ w.passes = k
  BY <1>2, WalkingTyped
<1>4. (\A x : x \in w.visit <=> x = Root[f]) /\ w.list = {}
  BY <1>2, WalkingFrom
<1>. HIDE DEF w
<1>5. /\ n \in Controls /\ n.at = "pass" /\ n.folder = f /\ n.passes = k /\ n.seen = <<>>
      /\ n.list = {} /\ n.visit = w.visit
  BY <1>3, <1>4, ControlsAre DEF Stages
<1>. HIDE DEF n
<1>6. ctl'[a] = n /\ ctl' \in [Actors -> Controls] /\ \A b \in Actors \ {a} : ctl'[b] = ctl[b]
  BY <1>1, <1>5, GoesTo
<1>. QED
  BY <1>1, <1>4, <1>5, <1>6 DEF f, k

LEMMA ReadGoes ==
  ASSUME WatcherAssumption, ctl \in [Actors -> Controls], version \in [Dirs -> 0 .. MaxChanges],
         NEW a \in Actors, NEW d \in Dirs, Read(a, d)
  PROVE  LET c == ctl[a]  n == ctl'[a] IN
    /\ c.at = "pass" /\ d \in c.visit
    /\ ctl' \in [Actors -> Controls] /\ \A b \in Actors \ {a} : ctl'[b] = ctl[b]
    /\ n.at = "pass" /\ n.folder = c.folder /\ n.passes = c.passes
    /\ \/ /\ d \in exists /\ n.list = c.list \cup {d}
          /\ n.visit = (c.visit \ {d}) \cup (Below(d) \cap exists)
          /\ DOMAIN n.seen = DOMAIN c.seen \cup {d} \cup NotThere(d)
       \/ /\ d \notin exists /\ d # Root[c.folder] /\ n.list = c.list
          /\ n.visit = c.visit \ {d} /\ n.seen = c.seen
    /\ \A e \in DOMAIN n.seen : \/ e \in DOMAIN c.seen /\ n.seen[e] = c.seen[e]
                                \/ e \notin DOMAIN c.seen /\ n.seen[e] = version[e]
<1>. DEFINE c == ctl[a]
            v == [c EXCEPT !.visit = @ \ {d}]
            B == Below(d) \cap exists
            s == Learnt(a, d)
            n == [v EXCEPT !.visit = @ \cup B, !.list = @ \cup {d}, !.seen = s]
<1>0. c.at = "pass" /\ d \in c.visit /\ c \in Controls /\ c.seen \in Records
  BY ControlsAre DEF Read, Stands
<1>1. /\ v \in Controls /\ v.at = c.at /\ v.folder = c.folder /\ v.passes = c.passes /\ v.seen = c.seen
      /\ v.list = c.list /\ v.visit = c.visit \ {d}
  BY <1>0, ControlsAre
<1>2. \/ d \in exists /\ Goes(a, n)
      \/ d \notin exists /\ d # Root[c.folder] /\ Goes(a, v)
  BY DEF Read, Visited
<1>. HIDE DEF v
<1>3. CASE d \notin exists /\ d # Root[c.folder] /\ Goes(a, v)
  <2>1. ctl'[a] = v /\ ctl' \in [Actors -> Controls] /\ \A b \in Actors \ {a} : ctl'[b] = ctl[b]
    BY <1>1, <1>3, GoesTo
  <2>. QED
    BY <1>0, <1>1, <1>3, <2>1
<1>4. CASE d \in exists /\ Goes(a, n)
  <2>1. /\ s \in Records /\ DOMAIN s = DOMAIN c.seen \cup {d} \cup NotThere(d)
        /\ \A e \in DOMAIN s : \/ e \in DOMAIN c.seen /\ s[e] = c.seen[e]
                               \/ e \notin DOMAIN c.seen /\ s[e] = version[e]
    BY <1>0, LearnsMore
  <2>2. B \in SUBSET Dirs
    BY DEF Below
  <2>. HIDE DEF s, B
  <2>3. /\ n \in Controls /\ n.at = v.at /\ n.folder = v.folder /\ n.passes = v.passes /\ n.seen = s
        /\ n.list = v.list \cup {d} /\ n.visit = v.visit \cup B
    BY <1>1, <2>1, <2>2, ControlsAre
  <2>. HIDE DEF n
  <2>4. ctl'[a] = n /\ ctl' \in [Actors -> Controls] /\ \A b \in Actors \ {a} : ctl'[b] = ctl[b]
    BY <1>4, <2>3, GoesTo
  <2>5. n.visit = (c.visit \ {d}) \cup (Below(d) \cap exists)
    BY <1>1, <2>3 DEF B
  <2>. QED
    BY <1>0, <1>1, <1>4, <2>1, <2>3, <2>4, <2>5
<1>. QED
  BY <1>2, <1>3, <1>4

(* What a pass that ends may make of the rows of its folder.               *)
LEMMA OutcomesAre ==
  ASSUME WatcherAssumption, WatcherTyped, NEW a \in Actors, Passing(a), NEW f \in FolderIds,
         NEW w \in Outcomes(a, f)
  PROVE  LET s == ctl[a].seen IN
         /\ w \in [Dirs -> 0 .. MaxChanges]
         /\ \A d \in Dirs : w[d] = 0 \/ (d \in DOMAIN s /\ w[d] = s[d]) \/ w[d] = shown[f][d]
         /\ \A d \in Tree(f) : (d \in DOMAIN s /\ w[d] = s[d]) \/ w[d] = shown[f][d]
         /\ Tree(f) \subseteq DOMAIN s => \A d \in Tree(f) : w[d] = s[d]
<1>. DEFINE s == ctl[a].seen
<1>1. ctl[a] \in Controls /\ Fits(a, ctl[a], born, version) /\ MaxChanges \in Nat
      /\ shown \in [FolderIds -> [Dirs -> 0 .. MaxChanges]]
  BY DEF WatcherTyped, Carried, TablesTyped, WatcherAssumption
<1>2. s \in Records /\ ctl[a].list \subseteq DOMAIN s
  BY <1>1, ControlsAre DEF Fits, Passing, Stands
<1>3. \A d \in DOMAIN s : s[d] \in 0 .. MaxChanges
  BY <1>2, SeenDomain
<1>. HIDE DEF s
<1>4. Tree(f) \subseteq Dirs /\ shown[f] \in [Dirs -> 0 .. MaxChanges]
  BY <1>1 DEF Tree, Under
<1>5. CASE Tree(f) \subseteq DOMAIN s
  <2>1. w = [d \in Dirs |-> IF d \in Tree(f) THEN s[d] ELSE 0]
    BY <1>5 DEF Outcomes, s
  <2>. QED
    BY <1>1, <1>3, <1>4, <1>5, <2>1 DEF s
<1>6. CASE ~(Tree(f) \subseteq DOMAIN s)
  <2>1. PICK S \in SUBSET ctl[a].list : w = [d \in Dirs |-> IF d \in S THEN s[d] ELSE shown[f][d]]
    BY <1>6 DEF Outcomes, s
  <2>2. S \subseteq DOMAIN s
    BY <1>2, <2>1
  <2>. QED
    BY <1>3, <1>4, <1>6, <2>1, <2>2 DEF s
<1>. QED
  BY <1>5, <1>6

(* Each step keeps the types.                                              *)
LEMMA CellOf ==
  ASSUME WatcherTyped, NEW a \in Actors
  PROVE  /\ ctl[a] \in Controls /\ Fits(a, ctl[a], born, version) /\ ctl[a].passes \in 0 .. 2
         /\ ctl[a].at \notin {"idle", "off", "unwatch"} => ctl[a].folder \in born /\ ctl[a].folder \in FolderIds
         /\ ctl \in [Actors -> Controls] /\ version \in [Dirs -> 0 .. MaxChanges]
         /\ ctl[a].seen \in Records /\ Carried /\ Held
<1>1. ctl[a] \in Controls /\ Fits(a, ctl[a], born, version)
  BY DEF WatcherTyped, Carried
<1>2. ctl[a].passes \in 0 .. 2 /\ ctl[a].seen \in Records
  BY <1>1, ControlsAre
<1>3. ctl[a].at \notin {"idle", "off", "unwatch"} => ctl[a].folder \in born /\ ctl[a].folder \in FolderIds
  BY <1>1 DEF WatcherTyped, TablesTyped, Fits
<1>. QED
  BY <1>1, <1>2, <1>3 DEF WatcherTyped, Carried, DiskTyped

LEMMA DiskStepTyped ==
  ASSUME WatcherAssumption, WatcherTyped, Disk
  PROVE  WatcherTyped'
<1>1. PICK d \in Dirs : Change(d) \/ MakeDir(d) \/ RemoveDir(d)
  BY DEF Disk
<1>2. UNCHANGED <<tables, maps, signals, ctl, mutex, course>>
  BY DEF Disk
<1>3. version[d] < MaxChanges /\ version' = [version EXCEPT ![d] = @ + 1] /\ MaxChanges \in Nat
  BY <1>1 DEF Change, MakeDir, RemoveDir, WatcherAssumption
<1>4. version \in [Dirs -> 0 .. MaxChanges] /\ version' \in [Dirs -> 0 .. MaxChanges]
      /\ \A e \in Dirs : version[e] <= version'[e]
  BY <1>3 DEF WatcherTyped, DiskTyped
<1>5. exists' \subseteq Dirs /\ kernel' \subseteq exists'
  BY <1>1 DEF Change, MakeDir, RemoveDir, WatcherTyped, DiskTyped
<1>6. PICK kind \in {"file", "create", "remove"} : \E W : Tell(kind, d, W)
  BY <1>1, Zenon DEF Change, MakeDir, RemoveDir
<1>7. QueueTyped'
  <2>. DEFINE e == [dir |-> d, kind |-> kind]
              E == [dir : Dirs, kind : {"file", "create", "remove"}]
  <2>1. e \in E /\ queue \in Seq(E)
    BY DEF WatcherTyped, QueueTyped
  <2>2. queue' = queue \/ queue' = Append(queue, e)
    BY <1>6 DEF Tell, Append1
  <2>. HIDE DEF e, E
  <2>3. queue' \in Seq(E)
    BY <2>1, <2>2
  <2>. QED
    BY <2>3 DEF QueueTyped, E
<1>8. Carried'
  <2>1. ctl' = ctl /\ born' = born /\ born \subseteq born'
    BY <1>2 DEF tables
  <2>. QED
    BY <1>3, <1>4, <2>1, CarriedGrows DEF WatcherTyped
<1>9. Held' /\ TablesTyped' /\ MapsTyped' /\ SignalsTyped' /\ CourseTyped'
  BY <1>2 DEF WatcherTyped, Held, Passing, Stands, TablesTyped, MapsTyped, SignalsTyped, CourseTyped,
              tables, maps, signals, course
<1>. QED
  BY <1>4, <1>5, <1>7, <1>8, <1>9 DEF WatcherTyped, DiskTyped

LEMMA WalkStepTyped ==
  ASSUME WatcherAssumption, WatcherTyped, NEW a \in Actors, WatchTree(a)
  PROVE  WatcherTyped'
<1>. DEFINE c == ctl[a]
            n == ctl'[a]
<1>0. UNCHANGED <<disk, queue, tables, watched, signals, mutex, course>>
  BY DEF WatchTree
<1>1. /\ c \in Controls /\ Fits(a, c, born, version) /\ ctl \in [Actors -> Controls]
      /\ c.at \notin {"idle", "off", "unwatch"} => c.folder \in born /\ c.folder \in FolderIds
      /\ Carried /\ Held
  BY CellOf
<1>. DEFINE Good ==
              /\ ctl' \in [Actors -> Controls] /\ \A b \in Actors \ {a} : ctl'[b] = ctl[b]
              /\ Fits(a, n, born, version) /\ ~Passing(a) /\ ~Passing(a)'
              /\ kernel' \subseteq exists /\ watchedDirs' \in [Dirs -> born \cup {None}]
<1>2. Good
  <2>0. kernel \subseteq exists /\ watchedDirs \in [Dirs -> born \cup {None}]
    BY DEF WatcherTyped, DiskTyped, MapsTyped
  <2>1. CASE WalkEnds(a)
    <3>1. c.at = "walk" /\ Waits(a, c) /\ kernel' = kernel /\ watchedDirs' = watchedDirs
      BY <2>1 DEF WalkEnds, Stands
    <3>2. c.folder \in born /\ c.folder \in FolderIds
      BY <1>1, <3>1
    <3>3. /\ ctl' \in [Actors -> Controls] /\ \A b \in Actors \ {a} : ctl'[b] = ctl[b]
          /\ n.seen = <<>>
          /\ \/ a = "forward" /\ n.at = "send" /\ n.folder = c.folder
             \/ a # "forward" /\ c.passes = 0 /\ n = Idle
             \/ /\ a # "forward" /\ c.passes > 0 /\ n.at = "wait" /\ n.folder = c.folder
                /\ n.passes = c.passes
      BY <1>1, <3>1, <3>2, WaitsGoes
    <3>4. Fits(a, n, born, version) /\ n.at # "pass"
      BY <3>2, <3>3, RestTyped, NothingSeen DEF Fits
    <3>. QED
      BY <2>0, <3>1, <3>3, <3>4 DEF Passing, Stands
  <2>2. CASE NoteOwner(a)
    <3>1. c.at = "note" /\ c.noting \in Dirs /\ c.folder \in born
      BY <1>1, <2>2 DEF Fits, NoteOwner, Stands
    <3>2. /\ ctl' \in [Actors -> Controls] /\ \A b \in Actors \ {a} : ctl'[b] = ctl[b]
          /\ n.folder = c.folder /\ n.seen = c.seen /\ n.at = "walk"
      BY <1>1, <2>2, <3>1, NoteGoes
    <3>3. Fits(a, n, born, version)
      BY <1>1, <3>1, <3>2 DEF Fits
    <3>. QED
      BY <2>0, <2>2, <3>1, <3>2, <3>3 DEF Passing, Stands, NoteOwner
  <2>3. ASSUME NEW d \in Dirs, Visit(a, d) PROVE Good
    <3>1. /\ c.at = "walk"
          /\ ctl' \in [Actors -> Controls] /\ \A b \in Actors \ {a} : ctl'[b] = ctl[b]
          /\ n.folder = c.folder /\ n.passes = c.passes /\ n.seen = c.seen
          /\ n.at = "walk" \/ (n.at = "note" /\ n.noting = d)
          /\ kernel' = kernel \/ (d \in exists /\ kernel' = kernel \cup {d})
      BY <1>1, <2>3, VisitGoes
    <3>2. Fits(a, n, born, version)
      BY <1>1, <3>1 DEF Fits
    <3>. QED
      BY <2>0, <2>3, <3>1, <3>2 DEF Passing, Stands, Visit
  <2>4. ASSUME NEW d \in Dirs, List(a, d) PROVE Good
    <3>1. /\ c.at = "walk"
          /\ ctl' \in [Actors -> Controls] /\ \A b \in Actors \ {a} : ctl'[b] = ctl[b]
          /\ n.folder = c.folder /\ n.passes = c.passes /\ n.seen = c.seen /\ n.at = "walk"
      BY <1>1, <2>4, ListGoes
    <3>2. Fits(a, n, born, version)
      BY <1>1, <3>1 DEF Fits
    <3>. QED
      BY <2>0, <2>4, <3>1, <3>2 DEF Passing, Stands, List
  <2>. QED
    BY <2>1, <2>2, <2>3, <2>4 DEF WatchTree
<1>3. Carried'
  BY <1>0, <1>1, <1>2, StepCarried DEF tables, disk
<1>4. Held'
  BY <1>0, <1>1, <1>2, HeldStays
<1>5. DiskTyped' /\ QueueTyped' /\ TablesTyped' /\ MapsTyped' /\ SignalsTyped' /\ CourseTyped'
  BY <1>0, <1>2 DEF WatcherTyped, DiskTyped, QueueTyped, TablesTyped, MapsTyped, SignalsTyped, CourseTyped,
                    disk, tables, signals, course
<1>. QED
  BY <1>3, <1>4, <1>5 DEF WatcherTyped

LEMMA NoneStandsApart ==
  ASSUME WatcherAssumption
  PROVE  /\ \A b \in Actors \ {"command"} : b # None
         /\ \A h \in Handlers \cup {"command"} : h \in Actors /\ h # "loop" /\ h # "forward"
         /\ "loop" \in Actors /\ "forward" \in Actors
  BY DEF WatcherAssumption, Actors

LEMMA PassStepTyped ==
  ASSUME WatcherAssumption, WatcherTyped, NEW a \in Actors, Reconcile(a)
  PROVE  WatcherTyped'
<1>. DEFINE c == ctl[a]
            n == ctl'[a]
<1>1. /\ c \in Controls /\ Fits(a, c, born, version) /\ ctl \in [Actors -> Controls]
      /\ version \in [Dirs -> 0 .. MaxChanges] /\ c.seen \in Records /\ c.passes \in 0 .. 2
      /\ c.at \notin {"idle", "off", "unwatch"} => c.folder \in born /\ c.folder \in FolderIds
      /\ Carried /\ Held
  BY CellOf
<1>. DEFINE Good ==
              /\ ctl' \in [Actors -> Controls] /\ \A b \in Actors \ {a} : ctl'[b] = ctl[b]
              /\ Fits(a, n, born, version)
              /\ a = "command" => mutex' = mutex
              /\ a # "command" => \/ mutex = None /\ mutex' = a /\ n.at = "pass"
                                  \/ mutex = a /\ mutex' = None /\ n.at # "pass"
                                  \/ mutex = a /\ mutex' = a /\ n.at = "pass"
              /\ UNCHANGED <<disk, kernel, queue, folders, born, maps, signals, happens, restarts>>
              /\ failures' \in Nat
              /\ shown' \in [FolderIds -> [Dirs -> 0 .. MaxChanges]]
<1>2. Good
  <2>0. shown \in [FolderIds -> [Dirs -> 0 .. MaxChanges]] /\ failures \in Nat
    BY DEF WatcherTyped, TablesTyped, CourseTyped
  <2>1. CASE Lock(a)
    <3>1. /\ c.at = "wait"
          /\ ctl' \in [Actors -> Controls] /\ \A b \in Actors \ {a} : ctl'[b] = ctl[b]
          /\ n.at = "pass" /\ n.folder = c.folder /\ n.passes = c.passes /\ n.seen = <<>> /\ n.list = {}
      <4>1. c.folder \in FolderIds
        BY <1>1, <2>1 DEF Lock, Stands
      <4>. QED
        BY <1>1, <2>1, <4>1, LockGoes
    <3>2. Fits(a, n, born, version)
      BY <1>1, <3>1, NothingSeen DEF Fits
    <3>. QED
      BY <2>0, <2>1, <3>1, <3>2 DEF Lock, Locks, tables, course
  <2>2. ASSUME NEW d \in Dirs, Read(a, d) PROVE Good
    <3>1. /\ c.at = "pass" /\ ctl' \in [Actors -> Controls] /\ \A b \in Actors \ {a} : ctl'[b] = ctl[b]
          /\ n.at = "pass" /\ n.folder = c.folder /\ n.passes = c.passes
          /\ \/ /\ n.list = c.list \cup {d}
                /\ DOMAIN n.seen = DOMAIN c.seen \cup {d} \cup NotThere(d)
             \/ n.list = c.list /\ n.seen = c.seen
          /\ \A e \in DOMAIN n.seen : \/ e \in DOMAIN c.seen /\ n.seen[e] = c.seen[e]
                                      \/ e \notin DOMAIN c.seen /\ n.seen[e] = version[e]
      BY <1>1, <2>2, ReadGoes
    <3>2. Fits(a, n, born, version)
      <4>0. n \in Controls /\ n.seen \in Records
        BY <3>1, ControlsAre
      <4>1. \A e \in DOMAIN n.seen : n.seen[e] <= version[e]
        BY <1>1, <3>1, <4>0, SeenDomain DEF Fits
      <4>2. n.list \subseteq DOMAIN n.seen
        BY <1>1, <3>1 DEF Fits
      <4>. QED
        BY <1>1, <3>1, <4>1, <4>2 DEF Fits
    <3>3. a # "command" => mutex = a
      BY <1>1, <3>1 DEF Held, Passing, Stands
    <3>. QED
      BY <2>0, <2>2, <3>1, <3>2, <3>3 DEF Read, tables, course
  <2>3. CASE Stands(a, "pass") /\ PassEnds(a) /\ (Commit(a) \/ Fail(a) \/ RootGone(a))
    <3>0. a # "forward" /\ c.at = "pass" /\ c.folder \in born /\ c.folder \in FolderIds /\ c.passes > 0
      BY <1>1, <2>3 DEF Fits, Stands
    <3>1. /\ ctl' \in [Actors -> Controls] /\ \A b \in Actors \ {a} : ctl'[b] = ctl[b]
          /\ n.seen = <<>>
          /\ \/ c.passes = 1 /\ n = Idle
             \/ n.at = "wait" /\ n.folder = c.folder /\ n.passes = c.passes - 1 /\ n.passes > 0
      BY <1>1, <2>3, <3>0, PassEndsGoes
    <3>2. Fits(a, n, born, version) /\ n.at # "pass"
      BY <1>1, <3>0, <3>1, RestTyped, NothingSeen DEF Fits
    <3>3. a # "command" => mutex = a
      BY <1>1, <3>0 DEF Held, Passing, Stands
    <3>4. shown' \in [FolderIds -> [Dirs -> 0 .. MaxChanges]] /\ failures' \in Nat
      <4>1. CASE Fail(a) \/ RootGone(a)
        BY <2>0, <4>1 DEF Fail, RootGone
      <4>2. CASE Commit(a)
        <5>1. CASE c.folder \notin folders
          BY <2>0, <4>2, <5>1 DEF Commit
        <5>2. CASE c.folder \in folders
          <6>1. PICK g \in Outcomes(a, c.folder) : shown' = [shown EXCEPT ![c.folder] = g]
            BY <4>2, <5>2 DEF Commit
          <6>2. g \in [Dirs -> 0 .. MaxChanges]
            BY <2>3, <3>0, OutcomesAre DEF Passing
          <6>. QED
            BY <2>0, <4>2, <6>1, <6>2 DEF Commit
        <5>. QED
          BY <5>1, <5>2
      <4>. QED
        BY <2>3, <4>1, <4>2
    <3>. QED
      BY <2>3, <3>1, <3>2, <3>3, <3>4 DEF PassEnds, Locks
  <2>. QED
    BY <2>1, <2>2, <2>3 DEF Reconcile, Commit, Fail, RootGone
<1>3. Carried'
  BY <1>1, <1>2, StepCarried DEF disk
<1>4. Held'
  <2>1. ASSUME NEW b \in Actors \ {"command"}, b # a PROVE mutex' = b <=> Passing(b)'
    BY <1>1, <1>2, <2>1, NoneStandsApart DEF Held, Passing, Stands
  <2>2. a # "command" => (mutex' = a <=> Passing(a)')
    BY <1>2, NoneStandsApart DEF Passing, Stands
  <2>. QED
    BY <2>1, <2>2 DEF Held
<1>5. DiskTyped' /\ QueueTyped' /\ TablesTyped' /\ MapsTyped' /\ SignalsTyped' /\ CourseTyped'
  BY <1>2 DEF WatcherTyped, DiskTyped, QueueTyped, TablesTyped, MapsTyped, SignalsTyped, CourseTyped,
              disk, maps, signals
<1>. QED
  BY <1>3, <1>4, <1>5 DEF WatcherTyped

(* A goroutine that is in no pass goes to do something else.               *)
LEMMA TypedByGoing ==
  ASSUME WatcherAssumption, WatcherTyped, NEW a \in Actors, NEW c \in Controls, Goes(a, c),
         c.seen = <<>>, c.at # "pass", ~Passing(a),
         c.at \notin {"idle", "off", "unwatch"} => c.folder \in born,
         c.at = "wait" => c.passes > 0, c.at # "note",
         a = "loop" => c.at \in {"idle", "walk", "wait"},
         a = "forward" => c.at \in {"idle", "walk", "send"},
         a \notin {"loop", "forward"} => c.at \notin {"off", "send"},
         UNCHANGED <<born, version, mutex>>
  PROVE  Carried' /\ Held'
<1>1. ctl' \in [Actors -> Controls] /\ ctl'[a] = c /\ \A b \in Actors \ {a} : ctl'[b] = ctl[b]
  BY CellOf, GoesTo
<1>2. Fits(a, ctl'[a], born, version)
  BY <1>1, NothingSeen DEF Fits
<1>3. ~Passing(a)'
  BY <1>1 DEF Passing, Stands
<1>. QED
  BY <1>1, <1>2, <1>3, CellOf, StepCarried, HeldStays

LEMMA AddTyped ==
  ASSUME WatcherAssumption, WatcherTyped, NEW a \in Actors, NEW f \in born, NEW m \in {0, 1},
         Add(a, f, m), a # "forward", ~Passing(a), UNCHANGED <<born, version, mutex>>
  PROVE  /\ Carried' /\ Held' /\ MapsTyped'
         /\ ctl' \in [Actors -> Controls] /\ \A b \in Actors \ {a} : ctl'[b] = ctl[b]
         /\ ctl'[a] = Walking(f, IF f \in watched THEN m ELSE m + 1)
<1>. DEFINE k == IF f \in watched THEN m ELSE m + 1
<1>0. f \in FolderIds /\ k \in 0 .. 2
  BY DEF WatcherTyped, TablesTyped
<1>1. Goes(a, Walking(f, k))
  BY DEF Add
<1>2. /\ Walking(f, k) \in Controls /\ Walking(f, k).at = "walk" /\ Walking(f, k).folder = f
      /\ Walking(f, k).seen = <<>>
  BY <1>0, WalkingTyped
<1>3. Carried' /\ Held'
  BY <1>1, <1>2, TypedByGoing
<1>4. MapsTyped'
  BY DEF Add, MapsTyped, WatcherTyped
<1>. QED
  BY <1>1, <1>2, <1>3, <1>4, CellOf, GoesTo

LEMMA LoopStepTyped ==
  ASSUME WatcherAssumption, WatcherTyped,
         Started \/ Receive \/ Tick \/ Safety \/ \E f \in FolderIds : TakeRound(f) \/ ReconcileOne(f),
         UNCHANGED <<disk, kernel, queue, tables, mutex, course>>
  PROVE  WatcherTyped'
<1>0. DiskTyped' /\ QueueTyped' /\ TablesTyped' /\ CourseTyped' /\ UNCHANGED <<born, version, mutex>>
  BY DEF WatcherTyped, DiskTyped, QueueTyped, TablesTyped, CourseTyped, disk, tables, course
<1>1. "loop" \in Actors /\ "forward" \in Actors
  BY DEF Actors
<1>2. SUFFICES MapsTyped' /\ SignalsTyped' /\ Carried' /\ Held'
  BY <1>0 DEF WatcherTyped
<1>3. Carried /\ Held /\ MapsTyped /\ SignalsTyped
  BY DEF WatcherTyped
<1>4. ASSUME UNCHANGED <<ctl, born, version, mutex>> PROVE Carried' /\ Held'
  BY <1>3, <1>4 DEF Carried, Held, Passing, Stands
<1>5. ASSUME UNCHANGED maps, born' = born PROVE MapsTyped'
  BY <1>3, <1>5 DEF MapsTyped, maps
<1>6. CASE Started
  <2>1. ~Passing("forward") /\ Goes("forward", Idle) /\ UNCHANGED <<maps, signals>>
    BY <1>6 DEF Started, Stands, Passing
  <2>2. Carried' /\ Held'
    BY <1>0, <1>1, <2>1, RestTyped, TypedByGoing
  <2>. QED
    BY <1>0, <1>3, <1>5, <2>1, <2>2 DEF SignalsTyped, signals
<1>7. CASE Receive
  <2>1. events \in Seq(born) /\ events # <<>> /\ Cap \in Nat
    BY <1>3, <1>7 DEF SignalsTyped, Receive, WatcherAssumption
  <2>2. Head(events) \in born /\ Tail(events) \in Seq(born) /\ Len(Tail(events)) = Len(events) - 1
    BY <2>1
  <2>3. SignalsTyped'
    BY <1>0, <1>3, <1>7, <2>1, <2>2 DEF SignalsTyped, Receive
  <2>. QED
    BY <1>0, <1>4, <1>5, <1>7, <2>3 DEF Receive
<1>8. CASE Tick
  BY <1>0, <1>3, <1>4, <1>5, <1>8 DEF Tick, SignalsTyped
<1>9. CASE Safety
  <2>1. folders \subseteq born
    BY DEF WatcherTyped, TablesTyped
  <2>. QED
    BY <1>0, <1>3, <1>4, <1>5, <1>9, <2>1 DEF Safety, SignalsTyped
<1>10. ASSUME NEW f \in FolderIds, TakeRound(f)
       PROVE  MapsTyped' /\ SignalsTyped' /\ Carried' /\ Held'
  <2>. DEFINE m == IF Stands("forward", "off") THEN 0 ELSE 1
  <2>1. f \in born /\ m \in {0, 1} /\ Add("loop", f, m) /\ ~Passing("loop")
    BY <1>3, <1>10 DEF TakeRound, SignalsTyped, LoopIdle, Stands, Passing
  <2>. HIDE DEF m
  <2>2. Carried' /\ Held' /\ MapsTyped'
    BY <1>0, <1>1, <2>1, AddTyped
  <2>. QED
    BY <1>0, <1>3, <1>10, <2>2 DEF TakeRound, SignalsTyped
<1>11. ASSUME NEW f \in FolderIds, ReconcileOne(f)
       PROVE  MapsTyped' /\ SignalsTyped' /\ Carried' /\ Held'
  <2>1. f \in born /\ ~Passing("loop") /\ UNCHANGED maps
    BY <1>3, <1>11 DEF ReconcileOne, SignalsTyped, LoopIdle, Stands, Passing
  <2>2. CASE f \in watched
    <3>. DEFINE n == [Idle EXCEPT !.at = "wait", !.folder = f, !.passes = 1]
    <3>1. n \in Controls /\ n.at = "wait" /\ n.folder = f /\ n.seen = <<>> /\ n.passes = 1
      <4>1. 1 \in 0 .. 2
        OBVIOUS
      <4>. QED
        BY <4>1, WaitTyped
    <3>2. Goes("loop", n)
      BY <1>11, <2>2 DEF ReconcileOne
    <3>. HIDE DEF n
    <3>3. Carried' /\ Held'
      BY <1>0, <1>1, <2>1, <3>1, <3>2, TypedByGoing
    <3>. QED
      BY <1>0, <1>3, <1>5, <1>11, <2>1, <3>3 DEF ReconcileOne, SignalsTyped
  <2>3. CASE f \notin watched
    <3>1. Goes("loop", Idle)
      BY <1>11, <2>3 DEF ReconcileOne
    <3>2. Carried' /\ Held'
      BY <1>0, <1>1, <2>1, <3>1, RestTyped, TypedByGoing
    <3>. QED
      BY <1>0, <1>3, <1>5, <1>11, <2>1, <3>2 DEF ReconcileOne, SignalsTyped
  <2>. QED
    BY <2>2, <2>3
<1>. QED
  BY <1>6, <1>7, <1>8, <1>9, <1>10, <1>11

LEMMA WalkingOnly ==
  ASSUME WatcherAssumption, NEW g \in FolderIds
  PROVE  /\ Walking(g, 0) \in Controls /\ Walking(g, 0).at = "walk" /\ Walking(g, 0).folder = g
         /\ Walking(g, 0).seen = <<>>
<1>1. 0 \in 0 .. 2
  OBVIOUS
<1>. QED
  BY <1>1, WalkingTyped

LEMMA ForwardStepTyped ==
  ASSUME WatcherAssumption, WatcherTyped, TakeEvent \/ Send,
         UNCHANGED <<disk, kernel, tables, maps, pending, due, round, mutex, course>>
  PROVE  WatcherTyped'
<1>0. DiskTyped' /\ TablesTyped' /\ MapsTyped' /\ CourseTyped' /\ UNCHANGED <<born, version, mutex>>
  BY DEF WatcherTyped, DiskTyped, TablesTyped, MapsTyped, CourseTyped, disk, tables, maps, course
<1>1. "forward" \in Actors
  BY DEF Actors
<1>2. SUFFICES QueueTyped' /\ SignalsTyped' /\ Carried' /\ Held'
  BY <1>0 DEF WatcherTyped
<1>3. Carried /\ Held /\ QueueTyped /\ SignalsTyped /\ MapsTyped /\ TablesTyped
  BY DEF WatcherTyped
<1>4. Cap \in Nat /\ Parent \in [Dirs -> Dirs]
  BY DEF WatcherAssumption
<1>5. CASE TakeEvent
  <2>. DEFINE e == Head(queue)
              f == OwnerOf(e)
  <2>1. e \in [dir : Dirs, kind : {"file", "create", "remove"}] /\ QueueTyped'
    <3>. DEFINE E == [dir : Dirs, kind : {"file", "create", "remove"}]
    <3>1. queue \in Seq(E) /\ queue # <<>> /\ queue' = Tail(queue)
      BY <1>3, <1>5 DEF QueueTyped, TakeEvent
    <3>. HIDE DEF E
    <3>2. e \in E /\ queue' \in Seq(E)
      BY <3>1
    <3>. QED
      BY <3>2 DEF E, QueueTyped
  <2>2. f \in born \cup {None} /\ ~Passing("forward")
    BY <1>3, <1>4, <1>5, <2>1 DEF OwnerOf, MapsTyped, TakeEvent, Stands, Passing
  <2>3. SignalsTyped'
    BY <1>0, <1>3, <1>5 DEF TakeEvent, SignalsTyped
  <2>4. CASE Goes("forward", Idle)
    BY <1>0, <1>1, <2>1, <2>2, <2>3, <2>4, RestTyped, TypedByGoing
  <2>5. CASE f # None /\ Goes("forward", Walking(f, 0))
    <3>1. f \in born /\ f \in FolderIds
      BY <1>3, <2>2, <2>5 DEF TablesTyped
    <3>. DEFINE c == Walking(f, 0)
    <3>. HIDE DEF e, f
    <3>2. c \in Controls /\ c.at = "walk" /\ c.folder = f /\ c.seen = <<>>
      BY <3>1, WalkingOnly
    <3>3. Goes("forward", c)
      BY <2>5
    <3>. HIDE DEF c
    <3>. QED
      BY <1>0, <1>1, <2>1, <2>2, <2>3, <3>1, <3>2, <3>3, TypedByGoing
  <2>6. CASE f # None /\ Goes("forward", [Idle EXCEPT !.at = "send", !.folder = f])
    <3>. DEFINE c == [Idle EXCEPT !.at = "send", !.folder = f]
    <3>1. f \in born /\ f \in FolderIds /\ "send" \in Stages
      BY <1>3, <2>2, <2>6 DEF TablesTyped, Stages
    <3>. HIDE DEF f
    <3>2. c \in Controls /\ c.at = "send" /\ c.folder = f /\ c.seen = <<>>
      BY <3>1, TaskTyped
    <3>3. Goes("forward", c)
      BY <2>6
    <3>. HIDE DEF c
    <3>. QED
      BY <1>0, <1>1, <2>1, <2>2, <2>3, <3>1, <3>2, <3>3, TypedByGoing
  <2>. QED
    BY <1>5, <2>4, <2>5, <2>6 DEF TakeEvent
<1>6. CASE Send
  <2>1. ctl["forward"].folder \in born /\ ~Passing("forward") /\ Goes("forward", Idle)
    BY <1>1, <1>6, CellOf DEF Send, Stands, Passing
  <2>2. Carried' /\ Held'
    BY <1>0, <1>1, <2>1, RestTyped, TypedByGoing
  <2>3. SignalsTyped'
    BY <1>0, <1>3, <1>4, <1>6, <2>1 DEF Send, SignalsTyped
  <2>. QED
    BY <1>3, <1>6, <2>2, <2>3 DEF Send, QueueTyped
<1>. QED
  BY <1>5, <1>6

LEMMA ServeStepTyped ==
  ASSUME WatcherAssumption, WatcherTyped, NEW h \in Handlers \cup {"command"},
         AddFolder(h) \/ RemoveFolder(h) \/ Unwatch(h),
         UNCHANGED <<disk, queue, signals, mutex, course>>
  PROVE  WatcherTyped'
<1>0. DiskTyped /\ QueueTyped /\ TablesTyped /\ MapsTyped /\ SignalsTyped /\ CourseTyped /\ Carried /\ Held
  BY DEF WatcherTyped
<1>1. h \in Actors /\ h # "loop" /\ h # "forward"
  BY NoneStandsApart
<1>2. QueueTyped' /\ CourseTyped' /\ UNCHANGED <<exists, version, mutex>>
  BY <1>0 DEF QueueTyped, CourseTyped, disk, course
<1>3. UNCHANGED tables /\ ~Passing(h)
  BY DEF AddFolder, RemoveFolder, Unwatch, Passing, Stands
<1>4. TablesTyped' /\ SignalsTyped' /\ born' = born
  BY <1>0, <1>3 DEF TablesTyped, SignalsTyped, tables, signals
<1>5. SUFFICES kernel' \subseteq exists /\ MapsTyped' /\ Carried' /\ Held'
  BY <1>0, <1>2, <1>4 DEF WatcherTyped, DiskTyped
<1>6. CASE AddFolder(h)
  <2>1. ctl[h].folder \in born /\ Add(h, ctl[h].folder, 0) /\ kernel' = kernel
    BY <1>1, <1>6, CellOf DEF AddFolder, Stands
  <2>. DEFINE f == ctl[h].folder
  <2>. HIDE DEF f
  <2>2. f \in born /\ Add(h, f, 0)
    BY <2>1 DEF f
  <2>3. 0 \in {0, 1}
    OBVIOUS
  <2>4. Carried' /\ Held' /\ MapsTyped'
    BY <1>1, <1>2, <1>3, <1>4, <2>2, <2>3, AddTyped
  <2>. QED
    BY <1>0, <2>1, <2>4 DEF DiskTyped
<1>7. CASE RemoveFolder(h)
  <2>. DEFINE f == ctl[h].folder
              V == {d \in Dirs : watchedDirs[d] = f}
              c == [Idle EXCEPT !.at = "unwatch", !.visit = V]
  <2>1. MapsTyped'
    BY <1>0, <1>4, <1>7 DEF RemoveFolder, MapsTyped
  <2>2. kernel' = kernel /\ (Goes(h, c) \/ Goes(h, Idle))
    BY <1>7 DEF RemoveFolder
  <2>3. V \in SUBSET Dirs
    OBVIOUS
  <2>. HIDE DEF V
  <2>4. ASSUME NEW r \in Controls
        PROVE  LET n == [r EXCEPT !.at = "unwatch", !.visit = V]
               IN  n \in Controls /\ n.at = "unwatch" /\ n.seen = r.seen
    BY <2>3, ControlsAre DEF Stages
  <2>5. c \in Controls /\ c.at = "unwatch" /\ c.seen = <<>>
    BY <2>4, RestTyped
  <2>. HIDE DEF c
  <2>6. CASE Goes(h, c)
    BY <1>0, <1>1, <1>2, <1>3, <1>4, <2>1, <2>2, <2>5, <2>6, TypedByGoing DEF DiskTyped
  <2>7. CASE Goes(h, Idle)
    BY <1>0, <1>1, <1>2, <1>3, <1>4, <2>1, <2>2, <2>7, RestTyped, TypedByGoing DEF DiskTyped
  <2>. QED
    BY <2>2, <2>6, <2>7
<1>8. CASE Unwatch(h)
  <2>1. Goes(h, Idle) /\ kernel' \subseteq kernel /\ UNCHANGED maps
    BY <1>8 DEF Unwatch
  <2>2. Carried' /\ Held'
    BY <1>1, <1>2, <1>3, <1>4, <2>1, RestTyped, TypedByGoing
  <2>. QED
    BY <1>0, <1>4, <2>1, <2>2 DEF DiskTyped, MapsTyped, maps
<1>. QED
  BY <1>6, <1>7, <1>8

LEMMA AskedStepTyped ==
  ASSUME WatcherAssumption, WatcherTyped, NEW h \in Handlers \cup {"command"}, Asked(h)
  PROVE  WatcherTyped'
<1>0. DiskTyped /\ QueueTyped /\ TablesTyped /\ MapsTyped /\ SignalsTyped /\ CourseTyped /\ Carried /\ Held
  BY DEF WatcherTyped
<1>1. h \in Actors /\ h # "loop" /\ h # "forward"
  BY NoneStandsApart
<1>2. QueueTyped' /\ CourseTyped' /\ UNCHANGED <<exists, version, mutex>> /\ UNCHANGED signals
  BY <1>0 DEF Asked, QueueTyped, CourseTyped, disk, course
<1>3. PICK f \in FolderIds : ScanFolder(h, f) \/ CreateFolder(h, f) \/ DeleteFolderRow(h, f)
  BY DEF Asked
<1>4. ~Passing(h) /\ kernel' = kernel /\ UNCHANGED maps
  BY <1>3 DEF ScanFolder, CreateFolder, DeleteFolderRow, Passing, Stands
<1>5. DiskTyped'
  BY <1>0, <1>2, <1>4 DEF DiskTyped
<1>6. ASSUME born' = born PROVE MapsTyped' /\ SignalsTyped'
  BY <1>0, <1>2, <1>4, <1>6 DEF MapsTyped, SignalsTyped, maps, signals
<1>7. CASE ScanFolder(h, f)
  <2>. DEFINE n == [Idle EXCEPT !.at = "wait", !.folder = f, !.passes = 1]
  <2>1. 1 \in 0 .. 2
    OBVIOUS
  <2>2. n \in Controls /\ n.at = "wait" /\ n.folder = f /\ n.seen = <<>> /\ n.passes = 1
    BY <2>1, WaitTyped
  <2>3. Goes(h, n) /\ UNCHANGED tables /\ f \in folders
    BY <1>7 DEF ScanFolder
  <2>. HIDE DEF n
  <2>4. TablesTyped' /\ born' = born /\ f \in born
    BY <1>0, <2>3 DEF TablesTyped, tables
  <2>5. Carried' /\ Held'
    BY <1>1, <1>2, <1>4, <2>2, <2>3, <2>4, TypedByGoing
  <2>. QED
    BY <1>2, <1>5, <1>6, <2>4, <2>5 DEF WatcherTyped
<1>8. CASE CreateFolder(h, f)
  <2>. DEFINE n == [Idle EXCEPT !.at = "add", !.folder = f]
              B == born \cup {f}
  <2>1. "add" \in Stages
    BY DEF Stages
  <2>2. n \in Controls /\ n.at = "add" /\ n.folder = f /\ n.seen = <<>>
    BY <2>1, TaskTyped
  <2>3. Goes(h, n) /\ born' = B /\ folders' = folders \cup {f} /\ shown' = shown
    BY <1>8 DEF CreateFolder
  <2>. HIDE DEF n
  <2>4. TablesTyped' /\ MapsTyped' /\ SignalsTyped'
    <3>1. TablesTyped'
      BY <1>0, <2>3 DEF TablesTyped
    <3>2. MapsTyped'
      BY <1>0, <1>4, <2>3 DEF MapsTyped, maps
    <3>3. SignalsTyped'
      <4>1. events \in Seq(born) /\ born \subseteq B
        BY <1>0 DEF SignalsTyped
      <4>2. events \in Seq(B)
        BY <4>1
      <4>. QED
        BY <1>0, <1>2, <2>3, <4>2 DEF SignalsTyped, signals
    <3>. QED
      BY <3>1, <3>2, <3>3
  <2>5. ctl' \in [Actors -> Controls] /\ ctl'[h] = n /\ \A b \in Actors \ {h} : ctl'[b] = ctl[b]
    BY <1>1, <2>2, <2>3, CellOf, GoesTo
  <2>6. ASSUME NEW b \in Actors PROVE Fits(b, ctl'[b], B, version)
    <3>1. CASE b = h
      BY <1>1, <2>2, <2>5, <3>1, NothingSeen DEF Fits
    <3>2. CASE b # h
      BY <1>0, <2>5, <3>2 DEF Carried, Fits
    <3>. QED
      BY <3>1, <3>2
  <2>7. Carried'
    BY <1>2, <2>3, <2>5, <2>6 DEF Carried
  <2>8. Held'
    <3>1. ~Passing(h)'
      BY <2>2, <2>5 DEF Passing, Stands
    <3>. QED
      BY <1>0, <1>1, <1>2, <1>4, <2>5, <3>1, HeldStays
  <2>. QED
    BY <1>2, <1>5, <2>4, <2>7, <2>8 DEF WatcherTyped
<1>9. CASE DeleteFolderRow(h, f)
  <2>. DEFINE n == [Idle EXCEPT !.at = "remove", !.folder = f]
              g == [d \in Dirs |-> 0]
  <2>1. "remove" \in Stages
    BY DEF Stages
  <2>2. n \in Controls /\ n.at = "remove" /\ n.folder = f /\ n.seen = <<>>
    BY <2>1, TaskTyped
  <2>3. Goes(h, n) /\ born' = born /\ f \in folders /\ folders' = folders \ {f}
        /\ shown' = [shown EXCEPT ![f] = g]
    BY <1>9 DEF DeleteFolderRow
  <2>. HIDE DEF n
  <2>4. g \in [Dirs -> 0 .. MaxChanges]
    BY DEF WatcherAssumption
  <2>. HIDE DEF g
  <2>5. TablesTyped' /\ f \in born
    BY <1>0, <2>3, <2>4 DEF TablesTyped
  <2>6. Carried' /\ Held'
    BY <1>1, <1>2, <1>4, <2>2, <2>3, <2>5, TypedByGoing
  <2>. QED
    BY <1>2, <1>5, <1>6, <2>3, <2>5, <2>6 DEF WatcherTyped
<1>. QED
  BY <1>3, <1>7, <1>8, <1>9

LEMMA RestartTyped ==
  ASSUME WatcherAssumption, WatcherTyped, Restart
  PROVE  WatcherTyped'
<1>0. DiskTyped /\ TablesTyped /\ MapsTyped /\ CourseTyped /\ Carried /\ Held
  BY DEF WatcherTyped
<1>1. /\ kernel' = {} /\ queue' = <<>> /\ events' = <<>> /\ pending' = {} /\ due' = {} /\ round' = folders
      /\ watched' = {} /\ watchedDirs' = [d \in Dirs |-> None] /\ mutex' = None
      /\ restarts' = restarts + 1 /\ UNCHANGED <<disk, tables, happens, failures>>
  BY DEF Restart
<1>2. DiskTyped' /\ TablesTyped' /\ MapsTyped' /\ CourseTyped' /\ QueueTyped' /\ SignalsTyped'
  <2>1. Cap \in Nat /\ Len(<<>>) = 0
    BY DEF WatcherAssumption
  <2>. QED
    BY <1>0, <1>1, <2>1 DEF DiskTyped, TablesTyped, MapsTyped, CourseTyped, QueueTyped, SignalsTyped, disk, tables
<1>. DEFINE o == [Idle EXCEPT !.at = "off"]
<1>3. ctl' = [a \in Actors |-> CASE a = "command" -> ctl[a] [] a = "forward" -> o [] OTHER -> Idle]
  BY DEF Restart
<1>4. o \in Controls /\ o.at = "off" /\ o.seen = <<>>
  BY OffTyped
<1>. HIDE DEF o
<1>5. ctl \in [Actors -> Controls] /\ \A a \in Actors : Fits(a, ctl[a], born, version)
  BY <1>0 DEF Carried
<1>6. ASSUME NEW a \in Actors
      PROVE  ctl'[a] \in Controls /\ Fits(a, ctl'[a], born, version) /\ (a # "command" => ctl'[a].at # "pass")
  BY <1>3, <1>4, <1>5, RestTyped, NothingSeen DEF Fits
<1>7. ctl' \in [Actors -> Controls]
  BY <1>3, <1>6
<1>8. Carried'
  BY <1>1, <1>6, <1>7 DEF Carried, disk, tables
<1>9. Held'
  BY <1>1, <1>6, NoneStandsApart DEF Held, Passing, Stands
<1>. QED
  BY <1>2, <1>8, <1>9 DEF WatcherTyped

LEMMA WatcherStartsTyped ==
  ASSUME WatcherAssumption, WatcherInit
  PROVE  WatcherTyped
<1>0. MaxChanges \in Nat /\ MaxChanges > 0 /\ Cap \in Nat /\ Len(<<>>) = 0
  BY DEF WatcherAssumption
<1>1. DiskTyped /\ TablesTyped /\ CourseTyped
  BY <1>0 DEF WatcherInit, DiskTyped, TablesTyped, CourseTyped, Booting
<1>2. MapsTyped /\ QueueTyped /\ SignalsTyped
  BY <1>0 DEF WatcherInit, MapsTyped, QueueTyped, SignalsTyped, Booting
<1>. DEFINE o == [Idle EXCEPT !.at = "off"]
<1>3. ctl = [a \in Actors |-> IF a = "forward" THEN o ELSE Idle] /\ mutex = None
  BY DEF WatcherInit, Booting
<1>4. o \in Controls /\ o.at = "off" /\ o.seen = <<>>
  BY OffTyped
<1>. HIDE DEF o
<1>5. ASSUME NEW a \in Actors
      PROVE  ctl[a] \in Controls /\ Fits(a, ctl[a], born, version) /\ ctl[a].at # "pass"
  BY <1>3, <1>4, RestTyped, NothingSeen DEF Fits
<1>6. ctl \in [Actors -> Controls]
  BY <1>3, <1>5
<1>7. Carried /\ Held
  BY <1>3, <1>5, <1>6, NoneStandsApart DEF Carried, Held, Passing, Stands
<1>. QED
  BY <1>1, <1>2, <1>7 DEF WatcherTyped

LEMMA WatcherStepTyped ==
  ASSUME WatcherAssumption, WatcherTyped, [WatcherNext]_watcherVars
  PROVE  WatcherTyped'
<1>1. CASE UNCHANGED watcherVars
  BY <1>1 DEF watcherVars, disk, tables, maps, signals, course, WatcherTyped, DiskTyped, QueueTyped,
              TablesTyped, MapsTyped, SignalsTyped, CourseTyped, Carried, Held, Passing, Stands
<1>2. CASE Loop
  BY <1>2, LoopStepTyped, WalkStepTyped, PassStepTyped, NoneStandsApart DEF Loop
<1>3. CASE ForwardEvents
  BY <1>3, ForwardStepTyped, WalkStepTyped, NoneStandsApart DEF ForwardEvents
<1>4. ASSUME NEW h \in Handlers \cup {"command"}, Serves(h) PROVE WatcherTyped'
  BY <1>4, ServeStepTyped, WalkStepTyped, PassStepTyped, NoneStandsApart DEF Serves
<1>. QED
  BY <1>1, <1>2, <1>3, <1>4, DiskStepTyped, AskedStepTyped, RestartTyped DEF WatcherNext

(* The state of the watcher is well formed in every reachable state.       *)
THEOREM WatcherTypes == ASSUME WatcherAssumption PROVE WatcherSpec => [](WatcherTyped /\ WatcherTypeOK)
<1>1. WatcherInit => WatcherTyped
  BY WatcherStartsTyped
<1>2. WatcherTyped /\ [WatcherNext]_watcherVars => WatcherTyped'
  BY WatcherStepTyped
<1>3. WatcherTyped => WatcherTypeOK
  BY TypedGivesTypeOK
<1>. QED
  BY <1>1, <1>2, <1>3, PTL DEF WatcherSpec

(* Nothing of a removed folder comes back.                                 *)
LEMMA TablesStand ==
  ASSUME WatcherNext
  PROVE  \/ UNCHANGED <<folders, shown>>
         \/ \E a \in Actors : Commit(a) /\ UNCHANGED folders
         \/ \E h \in Handlers, f \in FolderIds : CreateFolder(h, f) \/ DeleteFolderRow(h, f)
<1>1. CASE Disk \/ Restart \/ ForwardEvents
  BY <1>1 DEF Disk, Restart, ForwardEvents, WatchTree, tables
<1>2. ASSUME NEW a \in Actors, Reconcile(a)
      PROVE  UNCHANGED <<folders, shown>> \/ (Commit(a) /\ UNCHANGED folders)
  BY <1>2 DEF Reconcile, Lock, Read, Fail, RootGone, Commit, PassEnds, tables
<1>3. ASSUME NEW a, WatchTree(a) PROVE UNCHANGED <<folders, shown>>
  BY <1>3 DEF WatchTree, tables
<1>4. CASE Loop
  BY <1>2, <1>3, <1>4 DEF Loop, Actors, tables
<1>5. ASSUME NEW h \in Handlers \cup {"command"}, Serves(h)
      PROVE  UNCHANGED <<folders, shown>> \/ (Commit(h) /\ UNCHANGED folders)
  BY <1>2, <1>3, <1>5 DEF Serves, AddFolder, RemoveFolder, Unwatch, tables, Actors
<1>6. ASSUME NEW h \in Handlers \cup {"command"}, Asked(h)
      PROVE  \/ UNCHANGED <<folders, shown>>
             \/ h \in Handlers /\ \E f \in FolderIds : CreateFolder(h, f) \/ DeleteFolderRow(h, f)
  BY <1>6 DEF Asked, ScanFolder, tables
<1>. QED
  BY <1>1, <1>4, <1>5, <1>6 DEF WatcherNext, Actors

LEMMA RemovedStaysEmptyStep ==
  ASSUME WatcherTyped, RemovedStaysEmpty, [WatcherNext]_watcherVars
  PROVE  RemovedStaysEmpty'
<1>. DEFINE zero == [d \in Dirs |-> 0]
<1>1. \A f \in FolderIds \ folders : shown[f] = zero
  BY DEF RemovedStaysEmpty
<1>2. shown \in [FolderIds -> [Dirs -> 0 .. MaxChanges]]
  BY DEF WatcherTyped, TablesTyped
<1>3. SUFFICES \A f \in FolderIds \ folders' : shown'[f] = zero
  BY DEF RemovedStaysEmpty
<1>. HIDE DEF zero
<1>4. CASE UNCHANGED <<folders, shown>>
  BY <1>1, <1>4
<1>5. ASSUME NEW a \in Actors, Commit(a), UNCHANGED folders
      PROVE  \A f \in FolderIds \ folders' : shown'[f] = zero
  <2>1. shown' = shown \/ \E g : ctl[a].folder \in folders /\ shown' = [shown EXCEPT ![ctl[a].folder] = g]
    BY <1>5 DEF Commit
  <2>. QED
    BY <1>1, <1>2, <1>5, <2>1
<1>6. ASSUME NEW h \in Handlers, NEW f \in FolderIds, CreateFolder(h, f) \/ DeleteFolderRow(h, f)
      PROVE  \A g \in FolderIds \ folders' : shown'[g] = zero
  <2>1. CASE CreateFolder(h, f)
    BY <1>1, <2>1 DEF CreateFolder
  <2>2. CASE DeleteFolderRow(h, f)
    <3>1. folders' = folders \ {f} /\ shown' = [shown EXCEPT ![f] = zero]
      BY <2>2 DEF DeleteFolderRow, zero
    <3>. QED
      BY <1>1, <1>2, <3>1
  <2>. QED
    BY <1>6, <2>1, <2>2
<1>7. CASE UNCHANGED watcherVars
  BY <1>4, <1>7 DEF watcherVars, tables
<1>. QED
  BY <1>4, <1>5, <1>6, <1>7, TablesStand

(* Nothing of a removed folder comes back into the catalog, whatever pass  *)
(* was reading it when its row was deleted (adminfolders.go:283-293).      *)
THEOREM RemovedStays == ASSUME WatcherAssumption PROVE WatcherSpec => []RemovedStaysEmpty
<1>1. WatcherInit => WatcherTyped /\ RemovedStaysEmpty
  BY WatcherStartsTyped DEF WatcherInit, RemovedStaysEmpty
<1>2. WatcherTyped /\ RemovedStaysEmpty /\ [WatcherNext]_watcherVars => WatcherTyped' /\ RemovedStaysEmpty'
  BY WatcherStepTyped, RemovedStaysEmptyStep
<1>. QED
  BY <1>1, <1>2, PTL DEF WatcherSpec

-----------------------------------------------------------------------------
(* Nothing is lost while the server has one folder, which is at most       *)
(* scanned on request.                                                     *)

Walkers == {"loop", "forward"}
Known(d) == watchedDirs[d] # None
Alone(f) == happens \subseteq {"scan"} /\ born = {f}

(* x is d, or a directory over it within the folder.                       *)
Over(x, f, d) ==
  \/ x = d
  \/ d # Root[f] /\ x = Parent[d]
  \/ d # Root[f] /\ Parent[d] # Root[f] /\ x = Parent[Parent[d]]

(* A walk has d, or a directory over it, still before it.                  *)
Ahead(c, x, d) == x \in c.visit \/ x = c.noting \/ (x \in c.list /\ x # d)
Comes(a, f, d) == Walks(a) /\ \E x \in Dirs : Over(x, f, d) /\ Ahead(ctl[a], x, d)

(* The kernel said that d, or a directory over it, was made.               *)
Announced(f, d) ==
  \E i \in 1 .. Len(queue) : /\ queue[i].kind = "create" /\ Over(queue[i].dir, f, d)
                             /\ OwnerOf(queue[i]) = f

Calm ==
  /\ \A h \in Handlers : ctl[h].at \in {"idle", "wait", "pass"}
  /\ Stands("command", "idle")
  /\ \A d \in exists : Parent[d] \in exists /\ version[d] > 0
  /\ \A d \in Dirs : Known(d) => version[d] > 0 /\ (d \in exists => d \in kernel)

WalksWell(a, f) ==
  Walks(a) =>
    /\ f \in watched
    /\ a = "loop" => ctl[a].passes > 0
    /\ a = "forward" => Known(Root[f])
    /\ ctl[a].at = "walk" => ctl[a].noting = None
    /\ ctl[a].at = "note" => /\ version[ctl[a].noting] > 0
                             /\ ctl[a].noting \in exists => ctl[a].noting \in kernel
    /\ Known(Root[f]) \/ (ctl[a].noting \in {None, Root[f]} /\ ctl[a].visit \subseteq {Root[f]})
    /\ \A d \in ctl[a].list : Known(d)
    /\ ctl[a].covered => Known(Root[f])

Rooted(f) == \A d \in Dirs : Known(d) => f \in watched /\ Known(Root[f])

(* A folder none of whose directories is watched is being walked, or is    *)
(* said to be on the periodic pass.                                        *)
RootKnown(f) == f \in watched \ warned => Known(Root[f]) \/ Walks("loop")

RootComes(f) == Known(Root[f]) \/ \E a \in Walkers : Walks(a) /\ ctl[a].noting = Root[f]
AllKnown(f) ==
  f \in watched /\ RootComes(f) => \A d \in exists \cap Tree(f) :
    Known(d) \/ Announced(f, d) \/ \E a \in Walkers : Comes(a, f, d)

Boots(f) == Stands("forward", "off") => f \notin watched \cap round

Watches(f) ==
  /\ Calm /\ (\A a \in Walkers : WalksWell(a, f))
  /\ Rooted(f) /\ RootKnown(f) /\ AllKnown(f) /\ Boots(f)

(* A pass is on its way, or is of no use.                                  *)
Excused(f) == f \in warned \/ Root[f] \notin exists \/ Underway(f)

(* A pass has all of the folder behind it or before it, and what it has    *)
(* before it is there.                                                     *)
Sweeps(a, f) ==
  /\ Tree(f) \subseteq DOMAIN ctl[a].seen \cup ToRead(a)
  /\ \A e \in Tree(f) : e \in ctl[a].visit => e \in exists

(* The catalog shows the folder as it is, or the pass that runs will.      *)
Sees(a, d) == d \in DOMAIN ctl[a].seen => ctl[a].seen[d] = version[d]
Current(f) ==
  \/ \E a \in Actors : Passing(a) /\ Sweeps(a, f) /\ \A d \in Tree(f) : Sees(a, d)
  \/ (\A a \in Actors : ~Passing(a)) /\ \A d \in Tree(f) : shown[f][d] = version[d]
Reflects(f) == Excused(f) \/ Current(f)

Keeps(f) == Alone(f) => Watches(f) /\ (failures = 0 /\ f \in watched \cap folders => Reflects(f))

LEMMA AloneOwns ==
  ASSUME WatcherAssumption, WatcherTyped, NEW f \in FolderIds, Alone(f)
  PROVE  /\ f # None /\ Root[f] \in Dirs
         /\ \A d \in Dirs : watchedDirs[d] \in {f, None} /\ (Known(d) <=> watchedDirs[d] = f)
         /\ \A a \in Actors : ctl[a].at \notin {"idle", "off", "unwatch"} => ctl[a].folder = f
         /\ events \in Seq({f}) /\ pending \subseteq {f} /\ round \subseteq {f} /\ watched \subseteq {f}
         /\ folders \subseteq {f} /\ due \subseteq {f}
<1>1. born = {f}
  BY DEF Alone
<1>2. \A a \in Actors : ctl[a].at \notin {"idle", "off", "unwatch"} => ctl[a].folder = f
  BY <1>1, CellOf
<1>3. f # None /\ Root[f] \in Dirs
  BY DEF WatcherAssumption
<1>4. \A d \in Dirs : watchedDirs[d] \in {f, None}
  BY <1>1 DEF WatcherTyped, MapsTyped
<1>. QED
  BY <1>1, <1>2, <1>3, <1>4 DEF WatcherTyped, MapsTyped, TablesTyped, SignalsTyped, Known

LEMMA OverRoot ==
  ASSUME NEW f \in FolderIds, NEW d \in Tree(f)
  PROVE  Over(Root[f], f, d)
  BY DEF Over, Tree, Under

LEMMA OverChild ==
  ASSUME WatcherAssumption, NEW f \in FolderIds, NEW d \in Tree(f), NEW x, Over(x, f, d), x # d
  PROVE  \E y \in Below(x) : Over(y, f, d)
<1>1. d \in Dirs /\ Parent[d] \in Dirs /\ d # Root[f]
  BY DEF Over, Tree, Under, WatcherAssumption
<1>2. CASE x = Parent[d]
  BY <1>1, <1>2 DEF Over, Below
<1>3. CASE Parent[d] # Root[f] /\ x = Parent[Parent[d]]
  <2>1. x = Root[f] /\ Parent[d] # x
    BY <1>1, <1>3 DEF Tree, Under
  <2>. QED
    BY <1>1, <1>3, <2>1 DEF Over, Below
<1>. QED
  BY <1>1, <1>2, <1>3 DEF Over

LEMMA OverExists ==
  ASSUME Calm, NEW f, NEW d \in exists, NEW x, Over(x, f, d)
  PROVE  x \in exists
  BY DEF Over, Calm

LEMMA OverParent ==
  ASSUME WatcherAssumption, NEW f \in FolderIds, NEW d \in Tree(f), d # Root[f]
  PROVE  /\ Parent[d] \in Tree(f) /\ Parent[d] # d
         /\ \A x : Over(x, f, Parent[d]) => Over(x, f, d)
<1>1. d \in Dirs /\ Parent[d] \in Dirs /\ Root[f] \in {Parent[d], Parent[Parent[d]]}
  BY DEF Tree, Under, WatcherAssumption
<1>2. Parent[d] # d
  BY <1>1
<1>. QED
  BY <1>1, <1>2 DEF Tree, Under, Over

LEMMA EventsAre ==
  ASSUME WatcherTyped
  PROVE  /\ queue \in Seq([dir : Dirs, kind : {"file", "create", "remove"}])
         /\ \A i \in 1 .. Len(queue) : queue[i].dir \in Dirs /\ queue[i].kind \in {"file", "create", "remove"}
         /\ Len(queue) \in Nat
<1>. DEFINE E == [dir : Dirs, kind : {"file", "create", "remove"}]
<1>1. queue \in Seq(E)
  BY DEF WatcherTyped, QueueTyped
<1>. HIDE DEF E
<1>2. \A i \in 1 .. Len(queue) : queue[i] \in E
  BY <1>1
<1>3. Len(queue) \in Nat
  BY <1>1
<1>. QED
  BY <1>1, <1>2, <1>3 DEF E

(* What the kernel queues stays queued, and an event it has for somebody   *)
(* who watches is there.                                                   *)
LEMMA TellQueues ==
  ASSUME WatcherTyped, NEW kind \in {"file", "create", "remove"}, NEW d \in Dirs, NEW W, Tell(kind, d, W),
         UNCHANGED watchedDirs
  PROVE  /\ Len(queue) <= Len(queue') /\ \A i \in 1 .. Len(queue) : queue'[i] = queue[i]
         /\ kernel \cap W # {} =>
              \E i \in 1 .. Len(queue') : queue'[i] = [dir |-> d, kind |-> kind]
         /\ Len(queue) \in Nat /\ Len(queue') \in Nat
<1>. DEFINE E == [dir : Dirs, kind : {"file", "create", "remove"}]
            e == [dir |-> d, kind |-> kind]
<1>1. queue \in Seq(E) /\ e \in E
  BY EventsAre
<1>2. queue' = IF kernel \cap W = {} THEN queue ELSE Append1(queue, e)
  BY DEF Tell
<1>. HIDE DEF E, e
<1>3. CASE kernel \cap W = {} \/ (queue # <<>> /\ queue[Len(queue)] = e)
  <2>1. queue' = queue
    BY <1>2, <1>3 DEF Append1
  <2>2. kernel \cap W # {} => Len(queue) \in 1 .. Len(queue) /\ queue[Len(queue)] = e
    BY <1>1, <1>3
  <2>. QED
    BY <1>1, <2>1, <2>2 DEF e
<1>4. CASE kernel \cap W # {} /\ ~(queue # <<>> /\ queue[Len(queue)] = e)
  <2>1. queue' = Append(queue, e)
    BY <1>2, <1>4 DEF Append1
  <2>2. Len(queue') = Len(queue) + 1 /\ queue'[Len(queue) + 1] = e
        /\ \A i \in 1 .. Len(queue) : queue'[i] = queue[i]
    BY <1>1, <2>1
  <2>3. Len(queue) \in Nat
    BY <1>1
  <2>. QED
    BY <2>2, <2>3 DEF e
<1>. QED
  BY <1>3, <1>4

LEMMA QueueStands ==
  ASSUME NEW f, NEW d, UNCHANGED watchedDirs, Len(queue) \in Nat, Len(queue') \in Nat,
         Len(queue) <= Len(queue'), \A i \in 1 .. Len(queue) : queue'[i] = queue[i]
  PROVE  /\ Announced(f, d) => Announced(f, d)'
         /\ (\E i \in 1 .. Len(queue) : OwnerOf(queue[i]) = f)
              => (\E i \in 1 .. Len(queue) : OwnerOf(queue[i]) = f)'
  BY DEF Announced, OwnerOf

(* Where no watch, walk or directory changes, what is watched stays so.    *)
LEMMA WatchesStay ==
  ASSUME NEW f \in FolderIds, Watches(f), UNCHANGED <<disk, kernel, maps>>,
         \A a \in Walkers : ctl'[a] = ctl[a] \/ (~Walks(a) /\ ~Walks(a)'),
         \A h \in Handlers : ctl'[h].at \in {"idle", "wait", "pass"},
         ctl'["command"] = ctl["command"],
         Boots(f)',
         \A d \in exists \cap Tree(f) : Announced(f, d) => Announced(f, d)' \/ Known(d)
  PROVE  Watches(f)'
<1>0. UNCHANGED <<exists, version, kernel, watched, watchedDirs, warned>>
  BY DEF disk, maps
<1>1. Calm'
  BY <1>0 DEF Watches, Calm, Known, Stands
<1>2. ASSUME NEW a \in Walkers PROVE WalksWell(a, f)'
  BY <1>0 DEF Watches, WalksWell, Walks, Known
<1>3. Rooted(f)'
  BY <1>0 DEF Watches, Rooted, Known
<1>4. \A a \in Walkers : Walks(a) => ctl'[a] = ctl[a] /\ Walks(a)'
  BY DEF Walks
<1>5. RootKnown(f)'
  BY <1>0, <1>4 DEF Watches, RootKnown, Known, Walkers
<1>6. AllKnown(f)'
  <2>1. RootComes(f)' => RootComes(f)
    BY <1>0 DEF RootComes, Known, Walks
  <2>2. ASSUME NEW a \in Walkers, NEW d, Comes(a, f, d) PROVE Comes(a, f, d)'
    BY <1>4, <2>2 DEF Comes, Ahead, Walks
  <2>. SUFFICES ASSUME f \in watched', RootComes(f)', NEW d \in exists' \cap Tree(f)
                PROVE  Known(d)' \/ Announced(f, d)' \/ \E a \in Walkers : Comes(a, f, d)'
    BY DEF AllKnown, Walkers
  <2>3. Known(d) \/ Announced(f, d) \/ \E a \in Walkers : Comes(a, f, d)
    BY <1>0, <2>1 DEF Watches, AllKnown
  <2>. QED
    BY <1>0, <2>2, <2>3 DEF Known
<1>. QED
  BY <1>1, <1>2, <1>3, <1>5, <1>6 DEF Watches, Walkers

LEMMA DiskGoes ==
  ASSUME WatcherAssumption, WatcherTyped, Calm, Disk
  PROVE  \E d \in Dirs :
    /\ UNCHANGED <<ctl, watched, watchedDirs, warned>>
    /\ version' \in [Dirs -> Nat] /\ version'[d] > 0 /\ \A e \in Dirs \ {d} : version'[e] = version[e]
    /\ \A e \in Dirs : version[e] > 0 => version'[e] > 0
    /\ \/ exists' = exists /\ kernel' = kernel /\ d \in exists /\ Tell("file", d, {d})
       \/ /\ d \notin exists /\ exists' = exists \cup {d} /\ kernel' = kernel
          /\ Parent[d] \in exists \cup {d}
          /\ "recreate" \notin happens => version[d] = 0
          /\ Tell("create", d, {Parent[d]} \ {d})
       \/ /\ d \in exists /\ exists' = exists \ {d} /\ kernel' = kernel \ {d}
          /\ \A e \in exists' : Parent[e] # d
          /\ Tell("remove", d, {d, Parent[d]})
<1>1. PICK d \in Dirs : Change(d) \/ MakeDir(d) \/ RemoveDir(d)
  BY DEF Disk
<1>2. UNCHANGED <<ctl, watched, watchedDirs, warned>>
  BY DEF Disk, maps
<1>3. version' = [version EXCEPT ![d] = @ + 1] /\ version \in [Dirs -> 0 .. MaxChanges] /\ MaxChanges \in Nat
  BY <1>1 DEF Change, MakeDir, RemoveDir, WatcherTyped, DiskTyped, WatcherAssumption
<1>4. /\ version' \in [Dirs -> Nat] /\ version'[d] > 0 /\ \A e \in Dirs \ {d} : version'[e] = version[e]
      /\ \A e \in Dirs : version[e] > 0 => version'[e] > 0
  BY <1>3
<1>5. CASE Change(d)
  BY <1>2, <1>4, <1>5 DEF Change
<1>6. CASE MakeDir(d)
  BY <1>2, <1>4, <1>6 DEF MakeDir
<1>7. CASE RemoveDir(d)
  <2>1. \A e \in exists' : Parent[e] # d
    BY <1>7 DEF RemoveDir, Below, WatcherTyped, DiskTyped
  <2>. QED
    BY <1>2, <1>4, <1>7, <2>1 DEF RemoveDir
<1>. QED
  BY <1>1, <1>5, <1>6, <1>7

LEMMA DiskWatches ==
  ASSUME WatcherAssumption, WatcherTyped, NEW f \in FolderIds, Alone(f), Watches(f), Disk
  PROVE  Watches(f)'
<1>0. Calm /\ Rooted(f) /\ AllKnown(f) /\ exists \subseteq Dirs
  BY DEF Watches, WatcherTyped, DiskTyped
<1>1. PICK d \in Dirs :
    /\ UNCHANGED <<ctl, watched, watchedDirs, warned>>
    /\ version' \in [Dirs -> Nat] /\ version'[d] > 0 /\ \A e \in Dirs \ {d} : version'[e] = version[e]
    /\ \A e \in Dirs : version[e] > 0 => version'[e] > 0
    /\ \/ exists' = exists /\ kernel' = kernel /\ d \in exists /\ Tell("file", d, {d})
       \/ /\ d \notin exists /\ exists' = exists \cup {d} /\ kernel' = kernel
          /\ Parent[d] \in exists \cup {d}
          /\ "recreate" \notin happens => version[d] = 0
          /\ Tell("create", d, {Parent[d]} \ {d})
       \/ /\ d \in exists /\ exists' = exists \ {d} /\ kernel' = kernel \ {d}
          /\ \A e \in exists' : Parent[e] # d
          /\ Tell("remove", d, {d, Parent[d]})
  BY <1>0, DiskGoes
<1>. DEFINE Making == d \notin exists /\ exists' = exists \cup {d} /\ kernel' = kernel
                      /\ Parent[d] \in exists \cup {d} /\ version[d] = 0
                      /\ Tell("create", d, {Parent[d]} \ {d})
<1>2. "recreate" \notin happens
  BY DEF Alone
<1>3. Making \/ (exists' = exists /\ kernel' = kernel)
      \/ (exists' = exists \ {d} /\ kernel' = kernel \ {d} /\ \A e \in exists' : Parent[e] # d)
  BY <1>1, <1>2
<1>4. PICK kind \in {"file", "create", "remove"} : \E W : Tell(kind, d, W)
  BY <1>1
<1>5. /\ Len(queue) <= Len(queue') /\ \A i \in 1 .. Len(queue) : queue'[i] = queue[i]
      /\ Len(queue) \in Nat /\ Len(queue') \in Nat
  BY <1>1, <1>4, TellQueues
<1>6. ASSUME NEW e, Announced(f, e) PROVE Announced(f, e)'
  BY <1>1, <1>5, <1>6, QueueStands
<1>7. \A e \in Dirs : version[e] > 0 => (e \in exists' => e \in exists)
  BY <1>0, <1>3
<1>8. \A e \in exists' : e \in exists /\ e \in kernel => e \in kernel'
  BY <1>3
<1>9. Calm'
  <2>1. ASSUME NEW e \in exists' PROVE Parent[e] \in exists' /\ version'[e] > 0
    <3>1. CASE e \in exists
      BY <1>0, <1>1, <1>3, <2>1, <3>1 DEF Calm
    <3>2. CASE e \notin exists
      BY <1>1, <1>3, <2>1, <3>2
    <3>. QED
      BY <3>1, <3>2
  <2>2. ASSUME NEW e \in Dirs, Known(e) PROVE version'[e] > 0 /\ (e \in exists' => e \in kernel')
    BY <1>0, <1>1, <1>7, <1>8, <2>2 DEF Calm
  <2>. QED
    BY <1>0, <1>1, <2>1, <2>2 DEF Calm, Known, Stands
<1>10. ASSUME NEW a \in Walkers PROVE WalksWell(a, f)'
  <2>1. a \in Actors
    BY DEF Walkers, Actors
  <2>2. ctl[a].at = "note" => ctl[a].noting \in Dirs
    BY <2>1, CellOf DEF Fits
  <2>. QED
    BY <1>1, <1>7, <1>8, <2>2 DEF Watches, WalksWell, Walks, Known
<1>11. Rooted(f)' /\ RootKnown(f)' /\ Boots(f)'
  <2>1. round' = round
    BY DEF Disk, signals
  <2>. QED
    BY <1>1, <2>1 DEF Watches, Rooted, RootKnown, Boots, Known, Walks, Stands
<1>12. AllKnown(f)'
  <2>1. RootComes(f)' => RootComes(f)
    BY <1>1 DEF RootComes, Known, Walks
  <2>2. ASSUME NEW a \in Walkers, NEW e, Comes(a, f, e) PROVE Comes(a, f, e)'
    BY <1>1, <2>2 DEF Comes, Ahead, Walks
  <2>. SUFFICES ASSUME f \in watched, RootComes(f), NEW e \in exists' \cap Tree(f)
                PROVE  Known(e)' \/ Announced(f, e)' \/ \E a \in Walkers : Comes(a, f, e)'
    BY <1>1, <2>1 DEF AllKnown, Walkers
  <2>3. CASE e \in exists
    BY <1>0, <1>1, <1>6, <2>2, <2>3 DEF AllKnown, Known
  <2>4. CASE e \notin exists
    <3>1. Making /\ e = d
      BY <1>3, <2>4
    <3>2. e # Root[f]
      <4>1. ~Known(e)
        BY <1>0, <3>1 DEF Calm
      <4>2. ASSUME NEW a \in Walkers, Walks(a), ctl[a].noting = e PROVE FALSE
        <5>1. ctl[a].at = "note"
          <6>1. e \in Dirs /\ e # None
            BY <3>1 DEF WatcherAssumption
          <6>. QED
            BY <4>2, <6>1 DEF Watches, WalksWell, Walks
        <5>. QED
          BY <3>1, <4>2, <5>1 DEF Watches, WalksWell
      <4>. QED
        BY <4>1, <4>2 DEF RootComes
    <3>3. /\ Parent[e] \in Tree(f) /\ Parent[e] # e /\ Parent[e] \in exists
          /\ \A x : Over(x, f, Parent[e]) => Over(x, f, e)
      BY <3>1, <3>2, OverParent
    <3>4. Known(Parent[e]) \/ Announced(f, Parent[e]) \/ \E a \in Walkers : Comes(a, f, Parent[e])
      BY <1>0, <3>3 DEF AllKnown
    <3>5. CASE Known(Parent[e])
      <4>1. Parent[e] \in kernel \cap ({Parent[d]} \ {d})
        BY <1>0, <3>1, <3>3, <3>5 DEF Calm
      <4>2. PICK i \in 1 .. Len(queue') : queue'[i] = [dir |-> d, kind |-> "create"]
        BY <1>1, <3>1, <4>1, TellQueues
      <4>3. ~Known(d) /\ watchedDirs[Parent[d]] = f
        <5>1. ~Known(d)
          BY <1>0, <3>1 DEF Calm
        <5>2. Parent[d] \in Dirs /\ Known(Parent[d])
          BY <1>0, <3>1, <3>3, <3>5
        <5>. HIDE DEF Making
        <5>3. watchedDirs[Parent[d]] = f
          BY <5>2, AloneOwns
        <5>. QED
          BY <5>1, <5>3
      <4>4. queue'[i].kind = "create" /\ queue'[i].dir = d
        BY <4>2
      <4>5. Announced(f, e)'
        BY <1>1, <3>1, <4>3, <4>4 DEF Announced, OwnerOf, Known, Over
      <4>. QED
        BY <4>5
    <3>6. CASE Announced(f, Parent[e])
      BY <1>6, <3>3, <3>6 DEF Announced
    <3>7. ASSUME NEW a \in Walkers, Comes(a, f, Parent[e]) PROVE Comes(a, f, e)'
      <4>1. PICK x \in Dirs : Over(x, f, Parent[e]) /\ Ahead(ctl[a], x, Parent[e])
        BY <3>7 DEF Comes
      <4>2. x \in ctl[a].list => x # e
        BY <1>0, <3>1, <3>7 DEF Watches, WalksWell, Comes, Calm
      <4>3. Ahead(ctl[a], x, e) /\ Over(x, f, e)
        BY <3>3, <4>1, <4>2 DEF Ahead
      <4>. QED
        BY <1>1, <3>7, <4>3 DEF Comes, Walks
    <3>. QED
      BY <3>4, <3>5, <3>6, <3>7
  <2>. QED
    BY <2>3, <2>4
<1>. QED
  BY <1>9, <1>10, <1>11, <1>12 DEF Watches, Walkers

(* A step of a walk.                                                       *)
LEMMA WalkCell ==
  ASSUME WatcherAssumption, WatcherTyped, NEW f \in FolderIds, Alone(f), NEW a \in Walkers, Walks(a)
  PROVE  /\ a \in Actors /\ ctl[a].folder = f /\ ctl[a] \in Controls
         /\ ctl[a].visit \subseteq Dirs /\ ctl[a].list \subseteq Dirs /\ ctl[a].noting \in Dirs \cup {None}
         /\ ctl[a].at = "note" => ctl[a].noting \in Dirs
<1>1. a \in Actors
  BY DEF Walkers, Actors
<1>2. ctl[a].folder = f
  BY <1>1, AloneOwns DEF Walks
<1>3. ctl[a] \in Controls /\ (ctl[a].at = "note" => ctl[a].noting \in Dirs)
  BY <1>1, CellOf DEF Fits
<1>. QED
  BY <1>1, <1>2, <1>3, ControlsAre

LEMMA OthersStand ==
  ASSUME WatcherAssumption, WatcherTyped, NEW f \in FolderIds, Alone(f), Watches(f), NEW a \in Walkers,
         WatchTree(a), \A b \in Actors \ {a} : ctl'[b] = ctl[b], ctl'[a].at # "off",
         kernel \subseteq kernel', \A d \in Dirs : Known(d) => Known(d)',
         \A d \in Dirs : Known(d)' => Known(d) \/ (version[d] > 0 /\ (d \in exists => d \in kernel))
  PROVE  /\ Calm' /\ Boots(f)' /\ UNCHANGED <<exists, version, watched, queue>>
         /\ \A b \in Walkers \ {a} : WalksWell(b, f)' /\ (Walks(b)' <=> Walks(b))
         /\ \A b \in Walkers \ {a}, d \in Dirs : Comes(b, f, d) => Comes(b, f, d)'
<1>0. UNCHANGED <<exists, version, watched, queue, round>>
  BY DEF WatchTree, disk, signals
<1>1. a \notin Handlers /\ a # "command" /\ a \in Actors /\ Handlers \subseteq Actors
      /\ "command" \in Actors /\ "forward" \in Actors
  BY DEF Walkers, WatcherAssumption, Actors
<1>2. Calm'
  BY <1>0, <1>1 DEF Watches, Calm, Stands
<1>3. Boots(f)'
  BY <1>0, <1>1 DEF Watches, Boots, Stands
<1>4. ASSUME NEW b \in Walkers \ {a} PROVE ctl'[b] = ctl[b] /\ (Walks(b)' <=> Walks(b))
  BY DEF Walkers, Actors, Walks
<1>5. ASSUME NEW b \in Walkers \ {a} PROVE WalksWell(b, f)'
  <2>1. Walks(b) => /\ ctl[b].list \subseteq Dirs
                    /\ ctl[b].at = "note" => ctl[b].noting \in Dirs
    BY WalkCell
  <2>2. Root[f] \in Dirs
    BY AloneOwns
  <2>. QED
    BY <1>0, <1>4, <2>1, <2>2 DEF Watches, WalksWell, Walks
<1>6. ASSUME NEW b \in Walkers \ {a}, NEW d, Comes(b, f, d) PROVE Comes(b, f, d)'
  BY <1>4, <1>6 DEF Comes, Ahead
<1>. QED
  BY <1>0, <1>2, <1>3, <1>4, <1>5, <1>6

LEMMA VisitWatches ==
  ASSUME WatcherAssumption, WatcherTyped, NEW f \in FolderIds, Alone(f), Watches(f),
         NEW a \in Walkers, NEW d \in Dirs, Visit(a, d), WatchTree(a)
  PROVE  Watches(f)'
<1>. DEFINE c == ctl[a]
            n == ctl'[a]
<1>1. Walks(a) /\ c.at = "walk" /\ c.noting = None
  BY DEF Visit, Stands, Walks, Watches, WalksWell
<1>2. /\ a \in Actors /\ c.folder = f /\ c \in Controls
      /\ c.visit \subseteq Dirs /\ c.list \subseteq Dirs
  BY <1>1, WalkCell
<1>3. /\ d \in c.visit /\ \A b \in Actors \ {a} : ctl'[b] = ctl[b]
      /\ n.visit = c.visit \ {d} /\ n.passes = c.passes
      /\ \/ /\ d \notin exists /\ n.at = "walk" /\ n.list = c.list /\ n.noting = c.noting
            /\ n.covered <=> c.covered
            /\ kernel' = kernel
         \/ /\ d \in exists /\ watchedDirs[d] # None /\ n.at = "walk" /\ n.list = c.list \cup {d}
            /\ n.noting = c.noting
            /\ n.covered <=> (c.covered \/ watchedDirs[d] = c.folder)
            /\ kernel' = kernel
         \/ /\ d \in exists /\ watchedDirs[d] = None /\ n.at = "note" /\ n.list = c.list /\ n.noting = d
            /\ n.covered <=> c.covered
            /\ kernel' = kernel \cup {d}
  <2>1. ctl \in [Actors -> Controls]
    BY <1>2, CellOf
  <2>. QED
    BY <1>2, <2>1, VisitGoes
<1>4. UNCHANGED <<watchedDirs, warned>>
  BY DEF Visit
<1>5. /\ Calm /\ WalksWell(a, f) /\ Rooted(f) /\ RootKnown(f) /\ AllKnown(f)
  BY DEF Watches
<1>6. /\ Calm' /\ Boots(f)' /\ UNCHANGED <<exists, version, watched, queue>>
      /\ \A b \in Walkers \ {a} : WalksWell(b, f)' /\ (Walks(b)' <=> Walks(b))
      /\ \A b \in Walkers \ {a}, e \in Dirs : Comes(b, f, e) => Comes(b, f, e)'
  <2>1. n.at # "off" /\ kernel \subseteq kernel'
    BY <1>3
  <2>2. \A e \in Dirs : Known(e)' <=> Known(e)
    BY <1>4 DEF Known
  <2>. QED
    BY <1>2, <1>3, <2>1, <2>2, OthersStand
<1>7. Walks(a)'
  BY <1>3 DEF Walks
<1>8. \A e : Known(e)' <=> Known(e)
  BY <1>4 DEF Known
<1>9. WalksWell(a, f)'
  <2>1. d \in exists => version[d] > 0
    BY <1>5 DEF Calm
  <2>2. Known(d) => Known(Root[f])
    BY <1>5 DEF Rooted
  <2>3. d = Root[f] \/ Known(Root[f])
    BY <1>1, <1>3, <1>5 DEF WalksWell
  <2>4. watchedDirs[d] = c.folder => Known(d)
    BY <1>2, AloneOwns
  <2>. QED
    BY <1>1, <1>3, <1>5, <1>6, <1>8, <2>1, <2>2, <2>3, <2>4 DEF WalksWell, Known
<1>10. Rooted(f)' /\ RootKnown(f)'
  <2>1. Walks("loop") => Walks("loop")'
    BY <1>6, <1>7 DEF Walkers
  <2>. QED
    BY <1>4, <1>5, <1>6, <1>8, <2>1 DEF Rooted, RootKnown
<1>11. AllKnown(f)'
  <2>. SUFFICES ASSUME f \in watched, RootComes(f)', NEW e \in exists \cap Tree(f)
                PROVE  Known(e)' \/ Announced(f, e)' \/ \E b \in Walkers : Comes(b, f, e)'
    BY <1>6 DEF AllKnown, Walkers
  <2>0. e \in Dirs /\ f \in FolderIds
    BY DEF WatcherTyped, DiskTyped
  <2>1. CASE RootComes(f)
    <3>1. Announced(f, e) => Announced(f, e)'
      BY <1>4, <1>6 DEF Announced, OwnerOf
    <3>2. ASSUME Comes(a, f, e) PROVE Known(e) \/ Comes(a, f, e)'
      <4>1. PICK x \in Dirs : Over(x, f, e) /\ Ahead(c, x, e)
        BY <3>2 DEF Comes
      <4>2. x \in exists /\ x # None
        BY <1>5, <4>1, OverExists DEF WatcherAssumption
      <4>3. CASE x = d /\ watchedDirs[d] # None /\ x = e
        BY <4>3 DEF Known
      <4>4. CASE x # d
        BY <1>1, <1>3, <1>7, <4>1, <4>2, <4>4 DEF Comes, Ahead
      <4>5. CASE x = d /\ (watchedDirs[d] = None \/ x # e)
        BY <1>1, <1>3, <1>7, <4>1, <4>2, <4>5 DEF Comes, Ahead
      <4>. QED
        BY <4>3, <4>4, <4>5
    <3>3. Known(e) \/ Announced(f, e) \/ \E b \in Walkers : Comes(b, f, e)
      BY <1>5, <2>1 DEF AllKnown
    <3>. QED
      BY <1>6, <1>8, <2>0, <3>1, <3>2, <3>3
  <2>2. CASE ~RootComes(f)
    <3>1. n.noting = Root[f]
      BY <1>3, <1>6, <1>7, <1>8, <2>2 DEF RootComes, Walkers, Walks, Actors
    <3>2. Over(Root[f], f, e) /\ Root[f] \in Dirs
      BY OverRoot, AloneOwns
    <3>3. Comes(a, f, e)'
      BY <1>7, <3>1, <3>2 DEF Comes, Ahead
    <3>. QED
      BY <3>3
  <2>. QED
    BY <2>1, <2>2
<1>. QED
  BY <1>6, <1>9, <1>10, <1>11 DEF Watches, Walkers

LEMMA NoteWatches ==
  ASSUME WatcherAssumption, WatcherTyped, NEW f \in FolderIds, Alone(f), Watches(f),
         NEW a \in Walkers, NoteOwner(a), WatchTree(a)
  PROVE  Watches(f)'
<1>. DEFINE c == ctl[a]
            n == ctl'[a]
            d == ctl[a].noting
<1>1. Walks(a) /\ c.at = "note"
  BY DEF NoteOwner, Stands, Walks
<1>2. /\ a \in Actors /\ c.folder = f /\ c \in Controls /\ d \in Dirs
      /\ c.visit \subseteq Dirs /\ c.list \subseteq Dirs
  BY <1>1, WalkCell
<1>3. /\ \A b \in Actors \ {a} : ctl'[b] = ctl[b]
      /\ n.visit = c.visit /\ n.passes = c.passes /\ n.at = "walk" /\ n.noting = None /\ n.covered
      /\ n.list = c.list \cup {d}
  <2>1. ctl \in [Actors -> Controls]
    BY <1>2, CellOf
  <2>. QED
    BY <1>2, <2>1, NoteGoes
<1>4. /\ Calm /\ WalksWell(a, f) /\ Rooted(f) /\ RootKnown(f) /\ AllKnown(f)
  BY DEF Watches
<1>5. /\ UNCHANGED <<kernel, warned>>
      /\ watchedDirs' \in [Dirs -> {f, None}] /\ watchedDirs \in [Dirs -> {f, None}]
      /\ \A e \in Dirs : watchedDirs'[e] = IF e = d THEN f ELSE watchedDirs[e]
      /\ f # None /\ Root[f] \in Dirs
  <2>1. watchedDirs \in [Dirs -> {f, None}]
    BY AloneOwns DEF WatcherTyped, MapsTyped
  <2>2. watchedDirs' = [watchedDirs EXCEPT ![d] = f] /\ UNCHANGED <<kernel, warned>>
    BY <1>2 DEF NoteOwner
  <2>3. f # None /\ Root[f] \in Dirs
    BY AloneOwns
  <2>. QED
    BY <1>2, <2>1, <2>2, <2>3
<1>6. \A e \in Dirs : Known(e)' <=> (Known(e) \/ e = d)
  BY <1>5 DEF Known
<1>7. version[d] > 0 /\ (d \in exists => d \in kernel)
  BY <1>1, <1>4 DEF WalksWell
<1>. HIDE DEF d
<1>8. /\ Calm' /\ Boots(f)' /\ UNCHANGED <<exists, version, watched, queue>>
      /\ \A b \in Walkers \ {a} : WalksWell(b, f)' /\ (Walks(b)' <=> Walks(b))
      /\ \A b \in Walkers \ {a}, e \in Dirs : Comes(b, f, e) => Comes(b, f, e)'
  BY <1>3, <1>5, <1>6, <1>7, OthersStand
<1>9. Walks(a)'
  BY <1>3 DEF Walks
<1>10. Known(Root[f])'
  <2>1. Known(Root[f]) \/ d \in {None, Root[f]}
    BY <1>1, <1>4 DEF WalksWell, d
  <2>2. d # None
    BY <1>2 DEF WatcherAssumption
  <2>. QED
    BY <1>5, <1>6, <2>1, <2>2
<1>11. WalksWell(a, f)'
  <2>1. \A e \in n.list : Known(e)'
    BY <1>1, <1>2, <1>3, <1>4, <1>6 DEF WalksWell
  <2>2. f \in watched' /\ (a = "loop" => n.passes > 0)
    BY <1>1, <1>3, <1>4, <1>8 DEF WalksWell
  <2>. QED
    BY <1>3, <1>10, <2>1, <2>2 DEF WalksWell
<1>12. Rooted(f)' /\ RootKnown(f)'
  <2>1. f \in watched
    BY <1>1, <1>4 DEF WalksWell
  <2>. QED
    BY <1>8, <1>10, <2>1 DEF Rooted, RootKnown
<1>13. AllKnown(f)'
  <2>. SUFFICES ASSUME f \in watched, NEW e \in exists \cap Tree(f)
                PROVE  Known(e)' \/ Announced(f, e)' \/ \E b \in Walkers : Comes(b, f, e)'
    BY <1>8 DEF AllKnown, Walkers
  <2>0. e \in Dirs
    BY DEF WatcherTyped, DiskTyped
  <2>1. RootComes(f)
    <3>1. Known(Root[f]) \/ d \in {None, Root[f]}
      BY <1>1, <1>4 DEF WalksWell, d
    <3>2. d # None
      BY <1>2 DEF WatcherAssumption
    <3>. QED
      BY <1>1, <3>1, <3>2 DEF RootComes, d
  <2>2. ASSUME Announced(f, e) PROVE Announced(f, e)'
    <3>1. PICK i \in 1 .. Len(queue) : /\ queue[i].kind = "create" /\ Over(queue[i].dir, f, e)
                                       /\ OwnerOf(queue[i]) = f
      BY <2>2 DEF Announced
    <3>2. queue[i].dir \in Dirs /\ Parent[queue[i].dir] \in Dirs
      BY EventsAre DEF WatcherAssumption
    <3>3. OwnerOf(queue[i])' = f
      BY <1>5, <1>8, <3>1, <3>2 DEF OwnerOf
    <3>. QED
      BY <1>8, <3>1, <3>3 DEF Announced, OwnerOf
  <2>3. ASSUME Comes(a, f, e) PROVE Known(e)' \/ Comes(a, f, e)'
    <3>1. PICK x \in Dirs : Over(x, f, e) /\ Ahead(c, x, e)
      BY <2>3 DEF Comes
    <3>2. CASE x = d /\ x = e
      BY <1>6, <2>0, <3>2
    <3>3. CASE x # d \/ x # e
      BY <1>3, <1>9, <3>1, <3>3 DEF Comes, Ahead, d
    <3>. QED
      BY <3>2, <3>3
  <2>4. Known(e) \/ Announced(f, e) \/ \E b \in Walkers : Comes(b, f, e)
    BY <1>4, <2>1 DEF AllKnown
  <2>. QED
    BY <1>6, <1>8, <2>0, <2>2, <2>3, <2>4
<1>. QED
  BY <1>8, <1>11, <1>12, <1>13 DEF Watches, Walkers

LEMMA ListWatches ==
  ASSUME WatcherAssumption, WatcherTyped, NEW f \in FolderIds, Alone(f), Watches(f),
         NEW a \in Walkers, NEW d \in Dirs, List(a, d), WatchTree(a)
  PROVE  Watches(f)'
<1>. DEFINE c == ctl[a]
            n == ctl'[a]
<1>1. Walks(a) /\ c.at = "walk" /\ c.noting = None
  BY DEF List, Stands, Walks, Watches, WalksWell
<1>2. /\ a \in Actors /\ c.folder = f /\ c \in Controls
      /\ c.visit \subseteq Dirs /\ c.list \subseteq Dirs
  BY <1>1, WalkCell
<1>3. /\ d \in c.list /\ \A b \in Actors \ {a} : ctl'[b] = ctl[b]
      /\ n.visit = c.visit \cup (Below(d) \cap exists) /\ n.passes = c.passes
      /\ n.at = "walk" /\ n.noting = c.noting /\ (n.covered <=> c.covered)
      /\ n.list = c.list \ {d}
  <2>1. ctl \in [Actors -> Controls]
    BY <1>2, CellOf
  <2>. QED
    BY <1>2, <2>1, ListGoes
<1>4. UNCHANGED <<kernel, watchedDirs, warned>>
  BY DEF List
<1>5. /\ Calm /\ WalksWell(a, f) /\ Rooted(f) /\ RootKnown(f) /\ AllKnown(f)
  BY DEF Watches
<1>6. \A e : Known(e)' <=> Known(e)
  BY <1>4 DEF Known
<1>7. /\ Calm' /\ Boots(f)' /\ UNCHANGED <<exists, version, watched, queue>>
      /\ \A b \in Walkers \ {a} : WalksWell(b, f)' /\ (Walks(b)' <=> Walks(b))
      /\ \A b \in Walkers \ {a}, e \in Dirs : Comes(b, f, e) => Comes(b, f, e)'
  BY <1>2, <1>3, <1>4, <1>6, OthersStand
<1>8. Walks(a)'
  BY <1>3 DEF Walks
<1>9. Known(Root[f])
  BY <1>1, <1>2, <1>3, <1>5 DEF WalksWell, Rooted
<1>10. WalksWell(a, f)'
  BY <1>1, <1>3, <1>5, <1>6, <1>7, <1>9 DEF WalksWell
<1>11. Rooted(f)' /\ RootKnown(f)'
  BY <1>5, <1>6, <1>7, <1>9 DEF Rooted, RootKnown
<1>12. AllKnown(f)'
  <2>. SUFFICES ASSUME f \in watched, NEW e \in exists \cap Tree(f)
                PROVE  Known(e)' \/ Announced(f, e)' \/ \E b \in Walkers : Comes(b, f, e)'
    BY <1>7 DEF AllKnown, Walkers
  <2>0. e \in Dirs
    BY DEF WatcherTyped, DiskTyped
  <2>1. Known(e) \/ Announced(f, e) \/ \E b \in Walkers : Comes(b, f, e)
    BY <1>5, <1>9 DEF AllKnown, RootComes
  <2>2. Announced(f, e) => Announced(f, e)'
    BY <1>4, <1>7 DEF Announced, OwnerOf
  <2>3. ASSUME Comes(a, f, e) PROVE Comes(a, f, e)'
    <3>1. PICK x \in Dirs : Over(x, f, e) /\ Ahead(c, x, e)
      BY <2>3 DEF Comes
    <3>2. CASE x # d \/ x \in c.visit
      BY <1>3, <1>8, <3>1, <3>2 DEF Comes, Ahead
    <3>3. CASE x = d /\ x \notin c.visit
      <4>1. x # e
        BY <1>1, <3>1, <3>3 DEF Ahead, WatcherAssumption
      <4>2. PICK y \in Below(x) : Over(y, f, e)
        BY <3>1, <4>1, OverChild
      <4>3. y \in exists /\ y \in Dirs
        BY <1>5, <4>2, OverExists DEF Below
      <4>4. y \in n.visit
        BY <1>3, <3>3, <4>2, <4>3
      <4>. QED
        BY <1>8, <4>2, <4>3, <4>4 DEF Comes, Ahead
    <3>. QED
      BY <3>2, <3>3
  <2>. QED
    BY <1>6, <1>7, <2>0, <2>1, <2>2, <2>3
<1>. QED
  BY <1>7, <1>10, <1>11, <1>12 DEF Watches, Walkers

LEMMA EndWatches ==
  ASSUME WatcherAssumption, WatcherTyped, NEW f \in FolderIds, Alone(f), Watches(f),
         NEW a \in Walkers, WalkEnds(a), WatchTree(a)
  PROVE  Watches(f)' /\ ~Walks(a)'
<1>. DEFINE c == ctl[a]
            n == ctl'[a]
<1>1. Walks(a) /\ c.at = "walk" /\ c.noting = None /\ c.visit = {} /\ c.list = {}
  BY DEF WalkEnds, Stands, Walks, Watches, WalksWell
<1>2. a \in Actors /\ c.folder = f /\ c \in Controls
  BY <1>1, WalkCell
<1>3. /\ \A b \in Actors \ {a} : ctl'[b] = ctl[b]
      /\ n.at \in {"send", "wait", "idle"}
  <2>1. ctl \in [Actors -> Controls] /\ Waits(a, c)
    BY <1>2, CellOf DEF WalkEnds
  <2>2. /\ \A b \in Actors \ {a} : ctl'[b] = ctl[b]
        /\ n.at = "send" \/ n = Idle \/ n.at = "wait"
    BY <1>2, <2>1, WaitsGoes
  <2>. QED
    BY <2>2, RestTyped
<1>4. UNCHANGED <<kernel, watchedDirs>>
      /\ warned' = IF c.covered THEN warned \ {f} ELSE warned \cup {f}
  BY <1>2 DEF WalkEnds
<1>5. /\ Calm /\ WalksWell(a, f) /\ Rooted(f) /\ RootKnown(f) /\ AllKnown(f)
  BY DEF Watches
<1>6. \A e : Known(e)' <=> Known(e)
  BY <1>4 DEF Known
<1>7. /\ Calm' /\ Boots(f)' /\ UNCHANGED <<exists, version, watched, queue>>
      /\ \A b \in Walkers \ {a} : WalksWell(b, f)' /\ (Walks(b)' <=> Walks(b))
      /\ \A b \in Walkers \ {a}, e \in Dirs : Comes(b, f, e) => Comes(b, f, e)'
  BY <1>2, <1>3, <1>4, <1>6, OthersStand
<1>8. ~Walks(a)'
  BY <1>3 DEF Walks
<1>9. WalksWell(a, f)'
  BY <1>8 DEF WalksWell
<1>10. Rooted(f)' /\ RootKnown(f)'
  <2>1. f \in warned' \/ Known(Root[f])
    BY <1>1, <1>4, <1>5 DEF WalksWell
  <2>. QED
    BY <1>5, <1>6, <1>7, <2>1 DEF Rooted, RootKnown
<1>11. AllKnown(f)'
  <2>. SUFFICES ASSUME f \in watched, RootComes(f)', NEW e \in exists \cap Tree(f)
                PROVE  Known(e)' \/ Announced(f, e)' \/ \E b \in Walkers : Comes(b, f, e)'
    BY <1>7 DEF AllKnown, Walkers
  <2>0. e \in Dirs
    BY DEF WatcherTyped, DiskTyped
  <2>1. RootComes(f)
    BY <1>3, <1>6, <1>7, <1>8 DEF RootComes, Walkers, Walks, Actors
  <2>2. Known(e) \/ Announced(f, e) \/ \E b \in Walkers : Comes(b, f, e)
    BY <1>5, <2>1 DEF AllKnown
  <2>3. Announced(f, e) => Announced(f, e)'
    BY <1>4, <1>7 DEF Announced, OwnerOf
  <2>4. ~Comes(a, f, e)
    BY <1>1 DEF Comes, Ahead, WatcherAssumption
  <2>. QED
    BY <1>6, <1>7, <2>0, <2>2, <2>3, <2>4
<1>. QED
  BY <1>7, <1>8, <1>9, <1>10, <1>11 DEF Watches, Walkers

LEMMA WalkWatches ==
  ASSUME WatcherAssumption, WatcherTyped, NEW f \in FolderIds, Alone(f), Watches(f),
         NEW a \in Walkers, WatchTree(a)
  PROVE  Watches(f)'
  BY VisitWatches, NoteWatches, ListWatches, EndWatches DEF WatchTree

(* A walk that begins has the whole folder before it.                      *)
LEMMA StartWatches ==
  ASSUME WatcherAssumption, WatcherTyped, NEW f \in FolderIds, Alone(f), Watches(f),
         NEW a \in Walkers, ~Walks(a), NEW k \in 0 .. 2, Goes(a, Walking(f, k)),
         a = "loop" => k > 0, a = "forward" => f \in watched /\ Known(Root[f]) /\ ~Stands(a, "off"),
         watched' = watched \cup {f}, UNCHANGED <<disk, kernel, watchedDirs, warned>>,
         Boots(f)'
  PROVE  Watches(f)'
<1>. DEFINE n == ctl'[a]
<1>1. a \in Actors /\ a \notin Handlers /\ a # "command" /\ Root[f] \in Dirs
  BY AloneOwns DEF Walkers, Actors, WatcherAssumption
<1>2. /\ \A b \in Actors \ {a} : ctl'[b] = ctl[b]
      /\ n.at = "walk" /\ n.folder = f /\ n.passes = k
      /\ n.list = {} /\ n.noting = None /\ ~n.covered
      /\ \A x : x \in n.visit <=> x = Root[f]
  <2>. DEFINE w == Walking(f, k)
  <2>1. /\ w \in Controls /\ w.at = "walk" /\ w.folder = f /\ w.passes = k
        /\ w.list = {} /\ w.noting = None /\ ~w.covered
        /\ \A x : x \in w.visit <=> x = Root[f]
    BY WalkingTyped, WalkingFrom
  <2>2. Goes(a, w) /\ ctl \in [Actors -> Controls]
    BY <1>1, CellOf
  <2>. HIDE DEF w
  <2>3. ctl'[a] = w /\ \A b \in Actors \ {a} : ctl'[b] = ctl[b]
    BY <1>1, <2>1, <2>2, GoesTo
  <2>. QED
    BY <2>1, <2>3
<1>3. UNCHANGED <<exists, version>> /\ \A e : Known(e)' <=> Known(e)
  BY DEF disk, Known
<1>4. Walks(a)' /\ \A b \in Walkers \ {a} : ctl'[b] = ctl[b] /\ (Walks(b)' <=> Walks(b))
  BY <1>2 DEF Walks, Walkers, Actors
<1>5. Calm'
  BY <1>1, <1>2, <1>3 DEF Watches, Calm, Stands, Actors
<1>6. ASSUME NEW b \in Walkers PROVE WalksWell(b, f)'
  <2>1. CASE b = a
    BY <1>2, <1>3, <2>1 DEF WalksWell
  <2>2. CASE b # a
    BY <1>3, <1>4, <2>2 DEF Watches, WalksWell
  <2>. QED
    BY <2>1, <2>2
<1>7. Rooted(f)'
  BY <1>3 DEF Watches, Rooted
<1>8. RootKnown(f)'
  BY <1>3, <1>4 DEF Watches, RootKnown, Walkers
<1>9. AllKnown(f)'
  <2>1. ASSUME NEW e \in Tree(f) PROVE Comes(a, f, e)'
    BY <1>1, <1>2, <1>4, OverRoot DEF Comes, Ahead
  <2>. QED
    BY <2>1 DEF AllKnown, Walkers
<1>. QED
  BY <1>5, <1>6, <1>7, <1>8, <1>9 DEF Watches, Walkers

LEMMA LoopWatches ==
  ASSUME WatcherAssumption, WatcherTyped, NEW f \in FolderIds, Alone(f), Watches(f),
         Started \/ Receive \/ Tick \/ Safety \/ \E g \in FolderIds : TakeRound(g) \/ ReconcileOne(g),
         UNCHANGED <<disk, kernel, queue, tables, mutex, course>>
  PROVE  Watches(f)'
<1>1. /\ "loop" \in Actors /\ "forward" \in Actors /\ "command" \in Actors /\ Handlers \subseteq Actors
      /\ \A h \in Handlers : h # "loop" /\ h # "forward"
      /\ Calm /\ Boots(f) /\ ctl \in [Actors -> Controls]
  BY CellOf DEF Actors, WatcherAssumption, Watches
<1>2. ASSUME UNCHANGED <<maps, ctl>>, Boots(f)' PROVE Watches(f)'
  <2>1. \A d : Announced(f, d) => Announced(f, d)'
    BY <1>2 DEF Announced, OwnerOf, maps
  <2>. QED
    BY <1>1, <1>2, <2>1, WatchesStay DEF Calm, Walkers
<1>3. CASE Receive \/ Tick
  BY <1>1, <1>2, <1>3 DEF Receive, Tick, Boots, Stands, maps
<1>4. CASE Safety
  BY <1>1, <1>2, <1>4 DEF Safety, Selecting, Boots, Stands
<1>5. ASSUME NEW a \in Walkers, NEW c \in Controls, Goes(a, c), ~Walks(a), c.at \notin {"walk", "note"},
             UNCHANGED maps, Boots(f)'
      PROVE  Watches(f)'
  <2>1. ctl'[a] = c /\ \A b \in Actors \ {a} : ctl'[b] = ctl[b]
    BY <1>1, <1>5, GoesTo DEF Walkers
  <2>2. \A b \in Walkers : ctl'[b] = ctl[b] \/ (~Walks(b) /\ ~Walks(b)')
    BY <1>1, <1>5, <2>1 DEF Walks, Walkers
  <2>3. \A d : Announced(f, d) => Announced(f, d)'
    BY <1>5 DEF Announced, OwnerOf, maps
  <2>4. a \notin Handlers \cup {"command"}
    BY <1>1 DEF Walkers
  <2>. QED
    BY <1>1, <1>5, <2>1, <2>2, <2>3, <2>4, WatchesStay DEF Calm
<1>6. CASE Started
  <2>1. ~Walks("forward") /\ Goes("forward", Idle) /\ UNCHANGED maps
    BY <1>6 DEF Started, Stands, Walks
  <2>2. Boots(f)'
    <3>1. ctl'["forward"] = Idle
      BY <1>1, <2>1, RestTyped, GoesTo
    <3>. QED
      BY <3>1, RestTyped DEF Boots, Stands
  <2>. QED
    BY <1>5, <2>1, <2>2, RestTyped DEF Walkers
<1>7. ASSUME NEW g \in FolderIds, ReconcileOne(g) PROVE Watches(f)'
  <2>1. ~Walks("loop") /\ UNCHANGED maps /\ round' = round
    BY <1>7 DEF ReconcileOne, LoopIdle, Stands, Walks
  <2>. DEFINE w == [Idle EXCEPT !.at = "wait", !.folder = g, !.passes = 1]
  <2>2. 1 \in 0 .. 2
    OBVIOUS
  <2>3. w \in Controls /\ w.at = "wait"
    BY <2>2, WaitTyped
  <2>4. Goes("loop", w) \/ Goes("loop", Idle)
    BY <1>7 DEF ReconcileOne
  <2>. HIDE DEF w
  <2>5. PICK c \in Controls : Goes("loop", c) /\ c.at \in {"wait", "idle"}
    BY <2>3, <2>4, RestTyped
  <2>6. Boots(f)'
    <3>1. ctl'["forward"] = ctl["forward"]
      BY <1>1, <2>5, GoesTo
    <3>. QED
      BY <1>1, <2>1, <3>1 DEF Boots, Stands, maps
  <2>. QED
    BY <1>5, <2>1, <2>5, <2>6 DEF Walkers
<1>8. ASSUME NEW g \in FolderIds, TakeRound(g) PROVE Watches(f)'
  <2>1. g = f /\ round' = round \ {f} /\ ~Walks("loop")
    BY <1>8, AloneOwns DEF TakeRound, LoopIdle, Stands, Walks
  <2>. DEFINE m == IF Stands("forward", "off") THEN 0 ELSE 1
              k == IF f \in watched THEN m ELSE m + 1
  <2>2. Add("loop", f, m)
    BY <1>8, <2>1 DEF TakeRound
  <2>3. k \in 0 .. 2 /\ k > 0
    BY <1>1, <1>8, <2>1 DEF Boots, TakeRound
  <2>4. Goes("loop", Walking(f, k)) /\ watched' = watched \cup {f} /\ UNCHANGED <<watchedDirs, warned>>
    BY <2>2 DEF Add
  <2>. HIDE DEF k
  <2>5. Boots(f)'
    BY <2>1 DEF Boots
  <2>. QED
    BY <2>1, <2>3, <2>4, <2>5, StartWatches DEF Walkers
<1>. QED
  BY <1>3, <1>4, <1>6, <1>7, <1>8

LEMMA PassGoes ==
  ASSUME WatcherAssumption, WatcherTyped, NEW a \in Actors, Reconcile(a)
  PROVE  /\ a # "forward" /\ ~Walks(a) /\ ctl[a].at \in {"wait", "pass"}
         /\ \A b \in Actors \ {a} : ctl'[b] = ctl[b]
         /\ ctl'[a].at \in {"pass", "wait", "idle"}
         /\ UNCHANGED <<disk, kernel, queue, maps, signals, folders, born, happens>>
<1>. DEFINE c == ctl[a]
            n == ctl'[a]
<1>1. /\ c \in Controls /\ Fits(a, c, born, version) /\ ctl \in [Actors -> Controls]
      /\ version \in [Dirs -> 0 .. MaxChanges]
      /\ c.at \notin {"idle", "off", "unwatch"} => c.folder \in FolderIds
  BY CellOf
<1>2. c.at \in {"wait", "pass"}
  BY DEF Reconcile, Lock, Read, Commit, Fail, RootGone, Stands
<1>3. a # "forward" /\ ~Walks(a) /\ c.folder \in FolderIds /\ c.passes > 0
  BY <1>1, <1>2 DEF Fits, Walks
<1>4. UNCHANGED <<disk, kernel, queue, maps, signals, folders, born, happens>>
  BY DEF Reconcile, Lock, Read, Commit, Fail, RootGone, PassEnds, tables, course
<1>5. \A b \in Actors \ {a} : ctl'[b] = ctl[b]
  BY <1>1, <1>3, LockGoes, ReadGoes, PassEndsGoes DEF Reconcile, Commit, Fail, RootGone
<1>6. n.at \in {"pass", "wait", "idle"}
  <2>1. CASE Lock(a)
    BY <1>1, <1>3, <2>1, LockGoes
  <2>2. ASSUME NEW d \in Dirs, Read(a, d) PROVE n.at = "pass"
    BY <1>1, <2>2, ReadGoes
  <2>3. CASE PassEnds(a)
    BY <1>1, <1>3, <2>3, PassEndsGoes, RestTyped
  <2>. QED
    BY <2>1, <2>2, <2>3 DEF Reconcile, Commit, Fail, RootGone
<1>. QED
  BY <1>2, <1>3, <1>4, <1>5, <1>6

LEMMA PassWatches ==
  ASSUME WatcherAssumption, WatcherTyped, NEW f \in FolderIds, Watches(f),
         NEW a \in Actors \ {"command"}, Reconcile(a)
  PROVE  Watches(f)'
<1>1. /\ a # "forward" /\ ~Walks(a)
      /\ \A b \in Actors \ {a} : ctl'[b] = ctl[b]
      /\ ctl'[a].at \in {"pass", "wait", "idle"}
      /\ UNCHANGED <<disk, kernel, queue, maps, signals>>
  BY PassGoes
<1>2. "forward" \in Actors /\ "command" \in Actors /\ Handlers \subseteq Actors /\ Walkers \subseteq Actors
  BY DEF Actors, Walkers
<1>3. Boots(f)'
  BY <1>1, <1>2 DEF Watches, Boots, Stands, maps, signals
<1>4. \A b \in Walkers : ctl'[b] = ctl[b] \/ (~Walks(b) /\ ~Walks(b)')
  BY <1>1, <1>2 DEF Walks
<1>5. \A d : Announced(f, d) => Announced(f, d)'
  BY <1>1 DEF Announced, OwnerOf, maps
<1>6. \A h \in Handlers : ctl'[h].at \in {"idle", "wait", "pass"}
  BY <1>1, <1>2 DEF Watches, Calm
<1>. QED
  BY <1>1, <1>2, <1>3, <1>4, <1>5, <1>6, WatchesStay

LEMMA ScanWatches ==
  ASSUME WatcherAssumption, WatcherTyped, NEW f \in FolderIds, Watches(f),
         NEW h \in Handlers, ScanFolder(h, f),
         UNCHANGED <<disk, queue, signals, mutex, course>>
  PROVE  Watches(f)' /\ ctl'[h].at = "wait" /\ ctl'[h].folder = f /\ ctl'[h].passes = 1
         /\ \A b \in Actors \ {h} : ctl'[b] = ctl[b]
<1>. DEFINE w == [Idle EXCEPT !.at = "wait", !.folder = f, !.passes = 1]
<1>1. 1 \in 0 .. 2
  OBVIOUS
<1>2. w \in Controls /\ w.at = "wait" /\ w.folder = f /\ w.passes = 1
  BY <1>1, WaitTyped
<1>3. Goes(h, w) /\ UNCHANGED <<kernel, maps>>
  BY DEF ScanFolder
<1>. HIDE DEF w
<1>4. /\ h \in Actors /\ h \notin Walkers /\ h # "command"
      /\ "forward" \in Actors /\ "command" \in Actors /\ Handlers \subseteq Actors /\ Walkers \subseteq Actors
  BY DEF Actors, Walkers, WatcherAssumption
<1>5. ctl'[h] = w /\ \A b \in Actors \ {h} : ctl'[b] = ctl[b]
  BY <1>2, <1>3, <1>4, CellOf, GoesTo
<1>6. Boots(f)'
  BY <1>3, <1>4, <1>5 DEF Watches, Boots, Stands, maps, signals, Walkers
<1>7. \A d : Announced(f, d) => Announced(f, d)'
  BY <1>3 DEF Announced, OwnerOf, maps
<1>8. \A b \in Handlers : ctl'[b].at \in {"idle", "wait", "pass"}
  BY <1>2, <1>4, <1>5 DEF Watches, Calm
<1>9. \A b \in Walkers : ctl'[b] = ctl[b]
  BY <1>4, <1>5
<1>. QED
  BY <1>2, <1>3, <1>4, <1>5, <1>6, <1>7, <1>8, <1>9, WatchesStay

LEMMA QueueTails ==
  ASSUME WatcherTyped, queue # <<>>, queue' = Tail(queue)
  PROVE  /\ Head(queue).dir \in Dirs /\ Head(queue).kind \in {"file", "create", "remove"}
         /\ Head(queue) = queue[1]
         /\ Len(queue) \in Nat /\ Len(queue') = Len(queue) - 1
         /\ \A i \in 2 .. Len(queue) : queue'[i - 1] = queue[i]
<1>. DEFINE E == [dir : Dirs, kind : {"file", "create", "remove"}]
<1>1. queue \in Seq(E)
  BY EventsAre
<1>. HIDE DEF E
<1>2. /\ Head(queue) \in E /\ Head(queue) = queue[1]
      /\ Len(queue) \in Nat /\ Len(queue') = Len(queue) - 1
      /\ \A i \in 2 .. Len(queue) : queue'[i - 1] = queue[i]
  BY <1>1
<1>. QED
  BY <1>2 DEF E

LEMMA EventWatches ==
  ASSUME WatcherAssumption, WatcherTyped, NEW f \in FolderIds, Alone(f), Watches(f), TakeEvent,
         UNCHANGED <<disk, kernel, tables, maps, pending, due, round, mutex, course>>
  PROVE  /\ Watches(f)'
         /\ \/ OwnerOf(Head(queue)) = f /\ ctl'["forward"].at \in {"walk", "send"} /\ ctl'["forward"].folder = f
            \/ OwnerOf(Head(queue)) = None
         /\ \A b \in Actors \ {"forward"} : ctl'[b] = ctl[b]
         /\ ~Passing("forward") /\ ~Passing("forward")'
<1>. DEFINE e == Head(queue)
            o == OwnerOf(e)
<1>1. /\ e.dir \in Dirs /\ e.kind \in {"file", "create", "remove"} /\ e = queue[1]
      /\ Len(queue) \in Nat /\ Len(queue') = Len(queue) - 1
      /\ \A i \in 2 .. Len(queue) : queue'[i - 1] = queue[i]
  BY QueueTails DEF TakeEvent
<1>2. o \in {f, None} /\ (o = f => Known(Root[f]) /\ f \in watched) /\ f # None
  <2>1. Parent[e.dir] \in Dirs
    BY <1>1 DEF WatcherAssumption
  <2>2. \E d \in Dirs : o = watchedDirs[d]
    BY <1>1, <2>1 DEF OwnerOf
  <2>. QED
    BY <2>2, AloneOwns DEF Watches, Rooted
<1>3. /\ "forward" \in Actors /\ "command" \in Actors /\ Handlers \subseteq Actors
      /\ \A h \in Handlers : h # "forward"
      /\ ctl["forward"].at = "idle" /\ ctl \in [Actors -> Controls]
  BY CellOf DEF Actors, WatcherAssumption, TakeEvent, Stands
<1>4. ~Walks("forward") /\ ~Passing("forward") /\ ~Stands("forward", "off")
  BY <1>3 DEF Walks, Passing, Stands
<1>5. CASE o = f /\ e.kind = "create" /\ e.dir \in exists
  <2>1. Goes("forward", Walking(f, 0))
    BY <1>2, <1>5 DEF TakeEvent
  <2>2. 0 \in 0 .. 2
    OBVIOUS
  <2>3. ctl'["forward"].at = "walk" /\ ctl'["forward"].folder = f /\ \A b \in Actors \ {"forward"} : ctl'[b] = ctl[b]
    <3>. DEFINE w == Walking(f, 0)
    <3>1. w \in Controls /\ w.at = "walk" /\ w.folder = f
      BY WalkingOnly
    <3>. HIDE DEF w
    <3>2. Goes("forward", w)
      BY <2>1 DEF w
    <3>. QED
      BY <1>3, <3>1, <3>2, GoesTo
  <2>4. Boots(f)'
    BY <2>3 DEF Boots, Stands
  <2>5. watched' = watched \cup {f} /\ UNCHANGED <<watchedDirs, warned>>
    BY <1>2, <1>5 DEF maps
  <2>6. Watches(f)'
    BY <1>2, <1>4, <1>5, <2>1, <2>2, <2>4, <2>5, StartWatches DEF Walkers
  <2>. QED
    BY <1>4, <1>5, <2>3, <2>6 DEF Passing, Stands
<1>6. CASE ~(o = f /\ e.kind = "create" /\ e.dir \in exists)
  <2>1. PICK c \in Controls : /\ Goes("forward", c)
                              /\ \/ o = f /\ c.at = "send" /\ c.folder = f
                                 \/ o = None /\ c.at = "idle"
    <3>1. CASE o = None
      BY <3>1, RestTyped DEF TakeEvent
    <3>2. CASE o = f
      <4>. DEFINE w == [Idle EXCEPT !.at = "send", !.folder = f]
      <4>1. "send" \in Stages
        BY DEF Stages
      <4>2. w \in Controls /\ w.at = "send" /\ w.folder = f
        BY <4>1, TaskTyped
      <4>3. Goes("forward", w)
        BY <1>2, <1>6, <3>2 DEF TakeEvent
      <4>. HIDE DEF w
      <4>. QED
        BY <3>2, <4>2, <4>3
    <3>. QED
      BY <1>2, <3>1, <3>2
  <2>2. ctl'["forward"] = c /\ \A b \in Actors \ {"forward"} : ctl'[b] = ctl[b]
    BY <1>3, <2>1, GoesTo
  <2>3. Boots(f)'
    BY <2>1, <2>2 DEF Boots, Stands
  <2>4. ASSUME NEW d \in exists, Announced(f, d) PROVE Announced(f, d)'
    <3>1. PICK i \in 1 .. Len(queue) : /\ queue[i].kind = "create" /\ Over(queue[i].dir, f, d)
                                       /\ OwnerOf(queue[i]) = f
      BY <2>4 DEF Announced
    <3>2. i # 1
      <4>1. queue[i].dir \in exists
        BY <3>1, OverExists DEF Watches
      <4>. QED
        BY <1>1, <1>6, <3>1, <4>1
    <3>3. i - 1 \in 1 .. Len(queue') /\ queue'[i - 1] = queue[i]
      BY <1>1, <3>2
    <3>4. watchedDirs' = watchedDirs
      BY DEF maps
    <3>. QED
      BY <3>1, <3>3, <3>4 DEF Announced, OwnerOf
  <2>5. \A b \in Walkers : ctl'[b] = ctl[b] \/ (~Walks(b) /\ ~Walks(b)')
    BY <1>4, <2>1, <2>2 DEF Walkers, Walks, Actors
  <2>6. Watches(f)'
    BY <1>3, <2>2, <2>3, <2>4, <2>5, WatchesStay DEF Watches, Calm
  <2>. QED
    BY <1>4, <2>1, <2>2, <2>6 DEF Passing, Stands
<1>. QED
  BY <1>5, <1>6

LEMMA SendWatches ==
  ASSUME WatcherAssumption, WatcherTyped, NEW f \in FolderIds, Alone(f), Watches(f), Send,
         UNCHANGED <<disk, kernel, tables, maps, pending, due, round, mutex, course>>
  PROVE  /\ Watches(f)'
         /\ ctl["forward"].folder = f
         /\ \A b \in Actors \ {"forward"} : ctl'[b] = ctl[b]
         /\ ~Passing("forward") /\ ~Passing("forward")'
<1>1. /\ "forward" \in Actors /\ "command" \in Actors /\ Handlers \subseteq Actors
      /\ \A h \in Handlers : h # "forward"
      /\ ctl["forward"].at = "send" /\ ctl \in [Actors -> Controls]
  BY CellOf DEF Actors, WatcherAssumption, Send, Stands
<1>2. ctl'["forward"] = Idle /\ \A b \in Actors \ {"forward"} : ctl'[b] = ctl[b]
  BY <1>1, RestTyped, GoesTo DEF Send
<1>3. ctl["forward"].folder = f
  BY <1>1, AloneOwns
<1>4. Boots(f)'
  BY <1>2, RestTyped DEF Boots, Stands
<1>5. \A d : Announced(f, d) => Announced(f, d)'
  BY DEF Announced, OwnerOf, maps, Send
<1>6. \A b \in Walkers : ctl'[b] = ctl[b] \/ (~Walks(b) /\ ~Walks(b)')
  BY <1>1, <1>2, RestTyped DEF Walkers, Walks, Actors
<1>7. Watches(f)'
  BY <1>1, <1>2, <1>4, <1>5, <1>6, WatchesStay DEF Watches, Calm
<1>. QED
  BY <1>1, <1>2, <1>3, <1>7, RestTyped DEF Passing, Stands

(* What keeps the catalog as it is, or a pass on its way.                  *)
LEMMA ReflectsStay ==
  ASSUME NEW f, Reflects(f), Underway(f) => Underway(f)', f \in warned => f \in warned',
         \A d \in Tree(f) : version'[d] = version[d] /\ (d \in exists' <=> d \in exists),
         Root[f] \in exists' <=> Root[f] \in exists, shown' = shown,
         \A a \in Actors : (Passing(a) <=> Passing(a)') /\ (Passing(a) => ctl'[a] = ctl[a])
  PROVE  Reflects(f)'
<1>1. CASE Excused(f)
  BY <1>1 DEF Reflects, Excused
<1>2. ASSUME NEW a \in Actors, Passing(a), Sweeps(a, f), \A d \in Tree(f) : Sees(a, d)
      PROVE  Reflects(f)'
  <2>1. ctl'[a] = ctl[a] /\ Passing(a)'
    BY <1>2
  <2>2. Sweeps(a, f)' /\ \A d \in Tree(f) : Sees(a, d)'
    BY <1>2, <2>1 DEF Sweeps, Sees, ToRead
  <2>. QED
    BY <2>1, <2>2 DEF Reflects, Current
<1>3. CASE (\A a \in Actors : ~Passing(a)) /\ \A d \in Tree(f) : shown[f][d] = version[d]
  <2>1. (\A a \in Actors : ~Passing(a)') /\ \A d \in Tree(f) : shown'[f][d] = version'[d]
    BY <1>3
  <2>. QED
    BY <2>1 DEF Reflects, Current
<1>. QED
  BY <1>1, <1>2, <1>3 DEF Reflects, Current

LEMMA UnderwayStays ==
  ASSUME NEW f, Underway(f), Pending(f) => Pending(f)' \/ f \in pending',
         f \in pending \cup round => f \in pending' \cup round',
         (\E i \in 1 .. Len(queue) : OwnerOf(queue[i]) = f) => (\E i \in 1 .. Len(queue) : OwnerOf(queue[i]) = f)',
         \A a \in Actors : ctl'[a] = ctl[a] \/ ctl[a].at \notin {"walk", "note", "send", "wait"}
  PROVE  Underway(f)'
  BY DEF Underway

LEMMA WalkUnderway ==
  ASSUME WatcherAssumption, WatcherTyped, NEW f \in FolderIds, Alone(f), NEW a \in Walkers,
         WalksWell(a, f), Walks(a)
  PROVE  Underway(f)
  BY WalkCell DEF Underway, WalksWell, Walks, Walkers

LEMMA DiskReflects ==
  ASSUME WatcherAssumption, WatcherTyped, NEW f \in FolderIds, Alone(f), Watches(f), f \in watched,
         Reflects(f), Disk
  PROVE  Reflects(f)'
<1>0. Calm /\ Rooted(f) /\ AllKnown(f) /\ RootKnown(f) /\ exists \subseteq Dirs
      /\ Tree(f) \subseteq Dirs /\ Root[f] \in Tree(f)
      /\ \A a \in Walkers : WalksWell(a, f)
  BY DEF Watches, WatcherTyped, DiskTyped, Tree, Under, WatcherAssumption
<1>1. PICK c \in Dirs :
    /\ UNCHANGED <<ctl, watched, watchedDirs, warned>>
    /\ version' \in [Dirs -> Nat] /\ version'[c] > 0 /\ \A e \in Dirs \ {c} : version'[e] = version[e]
    /\ \A e \in Dirs : version[e] > 0 => version'[e] > 0
    /\ \/ exists' = exists /\ kernel' = kernel /\ c \in exists /\ Tell("file", c, {c})
       \/ /\ c \notin exists /\ exists' = exists \cup {c} /\ kernel' = kernel
          /\ Parent[c] \in exists \cup {c}
          /\ "recreate" \notin happens => version[c] = 0
          /\ Tell("create", c, {Parent[c]} \ {c})
       \/ /\ c \in exists /\ exists' = exists \ {c} /\ kernel' = kernel \ {c}
          /\ \A e \in exists' : Parent[e] # c
          /\ Tell("remove", c, {c, Parent[c]})
  BY <1>0, DiskGoes
<1>2. UNCHANGED <<events, pending, round, shown>>
  BY DEF Disk, tables, signals
<1>3. PICK kind \in {"file", "create", "remove"} : \E W : Tell(kind, c, W)
  BY <1>1
<1>4. (\E i \in 1 .. Len(queue) : OwnerOf(queue[i]) = f) => (\E i \in 1 .. Len(queue) : OwnerOf(queue[i]) = f)'
  BY <1>1, <1>3, TellQueues, QueueStands
<1>5. Underway(f) => Underway(f)'
  BY <1>1, <1>2, <1>4, UnderwayStays DEF Pending
<1>6. CASE c \notin Tree(f)
  <2>1. \A e \in Tree(f) : version'[e] = version[e] /\ (e \in exists' <=> e \in exists)
    BY <1>0, <1>1, <1>6
  <2>2. \A a \in Actors : (Passing(a) <=> Passing(a)') /\ (Passing(a) => ctl'[a] = ctl[a])
    BY <1>1 DEF Passing, Stands
  <2>. QED
    BY <1>0, <1>1, <1>2, <1>5, <2>1, <2>2, ReflectsStay
<1>7. ASSUME NEW d \in Tree(f), d = c PROVE Reflects(f)'
  <2>0. d \in Dirs
    BY <1>0
  <2>1. SUFFICES f \in warned \/ Underway(f) \/ (\E i \in 1 .. Len(queue) : OwnerOf(queue[i]) = f)'
    BY <1>1, <1>5 DEF Reflects, Excused, Underway
  <2>2. CASE ~Known(Root[f])
    <3>1. f \in warned \/ Walks("loop")
      BY <1>0, <2>2 DEF RootKnown
    <3>. QED
      BY <1>0, <3>1, WalkUnderway DEF Walkers
  <2>3. CASE Known(Root[f])
    <3>1. ASSUME NEW e \in exists \cap Tree(f)
          PROVE  Underway(f) \/ (Known(e) /\ e \in kernel)
      <4>1. Known(e) \/ Announced(f, e) \/ \E a \in Walkers : Comes(a, f, e)
        BY <1>0, <2>3 DEF AllKnown, RootComes
      <4>2. Announced(f, e) => Underway(f)
        BY DEF Announced, Underway
      <4>3. ASSUME NEW a \in Walkers, Comes(a, f, e) PROVE Underway(f)
        BY <1>0, <4>3, WalkUnderway DEF Comes
      <4>. QED
        BY <1>0, <4>1, <4>2, <4>3 DEF Calm
    <3>2. CASE d \in exists
      <4>1. SUFFICES ASSUME Known(d), d \in kernel
                     PROVE  (\E i \in 1 .. Len(queue) : OwnerOf(queue[i]) = f)'
        BY <3>1, <3>2, <2>1
      <4>2. PICK k \in {"file", "remove"} : \E V : Tell(k, d, V) /\ d \in V
        BY <1>1, <1>7, <3>2
      <4>3. PICK i \in 1 .. Len(queue') : queue'[i] = [dir |-> d, kind |-> k]
        BY <1>0, <1>1, <2>0, <4>1, <4>2, TellQueues
      <4>4. queue'[i].dir = d /\ queue'[i].kind = k
        BY <4>3
      <4>5. watchedDirs[d] = f /\ f # None
        BY <1>0, <2>0, <4>1, AloneOwns
      <4>6. OwnerOf(queue[i])' = f
        BY <1>1, <4>4, <4>5 DEF OwnerOf
      <4>. QED
        BY <4>6
    <3>3. CASE d \notin exists
      <4>1. /\ Parent[d] \in exists \cup {d} /\ version[d] = 0
            /\ Tell("create", d, {Parent[d]} \ {d})
        BY <1>1, <1>7, <3>3 DEF Alone
      <4>2. d # Root[f] /\ ~Known(d)
        BY <1>0, <2>3, <4>1 DEF Calm
      <4>3. Parent[d] \in Tree(f) /\ Parent[d] # d
        BY <4>2, OverParent
      <4>4. SUFFICES ASSUME Known(Parent[d]), Parent[d] \in kernel
                     PROVE  (\E i \in 1 .. Len(queue) : OwnerOf(queue[i]) = f)'
        BY <3>1, <4>1, <4>3, <2>1
      <4>5. PICK i \in 1 .. Len(queue') : queue'[i] = [dir |-> d, kind |-> "create"]
        BY <1>0, <1>1, <2>0, <4>1, <4>3, <4>4, TellQueues
      <4>6. queue'[i].dir = d /\ queue'[i].kind = "create"
        BY <4>5
      <4>7. watchedDirs[Parent[d]] = f /\ watchedDirs[d] = None
        <5>1. Parent[d] \in Dirs
          BY <1>0, <4>1
        <5>. QED
          BY <2>0, <4>2, <4>4, <5>1, AloneOwns DEF Known
      <4>8. OwnerOf(queue[i])' = f
        BY <1>1, <4>6, <4>7 DEF OwnerOf
      <4>. QED
        BY <4>8
    <3>. QED
      BY <3>2, <3>3
  <2>. QED
    BY <2>2, <2>3
<1>. QED
  BY <1>6, <1>7

LEMMA WalkReflects ==
  ASSUME WatcherAssumption, WatcherTyped, NEW f \in FolderIds, Alone(f), Watches(f),
         NEW a \in Walkers, WatchTree(a)
  PROVE  Underway(f)'
<1>1. a \in Actors /\ Walks(a)
  BY DEF WatchTree, WalkEnds, NoteOwner, Visit, List, Stands, Walks, Walkers, Actors
<1>2. ctl[a].folder = f /\ ctl[a] \in Controls /\ ctl \in [Actors -> Controls] /\ (ctl[a].at = "note" => ctl[a].noting \in Dirs)
      /\ (a = "loop" => ctl[a].passes > 0)
  BY <1>1, WalkCell, CellOf DEF Watches, WalksWell
<1>3. /\ ctl'[a].folder = f /\ ctl'[a].at \in {"walk", "note", "send", "wait"}
      /\ a = "loop" => ctl'[a].passes > 0
  <2>1. ASSUME NEW d \in Dirs, Visit(a, d)
        PROVE  ctl'[a].folder = f /\ ctl'[a].at \in {"walk", "note"} /\ ctl'[a].passes = ctl[a].passes
    BY <1>1, <1>2, <2>1, VisitGoes
  <2>2. ASSUME NEW d \in Dirs, List(a, d)
        PROVE  ctl'[a].folder = f /\ ctl'[a].at = "walk" /\ ctl'[a].passes = ctl[a].passes
    BY <1>1, <1>2, <2>2, ListGoes
  <2>3. ASSUME NoteOwner(a)
        PROVE  ctl'[a].folder = f /\ ctl'[a].at = "walk" /\ ctl'[a].passes = ctl[a].passes
    BY <1>1, <1>2, <2>3, NoteGoes DEF NoteOwner, Stands
  <2>4. ASSUME WalkEnds(a)
        PROVE  /\ ctl'[a].folder = f /\ ctl'[a].at \in {"send", "wait"}
               /\ a = "loop" => ctl'[a].passes = ctl[a].passes
    <3>1. Waits(a, ctl[a]) /\ (a # "forward" => a = "loop")
      BY <2>4 DEF WalkEnds, Walkers
    <3>2. \/ a = "forward" /\ ctl'[a].at = "send" /\ ctl'[a].folder = ctl[a].folder
          \/ a # "forward" /\ ctl[a].passes = 0
          \/ /\ a # "forward" /\ ctl[a].passes > 0 /\ ctl'[a].at = "wait" /\ ctl'[a].folder = ctl[a].folder
             /\ ctl'[a].passes = ctl[a].passes
      BY <1>1, <1>2, <3>1, WaitsGoes
    <3>. QED
      BY <1>2, <3>1, <3>2
  <2>. QED
    BY <1>2, <2>1, <2>2, <2>3, <2>4 DEF WatchTree
<1>. QED
  BY <1>1, <1>3 DEF Underway, Walkers

LEMMA LoopReflects ==
  ASSUME WatcherAssumption, WatcherTyped, NEW f \in FolderIds, Alone(f), Watches(f),
         Started \/ Receive \/ Tick \/ Safety \/ \E g \in FolderIds : TakeRound(g) \/ ReconcileOne(g),
         UNCHANGED <<disk, kernel, queue, tables, mutex, course>>,
         f \in watched' \cap folders, f \in watched => Reflects(f)
  PROVE  Reflects(f)'
<1>1. "loop" \in Actors /\ "forward" \in Actors /\ ctl \in [Actors -> Controls]
  BY CellOf DEF Actors
<1>2. SUFFICES ASSUME ~Underway(f)' PROVE Reflects(f)'
  BY DEF Reflects, Excused
<1>3. CASE Receive
  <2>0. events \in Seq(born) /\ events # <<>> /\ born = {f}
    BY <1>3 DEF Receive, Alone, WatcherTyped, SignalsTyped
  <2>1. Head(events) = f
    BY <2>0
  <2>. QED
    BY <1>2, <1>3, <2>1 DEF Receive, Underway
<1>4. CASE Safety
  BY <1>2, <1>4 DEF Safety, Underway
<1>5. ASSUME NEW g \in FolderIds, TakeRound(g) PROVE FALSE
  <2>1. g = f
    BY <1>5, AloneOwns DEF TakeRound
  <2>. DEFINE m == IF Stands("forward", "off") THEN 0 ELSE 1
              k == IF f \in watched THEN m ELSE m + 1
  <2>2. Goes("loop", Walking(f, k))
    BY <1>5, <2>1 DEF TakeRound, Add
  <2>3. k \in 0 .. 2 /\ k > 0
    BY <1>1, <1>5, <2>1 DEF Watches, Boots, TakeRound
  <2>. HIDE DEF k
  <2>. DEFINE w == Walking(f, k)
  <2>4. w \in Controls /\ w.at = "walk" /\ w.folder = f /\ w.passes = k
    BY <2>3, WalkingTyped
  <2>. HIDE DEF w
  <2>5. ctl'["loop"] = w
    BY <1>1, <2>2, <2>4, GoesTo DEF w
  <2>. QED
    BY <1>1, <1>2, <2>3, <2>4, <2>5 DEF Underway
<1>6. ASSUME NEW g \in FolderIds, ReconcileOne(g) PROVE FALSE
  <2>1. g = f /\ f \in watched
    BY <1>6, AloneOwns DEF ReconcileOne, maps
  <2>2. Goes("loop", Once(f))
    BY <1>6, <2>1 DEF ReconcileOne, Once
  <2>3. ctl'["loop"] = Once(f)
    BY <1>1, <2>2, OnceTyped, GoesTo
  <2>. QED
    BY <1>1, <1>2, <2>3, OnceTyped DEF Underway
<1>7. CASE Started \/ Tick
  <2>1. /\ UNCHANGED <<maps, events, pending, round, queue, disk, shown>>
        /\ ctl' = ctl \/ (ctl["forward"].at = "off" /\ Goes("forward", Idle))
    BY <1>7 DEF Started, Tick, signals, tables, Stands
  <2>2. \A a \in Actors : \/ ctl'[a] = ctl[a]
                          \/ ctl[a].at = "off" /\ ctl'[a].at = "idle"
    BY <1>1, <2>1, RestTyped, GoesTo
  <2>3. (\E i \in 1 .. Len(queue) : OwnerOf(queue[i]) = f) => (\E i \in 1 .. Len(queue) : OwnerOf(queue[i]) = f)'
    BY <2>1 DEF OwnerOf, maps
  <2>4. Underway(f) => Underway(f)'
    BY <2>1, <2>2, <2>3, UnderwayStays DEF Pending
  <2>5. f \in watched /\ version' = version /\ exists' = exists /\ warned' = warned
    BY <2>1 DEF maps, disk
  <2>6. \A a \in Actors : (Passing(a) <=> Passing(a)') /\ (Passing(a) => ctl'[a] = ctl[a])
    BY <2>2 DEF Passing, Stands
  <2>. QED
    BY <2>1, <2>4, <2>5, <2>6, ReflectsStay
<1>. QED
  BY <1>3, <1>4, <1>5, <1>6, <1>7

LEMMA EventReflects ==
  ASSUME WatcherAssumption, WatcherTyped, NEW f \in FolderIds, Alone(f), Watches(f), TakeEvent,
         UNCHANGED <<disk, kernel, tables, maps, pending, due, round, mutex, course>>,
         Reflects(f)
  PROVE  Reflects(f)'
<1>0. "forward" \in Actors
  BY DEF Actors
<1>1. /\ \/ OwnerOf(Head(queue)) = f /\ ctl'["forward"].at \in {"walk", "send"} /\ ctl'["forward"].folder = f
         \/ OwnerOf(Head(queue)) = None
      /\ \A b \in Actors \ {"forward"} : ctl'[b] = ctl[b]
      /\ ~Passing("forward") /\ ~Passing("forward")'
  BY EventWatches
<1>2. CASE ctl'["forward"].at \in {"walk", "send"} /\ ctl'["forward"].folder = f
  BY <1>0, <1>2 DEF Reflects, Excused, Underway
<1>3. CASE OwnerOf(Head(queue)) = None
  <2>1. (\E i \in 1 .. Len(queue) : OwnerOf(queue[i]) = f) => (\E i \in 1 .. Len(queue) : OwnerOf(queue[i]) = f)'
    <3>. SUFFICES ASSUME NEW i \in 1 .. Len(queue), OwnerOf(queue[i]) = f
                  PROVE  (\E j \in 1 .. Len(queue) : OwnerOf(queue[j]) = f)'
      OBVIOUS
    <3>1. /\ Head(queue) = queue[1] /\ Len(queue) \in Nat /\ Len(queue') = Len(queue) - 1
          /\ \A k \in 2 .. Len(queue) : queue'[k - 1] = queue[k]
      BY QueueTails DEF TakeEvent
    <3>2. i # 1
      BY <1>3, <3>1, AloneOwns
    <3>3. i - 1 \in 1 .. Len(queue') /\ queue'[i - 1] = queue[i]
      BY <3>1, <3>2
    <3>4. watchedDirs' = watchedDirs
      BY DEF maps
    <3>5. OwnerOf(queue[i - 1])' = f
      BY <3>3, <3>4 DEF OwnerOf
    <3>. QED
      BY <3>3, <3>5
  <2>2. events' = events /\ pending' = pending /\ round' = round /\ warned' = warned /\ shown' = shown
        /\ version' = version /\ exists' = exists /\ ctl["forward"].at = "idle"
    BY DEF TakeEvent, maps, tables, disk, Stands
  <2>3. Underway(f) => Underway(f)'
    BY <1>1, <2>1, <2>2, UnderwayStays DEF Pending
  <2>4. \A a \in Actors : (Passing(a) <=> Passing(a)') /\ (Passing(a) => ctl'[a] = ctl[a])
    BY <1>1 DEF Passing, Stands
  <2>. QED
    BY <2>2, <2>3, <2>4, ReflectsStay
<1>. QED
  BY <1>1, <1>2, <1>3

LEMMA SendUnderway ==
  ASSUME WatcherAssumption, WatcherTyped, NEW f \in FolderIds, Alone(f), Watches(f), Send,
         UNCHANGED <<disk, kernel, tables, maps, pending, due, round, mutex, course>>
  PROVE  Underway(f)'
<1>1. ctl["forward"].folder = f /\ events \in Seq({f}) /\ Cap \in Nat /\ Cap > 0
  BY SendWatches, AloneOwns DEF WatcherAssumption
<1>2. events' = IF Len(events) < Cap THEN Append(events, f) ELSE events
  BY <1>1 DEF Send
<1>3. CASE Len(events) < Cap
  <2>1. Len(events) + 1 \in 1 .. Len(events') /\ events'[Len(events) + 1] = f
    BY <1>1, <1>2, <1>3
  <2>. QED
    BY <2>1 DEF Underway, Pending
<1>4. CASE ~(Len(events) < Cap)
  <2>1. 1 \in 1 .. Len(events') /\ events'[1] = f
    BY <1>1, <1>2, <1>4
  <2>. QED
    BY <2>1 DEF Underway, Pending
<1>. QED
  BY <1>3, <1>4

(* Below a directory is what is below those in it.                         *)
LEMMA UnderSplits ==
  ASSUME WatcherAssumption, NEW d \in Dirs
  PROVE  \A x \in Under(d) : x = d \/ \E c \in Below(d) : x \in Under(c)
<1>. SUFFICES ASSUME NEW x \in Under(d), x # d PROVE \E c \in Below(d) : x \in Under(c)
  OBVIOUS
<1>1. x \in Dirs /\ Parent[x] \in Dirs /\ d \in {Parent[x], Parent[Parent[x]]}
  BY DEF Under, WatcherAssumption
<1>2. CASE d = Parent[x]
  BY <1>1, <1>2 DEF Below, Under
<1>3. CASE d # Parent[x]
  <2>1. Parent[x] \in Below(d) /\ x \in Under(Parent[x])
    BY <1>1, <1>3 DEF Below, Under
  <2>. QED
    BY <2>1
<1>. QED
  BY <1>2, <1>3

LEMMA UnderInTree ==
  ASSUME WatcherAssumption, NEW f \in FolderIds, NEW d \in Dirs, NEW x \in Under(d), x \in Tree(f)
  PROVE  d \in Tree(f)
<1>1. x \in Dirs /\ Parent[x] \in Dirs /\ Root[f] \in Dirs /\ Parent[Root[f]] = Root[f]
  BY DEF Under, WatcherAssumption
<1>2. d \in {x, Parent[x], Parent[Parent[x]]} /\ Root[f] \in {x, Parent[x], Parent[Parent[x]]}
  BY DEF Under, Tree
<1>. QED
  BY <1>1, <1>2 DEF Under, Tree

(* What a pass reads it has behind it with all that is not there, and it   *)
(* goes into the rest.                                                     *)
LEMMA ReadSweeps ==
  ASSUME WatcherAssumption, ctl \in [Actors -> Controls], version \in [Dirs -> 0 .. MaxChanges],
         NEW f \in FolderIds, NEW a \in Actors, NEW e \in Dirs, Read(a, e), Sweeps(a, f),
         UNCHANGED <<exists, version>>, \A d \in Tree(f) : Sees(a, d)
  PROVE  Sweeps(a, f)' /\ \A d \in Tree(f) : Sees(a, d)'
<1>. DEFINE c == ctl[a]
            n == ctl'[a]
<1>1. /\ e \in c.visit
      /\ \/ /\ e \in exists
            /\ n.visit = (c.visit \ {e}) \cup (Below(e) \cap exists)
            /\ DOMAIN n.seen = DOMAIN c.seen \cup {e} \cup NotThere(e)
         \/ e \notin exists /\ n.visit = c.visit \ {e} /\ n.seen = c.seen
      /\ \A x \in DOMAIN n.seen : \/ x \in DOMAIN c.seen /\ n.seen[x] = c.seen[x]
                                  \/ x \notin DOMAIN c.seen /\ n.seen[x] = version[x]
  BY ReadGoes
<1>2. \A d \in Tree(f) : Sees(a, d)'
  BY <1>1 DEF Sees
<1>3. \A x \in Tree(f) : x \in n.visit => x \in exists
  BY <1>1 DEF Sweeps
<1>4. ASSUME NEW x \in Tree(f), x \notin DOMAIN n.seen PROVE \E y \in n.visit : x \in Under(y)
  <2>1. PICK y \in c.visit : x \in Under(y)
    BY <1>1, <1>4 DEF Sweeps, ToRead
  <2>2. CASE y # e
    BY <1>1, <2>1, <2>2
  <2>3. CASE y = e
    <3>1. e \in exists
      BY <1>1, <2>1, <2>3, UnderInTree DEF Sweeps
    <3>2. x # e /\ x \notin NotThere(e)
      BY <1>1, <1>4, <3>1
    <3>3. PICK z \in Below(e) : x \in Under(z)
      BY <2>1, <2>3, <3>2, UnderSplits
    <3>4. z \in exists
      BY <3>2, <3>3 DEF NotThere
    <3>. QED
      BY <1>1, <3>1, <3>3, <3>4
  <2>. QED
    BY <2>2, <2>3
<1>. QED
  BY <1>2, <1>3, <1>4 DEF Sweeps, ToRead

LEMMA PassReflects ==
  ASSUME WatcherAssumption, WatcherTyped, NEW f \in FolderIds, Alone(f), Watches(f),
         NEW a \in Actors \ {"command"}, Reconcile(a), failures' = 0, f \in folders, Reflects(f)
  PROVE  Reflects(f)'
<1>1. /\ a # "forward" /\ ctl[a].at \in {"wait", "pass"}
      /\ \A b \in Actors \ {a} : ctl'[b] = ctl[b]
      /\ UNCHANGED <<disk, kernel, queue, maps, signals>>
  BY PassGoes
<1>2. /\ ctl[a] \in Controls /\ Fits(a, ctl[a], born, version) /\ ctl[a].folder = f
      /\ ctl \in [Actors -> Controls] /\ version \in [Dirs -> 0 .. MaxChanges] /\ Held
      /\ shown \in [FolderIds -> [Dirs -> 0 .. MaxChanges]] /\ failures \in Nat
      /\ Tree(f) \subseteq Dirs /\ Root[f] \in Tree(f) /\ Root[f] \in Dirs
  BY <1>1, CellOf, AloneOwns DEF WatcherTyped, TablesTyped, CourseTyped, Tree, Under
<1>3. Passing(a) => \A b \in Actors : Passing(b) => b = a
  BY <1>2 DEF Held, Watches, Calm, Passing, Stands
<1>4. (\E i \in 1 .. Len(queue) : OwnerOf(queue[i]) = f) => (\E i \in 1 .. Len(queue) : OwnerOf(queue[i]) = f)'
  BY <1>1 DEF OwnerOf, maps
<1>5. /\ events' = events /\ pending' = pending /\ round' = round /\ warned' = warned
      /\ version' = version /\ exists' = exists
  BY <1>1 DEF signals, maps, disk
<1>6. CASE Lock(a)
  <2>1. /\ ctl'[a].at = "pass" /\ ctl'[a].seen = <<>>
        /\ \A x : x \in ctl'[a].visit <=> x = Root[f]
    BY <1>2, <1>6, LockGoes
  <2>2. ~Excused(f)' => Sweeps(a, f)'
    BY <1>2, <1>5, <2>1 DEF Excused, Sweeps, ToRead, Tree
  <2>3. \A d \in Tree(f) : Sees(a, d)'
    BY <2>1, NothingSeen DEF Sees
  <2>. QED
    BY <2>1, <2>2, <2>3 DEF Reflects, Current, Passing, Stands
<1>7. ASSUME Passing(a), Excused(f) PROVE Reflects(f)'
  <2>1. \A b \in Actors : ctl'[b] = ctl[b] \/ ctl[b].at \notin {"walk", "note", "send", "wait"}
    BY <1>1, <1>7 DEF Passing, Stands
  <2>2. Underway(f) => Underway(f)'
    BY <1>4, <1>5, <2>1, UnderwayStays DEF Pending
  <2>. QED
    BY <1>5, <1>7, <2>2 DEF Reflects, Excused
<1>8. ASSUME Passing(a), ~Excused(f)
      PROVE  Sweeps(a, f) /\ \A d \in Tree(f) : Sees(a, d)
  BY <1>3, <1>8 DEF Reflects, Current
<1>9. ASSUME NEW e \in Dirs, Read(a, e) PROVE Reflects(f)'
  <2>1. Passing(a) /\ Passing(a)'
    BY <1>2, <1>9, ReadGoes DEF Passing, Stands
  <2>2. ~Excused(f) => Sweeps(a, f)' /\ \A d \in Tree(f) : Sees(a, d)'
    BY <1>2, <1>5, <1>8, <1>9, <2>1, ReadSweeps
  <2>. QED
    BY <1>7, <2>1, <2>2 DEF Reflects, Current
<1>10. ASSUME Commit(a), ~Excused(f) PROVE Reflects(f)'
  <2>1. Passing(a) /\ ctl[a].visit = {}
    BY <1>10 DEF Commit, Passing
  <2>2. Tree(f) \subseteq DOMAIN ctl[a].seen /\ \A d \in Tree(f) : ctl[a].seen[d] = version[d]
    BY <1>8, <1>10, <2>1 DEF Sweeps, ToRead, Sees
  <2>3. ~Passing(a)'
    <3>1. ctl[a].passes > 0
      BY <1>2, <2>1 DEF Fits, Passing, Stands
    <3>2. PassEnds(a)
      BY <1>10 DEF Commit
    <3>3. ctl'[a] = Idle \/ ctl'[a].at = "wait"
      BY <1>1, <1>2, <3>1, <3>2, PassEndsGoes
    <3>. QED
      BY <3>3, RestTyped DEF Passing, Stands
  <2>4. \A b \in Actors : ~Passing(b)'
    BY <1>1, <1>3, <2>1, <2>3 DEF Passing, Stands
  <2>5. \A d \in Tree(f) : shown'[f][d] = version'[d]
    <3>1. PICK g \in Outcomes(a, f) : shown' = [shown EXCEPT ![f] = g]
      BY <1>2, <1>10 DEF Commit
    <3>2. \A d \in Tree(f) : g[d] = ctl[a].seen[d]
      BY <2>1, <2>2, OutcomesAre
    <3>3. shown'[f] = g
      BY <1>2, <3>1
    <3>. QED
      BY <1>5, <2>2, <3>2, <3>3
  <2>. QED
    BY <2>4, <2>5 DEF Reflects, Current
<1>11. ASSUME RootGone(a) PROVE Excused(f)
  BY <1>2, <1>8, <1>11 DEF RootGone, Sweeps, Excused, Passing
<1>12. CASE Fail(a)
  BY <1>2, <1>12 DEF Fail
<1>13. Commit(a) \/ RootGone(a) => Passing(a)
  BY DEF Commit, RootGone, Passing
<1>. QED
  BY <1>6, <1>7, <1>9, <1>10, <1>11, <1>12, <1>13 DEF Reconcile

LEMMA AloneStays ==
  ASSUME NEW f, WatcherNext, Alone(f)'
  PROVE  Alone(f)
<1>1. ASSUME NEW a, Reconcile(a) PROVE UNCHANGED <<born, happens>>
  BY <1>1 DEF Reconcile, Lock, Read, Fail, RootGone, Commit, PassEnds, tables, course
<1>2. ASSUME NEW a, WatchTree(a) PROVE UNCHANGED <<born, happens>>
  BY <1>2 DEF WatchTree, tables, course
<1>3. CASE Disk \/ Restart \/ ForwardEvents
  BY <1>2, <1>3 DEF Disk, Restart, ForwardEvents, tables, course, Alone
<1>4. CASE Loop
  BY <1>1, <1>2, <1>4 DEF Loop, tables, course, Alone
<1>5. ASSUME NEW h, Serves(h) PROVE UNCHANGED <<born, happens>>
  BY <1>1, <1>2, <1>5 DEF Serves, AddFolder, RemoveFolder, Unwatch, tables, course
<1>6. ASSUME NEW h, Asked(h) PROVE UNCHANGED happens /\ (born' = born \/ "create" \in happens)
  BY <1>6 DEF Asked, ScanFolder, CreateFolder, DeleteFolderRow, tables, course
<1>. QED
  BY <1>3, <1>4, <1>5, <1>6 DEF WatcherNext, Alone

LEMMA AloneSteps ==
  ASSUME WatcherAssumption, WatcherTyped, NEW f \in FolderIds, Alone(f), Calm, WatcherNext
  PROVE  \/ Disk
         \/ /\ Started \/ Receive \/ Tick \/ Safety \/ \E g \in FolderIds : TakeRound(g) \/ ReconcileOne(g)
            /\ UNCHANGED <<disk, kernel, queue, tables, mutex, course>>
         \/ /\ TakeEvent \/ Send
            /\ UNCHANGED <<disk, kernel, tables, maps, pending, due, round, mutex, course>>
         \/ \E a \in Walkers : WatchTree(a)
         \/ \E a \in Actors \ {"command"} : Reconcile(a)
         \/ \E h \in Handlers : ScanFolder(h, f) /\ UNCHANGED <<disk, queue, signals, mutex, course>>
         \/ Restart
<1>1. CASE Loop
  BY <1>1 DEF Loop, Walkers, Actors
<1>2. CASE ForwardEvents
  BY <1>2 DEF ForwardEvents, Walkers
<1>3. ASSUME NEW h \in Handlers \cup {"command"}, Serves(h)
      PROVE  \E a \in Actors \ {"command"} : Reconcile(a)
  <2>1. ctl[h].at \in {"idle", "wait", "pass"} /\ (h = "command" => ctl[h].at = "idle")
    BY <1>3 DEF Calm, Stands
  <2>2. Reconcile(h) /\ h # "command"
    BY <1>3, <2>1 DEF Serves, AddFolder, RemoveFolder, Unwatch, WatchTree, WalkEnds, NoteOwner, Visit, List,
                      Stands, Reconcile, Lock, Read, Commit, Fail, RootGone
  <2>. QED
    BY <2>2 DEF Actors
<1>4. ASSUME NEW h \in Handlers \cup {"command"}, Asked(h)
      PROVE  h \in Handlers /\ ScanFolder(h, f) /\ UNCHANGED <<disk, queue, signals, mutex, course>>
  <2>1. PICK g \in FolderIds : ScanFolder(h, g) \/ (h # "command" /\ (CreateFolder(h, g) \/ DeleteFolderRow(h, g)))
    BY <1>4 DEF Asked
  <2>2. ScanFolder(h, g)
    BY <2>1 DEF CreateFolder, DeleteFolderRow, Alone
  <2>3. g = f
    BY <2>2, AloneOwns DEF ScanFolder
  <2>4. h # "command"
    BY <2>2 DEF ScanFolder, Alone
  <2>. QED
    BY <1>4, <2>2, <2>3, <2>4 DEF Asked
<1>. QED
  BY <1>1, <1>2, <1>3, <1>4 DEF WatcherNext

LEMMA RestartWatches ==
  ASSUME WatcherAssumption, WatcherTyped, NEW f \in FolderIds, Watches(f), Restart
  PROVE  Watches(f)' /\ watched' = {}
<1>1. /\ watched' = {} /\ watchedDirs' = [d \in Dirs |-> None] /\ round' = folders
      /\ UNCHANGED <<exists, version>>
  BY DEF Restart, disk
<1>. DEFINE o == [Idle EXCEPT !.at = "off"]
<1>2. ctl' = [a \in Actors |-> CASE a = "command" -> ctl[a] [] a = "forward" -> o [] OTHER -> Idle]
  BY DEF Restart
<1>3. o.at = "off" /\ Idle.at = "idle"
  BY OffTyped, RestTyped
<1>. HIDE DEF o
<1>4. /\ \A a \in Walkers : ctl'[a].at \in {"idle", "off"}
      /\ \A h \in Handlers : ctl'[h].at = "idle"
      /\ ctl'["command"] = ctl["command"]
  BY <1>2, <1>3, NoneStandsApart DEF Walkers, Actors, WatcherAssumption
<1>5. \A d \in Dirs : ~Known(d)'
  BY <1>1 DEF Known
<1>6. Calm'
  BY <1>1, <1>4, <1>5 DEF Watches, Calm, Stands
<1>7. \A a \in Walkers : ~Walks(a)'
  BY <1>4 DEF Walks
<1>. QED
  BY <1>1, <1>5, <1>6, <1>7 DEF Watches, WalksWell, Rooted, RootKnown, AllKnown, Boots, Walkers

LEMMA KeepsStep ==
  ASSUME WatcherAssumption, WatcherTyped, NEW f \in FolderIds, Keeps(f), [WatcherNext]_watcherVars
  PROVE  Keeps(f)'
<1>1. CASE UNCHANGED watcherVars
  <2>1. UNCHANGED <<happens, exists, version, kernel, queue, folders, born, shown, watched, watchedDirs,
                    events, pending, due, round, ctl, mutex, warned, failures, restarts>>
    BY <1>1 DEF watcherVars, disk, tables, maps, signals, course
  <2>2. Alone(f)' = Alone(f)
    BY <2>1 DEF Alone
  <2>3. Watches(f) => Watches(f)'
    BY <2>1 DEF Watches, Calm, Known, Stands, WalksWell, Walks, Rooted, RootKnown, AllKnown, RootComes,
                Boots, Announced, Comes, Ahead, OwnerOf
  <2>4. ASSUME Reflects(f) PROVE Reflects(f)'
    <3>1. Underway(f) => Underway(f)'
      BY <2>1 DEF Underway, Pending, OwnerOf
    <3>2. \A a \in Actors : (Passing(a) <=> Passing(a)') /\ (Passing(a) => ctl'[a] = ctl[a])
      BY <2>1 DEF Passing, Stands
    <3>. QED
      BY <2>1, <2>4, <3>1, <3>2, ReflectsStay
  <2>. QED
    BY <2>1, <2>2, <2>3, <2>4 DEF Keeps
<1>2. CASE WatcherNext
  <2>. SUFFICES ASSUME Alone(f)'
                PROVE  /\ Watches(f)'
                       /\ failures' = 0 /\ f \in watched' \cap folders' => Reflects(f)'
    BY DEF Keeps
  <2>1. Alone(f)
    BY <1>2, AloneStays
  <2>2. Watches(f) /\ Calm /\ (failures = 0 /\ f \in watched \cap folders => Reflects(f))
    BY <2>1 DEF Keeps, Watches
  <2>3. CASE Disk
    <3>1. Watches(f)'
      BY <2>1, <2>2, <2>3, DiskWatches
    <3>2. UNCHANGED <<watched, folders, failures>>
      BY <2>3 DEF Disk, tables, maps, course
    <3>. QED
      BY <2>1, <2>2, <2>3, <3>1, <3>2, DiskReflects
  <2>4. CASE /\ Started \/ Receive \/ Tick \/ Safety \/ \E g \in FolderIds : TakeRound(g) \/ ReconcileOne(g)
             /\ UNCHANGED <<disk, kernel, queue, tables, mutex, course>>
    <3>1. Watches(f)'
      BY <2>1, <2>2, <2>4, LoopWatches
    <3>2. UNCHANGED <<folders, failures>>
      BY <2>4 DEF tables, course
    <3>. QED
      BY <2>1, <2>2, <2>4, <3>1, <3>2, LoopReflects
  <2>5. CASE TakeEvent /\ UNCHANGED <<disk, kernel, tables, maps, pending, due, round, mutex, course>>
    <3>1. Watches(f)'
      BY <2>1, <2>2, <2>5, EventWatches
    <3>2. UNCHANGED <<watched, folders, failures>>
      BY <2>5 DEF tables, maps, course
    <3>. QED
      BY <2>1, <2>2, <2>5, <3>1, <3>2, EventReflects
  <2>6. CASE Send /\ UNCHANGED <<disk, kernel, tables, maps, pending, due, round, mutex, course>>
    BY <2>1, <2>2, <2>6, SendWatches, SendUnderway DEF Reflects, Excused
  <2>7. ASSUME NEW a \in Walkers, WatchTree(a)
        PROVE  Watches(f)' /\ Reflects(f)'
    BY <2>1, <2>2, <2>7, WalkWatches, WalkReflects DEF Reflects, Excused
  <2>8. ASSUME NEW a \in Actors \ {"command"}, Reconcile(a)
        PROVE  /\ Watches(f)'
               /\ failures' = 0 /\ f \in watched' \cap folders' => Reflects(f)'
    <3>1. Watches(f)'
      BY <2>1, <2>2, <2>8, PassWatches
    <3>2. UNCHANGED <<watched, folders>>
      BY <2>8, PassGoes DEF maps
    <3>3. failures' = 0 => failures = 0
      <4>1. failures \in Nat
        BY DEF WatcherTyped, CourseTyped
      <4>2. failures' = failures \/ failures' = failures + 1
        BY <2>8 DEF Reconcile, Lock, Read, Commit, Fail, RootGone, course
      <4>. QED
        BY <4>1, <4>2
    <3>. QED
      BY <2>1, <2>2, <2>8, <3>1, <3>2, <3>3, PassReflects
  <2>9. ASSUME NEW h \in Handlers, ScanFolder(h, f), UNCHANGED <<disk, queue, signals, mutex, course>>
        PROVE  Watches(f)' /\ Reflects(f)'
    <3>1. Watches(f)' /\ ctl'[h].at = "wait" /\ ctl'[h].folder = f /\ ctl'[h].passes = 1
      BY <2>2, <2>9, ScanWatches
    <3>2. h \in Actors
      BY DEF Actors
    <3>. QED
      BY <3>1, <3>2 DEF Reflects, Excused, Underway
  <2>10. CASE Restart
    BY <2>2, <2>10, RestartWatches
  <2>. QED
    BY <1>2, <2>1, <2>2, <2>3, <2>4, <2>5, <2>6, <2>7, <2>8, <2>9, <2>10, AloneSteps
<1>. QED
  BY <1>1, <1>2

LEMMA KeepsAtStart ==
  ASSUME WatcherAssumption, WatcherInit, NEW f \in FolderIds
  PROVE  Keeps(f)
<1>1. /\ watched = {} /\ \A d \in Dirs : ~Known(d)
      /\ \A d \in exists : Parent[d] \in exists /\ version[d] > 0
  BY DEF WatcherInit, Booting, Known
<1>. DEFINE o == [Idle EXCEPT !.at = "off"]
<1>2. ctl = [a \in Actors |-> IF a = "forward" THEN o ELSE Idle]
  BY DEF WatcherInit, Booting
<1>3. o.at = "off" /\ Idle.at = "idle"
  BY OffTyped, RestTyped
<1>. HIDE DEF o
<1>4. /\ \A a \in Walkers : ctl[a].at \in {"idle", "off"}
      /\ \A h \in Handlers \cup {"command"} : ctl[h].at = "idle"
  BY <1>2, <1>3, NoneStandsApart DEF Walkers, Actors, WatcherAssumption
<1>5. Calm
  BY <1>1, <1>4 DEF Calm, Stands
<1>6. \A a \in Walkers : ~Walks(a)
  BY <1>4 DEF Walks
<1>. QED
  BY <1>1, <1>5, <1>6 DEF Keeps, Watches, WalksWell, Rooted, RootKnown, AllKnown, Boots

LEMMA KeepsLosesNothing ==
  ASSUME WatcherAssumption, WatcherTyped, \A f \in FolderIds : Keeps(f)
  PROVE  NoLostChange
<1>. SUFFICES ASSUME Undisturbed, NEW f \in watched \cap folders, NEW d \in Tree(f)
              PROVE  \/ f \in warned \/ Root[f] \notin exists
                     \/ shown[f][d] = version[d] \/ Underway(f)
                     \/ \E a \in Actors : WillShow(a, f, d)
  BY DEF NoLostChange
<1>1. f \in FolderIds /\ f \in born /\ failures = 0
  BY DEF WatcherTyped, TablesTyped, Undisturbed
<1>2. Alone(f)
  BY <1>1 DEF Undisturbed, Alone
<1>3. Reflects(f)
  BY <1>1, <1>2 DEF Keeps
<1>4. \A a \in Actors : Passing(a) => ctl[a].folder = f
  BY <1>1, <1>2, AloneOwns DEF Passing, Stands
<1>. QED
  BY <1>3, <1>4 DEF Reflects, Excused, Current, Passing, WillShow, Sweeps, Sees

(* A change of a folder that is not on the periodic pass is in the         *)
(* catalog, in a pass that has read it, or has a pass on its way, wherever *)
(* it fell in a walk, a pass or the handling of another event              *)
(* (watch.go:272-309).                                                     *)
THEOREM NothingIsLost == ASSUME WatcherAssumption PROVE WatcherSpec => []NoLostChange
<1>. DEFINE WatcherInv == WatcherTyped /\ \A f \in FolderIds : Keeps(f)
<1>1. WatcherInit => WatcherInv
  BY WatcherStartsTyped, KeepsAtStart
<1>2. WatcherInv /\ [WatcherNext]_watcherVars => WatcherInv'
  BY WatcherStepTyped, KeepsStep
<1>3. WatcherInv => NoLostChange
  BY KeepsLosesNothing
<1>. QED
  BY <1>1, <1>2, <1>3, PTL DEF WatcherSpec
-----------------------------------------------------------------------------
(* Watcher implements Follower: what the catalog shows of a directory goes *)
(* only where the directory has been, and never back.                      *)
Copy(f, d) == INSTANCE Follower WITH source <- version[d], copy <- shown[f][d], reached <- Root[f] \in exists

(* Who is in a pass goes on with it, unless the server stops.              *)
LEMMA PassesGoOn ==
  ASSUME WatcherTyped, WatcherNext, NEW b \in Actors, Passing(b)
  PROVE  ctl'[b] = ctl[b] \/ Reconcile(b) \/ Restart
<1>0. ctl \in [Actors -> Controls] /\ ctl[b].at = "pass"
  BY DEF WatcherTyped, Carried, Passing, Stands
<1>1. ASSUME NEW a, NEW c, Goes(a, c), a # b PROVE ctl'[b] = ctl[b]
  BY <1>0, <1>1 DEF Goes
<1>2. ASSUME NEW a, WatchTree(a) PROVE ctl'[b] = ctl[b]
  <2>1. a # b
    BY <1>0, <1>2 DEF WatchTree, WalkEnds, NoteOwner, Visit, List, Stands
  <2>. QED
    BY <1>1, <1>2, <2>1 DEF WatchTree, WalkEnds, NoteOwner, Visit, List, Waits
<1>3. ASSUME NEW a, Reconcile(a), a # b PROVE ctl'[b] = ctl[b]
  BY <1>1, <1>3 DEF Reconcile, Lock, Read, Commit, Fail, RootGone, PassEnds, Waits
<1>4. CASE Disk
  BY <1>4 DEF Disk
<1>5. CASE Started \/ Receive \/ Tick \/ Safety \/ \E f \in FolderIds : TakeRound(f) \/ ReconcileOne(f)
  BY <1>0, <1>1, <1>5 DEF Started, Receive, Tick, Safety, TakeRound, ReconcileOne, Add, Selecting, LoopIdle, Stands
<1>6. CASE TakeEvent \/ Send
  BY <1>0, <1>1, <1>6 DEF TakeEvent, Send, Stands
<1>7. ASSUME NEW h, AddFolder(h) \/ RemoveFolder(h) \/ Unwatch(h) PROVE ctl'[b] = ctl[b]
  BY <1>0, <1>1, <1>7 DEF AddFolder, RemoveFolder, Unwatch, Add, Stands
<1>8. ASSUME NEW h, Asked(h) PROVE ctl'[b] = ctl[b]
  BY <1>0, <1>1, <1>8 DEF Asked, ScanFolder, CreateFolder, DeleteFolderRow, Stands
<1>9. CASE Loop
  BY <1>2, <1>3, <1>5, <1>9 DEF Loop
<1>10. CASE ForwardEvents
  BY <1>2, <1>6, <1>10 DEF ForwardEvents
<1>11. ASSUME NEW h, Serves(h) PROVE ctl'[b] = ctl[b] \/ Reconcile(b)
  BY <1>2, <1>3, <1>7, <1>11 DEF Serves
<1>. QED
  BY <1>4, <1>8, <1>9, <1>10, <1>11 DEF WatcherNext

LEMMA HappensStays ==
  ASSUME [WatcherNext]_watcherVars
  PROVE  happens' = happens
<1>1. ASSUME NEW a, Reconcile(a) PROVE happens' = happens
  BY <1>1 DEF Reconcile, Lock, Read, Fail, RootGone, Commit, PassEnds, course
<1>2. ASSUME NEW a, WatchTree(a) PROVE happens' = happens
  BY <1>2 DEF WatchTree, course
<1>3. CASE Loop
  BY <1>1, <1>2, <1>3 DEF Loop, course
<1>4. CASE ForwardEvents \/ Restart \/ Disk \/ UNCHANGED watcherVars
  BY <1>2, <1>4 DEF ForwardEvents, Restart, Disk, course, watcherVars
<1>5. ASSUME NEW h, Serves(h) \/ Asked(h) PROVE happens' = happens
  BY <1>1, <1>2, <1>5 DEF Serves, Asked, course
<1>. QED
  BY <1>3, <1>4, <1>5 DEF WatcherNext

(* Without a command line nobody passes without reconcileMu.               *)
NoCommand == "command" \notin happens /\ Stands("command", "idle")

LEMMA NoCommandStays ==
  ASSUME WatcherAssumption, WatcherTyped, NoCommand, WatcherNext
  PROVE  NoCommand'
<1>0. /\ ctl \in [Actors -> Controls] /\ ctl["command"].at = "idle" /\ "command" \notin happens
      /\ "command" \in Actors /\ "command" \notin Handlers
  BY DEF WatcherTyped, Carried, NoCommand, Stands, Actors, WatcherAssumption
<1>1. ASSUME NEW a, NEW c, Goes(a, c), a # "command" PROVE ctl'["command"] = ctl["command"]
  BY <1>0, <1>1 DEF Goes
<1>. DEFINE Kept == ctl'["command"] = ctl["command"] /\ happens' = happens
<1>. SUFFICES Kept
  BY <1>0 DEF NoCommand, Stands
<1>2. ASSUME NEW a, WatchTree(a) PROVE Kept
  <2>1. a # "command"
    BY <1>0, <1>2 DEF WatchTree, WalkEnds, NoteOwner, Visit, List, Stands
  <2>. QED
    BY <1>1, <1>2, <2>1 DEF WatchTree, WalkEnds, NoteOwner, Visit, List, Waits, course
<1>3. ASSUME NEW a, Reconcile(a) PROVE Kept
  <2>1. a # "command"
    BY <1>0, <1>3 DEF Reconcile, Lock, Read, Commit, Fail, RootGone, Stands
  <2>. QED
    BY <1>1, <1>3, <2>1 DEF Reconcile, Lock, Read, Commit, Fail, RootGone, PassEnds, Waits, course
<1>4. CASE Disk
  BY <1>4 DEF Disk, course
<1>5. CASE /\ Started \/ Receive \/ Tick \/ Safety \/ \E f \in FolderIds : TakeRound(f) \/ ReconcileOne(f)
           /\ UNCHANGED course
  BY <1>1, <1>5 DEF Started, Receive, Tick, Safety, TakeRound, ReconcileOne, Add, course
<1>6. CASE (TakeEvent \/ Send) /\ UNCHANGED course
  BY <1>1, <1>6 DEF TakeEvent, Send, course
<1>7. ASSUME NEW h, AddFolder(h) \/ RemoveFolder(h) \/ Unwatch(h), UNCHANGED course PROVE Kept
  <2>1. h # "command"
    BY <1>0, <1>7 DEF AddFolder, RemoveFolder, Unwatch, Stands
  <2>. QED
    BY <1>1, <1>7, <2>1 DEF AddFolder, RemoveFolder, Unwatch, Add, course
<1>8. ASSUME NEW h, Asked(h) PROVE Kept
  <2>1. h # "command"
    BY <1>0, <1>8 DEF Asked, ScanFolder
  <2>. QED
    BY <1>1, <1>8, <2>1 DEF Asked, ScanFolder, CreateFolder, DeleteFolderRow, course
<1>9. CASE Restart
  BY <1>0, <1>9 DEF Restart
<1>10. CASE Loop
  BY <1>2, <1>3, <1>5, <1>10 DEF Loop
<1>11. CASE ForwardEvents
  BY <1>2, <1>6, <1>11 DEF ForwardEvents
<1>12. ASSUME NEW h, Serves(h) PROVE Kept
  BY <1>2, <1>3, <1>7, <1>12 DEF Serves
<1>. QED
  BY <1>4, <1>8, <1>9, <1>10, <1>11, <1>12 DEF WatcherNext

(* The catalog shows what has been, and a pass read no less than it shows: *)
(* nobody writes between the reading of a pass and its commit.             *)
NotAhead == \A f \in FolderIds, d \in Dirs : shown[f][d] <= version[d]
ReadSince == \A a \in Actors : Passing(a) =>
               \A d \in DOMAIN ctl[a].seen : shown[ctl[a].folder][d] <= ctl[a].seen[d]
GoesOn == NoCommand /\ NotAhead /\ ReadSince

LEMMA VersionsGrow ==
  ASSUME WatcherAssumption, WatcherTyped, WatcherNext
  PROVE  /\ version' = version \/ (Disk /\ UNCHANGED <<shown, folders>>)
         /\ \A d \in Dirs : version[d] <= version'[d]
<1>0. version \in [Dirs -> 0 .. MaxChanges] /\ MaxChanges \in Nat
  BY DEF WatcherTyped, DiskTyped, WatcherAssumption
<1>1. ASSUME NEW a, Reconcile(a) PROVE version' = version
  BY <1>1 DEF Reconcile, Lock, Read, Fail, RootGone, Commit, PassEnds, disk
<1>2. ASSUME NEW a, WatchTree(a) PROVE version' = version
  BY <1>2 DEF WatchTree, disk
<1>3. ASSUME Loop PROVE version' = version
  BY <1>1, <1>2, <1>3 DEF Loop, disk
<1>4. ASSUME ForwardEvents \/ Restart PROVE version' = version
  BY <1>2, <1>4 DEF ForwardEvents, Restart, disk
<1>5. ASSUME NEW h, Serves(h) \/ Asked(h) PROVE version' = version
  BY <1>1, <1>2, <1>5 DEF Serves, Asked, disk
<1>6. CASE Disk
  <2>1. PICK e \in Dirs : version' = [version EXCEPT ![e] = @ + 1]
    BY <1>6 DEF Disk, Change, MakeDir, RemoveDir
  <2>. QED
    BY <1>0, <1>6, <2>1 DEF Disk, tables
<1>. QED
  BY <1>0, <1>3, <1>4, <1>5, <1>6 DEF WatcherNext

(* What a commit writes.                                                   *)
LEMMA CommitFollows ==
  ASSUME WatcherAssumption, WatcherTyped, GoesOn, NEW a \in Actors, Commit(a)
  PROVE  /\ a # "command" /\ mutex' = None
         /\ \A f \in FolderIds, d \in Dirs : shown'[f][d] <= version[d]
         /\ \A f \in FolderIds : \A d \in Tree(f) : shown[f][d] <= shown'[f][d]
<1>. DEFINE c == ctl[a]
            k == ctl[a].folder
<1>1. c.at = "pass" /\ Passing(a)
  BY DEF Commit, Passing, Stands
<1>2. a # "command" /\ mutex' = None
  BY <1>1 DEF GoesOn, NoCommand, Stands, Commit, PassEnds, Locks
<1>3. /\ Fits(a, c, born, version) /\ k \in FolderIds /\ version \in [Dirs -> 0 .. MaxChanges]
      /\ c.seen \in Records
  BY <1>1, CellOf
<1>4. /\ shown \in [FolderIds -> [Dirs -> 0 .. MaxChanges]] /\ MaxChanges \in Nat
      /\ \A f \in FolderIds : Tree(f) \subseteq Dirs
  BY DEF WatcherTyped, TablesTyped, WatcherAssumption, Tree, Under
<1>5. \A f \in FolderIds, d \in Dirs : shown[f][d] <= version[d] /\ shown[f][d] \in 0 .. MaxChanges
  BY <1>4 DEF GoesOn, NotAhead
<1>6. CASE shown' = shown
  BY <1>2, <1>4, <1>5, <1>6
<1>7. ASSUME NEW g \in Outcomes(a, k), shown' = [shown EXCEPT ![k] = g]
      PROVE  /\ \A f \in FolderIds, d \in Dirs : shown'[f][d] <= version[d]
             /\ \A f \in FolderIds : \A d \in Tree(f) : shown[f][d] <= shown'[f][d]
  <2>1. /\ \A d \in Dirs : g[d] = 0 \/ (d \in DOMAIN c.seen /\ g[d] = c.seen[d]) \/ g[d] = shown[k][d]
        /\ \A d \in Tree(k) : (d \in DOMAIN c.seen /\ g[d] = c.seen[d]) \/ g[d] = shown[k][d]
    BY <1>1, <1>3, OutcomesAre
  <2>2. \A d \in DOMAIN c.seen : c.seen[d] <= version[d] /\ shown[k][d] <= c.seen[d]
    BY <1>1, <1>3 DEF Fits, GoesOn, ReadSince
  <2>3. \A d \in Dirs : g[d] <= version[d]
    BY <1>3, <1>5, <2>1, <2>2
  <2>4. \A d \in Tree(k) : shown[k][d] <= g[d]
    BY <1>3, <1>4, <1>5, <2>1, <2>2
  <2>. HIDE DEF k
  <2>5. \A f \in FolderIds : shown'[f] = IF f = k THEN g ELSE shown[f]
    BY <1>4, <1>7
  <2>6. ASSUME NEW f \in FolderIds, NEW d \in Dirs PROVE shown'[f][d] <= version[d]
    BY <1>5, <2>3, <2>5
  <2>7. ASSUME NEW f \in FolderIds, NEW d \in Tree(f) PROVE shown[f][d] <= shown'[f][d]
    <3>1. d \in Dirs /\ shown[f][d] \in Nat
      BY <1>4, <1>5
    <3>. QED
      BY <2>4, <2>5, <3>1
  <2>. QED
    BY <2>6, <2>7
<1>8. shown' = shown \/ \E g \in Outcomes(a, k) : shown' = [shown EXCEPT ![k] = g]
  BY DEF Commit
<1>. QED
  BY <1>2, <1>6, <1>7, <1>8

LEMMA MutexChanges ==
  ASSUME WatcherNext
  PROVE  mutex' = mutex \/ mutex' = None \/ \E a \in Actors : Lock(a) /\ mutex' = a
<1>1. ASSUME NEW a \in Actors, Reconcile(a)
      PROVE  mutex' = mutex \/ mutex' = None \/ (Lock(a) /\ mutex' = a)
  BY <1>1 DEF Reconcile, Lock, Read, Fail, RootGone, Commit, PassEnds
<1>2. ASSUME NEW a, WatchTree(a) PROVE mutex' = mutex
  BY <1>2 DEF WatchTree
<1>3. CASE Loop
  BY <1>1, <1>2, <1>3 DEF Loop, Actors
<1>4. CASE ForwardEvents \/ Restart \/ Disk
  BY <1>2, <1>4 DEF ForwardEvents, Restart, Disk
<1>5. ASSUME NEW h \in Handlers \cup {"command"}, Serves(h) \/ Asked(h)
      PROVE  mutex' = mutex \/ mutex' = None \/ \E a \in Actors : Lock(a) /\ mutex' = a
  BY <1>1, <1>2, <1>5 DEF Serves, Asked, Actors
<1>. QED
  BY <1>3, <1>4, <1>5 DEF WatcherNext

(* Who is in a pass after a step was in it before, or has read nothing.    *)
LEMMA PassesStand ==
  ASSUME WatcherAssumption, WatcherTyped, NoCommand, WatcherNext, NEW b \in Actors, Passing(b)'
  PROVE  /\ mutex' = b
         /\ \/ ctl'[b] = ctl[b] /\ Passing(b)
            \/ ctl'[b].seen = <<>>
            \/ \E d \in Dirs : Read(b, d)
<1>1. NoCommand' /\ WatcherTyped'
  BY NoCommandStays, WatcherStepTyped
<1>2. b # "command"
  BY <1>1 DEF NoCommand, Passing, Stands
<1>3. mutex' = b /\ b # None
  BY <1>1, <1>2, NoneStandsApart DEF WatcherTyped, Held
<1>4. CASE mutex = b
  <2>1. Passing(b)
    BY <1>2, <1>4 DEF WatcherTyped, Held
  <2>2. CASE Reconcile(b)
    BY <1>2, <1>3, <2>1, <2>2 DEF Reconcile, Lock, RootGone, Commit, Fail, PassEnds, Locks, Passing, Stands
  <2>3. ~Restart
    BY <1>3 DEF Restart
  <2>. QED
    BY <1>3, <2>1, <2>2, <2>3, PassesGoOn
<1>5. CASE mutex # b
  <2>1. Lock(b)
    BY <1>3, <1>5, MutexChanges
  <2>2. ctl[b].folder \in FolderIds
    BY <2>1, CellOf DEF Lock, Stands
  <2>3. ctl'[b].seen = <<>>
    BY <2>1, <2>2, CellOf, LockGoes
  <2>. QED
    BY <1>3, <2>3
<1>. QED
  BY <1>4, <1>5

LEMMA ShownChanges ==
  ASSUME WatcherNext
  PROVE  \/ shown' = shown
         \/ \E a \in Actors : Commit(a)
         \/ \E f \in FolderIds : /\ "delete" \in happens /\ f \notin folders'
                                 /\ shown' = [shown EXCEPT ![f] = [d \in Dirs |-> 0]]
<1>1. ASSUME NEW h \in Handlers, NEW f \in FolderIds, DeleteFolderRow(h, f)
      PROVE  /\ "delete" \in happens /\ f \notin folders'
             /\ shown' = [shown EXCEPT ![f] = [d \in Dirs |-> 0]]
  BY <1>1 DEF DeleteFolderRow
<1>2. ASSUME NEW h \in Handlers, NEW f \in FolderIds, CreateFolder(h, f) PROVE shown' = shown
  BY <1>2 DEF CreateFolder
<1>. QED
  BY <1>1, <1>2, TablesStand

(* What a step may do to what is shown of a folder.                        *)
LEMMA ShownFollows ==
  ASSUME WatcherAssumption, WatcherTyped, GoesOn, WatcherNext
  PROVE  /\ \A f \in FolderIds, d \in Dirs : shown'[f][d] <= version[d]
         /\ \A f \in FolderIds : \A d \in Tree(f) :
              shown[f][d] <= shown'[f][d] \/ ("delete" \in happens /\ f \notin folders')
         /\ shown' # shown => version' = version
<1>0. /\ version \in [Dirs -> 0 .. MaxChanges] /\ shown \in [FolderIds -> [Dirs -> 0 .. MaxChanges]]
      /\ \A f \in FolderIds, d \in Dirs : shown[f][d] <= version[d]
      /\ MaxChanges \in Nat /\ \A f \in FolderIds : Tree(f) \subseteq Dirs
  BY DEF WatcherTyped, TablesTyped, DiskTyped, WatcherAssumption, GoesOn, NotAhead, Tree, Under
<1>1. shown' # shown => version' = version
  BY VersionsGrow
<1>2. CASE shown' = shown
  BY <1>0, <1>1, <1>2
<1>3. ASSUME NEW a \in Actors, Commit(a)
      PROVE  /\ \A f \in FolderIds, d \in Dirs : shown'[f][d] <= version[d]
             /\ \A f \in FolderIds : \A d \in Tree(f) : shown[f][d] <= shown'[f][d]
  BY <1>3, CommitFollows
<1>4. ASSUME NEW g \in FolderIds, "delete" \in happens, g \notin folders',
             shown' = [shown EXCEPT ![g] = [d \in Dirs |-> 0]]
      PROVE  /\ \A f \in FolderIds, d \in Dirs : shown'[f][d] <= version[d]
             /\ \A f \in FolderIds : \A d \in Tree(f) : shown[f][d] <= shown'[f][d] \/ f \notin folders'
  BY <1>0, <1>4
<1>. QED
  BY <1>1, <1>2, <1>3, <1>4, ShownChanges

LEMMA GoesOnStep ==
  ASSUME WatcherAssumption, WatcherTyped, GoesOn, [WatcherNext]_watcherVars
  PROVE  GoesOn'
<1>1. CASE UNCHANGED watcherVars
  BY <1>1 DEF watcherVars, course, disk, tables, GoesOn, NoCommand, NotAhead, ReadSince, Passing, Stands
<1>2. CASE WatcherNext
  <2>0. /\ version \in [Dirs -> 0 .. MaxChanges] /\ shown \in [FolderIds -> [Dirs -> 0 .. MaxChanges]]
        /\ MaxChanges \in Nat
    BY DEF WatcherTyped, TablesTyped, DiskTyped, WatcherAssumption
  <2>1. WatcherTyped' /\ NoCommand'
    BY <1>2, WatcherStepTyped, NoCommandStays DEF GoesOn
  <2>2. \A d \in Dirs : version[d] <= version'[d]
    BY <1>2, VersionsGrow
  <2>3. shown' \in [FolderIds -> [Dirs -> 0 .. MaxChanges]] /\ version' \in [Dirs -> 0 .. MaxChanges]
    BY <2>1 DEF WatcherTyped, TablesTyped, DiskTyped
  <2>4. \A f \in FolderIds, d \in Dirs : shown'[f][d] <= version[d]
    BY <1>2, ShownFollows
  <2>5. NotAhead'
    <3>1. ASSUME NEW f \in FolderIds, NEW d \in Dirs PROVE shown'[f][d] <= version'[d]
      BY <2>0, <2>2, <2>3, <2>4
    <3>. QED
      BY <3>1 DEF NotAhead
  <2>6. ASSUME NEW b \in Actors, Passing(b)', NEW d \in DOMAIN ctl'[b].seen
        PROVE  shown'[ctl'[b].folder][d] <= ctl'[b].seen[d]
    <3>1. /\ mutex' = b
          /\ \/ ctl'[b] = ctl[b] /\ Passing(b)
             \/ ctl'[b].seen = <<>>
             \/ \E e \in Dirs : Read(b, e)
      BY <1>2, <2>6, PassesStand DEF GoesOn
    <3>2. b # None /\ ctl'[b].seen # <<>>
      BY <2>1, <2>6, NothingSeen, NoneStandsApart DEF NoCommand, Passing, Stands
    <3>3. CASE ctl'[b] = ctl[b] /\ Passing(b)
      <4>1. /\ ctl[b].folder \in FolderIds /\ ctl[b].seen \in Records
            /\ shown[ctl[b].folder][d] <= ctl[b].seen[d]
        BY <2>6, <3>3, CellOf DEF GoesOn, ReadSince, Passing, Stands
      <4>2. d \in Dirs /\ ctl[b].seen[d] \in 0 .. MaxChanges
        BY <2>6, <3>3, <4>1, SeenDomain
      <4>3. ~\E a \in Actors : Commit(a)
        BY <3>1, <3>2, CommitFollows
      <4>4. shown'[ctl[b].folder][d] <= shown[ctl[b].folder][d]
        BY <1>2, <2>0, <4>1, <4>2, <4>3, ShownChanges
      <4>. QED
        BY <2>0, <2>3, <3>3, <4>1, <4>2, <4>4
    <3>4. ASSUME NEW e \in Dirs, Read(b, e) PROVE shown'[ctl'[b].folder][d] <= ctl'[b].seen[d]
      <4>1. /\ ctl[b].at = "pass" /\ ctl'[b].folder = ctl[b].folder
            /\ \A x \in DOMAIN ctl'[b].seen :
                 \/ x \in DOMAIN ctl[b].seen /\ ctl'[b].seen[x] = ctl[b].seen[x]
                 \/ x \notin DOMAIN ctl[b].seen /\ ctl'[b].seen[x] = version[x]
        BY <3>4, CellOf, ReadGoes
      <4>2. shown' = shown /\ ctl[b].folder \in FolderIds
        BY <3>4, <4>1, CellOf DEF Read, tables
      <4>3. CASE d \notin DOMAIN ctl[b].seen
        <5>1. ctl'[b] \in Controls
          BY <2>1, CellOf DEF WatcherTyped, Carried
        <5>2. d \in Dirs
          BY <2>6, <5>1, SeenDomain, ControlsAre
        <5>. QED
          BY <2>0, <2>6, <4>1, <4>2, <4>3, <5>2 DEF GoesOn, NotAhead
      <4>4. CASE d \in DOMAIN ctl[b].seen
        BY <2>6, <4>1, <4>2, <4>4 DEF GoesOn, ReadSince, Passing, Stands
      <4>. QED
        BY <4>3, <4>4
    <3>. QED
      BY <3>1, <3>2, <3>3, <3>4
  <2>. QED
    BY <2>1, <2>5, <2>6 DEF GoesOn, ReadSince
<1>. QED
  BY <1>1, <1>2

(* Every step of the watcher follows the directory, leaves it be, or is    *)
(* the deletion of the folder.                                             *)
LEMMA StepFollows ==
  ASSUME WatcherAssumption, WatcherTyped, GoesOn, [WatcherNext]_watcherVars,
         NEW f \in FolderIds, NEW d \in Tree(f), f \in folders' \/ "delete" \notin happens
  PROVE  [Copy(f, d)!Next]_<<version[d], shown[f][d]>>
<1>0. d \in Dirs /\ version[d] \in Nat /\ shown[f][d] \in Nat
  BY DEF WatcherTyped, TablesTyped, DiskTyped, Tree, Under
<1>1. CASE UNCHANGED watcherVars
  BY <1>1 DEF watcherVars, disk, tables
<1>2. CASE WatcherNext
  <2>1. WatcherTyped'
    BY <1>2, WatcherStepTyped
  <2>2. version'[d] \in Nat /\ shown'[f][d] \in Nat
    BY <1>0, <2>1 DEF WatcherTyped, TablesTyped, DiskTyped
  <2>3. shown[f][d] <= shown'[f][d] /\ shown'[f][d] <= version[d] /\ version[d] <= version'[d]
    BY <1>0, <1>2, ShownFollows, VersionsGrow
  <2>4. shown' = shown \/ version' = version
    BY <1>2, ShownFollows
  <2>. QED
    BY <1>0, <2>2, <2>3, <2>4 DEF Copy!Next, Copy!Changes, Copy!Follows
<1>. QED
  BY <1>1, <1>2

LEMMA GoesOnAtStart ==
  ASSUME WatcherAssumption, WatcherInit, "command" \notin happens
  PROVE  GoesOn
<1>1. WatcherTyped
  BY WatcherStartsTyped
<1>2. /\ "command" \in Actors /\ "command" # "forward"
      /\ ctl = [a \in Actors |-> IF a = "forward" THEN [Idle EXCEPT !.at = "off"] ELSE Idle]
  BY DEF Actors, WatcherInit, Booting
<1>3. NoCommand
  BY <1>2, RestTyped DEF NoCommand, Stands
<1>4. NotAhead
  BY <1>1 DEF WatcherTyped, DiskTyped, NotAhead, WatcherInit
<1>5. ASSUME NEW a \in Actors PROVE ~Passing(a)
  BY <1>2, OffTyped, RestTyped DEF Passing, Stands
<1>. QED
  BY <1>3, <1>4, <1>5 DEF GoesOn, ReadSince

(* Of each directory of a folder the catalog shows only versions that were *)
(* there, and none older than before, however passes, requests, failures   *)
(* and restarts of the server meet; the command line, which takes no       *)
(* reconcileMu, is not running, and the folder is not deleted              *)
(* (watch.go:367-369).  These are the steps of Follower.                   *)
THEOREM CatalogFollows ==
  ASSUME WatcherAssumption, NEW f \in FolderIds, NEW d \in Tree(f)
  PROVE  WatcherSpec /\ "command" \notin happens /\ "delete" \notin happens => Copy(f, d)!Steps
<1>. DEFINE I == WatcherTyped /\ GoesOn /\ "delete" \notin happens
<1>1. WatcherInit /\ "command" \notin happens /\ "delete" \notin happens => I /\ Copy(f, d)!Init
  <2>1. WatcherInit => version[d] \in Nat /\ shown[f][d] = 0
    BY DEF WatcherInit, Tree, Under
  <2>. QED
    BY <2>1, WatcherStartsTyped, GoesOnAtStart DEF Copy!Init
<1>2. I /\ [WatcherNext]_watcherVars => I'
  BY WatcherStepTyped, GoesOnStep, HappensStays
<1>3. I /\ [WatcherNext]_watcherVars => [Copy(f, d)!Next]_<<version[d], shown[f][d]>>
  BY StepFollows
<1>. QED
  BY <1>1, <1>2, <1>3, PTL DEF WatcherSpec, Copy!Steps

(* With folders deleted as well, the catalog goes back with the deletion   *)
(* only, which shows nothing of the folder from then on.                   *)
THEOREM CatalogNeverGoesBack ==
  ASSUME WatcherAssumption, NEW f \in FolderIds, NEW d \in Tree(f)
  PROVE  WatcherSpec /\ "command" \notin happens
         => [][(f \in folders') => shown[f][d] <= shown'[f][d] /\ shown'[f][d] <= version[d]]_watcherVars
<1>1. WatcherInit /\ "command" \notin happens => WatcherTyped /\ GoesOn
  BY WatcherStartsTyped, GoesOnAtStart
<1>2. WatcherTyped /\ GoesOn /\ [WatcherNext]_watcherVars => (WatcherTyped /\ GoesOn)'
  BY WatcherStepTyped, GoesOnStep
<1>3. WatcherTyped /\ GoesOn /\ [WatcherNext]_watcherVars
      => [(f \in folders') => shown[f][d] <= shown'[f][d] /\ shown'[f][d] <= version[d]]_watcherVars
  BY ShownFollows DEF Tree, Under
<1>. QED
  BY <1>1, <1>2, <1>3, PTL DEF WatcherSpec

-----------------------------------------------------------------------------
(* Catalog: its state is well formed.                                      *)
Listings == [entry : Entries \cup {Absent}, changes : Nat]
Observations == [how : {"unchanged", "read", "unservable"}, bytes : Contents, stat : Nat, path : Places,
                 replaces : BOOLEAN, changes : Nat]
OfSome(S) == UNION {[D -> S] : D \in SUBSET Keys}
Trips == [stage : {"off", "list", "read"}, listed : OfSome(Listings), known : OfSome(Rows \cup {Absent}),
          obs : OfSome(Observations), complete : BOOLEAN]

FolderTyped ==
  /\ files \in [Keys -> Entries \cup {Absent}] /\ changes \in [Keys -> Nat] /\ mounted \in BOOLEAN
RowsTyped == books \in [Keys -> Rows \cup {Absent}] /\ rowsMade \in [Keys -> Nat]
GraphTyped ==
  /\ mapping \in [Keys -> works \cup {Absent}]
  /\ alias \in [Digests -> works \cup {Absent}] /\ edition \in [Digests -> works \cup {Absent}]
  /\ works \subseteq Works /\ history \subseteq works

(* What a pass holds.                                                      *)
KeepsStage(p) ==
  /\ p.stage = "off" => p = Off
  /\ p.stage \in {"off", "list"} => DOMAIN p.obs = {} /\ p.complete
  /\ p.stage = "read" => DOMAIN p.listed = Keys /\ DOMAIN p.known = Keys
  /\ \A k \in DOMAIN p.obs : p.obs[k].how = "read" => p.obs[k].bytes # Absent
TripsTyped == pass \in [Passes -> Trips] /\ \A a \in Passes : KeepsStage(pass[a])

CatalogTyped == FolderTyped /\ RowsTyped /\ GraphTyped /\ TripsTyped

(* A pass against the folder and the rows it is about to write, when no    *)
(* other pass writes them.                                                 *)
Same(a, k) == pass[a].listed[k].changes = changes[k]
MatchesFolder(a) == \A k \in DOMAIN pass[a].listed : Same(a, k) => pass[a].listed[k].entry = files[k]
Blanked(a) == \A k \in DOMAIN pass[a].listed : pass[a].listed[k].entry = Absent

ListedSoFar(a) == \A k \in DOMAIN pass[a].listed :
  /\ pass[a].listed[k].changes <= changes[k]
  /\ books[k] # Absent => books[k].read <= pass[a].listed[k].changes
  /\ Same(a, k) => pass[a].listed[k].entry \in {files[k], Absent}

SeesAll(a) ==
  /\ Stage(a) # "off" /\ IsCalibre => mounted
  /\ Stage(a) = "list" => IF mounted THEN MatchesFolder(a) ELSE Blanked(a)
  /\ Stage(a) = "read" /\ pass[a].complete => MatchesFolder(a) \/ Blanked(a)

KnowsRows(a) == Stage(a) = "read" => \A k \in Keys : books[k] # Absent => books[k] = pass[a].known[k]

IsNow(x, k) == x # Absent /\ files[k] # Absent /\ x.changes = changes[k]

ObservesWell(a, k) == LET o == Obs(a, k) IN
  /\ pass[a].listed[k].entry # Absent
  /\ o.changes <= changes[k]
  /\ IF IsCalibre
     THEN /\ o.how # "unchanged" /\ ~o.replaces
          /\ o.how = "unservable" /\ Same(a, k) /\ files[k] # Absent => files[k].bytes = Absent
     ELSE /\ o.how # "unservable"
          /\ o.how = "unchanged" => pass[a].known[k] # Absent /\ o.bytes = pass[a].known[k].bytes
          /\ o.changes = changes[k] /\ files[k] # Absent => o.bytes = files[k].bytes
          /\ o.replaces /\ books[k] # Absent /\ files[k] # Absent => books[k].read # changes[k]

Observing(a) == \A k \in Observed(a) : ObservesWell(a, k)

(* A plain folder.  One size and time mean one content.                    *)
Versions(k) ==
  (({files[k], books[k]}
    \cup {pass[a].known[k] : a \in {b \in Passes : Stage(b) = "read"}}) \ {Absent})
  \cup {pass[a].obs[k] : a \in {b \in Passes : k \in DOMAIN pass[b].obs}}
StatsTell == \A k \in Keys : \A x, y \in Versions(k) :
  x.stat <= changes[k] /\ (x.stat = y.stat => x.bytes = y.bytes)
AtKeys == \A k \in Keys :
  /\ files[k] # Absent => files[k].path = k
  /\ \A a \in Passes : k \in DOMAIN pass[a].listed /\ pass[a].listed[k].entry # Absent
                       => pass[a].listed[k].entry.path = k
RowsAreRead == \A k \in Keys :
  books[k] # Absent /\ files[k] # Absent /\ books[k].read = changes[k] => books[k].bytes = files[k].bytes

PlainHolds == ~IsCalibre => StatsTell /\ AtKeys /\ RowsAreRead

ReadBefore == \A k \in Keys : books[k] # Absent => books[k].read <= changes[k]

FolderFollows ==
  /\ ReadBefore /\ PlainHolds
  /\ \A a \in Passes : ListedSoFar(a) /\ SeesAll(a) /\ KnowsRows(a) /\ Observing(a)

LEMMA NothingYet == ASSUME NEW S PROVE <<>> \in OfSome(S) /\ DOMAIN <<>> = {}
<1>1. <<>> \in [{} -> S] /\ {} \in SUBSET Keys
  OBVIOUS
<1>. QED
  BY <1>1 DEF OfSome

LEMMA OneMore ==
  ASSUME NEW S, NEW f \in OfSome(S), NEW k \in Keys, NEW x \in S
  PROVE  /\ With(f, k, x) \in OfSome(S) /\ DOMAIN With(f, k, x) = DOMAIN f \cup {k}
         /\ With(f, k, x)[k] = x /\ \A j \in DOMAIN f : j # k => With(f, k, x)[j] = f[j]
<1>1. PICK D \in SUBSET Keys : f \in [D -> S]
  BY DEF OfSome
<1>2. With(f, k, x) \in [D \cup {k} -> S] /\ D \cup {k} \in SUBSET Keys
  BY <1>1 DEF With
<1>3. \A j \in DOMAIN f \cup {k} : With(f, k, x)[j] = IF j = k THEN x ELSE f[j]
  BY DEF With
<1>. QED
  BY <1>1, <1>2, <1>3 DEF OfSome

LEMMA SomeAre ==
  ASSUME NEW S, NEW f \in OfSome(S)
  PROVE  DOMAIN f \subseteq Keys /\ \A k \in DOMAIN f : f[k] \in S
  BY DEF OfSome

LEMMA AllAreSome == ASSUME NEW S, NEW f \in [Keys -> S] PROVE f \in OfSome(S)
  BY DEF OfSome

(* What each step makes of a pass.                                         *)
LEMMA TripRests == Off \in Trips /\ KeepsStage(Off) /\ Off.stage = "off" /\ DOMAIN Off.obs = {}
<1>1. <<>> \in OfSome(Listings) /\ <<>> \in OfSome(Rows \cup {Absent}) /\ <<>> \in OfSome(Observations)
  BY NothingYet
<1>2. Off \in Trips
  BY <1>1 DEF Off, Trips
<1>. QED
  BY <1>2, NothingYet DEF Off, KeepsStage

LEMMA TripStarts ==
  ASSUME NEW L \in OfSome(Listings)
  PROVE  LET n == [Off EXCEPT !.stage = "list", !.listed = L]
         IN  n \in Trips /\ KeepsStage(n) /\ n.stage = "list" /\ n.listed = L /\ DOMAIN n.obs = {} /\ n.complete
<1>1. ASSUME NEW r \in Trips
      PROVE  LET n == [r EXCEPT !.stage = "list", !.listed = L]
             IN  n \in Trips /\ n.stage = "list" /\ n.listed = L /\ n.obs = r.obs /\ n.complete = r.complete
  BY DEF Trips
<1>2. Off \in Trips /\ DOMAIN Off.obs = {} /\ Off.complete
  BY TripRests DEF Off
<1>. QED
  BY <1>1, <1>2 DEF KeepsStage

LEMMA TripLists ==
  ASSUME NEW p \in Trips, NEW L \in OfSome(Listings)
  PROVE  LET n == [p EXCEPT !.listed = L]
         IN  /\ n \in Trips /\ n.listed = L
             /\ n.stage = p.stage /\ n.known = p.known /\ n.obs = p.obs /\ n.complete = p.complete
  BY DEF Trips

LEMMA TripKnows ==
  ASSUME NEW p \in Trips, NEW B \in [Keys -> Rows \cup {Absent}]
  PROVE  LET n == [p EXCEPT !.stage = "read", !.known = B]
         IN  /\ n \in Trips /\ n.stage = "read" /\ n.known = B
             /\ n.listed = p.listed /\ n.obs = p.obs /\ n.complete = p.complete
<1>1. B \in OfSome(Rows \cup {Absent})
  BY AllAreSome
<1>. QED
  BY <1>1 DEF Trips

LEMMA TripObserves ==
  ASSUME NEW p \in Trips, NEW O \in OfSome(Observations)
  PROVE  LET n == [p EXCEPT !.obs = O]
         IN  /\ n \in Trips /\ n.obs = O
             /\ n.stage = p.stage /\ n.known = p.known /\ n.listed = p.listed /\ n.complete = p.complete
  BY DEF Trips

LEMMA TripMisses ==
  ASSUME NEW p \in Trips, NEW k \in DOMAIN p.listed
  PROVE  LET n == [p EXCEPT !.complete = FALSE, !.listed[k].entry = Absent]
         IN  /\ n \in Trips /\ ~n.complete
             /\ n.stage = p.stage /\ n.known = p.known /\ n.obs = p.obs
             /\ DOMAIN n.listed = DOMAIN p.listed
             /\ n.listed[k].entry = Absent /\ n.listed[k].changes = p.listed[k].changes
             /\ \A j \in DOMAIN p.listed : j # k => n.listed[j] = p.listed[j]
<1>. DEFINE l == [p.listed[k] EXCEPT !.entry = Absent]
            L == [p.listed EXCEPT ![k] = l]
            n == [p EXCEPT !.complete = FALSE, !.listed[k].entry = Absent]
<1>0. p.listed \in OfSome(Listings) /\ p \in Trips
  BY DEF Trips
<1>1. p.listed[k] \in Listings /\ k \in Keys
  BY <1>0, SomeAre
<1>2. l \in Listings /\ l.entry = Absent /\ l.changes = p.listed[k].changes
  BY <1>1 DEF Listings
<1>. HIDE DEF l
<1>3. PICK D \in SUBSET Keys : p.listed \in [D -> Listings]
  BY <1>0 DEF OfSome
<1>4. L \in [D -> Listings] /\ L[k] = l /\ \A j \in DOMAIN p.listed : j # k => L[j] = p.listed[j]
  BY <1>2, <1>3
<1>5. L \in OfSome(Listings) /\ DOMAIN L = DOMAIN p.listed
  BY <1>3, <1>4 DEF OfSome
<1>6. n = [p EXCEPT !.complete = FALSE, !.listed = L]
  BY <1>0, <1>3 DEF Trips, l
<1>. HIDE DEF L, n
<1>7. /\ n \in Trips /\ ~n.complete /\ n.listed = L
      /\ n.stage = p.stage /\ n.known = p.known /\ n.obs = p.obs
  BY <1>5, <1>6 DEF Trips
<1>. QED
  BY <1>2, <1>4, <1>5, <1>7 DEF n

LEMMA PassSteps ==
  ASSUME TripsTyped, NEW a \in Passes, NEW n \in Trips, Steps(a, n)
  PROVE  pass' \in [Passes -> Trips] /\ pass'[a] = n /\ \A b \in Passes : b # a => pass'[b] = pass[b]
  BY DEF Steps, TripsTyped

LEMMA TripIs ==
  ASSUME CatalogTyped, NEW a \in Passes
  PROVE  /\ pass[a] \in Trips /\ KeepsStage(pass[a]) /\ TripsTyped
         /\ pass[a].stage \in {"off", "list", "read"} /\ pass[a].complete \in BOOLEAN
         /\ pass[a].listed \in OfSome(Listings) /\ DOMAIN pass[a].listed \subseteq Keys
         /\ \A k \in DOMAIN pass[a].listed : /\ pass[a].listed[k] \in Listings
                                             /\ pass[a].listed[k].entry \in Entries \cup {Absent}
                                             /\ pass[a].listed[k].changes \in Nat
         /\ pass[a].known \in OfSome(Rows \cup {Absent})
         /\ \A k \in DOMAIN pass[a].known : pass[a].known[k] \in Rows \cup {Absent}
         /\ pass[a].obs \in OfSome(Observations) /\ DOMAIN pass[a].obs \subseteq Keys
         /\ \A k \in DOMAIN pass[a].obs : pass[a].obs[k] \in Observations
<1>1. pass[a] \in Trips /\ KeepsStage(pass[a]) /\ TripsTyped
  BY DEF CatalogTyped, TripsTyped
<1>2. /\ pass[a].stage \in {"off", "list", "read"} /\ pass[a].complete \in BOOLEAN
      /\ pass[a].listed \in OfSome(Listings) /\ pass[a].known \in OfSome(Rows \cup {Absent})
      /\ pass[a].obs \in OfSome(Observations)
  BY <1>1 DEF Trips
<1>3. \A l \in Listings : l.entry \in Entries \cup {Absent} /\ l.changes \in Nat
  BY DEF Listings
<1>. QED
  BY <1>1, <1>2, <1>3, SomeAre

LEMMA EntryIs ==
  ASSUME CatalogAssumption, NEW e \in Entries
  PROVE  e # Absent /\ e.bytes \in Contents /\ e.stat \in Nat /\ e.path \in Places
  BY DEF Entries, CatalogAssumption

LEMMA RowIs ==
  ASSUME CatalogAssumption, NEW r \in Rows
  PROVE  /\ r # Absent /\ r.gen \in Nat /\ r.bytes \in Contents /\ r.stat \in Nat /\ r.path \in Places
         /\ r.status \in {"active", "missing"} /\ r.blank \in BOOLEAN /\ r.read \in Nat
  BY DEF Rows, CatalogAssumption

LEMMA ObservationIs ==
  ASSUME NEW o \in Observations
  PROVE  /\ o.how \in {"unchanged", "read", "unservable"} /\ o.bytes \in Contents /\ o.stat \in Nat
         /\ o.path \in Places /\ o.replaces \in BOOLEAN /\ o.changes \in Nat
  BY DEF Observations

LEMMA FolderIs ==
  ASSUME CatalogTyped, NEW k \in Keys
  PROVE  /\ files[k] \in Entries \cup {Absent} /\ changes[k] \in Nat /\ books[k] \in Rows \cup {Absent}
         /\ mapping[k] \in works \cup {Absent} /\ rowsMade[k] \in Nat /\ mounted \in BOOLEAN
  BY DEF CatalogTyped, FolderTyped, RowsTyped, GraphTyped

(* A change of a file, and what a changed file of a plain folder is.       *)
Replaced(k) ==
  /\ changes'[k] = changes[k] + 1
  /\ ~IsCalibre => \/ files'[k] = Absent
                   \/ /\ files'[k].path = k
                      /\ \/ files'[k].stat = changes'[k]
                         \/ /\ books[k] # Absent
                            /\ files'[k].stat = books[k].stat /\ files'[k].bytes = books[k].bytes
FileChanges == \A k \in Keys : (files'[k] = files[k] /\ changes'[k] = changes[k]) \/ Replaced(k)

LEMMA FileTyped ==
  ASSUME CatalogTyped, NEW k \in Keys, NEW e \in Entries \cup {Absent}, ChangeFile(k, e)
  PROVE  /\ files' \in [Keys -> Entries \cup {Absent}] /\ changes' \in [Keys -> Nat]
         /\ files'[k] = e /\ changes'[k] = changes[k] + 1
         /\ \A j \in Keys : j # k => files'[j] = files[j] /\ changes'[j] = changes[j]
  BY DEF CatalogTyped, FolderTyped, ChangeFile

LEMMA HoldsIs ==
  ASSUME NEW c, c \in [Keys -> Nat], changes = c, NEW k \in Keys, NEW d \in Digests, NEW p \in Places
  PROVE  /\ Holds(k, d, p) \in Entries /\ Holds(k, d, p).path = p /\ Holds(k, d, p).bytes = d
         /\ Holds(k, d, p).stat = changes[k] + 1
  BY DEF Holds, Entries, Contents

LEMMA PathIs ==
  ASSUME CatalogAssumption, NEW k \in Keys, NEW p \in PathOf(k)
  PROVE  p \in Places /\ (~IsCalibre => p = k)
  BY DEF PathOf, Places, CatalogAssumption

LEMMA FolderStep ==
  ASSUME CatalogAssumption, CatalogTyped, Folder
  PROVE  /\ FileChanges /\ FolderTyped'
         /\ \/ mounted' = mounted
            \/ \A a \in Passes : pass[a].stage # "list" /\ (IsCalibre => pass[a].stage = "off")
         /\ mounted' # mounted => files' = files /\ changes' = changes
         /\ UNCHANGED <<books, rowsMade, mapping, works, history, alias, edition, pass, removal>>
<1>0. /\ files \in [Keys -> Entries \cup {Absent}] /\ changes \in [Keys -> Nat] /\ mounted \in BOOLEAN
      /\ books \in [Keys -> Rows \cup {Absent}]
  BY DEF CatalogTyped, FolderTyped, RowsTyped
<1>1. UNCHANGED <<books, rowsMade, mapping, works, history, alias, edition, pass, removal>>
  BY DEF Folder, bookTables, graph
<1>. DEFINE Good == FileChanges /\ files' \in [Keys -> Entries \cup {Absent}] /\ changes' \in [Keys -> Nat]
<1>2. ASSUME NEW k \in Keys, WriteFile(k) PROVE Good
  <2>1. PICK d \in Digests, p \in PathOf(k) : ChangeFile(k, Holds(k, d, p))
    BY <1>2 DEF WriteFile
  <2>2. /\ Holds(k, d, p) \in Entries /\ Holds(k, d, p).path = p
        /\ Holds(k, d, p).stat = changes[k] + 1 /\ (~IsCalibre => p = k)
    BY <1>0, HoldsIs, PathIs
  <2>3. /\ files' \in [Keys -> Entries \cup {Absent}] /\ changes' \in [Keys -> Nat]
        /\ files'[k] = Holds(k, d, p) /\ changes'[k] = changes[k] + 1
        /\ \A j \in Keys : j # k => files'[j] = files[j] /\ changes'[j] = changes[j]
    BY <2>1, <2>2, FileTyped
  <2>. QED
    BY <2>2, <2>3 DEF FileChanges, Replaced
<1>3. ASSUME NEW k \in Keys, PutBack(k) PROVE Good
  <2>. DEFINE e == [bytes |-> books[k].bytes, stat |-> books[k].stat, path |-> k]
  <2>1. books[k] \in Rows /\ books[k] # Absent /\ ChangeFile(k, e)
    BY <1>0, <1>3 DEF PutBack
  <2>2. e \in Entries /\ e.path = k /\ e.stat = books[k].stat /\ e.bytes = books[k].bytes
    BY <2>1, RowIs DEF Entries, Places
  <2>. HIDE DEF e
  <2>3. /\ files' \in [Keys -> Entries \cup {Absent}] /\ changes' \in [Keys -> Nat]
        /\ files'[k] = e /\ changes'[k] = changes[k] + 1
        /\ \A j \in Keys : j # k => files'[j] = files[j] /\ changes'[j] = changes[j]
    BY <2>1, <2>2, FileTyped
  <2>. QED
    BY <2>1, <2>2, <2>3 DEF FileChanges, Replaced
<1>4. ASSUME NEW k \in Keys, LoseFile(k) PROVE Good
  <2>. DEFINE e == [files[k] EXCEPT !.bytes = Absent]
  <2>1. files[k] \in Entries /\ IsCalibre /\ ChangeFile(k, e)
    BY <1>0, <1>4 DEF LoseFile
  <2>2. e \in Entries
    BY <2>1 DEF Entries, Contents
  <2>. HIDE DEF e
  <2>3. /\ files' \in [Keys -> Entries \cup {Absent}] /\ changes' \in [Keys -> Nat]
        /\ changes'[k] = changes[k] + 1
        /\ \A j \in Keys : j # k => files'[j] = files[j] /\ changes'[j] = changes[j]
    BY <2>1, <2>2, FileTyped
  <2>. QED
    BY <2>1, <2>3 DEF FileChanges, Replaced
<1>5. ASSUME NEW k \in Keys, RemoveFile(k) PROVE Good
  <2>1. /\ files' \in [Keys -> Entries \cup {Absent}] /\ changes' \in [Keys -> Nat]
        /\ files'[k] = Absent /\ changes'[k] = changes[k] + 1
        /\ \A j \in Keys : j # k => files'[j] = files[j] /\ changes'[j] = changes[j]
    BY <1>5, FileTyped DEF RemoveFile
  <2>. QED
    BY <2>1 DEF FileChanges, Replaced
<1>6. ASSUME NEW j \in Keys, NEW k \in Keys, SwapPaths(j, k) PROVE Good
  <2>. DEFINE x == [files[j] EXCEPT !.path = files[k].path]
              y == [files[k] EXCEPT !.path = files[j].path]
  <2>1. files[j] \in Entries /\ files[k] \in Entries /\ IsCalibre /\ j # k
    BY <1>0, <1>6 DEF SwapPaths
  <2>2. x \in Entries /\ y \in Entries
    BY <2>1 DEF Entries
  <2>3. files' = [files EXCEPT ![j] = x, ![k] = y]
    BY <1>0, <1>6, <2>1 DEF SwapPaths
  <2>. HIDE DEF x, y
  <2>4. changes' = [changes EXCEPT ![j] = @ + 1, ![k] = @ + 1]
    BY <1>6 DEF SwapPaths
  <2>5. files' \in [Keys -> Entries \cup {Absent}] /\ changes' \in [Keys -> Nat]
    BY <1>0, <2>2, <2>3, <2>4
  <2>6. ASSUME NEW i \in Keys PROVE (files'[i] = files[i] /\ changes'[i] = changes[i]) \/ Replaced(i)
    BY <1>0, <2>1, <2>3, <2>4 DEF Replaced
  <2>. QED
    BY <2>5, <2>6 DEF FileChanges
<1>7. ASSUME \/ \E k \in Keys : WriteFile(k) \/ PutBack(k) \/ LoseFile(k) \/ RemoveFile(k)
             \/ \E j, k \in Keys : SwapPaths(j, k)
      PROVE  Good
  BY <1>2, <1>3, <1>4, <1>5, <1>6, <1>7
<1>8. CASE UNCHANGED mounted /\ Good
  BY <1>0, <1>1, <1>8 DEF FolderTyped
<1>9. CASE /\ \A a \in Passes : pass[a].stage # "list" /\ (IsCalibre => pass[a].stage = "off")
           /\ mounted' = ~mounted /\ UNCHANGED <<files, changes>>
  <2>1. FileChanges /\ FolderTyped'
    BY <1>0, <1>9 DEF FileChanges, FolderTyped
  <2>. QED
    BY <1>1, <1>9, <2>1
<1>. QED
  BY <1>7, <1>8, <1>9 DEF Folder

LEMMA RemoveBookStep ==
  ASSUME CatalogAssumption, CatalogTyped, NEW k \in Keys, RemoveBook(k)
  PROVE  /\ FileChanges /\ files' \in [Keys -> Entries \cup {Absent}] /\ changes' \in [Keys -> Nat]
         /\ UNCHANGED <<books, rowsMade, mapping, works, history, alias, edition>>
<1>0. files \in [Keys -> Entries \cup {Absent}] /\ changes \in [Keys -> Nat]
  BY DEF CatalogTyped, FolderTyped
<1>1. /\ files' \in {files, [files EXCEPT ![k] = Absent]}
      /\ changes' = IF files' = files THEN changes ELSE [changes EXCEPT ![k] = @ + 1]
      /\ UNCHANGED <<books, rowsMade, mapping, works, history, alias, edition>>
  BY DEF RemoveBook, bookTables, graph
<1>2. CASE files' = files
  BY <1>0, <1>1, <1>2 DEF FileChanges
<1>3. CASE files' # files
  BY <1>0, <1>1, <1>3 DEF FileChanges, Replaced
<1>. QED
  BY <1>2, <1>3

(* A pass begins: the listing of a Calibre library is one snapshot.        *)
LEMMA BeginStep ==
  ASSUME CatalogTyped, NEW a \in Passes, Begin(a)
  PROVE  LET n == pass'[a] IN
    /\ pass[a].stage = "off" /\ (IsCalibre => mounted)
    /\ pass' \in [Passes -> Trips] /\ \A b \in Passes : b # a => pass'[b] = pass[b]
    /\ KeepsStage(n) /\ n.stage = "list" /\ DOMAIN n.obs = {} /\ n.complete
    /\ DOMAIN n.listed = IF IsCalibre THEN Keys ELSE {}
    /\ \A k \in DOMAIN n.listed : n.listed[k] = [entry |-> files[k], changes |-> changes[k]]
    /\ UNCHANGED <<files, changes, mounted, bookTables, graph, removal>>
<1>. DEFINE L == IF IsCalibre THEN [k \in Keys |-> Listing(k)] ELSE <<>>
<1>0. /\ pass[a].stage = "off" /\ (IsCalibre => mounted) /\ Begins(a)
      /\ UNCHANGED <<files, changes, mounted, bookTables, graph, removal>>
  BY DEF Begin, Stage
<1>1. \A k \in Keys : IsCalibre => Listing(k) = [entry |-> files[k], changes |-> changes[k]]
  BY <1>0 DEF Listing, Seen
<1>2. L \in OfSome(Listings) /\ DOMAIN L = IF IsCalibre THEN Keys ELSE {}
  <2>1. CASE IsCalibre
    <3>1. \A k \in Keys : Listing(k) \in Listings
      BY <1>1, <2>1, FolderIs DEF Listings
    <3>2. L = [k \in Keys |-> Listing(k)] /\ L \in [Keys -> Listings]
      BY <2>1, <3>1
    <3>. QED
      BY <2>1, <3>2, AllAreSome
  <2>2. CASE ~IsCalibre
    BY <2>2, NothingYet
  <2>. QED
    BY <2>1, <2>2
<1>3. \A k \in DOMAIN L : L[k] = [entry |-> files[k], changes |-> changes[k]]
  BY <1>1, <1>2
<1>4. Steps(a, [Off EXCEPT !.stage = "list", !.listed = L])
  BY <1>0 DEF Begins
<1>. HIDE DEF L
<1>. DEFINE n == [Off EXCEPT !.stage = "list", !.listed = L]
<1>5. n \in Trips /\ KeepsStage(n) /\ n.stage = "list" /\ n.listed = L /\ DOMAIN n.obs = {} /\ n.complete
  BY <1>2, TripStarts
<1>. HIDE DEF n
<1>6. pass' \in [Passes -> Trips] /\ pass'[a] = n /\ \A b \in Passes : b # a => pass'[b] = pass[b]
  BY <1>4, <1>5, TripIs, PassSteps DEF n
<1>. QED
  BY <1>0, <1>2, <1>3, <1>5, <1>6

LEMMA IngestStep ==
  ASSUME CatalogAssumption, CatalogTyped, Ingest
  PROVE  LET n == pass'["ingest"] IN
    /\ "ingest" \in Passes /\ pass["ingest"].stage = "off" /\ mounted
    /\ pass' \in [Passes -> Trips] /\ \A b \in Passes : b # "ingest" => pass'[b] = pass[b]
    /\ KeepsStage(n) /\ n.stage = "list" /\ DOMAIN n.obs = {} /\ n.complete
    /\ DOMAIN n.listed = IF IsCalibre THEN Keys ELSE {}
    /\ \A k \in DOMAIN n.listed : n.listed[k] = [entry |-> files'[k], changes |-> changes'[k]]
    /\ FileChanges /\ FolderTyped' /\ UNCHANGED <<mounted, bookTables, graph, removal>>
<1>0. /\ "ingest" \in Passes /\ pass["ingest"].stage = "off" /\ mounted
      /\ UNCHANGED <<mounted, bookTables, graph, removal>>
      /\ files \in [Keys -> Entries \cup {Absent}] /\ changes \in [Keys -> Nat]
  BY DEF Ingest, Stage, CatalogTyped, FolderTyped
<1>1. PICK k \in Keys, d \in Digests : \E p \in PathOf(k) :
        /\ ChangeFile(k, Holds(k, d, p))
        /\ Steps("ingest", [Off EXCEPT !.stage = "list",
            !.listed = IF IsCalibre THEN With([j \in Keys |-> Listing(j)], k,
                                              [entry |-> Holds(k, d, p), changes |-> changes[k] + 1])
                       ELSE <<>>])
  BY DEF Ingest
<1>2. PICK p \in PathOf(k) :
        /\ ChangeFile(k, Holds(k, d, p))
        /\ Steps("ingest", [Off EXCEPT !.stage = "list",
            !.listed = IF IsCalibre THEN With([j \in Keys |-> Listing(j)], k,
                                              [entry |-> Holds(k, d, p), changes |-> changes[k] + 1])
                       ELSE <<>>])
  BY <1>1
<1>. DEFINE h == Holds(k, d, p)
            x == [entry |-> h, changes |-> changes[k] + 1]
            L == IF IsCalibre THEN With([j \in Keys |-> Listing(j)], k, x) ELSE <<>>
            n == [Off EXCEPT !.stage = "list", !.listed = L]
<1>3. h \in Entries /\ h.path = p /\ h.stat = changes[k] + 1 /\ (~IsCalibre => p = k)
  BY <1>0, HoldsIs, PathIs
<1>4. ChangeFile(k, h) /\ Steps("ingest", n)
  BY <1>2
<1>. HIDE DEF h
<1>5. /\ files' \in [Keys -> Entries \cup {Absent}] /\ changes' \in [Keys -> Nat]
      /\ files'[k] = h /\ changes'[k] = changes[k] + 1
      /\ \A j \in Keys : j # k => files'[j] = files[j] /\ changes'[j] = changes[j]
  BY <1>3, <1>4, FileTyped
<1>6. x \in Listings
  BY <1>0, <1>3 DEF Listings
<1>. HIDE DEF x
<1>7. L \in OfSome(Listings) /\ DOMAIN L = (IF IsCalibre THEN Keys ELSE {})
      /\ \A j \in DOMAIN L : L[j] = [entry |-> files'[j], changes |-> changes'[j]]
  <2>1. CASE IsCalibre
    <3>. DEFINE M == [j \in Keys |-> Listing(j)]
    <3>1. \A j \in Keys : Listing(j) \in Listings /\ Listing(j) = [entry |-> files[j], changes |-> changes[j]]
      BY <1>0, FolderIs DEF Listings, Listing, Seen
    <3>2. M \in OfSome(Listings) /\ DOMAIN M = Keys /\ \A j \in Keys : M[j] = Listing(j)
      BY <3>1, AllAreSome
    <3>. HIDE DEF M
    <3>3. /\ With(M, k, x) \in OfSome(Listings) /\ DOMAIN With(M, k, x) = Keys
          /\ With(M, k, x)[k] = x /\ \A j \in Keys : j # k => With(M, k, x)[j] = M[j]
      BY <1>6, <3>2, OneMore
    <3>4. L = With(M, k, x)
      BY <2>1 DEF M
    <3>5. x = [entry |-> files'[k], changes |-> changes'[k]]
      BY <1>5 DEF x
    <3>. HIDE DEF L
    <3>6. \A j \in Keys : L[j] = [entry |-> files'[j], changes |-> changes'[j]]
      BY <1>5, <3>1, <3>2, <3>3, <3>4, <3>5
    <3>. QED
      BY <2>1, <3>3, <3>4, <3>6
  <2>2. CASE ~IsCalibre
    BY <2>2, NothingYet
  <2>. QED
    BY <2>1, <2>2
<1>. HIDE DEF L
<1>8. n \in Trips /\ KeepsStage(n) /\ n.stage = "list" /\ n.listed = L /\ DOMAIN n.obs = {} /\ n.complete
  BY <1>7, TripStarts
<1>. HIDE DEF n
<1>9. pass' \in [Passes -> Trips] /\ pass'["ingest"] = n /\ \A b \in Passes : b # "ingest" => pass'[b] = pass[b]
  BY <1>0, <1>4, <1>8, PassSteps DEF CatalogTyped
<1>10. FileChanges
  BY <1>3, <1>5 DEF FileChanges, Replaced
<1>11. FolderTyped'
  BY <1>0, <1>5 DEF FolderTyped
<1>. QED
  BY <1>0, <1>7, <1>8, <1>9, <1>10, <1>11

(* The steps of a pass while it scans.                                     *)
LEMMA ListStep ==
  ASSUME CatalogTyped, NEW a \in Passes, NEW k \in Keys, ListPath(a, k)
  PROVE  LET p == pass[a]  n == pass'[a] IN
    /\ p.stage = "list" /\ n.stage = "list"
    /\ pass' \in [Passes -> Trips] /\ \A b \in Passes : b # a => pass'[b] = pass[b]
    /\ KeepsStage(n) /\ n.obs = p.obs /\ n.known = p.known /\ n.complete = p.complete
    /\ DOMAIN n.listed = DOMAIN p.listed \cup {k} /\ k \notin DOMAIN p.listed
    /\ \A j \in DOMAIN p.listed : n.listed[j] = p.listed[j]
    /\ n.listed[k].entry = Seen(k) /\ n.listed[k].changes = changes[k]
<1>. DEFINE p == pass[a]
            L == With(p.listed, k, Listing(k))
            n == [p EXCEPT !.listed = L]
<1>0. p.stage = "list" /\ k \notin DOMAIN p.listed /\ Steps(a, n)
  BY DEF ListPath, Stage
<1>1. p \in Trips /\ KeepsStage(p) /\ p.listed \in OfSome(Listings) /\ TripsTyped
  BY TripIs
<1>2. Listing(k) \in Listings /\ Listing(k).entry = Seen(k) /\ Listing(k).changes = changes[k]
  BY FolderIs DEF Listing, Listings, Seen
<1>3. /\ L \in OfSome(Listings) /\ DOMAIN L = DOMAIN p.listed \cup {k}
      /\ L[k] = Listing(k) /\ \A j \in DOMAIN p.listed : j # k => L[j] = p.listed[j]
  <2>1. PICK D \in SUBSET Keys : p.listed \in [D -> Listings]
    BY <1>1 DEF OfSome
  <2>2. L = [j \in DOMAIN p.listed \cup {k} |-> IF j = k THEN Listing(k) ELSE p.listed[j]]
    BY DEF With
  <2>. HIDE DEF L, p
  <2>3. L \in [D \cup {k} -> Listings] /\ D \cup {k} \in SUBSET Keys
    BY <1>2, <2>1, <2>2
  <2>4. L \in OfSome(Listings) /\ DOMAIN L = DOMAIN p.listed \cup {k}
    BY <2>1, <2>3 DEF OfSome
  <2>. QED
    BY <2>2, <2>4
<1>. HIDE DEF L
<1>4. /\ n \in Trips /\ n.listed = L
      /\ n.stage = p.stage /\ n.known = p.known /\ n.obs = p.obs /\ n.complete = p.complete
  BY <1>1, <1>3, TripLists
<1>. HIDE DEF n
<1>5. KeepsStage(n)
  BY <1>0, <1>1, <1>4 DEF KeepsStage
<1>6. pass' \in [Passes -> Trips] /\ pass'[a] = n /\ \A b \in Passes : b # a => pass'[b] = pass[b]
  BY <1>0, <1>1, <1>4, PassSteps
<1>. QED
  BY <1>0, <1>2, <1>3, <1>4, <1>5, <1>6

LEMMA KnowStep ==
  ASSUME CatalogTyped, NEW a \in Passes, BooksInFolder(a)
  PROVE  LET p == pass[a]  n == pass'[a] IN
    /\ p.stage = "list" /\ DOMAIN p.listed = Keys /\ n.stage = "read"
    /\ pass' \in [Passes -> Trips] /\ \A b \in Passes : b # a => pass'[b] = pass[b]
    /\ KeepsStage(n) /\ DOMAIN n.obs = {} /\ n.known = books /\ n.complete /\ n.listed = p.listed
<1>. DEFINE p == pass[a]
            n == [p EXCEPT !.stage = "read", !.known = books]
<1>0. p.stage = "list" /\ DOMAIN p.listed = Keys /\ Steps(a, n)
  BY DEF BooksInFolder, Stage
<1>1. p \in Trips /\ KeepsStage(p) /\ TripsTyped /\ books \in [Keys -> Rows \cup {Absent}]
  BY TripIs DEF CatalogTyped, RowsTyped
<1>2. /\ n \in Trips /\ n.stage = "read" /\ n.known = books
      /\ n.listed = p.listed /\ n.obs = p.obs /\ n.complete = p.complete
  BY <1>1, TripKnows
<1>. HIDE DEF n
<1>3. KeepsStage(n) /\ DOMAIN n.obs = {} /\ n.complete
  BY <1>0, <1>1, <1>2 DEF KeepsStage
<1>4. pass' \in [Passes -> Trips] /\ pass'[a] = n /\ \A b \in Passes : b # a => pass'[b] = pass[b]
  BY <1>0, <1>1, <1>2, PassSteps
<1>. QED
  BY <1>0, <1>2, <1>3, <1>4

LEMMA ObserveStep ==
  ASSUME CatalogTyped, NEW a \in Passes, NEW k \in Keys, NEW o \in Observations,
         pass[a].stage = "read", o.how = "read" => o.bytes # Absent,
         Steps(a, [pass[a] EXCEPT !.obs = With(@, k, o)])
  PROVE  LET p == pass[a]  n == pass'[a] IN
    /\ n.stage = "read" /\ n.listed = p.listed /\ n.known = p.known /\ n.complete = p.complete
    /\ pass' \in [Passes -> Trips] /\ \A b \in Passes : b # a => pass'[b] = pass[b]
    /\ KeepsStage(n) /\ DOMAIN n.obs = DOMAIN p.obs \cup {k}
    /\ n.obs[k] = o /\ \A j \in DOMAIN p.obs : j # k => n.obs[j] = p.obs[j]
<1>. DEFINE p == pass[a]
            O == With(p.obs, k, o)
            n == [p EXCEPT !.obs = O]
<1>0. Steps(a, n)
  OBVIOUS
<1>1. p \in Trips /\ KeepsStage(p) /\ p.obs \in OfSome(Observations) /\ TripsTyped
  BY TripIs
<1>2. /\ O \in OfSome(Observations) /\ DOMAIN O = DOMAIN p.obs \cup {k}
      /\ O[k] = o /\ \A j \in DOMAIN p.obs : j # k => O[j] = p.obs[j]
  <2>. DEFINE f == p.obs
  <2>1. f \in OfSome(Observations)
    BY <1>1
  <2>. HIDE DEF f
  <2>2. /\ With(f, k, o) \in OfSome(Observations) /\ DOMAIN With(f, k, o) = DOMAIN f \cup {k}
        /\ With(f, k, o)[k] = o /\ \A j \in DOMAIN f : j # k => With(f, k, o)[j] = f[j]
    BY <2>1, OneMore
  <2>. QED
    BY <2>2 DEF f
<1>. HIDE DEF O
<1>3. /\ n \in Trips /\ n.obs = O
      /\ n.stage = p.stage /\ n.known = p.known /\ n.listed = p.listed /\ n.complete = p.complete
  BY <1>1, <1>2, TripObserves
<1>. HIDE DEF n
<1>4. KeepsStage(n)
  BY <1>1, <1>2, <1>3 DEF KeepsStage
<1>5. pass' \in [Passes -> Trips] /\ pass'[a] = n /\ \A b \in Passes : b # a => pass'[b] = pass[b]
  BY <1>0, <1>1, <1>3, PassSteps
<1>. QED
  BY <1>2, <1>3, <1>4, <1>5

LEMMA MissStep ==
  ASSUME CatalogTyped, NEW a \in Passes, NEW k \in DOMAIN pass[a].listed, pass[a].stage = "read",
         Steps(a, [pass[a] EXCEPT !.complete = FALSE, !.listed[k].entry = Absent])
  PROVE  LET p == pass[a]  n == pass'[a] IN
    /\ n.stage = "read" /\ n.known = p.known /\ n.obs = p.obs /\ ~n.complete
    /\ pass' \in [Passes -> Trips] /\ \A b \in Passes : b # a => pass'[b] = pass[b]
    /\ KeepsStage(n) /\ DOMAIN n.listed = DOMAIN p.listed
    /\ n.listed[k].entry = Absent /\ n.listed[k].changes = p.listed[k].changes
    /\ \A j \in DOMAIN p.listed : j # k => n.listed[j] = p.listed[j]
<1>. DEFINE p == pass[a]
            n == [p EXCEPT !.complete = FALSE, !.listed[k].entry = Absent]
<1>1. p \in Trips /\ KeepsStage(p) /\ TripsTyped
  BY TripIs
<1>2. /\ n \in Trips /\ ~n.complete
      /\ n.stage = p.stage /\ n.known = p.known /\ n.obs = p.obs
      /\ DOMAIN n.listed = DOMAIN p.listed
      /\ n.listed[k].entry = Absent /\ n.listed[k].changes = p.listed[k].changes
      /\ \A j \in DOMAIN p.listed : j # k => n.listed[j] = p.listed[j]
  BY <1>1, TripMisses
<1>3. Steps(a, n)
  OBVIOUS
<1>. HIDE DEF n
<1>4. KeepsStage(n)
  BY <1>1, <1>2 DEF KeepsStage
<1>5. pass' \in [Passes -> Trips] /\ pass'[a] = n /\ \A b \in Passes : b # a => pass'[b] = pass[b]
  BY <1>1, <1>2, <1>3, PassSteps
<1>. QED
  BY <1>2, <1>4, <1>5

LEMMA UnreadIs ==
  ASSUME CatalogAssumption, CatalogTyped, NEW a \in Passes, pass[a].stage = "read", NEW k \in Unread(a)
  PROVE  /\ k \in Keys /\ k \in DOMAIN pass[a].listed /\ k \notin DOMAIN pass[a].obs
         /\ Listed(a, k) = pass[a].listed[k].entry /\ pass[a].listed[k] \in Listings
         /\ Listed(a, k) \in Entries /\ pass[a].listed[k].changes \in Nat
         /\ pass[a].known[k] \in Rows \cup {Absent}
<1>1. DOMAIN pass[a].listed = Keys /\ DOMAIN pass[a].known = Keys
  BY TripIs DEF KeepsStage
<1>2. k \in Keys /\ k \notin DOMAIN pass[a].obs /\ pass[a].listed[k].entry # Absent
  BY DEF Unread
<1>. QED
  BY <1>1, <1>2, TripIs DEF Listed

LEMMA SeesStep ==
  ASSUME CatalogAssumption, CatalogTyped, NEW a \in Passes, pass[a].stage = "read", NEW k \in Unread(a),
         SeeAsBefore(a, k)
  PROVE  \E o \in Observations :
           /\ Steps(a, [pass[a] EXCEPT !.obs = With(@, k, o)])
           /\ ~IsCalibre /\ o.how = "unchanged" /\ ~o.replaces
           /\ pass[a].known[k] # Absent /\ o.bytes = pass[a].known[k].bytes
           /\ pass[a].known[k].stat = Listed(a, k).stat /\ o.stat = Listed(a, k).stat
           /\ o.path = Listed(a, k).path /\ o.changes = pass[a].listed[k].changes
<1>. DEFINE e == [Listed(a, k) EXCEPT !.bytes = pass[a].known[k].bytes]
            o == Observes("unchanged", e, FALSE, pass[a].listed[k].changes)
<1>1. Steps(a, [pass[a] EXCEPT !.obs = With(@, k, o)]) /\ Unchanged(a, k)
  BY DEF SeeAsBefore
<1>2. /\ ~IsCalibre /\ pass[a].known[k] # Absent /\ pass[a].known[k].stat = Listed(a, k).stat
      /\ pass[a].known[k] \in Rows
  BY <1>1, UnreadIs DEF Unchanged
<1>3. /\ e \in Entries /\ e.bytes = pass[a].known[k].bytes /\ e.stat = Listed(a, k).stat
      /\ e.path = Listed(a, k).path
  BY <1>2, UnreadIs, RowIs DEF Entries
<1>. HIDE DEF e
<1>4. /\ o \in Observations /\ o.how = "unchanged" /\ ~o.replaces /\ o.bytes = e.bytes /\ o.stat = e.stat
      /\ o.path = e.path /\ o.changes = pass[a].listed[k].changes
  BY <1>3, UnreadIs, EntryIs DEF Observes, Observations
<1>. HIDE DEF o
<1>. QED
  BY <1>1, <1>2, <1>3, <1>4

LEMMA SeenIs ==
  ASSUME CatalogTyped, NEW j \in Keys, Seen(j) # Absent
  PROVE  mounted /\ Seen(j) = files[j] /\ files[j] \in Entries
  BY FolderIs DEF Seen

LEMMA ReadsStep ==
  ASSUME CatalogAssumption, CatalogTyped, NEW a \in Passes, pass[a].stage = "read", NEW k \in Unread(a),
         ReadBook(a, k)
  PROVE  \E o \in Observations, j \in AtPath(a, k) :
           /\ Steps(a, [pass[a] EXCEPT !.obs = With(@, k, o)])
           /\ ~Unchanged(a, k) /\ o.how = "read"
           /\ j \in Keys /\ files[j] \in Entries /\ mounted /\ files[j].path = Listed(a, k).path
           /\ o.bytes = files[j].bytes /\ o.bytes # Absent /\ o.stat = files[j].stat
           /\ o.path = Listed(a, k).path /\ o.replaces = Replaces(a, k, o.bytes)
           /\ o.changes = IF IsCalibre THEN pass[a].listed[k].changes ELSE changes[j]
<1>1. PICK j \in AtPath(a, k) :
        Steps(a, [pass[a] EXCEPT !.obs =
          With(@, k, Observes("read", Seen(j), Replaces(a, k, Seen(j).bytes),
                              IF IsCalibre THEN pass[a].listed[k].changes ELSE changes[j]))])
  BY DEF ReadBook
<1>. DEFINE v == IF IsCalibre THEN pass[a].listed[k].changes ELSE changes[j]
            r == Replaces(a, k, Seen(j).bytes)
            o == Observes("read", Seen(j), r, v)
<1>2. /\ j \in Keys /\ files[j] \in Entries /\ mounted /\ files[j].path = Listed(a, k).path
      /\ files[j].bytes # Absent /\ Seen(j) = files[j]
  BY SeenIs DEF AtPath
<1>3. v \in Nat /\ r \in BOOLEAN
  BY <1>2, UnreadIs, FolderIs DEF Replaces
<1>4. r = Replaces(a, k, files[j].bytes)
  BY <1>2
<1>5. Steps(a, [pass[a] EXCEPT !.obs = With(@, k, o)])
  BY <1>1
<1>. HIDE DEF v, r
<1>6. /\ o \in Observations /\ o.how = "read" /\ o.replaces = r /\ o.bytes = files[j].bytes
      /\ o.stat = files[j].stat /\ o.path = files[j].path /\ o.changes = v
  BY <1>2, <1>3, EntryIs DEF Observes, Observations
<1>. HIDE DEF o
<1>7. ~Unchanged(a, k)
  BY DEF ReadBook
<1>. QED
  BY <1>2, <1>4, <1>5, <1>6, <1>7 DEF v

LEMMA NothingStep ==
  ASSUME CatalogAssumption, CatalogTyped, NEW a \in Passes, pass[a].stage = "read", NEW k \in Unread(a),
         FindNothing(a, k), IsCalibre
  PROVE  \E o \in Observations :
           /\ Steps(a, [pass[a] EXCEPT !.obs = With(@, k, o)])
           /\ o.how = "unservable" /\ ~o.replaces /\ AtPath(a, k) = {}
           /\ o.path = Listed(a, k).path /\ o.changes = pass[a].listed[k].changes
<1>. DEFINE o == Observes("unservable", Listed(a, k), FALSE, pass[a].listed[k].changes)
<1>1. Steps(a, [pass[a] EXCEPT !.obs = With(@, k, o)]) /\ AtPath(a, k) = {}
  BY DEF FindNothing
<1>2. /\ o \in Observations /\ o.how = "unservable" /\ ~o.replaces
      /\ o.path = Listed(a, k).path /\ o.changes = pass[a].listed[k].changes
  BY UnreadIs, EntryIs DEF Observes, Observations
<1>. HIDE DEF o
<1>. QED
  BY <1>1, <1>2

(* What a step of the scan does, by its kind.                              *)
LEMMA ScanKinds ==
  ASSUME CatalogAssumption, CatalogTyped, NEW a \in Passes, Scans(a)
  PROVE  /\ UNCHANGED <<files, changes, mounted, books, rowsMade, mapping, works, history, alias, edition,
                        removal>>
         /\ \/ BooksInFolder(a)
            \/ \E k \in Keys : ListPath(a, k)
            \/ /\ pass[a].stage = "read"
               /\ \E k \in Unread(a) :
                    \/ SeeAsBefore(a, k)
                    \/ ReadBook(a, k)
                    \/ IsCalibre /\ FindNothing(a, k)
                    \/ Steps(a, [pass[a] EXCEPT !.complete = FALSE, !.listed[k].entry = Absent])
  BY DEF Scans, bookTables, graph, Stage, FindNothing, FailToRead

LEMMA ScansTyped ==
  ASSUME CatalogAssumption, CatalogTyped, NEW a \in Passes, Scans(a)
  PROVE  CatalogTyped'
<1>. DEFINE Good == pass' \in [Passes -> Trips] /\ KeepsStage(pass'[a])
                    /\ \A b \in Passes : b # a => pass'[b] = pass[b]
<1>1. /\ UNCHANGED <<files, changes, mounted, books, rowsMade, mapping, works, history, alias, edition>>
  BY ScanKinds
<1>2. ASSUME BooksInFolder(a) PROVE Good
  BY <1>2, KnowStep
<1>3. ASSUME NEW k \in Keys, ListPath(a, k) PROVE Good
  BY <1>3, ListStep
<1>4. ASSUME pass[a].stage = "read", NEW k \in Unread(a), NEW o \in Observations,
             o.how = "read" => o.bytes # Absent, Steps(a, [pass[a] EXCEPT !.obs = With(@, k, o)])
      PROVE  Good
  <2>1. k \in Keys
    BY <1>4, UnreadIs
  <2>. QED
    BY <1>4, <2>1, ObserveStep
<1>5. ASSUME pass[a].stage = "read", NEW k \in Unread(a), SeeAsBefore(a, k) PROVE Good
  <2>1. PICK o \in Observations :
          Steps(a, [pass[a] EXCEPT !.obs = With(@, k, o)]) /\ o.how = "unchanged"
    BY <1>5, SeesStep
  <2>. QED
    BY <1>4, <1>5, <2>1
<1>6. ASSUME pass[a].stage = "read", NEW k \in Unread(a), ReadBook(a, k) PROVE Good
  <2>1. PICK o \in Observations :
          Steps(a, [pass[a] EXCEPT !.obs = With(@, k, o)]) /\ o.bytes # Absent
    BY <1>6, ReadsStep
  <2>. QED
    BY <1>4, <1>6, <2>1
<1>7. ASSUME pass[a].stage = "read", NEW k \in Unread(a), IsCalibre, FindNothing(a, k) PROVE Good
  <2>1. PICK o \in Observations :
          Steps(a, [pass[a] EXCEPT !.obs = With(@, k, o)]) /\ o.how = "unservable"
    BY <1>7, NothingStep
  <2>. QED
    BY <1>4, <1>7, <2>1
<1>8. ASSUME pass[a].stage = "read", NEW k \in Unread(a),
             Steps(a, [pass[a] EXCEPT !.complete = FALSE, !.listed[k].entry = Absent])
      PROVE  Good
  <2>1. k \in DOMAIN pass[a].listed
    BY <1>8, UnreadIs
  <2>. QED
    BY <1>8, <2>1, MissStep
<1>9. Good
  BY <1>2, <1>3, <1>5, <1>6, <1>7, <1>8, ScanKinds
<1>10. TripsTyped'
  BY <1>9 DEF CatalogTyped, TripsTyped
<1>. QED
  BY <1>1, <1>10 DEF CatalogTyped, FolderTyped, RowsTyped, GraphTyped

(* What a pass writes of one book.                                         *)
LEMMA RestoredIs ==
  ASSUME CatalogAssumption, CatalogTyped, NEW a \in Passes, NEW k \in Keys, books[k] # Absent
  PROVE  /\ Restored(a, k) \in Rows /\ Missing(Restored(a, k)) \in Rows /\ Missing(books[k]) \in Rows
         /\ Restored(a, k).gen = books[k].gen /\ Restored(a, k).bytes = books[k].bytes
         /\ Restored(a, k).read = books[k].read /\ Restored(a, k).status = books[k].status
         /\ Missing(Restored(a, k)).gen = books[k].gen /\ Missing(Restored(a, k)).bytes = books[k].bytes
         /\ Missing(Restored(a, k)).read = books[k].read
         /\ Missing(books[k]).gen = books[k].gen /\ Missing(books[k]).bytes = books[k].bytes
         /\ Missing(books[k]).read = books[k].read /\ Missing(books[k]).stat = books[k].stat
         /\ ~IsCalibre => Restored(a, k) = books[k]
<1>1. books[k] \in Rows
  BY FolderIs
<1>2. ASSUME NEW b \in Rows
      PROVE  /\ [b EXCEPT !.path = <<"parked", k>>] \in Rows
             /\ [b EXCEPT !.path = <<"parked", k>>].gen = b.gen
             /\ [b EXCEPT !.path = <<"parked", k>>].bytes = b.bytes
             /\ [b EXCEPT !.path = <<"parked", k>>].read = b.read
             /\ [b EXCEPT !.path = <<"parked", k>>].status = b.status
  <2>1. <<"parked", k>> \in Places
    BY DEF Places
  <2>. QED
    BY <2>1 DEF Rows
<1>3. ASSUME NEW b \in Rows
      PROVE  /\ Missing(b) \in Rows /\ Missing(b).gen = b.gen /\ Missing(b).bytes = b.bytes
             /\ Missing(b).read = b.read /\ Missing(b).stat = b.stat
  BY DEF Rows, Missing
<1>4. \/ Restored(a, k) = books[k]
      \/ IsCalibre /\ Restored(a, k) = [books[k] EXCEPT !.path = <<"parked", k>>]
  BY DEF Restored
<1>. DEFINE r == Restored(a, k)
<1>5. /\ r \in Rows /\ r.gen = books[k].gen /\ r.bytes = books[k].bytes /\ r.read = books[k].read
      /\ r.status = books[k].status /\ (~IsCalibre => r = books[k])
  BY <1>1, <1>2, <1>4
<1>. HIDE DEF r
<1>6. /\ Missing(r) \in Rows /\ Missing(r).gen = r.gen /\ Missing(r).bytes = r.bytes
      /\ Missing(r).read = r.read
  BY <1>3, <1>5
<1>7. /\ Missing(books[k]) \in Rows /\ Missing(books[k]).gen = books[k].gen
      /\ Missing(books[k]).bytes = books[k].bytes /\ Missing(books[k]).read = books[k].read
      /\ Missing(books[k]).stat = books[k].stat
  BY <1>1, <1>3
<1>. QED
  BY <1>5, <1>6, <1>7 DEF r

(* The kinds of finding.                                                   *)
LEMMA FindingIs ==
  ASSUME CatalogAssumption, CatalogTyped, NEW a \in Passes, NEW k \in Keys, Finding(a, k) # Absent
  PROVE  /\ Finding(a, k) \in Rows
         /\ \/ /\ books[k] # Absent /\ Finding(a, k).gen = books[k].gen
               /\ Finding(a, k).bytes = books[k].bytes /\ Finding(a, k).read = books[k].read
               /\ k \in Observed(a) => Obs(a, k).how = "unservable"
               /\ ~IsCalibre => Finding(a, k).stat = books[k].stat
            \/ /\ k \in Observed(a) /\ Obs(a, k).how = "unchanged" /\ books[k] # Absent
               /\ Finding(a, k).gen = books[k].gen /\ Finding(a, k).bytes = books[k].bytes
               /\ Finding(a, k).stat = Obs(a, k).stat /\ Finding(a, k).status = "active"
               /\ Finding(a, k).read = Obs(a, k).changes
            \/ /\ k \in Observed(a) /\ Obs(a, k).how # "unservable"
               /\ books[k] # Absent => Obs(a, k).how = "read"
               /\ Finding(a, k).gen = IF books[k] # Absent /\ ~Obs(a, k).replaces
                                      THEN books[k].gen ELSE rowsMade[k] + 1
               /\ Finding(a, k).bytes = Obs(a, k).bytes /\ Finding(a, k).stat = Obs(a, k).stat
               /\ Finding(a, k).status = "active" /\ Finding(a, k).read = Obs(a, k).changes
<1>. DEFINE f == Finding(a, k)
            o == Obs(a, k)
<1>1. CASE k \notin Observed(a)
  <2>1. books[k] # Absent /\ f \in {Restored(a, k), Missing(books[k])}
    BY <1>1 DEF Finding, HadBook
  <2>2. ~IsCalibre => Restored(a, k).stat = books[k].stat
    BY <2>1, RestoredIs
  <2>. HIDE DEF f
  <2>3. /\ f \in Rows /\ f.gen = books[k].gen /\ f.bytes = books[k].bytes /\ f.read = books[k].read
        /\ ~IsCalibre => f.stat = books[k].stat
    BY <2>1, <2>2, RestoredIs
  <2>. QED
    BY <1>1, <2>1, <2>3 DEF f
<1>2. CASE k \in Observed(a) /\ o.how = "unservable"
  <2>1. books[k] # Absent /\ f = Missing(Restored(a, k))
    BY <1>2 DEF Finding, HadBook
  <2>2. ~IsCalibre => f.stat = books[k].stat
    BY <2>1, RestoredIs
  <2>. HIDE DEF f
  <2>3. f \in Rows /\ f.gen = books[k].gen /\ f.bytes = books[k].bytes /\ f.read = books[k].read
    BY <2>1, RestoredIs
  <2>. QED
    BY <1>2, <2>1, <2>2, <2>3 DEF f
<1>3. CASE k \in Observed(a) /\ books[k] # Absent /\ o.how = "unchanged"
  <2>1. f = [books[k] EXCEPT !.status = "active", !.stat = o.stat, !.path = o.path, !.read = o.changes]
    BY <1>3 DEF Finding, HadBook
  <2>2. o \in Observations /\ books[k] \in Rows
    BY <1>3, TripIs, FolderIs DEF Obs, Observed
  <2>. HIDE DEF f, o
  <2>3. /\ f \in Rows /\ f.gen = books[k].gen /\ f.bytes = books[k].bytes /\ f.stat = o.stat
        /\ f.status = "active" /\ f.read = o.changes
    BY <2>1, <2>2 DEF Rows, Observations
  <2>. QED
    BY <1>3, <2>3 DEF f, o
<1>4. CASE k \in Observed(a) /\ o.how # "unservable" /\ ~(books[k] # Absent /\ o.how = "unchanged")
  <2>. DEFINE g == IF books[k] # Absent /\ ~o.replaces THEN books[k].gen ELSE rowsMade[k] + 1
              bl == IF books[k] # Absent /\ ~o.replaces THEN FALSE ELSE o.how = "unchanged"
  <2>1. f = Written(o, g, bl)
    BY <1>4 DEF Finding, HadBook
  <2>2. o \in Observations
    BY <1>4, TripIs DEF Obs, Observed
  <2>3. g \in Nat /\ bl \in BOOLEAN
    <3>1. rowsMade[k] \in Nat /\ (books[k] # Absent => books[k].gen \in Nat)
      BY FolderIs, RowIs
    <3>2. g \in Nat
      BY <3>1
    <3>. QED
      BY <3>2
  <2>4. g = IF books[k] # Absent /\ ~o.replaces THEN books[k].gen ELSE rowsMade[k] + 1
    OBVIOUS
  <2>5. books[k] # Absent => o.how = "read"
    BY <1>4, <2>2, ObservationIs
  <2>. HIDE DEF f, o, g, bl
  <2>6. /\ f \in Rows /\ f.gen = g /\ f.bytes = o.bytes /\ f.stat = o.stat
        /\ f.status = "active" /\ f.read = o.changes
    BY <2>1, <2>2, <2>3 DEF Rows, Observations, Written
  <2>. QED
    BY <1>4, <2>4, <2>5, <2>6 DEF f, o
<1>. QED
  BY <1>1, <1>2, <1>3, <1>4

LEMMA CommitRows ==
  ASSUME CatalogAssumption, CatalogTyped, NEW a \in Passes, ReconcileFolder(a)
  PROVE  /\ pass[a].stage = "read" /\ Unread(a) = {}
         /\ books' \in [Keys -> Rows \cup {Absent}] /\ \A k \in Keys : books'[k] = Finding(a, k)
         /\ rowsMade' \in [Keys -> Nat]
         /\ mapping' = [k \in Keys |-> IF SameRow(books[k], books'[k]) THEN mapping[k] ELSE Absent]
         /\ pass' \in [Passes -> Trips] /\ pass'[a] = Off
         /\ \A b \in Passes : b # a => pass'[b] = pass[b]
         /\ UNCHANGED <<files, changes, mounted, history, removal>>
<1>1. /\ pass[a].stage = "read" /\ Unread(a) = {} /\ books' = [k \in Keys |-> Finding(a, k)]
      /\ rowsMade' = [k \in Keys |-> IF books'[k] # Absent /\ ~SameRow(books[k], books'[k])
                                     THEN rowsMade[k] + 1 ELSE rowsMade[k]]
      /\ mapping' = [k \in Keys |-> IF SameRow(books[k], books'[k]) THEN mapping[k] ELSE Absent]
      /\ Steps(a, Off) /\ UNCHANGED <<files, changes, mounted, history, removal>>
  BY DEF ReconcileFolder, Stage
<1>2. \A k \in Keys : Finding(a, k) \in Rows \cup {Absent}
  BY FindingIs
<1>3. \A k \in Keys : rowsMade[k] \in Nat
  BY FolderIs
<1>4. rowsMade' \in [Keys -> Nat]
  BY <1>1, <1>3
<1>5. pass' \in [Passes -> Trips] /\ pass'[a] = Off /\ \A b \in Passes : b # a => pass'[b] = pass[b]
  BY <1>1, TripRests, PassSteps DEF CatalogTyped
<1>. QED
  BY <1>1, <1>2, <1>4, <1>5

LEMMA CommitGraph ==
  ASSUME CatalogTyped, NEW a \in Passes, ReconcileFolder(a)
  PROVE  \E drained, purged \in SUBSET works : \E A, E \in [Digests -> Works \cup {Absent}] :
           /\ \/ drained = {} /\ purged = {}
              \/ drained = Empty(works, mapping) /\ purged = Empty(works, mapping')
           /\ Registered(Without(alias, drained), Without(edition, drained), A, E, a)
           /\ works' = works \ (drained \cup purged)
           /\ alias' = Without(A, purged) /\ edition' = Without(E, purged)
<1>. DEFINE drained == IF IsCalibre /\ Concludes(a) THEN Empty(works, mapping) ELSE {}
            purged == IF IsCalibre /\ Concludes(a) THEN Empty(works, mapping') ELSE {}
<1>1. PICK A \in [Digests -> Works \cup {Absent}], E \in [Digests -> Works \cup {Absent}] :
        /\ Registered(Without(alias, drained), Without(edition, drained), A, E, a)
        /\ works' = works \ (drained \cup purged)
        /\ alias' = Without(A, purged) /\ edition' = Without(E, purged)
  BY DEF ReconcileFolder
<1>2. drained \in SUBSET works /\ purged \in SUBSET works
  BY DEF Empty
<1>3. \/ drained = {} /\ purged = {}
      \/ drained = Empty(works, mapping) /\ purged = Empty(works, mapping')
  OBVIOUS
<1>. HIDE DEF drained, purged
<1>. QED
  BY <1>1, <1>2, <1>3

(* Without forgets works; what is left names works that stay.              *)
LEMMA WithoutIs ==
  ASSUME NEW T, NEW W, NEW f \in [Digests -> T \cup {Absent}]
  PROVE  /\ Without(f, W) \in [Digests -> (T \ W) \cup {Absent}]
         /\ \A d \in Digests : /\ Without(f, W)[d] \in {f[d], Absent} /\ Without(f, W)[d] \notin W \ {Absent}
                               /\ f[d] \notin W => Without(f, W)[d] = f[d]
<1>1. Without(f, W) = [d \in Digests |-> IF f[d] \in W THEN Absent ELSE f[d]]
  BY DEF Without
<1>. QED
  BY <1>1

(* No book points at an empty work.                                        *)
LEMMA EmptyIs ==
  ASSUME NEW W, NEW m, NEW w \in Empty(W, m)
  PROVE  w \in W /\ w \notin history /\ \A k \in Keys : m[k] # w
  BY DEF Empty

LEMMA KeptWorks ==
  ASSUME CatalogAssumption, CatalogTyped, NEW a \in Passes, ReconcileFolder(a),
         NEW drained \in SUBSET works, NEW purged \in SUBSET works,
         \/ drained = {} /\ purged = {}
         \/ drained = Empty(works, mapping) /\ purged = Empty(works, mapping')
  PROVE  /\ \A k \in Keys : mapping[k] # Absent => mapping[k] \in works \ drained
         /\ \A k \in Keys : mapping'[k] # Absent => mapping'[k] = mapping[k] /\ mapping[k] \in works \ (drained \cup purged)
         /\ history \cap (drained \cup purged) = {}
<1>1. \A k \in Keys : mapping[k] \in works \cup {Absent}
  BY FolderIs
<1>2. \A k \in Keys : mapping'[k] # Absent => mapping'[k] = mapping[k]
  BY CommitRows
<1>3. CASE drained = {} /\ purged = {}
  BY <1>1, <1>2, <1>3
<1>4. CASE drained = Empty(works, mapping) /\ purged = Empty(works, mapping')
  BY <1>1, <1>2, <1>4, EmptyIs
<1>. QED
  BY <1>3, <1>4

LEMMA RekeyedAre ==
  ASSUME CatalogTyped, NEW a \in Passes, NEW d, NEW w \in Rekeyed(a, d)
  PROVE  \E k \in Keys : mapping[k] = w /\ w # Absent /\ SameRow(books[k], Finding(a, k))
<1>1. Observed(a) \subseteq Keys
  BY TripIs DEF Observed
<1>. QED
  BY <1>1 DEF Rekeyed

LEMMA CommitTyped ==
  ASSUME CatalogAssumption, CatalogTyped, NEW a \in Passes, ReconcileFolder(a)
  PROVE  CatalogTyped'
<1>1. PICK drained \in SUBSET works, purged \in SUBSET works :
        \E A, E \in [Digests -> Works \cup {Absent}] :
           /\ \/ drained = {} /\ purged = {}
              \/ drained = Empty(works, mapping) /\ purged = Empty(works, mapping')
           /\ Registered(Without(alias, drained), Without(edition, drained), A, E, a)
           /\ works' = works \ (drained \cup purged)
           /\ alias' = Without(A, purged) /\ edition' = Without(E, purged)
  BY CommitGraph
<1>2. PICK A \in [Digests -> Works \cup {Absent}], E \in [Digests -> Works \cup {Absent}] :
           /\ Registered(Without(alias, drained), Without(edition, drained), A, E, a)
           /\ works' = works \ (drained \cup purged)
           /\ alias' = Without(A, purged) /\ edition' = Without(E, purged)
  BY <1>1
<1>3. /\ \A k \in Keys : mapping[k] # Absent => mapping[k] \in works \ drained
      /\ \A k \in Keys : mapping'[k] # Absent => mapping[k] = mapping'[k] /\ mapping[k] \in works'
      /\ history \cap (drained \cup purged) = {}
  <2>1. /\ \A k \in Keys : mapping[k] # Absent => mapping[k] \in works \ drained
        /\ \A k \in Keys : mapping'[k] # Absent => mapping'[k] = mapping[k] /\ mapping[k] \in works \ (drained \cup purged)
        /\ history \cap (drained \cup purged) = {}
    BY <1>1, KeptWorks
  <2>. QED
    BY <1>2, <2>1
<1>4. /\ alias \in [Digests -> works \cup {Absent}] /\ edition \in [Digests -> works \cup {Absent}]
      /\ works \subseteq Works /\ history \subseteq works
  BY DEF CatalogTyped, GraphTyped
<1>5. ASSUME NEW d \in Digests PROVE A[d] \in (works \ drained) \cup {Absent} /\ E[d] \in (works \ drained) \cup {Absent}
  <2>. DEFINE al == Without(alias, drained)  ed == Without(edition, drained)
              free == {w \in Rekeyed(a, d) : {al[d], ed[d]} \subseteq {Absent, w}}
  <2>1. al[d] \in (works \ drained) \cup {Absent} /\ ed[d] \in (works \ drained) \cup {Absent}
    BY <1>4, <1>5, WithoutIs
  <2>2. \A w \in Rekeyed(a, d) : w \in works \ drained
    BY <1>3, RekeyedAre
  <2>3. (A[d] = al[d] /\ E[d] = ed[d]) \/ (A[d] \in free /\ E[d] = A[d])
    BY <1>2, <1>5 DEF Registered
  <2>. QED
    BY <2>1, <2>2, <2>3
<1>6. A \in [Digests -> (works \ drained) \cup {Absent}] /\ E \in [Digests -> (works \ drained) \cup {Absent}]
  BY <1>2, <1>5
<1>7. /\ Without(A, purged) \in [Digests -> ((works \ drained) \ purged) \cup {Absent}]
      /\ Without(E, purged) \in [Digests -> ((works \ drained) \ purged) \cup {Absent}]
  BY <1>6, WithoutIs
<1>8. (works \ drained) \ purged = works'
  BY <1>2
<1>9. mapping' \in [Keys -> works' \cup {Absent}]
  <2>1. mapping' = [k \in Keys |-> IF SameRow(books[k], books'[k]) THEN mapping[k] ELSE Absent]
    BY CommitRows
  <2>. QED
    BY <1>3, <2>1
<1>10. GraphTyped'
  BY <1>2, <1>3, <1>4, <1>7, <1>8, <1>9, CommitRows DEF GraphTyped
<1>11. TripsTyped'
  BY CommitRows, TripRests DEF CatalogTyped, TripsTyped
<1>. QED
  BY <1>10, <1>11, CommitRows DEF CatalogTyped, FolderTyped, RowsTyped

(* A row is deleted, and with it at most the reading of that book alone.   *)
LEMMA ForgettableIs ==
  ASSUME CatalogTyped, NEW k \in Keys, NEW forgotten \in Forgettable(k)
  PROVE  /\ forgotten \subseteq works
         /\ \A w \in forgotten : mapping[k] = w /\ \A j \in Keys : j # k => mapping[j] # w
  BY DEF Forgettable

LEMMA RowGoes ==
  ASSUME CatalogAssumption, CatalogTyped, NEW k \in Keys, NEW forgotten \in Forgettable(k),
         DeletesRow(k, forgotten)
  PROVE  /\ RowsTyped' /\ GraphTyped' /\ UNCHANGED rowsMade
         /\ books'[k] = Absent /\ \A j \in Keys : j # k => books'[j] = books[j]
         /\ \A w \in works \ works' : /\ \A j \in Keys : mapping[j] = w => j = k
                                      /\ w \in history => mapping[k] = w /\ w \in forgotten
<1>. DEFINE lost == forgotten \cup Empty(works \ forgotten, mapping')
<1>0. /\ books \in [Keys -> Rows \cup {Absent}] /\ rowsMade \in [Keys -> Nat]
      /\ mapping \in [Keys -> works \cup {Absent}]
      /\ alias \in [Digests -> works \cup {Absent}] /\ edition \in [Digests -> works \cup {Absent}]
      /\ works \subseteq Works /\ history \subseteq works
  BY DEF CatalogTyped, RowsTyped, GraphTyped
<1>1. /\ books' = [books EXCEPT ![k] = Absent] /\ mapping' = [mapping EXCEPT ![k] = Absent]
      /\ works' = works \ lost /\ history' = history \ forgotten
      /\ alias' = Without(alias, lost) /\ edition' = Without(edition, lost) /\ rowsMade' = rowsMade
  BY DEF DeletesRow
<1>2. \A w \in lost : \/ w \in forgotten
                      \/ w \in works \ forgotten /\ w \notin history /\ \A j \in Keys : mapping'[j] # w
  BY EmptyIs
<1>3. \A w \in forgotten : mapping[k] = w /\ \A j \in Keys : j # k => mapping[j] # w
  BY ForgettableIs
<1>. HIDE DEF lost
<1>4. ASSUME NEW j \in Keys PROVE mapping'[j] \in works' \cup {Absent}
  <2>1. CASE j = k
    BY <1>0, <1>1, <2>1
  <2>2. CASE j # k
    <3>1. mapping'[j] = mapping[j] /\ mapping[j] \in works \cup {Absent}
      BY <1>0, <1>1, <2>2
    <3>2. mapping[j] \in lost => mapping[j] \in forgotten
      BY <1>2, <3>1
    <3>. QED
      BY <1>1, <1>3, <2>2, <3>1, <3>2
  <2>. QED
    BY <2>1, <2>2
<1>5. mapping' \in [Keys -> works' \cup {Absent}]
  BY <1>0, <1>1, <1>4
<1>6. history' \subseteq works' /\ works' \subseteq Works
  BY <1>0, <1>1, <1>2
<1>7. /\ alias' \in [Digests -> works' \cup {Absent}] /\ edition' \in [Digests -> works' \cup {Absent}]
  BY <1>0, <1>1, WithoutIs
<1>8. RowsTyped' /\ books'[k] = Absent /\ \A j \in Keys : j # k => books'[j] = books[j]
  BY <1>0, <1>1 DEF RowsTyped
<1>9. ASSUME NEW w \in works \ works'
      PROVE  /\ \A j \in Keys : mapping[j] = w => j = k
             /\ w \in history => mapping[k] = w /\ w \in forgotten
  <2>1. w \in lost
    BY <1>1, <1>9
  <2>2. CASE w \in forgotten
    BY <1>3, <2>2
  <2>3. CASE w \notin history /\ \A j \in Keys : mapping'[j] # w
    <3>1. \A j \in Keys : j # k => mapping'[j] = mapping[j]
      BY <1>0, <1>1
    <3>. QED
      BY <2>3, <3>1
  <2>. QED
    BY <1>2, <2>1, <2>2, <2>3
<1>. QED
  BY <1>1, <1>5, <1>6, <1>7, <1>8, <1>9 DEF GraphTyped

(* What a request does, by its kind.                                       *)
RequestKinds ==
  \/ /\ GraphTyped' /\ works \subseteq works'
     /\ UNCHANGED <<books, rowsMade, files, changes, removal>>
  \/ /\ FileChanges /\ files' \in [Keys -> Entries \cup {Absent}] /\ changes' \in [Keys -> Nat]
     /\ UNCHANGED <<books, rowsMade, mapping, works, history, alias, edition>>
  \/ /\ UNCHANGED <<files, changes, books, rowsMade, mapping, works, history, alias, edition>>
  \/ \E k \in Keys :
       /\ RowsTyped' /\ GraphTyped' /\ UNCHANGED <<files, changes>>
       /\ books'[k] = Absent /\ \A j \in Keys : j # k => books'[j] = books[j]
       /\ \A w \in works \ works' :
            /\ \A j \in Keys : mapping[j] = w => j = k
            /\ w \in history => removal # Absent /\ removal' = Absent /\ removal.key = k /\ mapping[k] = w

LEMMA ResolveStep ==
  ASSUME CatalogTyped, NEW d \in Digests, NEW w \in Works, NEW M, NEW e \in BOOLEAN, ResolveWorkTx(M, d, w, e)
  PROVE  /\ works' = works \cup {w} /\ works' \subseteq Works
         /\ alias' \in [Digests -> works' \cup {Absent}] /\ edition' \in [Digests -> works' \cup {Absent}]
<1>1. /\ works \subseteq Works /\ alias \in [Digests -> works \cup {Absent}]
      /\ edition \in [Digests -> works \cup {Absent}]
  BY DEF CatalogTyped, GraphTyped
<1>2. /\ works' = works \cup {w} /\ alias' = [alias EXCEPT ![d] = w]
      /\ edition' \in {edition, [edition EXCEPT ![d] = w]}
  BY DEF ResolveWorkTx
<1>. QED
  BY <1>1, <1>2

RemovalTyped == removal # Absent => removal.key \in Keys

LEMMA RequestStep ==
  ASSUME CatalogAssumption, CatalogTyped, RemovalTyped, Requests
  PROVE  /\ RequestKinds /\ UNCHANGED <<mounted, pass, readFailures>>
         /\ removal' # Absent /\ removal' # removal => \E k \in Keys : \E g : removal' = [key |-> k, gen |-> g]
<1>0. UNCHANGED <<mounted, pass, readFailures>>
  BY DEF Requests
<1>. DEFINE Good == /\ RequestKinds
                    /\ removal' # Absent /\ removal' # removal => \E k \in Keys : \E g : removal' = [key |-> k, gen |-> g]
<1>1. ASSUME NEW k \in Keys, ResolveCatalogBookWork(k) PROVE Good
  <2>1. PICK w \in Works : /\ ResolveWorkTx({alias[books[k].bytes], mapping[k]}, books[k].bytes, w, TRUE)
                           /\ mapping' = [mapping EXCEPT ![k] = w]
    BY <1>1 DEF ResolveCatalogBookWork
  <2>2. UNCHANGED <<history, books, rowsMade, removal, files, changes>>
    BY <1>1 DEF ResolveCatalogBookWork
  <2>3. mapping \in [Keys -> works \cup {Absent}] /\ history \subseteq works
    BY DEF CatalogTyped, GraphTyped
  <2>4. CASE books[k].bytes \in Digests
    <3>1. /\ works' = works \cup {w} /\ works' \subseteq Works
          /\ alias' \in [Digests -> works' \cup {Absent}] /\ edition' \in [Digests -> works' \cup {Absent}]
      BY <2>1, <2>4, ResolveStep
    <3>. QED
      BY <2>1, <2>2, <2>3, <3>1 DEF GraphTyped, RequestKinds
  <2>5. CASE books[k].bytes \notin Digests
    <3>1. /\ works \subseteq Works /\ alias \in [Digests -> works \cup {Absent}]
          /\ edition \in [Digests -> works \cup {Absent}]
      BY DEF CatalogTyped, GraphTyped
    <3>2. /\ works' = works \cup {w} /\ alias' = [alias EXCEPT ![books[k].bytes] = w]
          /\ edition' = [edition EXCEPT ![books[k].bytes] = w]
      BY <2>1 DEF ResolveWorkTx
    <3>3. alias' = alias /\ edition' = edition
      BY <2>5, <3>1, <3>2
    <3>. QED
      BY <2>1, <2>2, <2>3, <3>1, <3>2, <3>3 DEF GraphTyped, RequestKinds
  <2>. QED
    BY <2>4, <2>5
<1>2. ASSUME NEW k \in Keys, RemoveBook(k) PROVE Good
  <2>1. removal' = [key |-> k, gen |-> books[k].gen]
    BY <1>2 DEF RemoveBook
  <2>. QED
    BY <1>2, <2>1, RemoveBookStep DEF RequestKinds
<1>3. ASSUME NEW k \in Keys, DeleteMissingBook(k) PROVE Good
  <2>1. DeletesRow(k, {}) /\ UNCHANGED <<removal, files, changes>>
    BY <1>3 DEF DeleteMissingBook
  <2>2. {} \in Forgettable(k)
    BY DEF Forgettable
  <2>3. /\ RowsTyped' /\ GraphTyped' /\ UNCHANGED rowsMade
        /\ books'[k] = Absent /\ \A j \in Keys : j # k => books'[j] = books[j]
        /\ \A w \in works \ works' : /\ \A j \in Keys : mapping[j] = w => j = k
                                     /\ w \in history => mapping[k] = w /\ w \in {}
    BY <2>1, <2>2, RowGoes
  <2>. QED
    BY <2>1, <2>3 DEF RequestKinds
<1>4. ASSUME DeleteCatalogBook PROVE Good
  <2>. DEFINE k == removal.key
  <2>1. removal # Absent /\ removal' = Absent /\ UNCHANGED <<files, changes>> /\ k \in Keys
    BY <1>4 DEF DeleteCatalogBook, RemovalTyped
  <2>2. CASE \E forgotten \in Forgettable(k) : DeletesRow(k, forgotten)
    <3>1. PICK forgotten \in Forgettable(k) : DeletesRow(k, forgotten)
      BY <2>2
    <3>2. /\ RowsTyped' /\ GraphTyped' /\ UNCHANGED rowsMade
          /\ books'[k] = Absent /\ \A j \in Keys : j # k => books'[j] = books[j]
          /\ \A w \in works \ works' : /\ \A j \in Keys : mapping[j] = w => j = k
                                       /\ w \in history => mapping[k] = w /\ w \in forgotten
      BY <2>1, <3>1, RowGoes
    <3>. QED
      BY <2>1, <3>2 DEF RequestKinds
  <2>3. CASE UNCHANGED <<bookTables, graph>>
    BY <2>1, <2>3 DEF RequestKinds, bookTables, graph
  <2>. QED
    BY <1>4, <2>2, <2>3 DEF DeleteCatalogBook
<1>5. ASSUME NEW d \in Digests, DeviceReads(d) PROVE Good
  <2>1. PICK w \in Works, described \in BOOLEAN :
          ResolveWorkTx({alias[d]}, d, w, described) /\ history' = history \cup {w}
    BY <1>5 DEF DeviceReads
  <2>2. UNCHANGED <<books, rowsMade, mapping, removal, files, changes>>
    BY <1>5 DEF DeviceReads, bookTables
  <2>3. /\ works' = works \cup {w} /\ works' \subseteq Works
        /\ alias' \in [Digests -> works' \cup {Absent}] /\ edition' \in [Digests -> works' \cup {Absent}]
    BY <1>5, <2>1, ResolveStep
  <2>4. mapping \in [Keys -> works \cup {Absent}] /\ history \subseteq works
    BY DEF CatalogTyped, GraphTyped
  <2>. QED
    BY <2>1, <2>2, <2>3, <2>4 DEF GraphTyped, RequestKinds
<1>. QED
  BY <1>0, <1>1, <1>2, <1>3, <1>4, <1>5 DEF Requests

CatalogBase == CatalogTyped /\ RemovalTyped

LEMMA CatalogStarts == ASSUME CatalogAssumption, CatalogInit PROVE CatalogBase
<1>1. FolderTyped /\ RowsTyped /\ GraphTyped /\ RemovalTyped
  BY DEF CatalogInit, FolderTyped, RowsTyped, GraphTyped, RemovalTyped
<1>2. TripsTyped
  BY TripRests DEF CatalogInit, TripsTyped
<1>. QED
  BY <1>1, <1>2 DEF CatalogBase, CatalogTyped

LEMMA CatalogBaseKept ==
  ASSUME CatalogAssumption, CatalogBase, [CatalogNext]_catalogVars
  PROVE  CatalogBase'
<1>0. CatalogTyped /\ RemovalTyped
  BY DEF CatalogBase
<1>. DEFINE Good == CatalogTyped' /\ RemovalTyped'
<1>1. ASSUME Folder PROVE Good
  BY <1>0, <1>1, FolderStep DEF CatalogTyped, RowsTyped, GraphTyped, TripsTyped, RemovalTyped
<1>2. ASSUME Ingest PROVE Good
  <2>1. UNCHANGED <<books, rowsMade, mapping, works, history, alias, edition, removal>>
    BY <1>2 DEF Ingest, bookTables, graph
  <2>2. /\ pass' \in [Passes -> Trips] /\ KeepsStage(pass'["ingest"]) /\ FolderTyped'
        /\ \A b \in Passes : b # "ingest" => pass'[b] = pass[b]
    BY <1>0, <1>2, IngestStep
  <2>3. TripsTyped'
    BY <1>0, <2>2 DEF CatalogTyped, TripsTyped
  <2>. QED
    BY <1>0, <2>1, <2>2, <2>3 DEF CatalogTyped, RowsTyped, GraphTyped, RemovalTyped
<1>3. ASSUME Requests PROVE Good
  <2>1. RequestKinds /\ UNCHANGED <<mounted, pass>>
        /\ (removal' # Absent /\ removal' # removal => \E k \in Keys : \E g : removal' = [key |-> k, gen |-> g])
    BY <1>0, <1>3, RequestStep
  <2>2. RemovalTyped'
    BY <1>0, <2>1 DEF RemovalTyped
  <2>3. TripsTyped'
    BY <1>0, <2>1 DEF CatalogTyped, TripsTyped
  <2>4. FolderTyped' /\ RowsTyped' /\ GraphTyped'
    BY <1>0, <2>1 DEF RequestKinds, CatalogTyped, FolderTyped, RowsTyped, GraphTyped
  <2>. QED
    BY <2>2, <2>3, <2>4 DEF CatalogTyped
<1>4. ASSUME NEW a \in Passes, Begin(a) PROVE Good
  <2>1. UNCHANGED <<files, changes, mounted, books, rowsMade, mapping, works, history, alias, edition, removal>>
    BY <1>4 DEF Begin, bookTables, graph
  <2>2. /\ pass' \in [Passes -> Trips] /\ KeepsStage(pass'[a])
        /\ \A b \in Passes : b # a => pass'[b] = pass[b]
    BY <1>0, <1>4, BeginStep
  <2>3. TripsTyped'
    BY <1>0, <2>2 DEF CatalogTyped, TripsTyped
  <2>. QED
    BY <1>0, <2>1, <2>3 DEF CatalogTyped, FolderTyped, RowsTyped, GraphTyped, RemovalTyped
<1>5. ASSUME NEW a \in Passes, Scans(a) PROVE Good
  BY <1>0, <1>5, ScansTyped, ScanKinds DEF RemovalTyped
<1>6. ASSUME NEW a \in Passes, ReconcileFolder(a) PROVE Good
  BY <1>0, <1>6, CommitTyped, CommitRows DEF RemovalTyped
<1>7. ASSUME UNCHANGED catalogVars PROVE Good
  BY <1>0, <1>7 DEF catalogVars, bookTables, graph, CatalogTyped, FolderTyped, RowsTyped, GraphTyped,
                    TripsTyped, RemovalTyped
<1>. QED
  BY <1>1, <1>2, <1>3, <1>4, <1>5, <1>6, <1>7 DEF CatalogNext, CatalogBase

(* The tables of the catalog stay well formed: a mapping and every name of *)
(* a work point at a work that is there, and so does what was read; a pass *)
(* that reads holds a listing and the rows of every book.                  *)
THEOREM CatalogTables == ASSUME CatalogAssumption PROVE CatalogSpec => []CatalogTyped
<1>1. CatalogInit => CatalogBase
  BY CatalogStarts
<1>2. CatalogBase /\ [CatalogNext]_catalogVars => CatalogBase'
  BY CatalogBaseKept
<1>3. CatalogBase => CatalogTyped
  BY DEF CatalogBase
<1>. QED
  BY <1>1, <1>2, <1>3, PTL DEF CatalogSpec

(* What takes a work takes none that is needed.                            *)
LEMMA WorksGo ==
  ASSUME CatalogAssumption, CatalogBase, [CatalogNext]_catalogVars, NEW w \in works \ works'
  PROVE  MayGo(w)
<1>0. CatalogTyped /\ RemovalTyped
  BY DEF CatalogBase
<1>1. CASE Folder
  BY <1>1 DEF Folder, graph
<1>2. CASE Ingest
  BY <1>2 DEF Ingest, graph
<1>3. CASE Requests
  <2>1. RequestKinds
    BY <1>0, <1>3, RequestStep
  <2>2. PICK k \in Keys :
          /\ books'[k] = Absent
          /\ \A j \in Keys : mapping[j] = w => j = k
          /\ w \in history => removal # Absent /\ removal' = Absent /\ removal.key = k /\ mapping[k] = w
    BY <2>1 DEF RequestKinds
  <2>3. \A j \in Keys : mapping[j] = w => ~SameRow(books[j], books'[j])
    BY <2>2 DEF SameRow
  <2>4. w \in history => removal # Absent /\ removal' = Absent /\ mapping[removal.key] = w
    BY <2>2
  <2>. QED
    BY <2>3, <2>4 DEF MayGo
<1>4. ASSUME NEW a \in Passes, Begin(a) PROVE MayGo(w)
  BY <1>4 DEF Begin, graph
<1>5. ASSUME NEW a \in Passes, Scans(a) PROVE MayGo(w)
  BY <1>5 DEF Scans, graph
<1>6. ASSUME NEW a \in Passes, ReconcileFolder(a) PROVE MayGo(w)
  <2>1. PICK drained \in SUBSET works, purged \in SUBSET works :
           /\ \/ drained = {} /\ purged = {}
              \/ drained = Empty(works, mapping) /\ purged = Empty(works, mapping')
           /\ works' = works \ (drained \cup purged)
    BY <1>0, <1>6, CommitGraph
  <2>2. /\ \A k \in Keys : mapping'[k] # Absent => mapping'[k] = mapping[k] /\ mapping[k] \in works \ (drained \cup purged)
        /\ history \cap (drained \cup purged) = {}
    BY <1>0, <1>6, <2>1, KeptWorks
  <2>3. w \in drained \cup purged /\ w # Absent /\ w \notin history
    BY <1>0, <2>1, <2>2 DEF CatalogTyped, GraphTyped, CatalogAssumption
  <2>4. ASSUME NEW k \in Keys, mapping[k] = w, SameRow(books[k], books'[k]) PROVE FALSE
    <3>1. mapping'[k] = w
      BY <1>0, <1>6, <2>4, CommitRows
    <3>. QED
      BY <2>2, <2>3, <3>1
  <2>. QED
    BY <2>3, <2>4 DEF MayGo
<1>7. CASE UNCHANGED catalogVars
  BY <1>7 DEF catalogVars, graph
<1>. QED
  BY <1>1, <1>2, <1>3, <1>4, <1>5, <1>6, <1>7 DEF CatalogNext

(* No pass and no deletion of a book takes a work somebody read, or one    *)
(* another book belongs to, in any folder, whoever runs passes             *)
(* (reconcile.go:528-570, delete.go:189-210).                              *)
THEOREM NobodyLosesReading == ASSUME CatalogAssumption PROVE CatalogSpec => ReadingSurvives
<1>1. CatalogInit => CatalogBase
  BY CatalogStarts
<1>2. CatalogBase /\ [CatalogNext]_catalogVars => CatalogBase'
  BY CatalogBaseKept
<1>3. CatalogBase /\ [CatalogNext]_catalogVars => [\A w \in works \ works' : MayGo(w)]_catalogVars
  BY WorksGo
<1>. QED
  BY <1>1, <1>2, <1>3, PTL DEF CatalogSpec, ReadingSurvives

(* Only the commit of a pass leads from reading to rest.                   *)
LEMMA CommitsAre ==
  ASSUME CatalogAssumption, CatalogBase, [CatalogNext]_catalogVars, NEW a \in Passes, Committed(a)
  PROVE  ReconcileFolder(a)
<1>0. CatalogTyped /\ RemovalTyped /\ pass[a].stage = "read" /\ pass'[a].stage = "off"
  BY DEF CatalogBase, Committed, Stage
<1>1. CASE Folder \/ Requests \/ UNCHANGED catalogVars
  BY <1>0, <1>1 DEF Folder, Requests, catalogVars
<1>2. CASE Ingest
  <2>1. /\ pass'["ingest"].stage = "list"
        /\ \A b \in Passes : b # "ingest" => pass'[b] = pass[b]
    BY <1>0, <1>2, IngestStep
  <2>. QED
    BY <1>0, <2>1
<1>3. ASSUME NEW b \in Passes, Begin(b) PROVE ReconcileFolder(a)
  <2>1. pass'[b].stage = "list" /\ \A c \in Passes : c # b => pass'[c] = pass[c]
    BY <1>0, <1>3, BeginStep
  <2>. QED
    BY <1>0, <2>1
<1>4. ASSUME NEW b \in Passes, Scans(b) PROVE ReconcileFolder(a)
  <2>. DEFINE Good == pass'[b].stage # "off" /\ \A c \in Passes : c # b => pass'[c] = pass[c]
  <2>1. ASSUME NEW k \in Unread(b), NEW o \in Observations, pass[b].stage = "read",
               o.how = "read" => o.bytes # Absent, Steps(b, [pass[b] EXCEPT !.obs = With(@, k, o)])
        PROVE  Good
    <3>1. k \in Keys
      BY <1>0, <2>1, UnreadIs
    <3>2. pass'[b].stage = "read" /\ \A c \in Passes : c # b => pass'[c] = pass[c]
      BY <1>0, <2>1, <3>1, ObserveStep
    <3>. QED
      BY <3>2
  <2>2. ASSUME BooksInFolder(b) PROVE Good
    <3>1. pass'[b].stage = "read" /\ \A c \in Passes : c # b => pass'[c] = pass[c]
      BY <1>0, <2>2, KnowStep
    <3>. QED
      BY <3>1
  <2>3. ASSUME NEW k \in Keys, ListPath(b, k) PROVE Good
    <3>1. pass'[b].stage = "list" /\ \A c \in Passes : c # b => pass'[c] = pass[c]
      BY <1>0, <2>3, ListStep
    <3>. QED
      BY <3>1
  <2>4. ASSUME pass[b].stage = "read", NEW k \in Unread(b), SeeAsBefore(b, k) PROVE Good
    <3>1. PICK o \in Observations :
            Steps(b, [pass[b] EXCEPT !.obs = With(@, k, o)]) /\ o.how = "unchanged"
      BY <1>0, <2>4, SeesStep
    <3>. QED
      BY <2>1, <2>4, <3>1
  <2>5. ASSUME pass[b].stage = "read", NEW k \in Unread(b), ReadBook(b, k) PROVE Good
    <3>1. PICK o \in Observations :
            Steps(b, [pass[b] EXCEPT !.obs = With(@, k, o)]) /\ o.bytes # Absent
      BY <1>0, <2>5, ReadsStep
    <3>. QED
      BY <2>1, <2>5, <3>1
  <2>6. ASSUME pass[b].stage = "read", NEW k \in Unread(b), IsCalibre, FindNothing(b, k) PROVE Good
    <3>1. PICK o \in Observations :
            Steps(b, [pass[b] EXCEPT !.obs = With(@, k, o)]) /\ o.how = "unservable"
      BY <1>0, <2>6, NothingStep
    <3>. QED
      BY <2>1, <2>6, <3>1
  <2>7. ASSUME pass[b].stage = "read", NEW k \in Unread(b),
               Steps(b, [pass[b] EXCEPT !.complete = FALSE, !.listed[k].entry = Absent])
        PROVE  Good
    <3>1. k \in DOMAIN pass[b].listed
      BY <1>0, <2>7, UnreadIs
    <3>2. pass'[b].stage = "read" /\ \A c \in Passes : c # b => pass'[c] = pass[c]
      BY <1>0, <2>7, <3>1, MissStep
    <3>. QED
      BY <3>2
  <2>8. Good
    BY <1>0, <1>4, <2>2, <2>3, <2>4, <2>5, <2>6, <2>7, ScanKinds
  <2>. QED
    BY <1>0, <2>8
<1>5. ASSUME NEW b \in Passes, ReconcileFolder(b) PROVE ReconcileFolder(a)
  <2>1. \A c \in Passes : c # b => pass'[c] = pass[c]
    BY <1>0, <1>5, CommitRows
  <2>2. b = a
    BY <1>0, <2>1
  <2>. QED
    BY <1>5, <2>2
<1>. QED
  BY <1>1, <1>2, <1>3, <1>4, <1>5 DEF CatalogNext

LEMMA BytesGetNamed ==
  ASSUME CatalogAssumption, CatalogBase, [CatalogNext]_catalogVars, NEW a \in Passes, NEW k \in Keys,
         Renamed(a, k)
  PROVE  \/ \E j \in Keys : mapping[j] \in NamedBy(books'[k].bytes)
         \/ {alias'[books'[k].bytes], edition'[books'[k].bytes]} # {Absent}
<1>. DEFINE d == books'[k].bytes
<1>0. CatalogTyped /\ RemovalTyped /\ ReconcileFolder(a) /\ mapping'[k] # Absent /\ d # books[k].bytes
  BY CommitsAre DEF CatalogBase, Renamed
<1>1. /\ books'[k] = Finding(a, k) /\ SameRow(books[k], Finding(a, k)) /\ mapping[k] = mapping'[k]
  BY <1>0, CommitRows
<1>2. books[k] # Absent /\ books'[k] # Absent
  BY <1>1 DEF SameRow
<1>3. k \in Observed(a) /\ Obs(a, k).how = "read" /\ Obs(a, k).bytes = d
  BY <1>0, <1>1, <1>2, FindingIs
<1>4. d \in Digests
  <2>1. Obs(a, k) \in Observations /\ Obs(a, k).bytes # Absent
    BY <1>0, <1>3, TripIs DEF Obs, Observed, KeepsStage
  <2>2. Obs(a, k).bytes \in Contents
    BY <2>1, ObservationIs
  <2>. QED
    BY <1>3, <2>1, <2>2 DEF Contents
<1>. HIDE DEF d
<1>5. mapping[k] \in Rekeyed(a, d) /\ mapping[k] \in works
  BY <1>0, <1>1, <1>3, FolderIs DEF Rekeyed, d
<1>6. PICK drained \in SUBSET works, purged \in SUBSET works :
        \E A, E \in [Digests -> Works \cup {Absent}] :
           /\ \/ drained = {} /\ purged = {}
              \/ drained = Empty(works, mapping) /\ purged = Empty(works, mapping')
           /\ Registered(Without(alias, drained), Without(edition, drained), A, E, a)
           /\ works' = works \ (drained \cup purged)
           /\ alias' = Without(A, purged) /\ edition' = Without(E, purged)
  BY <1>0, CommitGraph
<1>7. PICK A \in [Digests -> Works \cup {Absent}], E \in [Digests -> Works \cup {Absent}] :
           /\ Registered(Without(alias, drained), Without(edition, drained), A, E, a)
           /\ alias' = Without(A, purged) /\ edition' = Without(E, purged)
  BY <1>6
<1>8. \A i \in Keys : mapping'[i] # Absent => mapping'[i] = mapping[i] /\ mapping[i] \in works \ (drained \cup purged)
  BY <1>0, <1>6, KeptWorks
<1>. DEFINE al == Without(alias, drained)  ed == Without(edition, drained)
            free == {w \in Rekeyed(a, d) : {al[d], ed[d]} \subseteq {Absent, w}}
<1>9. /\ A[d] \notin purged => alias'[d] = A[d]
      /\ E[d] \notin purged => edition'[d] = E[d]
  BY <1>4, <1>7 DEF Without
<1>10. CASE A[d] \in free
  <2>1. PICK i \in Keys : mapping[i] = A[d] /\ A[d] # Absent /\ SameRow(books[i], Finding(a, i))
    BY <1>0, <1>10, RekeyedAre
  <2>2. mapping'[i] = A[d]
    BY <1>0, <2>1, CommitRows
  <2>. QED
    BY <1>8, <1>9, <2>1, <2>2 DEF d
<1>11. CASE free = {} /\ A[d] = al[d] /\ E[d] = ed[d]
  <2>1. ~({al[d], ed[d]} \subseteq {Absent, mapping[k]})
    BY <1>5, <1>11
  <2>2. PICK x \in {al[d], ed[d]} : x # Absent /\ x # mapping[k]
    BY <2>1
  <2>3. /\ al[d] \in {alias[d], Absent} /\ ed[d] \in {edition[d], Absent}
        /\ al[d] \notin drained \ {Absent} /\ ed[d] \notin drained \ {Absent}
    BY <1>0, <1>4, WithoutIs DEF CatalogTyped, GraphTyped
  <2>4. x \in NamedBy(d) /\ x \notin drained
    BY <2>2, <2>3 DEF NamedBy
  <2>5. CASE x \notin purged
    BY <1>9, <1>11, <2>2, <2>5 DEF d
  <2>6. CASE x \in purged
    <3>1. drained = Empty(works, mapping) /\ x \in works /\ x \notin history
      BY <1>6, <2>6, EmptyIs
    <3>2. \E i \in Keys : mapping[i] = x
      BY <2>4, <3>1 DEF Empty
    <3>. QED
      BY <2>4, <3>2 DEF d
  <2>. QED
    BY <2>5, <2>6
<1>. QED
  BY <1>4, <1>7, <1>10, <1>11 DEF Registered

(* After the commit of any pass the new bytes of a book somebody reads     *)
(* name a work, unless they were another mapped book's bytes               *)
(* (reconcile.go:77-85, 573-589).                                          *)
THEOREM RewrittenBooksAreNamed == ASSUME CatalogAssumption PROVE CatalogSpec => NewBytesAreNamed
<1>1. CatalogInit => CatalogBase
  BY CatalogStarts
<1>2. CatalogBase /\ [CatalogNext]_catalogVars => CatalogBase'
  BY CatalogBaseKept
<1>3. CatalogBase /\ [CatalogNext]_catalogVars => [\A a \in Passes, k \in Keys : IsNamed(a, k)]_catalogVars
  BY BytesGetNamed DEF IsNamed
<1>. QED
  BY <1>1, <1>2, <1>3, PTL DEF CatalogSpec, NewBytesAreNamed

(* FolderFollows step by step.  What changes in a file, or in a row, takes *)
(* no size and time to other bytes.                                        *)
LEMMA VersionIs ==
  ASSUME CatalogAssumption, CatalogTyped, NEW k \in Keys, NEW x \in Versions(k)
  PROVE  x.stat \in Nat /\ changes[k] \in Nat
<1>1. \/ x = files[k] /\ x # Absent
      \/ x = books[k] /\ x # Absent
      \/ \E a \in Passes : Stage(a) = "read" /\ x = pass[a].known[k] /\ x # Absent
      \/ \E a \in Passes : k \in DOMAIN pass[a].obs /\ x = pass[a].obs[k]
  BY DEF Versions
<1>2. CASE x = files[k] /\ x # Absent
  BY <1>2, FolderIs, EntryIs
<1>3. CASE x = books[k] /\ x # Absent
  BY <1>3, FolderIs, RowIs
<1>4. CASE \E a \in Passes : Stage(a) = "read" /\ x = pass[a].known[k] /\ x # Absent
  <2>1. PICK a \in Passes : pass[a].stage = "read" /\ x = pass[a].known[k] /\ x # Absent
    BY <1>4 DEF Stage
  <2>2. k \in DOMAIN pass[a].known
    BY <2>1, TripIs DEF KeepsStage
  <2>. QED
    BY <2>1, <2>2, TripIs, RowIs, FolderIs
<1>5. CASE \E a \in Passes : k \in DOMAIN pass[a].obs /\ x = pass[a].obs[k]
  <2>1. PICK a \in Passes : k \in DOMAIN pass[a].obs /\ x = pass[a].obs[k]
    BY <1>5
  <2>. QED
    BY <2>1, TripIs, ObservationIs, FolderIs
<1>. QED
  BY <1>1, <1>2, <1>3, <1>4, <1>5

(* Every version after a step says what a version before it said, or is    *)
(* the file as it is now.                                                  *)
SaidBefore(k, x) ==
  \/ \E y \in Versions(k) : x.stat = y.stat /\ x.bytes = y.bytes
  \/ x = files'[k] /\ changes'[k] = changes[k] + 1 /\ x.stat = changes'[k]

LEMMA StatsStay ==
  ASSUME CatalogAssumption, CatalogTyped, StatsTell, NEW k \in Keys, changes'[k] \in Nat, changes[k] <= changes'[k],
         NEW x, SaidBefore(k, x), NEW y, SaidBefore(k, y)
  PROVE  x.stat <= changes'[k] /\ (x.stat = y.stat => x.bytes = y.bytes)
<1>1. \A z \in Versions(k) : z.stat \in Nat /\ z.stat <= changes[k] /\ changes[k] \in Nat
  BY VersionIs DEF StatsTell
<1>2. CASE /\ \E v \in Versions(k) : x.stat = v.stat /\ x.bytes = v.bytes
           /\ \E v \in Versions(k) : y.stat = v.stat /\ y.bytes = v.bytes
  BY <1>1, <1>2 DEF StatsTell
<1>3. CASE /\ \E v \in Versions(k) : x.stat = v.stat /\ x.bytes = v.bytes
           /\ changes'[k] = changes[k] + 1 /\ y.stat = changes'[k]
  BY <1>1, <1>3
<1>4. CASE /\ changes'[k] = changes[k] + 1 /\ x.stat = changes'[k]
           /\ \E v \in Versions(k) : y.stat = v.stat /\ y.bytes = v.bytes
  BY <1>1, <1>4
<1>5. CASE x = files'[k] /\ y = files'[k] /\ x.stat = changes'[k]
  BY <1>5
<1>. QED
  BY <1>2, <1>3, <1>4, <1>5 DEF SaidBefore

LEMMA FilesGoOn ==
  ASSUME CatalogAssumption, CatalogTyped, FileChanges, NEW k \in Keys
  PROVE  /\ changes[k] \in Nat /\ changes'[k] \in Nat /\ changes[k] <= changes'[k]
         /\ changes'[k] = changes[k] => files'[k] = files[k]
  BY FolderIs DEF FileChanges, Replaced

(* A plain folder when its files change and its rows do not: the versions  *)
(* a pass holds are the ones it held.                                      *)
LEMMA FileSays ==
  ASSUME CatalogAssumption, CatalogTyped, ~IsCalibre, FileChanges, NEW k \in Keys, files'[k] # Absent
  PROVE  SaidBefore(k, files'[k])
<1>1. CASE files'[k] = files[k]
  BY <1>1 DEF SaidBefore, Versions
<1>2. CASE Replaced(k) /\ files'[k].stat = changes'[k]
  BY <1>2 DEF SaidBefore, Replaced
<1>3. CASE /\ books[k] # Absent
           /\ files'[k].stat = books[k].stat /\ files'[k].bytes = books[k].bytes
  BY <1>3 DEF SaidBefore, Versions
<1>. QED
  BY <1>1, <1>2, <1>3 DEF FileChanges, Replaced

LEMMA VersionSays ==
  ASSUME NEW k \in Keys, NEW x \in Versions(k) PROVE SaidBefore(k, x)
  BY DEF SaidBefore

(* The pass that goes on unchanged while files change.                     *)
LEMMA TripFollows ==
  ASSUME CatalogAssumption, CatalogTyped, FolderFollows, FileChanges, UNCHANGED books,
         NEW a \in Passes, pass'[a] = pass[a],
         \/ mounted' = mounted
         \/ pass[a].stage # "list" /\ (IsCalibre => pass[a].stage = "off")
  PROVE  (ListedSoFar(a) /\ SeesAll(a) /\ KnowsRows(a) /\ Observing(a))'
<1>0. ListedSoFar(a) /\ SeesAll(a) /\ KnowsRows(a) /\ Observing(a) /\ ReadBefore
  BY DEF FolderFollows
<1>1. DOMAIN pass[a].listed \subseteq Keys /\ DOMAIN pass[a].obs \subseteq Keys
      /\ \A k \in DOMAIN pass[a].listed : pass[a].listed[k].changes \in Nat
  BY TripIs
<1>2. \A k \in Keys : books[k] # Absent => books[k].read \in Nat /\ books[k].read <= changes[k]
  BY <1>0, FolderIs, RowIs DEF ReadBefore
<1>3. \A k \in DOMAIN pass[a].listed : Same(a, k)' => Same(a, k) /\ files'[k] = files[k]
  BY <1>0, <1>1, FilesGoOn DEF ListedSoFar, Same
<1>4. ListedSoFar(a)'
  BY <1>0, <1>1, <1>3, FilesGoOn DEF ListedSoFar, Same
<1>5. MatchesFolder(a) => MatchesFolder(a)'
  BY <1>3 DEF MatchesFolder
<1>6. Blanked(a) => Blanked(a)'
  BY DEF Blanked
<1>7. SeesAll(a)'
  BY <1>0, <1>5, <1>6 DEF SeesAll, Stage
<1>8. KnowsRows(a)'
  BY <1>0 DEF KnowsRows, Stage
<1>9. ASSUME NEW k \in DOMAIN pass[a].obs PROVE ObservesWell(a, k)'
  <2>0. ObservesWell(a, k) /\ k \in Keys /\ Obs(a, k)' = Obs(a, k) /\ Obs(a, k).changes \in Nat
    BY <1>0, <1>1, <1>9, TripIs, ObservationIs DEF Observing, Observed, Obs
  <2>1. k \in DOMAIN pass[a].listed
    <3>1. pass[a].stage = "read"
      BY <1>9, TripIs DEF KeepsStage
    <3>. QED
      BY <2>0, <3>1, TripIs DEF KeepsStage
  <2>2. changes[k] \in Nat /\ changes'[k] \in Nat /\ changes[k] <= changes'[k]
        /\ (changes'[k] = changes[k] => files'[k] = files[k])
    BY <2>0, FilesGoOn
  <2>3. Same(a, k)' => Same(a, k) /\ files'[k] = files[k]
    BY <1>3, <2>1
  <2>4. Obs(a, k).changes <= changes'[k]
        /\ (Obs(a, k).changes = changes'[k] => Obs(a, k).changes = changes[k] /\ files'[k] = files[k])
    BY <2>0, <2>2 DEF ObservesWell
  <2>5. books[k] # Absent /\ books[k].read = changes'[k] => books[k].read = changes[k] /\ files'[k] = files[k]
    BY <1>2, <2>0, <2>2
  <2>. QED
    BY <2>0, <2>3, <2>4, <2>5 DEF ObservesWell
<1>10. Observing(a)'
  BY <1>9 DEF Observing, Observed
<1>. QED
  BY <1>4, <1>7, <1>8, <1>10

LEMMA StatsKept ==
  ASSUME CatalogAssumption, CatalogTyped, StatsTell, FileChanges,
         \A k \in Keys : \A x \in Versions(k)' : SaidBefore(k, x)
  PROVE  StatsTell'
<1>. SUFFICES ASSUME NEW k \in Keys, NEW x \in Versions(k)', NEW y \in Versions(k)'
              PROVE  x.stat <= changes'[k] /\ (x.stat = y.stat => x.bytes = y.bytes)
  BY DEF StatsTell
<1>1. SaidBefore(k, x) /\ SaidBefore(k, y)
  OBVIOUS
<1>2. changes'[k] \in Nat /\ changes[k] <= changes'[k]
  BY FilesGoOn
<1>. QED
  BY <1>1, <1>2, StatsStay

VersionsAfter(k) ==
  (({files'[k], books'[k]}
    \cup {pass'[a].known[k] : a \in {b \in Passes : pass'[b].stage = "read"}}) \ {Absent})
  \cup {pass'[a].obs[k] : a \in {b \in Passes : k \in DOMAIN pass'[b].obs}}

LEMMA VersionsAfterIs == ASSUME NEW k \in Keys PROVE Versions(k)' = VersionsAfter(k)
  BY DEF Versions, VersionsAfter, Stage

LEMMA FilesFollow ==
  ASSUME CatalogAssumption, CatalogTyped, FolderFollows, FileChanges, UNCHANGED <<books, pass>>,
         \/ mounted' = mounted
         \/ \A a \in Passes : pass[a].stage # "list" /\ (IsCalibre => pass[a].stage = "off")
  PROVE  FolderFollows'
<1>1. ASSUME NEW a \in Passes PROVE (ListedSoFar(a) /\ SeesAll(a) /\ KnowsRows(a) /\ Observing(a))'
  <2>1. pass'[a] = pass[a] /\ books' = books
    OBVIOUS
  <2>2. \/ mounted' = mounted
        \/ pass[a].stage # "list" /\ (IsCalibre => pass[a].stage = "off")
    OBVIOUS
  <2>. QED
    BY <2>1, <2>2, TripFollows
<1>2. ReadBefore'
  <2>1. ASSUME NEW k \in Keys, books'[k] # Absent PROVE books'[k].read <= changes'[k]
    <3>1. books'[k] = books[k] /\ books[k].read <= changes[k] /\ books[k].read \in Nat
      BY <2>1, FolderIs, RowIs DEF FolderFollows, ReadBefore
    <3>. QED
      BY <3>1, FilesGoOn
  <2>. QED
    BY <2>1 DEF ReadBefore
<1>3. PlainHolds'
  <2>. SUFFICES ASSUME ~IsCalibre PROVE StatsTell' /\ AtKeys' /\ RowsAreRead'
    BY DEF PlainHolds
  <2>0. StatsTell /\ AtKeys /\ RowsAreRead /\ ReadBefore
    BY DEF FolderFollows, PlainHolds
  <2>1. ASSUME NEW k \in Keys, NEW x \in Versions(k)' PROVE SaidBefore(k, x)
    <3>1. (x = files'[k] /\ x # Absent) \/ x \in Versions(k)
      BY <2>1, VersionsAfterIs DEF VersionsAfter, Versions, Stage
    <3>. QED
      BY <3>1, FileSays, VersionSays
  <2>2. StatsTell'
    BY <2>0, <2>1, StatsKept
  <2>3. AtKeys'
    BY <2>0 DEF AtKeys, FileChanges, Replaced
  <2>4. ASSUME NEW k \in Keys, books'[k] # Absent, files'[k] # Absent, books'[k].read = changes'[k]
        PROVE  books'[k].bytes = files'[k].bytes
    <3>1. books'[k] = books[k] /\ books[k].read <= changes[k] /\ books[k].read \in Nat
      BY <2>0, <2>4, FolderIs, RowIs DEF ReadBefore
    <3>2. changes[k] = changes'[k] /\ files'[k] = files[k]
      BY <2>4, <3>1, FilesGoOn
    <3>. QED
      BY <2>0, <2>4, <3>1, <3>2 DEF RowsAreRead
  <2>5. RowsAreRead'
    BY <2>4 DEF RowsAreRead
  <2>. QED
    BY <2>2, <2>3, <2>5
<1>. QED
  BY <1>1, <1>2, <1>3 DEF FolderFollows

(* A row that goes.                                                        *)
LEMMA RowGoneFollows ==
  ASSUME CatalogAssumption, CatalogTyped, FolderFollows, NEW k \in Keys,
         books'[k] = Absent, \A j \in Keys : j # k => books'[j] = books[j],
         UNCHANGED <<files, changes, mounted, pass>>
  PROVE  FolderFollows'
<1>0. \A j \in Keys : books'[j] # Absent => books'[j] = books[j]
  OBVIOUS
<1>1. ReadBefore'
  BY <1>0 DEF ReadBefore, FolderFollows
<1>2. ASSUME ~IsCalibre PROVE StatsTell' /\ AtKeys' /\ RowsAreRead'
  <2>0. StatsTell /\ AtKeys /\ RowsAreRead
    BY <1>2 DEF FolderFollows, PlainHolds
  <2>1. ASSUME NEW j \in Keys, NEW x \in Versions(j)' PROVE SaidBefore(j, x)
    <3>1. x \in Versions(j)
      BY <1>0, <2>1, VersionsAfterIs DEF VersionsAfter, Versions, Stage
    <3>. QED
      BY <3>1, VersionSays
  <2>2. FileChanges
    BY DEF FileChanges
  <2>3. StatsTell'
    BY <2>0, <2>1, <2>2, StatsKept
  <2>. QED
    BY <1>0, <2>0, <2>3 DEF AtKeys, RowsAreRead
<1>3. ASSUME NEW a \in Passes PROVE (ListedSoFar(a) /\ SeesAll(a) /\ KnowsRows(a) /\ Observing(a))'
  <2>0. ListedSoFar(a) /\ SeesAll(a) /\ KnowsRows(a) /\ Observing(a)
    BY DEF FolderFollows
  <2>1. DOMAIN pass[a].listed \subseteq Keys /\ DOMAIN pass[a].obs \subseteq Keys
    BY TripIs
  <2>2. ListedSoFar(a)'
    BY <1>0, <2>0, <2>1 DEF ListedSoFar, Same
  <2>3. SeesAll(a)'
    BY <2>0 DEF SeesAll, Stage, MatchesFolder, Blanked, Same
  <2>4. KnowsRows(a)'
    BY <1>0, <2>0 DEF KnowsRows, Stage
  <2>5. ASSUME NEW j \in DOMAIN pass[a].obs PROVE ObservesWell(a, j)'
    <3>1. ObservesWell(a, j) /\ j \in Keys /\ Obs(a, j)' = Obs(a, j) /\ (Same(a, j)' <=> Same(a, j))
      BY <2>0, <2>1, <2>5 DEF Observing, Observed, Obs, Same
    <3>. QED
      BY <1>0, <3>1 DEF ObservesWell
  <2>6. Observing(a)'
    BY <2>5 DEF Observing, Observed
  <2>. QED
    BY <2>2, <2>3, <2>4, <2>6
<1>. QED
  BY <1>1, <1>2, <1>3 DEF FolderFollows, PlainHolds

LEMMA RequestsFollow ==
  ASSUME CatalogAssumption, CatalogTyped, RemovalTyped, FolderFollows, Requests
  PROVE  FolderFollows'
<1>1. RequestKinds /\ UNCHANGED <<mounted, pass>>
  BY RequestStep
<1>2. CASE UNCHANGED <<books, files, changes>>
  <2>1. FileChanges
    BY <1>2 DEF FileChanges
  <2>. QED
    BY <1>1, <1>2, <2>1, FilesFollow
<1>3. CASE FileChanges /\ UNCHANGED books
  BY <1>1, <1>3, FilesFollow
<1>4. CASE \E k \in Keys : /\ UNCHANGED <<files, changes>>
                           /\ books'[k] = Absent /\ \A j \in Keys : j # k => books'[j] = books[j]
  BY <1>1, <1>4, RowGoneFollows
<1>. QED
  BY <1>1, <1>2, <1>3, <1>4 DEF RequestKinds

LEMMA FolderFollowsFolder ==
  ASSUME CatalogAssumption, CatalogTyped, FolderFollows, Folder PROVE FolderFollows'
  BY FolderStep, FilesFollow

(* One pass at a time: nobody else writes the rows it knows.               *)
Lone == \A a, b \in Passes : Stage(a) # "off" /\ Stage(b) # "off" => a = b
Apart(a) == \A b \in Passes : b # a => pass[b] = Off /\ pass'[b] = Off

(* What a pass that is not under way holds.                                *)
LEMMA OthersRest ==
  ASSUME NEW a \in Passes, Apart(a), NEW b \in Passes, b # a
  PROVE  /\ (ListedSoFar(b) /\ SeesAll(b) /\ KnowsRows(b) /\ Observing(b))'
         /\ pass'[b].stage = "off" /\ DOMAIN pass'[b].listed = {} /\ DOMAIN pass'[b].obs = {}
<1>1. Off.stage = "off" /\ DOMAIN Off.obs = {} /\ DOMAIN Off.listed = {}
  BY TripRests, NothingYet DEF Off
<1>2. pass'[b].stage = "off" /\ DOMAIN pass'[b].listed = {} /\ DOMAIN pass'[b].obs = {}
  BY <1>1 DEF Apart
<1>. QED
  BY <1>2 DEF ListedSoFar, SeesAll, KnowsRows, Observing, Observed, Stage

LEMMA OtherVersions ==
  ASSUME NEW a \in Passes, Apart(a), NEW k \in Keys, NEW x \in Versions(k)'
  PROVE  \/ x = files'[k] /\ x # Absent
         \/ x = books'[k] /\ x # Absent
         \/ pass'[a].stage = "read" /\ x = pass'[a].known[k] /\ x # Absent
         \/ k \in DOMAIN pass'[a].obs /\ x = pass'[a].obs[k]
<1>1. x \in VersionsAfter(k)
  BY VersionsAfterIs
<1>2. \A b \in Passes : b # a => pass'[b].stage # "read" /\ k \notin DOMAIN pass'[b].obs
  BY OthersRest
<1>. QED
  BY <1>1, <1>2 DEF VersionsAfter

LEMMA OthersAtKeys ==
  ASSUME NEW a \in Passes, Apart(a),
         \A k \in Keys : files'[k] # Absent => files'[k].path = k,
         \A k \in DOMAIN pass'[a].listed :
            pass'[a].listed[k].entry # Absent => pass'[a].listed[k].entry.path = k
  PROVE  AtKeys'
<1>1. \A b \in Passes : b # a => DOMAIN pass'[b].listed = {}
  BY OthersRest
<1>. QED
  BY <1>1 DEF AtKeys

LEMMA RowsFollow ==
  ASSUME CatalogAssumption, CatalogTyped, FolderFollows, FileChanges, UNCHANGED books
  PROVE  ReadBefore' /\ (~IsCalibre => RowsAreRead')
<1>0. /\ \A k \in Keys : books[k] # Absent => books[k].read \in Nat /\ books[k].read <= changes[k]
      /\ ~IsCalibre => RowsAreRead
  BY FolderIs, RowIs DEF FolderFollows, ReadBefore, PlainHolds
<1>1. ASSUME NEW k \in Keys, books'[k] # Absent PROVE books'[k].read <= changes'[k]
  BY <1>0, <1>1, FilesGoOn
<1>2. ASSUME ~IsCalibre, NEW k \in Keys, books'[k] # Absent, files'[k] # Absent, books'[k].read = changes'[k]
      PROVE  books'[k].bytes = files'[k].bytes
  <2>1. changes[k] = changes'[k] /\ files'[k] = files[k]
    BY <1>0, <1>2, FilesGoOn
  <2>. QED
    BY <1>0, <1>2, <2>1 DEF RowsAreRead
<1>. QED
  BY <1>1, <1>2 DEF ReadBefore, RowsAreRead

LEMMA StartFollows ==
  ASSUME CatalogAssumption, CatalogTyped, FolderFollows, FileChanges, UNCHANGED <<books, mounted>>,
         IsCalibre => mounted, NEW a \in Passes, Apart(a),
         pass'[a].stage = "list", DOMAIN pass'[a].obs = {},
         DOMAIN pass'[a].listed = IF IsCalibre THEN Keys ELSE {},
         \A k \in DOMAIN pass'[a].listed :
            pass'[a].listed[k] = [entry |-> files'[k], changes |-> changes'[k]]
  PROVE  FolderFollows'
<1>0. \A b \in Passes : b # a => (ListedSoFar(b) /\ SeesAll(b) /\ KnowsRows(b) /\ Observing(b))'
  BY OthersRest
<1>1. ReadBefore' /\ (~IsCalibre => RowsAreRead')
  BY RowsFollow
<1>2. \A k \in DOMAIN pass'[a].listed :
        k \in Keys /\ pass'[a].listed[k].entry = files'[k] /\ pass'[a].listed[k].changes = changes'[k]
  <2>. DEFINE L == pass'[a].listed
  <2>1. DOMAIN L \subseteq Keys /\ \A k \in DOMAIN L : L[k] = [entry |-> files'[k], changes |-> changes'[k]]
    OBVIOUS
  <2>. HIDE DEF L
  <2>2. \A k \in DOMAIN L : k \in Keys /\ L[k].entry = files'[k] /\ L[k].changes = changes'[k]
    BY <2>1
  <2>. QED
    BY <2>2 DEF L
<1>3. ListedSoFar(a)'
  BY <1>1, <1>2, FilesGoOn DEF ListedSoFar, Same, ReadBefore
<1>4. SeesAll(a)'
  <2>1. MatchesFolder(a)'
    BY <1>2 DEF MatchesFolder
  <2>2. ~mounted' => Blanked(a)'
    BY DEF Blanked
  <2>. QED
    BY <2>1, <2>2 DEF SeesAll, Stage
<1>5. KnowsRows(a)' /\ Observing(a)'
  BY DEF KnowsRows, Stage, Observing, Observed
<1>6. ASSUME ~IsCalibre PROVE StatsTell' /\ AtKeys'
  <2>0. StatsTell /\ AtKeys
    BY <1>6 DEF FolderFollows, PlainHolds
  <2>1. ASSUME NEW k \in Keys, NEW x \in Versions(k)' PROVE SaidBefore(k, x)
    <3>1. (x = files'[k] /\ x # Absent) \/ (x = books[k] /\ x # Absent)
      BY <2>1, OtherVersions
    <3>2. books[k] # Absent => books[k] \in Versions(k)
      BY DEF Versions
    <3>. QED
      BY <1>6, <3>1, <3>2, FileSays, VersionSays
  <2>2. StatsTell'
    BY <2>0, <2>1, StatsKept
  <2>3. \A k \in Keys : files'[k] # Absent => files'[k].path = k
    BY <1>6, <2>0 DEF AtKeys, FileChanges, Replaced
  <2>4. AtKeys'
    BY <1>6, <2>3, OthersAtKeys
  <2>. QED
    BY <2>2, <2>4
<1>. QED
  BY <1>0, <1>1, <1>3, <1>4, <1>5, <1>6 DEF FolderFollows, PlainHolds

LEMMA BeginsFollow ==
  ASSUME CatalogAssumption, CatalogTyped, FolderFollows, NEW a \in Passes, Apart(a), Begin(a)
  PROVE  FolderFollows'
<1>1. /\ UNCHANGED <<files, changes, mounted, books>> /\ (IsCalibre => mounted)
      /\ pass'[a].stage = "list" /\ DOMAIN pass'[a].obs = {}
      /\ DOMAIN pass'[a].listed = IF IsCalibre THEN Keys ELSE {}
      /\ \A k \in DOMAIN pass'[a].listed :
            pass'[a].listed[k] = [entry |-> files'[k], changes |-> changes'[k]]
  BY BeginStep DEF bookTables
<1>2. FileChanges
  BY <1>1 DEF FileChanges
<1>. QED
  BY <1>1, <1>2, StartFollows

LEMMA IngestsFollow ==
  ASSUME CatalogAssumption, CatalogTyped, FolderFollows, Ingest, Apart("ingest")
  PROVE  FolderFollows'
<1>. DEFINE a == "ingest"
<1>1. /\ a \in Passes /\ Apart(a) /\ FileChanges /\ UNCHANGED <<mounted, books>> /\ mounted
      /\ pass'[a].stage = "list" /\ DOMAIN pass'[a].obs = {}
      /\ DOMAIN pass'[a].listed = IF IsCalibre THEN Keys ELSE {}
      /\ \A k \in DOMAIN pass'[a].listed :
            pass'[a].listed[k] = [entry |-> files'[k], changes |-> changes'[k]]
  BY IngestStep DEF bookTables
<1>. HIDE DEF a
<1>. QED
  BY <1>1, StartFollows

(* A step of a pass that leaves folder and rows alone.                     *)
LEMMA PassFollows ==
  ASSUME CatalogAssumption, CatalogTyped, FolderFollows, NEW a \in Passes, Apart(a),
         UNCHANGED <<files, changes, mounted, books>>,
         (ListedSoFar(a) /\ SeesAll(a) /\ KnowsRows(a) /\ Observing(a))',
         ~IsCalibre => \A k \in DOMAIN pass'[a].listed :
            pass'[a].listed[k].entry # Absent => pass'[a].listed[k].entry.path = k,
         ~IsCalibre => \A k \in Keys :
            /\ pass'[a].stage = "read" /\ pass'[a].known[k] # Absent => SaidBefore(k, pass'[a].known[k])
            /\ k \in DOMAIN pass'[a].obs => SaidBefore(k, pass'[a].obs[k])
  PROVE  FolderFollows'
<1>0. \A b \in Passes : b # a => (ListedSoFar(b) /\ SeesAll(b) /\ KnowsRows(b) /\ Observing(b))'
  BY OthersRest
<1>1. FileChanges
  BY DEF FileChanges
<1>2. ReadBefore' /\ (~IsCalibre => RowsAreRead')
  BY <1>1, RowsFollow
<1>3. ASSUME ~IsCalibre PROVE StatsTell' /\ AtKeys'
  <2>0. StatsTell /\ AtKeys
    BY <1>3 DEF FolderFollows, PlainHolds
  <2>1. ASSUME NEW k \in Keys, NEW x \in Versions(k)' PROVE SaidBefore(k, x)
    <3>1. \/ x = files'[k] /\ x # Absent
          \/ x = books[k] /\ x # Absent
          \/ pass'[a].stage = "read" /\ x = pass'[a].known[k] /\ x # Absent
          \/ k \in DOMAIN pass'[a].obs /\ x = pass'[a].obs[k]
      BY <2>1, OtherVersions
    <3>2. books[k] # Absent => books[k] \in Versions(k)
      BY DEF Versions
    <3>. QED
      BY <1>1, <1>3, <3>1, <3>2, FileSays, VersionSays
  <2>2. StatsTell'
    BY <1>1, <2>0, <2>1, StatsKept
  <2>3. AtKeys'
    <3>1. \A k \in Keys : files'[k] # Absent => files'[k].path = k
      BY <2>0 DEF AtKeys
    <3>. QED
      BY <1>3, <3>1, OthersAtKeys
  <2>. QED
    BY <2>2, <2>3
<1>. QED
  BY <1>0, <1>2, <1>3 DEF FolderFollows, PlainHolds

LEMMA ListFollows ==
  ASSUME CatalogAssumption, CatalogTyped, FolderFollows, NEW a \in Passes, Apart(a), NEW k \in Keys,
         ListPath(a, k), UNCHANGED <<files, changes, mounted, books>>
  PROVE  FolderFollows'
<1>. DEFINE p == pass[a]  n == pass'[a]
<1>0. ListedSoFar(a) /\ SeesAll(a) /\ KnowsRows(a) /\ Observing(a) /\ ReadBefore /\ PlainHolds
  BY DEF FolderFollows
<1>1. /\ p.stage = "list" /\ n.stage = "list" /\ n.obs = p.obs /\ KeepsStage(n)
      /\ DOMAIN n.listed = DOMAIN p.listed \cup {k} /\ k \notin DOMAIN p.listed
      /\ \A j \in DOMAIN p.listed : n.listed[j] = p.listed[j]
      /\ n.listed[k].entry = Seen(k) /\ n.listed[k].changes = changes[k]
  BY ListStep
<1>2. DOMAIN n.obs = {} /\ DOMAIN p.listed \subseteq Keys
  BY <1>1, TripIs DEF KeepsStage
<1>3. Seen(k) = IF mounted THEN files[k] ELSE Absent
  BY DEF Seen
<1>. HIDE DEF p, n
<1>4. ASSUME NEW j \in DOMAIN n.listed
      PROVE  /\ n.listed[j].changes <= changes[j]
             /\ books[j] # Absent => books[j].read <= n.listed[j].changes
             /\ n.listed[j].changes = changes[j] => n.listed[j].entry \in {files[j], Absent}
  <2>1. CASE j = k
    BY <1>0, <1>1, <1>3, <2>1, FolderIs DEF ReadBefore
  <2>2. CASE j # k
    BY <1>0, <1>1, <1>4, <2>2 DEF ListedSoFar, Same, p
  <2>. QED
    BY <2>1, <2>2
<1>5. ListedSoFar(a)'
  BY <1>4 DEF ListedSoFar, Same, n
<1>6. SeesAll(a)'
  <2>1. CASE mounted
    <3>1. MatchesFolder(a)
      BY <1>0, <1>1, <2>1 DEF SeesAll, Stage, p
    <3>2. \A j \in DOMAIN n.listed : n.listed[j].changes = changes[j] => n.listed[j].entry = files[j]
      BY <1>1, <1>3, <2>1, <3>1 DEF MatchesFolder, Same, p
    <3>. QED
      BY <1>1, <2>1, <3>2 DEF SeesAll, Stage, MatchesFolder, Same, n
  <2>2. CASE ~mounted
    <3>1. Blanked(a) /\ ~IsCalibre
      BY <1>0, <1>1, <2>2 DEF SeesAll, Stage, p
    <3>2. \A j \in DOMAIN n.listed : n.listed[j].entry = Absent
      BY <1>1, <1>3, <2>2, <3>1 DEF Blanked, p
    <3>. QED
      BY <1>1, <2>2, <3>1, <3>2 DEF SeesAll, Stage, Blanked, n
  <2>. QED
    BY <2>1, <2>2
<1>7. KnowsRows(a)' /\ Observing(a)'
  BY <1>1, <1>2 DEF KnowsRows, Stage, Observing, Observed, n
<1>8. ASSUME ~IsCalibre, NEW j \in DOMAIN n.listed, n.listed[j].entry # Absent
      PROVE  n.listed[j].entry.path = j
  <2>1. AtKeys
    BY <1>0, <1>8 DEF PlainHolds
  <2>2. j \in Keys
    BY <1>1, <1>2, <1>8
  <2>. QED
    BY <1>1, <1>3, <1>8, <2>1, <2>2 DEF AtKeys, p
<1>9. n.stage # "read" /\ DOMAIN n.obs = {}
  BY <1>1, <1>2
<1>. QED
  BY <1>5, <1>6, <1>7, <1>8, <1>9, PassFollows DEF n

LEMMA KnowFollows ==
  ASSUME CatalogAssumption, CatalogTyped, FolderFollows, NEW a \in Passes, Apart(a),
         BooksInFolder(a), UNCHANGED <<files, changes, mounted, books>>
  PROVE  FolderFollows'
<1>. DEFINE p == pass[a]  n == pass'[a]
<1>0. ListedSoFar(a) /\ SeesAll(a) /\ PlainHolds
  BY DEF FolderFollows
<1>1. /\ p.stage = "list" /\ n.stage = "read" /\ n.listed = p.listed /\ DOMAIN p.listed = Keys
      /\ DOMAIN n.obs = {} /\ n.known = books
  BY KnowStep
<1>. HIDE DEF p, n
<1>2. ListedSoFar(a)'
  BY <1>0, <1>1 DEF ListedSoFar, Same, p, n
<1>3. MatchesFolder(a) \/ Blanked(a)
  BY <1>0, <1>1 DEF SeesAll, Stage, p
<1>4. (MatchesFolder(a) \/ Blanked(a))'
  BY <1>1, <1>3 DEF MatchesFolder, Blanked, Same, p, n
<1>5. SeesAll(a)'
  BY <1>0, <1>1, <1>4 DEF SeesAll, Stage, p, n
<1>6. KnowsRows(a)' /\ Observing(a)'
  BY <1>1 DEF KnowsRows, Stage, Observing, Observed, n
<1>7. ~IsCalibre => \A j \in DOMAIN n.listed : n.listed[j].entry # Absent => n.listed[j].entry.path = j
  BY <1>0, <1>1 DEF PlainHolds, AtKeys, p
<1>8. ASSUME NEW k \in Keys, n.known[k] # Absent PROVE SaidBefore(k, n.known[k])
  <2>1. n.known[k] \in Versions(k)
    BY <1>1, <1>8 DEF Versions
  <2>. QED
    BY <2>1, VersionSays
<1>. QED
  BY <1>1, <1>2, <1>5, <1>6, <1>7, <1>8, PassFollows DEF n

LEMMA MissFollows ==
  ASSUME CatalogAssumption, CatalogTyped, FolderFollows, NEW a \in Passes, Apart(a),
         pass[a].stage = "read", NEW k \in Unread(a),
         Steps(a, [pass[a] EXCEPT !.complete = FALSE, !.listed[k].entry = Absent]),
         UNCHANGED <<files, changes, mounted, books>>
  PROVE  FolderFollows'
<1>. DEFINE p == pass[a]  n == pass'[a]
<1>0. ListedSoFar(a) /\ SeesAll(a) /\ KnowsRows(a) /\ Observing(a) /\ PlainHolds
  BY DEF FolderFollows
<1>1. k \in DOMAIN p.listed /\ k \notin DOMAIN p.obs
  BY UnreadIs
<1>2. /\ n.stage = "read" /\ n.known = p.known /\ n.obs = p.obs /\ ~n.complete
      /\ DOMAIN n.listed = DOMAIN p.listed
      /\ n.listed[k].entry = Absent /\ n.listed[k].changes = p.listed[k].changes
      /\ \A j \in DOMAIN p.listed : j # k => n.listed[j] = p.listed[j]
  BY <1>1, MissStep
<1>3. DOMAIN p.listed = Keys /\ DOMAIN p.obs \subseteq Keys /\ p.stage = "read"
  BY TripIs DEF KeepsStage
<1>. HIDE DEF p, n
<1>4. \A j \in DOMAIN p.listed : /\ n.listed[j].changes = p.listed[j].changes
                                 /\ n.listed[j].entry \in {p.listed[j].entry, Absent}
  BY <1>2
<1>5. ListedSoFar(a)'
  BY <1>0, <1>2, <1>4 DEF ListedSoFar, Same, p, n
<1>6. SeesAll(a)'
  BY <1>0, <1>2, <1>3 DEF SeesAll, Stage, p, n
<1>7. KnowsRows(a)'
  BY <1>0, <1>2, <1>3 DEF KnowsRows, Stage, p, n
<1>8. ASSUME NEW j \in DOMAIN n.obs PROVE ObservesWell(a, j)'
  <2>1. j \in DOMAIN p.obs /\ j # k /\ j \in DOMAIN p.listed
    BY <1>1, <1>2, <1>3, <1>8
  <2>2. ObservesWell(a, j) /\ n.obs[j] = p.obs[j] /\ n.listed[j] = p.listed[j] /\ n.known = p.known
    BY <1>0, <1>2, <2>1 DEF Observing, Observed, p
  <2>. QED
    BY <2>2 DEF ObservesWell, Obs, Same, p, n
<1>9. Observing(a)'
  BY <1>8 DEF Observing, Observed, n
<1>10. ~IsCalibre => \A j \in DOMAIN n.listed : n.listed[j].entry # Absent => n.listed[j].entry.path = j
  BY <1>0, <1>2, <1>3, <1>4 DEF PlainHolds, AtKeys, p
<1>11. ASSUME NEW j \in Keys
       PROVE  /\ n.known[j] # Absent => SaidBefore(j, n.known[j])
              /\ j \in DOMAIN n.obs => SaidBefore(j, n.obs[j])
  <2>1. n.known[j] # Absent => n.known[j] \in Versions(j)
    BY <1>2, <1>3 DEF Versions, Stage, p
  <2>2. j \in DOMAIN n.obs => n.obs[j] \in Versions(j)
    BY <1>2 DEF Versions, p
  <2>. QED
    BY <2>1, <2>2, VersionSays
<1>. QED
  BY <1>5, <1>6, <1>7, <1>9, <1>10, <1>11, PassFollows DEF n

(* What a pass says of one book, before it is noted.                       *)
NotesWell(a, k, o) ==
  /\ o.changes <= changes[k]
  /\ IF IsCalibre
     THEN /\ o.how # "unchanged" /\ ~o.replaces
          /\ o.how = "unservable" /\ Same(a, k) /\ files[k] # Absent => files[k].bytes = Absent
     ELSE /\ o.how # "unservable"
          /\ o.how = "unchanged" => pass[a].known[k] # Absent /\ o.bytes = pass[a].known[k].bytes
          /\ o.changes = changes[k] /\ files[k] # Absent => o.bytes = files[k].bytes
          /\ o.replaces /\ books[k] # Absent /\ files[k] # Absent => books[k].read # changes[k]

LEMMA NoteFollows ==
  ASSUME CatalogAssumption, CatalogTyped, FolderFollows, NEW a \in Passes, Apart(a),
         pass[a].stage = "read", NEW k \in Unread(a), NEW o \in Observations,
         o.how = "read" => o.bytes # Absent, Steps(a, [pass[a] EXCEPT !.obs = With(@, k, o)]),
         NotesWell(a, k, o), ~IsCalibre => SaidBefore(k, o),
         UNCHANGED <<files, changes, mounted, books>>
  PROVE  FolderFollows'
<1>. DEFINE p == pass[a]  n == pass'[a]
<1>0. ListedSoFar(a) /\ SeesAll(a) /\ KnowsRows(a) /\ Observing(a) /\ PlainHolds
  BY DEF FolderFollows
<1>1. k \in Keys /\ k \notin DOMAIN p.obs /\ p.listed[k].entry # Absent
  BY UnreadIs, EntryIs
<1>2. /\ n.stage = "read" /\ n.listed = p.listed /\ n.known = p.known /\ n.complete = p.complete
      /\ DOMAIN n.obs = DOMAIN p.obs \cup {k}
      /\ n.obs[k] = o /\ \A j \in DOMAIN p.obs : j # k => n.obs[j] = p.obs[j]
  BY <1>1, ObserveStep
<1>3. p.stage = "read" /\ DOMAIN p.listed = Keys /\ DOMAIN p.obs \subseteq Keys
  BY TripIs DEF KeepsStage
<1>. HIDE DEF p, n
<1>4. ListedSoFar(a)'
  BY <1>0, <1>2 DEF ListedSoFar, Same, p, n
<1>5. SeesAll(a)'
  BY <1>0, <1>2, <1>3 DEF SeesAll, MatchesFolder, Blanked, Same, Stage, p, n
<1>6. KnowsRows(a)'
  BY <1>0, <1>2, <1>3 DEF KnowsRows, Stage, p, n
<1>7. ASSUME NEW j \in DOMAIN n.obs PROVE ObservesWell(a, j)'
  <2>1. CASE j = k
    BY <1>1, <1>2, <2>1 DEF ObservesWell, NotesWell, Obs, Same, p, n
  <2>2. CASE j # k
    <3>1. j \in DOMAIN p.obs
      BY <1>2, <1>7, <2>2
    <3>2. ObservesWell(a, j) /\ n.obs[j] = p.obs[j] /\ n.listed[j] = p.listed[j] /\ n.known = p.known
      BY <1>0, <1>2, <2>2, <3>1 DEF Observing, Observed, p
    <3>. QED
      BY <3>2 DEF ObservesWell, Obs, Same, p, n
  <2>. QED
    BY <2>1, <2>2
<1>8. Observing(a)'
  BY <1>7 DEF Observing, Observed, n
<1>9. ~IsCalibre => \A j \in DOMAIN n.listed : n.listed[j].entry # Absent => n.listed[j].entry.path = j
  BY <1>0, <1>2, <1>3 DEF PlainHolds, AtKeys, p
<1>10. ASSUME ~IsCalibre, NEW j \in Keys
       PROVE  /\ n.known[j] # Absent => SaidBefore(j, n.known[j])
              /\ j \in DOMAIN n.obs => SaidBefore(j, n.obs[j])
  <2>1. n.known[j] # Absent => n.known[j] \in Versions(j)
    BY <1>2, <1>3 DEF Versions, Stage, p
  <2>2. CASE j \in DOMAIN n.obs /\ j # k
    <3>1. n.obs[j] \in Versions(j)
      BY <1>2, <2>2 DEF Versions, p
    <3>. QED
      BY <2>1, <3>1, VersionSays
  <2>3. CASE j = k
    BY <1>2, <1>10, <2>1, <2>3, VersionSays
  <2>. QED
    BY <2>1, <2>2, <2>3, VersionSays
<1>. QED
  BY <1>4, <1>5, <1>6, <1>8, <1>9, <1>10, PassFollows DEF n

LEMMA SeesFollow ==
  ASSUME CatalogAssumption, CatalogTyped, FolderFollows, NEW a \in Passes, Apart(a),
         pass[a].stage = "read", NEW k \in Unread(a), SeeAsBefore(a, k),
         UNCHANGED <<files, changes, mounted, books>>
  PROVE  FolderFollows'
<1>1. PICK o \in Observations :
         /\ Steps(a, [pass[a] EXCEPT !.obs = With(@, k, o)])
         /\ ~IsCalibre /\ o.how = "unchanged" /\ ~o.replaces
         /\ pass[a].known[k] # Absent /\ o.bytes = pass[a].known[k].bytes
         /\ pass[a].known[k].stat = Listed(a, k).stat /\ o.stat = Listed(a, k).stat
         /\ o.changes = pass[a].listed[k].changes
  BY SeesStep
<1>2. k \in Keys /\ k \in DOMAIN pass[a].listed /\ Listed(a, k) = pass[a].listed[k].entry
      /\ Listed(a, k) # Absent
  BY UnreadIs, EntryIs
<1>3. ListedSoFar(a) /\ StatsTell
  BY <1>1 DEF FolderFollows, PlainHolds
<1>4. pass[a].known[k] \in Versions(k)
  BY <1>1 DEF Versions, Stage
<1>5. SaidBefore(k, o)
  BY <1>1, <1>4 DEF SaidBefore
<1>6. ASSUME o.changes = changes[k], files[k] # Absent PROVE o.bytes = files[k].bytes
  <2>1. Listed(a, k) = files[k]
    BY <1>1, <1>2, <1>3, <1>6 DEF ListedSoFar, Same
  <2>2. files[k] \in Versions(k)
    BY <1>6 DEF Versions
  <2>. QED
    BY <1>1, <1>2, <1>3, <1>4, <2>1, <2>2 DEF StatsTell
<1>7. o.changes <= changes[k]
  BY <1>1, <1>2, <1>3 DEF ListedSoFar
<1>8. NotesWell(a, k, o)
  BY <1>1, <1>6, <1>7 DEF NotesWell
<1>. QED
  BY <1>1, <1>5, <1>8, NoteFollows

LEMMA ReadsFollow ==
  ASSUME CatalogAssumption, CatalogTyped, FolderFollows, NEW a \in Passes, Apart(a),
         pass[a].stage = "read", NEW k \in Unread(a), ReadBook(a, k),
         UNCHANGED <<files, changes, mounted, books>>
  PROVE  FolderFollows'
<1>1. PICK o \in Observations, j \in AtPath(a, k) :
         /\ Steps(a, [pass[a] EXCEPT !.obs = With(@, k, o)])
         /\ o.how = "read"
         /\ j \in Keys /\ files[j] \in Entries /\ files[j].path = Listed(a, k).path
         /\ o.bytes = files[j].bytes /\ o.bytes # Absent /\ o.stat = files[j].stat
         /\ o.replaces = Replaces(a, k, o.bytes)
         /\ o.changes = IF IsCalibre THEN pass[a].listed[k].changes ELSE changes[j]
  BY ReadsStep
<1>2. k \in Keys /\ k \in DOMAIN pass[a].listed /\ Listed(a, k) = pass[a].listed[k].entry
      /\ Listed(a, k) # Absent
  BY UnreadIs, EntryIs
<1>3. ListedSoFar(a) /\ KnowsRows(a)
  BY DEF FolderFollows
<1>4. CASE IsCalibre
  <2>1. NotesWell(a, k, o)
    BY <1>1, <1>2, <1>3, <1>4 DEF NotesWell, ListedSoFar, Replaces
  <2>. QED
    BY <1>1, <1>4, <2>1, NoteFollows
<1>5. CASE ~IsCalibre
  <2>0. AtKeys /\ RowsAreRead
    BY <1>5 DEF FolderFollows, PlainHolds
  <2>1. j = k
    BY <1>1, <1>2, <2>0, EntryIs DEF AtKeys
  <2>2. files[k] \in Versions(k)
    BY <1>1, <2>1, EntryIs DEF Versions
  <2>3. SaidBefore(k, o)
    BY <1>1, <2>1, <2>2 DEF SaidBefore
  <2>4. o.replaces /\ books[k] # Absent => books[k].read # changes[k]
    <3>1. ASSUME o.replaces, books[k] # Absent PROVE books[k].bytes # files[k].bytes
      BY <1>1, <1>2, <1>3, <2>1, <3>1 DEF Replaces, KnowsRows, Stage
    <3>. QED
      BY <1>1, <1>2, <2>0, <2>1, <3>1, EntryIs DEF RowsAreRead
  <2>5. NotesWell(a, k, o)
    BY <1>1, <1>2, <1>5, <2>1, <2>4, FolderIs DEF NotesWell
  <2>. QED
    BY <1>1, <2>3, <2>5, NoteFollows
<1>. QED
  BY <1>4, <1>5

LEMMA NothingFollows ==
  ASSUME CatalogAssumption, CatalogTyped, FolderFollows, NEW a \in Passes, Apart(a),
         pass[a].stage = "read", NEW k \in Unread(a), IsCalibre, FindNothing(a, k),
         UNCHANGED <<files, changes, mounted, books>>
  PROVE  FolderFollows'
<1>1. PICK o \in Observations :
         /\ Steps(a, [pass[a] EXCEPT !.obs = With(@, k, o)])
         /\ o.how = "unservable" /\ ~o.replaces /\ AtPath(a, k) = {}
         /\ o.changes = pass[a].listed[k].changes
  BY NothingStep
<1>2. k \in Keys /\ k \in DOMAIN pass[a].listed /\ Listed(a, k) = pass[a].listed[k].entry
      /\ Listed(a, k) # Absent
  BY UnreadIs, EntryIs
<1>3. ListedSoFar(a) /\ SeesAll(a)
  BY DEF FolderFollows
<1>4. ASSUME Same(a, k), files[k] # Absent PROVE files[k].bytes = Absent
  <2>1. Listed(a, k) = files[k]
    BY <1>2, <1>3, <1>4 DEF ListedSoFar
  <2>2. Seen(k) = files[k]
    BY <1>3 DEF SeesAll, Stage, Seen
  <2>3. k \notin AtPath(a, k)
    BY <1>1
  <2>. QED
    BY <1>2, <1>4, <2>1, <2>2, <2>3 DEF AtPath
<1>5. NotesWell(a, k, o)
  BY <1>1, <1>2, <1>3, <1>4 DEF NotesWell, ListedSoFar
<1>. QED
  BY <1>1, <1>5, NoteFollows

LEMMA ScansFollow ==
  ASSUME CatalogAssumption, CatalogTyped, FolderFollows, NEW a \in Passes, Apart(a), Scans(a)
  PROVE  FolderFollows'
<1>1. UNCHANGED <<files, changes, mounted, books>>
  BY ScanKinds
<1>. QED
  BY <1>1, ScanKinds, KnowFollows, ListFollows, SeesFollow, ReadsFollow, NothingFollows, MissFollows

(* The commit.                                                             *)
LEMMA WriteFollows ==
  ASSUME CatalogAssumption, CatalogTyped, FolderFollows, NEW a \in Passes, Apart(a), ReconcileFolder(a)
  PROVE  FolderFollows'
<1>0. /\ KnowsRows(a) /\ Observing(a) /\ ReadBefore /\ PlainHolds /\ SeesAll(a)
      /\ \A b \in Passes : b # a => (ListedSoFar(b) /\ SeesAll(b) /\ KnowsRows(b) /\ Observing(b))'
  BY OthersRest DEF FolderFollows
<1>1. /\ pass[a].stage = "read" /\ pass'[a] = Off /\ UNCHANGED <<files, changes, mounted>>
      /\ \A k \in Keys : books'[k] = Finding(a, k)
  BY CommitRows
<1>2. Off.stage = "off" /\ DOMAIN Off.obs = {} /\ DOMAIN Off.listed = {}
  BY TripRests, NothingYet DEF Off
<1>3. (ListedSoFar(a) /\ SeesAll(a) /\ KnowsRows(a) /\ Observing(a))'
  BY <1>1, <1>2 DEF ListedSoFar, SeesAll, KnowsRows, Observing, Observed, Stage
<1>4. \A k \in Observed(a) : ObservesWell(a, k) /\ Obs(a, k) = pass[a].obs[k] /\ k \in DOMAIN pass[a].obs
  BY <1>0 DEF Observing, Observed, Obs
<1>5. ASSUME NEW k \in Keys, books'[k] # Absent
      PROVE  /\ books'[k].read <= changes[k]
             /\ ~IsCalibre => /\ SaidBefore(k, books'[k])
                              /\ files[k] # Absent /\ books'[k].read = changes[k] => books'[k].bytes = files[k].bytes
  <2>. DEFINE f == Finding(a, k)
  <2>0. f = books'[k] /\ f # Absent
    BY <1>1, <1>5
  <2>1. CASE /\ books[k] # Absent /\ f.bytes = books[k].bytes /\ f.read = books[k].read
             /\ ~IsCalibre => f.stat = books[k].stat
    <3>1. books[k] \in Versions(k)
      BY <2>1 DEF Versions
    <3>2. ~IsCalibre => SaidBefore(k, f)
      BY <2>1, <3>1 DEF SaidBefore
    <3>. QED
      BY <1>0, <2>0, <2>1, <3>2 DEF ReadBefore, PlainHolds, RowsAreRead
  <2>2. CASE /\ k \in Observed(a) /\ Obs(a, k).how = "unchanged" /\ books[k] # Absent
             /\ f.bytes = books[k].bytes /\ f.stat = Obs(a, k).stat /\ f.read = Obs(a, k).changes
    <3>1. ObservesWell(a, k) /\ Obs(a, k) = pass[a].obs[k] /\ k \in DOMAIN pass[a].obs
      BY <1>4, <2>2
    <3>2. books[k] = pass[a].known[k]
      BY <1>0, <1>1, <2>2 DEF KnowsRows, Stage
    <3>3. ~IsCalibre => f.bytes = Obs(a, k).bytes
      BY <2>2, <3>1, <3>2 DEF ObservesWell
    <3>4. Obs(a, k) \in Versions(k)
      BY <3>1 DEF Versions
    <3>5. ~IsCalibre => SaidBefore(k, f)
      BY <2>2, <3>3, <3>4 DEF SaidBefore
    <3>. QED
      BY <2>0, <2>2, <3>1, <3>3, <3>5 DEF ObservesWell
  <2>3. CASE /\ k \in Observed(a) /\ f.bytes = Obs(a, k).bytes /\ f.stat = Obs(a, k).stat
             /\ f.read = Obs(a, k).changes
    <3>1. ObservesWell(a, k) /\ Obs(a, k) = pass[a].obs[k] /\ k \in DOMAIN pass[a].obs
      BY <1>4, <2>3
    <3>2. Obs(a, k) \in Versions(k)
      BY <3>1 DEF Versions
    <3>3. SaidBefore(k, f)
      BY <2>3, <3>2 DEF SaidBefore
    <3>. QED
      BY <2>0, <2>3, <3>1, <3>3 DEF ObservesWell
  <2>. QED
    BY <2>0, <2>1, <2>2, <2>3, FindingIs
<1>6. ReadBefore' /\ (~IsCalibre => RowsAreRead')
  BY <1>1, <1>5 DEF ReadBefore, RowsAreRead
<1>7. ASSUME ~IsCalibre PROVE StatsTell' /\ AtKeys'
  <2>0. StatsTell /\ AtKeys
    BY <1>0, <1>7 DEF PlainHolds
  <2>1. ASSUME NEW k \in Keys, NEW x \in Versions(k)' PROVE SaidBefore(k, x)
    <3>1. (x = files[k] /\ x # Absent) \/ (x = books'[k] /\ x # Absent)
      BY <1>1, <1>2, <2>1, OtherVersions
    <3>2. files[k] # Absent => files[k] \in Versions(k)
      BY DEF Versions
    <3>. QED
      BY <1>5, <1>7, <3>1, <3>2, VersionSays
  <2>2. FileChanges
    BY <1>1 DEF FileChanges
  <2>3. StatsTell'
    BY <2>0, <2>1, <2>2, StatsKept
  <2>4. AtKeys'
    <3>1. \A k \in Keys : files'[k] # Absent => files'[k].path = k
      BY <1>1, <2>0 DEF AtKeys
    <3>. QED
      BY <1>1, <1>2, <3>1, OthersAtKeys
  <2>. QED
    BY <2>3, <2>4
<1>. QED
  BY <1>0, <1>3, <1>6, <1>7 DEF FolderFollows, PlainHolds

(* A book that stays where it is keeps its row.                            *)
LEMMA UntouchedStays ==
  ASSUME CatalogAssumption, CatalogTyped, FolderFollows, NEW a \in Passes, ReconcileFolder(a),
         NEW k \in Keys, books[k] # Absent, files[k] # Absent
  PROVE  /\ books[k].read = changes[k] \/ (pass[a].listed[k].changes = changes[k] /\ ~FindsAnother(a, k))
              => SameRow(books[k], books'[k])
         /\ books[k].read = changes[k] /\ books[k].status = "active" /\ files[k].bytes # Absent
              => books'[k].status = "active"
<1>0. ListedSoFar(a) /\ SeesAll(a) /\ Observing(a)
  BY DEF FolderFollows
<1>1. pass[a].stage = "read" /\ Unread(a) = {} /\ books'[k] = Finding(a, k)
  BY CommitRows
<1>2. DOMAIN pass[a].listed = Keys /\ DOMAIN pass[a].obs \subseteq Keys /\ pass[a].listed[k].changes \in Nat
  BY <1>1, TripIs DEF KeepsStage
<1>3. books[k].read = changes[k] => Same(a, k)
  <2>1. /\ books[k].read <= pass[a].listed[k].changes /\ pass[a].listed[k].changes <= changes[k]
        /\ changes[k] \in Nat
    BY <1>0, <1>2, FolderIs DEF ListedSoFar
  <2>. QED
    BY <1>2, <2>1 DEF Same
<1>. SUFFICES ASSUME Same(a, k), books[k].read = changes[k] \/ ~FindsAnother(a, k)
              PROVE  /\ SameRow(books[k], books'[k])
                     /\ books[k].status = "active" /\ files[k].bytes # Absent => books'[k].status = "active"
  <2>1. pass[a].listed[k].changes = changes[k] => Same(a, k)
    BY DEF Same
  <2>. QED
    BY <1>3, <2>1
<1>4. CASE k \notin Observed(a)
  <2>1. pass[a].listed[k].entry = Absent
    BY <1>1, <1>2, <1>4 DEF Unread, Observed
  <2>2. ~Concludes(a)
    <3>. SUFFICES ASSUME pass[a].complete, NEW j \in Observed(a) PROVE FALSE
      BY DEF Concludes
    <3>1. j \in DOMAIN pass[a].listed /\ pass[a].listed[j].entry # Absent
      BY <1>0, <1>2 DEF Observing, Observed, ObservesWell
    <3>2. MatchesFolder(a)
      BY <1>0, <1>1, <3>1 DEF SeesAll, Stage, Blanked
    <3>. QED
      BY <1>2, <2>1, <3>2 DEF MatchesFolder
  <2>3. Finding(a, k) = Restored(a, k)
    BY <1>4, <2>2 DEF Finding, HadBook
  <2>4. Restored(a, k) # Absent /\ Restored(a, k).gen = books[k].gen /\ Restored(a, k).status = books[k].status
    BY RestoredIs, RowIs
  <2>. QED
    BY <1>1, <2>3, <2>4 DEF SameRow
<1>5. CASE k \in Observed(a) /\ Obs(a, k).how = "unservable"
  <2>1. ObservesWell(a, k)
    BY <1>0, <1>5 DEF Observing
  <2>2. files[k].bytes = Absent
    BY <1>5, <2>1 DEF ObservesWell
  <2>3. Finding(a, k) = Missing(Restored(a, k))
    BY <1>5 DEF Finding, HadBook
  <2>4. Missing(Restored(a, k)) # Absent /\ Missing(Restored(a, k)).gen = books[k].gen
    BY RestoredIs, RowIs
  <2>. QED
    BY <1>1, <2>2, <2>3, <2>4 DEF SameRow
<1>6. CASE k \in Observed(a) /\ Obs(a, k).how # "unservable"
  <2>1. ObservesWell(a, k)
    BY <1>0, <1>6 DEF Observing
  <2>2. ~Obs(a, k).replaces \/ Obs(a, k).how = "unchanged"
    BY <1>6, <2>1 DEF ObservesWell, FindsAnother, Same
  <2>3. Finding(a, k) # Absent
    <3>1. \/ Finding(a, k) = [books[k] EXCEPT !.status = "active", !.stat = Obs(a, k).stat,
                                              !.path = Obs(a, k).path, !.read = Obs(a, k).changes]
          \/ \E g \in Nat, b \in BOOLEAN : Finding(a, k) = Written(Obs(a, k), g, b)
      <4>1. books[k].gen \in Nat /\ rowsMade[k] + 1 \in Nat
        BY FolderIs, RowIs
      <4>2. (Obs(a, k).how = "unchanged") \in BOOLEAN
        OBVIOUS
      <4>. QED
        BY <1>6, <4>1, <4>2 DEF Finding, HadBook
    <3>2. Obs(a, k) \in Observations /\ books[k] \in Rows
      BY <1>6, TripIs, FolderIs DEF Obs, Observed
    <3>3. ASSUME NEW b \in Rows, NEW o \in Observations
          PROVE  /\ [b EXCEPT !.status = "active", !.stat = o.stat, !.path = o.path, !.read = o.changes] \in Rows
                 /\ \A g \in Nat, l \in BOOLEAN : Written(o, g, l) \in Rows
      BY DEF Rows, Observations, Written
    <3>4. Finding(a, k) \in Rows
      BY <3>1, <3>2, <3>3
    <3>. QED
      BY <3>4, RowIs
  <2>4. Finding(a, k).gen = books[k].gen /\ Finding(a, k).status = "active"
    BY <1>6, <2>2, <2>3, FindingIs
  <2>. QED
    BY <1>1, <2>3, <2>4 DEF SameRow
<1>. QED
  BY <1>4, <1>5, <1>6

FolderBase == CatalogBase /\ FolderFollows

LEMMA FolderStarts == ASSUME CatalogAssumption, CatalogInit PROVE FolderBase
<1>1. CatalogBase
  BY CatalogStarts
<1>2. /\ \A k \in Keys : files[k] = Absent /\ books[k] = Absent
      /\ \A a \in Passes : pass[a].stage = "off" /\ DOMAIN pass[a].obs = {} /\ DOMAIN pass[a].listed = {}
  BY TripRests, NothingYet DEF CatalogInit, Off
<1>3. \A k \in Keys : Versions(k) = {}
  BY <1>2 DEF Versions, Stage
<1>4. ReadBefore /\ PlainHolds
  BY <1>2, <1>3 DEF ReadBefore, PlainHolds, StatsTell, AtKeys, RowsAreRead
<1>5. \A a \in Passes : ListedSoFar(a) /\ SeesAll(a) /\ KnowsRows(a) /\ Observing(a)
  BY <1>2 DEF ListedSoFar, SeesAll, KnowsRows, Observing, Observed, Stage
<1>. QED
  BY <1>1, <1>4, <1>5 DEF FolderBase, FolderFollows

LEMMA ApartIs ==
  ASSUME CatalogTyped, CatalogTyped', Lone, Lone', NEW a \in Passes,
         pass[a].stage # "off" \/ pass'[a].stage # "off",
         \A b \in Passes : b # a => pass'[b] = pass[b]
  PROVE  Apart(a)
<1>1. \A b \in Passes : /\ pass[b].stage = "off" => pass[b] = Off
                        /\ pass'[b].stage = "off" => pass'[b] = Off
  BY DEF CatalogTyped, TripsTyped, KeepsStage
<1>2. \A b \in Passes : b # a => pass[b].stage = "off" \/ pass'[b].stage = "off"
  BY DEF Lone, Stage
<1>. QED
  BY <1>1, <1>2 DEF Apart

LEMMA ScanApart ==
  ASSUME CatalogAssumption, CatalogTyped, CatalogTyped', Lone, Lone', NEW a \in Passes, Scans(a)
  PROVE  Apart(a)
<1>1. pass[a].stage # "off" /\ \E n : Steps(a, n)
  BY ScanKinds DEF BooksInFolder, ListPath, SeeAsBefore, ReadBook, FindNothing, FailToRead, Stage
<1>2. \A b \in Passes : b # a => pass'[b] = pass[b]
  BY <1>1 DEF Steps, CatalogTyped, TripsTyped
<1>. QED
  BY <1>1, <1>2, ApartIs

LEMMA FolderBaseKept ==
  ASSUME CatalogAssumption, FolderBase, Lone, Lone', [CatalogNext]_catalogVars
  PROVE  FolderBase'
<1>0. CatalogTyped /\ RemovalTyped /\ FolderFollows
  BY DEF FolderBase, CatalogBase
<1>1. CatalogBase'
  BY CatalogBaseKept DEF FolderBase
<1>. CatalogTyped'
  BY <1>1 DEF CatalogBase
<1>2. CASE Folder
  BY <1>0, <1>1, <1>2, FolderFollowsFolder DEF FolderBase
<1>3. CASE Ingest
  <2>1. Apart("ingest")
    BY <1>0, <1>3, IngestStep, ApartIs
  <2>. QED
    BY <1>0, <1>1, <1>3, <2>1, IngestsFollow DEF FolderBase
<1>4. CASE Requests
  BY <1>0, <1>1, <1>4, RequestsFollow DEF FolderBase
<1>5. ASSUME NEW a \in Passes, Begin(a) PROVE FolderBase'
  <2>1. Apart(a)
    BY <1>0, <1>5, BeginStep, ApartIs
  <2>. QED
    BY <1>0, <1>1, <1>5, <2>1, BeginsFollow DEF FolderBase
<1>6. ASSUME NEW a \in Passes, Scans(a) PROVE FolderBase'
  <2>1. Apart(a)
    BY <1>0, <1>6, ScanApart
  <2>. QED
    BY <1>0, <1>1, <1>6, <2>1, ScansFollow DEF FolderBase
<1>7. ASSUME NEW a \in Passes, ReconcileFolder(a) PROVE FolderBase'
  <2>1. Apart(a)
    BY <1>0, <1>7, CommitRows, ApartIs
  <2>. QED
    BY <1>0, <1>1, <1>7, <2>1, WriteFollows DEF FolderBase
<1>8. CASE UNCHANGED catalogVars
  <2>1. FileChanges /\ UNCHANGED <<books, pass, mounted>>
    BY <1>8 DEF catalogVars, bookTables, FileChanges
  <2>. QED
    BY <1>0, <1>1, <2>1, FilesFollow DEF FolderBase
<1>. QED
  BY <1>2, <1>3, <1>4, <1>5, <1>6, <1>7, <1>8 DEF CatalogNext

(* As long as no two passes of the folder overlap: a file that stayed as   *)
(* the catalog last read it, and a book that stayed as the pass listed it  *)
(* and was not found to be another, stays in the catalog under the same    *)
(* row and so with its readers: unmounted, half read, without a file,      *)
(* moved where another book was (reconcile.go:112-131, 222-256).           *)
THEOREM BooksStay == ASSUME CatalogAssumption PROVE CatalogSpec /\ []Lone => UntouchedBookStays
<1>1. CatalogInit => FolderBase
  BY FolderStarts
<1>2. FolderBase /\ Lone /\ Lone' /\ [CatalogNext]_catalogVars => FolderBase'
  BY FolderBaseKept
<1>3. FolderBase /\ [CatalogNext]_catalogVars => [\A a \in Passes, k \in Keys : StaysIfUntouched(a, k)]_catalogVars
  <2>. SUFFICES ASSUME FolderBase, [CatalogNext]_catalogVars, NEW a \in Passes, NEW k \in Keys
                PROVE  StaysIfUntouched(a, k)
    OBVIOUS
  <2>1. Committed(a) => ReconcileFolder(a)
    BY CommitsAre DEF FolderBase
  <2>. QED
    BY <2>1, UntouchedStays DEF StaysIfUntouched, FolderBase, CatalogBase
<1>. QED
  BY <1>1, <1>2, <1>3, PTL DEF CatalogSpec, UntouchedBookStays

-----------------------------------------------------------------------------
(* One book to a path, whoever passes.                                     *)
FilesApart ==
  /\ \A k \in Keys : files[k] # Absent => files[k].path \in PathOf(k)
  /\ \A j, k \in Keys : j # k /\ files[j] # Absent /\ files[k] # Absent => files[j].path # files[k].path

EntryOf(a, k) == pass[a].listed[k].entry
ListsApart(a) ==
  /\ IsCalibre /\ Stage(a) = "list" => DOMAIN pass[a].listed = Keys
  /\ \A k \in DOMAIN pass[a].listed :
       /\ pass[a].listed[k].changes <= changes[k]
       /\ EntryOf(a, k) # Absent => EntryOf(a, k).path \in PathOf(k)
  /\ \A j, k \in DOMAIN pass[a].listed :
       j # k /\ EntryOf(a, j) # Absent /\ EntryOf(a, k) # Absent => EntryOf(a, j).path # EntryOf(a, k).path

FindsListed(a) == \A k \in Observed(a) :
  /\ k \in DOMAIN pass[a].listed /\ EntryOf(a, k) # Absent /\ Obs(a, k).path = EntryOf(a, k).path
  /\ Obs(a, k).changes <= changes[k]

InPlace(k) == books[k].path \in PathOf(k) \/ (IsCalibre /\ books[k].path = <<"parked", k>>)
RowsApart ==
  /\ \A k \in Keys : books[k] # Absent =>
       /\ books[k].gen = rowsMade[k] /\ books[k].read <= changes[k] /\ InPlace(k)
       /\ \A j \in Keys \ {k} : books[j] # Absent => books[j].path # books[k].path
  /\ \A k \in Keys : mapping[k] # Absent => books[k] # Absent

OnePath == FilesApart /\ RowsApart /\ \A a \in Passes : ListsApart(a) /\ FindsListed(a)

LEMMA PlainPath == ASSUME ~IsCalibre, NEW k \in Keys, NEW p PROVE p \in PathOf(k) <=> p = k
  BY DEF PathOf

LEMMA NoneParked ==
  ASSUME CatalogAssumption, IsCalibre, NEW k \in Keys, NEW p \in PathOf(k), NEW j \in Keys
  PROVE  p # <<"parked", j>>
<1>1. <<"parked", j>> \in {"parked"} \X Keys
  OBVIOUS
<1>. QED
  BY <1>1 DEF PathOf, CatalogAssumption

(* The files.                                                              *)
LEMMA FileApart ==
  ASSUME CatalogTyped, FilesApart, NEW k \in Keys, NEW e, files' = [files EXCEPT ![k] = e],
         e # Absent => /\ e.path \in PathOf(k)
                       /\ \A j \in Keys \ {k} : files[j] # Absent => files[j].path # e.path
  PROVE  FilesApart'
<1>1. files'[k] = e /\ \A j \in Keys : j # k => files'[j] = files[j]
  BY DEF CatalogTyped, FolderTyped
<1>2. \A j \in Keys : files'[j] # Absent => files'[j].path \in PathOf(j)
  BY <1>1 DEF FilesApart
<1>3. ASSUME NEW i \in Keys, NEW j \in Keys, i # j, files'[i] # Absent, files'[j] # Absent
      PROVE  files'[i].path # files'[j].path
  BY <1>1, <1>3 DEF FilesApart
<1>. HIDE DEF FilesApart
<1>4. \A j \in Keys : PathOf(j)' = PathOf(j)
  BY DEF PathOf
<1>. QED
  BY <1>2, <1>3, <1>4 DEF FilesApart

LEMMA FolderApart ==
  ASSUME CatalogAssumption, CatalogTyped, FilesApart, Folder
  PROVE  FilesApart'
<1>0. files \in [Keys -> Entries \cup {Absent}] /\ changes \in [Keys -> Nat]
  BY DEF CatalogTyped, FolderTyped
<1>1. ASSUME NEW k \in Keys, WriteFile(k) PROVE FilesApart'
  <2>1. PICK d \in Digests, p \in PathOf(k) :
          /\ \A j \in Keys \ {k} : files[j] # Absent => files[j].path # p
          /\ ChangeFile(k, Holds(k, d, p))
    BY <1>1 DEF WriteFile
  <2>2. Holds(k, d, p).path = p
    BY DEF Holds
  <2>. QED
    BY <2>1, <2>2, FileApart DEF ChangeFile
<1>2. ASSUME NEW k \in Keys, PutBack(k) PROVE FilesApart'
  <2>. DEFINE e == [bytes |-> books[k].bytes, stat |-> books[k].stat, path |-> k]
  <2>1. ~IsCalibre /\ e.path = k /\ files' = [files EXCEPT ![k] = e]
    BY <1>2 DEF PutBack, ChangeFile
  <2>. HIDE DEF e
  <2>2. \A j \in Keys \ {k} : files[j] # Absent => files[j].path # k
    BY <2>1, PlainPath DEF FilesApart
  <2>. QED
    BY <2>1, <2>2, PlainPath, FileApart
<1>3. ASSUME NEW k \in Keys, LoseFile(k) PROVE FilesApart'
  <2>. DEFINE e == [files[k] EXCEPT !.bytes = Absent]
  <2>1. files[k] # Absent /\ files[k] \in Entries /\ files' = [files EXCEPT ![k] = e]
    BY <1>0, <1>3 DEF LoseFile, ChangeFile
  <2>2. e.path = files[k].path
    BY <2>1 DEF Entries
  <2>. HIDE DEF e
  <2>3. \A j \in Keys \ {k} : files[j] # Absent => files[j].path # e.path
    BY <2>1, <2>2 DEF FilesApart
  <2>4. e.path \in PathOf(k)
    BY <2>1, <2>2 DEF FilesApart
  <2>. QED
    BY <2>1, <2>3, <2>4, FileApart
<1>4. ASSUME NEW k \in Keys, RemoveFile(k) PROVE FilesApart'
  <2>1. files' = [files EXCEPT ![k] = Absent]
    BY <1>4 DEF RemoveFile, ChangeFile
  <2>. QED
    BY <2>1, FileApart
<1>5. ASSUME NEW j \in Keys, NEW k \in Keys, SwapPaths(j, k) PROVE FilesApart'
  <2>. DEFINE x == [files[j] EXCEPT !.path = files[k].path]
              y == [files[k] EXCEPT !.path = files[j].path]
  <2>1. files[j] \in Entries /\ files[k] \in Entries /\ IsCalibre /\ j # k
        /\ files[j] # Absent /\ files[k] # Absent
    BY <1>0, <1>5 DEF SwapPaths
  <2>2. files' = [files EXCEPT ![j] = x, ![k] = y]
    BY <1>0, <1>5, <2>1 DEF SwapPaths
  <2>3. x.path = files[k].path /\ y.path = files[j].path
    BY <2>1 DEF Entries
  <2>. HIDE DEF x, y
  <2>4. /\ files'[j] = x /\ files'[k] = y
        /\ \A i \in Keys : i # j /\ i # k => files'[i] = files[i]
    BY <1>0, <2>1, <2>2
  <2>5. \A i \in Keys : files'[i] # Absent => files'[i].path \in Paths
    BY <2>1, <2>3, <2>4 DEF FilesApart, PathOf
  <2>6. ASSUME NEW h \in Keys, NEW i \in Keys, h # i, files'[h] # Absent, files'[i] # Absent
        PROVE  files'[h].path # files'[i].path
    BY <2>1, <2>3, <2>4, <2>6 DEF FilesApart
  <2>. QED
    BY <2>1, <2>5, <2>6 DEF FilesApart, PathOf
<1>6. CASE UNCHANGED files
  BY <1>6 DEF FilesApart, PathOf
<1>. QED
  BY <1>1, <1>2, <1>3, <1>4, <1>5, <1>6 DEF Folder

LEMMA IngestApart ==
  ASSUME CatalogAssumption, CatalogTyped, FilesApart, Ingest
  PROVE  FilesApart'
<1>1. PICK k \in Keys, d \in Digests : \E p \in PathOf(k) :
        /\ \A j \in Keys : files[j] # Absent => files[j].path # p
        /\ ChangeFile(k, Holds(k, d, p))
  BY DEF Ingest
<1>2. PICK p \in PathOf(k) :
        /\ \A j \in Keys : files[j] # Absent => files[j].path # p
        /\ ChangeFile(k, Holds(k, d, p))
  BY <1>1
<1>3. Holds(k, d, p).path = p
  BY DEF Holds
<1>. QED
  BY <1>2, <1>3, FileApart DEF ChangeFile

(* A request takes a file or a row, and moves none.                        *)
LEMMA RequestTakes ==
  ASSUME CatalogAssumption, CatalogTyped, RemovalTyped, Requests
  PROVE  /\ \A k \in Keys : /\ files'[k] \in {files[k], Absent} /\ changes[k] <= changes'[k]
                            /\ books'[k] \in {books[k], Absent}
                            /\ mapping'[k] # Absent => books'[k] # Absent \/ mapping[k] # Absent
                            /\ mapping[k] # Absent /\ mapping'[k] # Absent => books'[k] = books[k]
         /\ UNCHANGED <<rowsMade, pass>>
<1>0. /\ files \in [Keys -> Entries \cup {Absent}] /\ changes \in [Keys -> Nat]
      /\ books \in [Keys -> Rows \cup {Absent}] /\ mapping \in [Keys -> works \cup {Absent}]
  BY DEF CatalogTyped, FolderTyped, RowsTyped, GraphTyped
<1>. DEFINE Good ==
       /\ \A k \in Keys : /\ files'[k] \in {files[k], Absent} /\ changes[k] <= changes'[k]
                          /\ books'[k] \in {books[k], Absent}
                          /\ mapping'[k] # Absent => books'[k] # Absent \/ mapping[k] # Absent
                          /\ mapping[k] # Absent /\ mapping'[k] # Absent => books'[k] = books[k]
       /\ UNCHANGED rowsMade
<1>1. ASSUME NEW k \in Keys, ResolveCatalogBookWork(k) PROVE Good
  <2>1. PICK w : mapping' = [mapping EXCEPT ![k] = w]
    BY <1>1 DEF ResolveCatalogBookWork
  <2>2. books[k] # Absent /\ UNCHANGED <<books, rowsMade, files, changes>>
    BY <1>1 DEF ResolveCatalogBookWork, HadBook
  <2>. QED
    BY <1>0, <2>1, <2>2
<1>2. ASSUME NEW k \in Keys, RemoveBook(k) PROVE Good
  <2>1. /\ files' \in {files, [files EXCEPT ![k] = Absent]}
        /\ changes' \in {changes, [changes EXCEPT ![k] = @ + 1]}
        /\ UNCHANGED <<books, rowsMade, mapping>>
    BY <1>2 DEF RemoveBook, bookTables
  <2>. QED
    BY <1>0, <2>1
<1>3. ASSUME NEW k \in Keys, \E F : DeletesRow(k, F), UNCHANGED <<files, changes>> PROVE Good
  <2>1. /\ books' = [books EXCEPT ![k] = Absent] /\ mapping' = [mapping EXCEPT ![k] = Absent]
        /\ UNCHANGED rowsMade
    BY <1>3 DEF DeletesRow
  <2>. QED
    BY <1>0, <1>3, <2>1
<1>4. ASSUME UNCHANGED <<books, rowsMade, mapping, files, changes>> PROVE Good
  BY <1>0, <1>4
<1>5. ASSUME DeleteCatalogBook PROVE Good
  <2>. HIDE DEF Good
  <2>1. removal.key \in Keys /\ UNCHANGED <<files, changes>>
    BY <1>5 DEF DeleteCatalogBook, RemovalTyped
  <2>2. ASSUME \E F : DeletesRow(removal.key, F) PROVE Good
    BY <1>3, <2>1, <2>2
  <2>3. ASSUME UNCHANGED <<bookTables, graph>> PROVE Good
    BY <1>4, <2>1, <2>3 DEF bookTables
  <2>. QED
    BY <1>5, <2>2, <2>3 DEF DeleteCatalogBook
<1>6. ASSUME NEW k \in Keys, DeleteMissingBook(k) PROVE Good
  BY <1>3, <1>6 DEF DeleteMissingBook
<1>7. ASSUME NEW d \in Digests, DeviceReads(d) PROVE Good
  BY <1>4, <1>7 DEF DeviceReads, bookTables
<1>8. UNCHANGED pass
  BY DEF Requests
<1>. QED
  BY <1>1, <1>2, <1>5, <1>6, <1>7, <1>8 DEF Requests

LEMMA RequestApart ==
  ASSUME CatalogAssumption, CatalogTyped, RemovalTyped, Requests, FilesApart, RowsApart
  PROVE  FilesApart' /\ RowsApart'
<1>0. /\ \A k \in Keys : changes[k] \in Nat /\ changes'[k] \in Nat
      /\ \A k \in Keys : books[k] # Absent => books[k].read \in Nat
  <2>1. RequestKinds
    BY RequestStep
  <2>2. \A k \in Keys : changes'[k] \in Nat
    BY <2>1, FolderIs DEF RequestKinds
  <2>. QED
    BY <2>2, FolderIs, RowIs
<1>1. /\ \A k \in Keys : /\ files'[k] \in {files[k], Absent} /\ changes[k] <= changes'[k]
                         /\ books'[k] \in {books[k], Absent}
                         /\ mapping'[k] # Absent => books'[k] # Absent \/ mapping[k] # Absent
                         /\ mapping[k] # Absent /\ mapping'[k] # Absent => books'[k] = books[k]
      /\ rowsMade' = rowsMade
  BY RequestTakes
<1>2. \A k \in Keys : PathOf(k)' = PathOf(k)
  BY DEF PathOf
<1>3. FilesApart'
  BY <1>1, <1>2 DEF FilesApart
<1>4. ASSUME NEW k \in Keys, books'[k] # Absent
      PROVE  /\ books'[k].gen = rowsMade'[k] /\ books'[k].read <= changes'[k] /\ InPlace(k)'
             /\ \A j \in Keys \ {k} : books'[j] # Absent => books'[j].path # books'[k].path
  <2>1. books'[k] = books[k] /\ books[k] # Absent
    BY <1>1, <1>4
  <2>2. books[k].gen = rowsMade[k] /\ books[k].read <= changes[k] /\ InPlace(k)
    BY <2>1 DEF RowsApart
  <2>3. books'[k].read <= changes'[k]
    BY <1>0, <1>1, <2>1, <2>2
  <2>4. InPlace(k)'
    BY <1>2, <2>1, <2>2 DEF InPlace
  <2>5. \A j \in Keys \ {k} : books'[j] # Absent => books'[j].path # books'[k].path
    BY <1>1, <2>1 DEF RowsApart
  <2>. QED
    BY <1>1, <2>1, <2>2, <2>3, <2>4, <2>5
<1>5. ASSUME NEW k \in Keys, mapping'[k] # Absent PROVE books'[k] # Absent
  BY <1>1, <1>5 DEF RowsApart
<1>. QED
  BY <1>3, <1>4, <1>5 DEF RowsApart

(* The rows while only the folder or a pass goes on.                       *)
LEMMA RowsRest ==
  ASSUME CatalogAssumption, CatalogTyped, RowsApart, UNCHANGED <<books, rowsMade, mapping>>,
         \A k \in Keys : changes'[k] \in Nat /\ changes[k] <= changes'[k]
  PROVE  RowsApart'
<1>1. \A k \in Keys : PathOf(k)' = PathOf(k)
  BY DEF PathOf
<1>2. \A k \in Keys : changes[k] \in Nat /\ (books[k] # Absent => books[k].read \in Nat)
  BY FolderIs, RowIs
<1>3. \A k \in Keys : books[k] # Absent => books[k].read <= changes'[k]
  BY <1>2 DEF RowsApart
<1>. QED
  BY <1>1, <1>3 DEF RowsApart, InPlace

LEMMA OtherApart ==
  ASSUME CatalogTyped, NEW b \in Passes, pass'[b] = pass[b], ListsApart(b), FindsListed(b),
         \A k \in Keys : changes'[k] \in Nat /\ changes[k] <= changes'[k]
  PROVE  ListsApart(b)' /\ FindsListed(b)'
<1>1. \A k \in Keys : PathOf(k)' = PathOf(k)
  BY DEF PathOf
<1>2. /\ DOMAIN pass[b].listed \subseteq Keys /\ DOMAIN pass[b].obs \subseteq Keys
      /\ \A k \in DOMAIN pass[b].listed : pass[b].listed[k].changes \in Nat
      /\ \A k \in DOMAIN pass[b].obs : pass[b].obs[k].changes \in Nat
      /\ \A k \in Keys : changes[k] \in Nat
  BY TripIs, ObservationIs, FolderIs
<1>3. \A k \in DOMAIN pass[b].listed : pass[b].listed[k].changes <= changes'[k]
  BY <1>2 DEF ListsApart
<1>4. \A k \in DOMAIN pass[b].obs : pass[b].obs[k].changes <= changes'[k]
  BY <1>2 DEF FindsListed, Observed, Obs
<1>5. ListsApart(b)'
  BY <1>1, <1>2, <1>3 DEF ListsApart, EntryOf, Stage
<1>6. FindsListed(b)'
  BY <1>4 DEF FindsListed, EntryOf, Observed, Obs
<1>. QED
  BY <1>5, <1>6

(* A pass that begins lists files that are apart.                          *)
LEMMA ListingApart ==
  ASSUME NEW a \in Passes, FilesApart', pass'[a].stage = "list", DOMAIN pass'[a].obs = {},
         DOMAIN pass'[a].listed = IF IsCalibre THEN Keys ELSE {},
         \A k \in Keys : changes'[k] \in Nat,
         \A k \in DOMAIN pass'[a].listed : pass'[a].listed[k] = [entry |-> files'[k], changes |-> changes'[k]]
  PROVE  ListsApart(a)' /\ FindsListed(a)'
<1>1. /\ DOMAIN pass'[a].listed \subseteq Keys
      /\ \A k \in DOMAIN pass'[a].listed : /\ pass'[a].listed[k].entry = files'[k]
                                           /\ pass'[a].listed[k].changes = changes'[k]
  <2>1. DOMAIN pass'[a].listed \subseteq Keys
    OBVIOUS
  <2>2. ASSUME NEW k \in DOMAIN pass'[a].listed
        PROVE  /\ pass'[a].listed[k].entry = files'[k]
               /\ pass'[a].listed[k].changes = changes'[k]
    <3>1. pass'[a].listed[k] = [entry |-> files'[k], changes |-> changes'[k]]
      OBVIOUS
    <3>. QED
      BY ONLY <3>1
  <2>. QED
    BY <2>1, <2>2
<1>2. ListsApart(a)'
  BY <1>1 DEF ListsApart, EntryOf, Stage, FilesApart
<1>3. FindsListed(a)'
  BY DEF FindsListed, Observed
<1>. QED
  BY <1>2, <1>3

LEMMA ListPathApart ==
  ASSUME CatalogTyped, FilesApart, NEW a \in Passes, NEW k \in Keys, ListPath(a, k),
         ListsApart(a), FindsListed(a), UNCHANGED <<files, changes>>
  PROVE  ListsApart(a)' /\ FindsListed(a)'
<1>1. /\ pass[a].stage = "list" /\ pass'[a].obs = pass[a].obs
      /\ DOMAIN pass'[a].listed = DOMAIN pass[a].listed \cup {k} /\ k \notin DOMAIN pass[a].listed
      /\ \A j \in DOMAIN pass[a].listed : pass'[a].listed[j] = pass[a].listed[j]
      /\ pass'[a].listed[k].entry = Seen(k) /\ pass'[a].listed[k].changes = changes[k]
  BY ListStep
<1>2. ~IsCalibre /\ DOMAIN pass[a].obs = {} /\ DOMAIN pass[a].listed \subseteq Keys /\ changes[k] \in Nat
  BY <1>1, TripIs, FolderIs DEF ListsApart, Stage, KeepsStage
<1>3. \A j \in DOMAIN pass'[a].listed :
        /\ pass'[a].listed[j].changes <= changes'[j]
        /\ pass'[a].listed[j].entry # Absent => pass'[a].listed[j].entry.path = j
  <2>1. Seen(k) # Absent => Seen(k).path = k
    BY <1>2, PlainPath DEF Seen, FilesApart
  <2>2. \A j \in DOMAIN pass[a].listed :
          /\ pass[a].listed[j].changes <= changes[j]
          /\ pass[a].listed[j].entry # Absent => pass[a].listed[j].entry.path = j
    BY <1>2, PlainPath DEF ListsApart, EntryOf
  <2>. QED
    BY <1>1, <1>2, <2>1, <2>2
<1>4. \A j \in Keys : j \in PathOf(j)'
  BY <1>2 DEF PathOf
<1>5. ListsApart(a)'
  BY <1>1, <1>2, <1>3, <1>4 DEF ListsApart, EntryOf
<1>6. FindsListed(a)'
  BY <1>1, <1>2 DEF FindsListed, Observed
<1>. QED
  BY <1>5, <1>6

(* What a pass observes it observes at the listed path.                    *)
LEMMA NoteApart ==
  ASSUME CatalogTyped, NEW a \in Passes, NEW k \in Keys, NEW o \in Observations,
         pass[a].stage = "read", o.how = "read" => o.bytes # Absent,
         Steps(a, [pass[a] EXCEPT !.obs = With(@, k, o)]),
         k \in DOMAIN pass[a].listed, EntryOf(a, k) # Absent, o.path = EntryOf(a, k).path,
         o.changes <= changes[k],
         ListsApart(a), FindsListed(a), UNCHANGED <<files, changes>>
  PROVE  ListsApart(a)' /\ FindsListed(a)'
<1>1. /\ pass'[a].stage = "read" /\ pass'[a].listed = pass[a].listed
      /\ DOMAIN pass'[a].obs = DOMAIN pass[a].obs \cup {k}
      /\ pass'[a].obs[k] = o /\ \A j \in DOMAIN pass[a].obs : j # k => pass'[a].obs[j] = pass[a].obs[j]
  BY ObserveStep
<1>2. \A j \in Keys : PathOf(j)' = PathOf(j)
  BY DEF PathOf
<1>3. ListsApart(a)'
  <2>1. DOMAIN pass[a].listed \subseteq Keys
    BY TripIs
  <2>. QED
    BY <1>1, <1>2, <2>1 DEF ListsApart, EntryOf, Stage
<1>4. \A j \in DOMAIN pass[a].obs :
        /\ j \in DOMAIN pass[a].listed /\ pass[a].listed[j].entry # Absent
        /\ pass[a].obs[j].path = pass[a].listed[j].entry.path /\ pass[a].obs[j].changes <= changes[j]
  BY DEF FindsListed, Observed, Obs, EntryOf
<1>5. FindsListed(a)'
  BY <1>1, <1>4 DEF FindsListed, Observed, Obs, EntryOf
<1>. QED
  BY <1>3, <1>5

LEMMA MissApart ==
  ASSUME CatalogTyped, NEW a \in Passes, NEW k \in DOMAIN pass[a].listed, pass[a].stage = "read",
         k \notin DOMAIN pass[a].obs,
         Steps(a, [pass[a] EXCEPT !.complete = FALSE, !.listed[k].entry = Absent]),
         ListsApart(a), FindsListed(a), UNCHANGED <<files, changes>>
  PROVE  ListsApart(a)' /\ FindsListed(a)'
<1>1. /\ pass'[a].stage = "read" /\ pass'[a].obs = pass[a].obs
      /\ DOMAIN pass'[a].listed = DOMAIN pass[a].listed
      /\ pass'[a].listed[k].entry = Absent /\ pass'[a].listed[k].changes = pass[a].listed[k].changes
      /\ \A j \in DOMAIN pass[a].listed : j # k => pass'[a].listed[j] = pass[a].listed[j]
  BY MissStep
<1>2. \A j \in Keys : PathOf(j)' = PathOf(j)
  BY DEF PathOf
<1>3. DOMAIN pass[a].listed \subseteq Keys
  BY TripIs
<1>4. \A j \in DOMAIN pass[a].listed :
        /\ pass'[a].listed[j].changes <= changes'[j]
        /\ pass'[a].listed[j].entry # Absent
           => j # k /\ pass'[a].listed[j].entry = pass[a].listed[j].entry
              /\ pass'[a].listed[j].entry.path \in PathOf(j)
  <2>1. \A j \in DOMAIN pass[a].listed :
          /\ pass[a].listed[j].changes <= changes[j]
          /\ pass[a].listed[j].entry # Absent => pass[a].listed[j].entry.path \in PathOf(j)
    BY DEF ListsApart, EntryOf
  <2>. QED
    BY <1>1, <2>1
<1>5. ListsApart(a)'
  BY <1>1, <1>2, <1>3, <1>4 DEF ListsApart, EntryOf, Stage
<1>6. FindsListed(a)'
  BY <1>1 DEF FindsListed, Observed, Obs, EntryOf
<1>. QED
  BY <1>5, <1>6

LEMMA ScanningApart ==
  ASSUME CatalogAssumption, CatalogTyped, FilesApart, NEW a \in Passes, Scans(a),
         ListsApart(a), FindsListed(a)
  PROVE  ListsApart(a)' /\ FindsListed(a)'
<1>. DEFINE Good == ListsApart(a)' /\ FindsListed(a)'
<1>0. UNCHANGED <<files, changes>>
  BY ScanKinds
<1>1. ASSUME BooksInFolder(a) PROVE Good
  <2>1. /\ pass'[a].stage = "read" /\ pass'[a].listed = pass[a].listed /\ DOMAIN pass'[a].obs = {}
    BY <1>1, KnowStep
  <2>2. \A j \in Keys : PathOf(j)' = PathOf(j)
    BY DEF PathOf
  <2>3. DOMAIN pass[a].listed \subseteq Keys
    BY TripIs
  <2>4. ListsApart(a)'
    BY <1>0, <2>1, <2>2, <2>3 DEF ListsApart, EntryOf, Stage
  <2>. QED
    BY <2>1, <2>4 DEF FindsListed, Observed
<1>2. ASSUME NEW k \in Keys, ListPath(a, k) PROVE Good
  BY <1>0, <1>2, ListPathApart
<1>3. ASSUME pass[a].stage = "read", NEW k \in Unread(a), NEW o \in Observations,
             o.how = "read" => o.bytes # Absent, Steps(a, [pass[a] EXCEPT !.obs = With(@, k, o)]),
             o.path = Listed(a, k).path, o.changes <= changes[k]
      PROVE  Good
  <2>1. /\ k \in Keys /\ k \in DOMAIN pass[a].listed /\ EntryOf(a, k) # Absent
        /\ o.path = EntryOf(a, k).path
    BY <1>3, UnreadIs, EntryIs DEF EntryOf
  <2>. QED
    BY <1>0, <1>3, <2>1, NoteApart
<1>4. ASSUME NEW k \in Unread(a), pass[a].stage = "read" PROVE pass[a].listed[k].changes <= changes[k]
  BY <1>4, UnreadIs DEF ListsApart
<1>5. ASSUME pass[a].stage = "read", NEW k \in Unread(a), SeeAsBefore(a, k) PROVE Good
  <2>1. PICK o \in Observations :
          /\ Steps(a, [pass[a] EXCEPT !.obs = With(@, k, o)]) /\ o.how = "unchanged"
          /\ o.path = Listed(a, k).path /\ o.changes = pass[a].listed[k].changes
    BY <1>5, SeesStep
  <2>2. o.changes <= changes[k]
    BY <1>4, <1>5, <2>1
  <2>. QED
    BY <1>3, <1>5, <2>1, <2>2
<1>6. ASSUME pass[a].stage = "read", NEW k \in Unread(a), ReadBook(a, k) PROVE Good
  <2>1. PICK o \in Observations, j \in AtPath(a, k) :
          /\ Steps(a, [pass[a] EXCEPT !.obs = With(@, k, o)])
          /\ j \in Keys /\ files[j] \in Entries /\ files[j].path = Listed(a, k).path
          /\ o.bytes # Absent /\ o.path = Listed(a, k).path
          /\ o.changes = IF IsCalibre THEN pass[a].listed[k].changes ELSE changes[j]
    BY <1>6, ReadsStep
  <2>2. o.changes <= changes[k]
    <3>1. CASE IsCalibre
      BY <1>4, <1>6, <2>1, <3>1
    <3>2. CASE ~IsCalibre
      <4>1. files[j].path = j
        BY <2>1, <3>2, EntryIs, PlainPath DEF FilesApart
      <4>2. Listed(a, k).path = k
        BY <1>6, <3>2, UnreadIs, EntryIs, PlainPath DEF ListsApart, EntryOf
      <4>3. o.changes = changes[k] /\ changes[k] \in Nat
        BY <1>6, <2>1, <3>2, <4>1, <4>2, UnreadIs, FolderIs
      <4>. QED
        BY <4>3
    <3>. QED
      BY <3>1, <3>2
  <2>. QED
    BY <1>3, <1>6, <2>1, <2>2
<1>7. ASSUME pass[a].stage = "read", NEW k \in Unread(a), IsCalibre, FindNothing(a, k) PROVE Good
  <2>1. PICK o \in Observations :
          /\ Steps(a, [pass[a] EXCEPT !.obs = With(@, k, o)]) /\ o.how = "unservable"
          /\ o.path = Listed(a, k).path /\ o.changes = pass[a].listed[k].changes
    BY <1>7, NothingStep
  <2>2. o.changes <= changes[k]
    BY <1>4, <1>7, <2>1
  <2>. QED
    BY <1>3, <1>7, <2>1, <2>2
<1>8. ASSUME pass[a].stage = "read", NEW k \in Unread(a),
             Steps(a, [pass[a] EXCEPT !.complete = FALSE, !.listed[k].entry = Absent])
      PROVE  Good
  <2>1. k \in DOMAIN pass[a].listed /\ k \notin DOMAIN pass[a].obs
    BY <1>8, UnreadIs
  <2>. QED
    BY <1>0, <1>8, <2>1, MissApart
<1>. QED
  BY <1>1, <1>2, <1>5, <1>6, <1>7, <1>8, ScanKinds

(* Where the books are that a pass writes.                                 *)
IsTaken(a, p) == \E j \in Observed(a) : Obs(a, j).how # "unservable" /\ Obs(a, j).path = p

LEMMA FindingPath ==
  ASSUME CatalogAssumption, CatalogTyped, NEW a \in Passes, NEW k \in Keys, Finding(a, k) # Absent
  PROVE  \/ /\ k \in Observed(a) /\ Obs(a, k).how # "unservable" /\ Finding(a, k).path = Obs(a, k).path
         \/ /\ books[k] # Absent /\ Finding(a, k).path = books[k].path
            /\ IsCalibre => ~IsTaken(a, books[k].path)
         \/ IsCalibre /\ Finding(a, k).path = <<"parked", k>>
<1>. DEFINE f == Finding(a, k)
            o == Obs(a, k)
<1>1. ASSUME NEW b \in Rows, NEW p \in Places
      PROVE  /\ Missing(b).path = b.path /\ [b EXCEPT !.path = p].path = p
             /\ [b EXCEPT !.path = p] \in Rows
  BY DEF Missing, Rows
<1>2. books[k] # Absent => books[k] \in Rows /\ <<"parked", k>> \in Places
  BY FolderIs DEF Places
<1>3. ASSUME books[k] # Absent
      PROVE  /\ \/ Restored(a, k).path = books[k].path /\ (IsCalibre => ~IsTaken(a, books[k].path))
                \/ IsCalibre /\ Restored(a, k).path = <<"parked", k>>
             /\ Missing(Restored(a, k)).path = Restored(a, k).path
             /\ Missing(books[k]).path = books[k].path
  <2>1. \/ Restored(a, k) = books[k] /\ (IsCalibre => ~IsTaken(a, books[k].path))
        \/ IsCalibre /\ Restored(a, k) = [books[k] EXCEPT !.path = <<"parked", k>>]
    BY DEF Restored, IsTaken
  <2>2. Restored(a, k) \in Rows
    BY <1>3, RestoredIs
  <2>. QED
    BY <1>1, <1>2, <1>3, <2>1, <2>2
<1>4. CASE k \notin Observed(a)
  <2>1. books[k] # Absent /\ (f = Restored(a, k) \/ (~IsCalibre /\ f = Missing(books[k])))
    BY <1>4 DEF Finding, HadBook
  <2>. QED
    BY <1>3, <2>1
<1>5. CASE k \in Observed(a) /\ o.how = "unservable"
  <2>1. books[k] # Absent /\ f = Missing(Restored(a, k))
    BY <1>5 DEF Finding, HadBook
  <2>. QED
    BY <1>3, <2>1
<1>6. CASE k \in Observed(a) /\ o.how # "unservable"
  <2>1. CASE books[k] # Absent /\ o.how = "unchanged"
    <3>1. f = [books[k] EXCEPT !.status = "active", !.stat = o.stat, !.path = o.path, !.read = o.changes]
      BY <1>6, <2>1 DEF Finding, HadBook
    <3>2. o \in Observations /\ books[k] \in Rows
      BY <1>6, <2>1, TripIs, FolderIs DEF Obs, Observed
    <3>3. f.path = o.path
      BY <3>1, <3>2 DEF Rows, Observations
    <3>. QED
      BY <1>6, <3>3
  <2>2. CASE ~(books[k] # Absent /\ o.how = "unchanged")
    <3>1. \E g, bl : f = Written(o, g, bl)
      BY <1>6, <2>2 DEF Finding, HadBook
    <3>2. f.path = o.path
      BY <3>1 DEF Written
    <3>. QED
      BY <1>6, <3>2
  <2>. QED
    BY <2>1, <2>2
<1>. QED
  BY <1>4, <1>5, <1>6

LEMMA CommitApart ==
  ASSUME CatalogAssumption, CatalogTyped, OnePath, NEW a \in Passes, ReconcileFolder(a)
  PROVE  RowsApart'
<1>1. /\ \A k \in Keys : books'[k] = Finding(a, k)
      /\ mapping' = [k \in Keys |-> IF SameRow(books[k], books'[k]) THEN mapping[k] ELSE Absent]
      /\ rowsMade' = [k \in Keys |-> IF books'[k] # Absent /\ ~SameRow(books[k], books'[k])
                                     THEN rowsMade[k] + 1 ELSE rowsMade[k]]
      /\ UNCHANGED <<files, changes>>
  BY CommitRows DEF ReconcileFolder
<1>2. ListsApart(a) /\ FindsListed(a) /\ RowsApart
  BY DEF OnePath
<1>3. \A k \in Keys : PathOf(k)' = PathOf(k)
  BY DEF PathOf
<1>4. ASSUME NEW k \in Keys, books'[k] # Absent
      PROVE  books'[k].gen = rowsMade'[k] /\ books'[k].read <= changes'[k] /\ InPlace(k)'
  <2>1. Finding(a, k) # Absent /\ books'[k] = Finding(a, k)
    BY <1>1, <1>4
  <2>2. /\ rowsMade[k] \in Nat
        /\ books[k] # Absent => books[k].gen = rowsMade[k] /\ books[k].read <= changes[k] /\ InPlace(k)
        /\ k \in Observed(a) => Obs(a, k).changes <= changes[k] /\ Obs(a, k).path \in PathOf(k)
    BY <1>2, FolderIs DEF RowsApart, FindsListed, ListsApart
  <2>3. /\ Finding(a, k).gen \in {rowsMade[k], rowsMade[k] + 1}
        /\ Finding(a, k).gen = rowsMade[k] => books[k] # Absent
        /\ Finding(a, k).read <= changes[k]
    BY <2>1, <2>2, FindingIs
  <2>4. SameRow(books[k], books'[k]) <=> Finding(a, k).gen = rowsMade[k]
    BY <2>1, <2>2, <2>3 DEF SameRow
  <2>5. books'[k].gen = rowsMade'[k]
    BY <1>1, <1>4, <2>1, <2>2, <2>3, <2>4
  <2>6. Finding(a, k).path \in PathOf(k) \/ (IsCalibre /\ Finding(a, k).path = <<"parked", k>>)
    BY <2>1, <2>2, FindingPath DEF InPlace
  <2>. QED
    BY <1>1, <1>3, <2>1, <2>3, <2>5, <2>6 DEF InPlace
<1>5. ASSUME NEW i \in Keys, NEW j \in Keys, i # j, books'[i] # Absent, books'[j] # Absent
      PROVE  books'[i].path # books'[j].path
  <2>1. CASE ~IsCalibre
    BY <1>3, <1>4, <1>5, <2>1, PlainPath DEF InPlace
  <2>2. CASE IsCalibre
    <3>1. ASSUME NEW k \in Keys, k \in Observed(a)
          PROVE  Obs(a, k).path \in PathOf(k) /\ \A l \in Keys : Obs(a, k).path # <<"parked", l>>
      <4>1. Obs(a, k).path \in PathOf(k)
        BY <1>2, <3>1 DEF FindsListed, ListsApart
      <4>. QED
        BY <2>2, <3>1, <4>1, NoneParked
    <3>2. ASSUME NEW k \in Keys, books[k] # Absent
          PROVE  \A l \in Keys : books[k].path = <<"parked", l>> => l = k
      <4>1. books[k].path \in PathOf(k) \/ books[k].path = <<"parked", k>>
        BY <1>2, <3>2 DEF RowsApart, InPlace
      <4>. QED
        BY <2>2, <4>1, NoneParked
    <3>3. \A k \in Keys, l \in Keys :
            k \in Observed(a) /\ l \in Observed(a) /\ k # l => Obs(a, k).path # Obs(a, l).path
      BY <1>2 DEF FindsListed, ListsApart
    <3>4. \A k \in Keys, l \in Keys :
            k # l /\ books[k] # Absent /\ books[l] # Absent => books[k].path # books[l].path
      BY <1>2 DEF RowsApart
    <3>. DEFINE Placed(k) == k \in Observed(a) /\ Obs(a, k).how # "unservable"
                             /\ books'[k].path = Obs(a, k).path
                Kept(k) == books[k] # Absent /\ books'[k].path = books[k].path
                           /\ ~IsTaken(a, books[k].path)
                Parked(k) == books'[k].path = <<"parked", k>>
    <3>5. (Placed(i) \/ Kept(i) \/ Parked(i)) /\ (Placed(j) \/ Kept(j) \/ Parked(j))
      BY <1>1, <1>5, <2>2, FindingPath
    <3>6. ASSUME NEW k \in Keys, NEW l \in Keys, k # l, Placed(k), Kept(l) PROVE books'[k].path # books'[l].path
      BY <3>6 DEF IsTaken
    <3>7. ASSUME NEW k \in Keys, NEW l \in Keys, k # l, Parked(k), Placed(l) \/ Kept(l) \/ Parked(l)
          PROVE  books'[k].path # books'[l].path
      BY <3>1, <3>2, <3>7
    <3>8. CASE Placed(i) /\ Placed(j)
      BY <1>5, <3>3, <3>8
    <3>9. CASE Kept(i) /\ Kept(j)
      BY <1>5, <3>4, <3>9
    <3>. HIDE DEF Placed, Kept, Parked
    <3>. QED
      BY <1>5, <3>5, <3>6, <3>7, <3>8, <3>9
  <2>. QED
    BY <2>1, <2>2
<1>6. ASSUME NEW k \in Keys, mapping'[k] # Absent PROVE books'[k] # Absent
  BY <1>1, <1>6 DEF SameRow
<1>. QED
  BY <1>4, <1>5, <1>6 DEF RowsApart

LEMMA ChangesGrow ==
  ASSUME CatalogTyped, FileChanges
  PROVE  \A k \in Keys : changes'[k] \in Nat /\ changes[k] <= changes'[k]
BY FolderIs DEF FileChanges, Replaced

LEMMA OnePathAtStart == ASSUME CatalogAssumption, CatalogInit PROVE OnePath
<1>1. FilesApart /\ RowsApart
  BY DEF CatalogInit, FilesApart, RowsApart
<1>2. ASSUME NEW a \in Passes PROVE ListsApart(a) /\ FindsListed(a)
  <2>1. pass[a] = Off /\ Off.stage = "off" /\ DOMAIN Off.obs = {} /\ DOMAIN Off.listed = {}
    BY <1>2, TripRests, NothingYet DEF CatalogInit, Off
  <2>. QED
    BY <2>1 DEF ListsApart, FindsListed, Stage, Observed
<1>. QED
  BY <1>1, <1>2 DEF OnePath

LEMMA OnePathKept ==
  ASSUME CatalogAssumption, CatalogBase, OnePath, [CatalogNext]_catalogVars
  PROVE  OnePath'
<1>0. /\ CatalogTyped /\ RemovalTyped /\ FilesApart /\ RowsApart
      /\ \A b \in Passes : ListsApart(b) /\ FindsListed(b)
      /\ \A k \in Keys : changes[k] \in Nat /\ changes[k] <= changes[k]
  BY FolderIs DEF CatalogBase, OnePath
<1>. DEFINE Good == OnePath'
<1>1. ASSUME UNCHANGED <<books, rowsMade, mapping>>, FilesApart',
             \A k \in Keys : changes'[k] \in Nat /\ changes[k] <= changes'[k],
             NEW a, \A b \in Passes : b # a => pass'[b] = pass[b],
             a \in Passes => ListsApart(a)' /\ FindsListed(a)'
      PROVE  Good
  <2>1. RowsApart'
    BY <1>0, <1>1, RowsRest
  <2>2. \A b \in Passes : b # a => ListsApart(b)' /\ FindsListed(b)'
    BY <1>0, <1>1, OtherApart
  <2>. QED
    BY <1>1, <2>1, <2>2 DEF OnePath
<1>2. ASSUME UNCHANGED <<files, changes>> PROVE FilesApart'
  BY <1>0, <1>2 DEF FilesApart, PathOf
<1>3. ASSUME Folder PROVE Good
  <2>1. FileChanges /\ UNCHANGED <<books, rowsMade, mapping, pass>>
    BY <1>0, <1>3, FolderStep
  <2>2. FilesApart'
    BY <1>0, <1>3, FolderApart
  <2>3. \A k \in Keys : changes'[k] \in Nat /\ changes[k] <= changes'[k]
    BY <1>0, <2>1, ChangesGrow
  <2>4. RowsApart'
    BY <1>0, <2>1, <2>3, RowsRest
  <2>5. \A b \in Passes : ListsApart(b)' /\ FindsListed(b)'
    BY <1>0, <2>1, <2>3, OtherApart
  <2>. QED
    BY <2>2, <2>4, <2>5 DEF OnePath
<1>4. ASSUME Ingest PROVE Good
  <2>1. /\ "ingest" \in Passes /\ \A b \in Passes : b # "ingest" => pass'[b] = pass[b]
        /\ pass'["ingest"].stage = "list" /\ DOMAIN pass'["ingest"].obs = {}
        /\ DOMAIN pass'["ingest"].listed = IF IsCalibre THEN Keys ELSE {}
        /\ \A k \in DOMAIN pass'["ingest"].listed :
             pass'["ingest"].listed[k] = [entry |-> files'[k], changes |-> changes'[k]]
        /\ FileChanges
    BY <1>0, <1>4, IngestStep
  <2>2. FilesApart'
    BY <1>0, <1>4, IngestApart
  <2>3. \A k \in Keys : changes'[k] \in Nat /\ changes[k] <= changes'[k]
    BY <1>0, <2>1, ChangesGrow
  <2>4. ListsApart("ingest")' /\ FindsListed("ingest")'
    BY <2>1, <2>2, <2>3, ListingApart
  <2>5. UNCHANGED <<books, rowsMade, mapping>>
    BY <1>4 DEF Ingest, bookTables
  <2>. QED
    BY <1>1, <2>1, <2>2, <2>3, <2>4, <2>5
<1>5. ASSUME Requests PROVE Good
  <2>1. FilesApart' /\ RowsApart'
    BY <1>0, <1>5, RequestApart
  <2>2. UNCHANGED pass /\ \A k \in Keys : changes[k] <= changes'[k]
    BY <1>0, <1>5, RequestTakes
  <2>3. \A k \in Keys : changes'[k] \in Nat
    BY <1>0, <1>5, RequestStep DEF RequestKinds
  <2>4. \A b \in Passes : ListsApart(b)' /\ FindsListed(b)'
    BY <1>0, <2>2, <2>3, OtherApart
  <2>. QED
    BY <2>1, <2>4 DEF OnePath
<1>6. ASSUME NEW a \in Passes, Begin(a) PROVE Good
  <2>1. /\ \A b \in Passes : b # a => pass'[b] = pass[b]
        /\ pass'[a].stage = "list" /\ DOMAIN pass'[a].obs = {}
        /\ DOMAIN pass'[a].listed = IF IsCalibre THEN Keys ELSE {}
        /\ \A k \in DOMAIN pass'[a].listed : pass'[a].listed[k] = [entry |-> files[k], changes |-> changes[k]]
    BY <1>0, <1>6, BeginStep
  <2>2. UNCHANGED <<files, changes, books, rowsMade, mapping>>
    BY <1>6 DEF Begin, bookTables
  <2>3. FilesApart'
    BY <1>2, <2>2
  <2>4. ListsApart(a)' /\ FindsListed(a)'
    BY <1>0, <2>1, <2>2, <2>3, ListingApart
  <2>. QED
    BY <1>0, <1>1, <2>1, <2>2, <2>3, <2>4
<1>7. ASSUME NEW a \in Passes, Scans(a) PROVE Good
  <2>1. UNCHANGED <<files, changes, books, rowsMade, mapping>>
    BY <1>0, <1>7, ScanKinds
  <2>2. \A b \in Passes : b # a => pass'[b] = pass[b]
    <3>1. \E n : Steps(a, n)
      BY <1>7 DEF Scans, BooksInFolder, ListPath, SeeAsBefore, ReadBook, FindNothing, FailToRead
    <3>2. pass \in [Passes -> Trips]
      BY <1>0 DEF CatalogTyped, TripsTyped
    <3>. QED
      BY <3>1, <3>2 DEF Steps
  <2>3. ListsApart(a)' /\ FindsListed(a)'
    BY <1>0, <1>7, ScanningApart
  <2>. QED
    BY <1>0, <1>1, <1>2, <2>1, <2>2, <2>3
<1>8. ASSUME NEW a \in Passes, ReconcileFolder(a) PROVE Good
  <2>1. /\ UNCHANGED <<files, changes>> /\ pass'[a] = Off /\ \A b \in Passes : b # a => pass'[b] = pass[b]
    BY <1>0, <1>8, CommitRows
  <2>2. RowsApart'
    BY <1>0, <1>8, CommitApart
  <2>3. ListsApart(a)' /\ FindsListed(a)'
    <3>1. Off.stage = "off" /\ DOMAIN Off.obs = {} /\ DOMAIN Off.listed = {}
      BY TripRests, NothingYet DEF Off
    <3>. QED
      BY <2>1, <3>1 DEF ListsApart, FindsListed, Stage, Observed
  <2>4. \A b \in Passes : b # a => ListsApart(b)' /\ FindsListed(b)'
    BY <1>0, <2>1, OtherApart
  <2>. QED
    BY <1>2, <2>1, <2>2, <2>3, <2>4 DEF OnePath
<1>9. ASSUME UNCHANGED catalogVars PROVE Good
  <2>1. UNCHANGED <<files, changes, books, rowsMade, mapping, pass>>
    BY <1>9 DEF catalogVars, bookTables
  <2>2. RowsApart'
    BY <1>0, <2>1, RowsRest
  <2>3. \A b \in Passes : ListsApart(b)' /\ FindsListed(b)'
    BY <1>0, <2>1, OtherApart
  <2>. QED
    BY <1>2, <2>1, <2>2, <2>3 DEF OnePath
<1>. QED
  BY <1>3, <1>4, <1>5, <1>6, <1>7, <1>8, <1>9 DEF CatalogNext

LEMMA TablesHold == ASSUME CatalogAssumption, CatalogTyped, OnePath PROVE CatalogTypeOK
<1>1. ASSUME NEW k \in Keys, books[k] # Absent
      PROVE  /\ books[k].status \in {"active", "missing"} /\ books[k].gen = rowsMade[k]
             /\ books[k].read <= changes[k]
             /\ \A j \in Keys \ {k} : books[j] # Absent => books[j].path # books[k].path
  BY <1>1, FolderIs, RowIs DEF OnePath, RowsApart
<1>2. \A k \in Keys : mapping[k] # Absent => books[k] # Absent /\ mapping[k] \in works
  BY FolderIs DEF OnePath, RowsApart
<1>3. history \subseteq works /\ works \subseteq Works
      /\ \A d \in Digests : {alias[d], edition[d]} \subseteq works \cup {Absent}
  BY DEF CatalogTyped, GraphTyped
<1>. QED
  BY <1>1, <1>2, <1>3 DEF CatalogTypeOK

(* However many passes, uploads and requests overlap: no two books of a    *)
(* folder are at one path, a row is as new as the last one made for its    *)
(* book and was read no later than now, and every mapping joins a book     *)
(* that is there to a work that is there (UNIQUE (folder_id,               *)
(* relative_path) and the foreign keys of schema.go never fail a pass).    *)
THEOREM TablesStayWhole == ASSUME CatalogAssumption PROVE CatalogSpec => []CatalogTypeOK
<1>1. CatalogInit => CatalogBase /\ OnePath
  BY CatalogStarts, OnePathAtStart
<1>2. CatalogBase /\ OnePath /\ [CatalogNext]_catalogVars => (CatalogBase /\ OnePath)'
  BY CatalogBaseKept, OnePathKept
<1>3. CatalogBase /\ OnePath => CatalogTypeOK
  BY TablesHold DEF CatalogBase
<1>. QED
  BY <1>1, <1>2, <1>3, PTL DEF CatalogSpec
=============================================================================
