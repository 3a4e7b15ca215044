---------------------------- MODULE Translations ----------------------------
(***************************************************************************)
(* The cache of sentence translations an account keeps per work            *)
(* (store/sqlite/translations.go, api/translations.go, ADR-0052) and the   *)
(* devices that page it by cursor.                                         *)
(*                                                                         *)
(* A row's stamp is both its age and its place in the feed.  The clock is  *)
(* not trusted: each write reads any value of it.  A push is two steps,    *)
(* the stamp taken under the work-graph lock and the commit, with pulls in *)
(* between.  A text is its length in bytes; the key's share is left out.   *)
(***************************************************************************)
EXTENDS Integers, FiniteSets, FiniteSetsExt

CONSTANTS CachedWorks,  \* works of the user
          Keys,         \* content hashes, compared as the feed compares them
          Texts,        \* texts, each the number of its bytes
          Pushers,      \* devices that push
          Pullers,      \* devices that page a work's feed
          CachePage,    \* rows of a page
          Budget,       \* ops.translation_budget_bytes
          Clock,        \* values the clock may show
          MaxPushes,    \* bound: pushes, clears, merges and deletions
          Seeded,       \* FALSE: the database grew before the mark existed
          Absent

VARIABLES cachedWorks,  \* the works that exist
          rows,         \* work_translations: [work, key, text, at]
          high,         \* work_translation_stamps.high, or Absent
          txn,          \* the push each device has open: [work, items, at], or Absent
          puller,       \* what each puller holds: [work, at, key, copy]
          pushes        \* pushes so far (bound)

cacheVars == <<cachedWorks, rows, high, txn, puller, pushes>>

CacheRows == [work : CachedWorks, key : Keys, text : Texts, at : Nat]
Batches == UNION {[K -> Texts] : K \in SUBSET Keys \ {{}}}
Transactions == [work : CachedWorks, items : Batches, at : Nat]

TranslationsAssumption ==
    /\ Keys \subseteq Nat /\ IsFiniteSet(Keys)
    /\ Texts \subseteq Nat \ {0} /\ Clock \subseteq Nat \ {0}
    /\ CachePage \in Nat \ {0} /\ Budget \in Nat \ {0} /\ MaxPushes \in Nat
    /\ Seeded \in BOOLEAN
    /\ Absent \notin Nat /\ Absent \notin Transactions

Fresh(w) == [work |-> w, at |-> 0, key |-> 0, copy |-> [k \in Keys |-> Absent]]

Bytes(R) == MapThenSumSet(LAMBDA r : r.text, R)
Of(w) == {r \in rows : r.work = w}

\* The feed's order, which is also the order of eviction.
Before(r, s) == r.at < s.at \/ (r.at = s.at /\ r.key < s.key)

\* An old database may hold rows and no mark.
CacheInit ==
    /\ cachedWorks = CachedWorks
    /\ rows \in IF Seeded THEN {{}}
                ELSE {{[work |-> w, key |-> k, text |-> t, at |-> c]} :
                        w \in CachedWorks, k \in Keys, t \in Texts, c \in Clock}
    /\ high = Absent
    /\ txn = [d \in Pushers |-> Absent]
    /\ puller \in [Pullers -> {Fresh(w) : w \in CachedWorks}]
    /\ pushes = 0
-----------------------------------------------------------------------------
\* Faulty: the mark is the rows' maximum, and leaves with them.
MarkOfRows ==
    IF rows = {} THEN Absent ELSE Max({r.at : r \in rows})

\* The high-water mark, seeded from the rows when the user has none yet.
Mark ==
    IF high # Absent THEN high
    ELSE IF rows = {} THEN Absent ELSE Max({r.at : r \in rows})

\* The clock's now, unless the mark stands at or beyond it.
Stamp(now) == IF Mark # Absent /\ now <= Mark THEN Mark + 1 ELSE now

\* The lock on the user's work graph is free.
GraphFree == \A d \in Pushers : txn[d] = Absent

\* The rows an eviction leaves: the oldest leave first, until the rest fits.
Kept(R) == {r \in R : Bytes({s \in R : ~Before(s, r)}) <= Budget}

\* Insert if absent, update only when the text differs.
Upserted(w, items, at) ==
    LET changed == {k \in DOMAIN items :
                      ~\E r \in Of(w) : r.key = k /\ r.text = items[k]}
    IN  {r \in rows : r.work # w \/ r.key \notin changed}
          \cup {[work |-> w, key |-> k, text |-> items[k], at |-> at] : k \in changed}

\* A merge's move: the survivor's row wins a key, what moves is restamped.
Carried(from, into, at) ==
    (rows \ Of(from))
      \cup {[r EXCEPT !.work = into, !.at = at] :
              r \in {r \in Of(from) : \A s \in Of(into) : s.key # r.key}}
-----------------------------------------------------------------------------
\* PushWorkTranslations up to the stamp: lock, the work's existence, the mark.
BeginPush(d, w, items, now) ==
    /\ pushes < MaxPushes
    /\ txn[d] = Absent
    /\ GraphFree
    /\ w \in cachedWorks
    /\ txn' = [txn EXCEPT ![d] = [work |-> w, items |-> items, at |-> Stamp(now)]]
    /\ pushes' = pushes + 1
    /\ UNCHANGED <<cachedWorks, rows, high, puller>>

\* ... and the rows, the eviction and the commit.
CommitPush(d) ==
    /\ txn[d] # Absent
    /\ rows' = Kept(Upserted(txn[d].work, txn[d].items, txn[d].at))
    /\ high' = txn[d].at
    /\ txn' = [txn EXCEPT ![d] = Absent]
    /\ UNCHANGED <<cachedWorks, puller, pushes>>

\* DeleteWorkTranslations, for one work, and DeleteAllWorkTranslations.
Clear(R) ==
    /\ pushes < MaxPushes
    /\ GraphFree
    /\ rows' = rows \ R
    /\ pushes' = pushes + 1
    /\ UNCHANGED <<cachedWorks, high, txn, puller>>

ClearWork == \E w \in cachedWorks : Of(w) # {} /\ Clear(Of(w))
ClearAll == rows # {} /\ Clear(rows)

\* moveWorkTranslationsTx inside MergeWorks, which drops the absorbed work.
MergeCached(from, into, now) ==
    /\ pushes < MaxPushes
    /\ GraphFree
    /\ {from, into} \subseteq cachedWorks /\ from # into
    /\ rows' = Carried(from, into, Stamp(now))
    /\ high' = Stamp(now)
    /\ cachedWorks' = cachedWorks \ {from}
    /\ pushes' = pushes + 1
    /\ UNCHANGED <<txn, puller>>

\* DeleteWork: the work's rows cascade.
DeleteCached(w) ==
    /\ pushes < MaxPushes
    /\ GraphFree
    /\ w \in cachedWorks
    /\ cachedWorks' = cachedWorks \ {w}
    /\ rows' = rows \ Of(w)
    /\ pushes' = pushes + 1
    /\ UNCHANGED <<high, txn, puller>>

\* The rows strictly after a puller's cursor.
After(p) == {r \in Of(puller[p].work) : Before(puller[p], r)}

\* PullWorkTranslations: the first rows of them, and the cursor of the last.
Pull(p) ==
    LET page == {r \in After(p) : Cardinality({s \in After(p) : Before(s, r)}) < CachePage}
        last == CHOOSE r \in page : \A s \in page : ~Before(r, s)
        Texted(k) == IF \E r \in page : r.key = k
                     THEN (CHOOSE r \in page : r.key = k).text ELSE puller[p].copy[k]
    IN  /\ puller[p].work \in cachedWorks
        /\ page # {}
        /\ puller' = [puller EXCEPT ![p] = [work |-> @.work, at |-> last.at, key |-> last.key,
                                            copy |-> [k \in Keys |-> Texted(k)]]]
        /\ UNCHANGED <<cachedWorks, rows, high, txn, pushes>>

\* A 404: the book is resolved again and pulled from the beginning.
Reresolve(p) ==
    /\ puller[p].work \notin cachedWorks
    /\ \E w \in cachedWorks : puller' = [puller EXCEPT ![p] = Fresh(w)]
    /\ UNCHANGED <<cachedWorks, rows, high, txn, pushes>>

Pulling(p) == Pull(p) \/ Reresolve(p)

CacheNext ==
    \/ \E d \in Pushers, w \in CachedWorks, items \in Batches, now \in Clock :
         BeginPush(d, w, items, now)
    \/ \E d \in Pushers : CommitPush(d)
    \/ ClearWork
    \/ ClearAll
    \/ \E from, into \in CachedWorks, now \in Clock : MergeCached(from, into, now)
    \/ \E w \in CachedWorks : DeleteCached(w)
    \/ \E p \in Pullers : Pulling(p)

\* A transaction ends, and a device that has more to pull pulls.
CacheFairness ==
    /\ \A d \in Pushers : WF_cacheVars(CommitPush(d))
    /\ \A p \in Pullers : WF_cacheVars(Pulling(p))

CacheSpec == CacheInit /\ [][CacheNext]_cacheVars /\ CacheFairness
-----------------------------------------------------------------------------
\* Types; a row is on a work that exists, a work has one row per key, and no
\* row is stamped beyond the mark.
CacheTypeOK ==
    /\ cachedWorks \subseteq CachedWorks
    /\ rows \subseteq CacheRows
    /\ high \in Nat \cup {Absent}
    /\ txn \in [Pushers -> Transactions \cup {Absent}]
    /\ puller \in [Pullers -> [work : CachedWorks, at : Nat, key : Keys \cup {0},
                               copy : [Keys -> Texts \cup {Absent}]]]
    /\ pushes \in 0..MaxPushes
    /\ \A r \in rows : r.work \in cachedWorks
    /\ \A r \in rows, s \in rows : r.work = s.work /\ r.key = s.key => r = s
    /\ high # Absent => \A r \in rows : r.at <= high

\* Nothing of the feed is behind a cursor unread: every row at or before the
\* cursor a device holds is in the device's copy with the text it has, however
\* the clock jumped, whatever was evicted, cleared or merged in between
\* (stampWorkTranslationTx).
NothingBehindTheCursor ==
    \A p \in Pullers : \A r \in Of(puller[p].work) :
        ~Before(puller[p], r) => puller[p].copy[r.key] = r.text

=============================================================================
