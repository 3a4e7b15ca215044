# Formal model of liseur-sync

liseur-sync keeps a reader's books in step across devices: where they are in
each book, how long they read, what they marked, and which books there are. This
directory holds TLA+ modules for the parts of it whose correctness depends on the
order in which things happen, the TLC configurations that check them, and proofs
that TLAPS checks. Paths are relative to the repository (`src/` stands for its
root); `sqlite/` is `internal/store/sqlite/`.

| component | modules | run | proofs |
|---|---|---|---|
| position log, change feed, compaction, forgotten peaks | `SyncLog` | `SyncLog_feed`, `SyncLog_resume` | `SyncLogProofs` |
| live hub and event stream | `LiveHub` | `LiveHub_stream` | `BrowserProofs` |
| sessions, inference, archiving, CrossPoint receipts | `Sessions` | `Sessions_count` | `SessionsProofs` |
| library mirror | `Mirror` | `Mirror_peers`, `Delivery_live` | `MirrorProofs` |
| watcher of library folders | `Watcher`, `Follower` | `Watcher_disk` | `LibraryProofs` |
| catalog of a folder, Calibre libraries | `Catalog` | `Catalog_passes` | `LibraryProofs` |
| series: shelves, claims, merges and splits | `Series` | `Catalog_passes`, `Series_split` | `LibraryProofs` |
| roles and admin tokens, kosync pairing, browser tokens | `Accounts`, `Pairing`, `ReaderTokens` | `Accounts_credentials` | `CredentialsProofs` |
| annotations, translation cache, sessions of sources | `Annotations`, `Translations`, `SourceSessions` | `Records_sync` | `RecordsProofs` |
| Audiobookshelf client | `AudiobookPositions`, `AudiobookLinks`, `AudiobookSessions` | `Audiobooks_follow` | `AudiobooksProofs` |
| the browser's offline queue | `Outbox` | `Delivery_live` | `BrowserProofs` |

The sections follow: inventory (1), plan (2), the modules (3 to 12), what is
proved (13), where the code and its documentation part (14), what is not
modelled (15), and how to run it all (16).

## 1. Inventory

The server is one process over one database (SQLite, or PostgreSQL); clients
speak HTTP to it, and it speaks HTTP to peers. State that matters is in tables;
goroutines share a few structures in memory (the hub, the watcher's maps).

| part | state | what it does | what is hard |
|---|---|---|---|
| position log (`sqlite/ops.go`, `internal/api/ops.go`) | `ops`, a counter and a compaction horizon per account, `works.furthest_floor` | append with idempotency keys, feed, heads, forgetting, compaction | replies overtaken by compaction and by the work graph, retries |
| work graph (`works.go`, `delete.go`, `kosync.go`) | works, editions, aliases | resolve, pend, split, merge, delete | rewrites every table that names a work, without a word in the feeds |
| sessions (`sessions.go`, `rollups.go`, `internal/infer`) | sessions, totals, tombstones, stamps of inferred sessions | upload, inference, archiving | the materializer reads in one transaction and writes in another |
| CrossPoint (`crosspoint.go`) | receipts, a measurement cutoff per slot | session events | retries; reading both reported and inferred |
| sessions of sources (`sqlite/audiobooks.go`, `sessions.go`) | revisions per source key | koplugin rows, imported sittings | revisions out of order, moved under their key |
| annotations (`annotations.go`) | records with revisions, tombstones, a counter | push, delete, sweep, feed, move | retries across tombstone, sweep and a new start |
| translations (`translations.go`) | rows, a stamp per account | push, evict, clear, feed | stamps are cursors made of a clock nobody trusts |
| live hub (`internal/live`, `internal/api/events.go`) | subscriptions with a pending set and a one-slot channel | subscribe, notify, stream, shut down | every interleaving of goroutines |
| accounts (`users.go`, `kosync.go`, `internal/auth`) | users, tokens, pairing codes, device slots | roles, pairing, minting | several requests at once under READ COMMITTED |
| mirror (`internal/mirror`) | cursor per peer and work | ask, settle, push | lost answers, echoes, peers that restamp, several peers |
| Audiobookshelf (`internal/audiobookshelf`) | links, watermarks, marks | follow places, link, import sessions | the same, with a person who edits links meanwhile |
| folders (`internal/content`, `reconcile.go`) | books, mappings, watches | watch, scan, reconcile, ingest, remove | events against passes, books that go and come back |
| series (`seriesmerge.go`, `seriesoverride.go`) | shelves, claims of readers, bindings of names | merge, split, undo, claim, reorder | the disk keeps saying the old name |
| browser (`internal/webui/static/offline-*.js`) | a durable queue, local copies | queue, drain, settle conflicts | closed tabs, lost answers, edits while sending |

How they meet: everything that names a work is moved by the work graph; every
commit notifies the hub; kosync, the mirror and the Audiobookshelf client append
to the position log; passes of a folder make works; the browser's queue is one
client of the log and of the annotations.

## 2. Plan

Built, in this order: `SyncLog` and its proofs; `LiveHub` and its proofs;
`Sessions`; `SourceSessions`; `Mirror`; `Watcher` with the abstract `Follower`
it implements, `Catalog`; `Accounts`, `Pairing`, `ReaderTokens`; `Annotations`,
`Translations`; the three audiobook modules; `Outbox`; `Series`; then the proofs:
of roles and pairing, `Sessions`, `Annotations`, `Translations`, `Mirror`, browser
tokens, `Series`, `SourceSessions`, the audiobook modules, `Outbox`, and last of
`Watcher` with the steps of its refinement, and `Catalog`. Every invariant and
every action property that a run checks is a theorem now.

Where to go on, in this order:

1. The windows of the insights, as pure operators against reference definitions.
2. The audiobook pass of a folder, beside the other two kinds in `Catalog`.
3. `NothingIsLost` for several folders: their signals share one channel, so it
   has to be stated with the signals that may be dropped (section 14).

## 3. SyncLog

One account, some clients. Store operations take the account's write lock
first (`lockWorkGraph`), so each is one action; a read (`Changes`, `HeadsFor`)
is one transaction, so it is one action that puts a reply in a client's `inbox`.
From there it is applied later (`ReceivePage`, `ReceiveResync`, `ReceiveHeads`)
or lost (`LoseReply`), with anything in between.

| variable | code |
|---|---|
| `works`, `owner`, `floor` | `works`, `editions` and `aliases`, `works.furthest_floor` |
| `born` | ids are random and not reused: the ids used up |
| `log`, `nextSeq`, `horizon` | `ops`, `seq_counters.next_seq`, `compaction_state.horizon` |
| `measured` | `kosync_devices.measured_sessions_from` |
| `cursor`, `known`, `resync`, `inbox` | what a client of `docs/integrating.md` keeps |
| the rest | history, for the properties |

A position's `own` is the edition or alias it came with; it partitions the
furthest positions (`furthestRank`) and decides what a split takes. Locators,
timestamps of the client and titles are abstracted away. Totals may make a
split or a merge impossible; here both may simply not happen, and `Sessions` has
the refusal.

`NoSilentGap`: a client holds every position from its last rebuild to its
cursor, including those since compacted. `HeadsKnown`: it holds the newest
position per work and device up to its cursor, unless a split came after its
last rebuild (a split uncovers older positions and the feed does not say so).
`NewOpsBeyondCursors`: a new position is numbered beyond everything a client may
have seen (proved, section 13). `ForgottenStaysForgotten`: no sequence of merges and splits brings a
forgotten peak back. `CatchesUp`: a client that keeps asking gets there.

`SyncLog_feed` (731 thousand states): two works let positions be merged, split
and lost; two devices are needed for a head that is not the newest of its work;
three positions and pages of two give a page boundary; a kosync device and an
alias give the work that is made on the way. One client suffices for TLC, since
clients do not influence each other; the proofs hold for any number. `Deletable`
are the works no catalog book maps. Fairness: a client keeps asking (weak), and
of the replies sent infinitely often one is not lost (strong). Writers need not
do anything.

## 4. LiveHub

A writer commits (`Commit`), copies the subscriptions under the hub's mutex
(`CopySubs`), and for each one sets its pending bits under that subscription's
mutex (`RaiseFor`) and then pokes its channel (`Poke`). A stream registers
(`Subscribe`), writes its headers and raises everything (`Open`, `PokeSelf`), and
loops: `WakeUp`, `Take`, `Authorize`, `Send`. `Revoke`, `Leave` and `CloseHub` may
happen anywhere the code can be interrupted. The client's side is `stale` (what
changed since it read) and `frames` (what it was told and has not read yet).

`NoLostInvalidation`: something stale is always on its way: pending, taken,
sent, or owed by a writer that has committed. `OneLateFrame` bounds what goes out
after a revocation by the one frame whose authorization had been checked.
`EveryChangeIsRead` and `ShutdownEndsStreams` are the liveness.

`LiveHub_stream` (84 thousand states) takes two scenarios from one
specification: two writers against one stream whose token may be revoked, where
one writer finds a topic already pending that the other is about to poke; and
two streams for an account allowed one, while the hub closes. Fairness is weak
on each goroutine and on the client's reading, which is what the Go scheduler
gives; commits, revocations and the shutdown need not happen.

## 5. Sessions

Store operations are actions, as in `SyncLog`. The materializer is not one
action: `job` is what it carries from a read to a later write (the groups of
positions read by `ReadPendingOps`, the zone read by `StartRollup`, the page read
by `ReadBatch`). `AppendInferredSession` and `ApplyRollups` check it against what
is there and give up on what has changed.

| variable | code |
|---|---|
| `sessions`, `tombs`, `rollups`, `receipts` | `sessions`, `session_tombstones`, `session_rollups_v2`, `crosspoint_session_receipts` |
| `ops`, `nextSeq` | kosync positions as inference reads them, with `inferred_session_id` as `stamp` |
| `measured`, `zone` | `kosync_devices.measured_sessions_from`, `users.timezone` |
| `job` | local variables of `materializeOnce` and `rollupSessionsOnce` |
| `accepted`, `answered`, `dropped` | history |

A total is a count of sessions: the other columns are sums over the same
sessions. `Gap <= Late` is an assumption (`SessionsAssumption`): `config.Validate`
refuses other settings. `InputsAssumption` says what the two handlers let through:
a native batch names editions only and has no origin of its own, and an event
names an alias. `dropped` remembers what was deleted with its work, so that
`CountedOnce` can say that nothing else is missing. Repeated requests that change nothing are not actions; `Judge` and
`Receipt` say how they would be answered, and the properties speak about that.

`CountedOnce`: every accepted session is a row or a tombstone, never both, unless
its work was deleted, and the totals are exactly the tombstones behind them, on
the day of the zone they were archived in. `PositionsDrawnOnce`: a position is
in one inferred session. `EvidenceFollowsIdentity`: sessions, positions and
receipts are in the work their identifier leads to. `EventsAnsweredOnce`: an
event keeps its answer. `BacklogClears`: all that is due is in the end inferred
and archived.

`Sessions_count` (588 thousand states): a native batch of two, an event with two
payloads, a position, two zones that differ by an amount that changes the day,
pages of one; a session can be uploaded, moved, archived in a page read before
the move, retried, and its work deleted. Fairness: weak on the materializer, which
the ticker runs for as long as the server does.

## 6. Mirror

One account and one book against several peers (`internal/mirror/sync.go`,
ADR-0047, ADR-0048). Each peer's worker goes through a pass: `Ask`, `Settle` under
the account's lock, `Push` after letting it go, and the saving of its cursor, each
a step. A peer is another program: a kosync server may stamp a write with its
own clock and drop its device, a BookOrbit peer speaks places with a CFI. Answers
are lost, a write that timed out arrives later, the process stops anywhere and
loses what `worker` holds, and a mirror's address is pointed at another library.

A position carries the reading it came from, which no code looks at; that is
what lets the properties say that one came back, and `given` is every row a
library has held. `ReturnsAreBounded`: at most one duplicate for each write a peer
holds and nobody recorded: no loop of peers that restamp one another makes more.
`NothingWithheld`: a worker that does not send the newest position again has a
reason: the library its address leads to answers with a reset, or has held what
covers that position (the reading itself, one at least as new, or one that says
the same). It speaks of what the library has held and not of what it holds,
because the worker's answer is of an earlier moment. The peer may be read in
again after it answered, and a client may then upload just the place of that
older answer; `Settle` reads the newest position under the lock, finds the two in
agreement and writes off what the library, which has moved on, no longer holds.
`NewestPeerWins`: whichever order the peers answer in, one peer's position gives
way to a newer one only. `Converges`: once nobody reads, every position reached
every peer or was settled with it.

`Mirror_peers` (1.9 million states) runs four bounded parts of one instance
(`MCMirror` extends `Mirror`, so its properties are the ones the proofs are
about): a peer that restamps with writes arriving late; two of them that could
pass one reading round, after one upload; resets, late uploads and a moved
address; two peers read in at once, after one upload. The process may stop in all but the last.
`Delivery_live` (section 11) has two peers and a lost answer under
`PassesContinue`: weak fairness of what a worker does on its own, which the
runner's ticker gives, and strong fairness of a peer that answers and takes what
it is sent now and then. Two or three readings suffice for one to be superseded
while another is on its way back.

## 7. Watcher and Catalog

`Watcher` is `internal/content/watch.go` with the folder handlers of
`adminfolders.go`: the disk and the kernel's queue of events, the goroutine that
turns events into signals and watches new directories, the loop that debounces
signals and makes its periodic round, request handlers that add, remove and scan
folders, and the command line's passes. Walks and passes go directory by
directory, so that every change falls between any two of their steps. A pass
reads its root, then what each directory listed (`scan.go`). What it listed and no
longer finds makes it incomplete: it may then add what it read, and concludes of
nothing else that it is gone (`Outcomes`). A root that is not there makes it fail,
and nothing is written (`RootGone`, `ErrRootUnavailable`): the catalog of an
unmounted folder stays as it was.

`NoLostChange`: a change of a folder that is not on the periodic pass alone is in
the catalog, in a pass that has read it, or has a pass on its way.
`RemovedStaysEmpty`: nothing of a removed folder comes back, whatever pass was
reading it. `CatalogFollowsDisk` is a refinement: what the catalog shows of each
directory implements `Follower`, a copy that never shows what was not there,
never goes back, and comes to show its source once that rests and can be reached
for good. The mapping reads the directory's version as the source, the catalog's
version as the copy, and the root's being there as `reached`. Its liveness holds
under the loop's own weak fairness and strong fairness of its getting
`reconcileMu`, whatever events were dropped, because of the periodic round.
`Watcher_disk` (722 thousand states) has four scenarios, told apart by `happens`:
`change`, events and requested scans of a folder with a directory in it;
`folders`, two folders of one root added and removed, with a restart and the
command line; `share`, two folders on one channel of one signal, whose roots
change, come late or go, and a pass that fails; `return`, a folder with a
directory in it, of which both go and come back, the directory up to twice, so that a
pass reads it before it goes, while it is gone, and after `watchedDirs` has
stopped being right about it. The last two are under fairness. `Within` bounds
how often a directory changes: once in `folders`, twice in `change` and `share`,
and in `return` three times for the root and five times in all.

`Catalog` is what a pass makes of what it saw (`pass.go`, `calibre.go`,
`sqlite/reconcile.go`): the listing, the reading of what changed, one transaction
that writes it, and the works and mappings that follow a book. A plain folder
knows a book by its path, a Calibre library by its number. `UntouchedBookStays`:
a file that stayed as the catalog last read it, and a book that stayed as the pass
listed it and was not found to be another, keeps its row, and so its readers:
unmounted, half read, moved where another book was. `ReadingSurvives`: no pass and no deletion
takes a work that somebody read or another book belongs to. `NewBytesAreNamed`:
the new bytes of a book somebody reads name a work. `Catalog_passes` (646
thousand states with the scenario of `Series` below, deadlock checked) has a Calibre library, a plain folder whose
missing books are deleted, and a folder that is uploaded to and removed from
between the steps of a pass; two files, two contents, two works and two changes
of a file let two books swap, replace and return. An upload to a plain folder asks
for a free name only, so it may land where the catalog still has the row of a file
that is gone; a Calibre library gives it a number of its own (`Ingest`). One pass is under way at a time
there (`MCNext`); what two at once may do is in section 14.

Left out of `Catalog`: aliases other than of the whole file, works that are
pending, the audiobook pass, relations other than series, and bytes that change without
size or time (section 14).

`Series` is what becomes of the shelves: `tags` is what each book's file says,
`onShelf` what the last pass made of it, `claims` and `items` where readers put a
book instead, `bindings` what merges and splits left so that the next pass does
not undo them. `ShelvesHold`: whatever was merged, split, undone, deleted or
brought back, a book is on the shelf that its name means now, so that a pass
moves nothing back. Two kinds of books are excepted, kept in history variables:
those freed by undoing a binding and not read since (`loose`), and those of
another shelf whose name was bound away (`pulled`), which is the finding of
`Series_split` (section 14). `ClaimsFollow`: a claim that puts a book somewhere
is emptied by its writer only; it follows its shelf through merges and splits,
and keeps a shelf that no folder names any more. In `Catalog_passes` it is a
scenario of its own with two folders, one of them a Calibre library. Left out:
positions in a series, the names readers give one, and stale claims. `MCCatalog`
extends `Series` and `Catalog`, the latter as a Calibre library, and instantiates
`Catalog` twice more for the plain folders.

## 8. Accounts, Pairing, ReaderTokens

Read from the PostgreSQL backend, where transactions run concurrently under READ
COMMITTED: a transaction begins, takes the role lock if its kind does, reads, and
writes and commits, and any other may commit in between. SQLite's write lock
allows a subset of these behaviours.

`Accounts`: `AnAdminRemains`, for demotions and disablings however many at once,
and `AdminTokensHaveAdmins`, for a grant that races a demotion. `Pairing`: two
updates of one code's row wait for each other as PostgreSQL makes them;
`RetryOfAPairedDevice` says that a device that was paired when it signed up again
is not refused for its spent code. `ReaderTokens`: minting lists, inserts and
reaps in three steps; `IdentityPersists` says that an identity that reading
history knows always keeps a token. All of these are proved (section 13).

`Accounts_credentials` (97 thousand states, symmetric in accounts, callers and
tabs) has the three as scenarios: two callers, two accounts and a token; four
sign-ups for two codes and two slots; two tabs and three tokens. Two callers
are what a race needs; a third adds only waiting.

`MCAccounts` extends the three; whichever is not at work rests in an initial
state. Left out: web login sessions, invites, rate limits, hashing, disabled
accounts in `Pairing`, and tokens somebody reshapes.

## 9. Annotations, Translations, SourceSessions

`Annotations`: push and delete as compare-and-set under the work-graph lock, the
sweep of tombstones, moves by splits and merges, deletion, and devices that push
again and page the feed, whose high water and rows are two reads. `AppliedOnce`
and `RetryAcknowledged` are about a retry whatever others wrote since, also after
the record started over at revision 1; `PulledIsCurrent` about a device whose
cursor is at the counter. `AppliedOnce` is what the run checks of a retry;
`RetryAcknowledged` is proved (section 13). The two scenarios of annotations are
bounded parts of one instance, as in `MCMirror`.

`Translations`: a stamp is a row's age and its place in the feed, so it must move
forward whatever the clock does; a push takes its stamp in one step and commits in
another. `NothingBehindTheCursor`: every row at or before a cursor is in that
device's copy with its text, through eviction, clears and merges.

`SourceSessions`: each report of a key is a session and the last revision counts;
an import reads the key's history and stores in a second transaction.
`LatestReportCounts`: a sitting counts as its source last described it.
`MCRecords` extends the three modules.

`Records_sync` (1.57 million states, symmetric in devices and ids): two devices
on one record with three writes of which each may be sent twice; two records in
two works with pages of one; two works' caches under a budget with a clock that
steps back; a koplugin row and a sitting with two revisions each and a work to
spare for each split.

## 10. The Audiobookshelf client

`AudiobookPositions` (`sync.go`): one book and its recording. A pass fetches, pulls
or pushes, closes the open player, writes, reads back and saves its cursor, each a
step; clients upload, the player listens and works are merged in between, calls
fail and the process stops. `NothingPassedOver`: what the cursor counts as seen
is a place of the log, in particular what is listened to between a push and its
readback. `ComeToAgree`: when the reader stops, both sides show one place, where
the mapping lets them.

`AudiobookLinks` (`service.go`): links made by passes or by the reader, paused,
revalidated, confirmed, rejected and carried by the work graph.
`NothingUnconfirmed`: an active link is on an alignment that was of full
confidence when it was made or that the reader confirmed. `LinksSettle`: when
nothing changes, each link that can be is on the current bytes and active.

`AudiobookSessions` (`sessions.go`): the paged import down to a watermark less an
overlap, with devices whose clocks differ. `NothingMissed`: no session of the
peer lies below the next boundary without having been imported. `Clocks` is
what the assumption of the overlap says: no device is late by more than it.

`Audiobooks_follow` (1.15 million states) has seven scenarios of one instance,
listed in `MCAudiobooks`, which extends the three modules: positions with a late
upload, with everything that fails, and of a recording of the last part
(`recording` is chosen from `Recordings` at the start and stays); links that
change, and works that change under them; an import in pages, and one with
deletions. Fairness: passes begin again and whoever holds the gate goes on. Left
out: the active-days option, the precision of a locator against a percentage, the
tolerance of one second; `BeginPass` reads links and items at once; matching by
title and author is the constant `MatchOf`; proposals of speech to text. Sessions
deleted at the peer between two pages do refute `NothingMissed` (section 14): the
scenario with pages has none, and the one with deletions has one page. The theorem
says the same as `Steady`.

## 11. Outbox

The browser's durable queue (`offline-storage.js`) and its drain
(`offline-sync.js`), with the questions a conflict puts to the reader
(`reader-app.js`). All tabs of a browser are one device; the lock of the queue
makes them drain in turns, and a transaction of the store or a request is an
action. Page turns and edits are queued at any step of a drain, also with a
revision the tab read before; a closed tab or a failed request leaves what was
stored, and its request may arrive all the same.

`PagesInOrder`: the server takes the pages of a book in the order they were
turned, but for one sent again without its locator. `QueueDrains`: what is queued
is in the end delivered or put to the reader, and stays so (`<>[]`), but for what
is `Behind` an annotation's change that the server refused.

The server refuses an annotation that is too large, and one more live annotation
of a work that is full or gone (`NoteAnswer`, `annotations.go:138-153`). Its record
is `failed` then and still counts as attempted, so a mutation queued while it was on
its way waits behind it (`offline-storage.js:961`) until the reader answers the
panel: `Retry` makes it pending anew, `Discard` drops it, and with it a copy
that was of this very change, or has the copy read again from the server
(`Reread`, `Restore`), which another change of the note forestalls. A mutation queued
after the refusal replaces the refused one, and needs no answer.

A drain takes the records of its list by creation, so the list is a set of
numbers of which the least is next. What the server accepted stays in `log` when
the work goes (`gone`), since the order is about what was accepted.
`Delivery_live` (306 thousand states, with a scenario of `Mirror`, which
`MCDelivery` instantiates while it extends `Outbox`) has one tab, three changes, one
fault and one event of another device, in two scenarios: `queue`, where a book is
read and a note of another work edited, enough for a change to wait behind one in
doubt, to be rebased, and to conflict, and where the book goes only while a page
turn is on its way; and `refusals`, a note alone, too large or of a work that is
full or goes, which is retried or given up while other changes of it wait. A retry
counts as the fault. Fairness: a tab is opened
again, the retry ladder of `syncCoordinator` starts a drain, and a drain and the
reader's answers go on, all weak: with one tab the lock is free when it is
asked for. Left out: sittings, the reading state beside the queue, change of account,
downloads; the panel's list (the reader answers what is refused at that moment);
annotations that a merge or split moved to another work, and so the revision of
one work quoted for another; editions, which the browser does not send.

## 12. Checks in common

Runs with several components or instances are disjoint unions: a variable
`scenario` is chosen initially and never changes. Where a run checks a property
that is also proved, its MC module extends the component's module, and a scenario
only narrows what the component may do. A module that is reached by `INSTANCE`
states its assumption as a definition, which the MC module assumes of each
instance, and which the theorems have as their hypothesis.

Each property has a variant of one operation, kept beside it in its module and
called faulty there, that a plausible mistake in the code would amount to and
that breaks the property on the run's instance.

`CHECK_DEADLOCK FALSE` is in those configurations where the bounds (on clocks,
numbers, works, writes or faults) end every behaviour, or where the program may
rest for good.

## 13. What is proved

Everything here holds for every value of the constants, the bounds on clocks,
numbers and faults included, that satisfies the module's named assumptions
(`ConstantsAssumption`, `HubAssumption`, `OutboxAssumption`, `SessionsAssumption`,
`InputsAssumption`, `NobodyAssumption`, `PairingAssumption`, `ReaderAssumption`,
`SeriesAssumption`, `WatcherAssumption`, `CatalogAssumption`, `AnnotationsAssumption`, `TranslationsAssumption`,
`SourceAssumption`, `MirrorAssumption`, `AudiobookAssumption`, `LinksAssumption`, and
the `SessionsAssumption` of the audiobooks; TLC evaluates each on its instances). Most of what they say is that bounds are natural numbers and that a
`None` or `Absent` is none of the things it stands apart from; `WatcherAssumption` also
has that a root is its own parent, since what lies over a folder is not modelled. Every inductive invariant
(`IInv`, or one named after its component where a proof module has several)
begins with the component's types, and one lemma per action shows that the action
keeps it. TLC checked each on a small instance before it was proved.

`SyncLogProofs`: `TypeCorrect`, `FeedHasNoSilentGap`, `CaughtUpKnowsHeads`,
`ForgettingIsFinal`, `NumbersNeverReused`, all from `Invariant`
(`Spec => []IInv`). `NoSilentGap` alone is not inductive: a page is correct only
for the log of the moment it was read. `PagesComplete` and `RepliesHoldHeads` say
of every reply in flight what `NoSilentGap` and `HeadsKnown` will need of the
client once it is applied; `SplitsSeen` makes "no split since" comparable.
`BelowCounter` keeps whatever was numbered, and every cursor, below the counter;
`SeqsUnique`, `OpsHaveWorks` and `HorizonCovers` (the horizon is at or above
every compacted number) are what the operations rely on. For forgotten peaks,
`ForgottenUnderFloor` says that whatever is hidden and still stored is at or
below the floor of the work it is in now; a merge takes the higher floor and a
split inherits it. The step case is proved in two halves: each server operation
preserves `ServerInv` and satisfies `ServerEffect`, the one fact about the log
that the clients' half (`ClientInv`) needs of it.

`BrowserProofs` is about both ends of an open page, `LiveHub` and `Outbox`. Of the
hub: `HubTypeCorrect`, `NothingIsLost`, `NobodyOversleeps`,
`RevocationEndsStreams`, from `HubInvariant`. The strengthening is small: what is
stale is within the token's scopes (`StaleAllowed`), what was drained is held
only between taking it and sending it (`TakenHeld`), and a frame sent late means
a revoked credential and no second one cleared (`LateIsLast`). `NobodyOversleeps`
is about `WakeUpComes`: a pending topic has a poke set or coming.

Of the outbox: `OutboxTypeCorrect` and `PagesArriveInOrder`, from
`OutboxInvariant`. A page turn that the server has yet to take waits (`Waiting`); a
later one of its book is launched once the server took it or a request for it may
arrive (`Launched`). `NoneOvertakes` says that no later one is launched while one
waits, unless that one was cut short. It holds when a request is sent because of
`InTurn`, which speaks of the drain under way: of an earlier and a later record of
one book the earlier is before it on the list, or holds the book back, or is the
one being sent. It holds after a failure because what was asked and not taken
still waits (`AskedIsKnown`): a record leaves the store only with an answer, and an
answer comes after the server took the page (`Answered`).

`SessionsProofs`: `SessionsTyped`, `SessionsCountedOnce`, `SessionsDrawnOnce`,
`SessionsFollowIdentity`, `SessionsAnswerAgain` and, as an action property,
`StoredIdsStay` (an id leaves rows and tombstones with its work only), all from
`SessionsInvariant`. The materializer's job may be as old as it likes; what
makes its write safe is what the write checks, so little needs to be said of the
job: that each group is of one device, work and identifier (`GroupsUniform`). Of the
tables it needs that a tombstone is on the day it was counted on, whatever zone
came since (`TombsKeep`; with `FiniteTables`, since totals are cardinalities),
and that a receipt that stored still has its session (`ReceiptsBacked`). That no
position begins two sessions rests on an order: positions are numbered as their
times go (`PositionsOrdered`), a drawn one lies within its session (`DrawnSpanned`),
and the one a session is named after was drawn into it (`BeginningsDrawn`), so
that a second session of that name would have to draw it again. The history
`dropped` was wrong at first, which the attempt to prove `CountedOnce` showed: an
id that had gone with its work and was stored again by inference stayed in it.

`MirrorProofs`: `ReturnsBounded`, `NothingIsWithheld`, `NewestPeer` and
`NoEchoOfTheRecorded` (while no write that reached a peer went unrecorded, no
reading is in the log twice), from `MirrorInvariant`. The first is an account. A
threat is a row of a peer, or an answer about to be settled, that would append a
reading the log has. `Accounted`: duplicates and threats together never exceed
the unrecorded writes. A row that was pushed is no threat while its worker
remembers its mark or will, which needs `MarkKept` and `ResetsTold`; where that
memory is lost, the write counts as unrecorded and pays for it. That two
peers cannot threaten with one reading unless it is in the log is `OneOrigin`.
For `NewestPeer`, `OneTakes`: the lock is held from the reading of the newest position to
the append, so only a client's upload can come between. For `NothingIsWithheld`,
what a worker carries is about the library its address leads to (`Addressed`), what it
was told was held there (`RowsAreGiven`), and the number it is about to save is
covered (`CoveredHere`). The hard case is a newest position that came from this
very peer, which is not sent back to it: after its address was changed it came
from elsewhere, and `FromElsewhere` says that then nothing has crossed with the
new library (`Untouched`), so that its cursor counts as fresh.

`CredentialsProofs`, of roles: `TypesHold`, `AdminTokens`, `AdminRemains`. That an
administrator remains is not inductive: what was read before the write must still
hold when it commits. `LockHeld` says that a role transaction past its lock step
holds `adminRoleLockKey`, so it is alone; `DecisionHolds` that what a transaction
concluded from its reads (`StillAllowed`: others remain, the owner is an enabled
administrator) is still so. No other statement that may run in between takes an
administrator away.

Of pairing: `PairedDeviceIsRecognised`, from `KnownSlotStays` (the slot a device was
paired with is there, revoked or not) and `UnpairedWhenServed` (one that got past
the first look at the slots was revoked before, and its key is spent); and
`CodeMakesOneSlot`, that a code is the key of one slot at most, however many
sign-ups hold it.

Of browser tokens: `IdentityIsKept` and `ListsAreCovered`. A mint reaps by a list it
read before it inserted, and others reap meanwhile. `SeenIsKept`: of each identity
on such a list a token as new is kept. A reap spares the newest of an identity on
its own list, which may be stale, but what is newer than the list it cannot name;
and the identity it minted for has a token newer than the list (`OwnIsNewest`), so
nothing has to be spared there. Both rest on ids that only grow (`IdsAreOrdered`)
and that name one identity wherever they are seen (`IdNamesDevice`).

`LibraryProofs`, of series: `BooksOnTheirShelves`, `ClaimsAreFollowed`, and the action property
`PassesMoveNothing`, from `ShelvesInvariant`, whose parts beyond `ShelvesHold` are
types: a binding is unique per folder and name and leads to a series that exists.
The shelf that a name means is stated as a relation of a set of bindings (`Leads`),
so that each operation is one lemma about that set: what a merge redirects, what
an undoing frees, and what it leaves as it was. The delicate step is the
collection of empty series, whose bindings cascade: a series that a settled book's
name leads to has that book, so it is not empty (`Store` keeps it).

Of the watcher: `WatcherTypes`, `RemovedStays`, `NothingIsLost`, and the steps of
the refinement. `RemovedStays` needs that a pass which is to commit checks its
folder's row in the transaction that writes. `NothingIsLost` is not inductive by
far: a change is heard of only where a watch is, so the invariant says where
every directory is that nobody watches yet. `AllKnown`: it is known to
`watchedDirs`, or an event in the queue announces it or a directory over it
(`Announced`), or a walk has it or a directory over it still before it (`Comes`).
`RootKnown` and `Rooted` say that a folder is known from its root down, or being
walked, or warned about. Then `Reflects`: a pass is on its way or of no use
(`Excused`), or the one that runs has all of the tree behind it or before it
(`Sweeps`) and has read nothing that changed since, or none runs and the catalog
shows every directory as it is. A directory that goes from before a pass, which
leaves the pass incomplete, is announced in the queue, and so excused. The
property is about `Undisturbed` behaviours: one folder, with any tree up to two
levels below its root, any events, walks, restarts and requested scans, and no
failed pass. A handler that adds a folder again walks it without owing it a pass (`watch.go:161`),
several folders share a channel of signals, and a failed pass is made up for by
the periodic round only: there it is `CatalogFollowsDisk` that says what holds.

`CatalogFollows` is the initial states and steps of that refinement
(`Follower`'s `Steps`), for any folders, restarts and failures; its liveness
stays with TLC. The invariant is `GoesOn`: the catalog is never ahead of the disk
(`NotAhead`), and what a pass has read is no older than what the catalog shows
(`ReadSince`), since `reconcileMu` lets nobody write between a pass's reading and
its commit. The command line takes no mutex, so it is excluded, and a deleted
folder takes its rows along, so `CatalogFollows` excludes that too;
`CatalogNeverGoesBack` allows it, and says that nothing else takes the catalog back.

Of the catalog: `TablesStayWhole`, `NobodyLosesReading`, `RewrittenBooksAreNamed` and
`BooksStay`. The first three hold for any number of passes. `TablesStayWhole` is
`CatalogTypeOK` in every reachable state: no two books are at one path, and what
points at a book or a work points at one that is there. Its invariant (`OnePath`,
over the types of `CatalogTyped`) says that no two files, no two entries of one
listing and no two rows share a path, and that what a pass observed it observed at
the path it listed; at a commit a book keeps the path of its row only if no book
just written has taken it, and is parked otherwise at a place no file has (an
assumption on the constants: the code's prefix is one that no path begins with).
The next two follow step by step from `CatalogBase`: a commit collects only works
that nobody read and that no book maps, before it or after it, and a digest that a
rewritten book may not teach its work is one that another mapped book's work
answers to.
`BooksStay` relates a pass to a folder that changes under it, and takes most of the
proof. In `FolderFollows` every listing, row and observation carries the count of
changes it has seen: none is ahead of the file (`ListedSoFar`, `ReadBefore`), of one
count there is one content (`StatsTell`, `RowsAreRead`), a pass that concludes has
seen all of the folder or, unmounted, nothing of it (`SeesAll`), and the rows it
decided by are those it writes over (`KnowsRows`). The last needs that passes do
not overlap, so the theorem is about the behaviours in which no two passes of the
folder are under way at once (`[]Lone`); `reconcileMu` gives that to all but uploads
and the command line; with two passes `UntouchedBookStays` is false of the code (section 14, an upload
purged and added again).

`RecordsProofs`, of annotations: `AnnotationsTyped`, `AnnotationsPulled`, `AnnotationsApplyOnce`
and `AnnotationsAcknowledge`, from `AnnotationsInvariant`. A device meets two
orders: the account's counter, by which it pages, and the record's revision, by
which it takes a row for news. `NeverAhead` bounds a copy by the revision, and
`BehindIsKnown` says that the counter catches up with it: what lies at or before a
cursor the device has, because a high water is read before its rows and each
write and move takes a number of its own (`FeedOrdered`). `AppliedMovesOn`: an applied
write has moved its record beyond the base it quoted, so a retry does not meet that base
again; and a row is a tombstone just when its last write was a deletion
(`ContentHasAuthor`), by which a retry is recognised. All of it is about records that were
never removed (`reborn` has the others): after a sweep or a deleted work a
record starts at revision 1 again, and section 14 has what may happen then.

Of translations: `TranslationsTyped` and `TranslationsCursor`, from
`TranslationsInvariant`. The mark stands between what is there and what is coming:
rows and cursors are at or below it (`UnderMark`), the stamp an open push holds
between its two steps is above it, and one push is open at a time (`OpenPush`).
So nothing is ever written behind a cursor, whatever the clock shows. With
`OnWorks` and `OnePerKey` this is inductive. The theorems have `Seeded` as a
hypothesis, that the database had its mark from its first translation: without it
the property fails (section 14, stamps of an older database).

Of sessions with a source key: `SourceLatestCounts`, `SourceTogether`,
`SourceForeignKeys` and `SourceDeletedStays`, from `SourceInvariant`. That the last
revision is the last report must be kept while a report is decided upon in one
transaction and stored in another. `SittingsOrdered` has the revisions in the order
of the reports, and `RevisionsDistinct` leaves no ties. Which of a key's
revisions survive a deletion depends on where they are, so `SittingsTogether` says
that those of a sitting are on one file, and `ForeignKeys`, that a file takes its
sessions along through splits, merges and deletions; hence all are in one work and
go together, and `Ledger` has the deleted ones refused when they are reported again.

`AudiobooksProofs`, of places: `PlacesNothingPassedOver`, from `PlacesInvariant`. What
a pass has fetched is older than what the player shows, or the same (`RowGoesOn`), so
a pass that saves its cursor counts as seen what it put into the log or found
there (`PlacesSeen`, about the cursor that is stored and the one a pass carries).

Of links: `LinksTyped` and `LinksNothingUnconfirmed`, from `LinksInvariant`. An active
link is on an alignment somebody vouched for, and so is every copy of a link that
may be written back later: the snapshot of a pass (`PassRemembers`), and what the
holder of the gate is about to store (`JobRemembers`).

Of imported sessions: `FeedTypes` and `FeedNothingMissed`. What an import is still to
store is above any watermark it may leave, or in its hands, or on a page it has
not read (`ImportGoesOn`). That a page with fewer sessions than it may hold is the
last one is a counting argument (`PageIsFull`: places in the list against page
numbers). A watermark is what some clock has shown, and no clock is late by
more than the overlap (`DatesSeen`). The second theorem has `[][Steady]_gone` as a
hypothesis: nothing is deleted at the peer between two pages (section 14).

Only model-checked: all liveness (`CatchesUp`, `EveryChangeIsRead`,
`ShutdownEndsStreams`, `BacklogClears`, the liveness of `CatalogFollowsDisk`,
`ComeToAgree`, `LinksSettle`, `QueueDrains`, `Converges`), which under fairness is
beyond the prover's backends. `RetryOfAPairedDevice`, as the run has it, is proved
as `PairedDeviceIsRecognised` of the component.

## 14. Where the code and its documentation part

`SyncLog_resume` and `Series_split` show the first two; the others were found with TLC while the modules
were written, by checking the predicate named. Where a module defines that
predicate, it is kept there next to the weaker one that holds.

- **A snapshot that cannot be resumed** (`sqlite/ops.go:342`, `SnapshotResumes`).
  `GET /v1/heads` reports the greatest number still stored. Compaction, then the
  deletion of the work with all newer positions, leaves it below the horizon, and
  `GET /v1/changes` answers 410 to the cursor that the documentation says to take,
  until somebody writes. The greater of maximum and horizon would avoid it.
- **A split that takes other books along** (`seriesmerge.go:268`, `store.go:1903-1905`,
  `NextPassAgrees`). `foldedNamesTx` takes the names of every binding of the series,
  whichever folder it is for. After another folder's books of some name were split
  onto this shelf, splitting this folder off binds that name here too, and the next
  pass moves this folder's books of that name from a shelf nobody touched.
- **A binding collected with its series** (`schema.go:442`, ADR-0021,
  `BindingsStay`). "Never garbage-collected", but the row of a series without books
  and claims is (`reconcile.go:280-302`), and its bindings cascade.
- **An undoing without effect** (`webui/series.go:560`, `NextScanPutsBack`). The
  next scan of a plain folder reads only what changed, so books stay where the
  binding had put them.
- **A replay after deletion** (`ops.go:76-79`, `DuplicateOutlivesWork`). A
  duplicate is said to stay one after its work was deleted; the row it is
  recognised by goes with the work.
- **A re-upload after a merge** (`sessions.go:13-19`, `:163`, `ReuploadIsSkipped`).
  The stored row names another work by then, and the retry is refused as an id
  reused.
- **A bare page after a newer one** (`offline-sync.js:109-117`, `PagesInOrder`
  without its exception). A page refused for its locator is stored without it
  and its book's next page is sent at once; the bare page follows in the next
  drain and is the server's newest. The comment at `:71` warns of exactly this.
- **One's own earlier words** (`reader-app.js:1907`). An edit made from a revision
  the tab read before its own earlier edit was acknowledged conflicts with that
  edit, and the reader is told that the note changed elsewhere.
- **Echo of a lost answer** (`mirror/sync.go:225`, ADR-0047:84-87, `NoEcho`). The
  place of a push is remembered only after its answer was saved; without it, a
  restamping peer's echo of a superseded position is appended as the newest.
- **A later reading displaced** (`mirror/sync.go:262`, `:386`,
  `docs/deployment.md:830`, `NewestWins`). The newest position is read and the
  peer's appended in two transactions; an upload falls between them.
- **A directory made again** (`watch.go:224`, `NewDirectoryIsWatched`). A deleted
  directory stays in `watchedDirs`; made again, it is taken for watched. The
  periodic round still reads it.
- **Signals of another folder dropped** (`watch.go:297`, `DroppedOnlyWhenPending`).
  The channel is shared, so it may be full of other folders' signals.
- **Watches lost at a handover** (`watch.go:183`, `UnwatchedIsWarned`). `Remove`
  drops watches after it let the lock go; a folder added on the same root in
  between loses them without the warning.
- **An upload purged and added again** (`ingest.go:193`, `:221`,
  `UntouchedBookStays` with two passes). A pass begun before an upload to a Calibre
  library may commit after the upload's own.
- **A row without a description** (`reconcile.go:194`, `pass.go:168`,
  `RowsAreDescribed`). A row deleted between the listing and the commit is
  inserted anew as an unchanged book with no title.
- **A digest that names nothing** (`reconcile.go:181`, `:577`, `NextSyncMatches`).
  One pass purges a book and finds its bytes in another.
- **Same size and time** (`pass.go:158-162`). There is no full re-read of a plain
  folder.
- **A retry refused** (`kosync.go:123`, `PairedIsNeverRefused`). The look-up is
  outside the transaction that pairs.
- **Two identities of one reader** (`auth/service.go:205`, `:223`,
  `readerorigin.go:85`, `OneIdentity`). The first two tabs both find no token.
- **A cap exceeded** (`annotations.go:373`, ADR-0028:93-97, `CapHolds`). A merge
  moves annotations without counting.
- **An annotation applied twice** (`annotations.go:118-121`, `NeverAppliedTwice`).
  Revisions restart at 1, and a late retry of what restarted the record may meet
  the base it quotes.
- **Stamps of an older database** (`translations.go:35-48`, `NothingBehindTheCursor`
  with `Seeded` false). The mark is seeded by the first push only.
- **A rejection that does not hold** (`audiobookshelf/sync.go:319`,
  ADR-0055:61-62, `RejectedStays`), and **an edition of another work**
  (`service.go:266`, ADR-0055:60, `EditionOnItsWork`). A merge or split falls
  between what a pass read and the link it stores.
- **A place that comes back** (`audiobookshelf/sync.go:133`, `:191`, `:196`,
  ADR-0055:76-77, `NeverOurOwn`). After a failed readback or a stop, once the
  reader moved on with an earlier timestamp than the write's.
- **Newest hidden** (`audiobookshelf/sync.go:164`, ADR-0055:111, `NewestWins`). The
  recheck and the append are two calls.
- **A session skipped** (`audiobookshelf/sessions.go:40`, ADR-0055:129-133,
  `NothingMissed`). A session deleted between two pages shifts the next onto the
  page already read.

## 15. Not modelled, and why

- File formats (EPUB, M4B, XPointer, metadata), covers and caches, rendering:
  parsing, file I/O and layout, without an order of events to get wrong.
- Audio alignment and speech to text: numerical; the links and places of the
  client take their result as given.
- Configuration and command line: its one constraint that matters is an assumption
  of `Sessions`; its passes are in `Watcher`.
- Insights and search: computed from one snapshot; candidates
  for pure operators (section 2).
- Device and account settings: last write per key in one statement.
- Of the components that are partly modelled, what is left out is with each
  module above and in the component's note in `PROJECT.json`.

## 16. Running

    tlc -workers 2 -config SyncLog_feed.cfg MCSyncLog
    tlapm SyncLogProofs.tla

`PROJECT.json` names each run's module and configuration, the properties and
their faulty variants, and maps every definition to the lines it stands for.
