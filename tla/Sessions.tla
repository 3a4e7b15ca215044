------------------------------ MODULE Sessions ------------------------------
(***************************************************************************)
(* One account's reading sessions: how they get in, and how the hourly     *)
(* materializer infers and archives them.                                  *)
(*                                                                         *)
(* A session is a fact that must be counted once.  It arrives in a native  *)
(* batch (POST /v1/sessions), as a CrossPoint event                        *)
(* (POST /adapter/kosync/sessions), or is inferred from the positions of a *)
(* kosync device that measures nothing.  Past the retention window it is   *)
(* folded into a daily total and leaves a tombstone.  All the while works  *)
(* are merged, split and deleted underneath, and clients retry.            *)
(*                                                                         *)
(* Store operations are transactions under the account's lock.  The        *)
(* materializer (internal/api/materializer.go) reads in one transaction    *)
(* and writes in another: job is what it holds in between.                 *)
(* Sessions with a source_key (koplugin, Audiobookshelf) are never         *)
(* archived and are not modelled here.                                     *)
(***************************************************************************)
EXTENDS Integers, FiniteSets

CONSTANTS
  Works, Editions, Aliases,
  Devices,        \* kosync device slots
  Batches,        \* the POST /v1/sessions bodies that may arrive, as sets
  Events,         \* the reader.session events that may arrive
  Deletable,      \* works no catalog book maps
  Zones, Offset,  \* time zones and their offsets in ticks
  DayLength,
  Gap,            \* ops.inference_gap_min
  Late,           \* ops.inference_late_hours
  Retention,      \* ops.retention_days
  BatchSize,      \* rollupBatchSize
  Skew,           \* how far ahead of the server an event may be
  MaxOps,         \* bound: kosync ops
  MaxZoneChanges, \* bound: PUT /v1/me timezone
  MaxTick,        \* bound: the clock
  NoWork, NoOwner, NoSession

Idents == Editions \cup Aliases
Never == MaxTick + 1

ASSUME SessionsAssumption ==
  /\ DayLength \in Nat \ {0} /\ Gap \in Nat \ {0} /\ Late \in Nat \ {0} /\ Retention \in Nat \ {0}
  /\ Gap <= Late                       \* refused by config.Validate otherwise
  /\ BatchSize \in Nat \ {0} /\ Skew \in Nat /\ MaxOps \in Nat /\ MaxZoneChanges \in Nat /\ MaxTick \in Nat
  /\ Offset \in [Zones -> Nat] /\ Zones # {}
  /\ Deletable \subseteq Works
  /\ NoWork \notin Works /\ NoOwner \notin Idents /\ Editions \cap Aliases = {}

(* Rows. A session that was uploaded has the client's id, an event that of  *)
(* its slot and event, an inferred one that of the position it begins with. *)
EventIds == {e.id : e \in Events}
SessionIds == {s.id : s \in UNION Batches} \cup (Devices \X EventIds) \cup (Works \X Devices \X Nat)
Session ==
  [id : SessionIds, work : Works, dev : Devices \cup {s.dev : s \in UNION Batches},
   own : Idents \cup {NoOwner}, from : Nat, to : Nat, origin : {"native", "kosync", "inferred"}]
Tombstone ==
  [id : SessionIds, fp : Session, work : Works, day : Int, zone : Zones, present : BOOLEAN]
EventReceipt ==
  [dev : Devices, event : EventIds, hash : {e.hash : e \in Events}, outcome : {"stored", "ignored"},
   work : Works \cup {NoWork}, session : SessionIds \cup {NoSession}]
Position ==
  [seq : Nat, work : Works, dev : Devices, own : Aliases, at : Nat,
   stamp : SessionIds \cup {NoSession}]

(* POST /v1/sessions names an edition or nothing, and never an origin.     *)
ASSUME InputsAssumption ==
  /\ \A batch \in Batches :
       /\ IsFiniteSet(batch) /\ batch \subseteq Session
       /\ \A s \in batch : s.origin = "native" /\ s.own \notin Aliases
  /\ \A e \in Events : e.alias \in Aliases /\ e.from \in Nat /\ e.to \in Nat
  /\ NoSession \notin SessionIds

VARIABLES
  works, born,  \* works that exist, that ever existed
  owner,        \* identifier -> work, or NoWork
  sessions,     \* the sessions table
  tombs,        \* session_tombstones
  rollups,      \* session_rollups_v2: bucket -> session_count
  receipts,     \* crosspoint_session_receipts
  ops,          \* the kosync positions, as far as inference reads them
  nextSeq,      \* seq of the next op
  measured,     \* kosync_devices.measured_sessions_from
  zone,         \* users.timezone
  zoneChanges,
  now,
  job,          \* what the materializer has read and not yet applied
  \* History, read by the properties only.
  accepted,     \* sessions as they were when stored
  answered,     \* events answered, and how
  dropped       \* ids of live sessions deleted with their work

graphVars == <<works, born, owner>>
storeVars == <<sessions, tombs, rollups, receipts>>
kosyncVars == <<ops, nextSeq, measured>>
clockVars == <<zone, zoneChanges, now>>
historyVars == <<accepted, answered, dropped>>
vars == <<graphVars, storeVars, kosyncVars, clockVars, job, historyVars>>

NewWorks == IF born = Works THEN {} ELSE {CHOOSE w \in Works : w \notin born}

Day(t, z) == (t + Offset[z]) \div DayLength
Bucket(s, z) == [work |-> s.work, day |-> Day(s.to, z), zone |-> z]

Idle == [zone |-> CHOOSE z \in Zones : TRUE, doing |-> "idle", groups |-> {}, cut |-> 0, batch |-> {}]

Init ==
  /\ works = {} /\ born = {}
  /\ owner = [i \in Idents |-> NoWork]
  /\ sessions = {} /\ tombs = {} /\ receipts = {}
  /\ rollups = [b \in {} |-> 0]
  /\ ops = {} /\ nextSeq = 1 /\ measured = [d \in Devices |-> Never]
  /\ zone \in Zones /\ zoneChanges = 0 /\ now = 0
  /\ job = Idle
  /\ accepted = {} /\ answered = {} /\ dropped = {}

(***************************************************************************)
(* Uploads.                                                                *)
(***************************************************************************)
Live(id) == {s \in sessions : s.id = id}
Tomb(id) == {t \in tombs : t.id = id}

(* One item of appendSessionsTx: a replay is judged before the work is     *)
(* looked up, against the archived payload or the stored one.              *)
Judge(s) ==
  IF Tomb(s.id) # {} THEN IF \E t \in Tomb(s.id) : t.fp = s THEN "duplicate" ELSE "mismatch"
  ELSE IF Live(s.id) # {} THEN IF s \in sessions THEN "duplicate" ELSE "mismatch"
  ELSE IF s.work \in works THEN "new" ELSE "unknown_work"

EditionAgrees(s) == s.own \in Editions => owner[s.own] = s.work

(* POST /v1/sessions: one refused item refuses the batch.                  *)
AppendSessions(batch) ==
  LET fresh == {s \in batch : Judge(s) = "new"}
  IN /\ fresh # {}
     /\ \A s \in batch : Judge(s) \in {"new", "duplicate"}
     /\ \A s, t \in batch : s.id = t.id => s = t
     /\ \A s \in fresh : EditionAgrees(s)
     /\ sessions' = sessions \cup fresh
     /\ accepted' = accepted \cup fresh
     /\ dropped' = dropped \ {s.id : s \in fresh}
     /\ UNCHANGED <<graphVars, tombs, rollups, receipts, kosyncVars, clockVars, job, answered>>

Receipt(d, e) == {r \in receipts : r.dev = d /\ r.event = e.id}

EventSession(d, e, w, own) ==
  [id |-> <<d, e.id>>, work |-> w, dev |-> d, own |-> own, from |-> e.from, to |-> e.to,
   origin |-> "kosync"]

(* Only a first delivery changes anything: a repeated event is answered    *)
(* from its receipt, and another payload under its id is refused.          *)
FirstDelivery(d, e) == measured[d] # Never /\ Receipt(d, e) = {} /\ e.to <= now + Skew

(* An event that started before the device was measured: acknowledged, and *)
(* remembered.                                                             *)
IgnoreKosyncSession(d, e) ==
  /\ FirstDelivery(d, e)
  /\ e.from < measured[d]
  /\ receipts' = receipts \cup {[dev |-> d, event |-> e.id, hash |-> e.hash, outcome |-> "ignored",
                                 work |-> NoWork, session |-> NoSession]}
  /\ answered' = answered \cup {[dev |-> d, event |-> e, outcome |-> "ignored"]}
  /\ UNCHANGED <<graphVars, sessions, tombs, rollups, kosyncVars, clockVars, job, accepted, dropped>>

(* An event that counts.  Its work is created if need be; its edition is   *)
(* the one the catalog knows for the digest, if this work has it.          *)
StoreKosyncSession(d, e) ==
  /\ FirstDelivery(d, e)
  /\ e.from >= measured[d]
  /\ \E w \in IF owner[e.alias] # NoWork THEN {owner[e.alias]} ELSE NewWorks :
       \E own \in {e.alias} \cup {i \in Editions : owner[i] = w} :
         LET s == EventSession(d, e, w, own)
         IN /\ Judge(s) # "mismatch"
            /\ works' = works \cup {w} /\ born' = born \cup {w}
            /\ owner' = [owner EXCEPT ![e.alias] = w]
            /\ sessions' = IF Tomb(s.id) = {} THEN sessions \cup {s} ELSE sessions
            /\ accepted' = accepted \cup {s}
            /\ receipts' = receipts \cup {[dev |-> d, event |-> e.id, hash |-> e.hash,
                                           outcome |-> "stored", work |-> w, session |-> s.id]}
  /\ answered' = answered \cup {[dev |-> d, event |-> e, outcome |-> "stored"]}
  /\ dropped' = dropped \ {<<d, e.id>>}
  /\ UNCHANGED <<tombs, rollups, kosyncVars, clockVars, job>>

(* PUT /syncs/progress.                                                    *)
AppendKosyncOp(d, a) ==
  /\ nextSeq <= MaxOps
  /\ \E w \in IF owner[a] # NoWork THEN {owner[a]} ELSE NewWorks :
       /\ works' = works \cup {w} /\ born' = born \cup {w}
       /\ owner' = [owner EXCEPT ![a] = w]
       /\ ops' = ops \cup {[seq |-> nextSeq, work |-> w, dev |-> d, own |-> a,
                            at |-> now, stamp |-> NoSession]}
  /\ nextSeq' = nextSeq + 1
  /\ UNCHANGED <<storeVars, measured, clockVars, job, historyVars>>

EnableKosyncStatistics(d) ==
  /\ measured[d] = Never
  /\ measured' = [measured EXCEPT ![d] = now]
  /\ UNCHANGED <<graphVars, storeVars, ops, nextSeq, clockVars, job, historyVars>>

SetTimezone(z) ==
  /\ zone # z /\ zoneChanges < MaxZoneChanges
  /\ zone' = z /\ zoneChanges' = zoneChanges + 1
  /\ UNCHANGED <<graphVars, storeVars, kosyncVars, now, job, historyVars>>

Tick ==
  /\ now < MaxTick
  /\ now' = now + 1
  /\ UNCHANGED <<graphVars, storeVars, kosyncVars, zone, zoneChanges, job, historyVars>>

(***************************************************************************)
(* The work graph.                                                         *)
(***************************************************************************)
Resolve(ids) ==
  LET matched == {owner[i] : i \in ids} \ {NoWork}
  IN \E w \in IF matched = {} THEN NewWorks ELSE matched :
       /\ matched \subseteq {w}
       /\ owner' = [i \in Idents |-> IF i \in ids THEN w ELSE owner[i]]
       /\ works' = works \cup {w} /\ born' = born \cup {w}
       /\ UNCHANGED <<storeVars, kosyncVars, clockVars, job, historyVars>>

Archived(w) == \E b \in DOMAIN rollups : b.work = w

Moved(r, w, moving, into) == IF r.work = w /\ r.own \in moving THEN [r EXCEPT !.work = into] ELSE r

(* Totals cannot be divided between works, so archived history refuses a   *)
(* split; so would an inferred session without provenance, of which this   *)
(* version writes none.                                                    *)
SplitWork(w, e, listed, new) ==
  LET moving == {e} \cup listed
      after == {Moved(s, w, moving, new) : s \in sessions}
      moved == {s.id : s \in {t \in after : t.work = new}}
  IN /\ w \in works /\ new \in NewWorks
     /\ owner[e] = w /\ \A a \in listed : owner[a] = w
     /\ ~Archived(w)
     /\ works' = works \cup {new} /\ born' = born \cup {new}
     /\ owner' = [i \in Idents |-> IF i \in moving THEN new ELSE owner[i]]
     /\ ops' = {Moved(o, w, moving, new) : o \in ops}
     /\ sessions' = after
     /\ receipts' = {IF r.session \in moved THEN [r EXCEPT !.work = new] ELSE r : r \in receipts}
     /\ UNCHANGED <<tombs, rollups, nextSeq, measured, clockVars, job, historyVars>>

MergeWorks(from, into) ==
  /\ from \in works /\ into \in works /\ from # into
  /\ ~Archived(from)
  /\ works' = works \ {from}
  /\ owner' = [i \in Idents |-> IF owner[i] = from THEN into ELSE owner[i]]
  /\ ops' = {Moved(o, from, Idents \cup {NoOwner}, into) : o \in ops}
  /\ sessions' = {Moved(s, from, Idents \cup {NoOwner}, into) : s \in sessions}
  /\ receipts' = {IF r.work = from THEN [r EXCEPT !.work = into] ELSE r : r \in receipts}
  /\ UNCHANGED <<born, tombs, rollups, nextSeq, measured, clockVars, job, historyVars>>

(* A faulty variant, whose cascade takes every receipt of the work.        *)
DeleteWorkForgetting(w) ==
  LET lost == {s \in sessions : s.work = w}
  IN /\ w \in works \cap Deletable
     /\ works' = works \ {w}
     /\ owner' = [i \in Idents |-> IF owner[i] = w THEN NoWork ELSE owner[i]]
     /\ sessions' = sessions \ lost
     /\ dropped' = dropped \cup {s.id : s \in lost}
     /\ answered' = {x \in answered : <<x.dev, x.event.id>> \notin {s.id : s \in lost}}
     /\ ops' = {o \in ops : o.work # w}
     /\ tombs' = {IF t.work = w THEN [t EXCEPT !.present = FALSE] ELSE t : t \in tombs}
     /\ rollups' = [b \in {b \in DOMAIN rollups : b.work # w} |-> rollups[b]]
     /\ receipts' = {r \in receipts : r.work # w}
     /\ UNCHANGED <<born, nextSeq, measured, clockVars, job, accepted>>

(* The cascade takes the work's sessions, ops, rollups and receipts.       *)
(* Tombstones stay, marked absent, and so do the receipts of archived      *)
(* sessions.                                                               *)
DeleteWork(w) ==
  LET lost == {s \in sessions : s.work = w}
      kept == {r \in receipts : r.work # w \/ Tomb(r.session) # {}}
  IN /\ w \in works \cap Deletable
     /\ works' = works \ {w}
     /\ owner' = [i \in Idents |-> IF owner[i] = w THEN NoWork ELSE owner[i]]
     /\ sessions' = sessions \ lost
     /\ dropped' = dropped \cup {s.id : s \in lost}
     /\ answered' = {x \in answered : <<x.dev, x.event.id>> \notin {s.id : s \in lost}}
     /\ ops' = {o \in ops : o.work # w}
     /\ tombs' = {IF t.work = w THEN [t EXCEPT !.present = FALSE] ELSE t : t \in tombs}
     /\ rollups' = [b \in {b \in DOMAIN rollups : b.work # w} |-> rollups[b]]
     /\ receipts' = {IF r.work = w THEN [r EXCEPT !.work = NoWork] ELSE r : r \in kept}
     /\ UNCHANGED <<born, nextSeq, measured, clockVars, job, accepted>>

(***************************************************************************)
(* Inference.                                                              *)
(***************************************************************************)

Awaits(o) == o.stamp = NoSession /\ o.at < measured[o.dev]

(* o and p belong to one sitting: every op of their device and work from   *)
(* one to the other has their provenance and follows within the gap.       *)
Joined(o, p) ==
  LET between == {q \in ops : /\ Awaits(q) /\ q.dev = o.dev /\ q.work = o.work
                              /\ o.seq <= q.seq /\ q.seq <= p.seq}
  IN /\ {o, p} \subseteq between
     /\ \A q \in between : /\ q.own = o.own
                           /\ q = p \/ \E r \in between : q.seq < r.seq /\ r.at - q.at < Gap

Groups == {{p \in ops : Joined(o, p) \/ Joined(p, o)} : o \in {q \in ops : Awaits(q)}}

FirstOp(g) == CHOOSE o \in g : \A p \in g : o.seq <= p.seq
LastOp(g) == CHOOSE o \in g : \A p \in g : p.seq <= o.seq

(* A pass starts by reading the groups closed long enough ago.             *)
ReadPendingOps ==
  /\ job.doing = "idle"
  /\ job' = [job EXCEPT !.doing = "inferring", !.groups = {g \in Groups : LastOp(g).at < now - Late}]
  /\ UNCHANGED <<graphVars, storeVars, kosyncVars, clockVars, historyVars>>

Materialize(g) ==
  LET first == FirstOp(g) last == LastOp(g)
  IN [id |-> <<last.work, last.dev, first.seq>>, work |-> last.work, dev |-> last.dev,
      own |-> last.own, from |-> first.at, to |-> last.at, origin |-> "inferred"]

(* A faulty variant, that leaves the ops of the session unclaimed.         *)
AppendInferredUnclaimed(g) ==
  /\ job.doing = "inferring" /\ g \in job.groups
  /\ job' = [job EXCEPT !.groups = @ \ {g}]
  /\ LET s == Materialize(g)
     IN /\ Judge(s) = "new" /\ \A o \in g : o \in ops /\ Awaits(o)
        /\ sessions' = sessions \cup {s} /\ accepted' = accepted \cup {s}
        /\ dropped' = dropped \ {s.id}
  /\ UNCHANGED <<graphVars, tombs, rollups, receipts, kosyncVars, clockVars, answered>>

(* A faulty variant, that trusts the snapshot: it claims the ops by id,    *)
(* wherever they have moved since they were read.                          *)
AppendInferredStale(g) ==
  /\ job.doing = "inferring" /\ g \in job.groups
  /\ job' = [job EXCEPT !.groups = @ \ {g}]
  /\ LET s == Materialize(g)
     IN /\ Judge(s) = "new"
        /\ ops' = {IF \E p \in g : p.seq = o.seq THEN [o EXCEPT !.stamp = s.id] ELSE o : o \in ops}
        /\ sessions' = sessions \cup {s} /\ accepted' = accepted \cup {s}
        /\ dropped' = dropped \ {s.id}
  /\ UNCHANGED <<graphVars, tombs, rollups, receipts, nextSeq, measured, clockVars, answered>>

(* One group of the snapshot: applied if its ops are still as they were    *)
(* read, and otherwise left to the next pass.                              *)
AppendInferredSession(g) ==
  /\ job.doing = "inferring" /\ g \in job.groups
  /\ job' = [job EXCEPT !.groups = @ \ {g}]
  /\ LET s == Materialize(g)
     IN IF (\A o \in g : o \in ops /\ Awaits(o)) /\ Judge(s) \in {"new", "duplicate"}
        THEN /\ ops' = (ops \ g) \cup {[o EXCEPT !.stamp = s.id] : o \in g}
             /\ sessions' = IF Judge(s) = "new" THEN sessions \cup {s} ELSE sessions
             /\ accepted' = accepted \cup {s} /\ dropped' = dropped \ {s.id}
        ELSE UNCHANGED <<ops, sessions, accepted, dropped>>
  /\ UNCHANGED <<graphVars, tombs, rollups, receipts, nextSeq, measured, clockVars, answered>>

(***************************************************************************)
(* Archiving.                                                              *)
(***************************************************************************)

(* The account's zone is read once for all its batches.                    *)
StartRollup ==
  /\ job.doing = "inferring" /\ job.groups = {}
  /\ job' = [job EXCEPT !.doing = "reading", !.cut = now - Retention, !.zone = zone]
  /\ UNCHANGED <<graphVars, storeVars, kosyncVars, clockVars, historyVars>>

Ended(cut) == {s \in sessions : s.to < cut}

(* The oldest page; the pass ends when there is none.                      *)
ReadBatch ==
  /\ job.doing = "reading"
  /\ \/ /\ Ended(job.cut) = {}
        /\ job' = Idle
     \/ \E page \in SUBSET Ended(job.cut) :
          /\ page # {} /\ Cardinality(page) <= BatchSize
          /\ Cardinality(page) < BatchSize => page = Ended(job.cut)
          /\ \A s \in page, t \in Ended(job.cut) \ page : s.from <= t.from
          /\ job' = [job EXCEPT !.doing = "applying", !.batch = page]
  /\ UNCHANGED <<graphVars, storeVars, kosyncVars, clockVars, historyVars>>

InBucket(S, b) == {s \in S : Bucket(s, job.zone) = b}

(* The totals are added and the sessions replaced by their tombstones.     *)
Archive ==
  /\ LET touched == {Bucket(s, job.zone) : s \in job.batch}
     IN rollups' = [b \in DOMAIN rollups \cup touched |->
                      (IF b \in DOMAIN rollups THEN rollups[b] ELSE 0)
                        + Cardinality(InBucket(job.batch, b))]
  /\ tombs' = tombs \cup {[id |-> s.id, fp |-> s, work |-> s.work, day |-> Day(s.to, job.zone),
                           zone |-> job.zone, present |-> TRUE] : s \in job.batch}
  /\ sessions' = sessions \ job.batch
  /\ job' = [job EXCEPT !.doing = "reading", !.batch = {}]

Elsewhere == <<graphVars, receipts, kosyncVars, clockVars, historyVars>>

(* Faulty variants: one trusts its page, one holds on to it when refused.  *)
ApplyRollupsStale ==
  job.doing = "applying" /\ job.zone = zone /\ Archive /\ UNCHANGED Elsewhere
ApplyRollupsInsisting ==
  /\ job.doing = "applying" /\ job.zone = zone /\ job.batch \subseteq sessions
  /\ Archive /\ UNCHANGED Elsewhere

(* Archived only if the zone is still the account's and every session is   *)
(* as it was read; otherwise the pass ends and the next hour tries again.  *)
ApplyRollups ==
  /\ job.doing = "applying"
  /\ IF job.zone = zone /\ job.batch \subseteq sessions
     THEN Archive
     ELSE job' = Idle /\ UNCHANGED <<rollups, tombs, sessions>>
  /\ UNCHANGED Elsewhere

MaterializerStep ==
  \/ ReadPendingOps
  \/ \E g \in job.groups : AppendInferredSession(g)
  \/ StartRollup
  \/ ReadBatch
  \/ ApplyRollups

Next ==
  \/ \E batch \in Batches : AppendSessions(batch)
  \/ \E d \in Devices, e \in Events : IgnoreKosyncSession(d, e)
  \/ \E d \in Devices, e \in Events : StoreKosyncSession(d, e)
  \/ \E d \in Devices, a \in Aliases : AppendKosyncOp(d, a)
  \/ \E d \in Devices : EnableKosyncStatistics(d)
  \/ \E z \in Zones : SetTimezone(z)
  \/ Tick
  \/ \E ids \in (SUBSET Idents) \ {{}} : Resolve(ids)
  \/ \E w, new \in Works, e \in Editions, listed \in SUBSET Aliases : SplitWork(w, e, listed, new)
  \/ \E from, into \in Works : MergeWorks(from, into)
  \/ \E w \in Works : DeleteWork(w)
  \/ MaterializerStep

Spec == Init /\ [][Next]_vars

(* The server keeps running, and with it the hourly pass.                  *)
FairSpec == Spec /\ WF_vars(MaterializerStep)

-----------------------------------------------------------------------------
(* Properties.                                                             *)

Ids(S) == {r.id : r \in S}

StoredOnce ==
  /\ \A s, t \in sessions : s.id = t.id => s = t
  /\ \A s, t \in tombs : s.id = t.id => s = t
  /\ Ids(sessions) \cap Ids(tombs) = {}
  /\ Ids(accepted) \ dropped = Ids(sessions) \cup Ids(tombs)

Backing(b) ==
  {t \in tombs : t.present /\ t.fp.work = b.work /\ Day(t.fp.to, b.zone) = b.day /\ t.zone = b.zone}

TotalsExact ==
  /\ {[work |-> t.work, day |-> t.day, zone |-> t.zone] : t \in {u \in tombs : u.present}} = DOMAIN rollups
  /\ \A b \in DOMAIN rollups : rollups[b] = Cardinality(Backing(b))

(* Every session ever accepted is counted exactly once: as a row, or in a  *)
(* daily total through its tombstone, unless its work was deleted; and the *)
(* totals are exactly the tombstones behind them, each by the day it ended *)
(* in the zone it was archived under.                                      *)
CountedOnce == StoredOnce /\ TotalsExact

(* A position is drawn into one inferred session, which spans it; and no   *)
(* two inferred sessions begin at the same position.                       *)
Kept == sessions \cup {t.fp : t \in tombs}
Inferred == {s \in Kept : s.origin = "inferred"}
PositionsDrawnOnce ==
  /\ \A o \in ops : o.stamp # NoSession =>
       \E s \in Inferred : s.id = o.stamp /\ s.dev = o.dev /\ s.from <= o.at /\ o.at <= s.to
  /\ \A s, t \in Inferred : s # t => s.id[3] # t.id[3]

(* Wherever merges, splits and deletions have taken an identifier, what    *)
(* was recorded under it is in the same work.                              *)
EvidenceFollowsIdentity ==
  /\ \A r \in sessions \cup ops : r.work \in works /\ (r.own \in Idents => owner[r.own] = r.work)
  /\ \A t \in tombs : t.present => t.work \in works
  /\ \A r \in receipts, s \in sessions : r.session = s.id => r.work = s.work

(* "Durable per-slot event receipts preserve idempotency through rollup    *)
(* and work split/merge": an event answered once is answered the same      *)
(* again, unless its session was deleted with its work.                    *)
EventsAnsweredOnce ==
  \A x \in answered :
    \E r \in Receipt(x.dev, x.event) : r.outcome = x.outcome /\ r.hash = x.event.hash

(* The materializer gets through its backlog, whatever races it lost.      *)
BacklogClears ==
  <>[](/\ \A g \in Groups : LastOp(g).at >= now - Late
       /\ Ended(now - Retention) = {})

TypeOK ==
  /\ works \subseteq born /\ born \subseteq Works
  /\ owner \in [Idents -> works \cup {NoWork}]
  /\ sessions \subseteq Session /\ tombs \subseteq Tombstone
  /\ rollups \in [DOMAIN rollups -> Nat \ {0}]
  /\ receipts \subseteq EventReceipt
  /\ ops \subseteq Position /\ nextSeq \in Nat
  /\ \A o \in ops : o.seq < nextSeq /\ o.at <= now
  /\ measured \in [Devices -> Nat] /\ zone \in Zones /\ now \in Nat
  /\ job \in [zone : Zones, doing : {"idle", "inferring", "reading", "applying"},
               groups : SUBSET SUBSET Position, cut : Int, batch : SUBSET Session]
  /\ job.groups # {} => job.doing = "inferring"
  /\ job.batch # {} <=> job.doing = "applying"
  /\ Cardinality(job.batch) <= BatchSize
  /\ accepted \subseteq Session /\ dropped \subseteq SessionIds
  /\ answered \subseteq [dev : Devices, event : Events, outcome : {"stored", "ignored"}]

(* sqlite/sessions.go: "a duplicate stays a duplicate after its work is    *)
(* gone": every session stored once is skipped when its batch is retried,  *)
(* unless the session went with its work.                                  *)
ReuploadIsSkipped ==
  \A s \in accepted : s.origin = "native" /\ s.id \notin dropped => Judge(s) = "duplicate"
=============================================================================
