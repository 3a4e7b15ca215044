----------------------------- MODULE MCDelivery -----------------------------
(***************************************************************************)
(* What waits to be sent gets there, in three scenarios:                   *)
(*   mirrors  two peers, of which one restamps, with one lost answer       *)
(*   queue    one tab, one book that is read and one note of another: a    *)
(*            change waits behind another, conflicts with another device   *)
(*            or is sent twice, with one closed tab or failed request      *)
(*   refusals one tab and one note, which the server refuses: too large,   *)
(*            of a work that is full or gone; the reader retries or gives  *)
(*            it up, while other changes of it wait                        *)
(* What a scenario does not use rests.                                     *)
(***************************************************************************)
EXTENDS Integers, Outbox

CONSTANTS bo, kr, StartOfBook, tab, b1, n1

VARIABLES scenario,
  positions, row, resets, library, cursor, worker, late, now, reads, resetsLeft, movesLeft, given, unsure

Place(f) == [frac |-> f, cfi |-> None, foreign |-> None]

Mirrors == INSTANCE Mirror WITH
  log <- positions, Peers <- {bo, kr}, CfiPeers <- {bo}, Restamping <- {kr},
  HerePlaces <- {Place(1)}, TherePlaces <- {Place(2), Place(3)},
  Late <- 0, MayTimeOut <- FALSE, MayStop <- FALSE,
  MaxReads <- 2, MaxTick <- 2, MaxResets <- 0, MaxMoves <- 0, MaxUnsure <- 1

ASSUME Mirrors!MirrorAssumption /\ OutboxAssumption

In(s) == scenario = s
mirrorVars == <<positions, row, resets, library, cursor, worker, late, now, reads, resetsLeft, movesLeft,
                given, unsure>>
vars == <<scenario, mirrorVars, outboxVars>>

NoMirror ==
  /\ positions = 0 /\ row = 0 /\ resets = 0 /\ library = 0 /\ cursor = 0 /\ worker = 0 /\ late = 0 /\ now = 0
  /\ reads = 0 /\ resetsLeft = 0 /\ movesLeft = 0 /\ given = 0 /\ unsure = 0

MCInit ==
  /\ OutboxInit
  /\ \/ In("mirrors") /\ full = {} /\ Mirrors!Init
     \/ In("queue") /\ full = {} /\ NoMirror
     \/ In("refusals") /\ NoMirror

InMirrors(A) == In("mirrors") /\ A /\ UNCHANGED <<scenario, outboxVars>>
InQueue(A) == scenario \in {"queue", "refusals"} /\ A /\ UNCHANGED <<scenario, mirrorVars>>

(* A work goes or fills while a change of it is on its way.                *)
QueueNext ==
  /\ OutboxNext
  /\ In("queue") =>
       /\ full' = full /\ n1 \notin gone' /\ (copy'[n1] # None => ~copy'[n1].big)
       /\ gone' # gone => \E c \in Changes : Is(c, {"page"}) /\ ~Taken(c, b1)
  /\ In("refusals") =>
       /\ \A c \in Changes : rows'[c] # None => rows'[c].kind # "page"
       /\ b1 \notin gone'
       /\ gone' # gone \/ full' # full => Of(n1) # {}

MCNext == InMirrors(Mirrors!Next) \/ InQueue(QueueNext)

(* Each worker passes again, its peer answers now and then; a page is      *)
(* opened again and drains while something is owed.                        *)
FairSpec ==
  /\ MCInit /\ [][MCNext]_vars
  /\ \A p \in {bo, kr} :
       /\ WF_vars(InMirrors(Mirrors!OnItsOwn(p)))
       /\ SF_vars(InMirrors(Mirrors!Pull(p))) /\ SF_vars(InMirrors(Mirrors!Arrive(p)))
       /\ SF_vars(InMirrors(Mirrors!PushSucceeds(p)))
  /\ WF_vars(InQueue(OpenPage(tab) \/ Begin(tab) \/ PassStep(tab)))

(* Every position reaches every peer or is settled with it, once nobody    *)
(* reads any more: the peers do not keep each other busy.                  *)
Converges == <>[](In("mirrors") => \A p \in {bo, kr} : Mirrors!Settled(p))
=============================================================================
