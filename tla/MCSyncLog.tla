----------------------------- MODULE MCSyncLog -----------------------------
(* Small instances of SyncLog for TLC. *)
EXTENDS SyncLog

CONSTANTS w1, w2, e1, a1, d1, k1, i1, i2, i3, c1, d2

Native(i, w, d, o, p) == [id |-> i, work |-> w, dev |-> d, own |-> o, prog |-> p]

(* Two devices read one work: a peak in an edition, and two retreats that *)
(* name no edition.  A kosync device reports a place of its own.           *)
s1 == Native(i1, w1, d1, e1, 2)
s2 == Native(i2, w1, d2, NoOwner, 1)
s3 == Native(i3, w1, d1, NoOwner, 0)

MCBatches == {<<s1>>, <<s2, s3>>}
MCPuts == {[dev |-> k1, prog |-> 1, alias |-> a1]}
=============================================================================
