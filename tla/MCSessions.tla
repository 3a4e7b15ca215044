----------------------------- MODULE MCSessions -----------------------------
(* Small instances of Sessions. *)
EXTENDS Sessions

CONSTANTS w1, w2, w3, e1, a1, k1, v1, n1, n2, h1, h2, phone, utc, east

MCOffset == [z \in Zones |-> IF z = east THEN 1 ELSE 0]

Native(n, w, i, t, u) ==
  [id |-> n, work |-> w, dev |-> phone, own |-> i, from |-> t, to |-> u, origin |-> "native"]

MCBatches == {{Native(n1, w1, e1, 0, 0), Native(n2, w1, NoOwner, 0, 1)}}
MCEvents == {[id |-> v1, from |-> 1, to |-> 1, alias |-> a1, hash |-> h1],
             [id |-> v1, from |-> 0, to |-> 1, alias |-> a1, hash |-> h2]}
=============================================================================
