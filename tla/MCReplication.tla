---------------------------- MODULE MCReplication ----------------------------
(* Replication with two clients and two keys, each in a list of its own. *)
EXTENDS Replication

CONSTANTS c1, c2, w, k1, k2, v1, v2

MCClients == {c1, c2}
OneClient == {c1}
MCThreads == {c1, c2, w}
TwoThreads == {c1, w}
MCKeys == {k1, k2}
MCValues == {v1, v2}
MChash == [k \in MCKeys |-> IF k = k1 THEN 0 ELSE 1]

Put(k, v) == [op |-> PUT, key |-> k, value |-> v]
Del(k) == [op |-> DEL, key |-> k, value |-> Empty]
Get(k) == [op |-> GET, key |-> k, value |-> Empty]

MCRequests == {Put(k1, v1), Put(k1, v2), Put(k2, v1), Del(k1), Get(k1)}
DelAndGet == {Del(k1), Get(k1)}

=============================================================================
