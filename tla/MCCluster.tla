----------------------------- MODULE MCCluster ------------------------------
(* Cluster with three servers. *)
EXTENDS Cluster, TLC

CONSTANTS s1, s2, s3

MCServers == {s1, s2, s3}

\* Servers are interchangeable; used by the runs that check no liveness.
Symmetry == Permutations(MCServers)

=============================================================================
