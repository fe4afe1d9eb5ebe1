------------------------------- MODULE MCTable -------------------------------
(* Table on three keys in two lists: two keys share a list. *)
EXTENDS Table, TLC

CONSTANTS k1, k2, k3, v1, v2

MCKeys == {k1, k2, k3}
MCValues == {v1, v2}
MChash == [k \in MCKeys |-> IF k = k3 THEN 1 ELSE 0]

\* k1 and k2 have the same hash, and no action tells them or the values apart.
Symmetry == Permutations({k1, k2}) \cup Permutations(MCValues)

=============================================================================
