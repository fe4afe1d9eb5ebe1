------------------------------- MODULE MCStats -------------------------------
(* Stats on two threads and the counter of one operation. *)
EXTENDS Stats, TLC

CONSTANTS t1, t2

MCThreads == {t1, t2}
MCCounted == {"get"}
ZeroCounts == [o \in MCCounted |-> 0]

Symmetry == Permutations(MCThreads)

=============================================================================
