---------------------------- MODULE MCTableLock -----------------------------
(* TableLock on three threads and two lists. *)
EXTENDS TableLock

CONSTANTS t1, t2, t3

MCThreads == {t1, t2, t3}

=============================================================================
