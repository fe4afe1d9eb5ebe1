---------------------------- MODULE TableMonitor ----------------------------
(***************************************************************************)
(* The monitor that guards the table of a server (source/table_skel.c):    *)
(* the mutex m, the condition variable c and the counters they protect.    *)
(*                                                                         *)
(* Every function of the monitor locks m first and unlocks it last, so the *)
(* code between two waits is one step; the only place where a thread stops *)
(* half way is pthread_cond_wait, modelled by the set asleep of threads    *)
(* that wait on c.  A broadcast empties the set, and a woken thread        *)
(* evaluates its while condition again.                                    *)
(***************************************************************************)
EXTENDS Integers, FiniteSets

CONSTANTS
  Threads,     \* the threads that call the monitor
  numberLists  \* the n_lists of table_skel_init

\* The threads of a process are finitely many; table_skel_init refuses
\* n_lists < 1.
ASSUME MonitorAssumption ==
  /\ IsFiniteSet(Threads)
  /\ numberLists \in Nat \ {0}

\* The indices of counter_LISTAS.
Lists == 0 .. (numberLists - 1)

\* The code argument of comeca_listas and termina_listas.
PUT == 0
DEL == 1
GET == 2

VARIABLES
  counter_LISTAS,     \* 1 while a list is taken
  counter_PUT_ATUAL,  \* puts counted as running
  counter_DEL_ATUAL,  \* dels counted as running
  boolean,            \* 1 from the backup's departure to its resynchronisation
  asleep              \* the threads in pthread_cond_wait(&c, &m)

monitorVars ==
  <<counter_LISTAS, counter_PUT_ATUAL, counter_DEL_ATUAL, boolean, asleep>>

MonitorInit ==
  /\ counter_LISTAS = [h \in Lists |-> 0]
  /\ counter_PUT_ATUAL = 0
  /\ counter_DEL_ATUAL = 0
  /\ boolean = 0
  /\ asleep = {}

MonitorTypeOK ==
  /\ counter_LISTAS \in [Lists -> {0, 1}]
  /\ counter_PUT_ATUAL \in Nat
  /\ counter_DEL_ATUAL \in Nat
  /\ boolean \in {0, 1}
  /\ asleep \in SUBSET Threads

-----------------------------------------------------------------------------
\* A plausible error in a while condition: gets read a list that is taken.
ListBusyGetsIgnored(h, code) ==
  code # GET /\ counter_LISTAS[h] # 0 /\ boolean # 1

\* The while conditions of comeca_listas: a get waits for the list, a put or
\* a del waits only as long as boolean is not 1.
ListBusy(h, code) ==
  counter_LISTAS[h] # 0 /\ (code # GET => boolean # 1)

\* A plausible error: the scan looks at the puts only.
TableBusyPutsOnly == counter_PUT_ATUAL # 0

\* The while condition of comeca.
TableBusy == counter_PUT_ATUAL # 0 \/ counter_DEL_ATUAL # 0

One(condition) == IF condition THEN 1 ELSE 0

\* pthread_cond_wait(&c, &m).
Sleep(t) ==
  /\ asleep' = asleep \cup {t}
  /\ UNCHANGED <<counter_LISTAS, counter_PUT_ATUAL, counter_DEL_ATUAL, boolean>>

\* A plausible error: the del branch of comeca_listas is forgotten.
TakeListDelUncounted(h, code) ==
  /\ counter_LISTAS' = [counter_LISTAS EXCEPT ![h] = 1]
  /\ counter_PUT_ATUAL' = counter_PUT_ATUAL + One(code = PUT)
  /\ UNCHANGED <<counter_DEL_ATUAL, boolean, asleep>>

\* The end of comeca_listas, after the while loop.
TakeList(h, code) ==
  /\ counter_LISTAS' = [counter_LISTAS EXCEPT ![h] = 1]
  /\ counter_PUT_ATUAL' = counter_PUT_ATUAL + One(code = PUT)
  /\ counter_DEL_ATUAL' = counter_DEL_ATUAL + One(code = DEL)
  /\ UNCHANGED <<boolean, asleep>>

\* Plausible errors in termina_listas: no broadcast; the two counters swapped.
ReleaseListSilently(h, code) ==
  /\ counter_LISTAS' = [counter_LISTAS EXCEPT ![h] = 0]
  /\ counter_PUT_ATUAL' = counter_PUT_ATUAL - One(code = PUT)
  /\ counter_DEL_ATUAL' = counter_DEL_ATUAL - One(code = DEL)
  /\ UNCHANGED <<boolean, asleep>>

ReleaseListSwapped(h, code) ==
  /\ counter_LISTAS' = [counter_LISTAS EXCEPT ![h] = 0]
  /\ counter_PUT_ATUAL' = counter_PUT_ATUAL - One(code = DEL)
  /\ counter_DEL_ATUAL' = counter_DEL_ATUAL - One(code = PUT)
  /\ asleep' = {}
  /\ UNCHANGED boolean

\* termina_listas.
ReleaseList(h, code) ==
  /\ counter_LISTAS' = [counter_LISTAS EXCEPT ![h] = 0]
  /\ counter_PUT_ATUAL' = counter_PUT_ATUAL - One(code = PUT)
  /\ counter_DEL_ATUAL' = counter_DEL_ATUAL - One(code = DEL)
  /\ asleep' = {}
  /\ UNCHANGED boolean

\* termina.
ReleaseTable ==
  /\ asleep' = {}
  /\ UNCHANGED <<counter_LISTAS, counter_PUT_ATUAL, counter_DEL_ATUAL, boolean>>

=============================================================================
