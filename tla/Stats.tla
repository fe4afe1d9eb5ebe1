-------------------------------- MODULE Stats --------------------------------
(***************************************************************************)
(* The statistics of a server (source/table_skel.c) and the reader/writer  *)
(* lock around them.  A request reads its counter as a reader, adds 1 to   *)
(* its own copy and writes the copy back as a writer; after the answer,    *)
(* update_stats does the same with the average time.                       *)
(*                                                                         *)
(* termina_escrita_stats unlocks m_stats twice and never locks it, so the  *)
(* mutex does not make the lock functions atomic: every access to a shared *)
(* variable is a step, and x++ is a load and a store.  m_stats is a word   *)
(* without an owner, which is what unlocking a default mutex of the C      *)
(* library from another thread shows.                                      *)
(***************************************************************************)
EXTENDS Integers, FiniteSets, FiniteSetsExt

CONSTANTS
  Threads,      \* the threads of the server
  Counted,      \* the operations with a counter (n_times_SIZE, ...)
  firstCounts,  \* what malloc left in the counters: stats_init writes none
  MaxRequests,  \* bound: requests a thread serves
  MaxSpurious   \* bound: spurious wakeups

ASSUME StatsAssumption ==
  /\ IsFiniteSet(Threads)
  /\ IsFiniteSet(Counted)
  /\ firstCounts \in [Counted -> Int]
  /\ MaxRequests \in Nat
  /\ MaxSpurious \in Nat

VARIABLES
  m_stats,                    \* 1 while locked
  counter_LEITURA_ATUAL,      \* readers inside
  counter_ESCRITA_ATUAL,      \* 1 while a writer is inside
  counter_ESCRITORES_ESPERA,  \* writers that wait
  asleep,                     \* the threads in pthread_cond_wait(&c_stats, ..)
  n,                          \* stats->n_times_*
  time,                       \* stats->time, as far as stats tells: see Times
  pc,                         \* where in the code of the lock a thread is
  phase,                      \* what it does next with the statistics
  op,                         \* the operation it counts
  register,                   \* the value between the load and the store of x++
  local,                      \* n_times_* of invoke
  added,                      \* the counters update_stats adds up
  total,                      \* tempo_total of update_stats is a finite number
  counted,                    \* history: has the thread stored its count
  served,                     \* history: counts stored, by operation
  holder,                     \* history: who locked m_stats last
  raced,                      \* history: see Intrudes
  started,                    \* requests received (bounded by MaxRequests)
  spurious                    \* spurious wakeups so far (bounded)

sync == <<m_stats, counter_LEITURA_ATUAL, counter_ESCRITA_ATUAL,
          counter_ESCRITORES_ESPERA, asleep, register, holder, raced, spurious>>
data == <<n, time, phase, op, local, added, total, counted, served, started>>
vars == <<sync, data, pc>>

Nobody == "nobody"
Refused == "refused"   \* a put or del that returns before it counts
STATS == "stats"

Nothing == [o \in Counted |-> 0]

\* A double, as far as the code and the properties tell doubles apart.
Times == {"nonnegative", "negative", "notFinite"}

Init ==
  /\ m_stats = 0
  /\ counter_LEITURA_ATUAL = 0
  /\ counter_ESCRITA_ATUAL = 0
  /\ counter_ESCRITORES_ESPERA = 0
  /\ asleep = {}
  /\ n = firstCounts
  /\ time \in Times                  \* not written by stats_init either
  /\ pc = [t \in Threads |-> "idle"]
  /\ phase = [t \in Threads |-> "none"]
  /\ op = [t \in Threads |-> STATS]
  /\ register = [t \in Threads |-> 0]
  /\ local = [t \in Threads |-> 0]
  /\ added = [t \in Threads |-> Nothing]
  /\ total = [t \in Threads |-> TRUE]
  /\ counted = [t \in Threads |-> FALSE]
  /\ served = [o \in Counted |-> 0]
  /\ holder = Nobody
  /\ raced = FALSE
  /\ started = [t \in Threads |-> 0]
  /\ spurious = 0

-----------------------------------------------------------------------------
(* Single steps of the lock functions.                                     *)

Goto(t, at, next) == pc[t] = at /\ pc' = [pc EXCEPT ![t] = next]

counters == <<counter_LEITURA_ATUAL, counter_ESCRITA_ATUAL,
              counter_ESCRITORES_ESPERA>>

\* pthread_mutex_lock.
Lock(t, at, next) ==
  /\ Goto(t, at, next)
  /\ t \notin asleep
  /\ m_stats = 0
  /\ m_stats' = 1
  /\ holder' = t
  /\ UNCHANGED <<counters, asleep, register, raced, spurious>>

\* Another thread is between lock and unlock while t, which has not locked
\* m_stats, unlocks it or changes what it protects.
Intrudes(t) == m_stats = 1 /\ holder # t

\* pthread_mutex_unlock: frees the word, whoever locked it.
Unlock(t, at, next) ==
  /\ Goto(t, at, next)
  /\ m_stats' = 0
  /\ holder' = Nobody
  /\ raced' = (raced \/ Intrudes(t))
  /\ UNCHANGED <<counters, asleep, register, spurious>>

Test(t, at, condition, yes, no) ==
  /\ Goto(t, at, IF condition THEN yes ELSE no)
  /\ UNCHANGED sync

\* The first half of pthread_cond_wait; Lock is the second.
Wait(t, at, next) ==
  /\ Goto(t, at, next)
  /\ asleep' = asleep \cup {t}
  /\ m_stats' = 0
  /\ holder' = Nobody
  /\ UNCHANGED <<counters, register, raced, spurious>>

Load(t, at, value, next) ==
  /\ Goto(t, at, next)
  /\ register' = [register EXCEPT ![t] = value]
  /\ UNCHANGED <<m_stats, counters, asleep, holder, raced, spurious>>

\* The store of ++ or -- on the number of readers, or of waiting writers.
StoreReaders(t, at, next) ==
  /\ Goto(t, at, next)
  /\ counter_LEITURA_ATUAL' = register[t]
  /\ register' = [register EXCEPT ![t] = 0]
  /\ UNCHANGED <<m_stats, counter_ESCRITA_ATUAL, counter_ESCRITORES_ESPERA>>
  /\ UNCHANGED <<asleep, holder, raced, spurious>>

StoreWaitingWriters(t, at, next) ==
  /\ Goto(t, at, next)
  /\ counter_ESCRITORES_ESPERA' = register[t]
  /\ register' = [register EXCEPT ![t] = 0]
  /\ UNCHANGED <<m_stats, counter_LEITURA_ATUAL, counter_ESCRITA_ATUAL>>
  /\ UNCHANGED <<asleep, holder, raced, spurious>>

SetWriting(t, at, value, next) ==
  /\ Goto(t, at, next)
  /\ counter_ESCRITA_ATUAL' = value
  /\ raced' = (raced \/ Intrudes(t))
  /\ UNCHANGED <<m_stats, counter_LEITURA_ATUAL, counter_ESCRITORES_ESPERA>>
  /\ UNCHANGED <<asleep, register, holder, spurious>>

\* pthread_cond_broadcast(&c_stats), if the condition holds.
Broadcast(t, at, condition, next) ==
  /\ Goto(t, at, next)
  /\ asleep' = IF condition THEN {} ELSE asleep
  /\ raced' = (raced \/ Intrudes(t))
  /\ UNCHANGED <<m_stats, counters, register, holder, spurious>>

-----------------------------------------------------------------------------
(* The lock functions.  A thread is at a label when it is about to execute *)
(* it; "reading" and "writing" are the code between two of them.           *)

comeca_leitura_stats(t) ==
  \/ Lock(t, "lockReader", "readerSeesWriter")
  \/ Test(t, "readerSeesWriter", counter_ESCRITA_ATUAL = 1,
             "readerWaits", "readerSeesQueue")
  \/ Test(t, "readerSeesQueue", counter_ESCRITORES_ESPERA > 0,
             "readerWaits", "loadReaders")
  \/ Wait(t, "readerWaits", "readerWakes")
  \/ Lock(t, "readerWakes", "readerSeesWriter")
  \/ Load(t, "loadReaders", counter_LEITURA_ATUAL + 1, "storeReaders")
  \/ StoreReaders(t, "storeReaders", "unlockReader")
  \/ Unlock(t, "unlockReader", "reading")

\* What follows termina_leitura_stats in invoke and in update_stats.
AfterReading(t) ==
  IF phase[t] \in {"storeCount", "storeAverage"} THEN "lockWriter" ELSE "reply"

\* A plausible error: the last reader wakes nobody.
termina_leitura_statsSilent(t) ==
  \/ Lock(t, "lockLeaving", "loadLeaving")
  \/ Load(t, "loadLeaving", counter_LEITURA_ATUAL - 1, "storeLeaving")
  \/ StoreReaders(t, "storeLeaving", "wakeWriters")
  \/ Broadcast(t, "wakeWriters", FALSE, "unlockLeaving")
  \/ Unlock(t, "unlockLeaving", AfterReading(t))

termina_leitura_stats(t) ==
  \/ Lock(t, "lockLeaving", "loadLeaving")
  \/ Load(t, "loadLeaving", counter_LEITURA_ATUAL - 1, "storeLeaving")
  \/ StoreReaders(t, "storeLeaving", "wakeWriters")
  \/ Broadcast(t, "wakeWriters", counter_LEITURA_ATUAL = 0, "unlockLeaving")
  \/ Unlock(t, "unlockLeaving", AfterReading(t))

\* A plausible error: a writer does not look at other writers.
comeca_escrita_statsBlind(t) ==
  \/ Lock(t, "lockWriter", "loadQueue")
  \/ Load(t, "loadQueue", counter_ESCRITORES_ESPERA + 1, "storeQueue")
  \/ StoreWaitingWriters(t, "storeQueue", "writerSeesReaders")
  \/ Test(t, "writerSeesReaders", counter_LEITURA_ATUAL > 0,
             "writerWaits", "setWriting")
  \/ Wait(t, "writerWaits", "writerWakes")
  \/ Lock(t, "writerWakes", "writerSeesReaders")
  \/ SetWriting(t, "setWriting", 1, "loadUnqueue")
  \/ Load(t, "loadUnqueue", counter_ESCRITORES_ESPERA - 1, "storeUnqueue")
  \/ StoreWaitingWriters(t, "storeUnqueue", "unlockWriter")
  \/ Unlock(t, "unlockWriter", "writing")

comeca_escrita_stats(t) ==
  \/ Lock(t, "lockWriter", "loadQueue")
  \/ Load(t, "loadQueue", counter_ESCRITORES_ESPERA + 1, "storeQueue")
  \/ StoreWaitingWriters(t, "storeQueue", "writerSeesReaders")
  \/ Test(t, "writerSeesReaders", counter_LEITURA_ATUAL > 0,
             "writerWaits", "writerSeesWriter")
  \/ Test(t, "writerSeesWriter", counter_ESCRITA_ATUAL = 1,
             "writerWaits", "setWriting")
  \/ Wait(t, "writerWaits", "writerWakes")
  \/ Lock(t, "writerWakes", "writerSeesReaders")
  \/ SetWriting(t, "setWriting", 1, "loadUnqueue")
  \/ Load(t, "loadUnqueue", counter_ESCRITORES_ESPERA - 1, "storeUnqueue")
  \/ StoreWaitingWriters(t, "storeUnqueue", "unlockWriter")
  \/ Unlock(t, "unlockWriter", "writing")

\* What follows termina_escrita_stats: the answer, or the next request.
AfterWriting(t) == IF phase[t] = "none" THEN "idle" ELSE "reply"

\* A plausible error: the counter is decremented instead of cleared.
termina_escrita_statsDecrements(t) ==
  \/ Unlock(t, "firstUnlock", "clearWriting")
  \/ SetWriting(t, "clearWriting", counter_ESCRITA_ATUAL - 1, "wakeAll")
  \/ Broadcast(t, "wakeAll", TRUE, "secondUnlock")
  \/ Unlock(t, "secondUnlock", AfterWriting(t))

termina_escrita_stats(t) ==
  \/ Unlock(t, "firstUnlock", "clearWriting")
  \/ SetWriting(t, "clearWriting", 0, "wakeAll")
  \/ Broadcast(t, "wakeAll", TRUE, "secondUnlock")
  \/ Unlock(t, "secondUnlock", AfterWriting(t))

LockStep(t) ==
  /\ \/ comeca_leitura_stats(t)
     \/ termina_leitura_stats(t)
     \/ comeca_escrita_stats(t)
     \/ termina_escrita_stats(t)
  /\ UNCHANGED data

SpuriousWakeup(t) ==
  /\ t \in asleep
  /\ spurious < MaxSpurious
  /\ spurious' = spurious + 1
  /\ asleep' = asleep \ {t}
  /\ UNCHANGED <<m_stats, counters, register, holder, raced, data, pc>>

-----------------------------------------------------------------------------
(* What invoke, thread_sec and update_stats do with the statistics.        *)

\* network_receive returns and invoke runs up to its first use of the lock; a
\* refused put or del returns before that.
Receive(t, request) ==
  /\ started[t] < MaxRequests
  /\ Goto(t, "idle", IF request = Refused THEN "reply" ELSE "lockReader")
  /\ started' = [started EXCEPT ![t] = @ + 1]
  /\ op' = [op EXCEPT ![t] = request]
  /\ counted' = [counted EXCEPT ![t] = FALSE]
  /\ phase' = [phase EXCEPT ![t] = CASE request = Refused -> "answer"
                                     [] request = STATS -> "loadReport"
                                     [] OTHER -> "loadCount"]
  /\ UNCHANGED <<sync, n, time, local, added, total, served>>

\* int n_times_GET = stats->n_times_GET; (the n_times_GET++ that follows is
\* local to the thread).
LoadCount(t) ==
  /\ phase[t] = "loadCount"
  /\ Goto(t, "reading", "lockLeaving")
  /\ local' = [local EXCEPT ![t] = n[op[t]] + 1]
  /\ phase' = [phase EXCEPT ![t] = "storeCount"]
  /\ UNCHANGED <<sync, n, time, op, added, total, counted, served, started>>

\* A plausible error: the copy is added to the counter.
StoreCountAdded(t) ==
  /\ phase[t] = "storeCount"
  /\ Goto(t, "writing", "firstUnlock")
  /\ n' = [n EXCEPT ![op[t]] = @ + local[t]]
  /\ counted' = [counted EXCEPT ![t] = TRUE]
  /\ served' = [served EXCEPT ![op[t]] = @ + 1]
  /\ phase' = [phase EXCEPT ![t] = "answer"]
  /\ UNCHANGED <<sync, time, op, local, added, total, started>>

\* A plausible error: the increment is lost.
StoreCountUnchanged(t) ==
  /\ phase[t] = "storeCount"
  /\ Goto(t, "writing", "firstUnlock")
  /\ n' = [n EXCEPT ![op[t]] = local[t] - 1]
  /\ counted' = [counted EXCEPT ![t] = TRUE]
  /\ served' = [served EXCEPT ![op[t]] = @ + 1]
  /\ phase' = [phase EXCEPT ![t] = "answer"]
  /\ UNCHANGED <<sync, time, op, local, added, total, started>>

\* stats->n_times_GET = n_times_GET;
StoreCount(t) ==
  /\ phase[t] = "storeCount"
  /\ Goto(t, "writing", "firstUnlock")
  /\ n' = [n EXCEPT ![op[t]] = local[t]]
  /\ counted' = [counted EXCEPT ![t] = TRUE]
  /\ served' = [served EXCEPT ![op[t]] = @ + 1]
  /\ phase' = [phase EXCEPT ![t] = "answer"]
  /\ UNCHANGED <<sync, time, op, local, added, total, started>>

\* The answers to STATS: OP_ERROR when stats->time < 0, and an average that is
\* not finite may be below 0 or not.  thread_sec averages every request whose
\* answer is not OP_STATS + 1, and so the refused STATS.
ReportOutcomes ==
  CASE time = "negative" -> {"answer"}
    [] time = "nonnegative" -> {"answerStats"}
    [] OTHER -> {"answer", "answerStats"}

LoadReport(t) ==
  /\ phase[t] = "loadReport"
  /\ Goto(t, "reading", "lockLeaving")
  /\ \E answer \in ReportOutcomes : phase' = [phase EXCEPT ![t] = answer]
  /\ UNCHANGED <<sync, n, time, op, local, added, total, counted, served, started>>

\* The request is over, and so are the local variables of its functions.
EndRequest(t) ==
  /\ phase' = [phase EXCEPT ![t] = "none"]
  /\ op' = [op EXCEPT ![t] = STATS]
  /\ local' = [local EXCEPT ![t] = 0]
  /\ added' = [added EXCEPT ![t] = Nothing]
  /\ total' = [total EXCEPT ![t] = TRUE]
  /\ counted' = [counted EXCEPT ![t] = FALSE]

\* network_send succeeds: update_stats, except after the answer to STATS.
Reply(t) ==
  /\ phase[t] = "answer"
  /\ Goto(t, "reply", "lockReader")
  /\ phase' = [phase EXCEPT ![t] = "loadAverage"]
  /\ UNCHANGED <<sync, n, time, op, local, added, total, counted, served, started>>

ReplyStats(t) ==
  /\ phase[t] = "answerStats"
  /\ Goto(t, "reply", "idle")
  /\ EndRequest(t)
  /\ UNCHANGED <<sync, n, time, served, started>>

\* network_send fails: thread_sec returns.
ReplyFails(t) ==
  /\ Goto(t, "reply", "gone")
  /\ EndRequest(t)
  /\ UNCHANGED <<sync, n, time, served, started>>

\* update_stats: the summands of n_pedidos, and tempo_total.
LoadAverage(t) ==
  /\ phase[t] = "loadAverage"
  /\ Goto(t, "reading", "lockLeaving")
  /\ added' = [added EXCEPT ![t] = n]
  /\ total' = [total EXCEPT ![t] = time # "notFinite"]
  /\ phase' = [phase EXCEPT ![t] = "storeAverage"]
  /\ UNCHANGED <<sync, n, time, op, local, counted, served, started>>

\* The values of (tempo_total + dif) / pedidos.  dif is below 0 when the second
\* changes during the request: thread_sec adds the seconds to the difference of
\* the nanoseconds and divides both.
Averages(finite, pedidos) ==
  IF finite /\ pedidos # 0 THEN {"nonnegative", "negative"} ELSE {"notFinite"}

n_pedidos(t) == MapThenSumSet(LAMBDA o : added[t][o], Counted)

\* update_stats: stats->time.
StoreAverage(t) ==
  /\ phase[t] = "storeAverage"
  /\ Goto(t, "writing", "firstUnlock")
  /\ time' \in Averages(total[t], n_pedidos(t))
  /\ EndRequest(t)
  /\ UNCHANGED <<sync, n, served, started>>

Serve(t) ==
  \/ LockStep(t)
  \/ LoadCount(t)
  \/ StoreCount(t)
  \/ LoadReport(t)
  \/ Reply(t)
  \/ ReplyStats(t)
  \/ LoadAverage(t)
  \/ StoreAverage(t)

Next == \E t \in Threads :
  \/ \E request \in Counted \cup {Refused, STATS} : Receive(t, request)
  \/ Serve(t)
  \/ ReplyFails(t)
  \/ SpuriousWakeup(t)

Spec == Init /\ [][Next]_vars

\* A thread that can run is scheduled in the end.
FairSpec == Spec /\ \A t \in Threads : WF_vars(Serve(t))

-----------------------------------------------------------------------------
Phases == {"none", "loadCount", "storeCount", "loadReport", "answer",
           "answerStats", "loadAverage", "storeAverage"}

TypeOK ==
  /\ m_stats \in {0, 1}
  /\ counter_LEITURA_ATUAL \in Int
  /\ counter_ESCRITA_ATUAL \in {0, 1}
  /\ counter_ESCRITORES_ESPERA \in Int
  /\ asleep \in SUBSET Threads
  /\ n \in [Counted -> Int]
  /\ time \in Times
  /\ phase \in [Threads -> Phases]
  /\ op \in [Threads -> Counted \cup {Refused, STATS}]
  /\ \A t \in Threads : phase[t] \in {"loadCount", "storeCount"} => op[t] \in Counted
  /\ local \in [Threads -> Int]
  /\ added \in [Threads -> [Counted -> Int]]
  /\ total \in [Threads -> BOOLEAN]
  /\ counted \in [Threads -> BOOLEAN]
  /\ served \in [Counted -> Nat]
  /\ raced \in BOOLEAN
  /\ started \in [Threads -> 0 .. MaxRequests]

\* However the requests interleave and whatever the lock lets through, a
\* counter lies between one count and all the counts stored so far: counts get
\* lost, but none is invented and none is undone below the first one.
CountBounded ==
  \A o \in Counted :
    /\ n[o] <= firstCounts[o] + served[o]
    /\ n[o] >= firstCounts[o] + (IF served[o] > 0 THEN 1 ELSE 0)

\* update_stats divides by a sum of counters: for a request that has been
\* counted, and counters that started at 0 or above, the sum has no negative
\* summand and the one of the request's own operation is positive, although
\* other requests may have overwritten its count in between.
DivisorPositive ==
  (\A o \in Counted : firstCounts[o] >= 0) =>
    \A t \in Threads : phase[t] = "storeAverage" /\ counted[t] =>
      /\ \A o \in Counted : added[t][o] >= 0
      /\ added[t][op[t]] > 0

ReaderLabels == {"unlockReader", "reading", "lockLeaving", "loadLeaving", "storeLeaving"}
WriterLabels == {"loadUnqueue", "storeUnqueue", "unlockWriter", "writing",
                 "firstUnlock", "clearWriting"}
Readers == {t \in Threads : pc[t] \in ReaderLabels}
Writers == {t \in Threads : pc[t] \in WriterLabels}

\* The README's two rules for the statistics ("leitura: permitir leitura quando
\* não existem clientes a escrever", "escrita: permitir escrita quando não
\* existem clientes a ler ou a escrever").
Exclusion ==
  \A w \in Writers : Writers = {w} /\ Readers = {}

\* The missing lock of termina_escrita_stats is the only hole: until a thread
\* has intruded on another one through it, the rules hold and the two counters
\* of the lock are exact.
ExclusionUnlessRaced ==
  ~raced =>
    /\ Exclusion
    /\ counter_LEITURA_ATUAL = Cardinality(Readers)
    /\ counter_ESCRITA_ATUAL = Cardinality(Writers)

\* ... and every request is served to its end: no wakeup is lost.
ServedUnlessRaced ==
  [](~raced) => \A t \in Threads : pc[t] # "idle" ~> pc[t] \in {"idle", "gone"}

=============================================================================
