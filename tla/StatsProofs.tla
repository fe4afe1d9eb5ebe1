----------------------------- MODULE StatsProofs -----------------------------
(***************************************************************************)
(* What the lock of the statistics cannot spoil, for any number of         *)
(* threads, requests and spurious wakeups: the types, the bounds of the    *)
(* counters and the divisor of the average.  The invariant speaks about    *)
(* the data only, so it holds whatever the lock lets through.              *)
(***************************************************************************)
EXTENDS Stats, TLAPS

SyncOK ==
  /\ m_stats \in {0, 1}
  /\ counter_LEITURA_ATUAL \in Int
  /\ counter_ESCRITA_ATUAL \in {0, 1}
  /\ counter_ESCRITORES_ESPERA \in Int
  /\ asleep \in SUBSET Threads
  /\ register \in [Threads -> Int]
  /\ raced \in BOOLEAN

DataOK ==
  /\ n \in [Counted -> Int]
  /\ time \in Times
  /\ phase \in [Threads -> Phases]
  /\ op \in [Threads -> Counted \cup {Refused, STATS}]
  /\ \A t \in Threads : phase[t] \in {"loadCount", "storeCount"} => op[t] \in Counted
  /\ local \in [Threads -> Int]
  /\ added \in [Threads -> [Counted -> Int]]
  /\ total \in [Threads -> BOOLEAN]
  /\ counted \in [Threads -> BOOLEAN]
  /\ served \in [Counted -> Nat]
  /\ started \in [Threads -> 0 .. MaxRequests]

\* The copy a thread is about to store counts at least itself and at most
\* itself and the counts stored so far.
CopyBounded ==
  \A t \in Threads : phase[t] = "storeCount" =>
    /\ local[t] >= firstCounts[op[t]] + 1
    /\ local[t] <= firstCounts[op[t]] + served[op[t]] + 1

\* A thread that has stored its count is among the counts served.
CountedServed ==
  \A t \in Threads : counted[t] => op[t] \in Counted /\ served[op[t]] > 0

\* What update_stats adds up lies above the first counts, and includes a count
\* of the thread's own operation when the thread has stored one.
SummandsBounded ==
  \A t \in Threads : phase[t] = "storeAverage" =>
    /\ \A o \in Counted : added[t][o] >= firstCounts[o]
    /\ counted[t] => added[t][op[t]] >= firstCounts[op[t]] + 1

IInv ==
  /\ SyncOK
  /\ DataOK
  /\ CountBounded
  /\ CopyBounded
  /\ CountedServed
  /\ SummandsBounded

\* The invariant gives the three properties that the run checks.
LEMMA IInvImplies == IInv => TypeOK /\ CountBounded /\ DivisorPositive
<1>. SUFFICES ASSUME IInv PROVE TypeOK /\ CountBounded /\ DivisorPositive
  OBVIOUS
<1>1. TypeOK
  BY DEF IInv, SyncOK, DataOK, TypeOK
<1>2. CountBounded
  BY DEF IInv
<1>3. ASSUME \A o \in Counted : firstCounts[o] >= 0,
             NEW t \in Threads, phase[t] = "storeAverage", counted[t]
      PROVE  (\A o \in Counted : added[t][o] >= 0) /\ added[t][op[t]] > 0
  <2>1. op[t] \in Counted
    BY <1>3 DEF IInv, CountedServed
  <2>2. /\ \A o \in Counted : added[t][o] >= firstCounts[o]
        /\ added[t][op[t]] >= firstCounts[op[t]] + 1
    BY <1>3 DEF IInv, SummandsBounded
  <2>3. \A o \in Counted : added[t][o] \in Int /\ firstCounts[o] \in Int
    BY StatsAssumption DEF IInv, DataOK
  <2>. QED
    BY <1>3, <2>1, <2>2, <2>3
<1>. QED
  BY <1>1, <1>2, <1>3 DEF DivisorPositive

\* The initial states satisfy the invariant.
LEMMA InitIInv == Init => IInv
<1>. SUFFICES ASSUME Init PROVE IInv
  OBVIOUS
<1>1. SyncOK
  <2>1. raced \in BOOLEAN /\ asleep \in SUBSET Threads
    BY DEF Init
  <2>2. register \in [Threads -> Int]
    BY DEF Init
  <2>. QED
    BY <2>1, <2>2 DEF Init, SyncOK
<1>2. DataOK
  BY StatsAssumption DEF Init, DataOK, Phases, Nothing, Times
<1>3. CountBounded
  BY StatsAssumption DEF Init, CountBounded
<1>4. CopyBounded /\ CountedServed /\ SummandsBounded
  BY DEF Init, CopyBounded, CountedServed, SummandsBounded
<1>. QED
  BY <1>1, <1>2, <1>3, <1>4 DEF IInv

-----------------------------------------------------------------------------
\* A step that leaves the data alone keeps what the invariant says of it.
LEMMA DataUnchanged ==
  ASSUME IInv, SyncOK', UNCHANGED data
  PROVE  IInv'
<1>1. DataOK'
  BY DEF IInv, DataOK, data
<1>2. CountBounded'
  BY DEF IInv, CountBounded, data
<1>3. CopyBounded' /\ CountedServed' /\ SummandsBounded'
  BY DEF IInv, CopyBounded, CountedServed, SummandsBounded, data
<1>. QED
  BY <1>1, <1>2, <1>3 DEF IInv

\* A step that leaves the lock alone keeps the types of its variables.
LEMMA SyncUnchanged == SyncOK /\ UNCHANGED sync => SyncOK'
  BY DEF SyncOK, sync

\* The single steps of the lock functions keep the types of its variables.
LEMMA SyncSteps ==
  ASSUME SyncOK, NEW t \in Threads, NEW at, NEW next
  PROVE  /\ Lock(t, at, next) => SyncOK'
         /\ Unlock(t, at, next) => SyncOK'
         /\ Wait(t, at, next) => SyncOK'
         /\ StoreReaders(t, at, next) => SyncOK'
         /\ StoreWaitingWriters(t, at, next) => SyncOK'
         /\ \A value \in Int : Load(t, at, value, next) => SyncOK'
         /\ \A value \in {0, 1} : SetWriting(t, at, value, next) => SyncOK'
         /\ \A condition \in BOOLEAN : Broadcast(t, at, condition, next) => SyncOK'
<1>1. Lock(t, at, next) => SyncOK'
  BY DEF SyncOK, Lock, counters
<1>2. Unlock(t, at, next) => SyncOK'
  BY DEF SyncOK, Unlock, counters, Intrudes
<1>3. Wait(t, at, next) => SyncOK'
  BY DEF SyncOK, Wait, counters
<1>4. StoreReaders(t, at, next) => SyncOK'
  BY DEF SyncOK, StoreReaders
<1>5. StoreWaitingWriters(t, at, next) => SyncOK'
  BY DEF SyncOK, StoreWaitingWriters
<1>6. \A value \in Int : Load(t, at, value, next) => SyncOK'
  BY DEF SyncOK, Load, counters
<1>7. \A value \in {0, 1} : SetWriting(t, at, value, next) => SyncOK'
  BY DEF SyncOK, SetWriting, Intrudes
<1>8. \A condition \in BOOLEAN : Broadcast(t, at, condition, next) => SyncOK'
  BY DEF SyncOK, Broadcast, counters, Intrudes
<1>. QED
  BY <1>1, <1>2, <1>3, <1>4, <1>5, <1>6, <1>7, <1>8

\* A test of the lock functions keeps the types.
LEMMA TestStep ==
  ASSUME SyncOK, NEW t, NEW at, NEW condition, NEW yes, NEW no,
         Test(t, at, condition, yes, no)
  PROVE  SyncOK'
  BY SyncUnchanged DEF Test

\* Every step of a lock function keeps the types of the lock's variables.
LEMMA LockFunctions ==
  ASSUME SyncOK, NEW t \in Threads, LockStep(t)
  PROVE  SyncOK'
<1>. DEFINE readers == counter_LEITURA_ATUAL
            queue == counter_ESCRITORES_ESPERA
<1>1. readers + 1 \in Int /\ readers - 1 \in Int /\ queue + 1 \in Int /\ queue - 1 \in Int
  BY DEF SyncOK
<1>2. CASE comeca_leitura_stats(t)
  BY <1>1, <1>2, SyncSteps, TestStep DEF comeca_leitura_stats
<1>3. CASE termina_leitura_stats(t)
  <2>1. (counter_LEITURA_ATUAL = 0) \in BOOLEAN
    OBVIOUS
  <2>. QED
    BY <1>1, <1>3, <2>1, SyncSteps DEF termina_leitura_stats
<1>4. CASE comeca_escrita_stats(t)
  BY <1>1, <1>4, SyncSteps, TestStep DEF comeca_escrita_stats
<1>5. CASE termina_escrita_stats(t)
  BY <1>5, SyncSteps DEF termina_escrita_stats
<1>. QED
  BY <1>2, <1>3, <1>4, <1>5 DEF LockStep

-----------------------------------------------------------------------------
\* A step that changes no counter, count or copy, and that brings no thread to
\* a phase the invariant speaks about, keeps the bounds.
LEMMA BoundsKept ==
  ASSUME IInv, DataOK', UNCHANGED <<n, served>>,
         \A t \in Threads :
           /\ phase'[t] = "storeCount" =>
                phase[t] = "storeCount" /\ local'[t] = local[t] /\ op'[t] = op[t]
           /\ phase'[t] = "storeAverage" =>
                /\ phase[t] = "storeAverage" /\ added'[t] = added[t]
                /\ op'[t] = op[t] /\ counted'[t] = counted[t]
           /\ counted'[t] => counted[t] /\ op'[t] = op[t]
  PROVE  CountBounded' /\ CopyBounded' /\ CountedServed' /\ SummandsBounded'
<1>1. CountBounded'
  BY DEF IInv, CountBounded
<1>2. CopyBounded'
  BY DEF IInv, CopyBounded
<1>3. CountedServed'
  BY DEF IInv, CountedServed
<1>4. SummandsBounded'
  BY DEF IInv, SummandsBounded
<1>. QED
  BY <1>1, <1>2, <1>3, <1>4

\* A request that arrives keeps the bounds on the counters.
LEMMA ReceiveStep ==
  ASSUME IInv, NEW t \in Threads, NEW request \in Counted \cup {Refused, STATS},
         Receive(t, request)
  PROVE  IInv'
<1>1. SyncOK'
  BY SyncUnchanged DEF IInv, Receive
<1>2. phase'[t] \in {"answer", "loadReport", "loadCount"}
      /\ (phase'[t] = "loadCount" => request \in Counted)
      /\ phase' \in [Threads -> Phases]
  BY DEF IInv, DataOK, Receive, Phases
<1>3. \A u \in Threads : u # t => phase'[u] = phase[u] /\ op'[u] = op[u]
  BY DEF IInv, DataOK, Receive
<1>4. DataOK'
  <2>1. started' \in [Threads -> 0 .. MaxRequests]
    BY StatsAssumption DEF IInv, DataOK, Receive
  <2>2. op' \in [Threads -> Counted \cup {Refused, STATS}] /\ op'[t] = request
    BY DEF IInv, DataOK, Receive
  <2>3. \A u \in Threads :
          phase'[u] \in {"loadCount", "storeCount"} => op'[u] \in Counted
    BY <1>2, <1>3, <2>2 DEF IInv, DataOK
  <2>4. UNCHANGED <<n, time, local, added, total, served>>
    BY DEF Receive
  <2>5. counted' \in [Threads -> BOOLEAN]
    BY DEF IInv, DataOK, Receive
  <2>. QED
    BY <1>2, <2>1, <2>2, <2>3, <2>4, <2>5 DEF IInv, DataOK
<1>5. ~counted'[t] /\ \A u \in Threads : u # t => counted'[u] = counted[u]
  BY DEF IInv, DataOK, Receive
<1>6. UNCHANGED <<n, local, added, served>>
  BY DEF Receive
<1>7. CountBounded' /\ CopyBounded' /\ CountedServed' /\ SummandsBounded'
  BY <1>2, <1>3, <1>4, <1>5, <1>6, BoundsKept
<1>. QED
  BY <1>1, <1>4, <1>7 DEF IInv

\* n_times_GET is read: the copy is within the bounds of the counter.
LEMMA LoadCountStep ==
  ASSUME IInv, NEW t \in Threads, LoadCount(t)
  PROVE  IInv'
<1>1. SyncOK'
  BY SyncUnchanged DEF IInv, LoadCount
<1>2. op[t] \in Counted
  BY DEF IInv, DataOK, LoadCount
<1>3. /\ n[op[t]] \in Int /\ firstCounts[op[t]] \in Int /\ served[op[t]] \in Nat
      /\ n[op[t]] >= firstCounts[op[t]]
      /\ n[op[t]] <= firstCounts[op[t]] + served[op[t]]
  <2>1. n[op[t]] \in Int /\ firstCounts[op[t]] \in Int /\ served[op[t]] \in Nat
    BY <1>2, StatsAssumption DEF IInv, DataOK
  <2>. QED
    BY <1>2, <2>1 DEF IInv, CountBounded
<1>4. /\ local' \in [Threads -> Int]
      /\ local'[t] = n[op[t]] + 1
      /\ \A u \in Threads : u # t => local'[u] = local[u]
  BY <1>3 DEF IInv, DataOK, LoadCount
<1>5. /\ phase' \in [Threads -> Phases]
      /\ phase'[t] = "storeCount"
      /\ \A u \in Threads : u # t => phase'[u] = phase[u]
  BY DEF IInv, DataOK, LoadCount, Phases
<1>6. UNCHANGED <<n, time, op, added, total, counted, served, started>>
  BY DEF LoadCount
<1>7. DataOK'
  BY <1>2, <1>4, <1>5, <1>6 DEF IInv, DataOK
<1>8. CopyBounded'
  <2>. SUFFICES ASSUME NEW u \in Threads, phase'[u] = "storeCount"
                PROVE  /\ local'[u] >= firstCounts[op[u]] + 1
                       /\ local'[u] <= firstCounts[op[u]] + served[op[u]] + 1
    BY <1>6 DEF CopyBounded
  <2>1. CASE u = t
    BY <1>3, <1>4, <2>1
  <2>2. CASE u # t
    BY <1>4, <1>5, <2>2 DEF IInv, CopyBounded
  <2>. QED
    BY <2>1, <2>2
<1>9. CountBounded' /\ CountedServed'
  BY <1>6 DEF IInv, CountBounded, CountedServed
<1>10. SummandsBounded'
  BY <1>5, <1>6 DEF IInv, SummandsBounded
<1>. QED
  BY <1>1, <1>7, <1>8, <1>9, <1>10 DEF IInv

\* n_times_GET is written: one more count has been stored, and the counter
\* holds a copy that was within the bounds.
LEMMA StoreCountStep ==
  ASSUME IInv, NEW t \in Threads, StoreCount(t)
  PROVE  IInv'
<1>1. SyncOK'
  BY SyncUnchanged DEF IInv, StoreCount
<1>2. op[t] \in Counted
  BY DEF IInv, DataOK, StoreCount
<1>3. /\ \A o \in Counted : n[o] \in Int /\ firstCounts[o] \in Int /\ served[o] \in Nat
      /\ local[t] \in Int
  BY StatsAssumption DEF IInv, DataOK
<1>4. /\ local[t] >= firstCounts[op[t]] + 1
      /\ local[t] <= firstCounts[op[t]] + served[op[t]] + 1
  BY DEF IInv, CopyBounded, StoreCount
<1>5. /\ n' \in [Counted -> Int]
      /\ n'[op[t]] = local[t]
      /\ \A o \in Counted : o # op[t] => n'[o] = n[o]
  BY <1>2, <1>3 DEF IInv, DataOK, StoreCount
<1>6. /\ served' \in [Counted -> Nat]
      /\ served'[op[t]] = served[op[t]] + 1
      /\ \A o \in Counted : o # op[t] => served'[o] = served[o]
  BY <1>2, <1>3 DEF IInv, DataOK, StoreCount
<1>7. /\ phase' \in [Threads -> Phases]
      /\ phase'[t] = "answer"
      /\ \A u \in Threads : u # t => phase'[u] = phase[u]
  BY DEF IInv, DataOK, StoreCount, Phases
<1>8. /\ counted' \in [Threads -> BOOLEAN]
      /\ \A u \in Threads : u # t => counted'[u] = counted[u]
  BY DEF IInv, DataOK, StoreCount
<1>9. UNCHANGED <<time, op, local, added, total, started>>
  BY DEF StoreCount
<1>10. DataOK'
  BY <1>5, <1>6, <1>7, <1>8, <1>9 DEF IInv, DataOK
<1>11. CountBounded'
  <2>. SUFFICES ASSUME NEW o \in Counted
                PROVE  /\ n'[o] <= firstCounts[o] + served'[o]
                       /\ n'[o] >= firstCounts[o] + (IF served'[o] > 0 THEN 1 ELSE 0)
    BY DEF CountBounded
  <2>1. CASE o = op[t]
    BY <1>3, <1>4, <1>5, <1>6, <2>1
  <2>2. CASE o # op[t]
    BY <1>3, <1>5, <1>6, <2>2 DEF IInv, CountBounded
  <2>. QED
    BY <2>1, <2>2
<1>12. CopyBounded'
  <2>. SUFFICES ASSUME NEW u \in Threads, phase'[u] = "storeCount"
                PROVE  /\ local[u] >= firstCounts[op[u]] + 1
                       /\ local[u] <= firstCounts[op[u]] + served'[op[u]] + 1
    BY <1>9 DEF CopyBounded
  <2>1. phase[u] = "storeCount" /\ op[u] \in Counted /\ local[u] \in Int
    BY <1>7 DEF IInv, DataOK
  <2>2. /\ local[u] >= firstCounts[op[u]] + 1
        /\ local[u] <= firstCounts[op[u]] + served[op[u]] + 1
    BY <2>1 DEF IInv, CopyBounded
  <2>3. served'[op[u]] >= served[op[u]]
    BY <1>3, <1>6, <2>1
  <2>. QED
    BY <1>3, <1>6, <2>1, <2>2, <2>3
<1>13. CountedServed'
  <2>. SUFFICES ASSUME NEW u \in Threads, counted'[u]
                PROVE  op[u] \in Counted /\ served'[op[u]] > 0
    BY <1>9 DEF CountedServed
  <2>1. CASE u = t
    BY <1>2, <1>3, <1>6, <2>1
  <2>2. CASE u # t
    <3>1. op[u] \in Counted /\ served[op[u]] > 0
      BY <1>8, <2>2 DEF IInv, CountedServed
    <3>. QED
      BY <1>2, <1>3, <1>6, <3>1
  <2>. QED
    BY <2>1, <2>2
<1>14. SummandsBounded'
  BY <1>7, <1>8, <1>9 DEF IInv, SummandsBounded
<1>. QED
  BY <1>1, <1>10, <1>11, <1>12, <1>13, <1>14 DEF IInv

\* The counters are read for the average.
LEMMA LoadAverageStep ==
  ASSUME IInv, NEW t \in Threads, LoadAverage(t)
  PROVE  IInv'
<1>1. SyncOK'
  BY SyncUnchanged DEF IInv, LoadAverage
<1>2. /\ added' \in [Threads -> [Counted -> Int]]
      /\ added'[t] = n
      /\ \A u \in Threads : u # t => added'[u] = added[u]
  BY DEF IInv, DataOK, LoadAverage
<1>3. /\ phase' \in [Threads -> Phases]
      /\ phase'[t] = "storeAverage"
      /\ \A u \in Threads : u # t => phase'[u] = phase[u]
  BY DEF IInv, DataOK, LoadAverage, Phases
<1>4. total' \in [Threads -> BOOLEAN]
  BY DEF IInv, DataOK, LoadAverage
<1>5. UNCHANGED <<n, time, op, local, counted, served, started>>
  BY DEF LoadAverage
<1>6. DataOK'
  BY <1>2, <1>3, <1>4, <1>5 DEF IInv, DataOK
<1>7. CountBounded' /\ CopyBounded' /\ CountedServed'
  BY <1>3, <1>5 DEF IInv, CountBounded, CopyBounded, CountedServed
<1>8. SummandsBounded'
  <2>. SUFFICES ASSUME NEW u \in Threads, phase'[u] = "storeAverage"
                PROVE  /\ \A o \in Counted : added'[u][o] >= firstCounts[o]
                       /\ counted[u] => added'[u][op[u]] >= firstCounts[op[u]] + 1
    BY <1>5 DEF SummandsBounded
  <2>1. CASE u = t
    <3>1. \A o \in Counted :
            n[o] >= firstCounts[o] + (IF served[o] > 0 THEN 1 ELSE 0)
      BY DEF IInv, CountBounded
    <3>2. \A o \in Counted : n[o] \in Int /\ firstCounts[o] \in Int /\ served[o] \in Nat
      BY StatsAssumption DEF IInv, DataOK
    <3>3. counted[t] => op[t] \in Counted /\ served[op[t]] > 0
      BY DEF IInv, CountedServed
    <3>. QED
      BY <1>2, <2>1, <3>1, <3>2, <3>3
  <2>2. CASE u # t
    BY <1>2, <1>3, <2>2 DEF IInv, SummandsBounded
  <2>. QED
    BY <2>1, <2>2
<1>. QED
  BY <1>1, <1>6, <1>7, <1>8 DEF IInv

\* The end of a request forgets the local variables.
LEMMA EndRequestKeeps ==
  ASSUME IInv, NEW t \in Threads, EndRequest(t), SyncOK', time' \in Times,
         UNCHANGED <<n, served, started>>
  PROVE  IInv'
<1>1. DataOK'
  <2>1. phase' \in [Threads -> Phases] /\ op' \in [Threads -> Counted \cup {Refused, STATS}]
    BY DEF IInv, DataOK, EndRequest, Phases
  <2>2. \A u \in Threads : phase'[u] \in {"loadCount", "storeCount"} => op'[u] \in Counted
    BY DEF IInv, DataOK, EndRequest
  <2>3. local' \in [Threads -> Int] /\ added' \in [Threads -> [Counted -> Int]]
    BY DEF IInv, DataOK, EndRequest, Nothing
  <2>4. total' \in [Threads -> BOOLEAN]
    BY DEF IInv, DataOK, EndRequest, Times
  <2>5. counted' \in [Threads -> BOOLEAN]
    BY DEF IInv, DataOK, EndRequest
  <2>. QED
    BY <2>1, <2>2, <2>3, <2>4, <2>5 DEF IInv, DataOK
<1>2. /\ phase'[t] = "none" /\ ~counted'[t]
      /\ \A u \in Threads : u # t =>
           /\ phase'[u] = phase[u] /\ op'[u] = op[u] /\ local'[u] = local[u]
           /\ added'[u] = added[u] /\ counted'[u] = counted[u]
  BY DEF IInv, DataOK, EndRequest
<1>3. CountBounded' /\ CopyBounded' /\ CountedServed' /\ SummandsBounded'
  BY <1>1, <1>2, BoundsKept
<1>. QED
  BY <1>1, <1>3 DEF IInv

\* A step that only chooses the answer, or goes on to the average.
LEMMA PhaseStep ==
  ASSUME IInv, NEW t \in Threads, NEW next \in {"answer", "answerStats", "loadAverage"},
         phase' = [phase EXCEPT ![t] = next],
         UNCHANGED <<sync, n, time, op, local, added, total, counted, served, started>>
  PROVE  IInv'
<1>1. SyncOK'
  BY SyncUnchanged DEF IInv
<1>2. /\ phase' \in [Threads -> Phases] /\ phase'[t] = next
      /\ \A u \in Threads : u # t => phase'[u] = phase[u]
  BY DEF IInv, DataOK, Phases
<1>3. DataOK'
  BY <1>2 DEF IInv, DataOK
<1>4. CountBounded' /\ CopyBounded' /\ CountedServed' /\ SummandsBounded'
  BY <1>2, <1>3, BoundsKept
<1>. QED
  BY <1>1, <1>3, <1>4 DEF IInv

\* The new average is one of the three kinds of values.
LEMMA AveragesTimes ==
  \A finite, pedidos : Averages(finite, pedidos) \subseteq Times
  BY DEF Averages, Times

-----------------------------------------------------------------------------
\* Every step of the specification keeps the invariant.
THEOREM Inductive == IInv /\ [Next]_vars => IInv'
<1>. SUFFICES ASSUME IInv, [Next]_vars PROVE IInv'
  OBVIOUS
<1>1. CASE UNCHANGED vars
  <2>1. SyncOK' /\ UNCHANGED data
    BY <1>1, SyncUnchanged DEF vars, IInv
  <2>. QED
    BY <2>1, DataUnchanged
<1>2. CASE Next
  <2>. PICK t \in Threads :
         \/ \E request \in Counted \cup {Refused, STATS} : Receive(t, request)
         \/ Serve(t)
         \/ ReplyFails(t)
         \/ SpuriousWakeup(t)
    BY <1>2 DEF Next
  <2>1. CASE \E request \in Counted \cup {Refused, STATS} : Receive(t, request)
    BY <2>1, ReceiveStep
  <2>2. CASE LockStep(t)
    <3>1. SyncOK' /\ UNCHANGED data
      BY <2>2, LockFunctions DEF IInv, LockStep
    <3>. QED
      BY <3>1, DataUnchanged
  <2>3. CASE LoadCount(t)
    BY <2>3, LoadCountStep
  <2>4. CASE StoreCount(t)
    BY <2>4, StoreCountStep
  <2>5. CASE LoadReport(t)
    <3>1. ReportOutcomes \subseteq {"answer", "answerStats"}
      BY DEF ReportOutcomes
    <3>. QED
      BY <2>5, <3>1, PhaseStep DEF LoadReport
  <2>6. CASE Reply(t)
    BY <2>6, PhaseStep DEF Reply
  <2>7. CASE ReplyStats(t) \/ ReplyFails(t)
    <3>1. /\ EndRequest(t) /\ time' = time
          /\ UNCHANGED <<sync, n, served, started>>
      BY <2>7 DEF ReplyStats, ReplyFails
    <3>2. SyncOK' /\ time' \in Times
      BY <3>1, SyncUnchanged DEF IInv, DataOK
    <3>. QED
      BY <3>1, <3>2, EndRequestKeeps
  <2>8. CASE LoadAverage(t)
    BY <2>8, LoadAverageStep
  <2>9. CASE StoreAverage(t)
    <3>1. /\ EndRequest(t) /\ time' \in Averages(total[t], n_pedidos(t))
          /\ UNCHANGED <<sync, n, served, started>>
      BY <2>9 DEF StoreAverage
    <3>2. SyncOK' /\ time' \in Times
      BY <3>1, AveragesTimes, SyncUnchanged DEF IInv
    <3>. QED
      BY <3>1, <3>2, EndRequestKeeps
  <2>10. CASE SpuriousWakeup(t)
    <3>1. SyncOK' /\ UNCHANGED data
      BY <2>10 DEF IInv, SyncOK, SpuriousWakeup, counters
    <3>. QED
      BY <3>1, DataUnchanged
  <2>. QED
    BY <2>1, <2>2, <2>3, <2>4, <2>5, <2>6, <2>7, <2>8, <2>9, <2>10 DEF Serve
<1>. QED
  BY <1>1, <1>2

\* The invariant holds in every reachable state.
THEOREM Invariance == Spec => []IInv
  BY InitIInv, Inductive, PTL DEF Spec

\* Type correctness of the statistics.
THEOREM TypeCorrectness == Spec => []TypeOK
  BY Invariance, IInvImplies, PTL

\* Whatever the interleaving, a counter counts at least once what was counted,
\* and never more than was counted.
THEOREM CountsAreBounded == Spec => []CountBounded
  BY Invariance, IInvImplies, PTL

\* update_stats divides a counted request's time by a positive number.
THEOREM DivisorsArePositive == Spec => []DivisorPositive
  BY Invariance, IInvImplies, PTL

=============================================================================
