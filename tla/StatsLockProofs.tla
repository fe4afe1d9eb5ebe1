--------------------------- MODULE StatsLockProofs ---------------------------
(***************************************************************************)
(* Until a thread has intruded on another one through the missing lock of  *)
(* termina_escrita_stats, the reader/writer lock of the statistics keeps   *)
(* writers alone, for any number of threads and requests.                  *)
(***************************************************************************)
EXTENDS StatsProofs, FiniteSetTheorems

\* Between pthread_mutex_lock and pthread_mutex_unlock (or pthread_cond_wait).
LockedLabels ==
  {"readerSeesWriter", "readerSeesQueue", "readerWaits", "loadReaders", "storeReaders",
   "unlockReader", "loadLeaving", "storeLeaving", "wakeWriters", "unlockLeaving",
   "loadQueue", "storeQueue", "writerSeesReaders", "writerSeesWriter", "writerWaits",
   "setWriting", "loadUnqueue", "storeUnqueue", "unlockWriter"}

\* Who is between the two has locked the mutex, and nobody has unlocked it since.
MutexHeld ==
  \A t \in Threads : pc[t] \in LockedLabels => m_stats = 1 /\ holder = t

\* What a thread has loaded from a counter is still up to date.
LoadsFresh ==
  \A t \in Threads :
    /\ pc[t] = "storeReaders" => register[t] = counter_LEITURA_ATUAL + 1
    /\ pc[t] = "storeLeaving" => register[t] = counter_LEITURA_ATUAL - 1

\* What a thread has tested on its way in still holds.
TestsFresh ==
  \A t \in Threads :
    /\ pc[t] \in {"readerSeesQueue", "loadReaders", "storeReaders", "setWriting"} =>
         counter_ESCRITA_ATUAL = 0
    /\ pc[t] \in {"writerSeesWriter", "setWriting"} => counter_LEITURA_ATUAL = 0

CountersExact ==
  /\ counter_LEITURA_ATUAL = Cardinality(Readers)
  /\ counter_ESCRITA_ATUAL = Cardinality(Writers)

Guarded == MutexHeld /\ LoadsFresh /\ TestsFresh /\ CountersExact /\ Exclusion

LockInv ==
  /\ SyncOK
  /\ pc = [t \in Threads |-> pc[t]]
  /\ ~raced => Guarded

-----------------------------------------------------------------------------
(* Frames.                                                                 *)

\* Only the thread that steps moves.
LEMMA GotoMoves ==
  ASSUME LockInv, NEW t \in Threads, NEW at, NEW next, Goto(t, at, next)
  PROVE  /\ pc[t] = at /\ pc'[t] = next
         /\ \A u \in Threads : u # t => pc'[u] = pc[u]
         /\ pc' = [u \in Threads |-> pc'[u]]
BY DEF LockInv, Goto

\* The readers and writers inside are finitely many.
LEMMA FiniteInside ==
  /\ IsFiniteSet(Readers) /\ IsFiniteSet(Writers)
  /\ Cardinality(Readers) \in Nat /\ Cardinality(Writers) \in Nat
  /\ Cardinality(Readers) = 0 <=> Readers = {}
  /\ Cardinality(Writers) = 0 <=> Writers = {}
<1>1. Readers \subseteq Threads /\ Writers \subseteq Threads
  BY DEF Readers, Writers
<1>2. IsFiniteSet(Readers) /\ IsFiniteSet(Writers)
  BY <1>1, StatsAssumption, FS_Subset
<1>. QED
  BY <1>2, FS_CardinalityType, FS_EmptySet

\* A thread between lock and unlock is the only one there.
LEMMA AloneLocked ==
  ASSUME Guarded, NEW t \in Threads, pc[t] \in LockedLabels
  PROVE  \A u \in Threads : pc[u] \in LockedLabels => u = t
BY DEF Guarded, MutexHeld

\* A thread that goes on within its role changes neither set.
LEMMA RolesKept ==
  ASSUME NEW t \in Threads,
         \A u \in Threads : u # t => pc'[u] = pc[u],
         pc[t] \in ReaderLabels <=> pc'[t] \in ReaderLabels,
         pc[t] \in WriterLabels <=> pc'[t] \in WriterLabels,
         UNCHANGED <<counter_LEITURA_ATUAL, counter_ESCRITA_ATUAL>>,
         CountersExact, Exclusion
  PROVE  CountersExact' /\ Exclusion'
<1>1. Readers' = Readers /\ Writers' = Writers
  BY DEF Readers, Writers
<1>. QED
  BY <1>1 DEF CountersExact, Exclusion

-----------------------------------------------------------------------------
(* Single steps of the lock functions.                                     *)

\* What a thread needs to know at a label: of the mutex, of what it has loaded and
\* of what it has tested.
Knows(t, label) ==
  /\ label \in LockedLabels => m_stats = 1 /\ holder = t
  /\ label = "storeReaders" => register[t] = counter_LEITURA_ATUAL + 1
  /\ label = "storeLeaving" => register[t] = counter_LEITURA_ATUAL - 1
  /\ label \in {"readerSeesQueue", "loadReaders", "storeReaders", "setWriting"} =>
       counter_ESCRITA_ATUAL = 0
  /\ label \in {"writerSeesWriter", "setWriting"} => counter_LEITURA_ATUAL = 0

\* A step that leaves the counters alone, takes the mutex from nobody and knows
\* what it needs to know where it goes.
LEMMA QuietStep ==
  ASSUME LockInv, Guarded, NEW t \in Threads, NEW at, NEW next, Goto(t, at, next),
         at \in ReaderLabels <=> next \in ReaderLabels,
         at \in WriterLabels <=> next \in WriterLabels,
         UNCHANGED <<counter_LEITURA_ATUAL, counter_ESCRITA_ATUAL>>,
         \A u \in Threads : u # t => register'[u] = register[u],
         \A u \in Threads : u # t /\ pc[u] \in LockedLabels => m_stats' = 1 /\ holder' = u,
         Knows(t, next)'
  PROVE  Guarded'
<1>1. /\ pc[t] = at /\ pc'[t] = next
      /\ \A u \in Threads : u # t => pc'[u] = pc[u]
  BY GotoMoves
<1>2. CountersExact' /\ Exclusion'
  BY <1>1, RolesKept DEF Guarded
<1>3. MutexHeld'
  BY <1>1 DEF MutexHeld, Knows
<1>4. LoadsFresh' /\ TestsFresh'
  BY <1>1 DEF LoadsFresh, TestsFresh, Guarded, Knows
<1>. QED
  BY <1>2, <1>3, <1>4 DEF Guarded

\* pthread_mutex_lock: nobody is between lock and unlock.
LEMMA LockKeeps ==
  ASSUME LockInv, Guarded, NEW t \in Threads, NEW at,
         NEW next \in {"readerSeesWriter", "loadLeaving", "loadQueue", "writerSeesReaders"},
         at \in ReaderLabels <=> next \in ReaderLabels,
         at \in WriterLabels <=> next \in WriterLabels,
         Lock(t, at, next)
  PROVE  Guarded'
<1>1. /\ Goto(t, at, next) /\ m_stats = 0 /\ m_stats' = 1 /\ holder' = t
      /\ UNCHANGED <<counters, register>>
  BY DEF Lock
<1>2. \A u \in Threads : pc[u] \notin LockedLabels
  BY <1>1 DEF Guarded, MutexHeld
<1>3. Knows(t, next)'
  BY <1>1 DEF Knows
<1>. QED
  BY <1>1, <1>2, <1>3, QuietStep DEF counters

\* pthread_mutex_unlock, by its holder or while nobody holds the mutex.
LEMMA UnlockKeeps ==
  ASSUME LockInv, Guarded, NEW t \in Threads, NEW at, NEW next, next \notin LockedLabels,
         at \in ReaderLabels <=> next \in ReaderLabels,
         at \in WriterLabels <=> next \in WriterLabels,
         Unlock(t, at, next), ~raced'
  PROVE  Guarded'
<1>1. /\ Goto(t, at, next) /\ ~Intrudes(t)
      /\ UNCHANGED <<counters, register>>
  BY DEF Unlock
<1>2. \A u \in Threads : u # t => pc[u] \notin LockedLabels
  BY <1>1 DEF Guarded, MutexHeld, Intrudes
<1>3. Knows(t, next)'
  BY DEF Knows, LockedLabels
<1>. QED
  BY <1>1, <1>2, <1>3, QuietStep DEF counters

\* The first half of pthread_cond_wait.
LEMMA WaitKeeps ==
  ASSUME LockInv, Guarded, NEW t \in Threads,
         NEW at \in {"readerWaits", "writerWaits"}, NEW next \in {"readerWakes", "writerWakes"},
         Wait(t, at, next)
  PROVE  Guarded'
<1>1. Goto(t, at, next) /\ UNCHANGED <<counters, register>>
  BY DEF Wait
<1>2. \A u \in Threads : u # t => pc[u] \notin LockedLabels
  BY <1>1, GotoMoves, AloneLocked DEF LockedLabels
<1>3. Knows(t, next)'
  BY DEF Knows, LockedLabels
<1>4. /\ at \notin ReaderLabels /\ next \notin ReaderLabels
      /\ at \notin WriterLabels /\ next \notin WriterLabels
  BY DEF ReaderLabels, WriterLabels
<1>. QED
  BY <1>1, <1>2, <1>3, <1>4, QuietStep DEF counters

\* A test or an access of the holder that changes no counter of those inside.
LEMMA HolderKeeps ==
  ASSUME LockInv, Guarded, NEW t \in Threads, NEW at \in LockedLabels, NEW next,
         at \in ReaderLabels <=> next \in ReaderLabels,
         at \in WriterLabels <=> next \in WriterLabels,
         Goto(t, at, next),
         UNCHANGED <<m_stats, holder, counter_LEITURA_ATUAL, counter_ESCRITA_ATUAL>>,
         \A u \in Threads : u # t => register'[u] = register[u],
         Knows(t, next)'
  PROVE  Guarded'
<1>1. \A u \in Threads : u # t => pc[u] \notin LockedLabels
  BY GotoMoves, AloneLocked
<1>. QED
  BY <1>1, QuietStep

-----------------------------------------------------------------------------
(* The four steps that change who is inside.                               *)

\* A reader enters: no writer is inside.
LEMMA ReaderEnters ==
  ASSUME LockInv, Guarded, NEW t \in Threads,
         StoreReaders(t, "storeReaders", "unlockReader")
  PROVE  Guarded'
<1>1. /\ pc[t] = "storeReaders" /\ pc'[t] = "unlockReader"
      /\ \A u \in Threads : u # t => pc'[u] = pc[u]
  BY GotoMoves DEF StoreReaders
<1>2. \A u \in Threads : u # t => pc[u] \notin LockedLabels
  BY <1>1, AloneLocked DEF LockedLabels
<1>3. /\ counter_LEITURA_ATUAL' = counter_LEITURA_ATUAL + 1
      /\ UNCHANGED <<m_stats, holder, counter_ESCRITA_ATUAL>>
  BY <1>1 DEF StoreReaders, Guarded, LoadsFresh
<1>4. Readers' = Readers \cup {t} /\ t \notin Readers /\ Writers' = Writers
  BY <1>1 DEF Readers, Writers, ReaderLabels, WriterLabels
<1>5. Cardinality(Readers') = Cardinality(Readers) + 1
  BY <1>4, FiniteInside, FS_AddElement
<1>6. CountersExact'
  BY <1>3, <1>4, <1>5 DEF Guarded, CountersExact
<1>7. Writers = {}
  BY <1>1, FiniteInside DEF Guarded, TestsFresh, CountersExact
<1>8. MutexHeld' /\ LoadsFresh' /\ TestsFresh'
  BY <1>1, <1>2, <1>3 DEF Guarded, MutexHeld, LoadsFresh, TestsFresh, LockedLabels
<1>. QED
  BY <1>4, <1>6, <1>7, <1>8 DEF Guarded, Exclusion

\* A reader leaves.
LEMMA ReaderLeaves ==
  ASSUME LockInv, Guarded, NEW t \in Threads,
         StoreReaders(t, "storeLeaving", "wakeWriters")
  PROVE  Guarded'
<1>1. /\ pc[t] = "storeLeaving" /\ pc'[t] = "wakeWriters"
      /\ \A u \in Threads : u # t => pc'[u] = pc[u]
  BY GotoMoves DEF StoreReaders
<1>2. \A u \in Threads : u # t => pc[u] \notin LockedLabels
  BY <1>1, AloneLocked DEF LockedLabels
<1>3. /\ counter_LEITURA_ATUAL' = counter_LEITURA_ATUAL - 1
      /\ UNCHANGED <<m_stats, holder, counter_ESCRITA_ATUAL>>
  BY <1>1 DEF StoreReaders, Guarded, LoadsFresh
<1>4. Readers' = Readers \ {t} /\ t \in Readers /\ Writers' = Writers
  BY <1>1 DEF Readers, Writers, ReaderLabels, WriterLabels
<1>5. Cardinality(Readers') = Cardinality(Readers) - 1
  BY <1>4, FiniteInside, FS_RemoveElement
<1>6. CountersExact'
  BY <1>3, <1>4, <1>5 DEF Guarded, CountersExact
<1>7. MutexHeld' /\ LoadsFresh' /\ TestsFresh'
  BY <1>1, <1>2, <1>3 DEF Guarded, MutexHeld, LoadsFresh, TestsFresh, LockedLabels
<1>. QED
  BY <1>4, <1>6, <1>7 DEF Guarded, Exclusion

\* A writer enters: nobody is inside.
LEMMA WriterEnters ==
  ASSUME LockInv, Guarded, NEW t \in Threads,
         SetWriting(t, "setWriting", 1, "loadUnqueue")
  PROVE  Guarded'
<1>1. /\ pc[t] = "setWriting" /\ pc'[t] = "loadUnqueue"
      /\ \A u \in Threads : u # t => pc'[u] = pc[u]
  BY GotoMoves DEF SetWriting
<1>2. \A u \in Threads : u # t => pc[u] \notin LockedLabels
  BY <1>1, AloneLocked DEF LockedLabels
<1>3. /\ counter_ESCRITA_ATUAL' = 1
      /\ UNCHANGED <<m_stats, holder, counter_LEITURA_ATUAL>>
  BY DEF SetWriting
<1>4. Readers = {} /\ Writers = {}
  BY <1>1, FiniteInside DEF Guarded, TestsFresh, CountersExact
<1>5. Readers' = {} /\ Writers' = {t}
  BY <1>1, <1>4 DEF Readers, Writers, ReaderLabels, WriterLabels
<1>6. CountersExact'
  BY <1>3, <1>4, <1>5, FS_Singleton DEF Guarded, CountersExact
<1>7. MutexHeld' /\ LoadsFresh' /\ TestsFresh'
  BY <1>1, <1>2, <1>3 DEF Guarded, MutexHeld, LoadsFresh, TestsFresh, LockedLabels
<1>. QED
  BY <1>5, <1>6, <1>7 DEF Guarded, Exclusion

\* The writer leaves, without the mutex, while nobody holds it.
LEMMA WriterLeaves ==
  ASSUME LockInv, Guarded, NEW t \in Threads,
         SetWriting(t, "clearWriting", 0, "wakeAll"), ~raced'
  PROVE  Guarded'
<1>1. /\ pc[t] = "clearWriting" /\ pc'[t] = "wakeAll"
      /\ \A u \in Threads : u # t => pc'[u] = pc[u]
  BY GotoMoves DEF SetWriting
<1>2. /\ counter_ESCRITA_ATUAL' = 0 /\ ~Intrudes(t)
      /\ UNCHANGED <<m_stats, holder, counter_LEITURA_ATUAL, register>>
  BY DEF SetWriting
<1>3. Writers = {t} /\ Readers = {}
  BY <1>1 DEF Guarded, Exclusion, Writers, WriterLabels
<1>4. Writers' = {} /\ Readers' = {}
  BY <1>1, <1>3 DEF Readers, Writers, ReaderLabels, WriterLabels
<1>5. CountersExact'
  BY <1>2, <1>3, <1>4, FS_EmptySet DEF Guarded, CountersExact
<1>6. MutexHeld' /\ LoadsFresh' /\ TestsFresh'
  BY <1>1, <1>2 DEF Guarded, MutexHeld, LoadsFresh, TestsFresh, LockedLabels
<1>. QED
  BY <1>4, <1>5, <1>6 DEF Guarded, Exclusion

-----------------------------------------------------------------------------
(* The lock functions.                                                     *)

\* comeca_leitura_stats.
LEMMA ReaderBegins ==
  ASSUME LockInv, Guarded, NEW t \in Threads, comeca_leitura_stats(t), ~raced'
  PROVE  Guarded'
<1>. USE DEF ReaderLabels, WriterLabels
<1>1. CASE \/ Lock(t, "lockReader", "readerSeesWriter")
           \/ Lock(t, "readerWakes", "readerSeesWriter")
  BY <1>1, LockKeeps
<1>2. ASSUME pc[t] \in LockedLabels
      PROVE  m_stats = 1 /\ holder = t
  BY <1>2 DEF Guarded, MutexHeld
<1>3. CASE Test(t, "readerSeesWriter", counter_ESCRITA_ATUAL = 1,
                   "readerWaits", "readerSeesQueue")
  <2>. DEFINE next == IF counter_ESCRITA_ATUAL = 1 THEN "readerWaits" ELSE "readerSeesQueue"
  <2>1. Goto(t, "readerSeesWriter", next) /\ UNCHANGED sync
    BY <1>3 DEF Test
  <2>2. Knows(t, next)'
    BY <1>2, <2>1 DEF Knows, Goto, LockedLabels, LockInv, SyncOK, sync
  <2>. QED
    BY <2>1, <2>2, HolderKeeps DEF LockedLabels, sync
<1>4. CASE Test(t, "readerSeesQueue", counter_ESCRITORES_ESPERA > 0,
                   "readerWaits", "loadReaders")
  <2>. DEFINE next == IF counter_ESCRITORES_ESPERA > 0 THEN "readerWaits" ELSE "loadReaders"
  <2>1. Goto(t, "readerSeesQueue", next) /\ UNCHANGED sync
    BY <1>4 DEF Test
  <2>2. Knows(t, next)'
    BY <1>2, <2>1 DEF Knows, Goto, LockedLabels, Guarded, TestsFresh, sync
  <2>. QED
    BY <2>1, <2>2, HolderKeeps DEF LockedLabels, sync
<1>5. CASE Wait(t, "readerWaits", "readerWakes")
  BY <1>5, WaitKeeps
<1>6. CASE Load(t, "loadReaders", counter_LEITURA_ATUAL + 1, "storeReaders")
  <2>1. /\ Goto(t, "loadReaders", "storeReaders")
        /\ register' = [register EXCEPT ![t] = counter_LEITURA_ATUAL + 1]
        /\ UNCHANGED <<m_stats, counters, holder>>
    BY <1>6 DEF Load
  <2>2. Knows(t, "storeReaders")'
    BY <1>2, <2>1 DEF Knows, Goto, LockedLabels, Guarded, TestsFresh, LockInv, SyncOK, counters
  <2>3. \A u \in Threads : u # t => register'[u] = register[u]
    BY <2>1 DEF LockInv, SyncOK
  <2>. QED
    BY <2>1, <2>2, <2>3, HolderKeeps DEF LockedLabels, counters
<1>7. CASE StoreReaders(t, "storeReaders", "unlockReader")
  BY <1>7, ReaderEnters
<1>8. CASE Unlock(t, "unlockReader", "reading")
  BY <1>8, UnlockKeeps DEF LockedLabels
<1>. QED
  BY <1>1, <1>3, <1>4, <1>5, <1>6, <1>7, <1>8 DEF comeca_leitura_stats

\* termina_leitura_stats.
LEMMA ReaderEnds ==
  ASSUME LockInv, Guarded, NEW t \in Threads, termina_leitura_stats(t), ~raced'
  PROVE  Guarded'
<1>. USE DEF ReaderLabels, WriterLabels
<1>1. CASE Lock(t, "lockLeaving", "loadLeaving")
  BY <1>1, LockKeeps
<1>2. ASSUME pc[t] \in LockedLabels
      PROVE  m_stats = 1 /\ holder = t
  BY <1>2 DEF Guarded, MutexHeld
<1>3. CASE Load(t, "loadLeaving", counter_LEITURA_ATUAL - 1, "storeLeaving")
  <2>1. /\ Goto(t, "loadLeaving", "storeLeaving")
        /\ register' = [register EXCEPT ![t] = counter_LEITURA_ATUAL - 1]
        /\ UNCHANGED <<m_stats, counters, holder>>
    BY <1>3 DEF Load
  <2>2. Knows(t, "storeLeaving")'
    BY <1>2, <2>1 DEF Knows, Goto, LockedLabels, LockInv, SyncOK, counters
  <2>3. \A u \in Threads : u # t => register'[u] = register[u]
    BY <2>1 DEF LockInv, SyncOK
  <2>. QED
    BY <2>1, <2>2, <2>3, HolderKeeps DEF LockedLabels, counters
<1>4. CASE StoreReaders(t, "storeLeaving", "wakeWriters")
  BY <1>4, ReaderLeaves
<1>5. CASE Broadcast(t, "wakeWriters", counter_LEITURA_ATUAL = 0, "unlockLeaving")
  <2>1. /\ Goto(t, "wakeWriters", "unlockLeaving")
        /\ UNCHANGED <<m_stats, counters, register, holder>>
    BY <1>5 DEF Broadcast
  <2>2. Knows(t, "unlockLeaving")'
    BY <1>2, <2>1 DEF Knows, Goto, LockedLabels
  <2>. QED
    BY <2>1, <2>2, HolderKeeps DEF LockedLabels, counters
<1>6. CASE Unlock(t, "unlockLeaving", AfterReading(t))
  BY <1>6, UnlockKeeps DEF LockedLabels, AfterReading
<1>. QED
  BY <1>1, <1>3, <1>4, <1>5, <1>6 DEF termina_leitura_stats

\* comeca_escrita_stats.
LEMMA WriterBegins ==
  ASSUME LockInv, Guarded, NEW t \in Threads, comeca_escrita_stats(t), ~raced'
  PROVE  Guarded'
<1>. USE DEF ReaderLabels, WriterLabels
<1>1. CASE \/ Lock(t, "lockWriter", "loadQueue")
           \/ Lock(t, "writerWakes", "writerSeesReaders")
  BY <1>1, LockKeeps
<1>2. ASSUME pc[t] \in LockedLabels
      PROVE  m_stats = 1 /\ holder = t
  BY <1>2 DEF Guarded, MutexHeld
<1>3. ASSUME NEW at, NEW value, NEW next, <<at, next>> \in {<<"loadQueue", "storeQueue">>, <<"loadUnqueue", "storeUnqueue">>},
             Load(t, at, value, next)
      PROVE  Guarded'
  <2>1. /\ Goto(t, at, next)
        /\ register' = [register EXCEPT ![t] = value]
        /\ UNCHANGED <<m_stats, counters, holder>>
    BY <1>3 DEF Load
  <2>2. Knows(t, next)'
    BY <1>2, <1>3, <2>1 DEF Knows, Goto, LockedLabels, counters
  <2>3. \A u \in Threads : u # t => register'[u] = register[u]
    BY <2>1 DEF LockInv, SyncOK
  <2>. QED
    BY <1>3, <2>1, <2>2, <2>3, HolderKeeps DEF LockedLabels, counters
<1>4. ASSUME NEW at, NEW next,
             <<at, next>> \in {<<"storeQueue", "writerSeesReaders">>, <<"storeUnqueue", "unlockWriter">>},
             StoreWaitingWriters(t, at, next)
      PROVE  Guarded'
  <2>1. /\ Goto(t, at, next)
        /\ register' = [register EXCEPT ![t] = 0]
        /\ UNCHANGED <<m_stats, holder, counter_LEITURA_ATUAL, counter_ESCRITA_ATUAL>>
    BY <1>4 DEF StoreWaitingWriters
  <2>2. Knows(t, next)'
    BY <1>2, <1>4, <2>1 DEF Knows, Goto, LockedLabels
  <2>3. \A u \in Threads : u # t => register'[u] = register[u]
    BY <2>1 DEF LockInv, SyncOK
  <2>. QED
    BY <1>4, <2>1, <2>2, <2>3, HolderKeeps DEF LockedLabels
<1>5. CASE Test(t, "writerSeesReaders", counter_LEITURA_ATUAL > 0,
                   "writerWaits", "writerSeesWriter")
  <2>. DEFINE next == IF counter_LEITURA_ATUAL > 0 THEN "writerWaits" ELSE "writerSeesWriter"
  <2>1. Goto(t, "writerSeesReaders", next) /\ UNCHANGED sync
    BY <1>5 DEF Test
  <2>2. ~(counter_LEITURA_ATUAL > 0) => counter_LEITURA_ATUAL = 0
    BY FiniteInside DEF Guarded, CountersExact
  <2>3. Knows(t, next)'
    BY <1>2, <2>1, <2>2 DEF Knows, Goto, LockedLabels, sync
  <2>. QED
    BY <2>1, <2>3, HolderKeeps DEF LockedLabels, sync
<1>6. CASE Test(t, "writerSeesWriter", counter_ESCRITA_ATUAL = 1,
                   "writerWaits", "setWriting")
  <2>. DEFINE next == IF counter_ESCRITA_ATUAL = 1 THEN "writerWaits" ELSE "setWriting"
  <2>1. Goto(t, "writerSeesWriter", next) /\ UNCHANGED sync
    BY <1>6 DEF Test
  <2>2. Knows(t, next)'
    BY <1>2, <2>1 DEF Knows, Goto, LockedLabels, LockInv, SyncOK, Guarded, TestsFresh, sync
  <2>. QED
    BY <2>1, <2>2, HolderKeeps DEF LockedLabels, sync
<1>7. CASE Wait(t, "writerWaits", "writerWakes")
  BY <1>7, WaitKeeps
<1>8. CASE SetWriting(t, "setWriting", 1, "loadUnqueue")
  BY <1>8, WriterEnters
<1>9. CASE Unlock(t, "unlockWriter", "writing")
  BY <1>9, UnlockKeeps DEF LockedLabels
<1>. QED
  BY <1>1, <1>3, <1>4, <1>5, <1>6, <1>7, <1>8, <1>9 DEF comeca_escrita_stats

\* termina_escrita_stats: no step of it has the mutex.
LEMMA WriterEnds ==
  ASSUME LockInv, Guarded, NEW t \in Threads, termina_escrita_stats(t), ~raced'
  PROVE  Guarded'
<1>. USE DEF ReaderLabels, WriterLabels
<1>1. CASE \/ Unlock(t, "firstUnlock", "clearWriting")
           \/ Unlock(t, "secondUnlock", AfterWriting(t))
  BY <1>1, UnlockKeeps DEF LockedLabels, AfterWriting
<1>2. CASE SetWriting(t, "clearWriting", 0, "wakeAll")
  BY <1>2, WriterLeaves
<1>3. CASE Broadcast(t, "wakeAll", TRUE, "secondUnlock")
  <2>1. /\ Goto(t, "wakeAll", "secondUnlock")
        /\ UNCHANGED <<m_stats, counters, register, holder>>
    BY <1>3 DEF Broadcast
  <2>2. Knows(t, "secondUnlock")'
    BY DEF Knows, LockedLabels
  <2>3. \A u \in Threads : pc[u] \in LockedLabels => m_stats' = 1 /\ holder' = u
    BY <2>1 DEF Guarded, MutexHeld
  <2>. QED
    BY <2>1, <2>2, <2>3, QuietStep DEF counters
<1>. QED
  BY <1>1, <1>2, <1>3 DEF termina_escrita_stats

-----------------------------------------------------------------------------
(* The invariant.                                                          *)

\* Every step that moves a thread is a Goto, and what has raced stays raced.
LEMMA StepsGo ==
  ASSUME LockInv, NEW t \in Threads,
         \/ \E request \in Counted \cup {Refused, STATS} : Receive(t, request)
         \/ Serve(t)
         \/ ReplyFails(t)
  PROVE  /\ raced => raced'
         /\ pc' = [u \in Threads |-> pc'[u]]
<1>1. ASSUME LockStep(t)
      PROVE  (raced => raced') /\ \E at, next : Goto(t, at, next)
  <2>. DEFINE Moves(at, next) == (raced => raced') /\ Goto(t, at, next)
  <2>1. \A at, next :
          /\ Lock(t, at, next) => Moves(at, next)
          /\ Unlock(t, at, next) => Moves(at, next)
          /\ Wait(t, at, next) => Moves(at, next)
          /\ StoreReaders(t, at, next) => Moves(at, next)
          /\ StoreWaitingWriters(t, at, next) => Moves(at, next)
    <3>. TAKE at, next
    <3>1. Lock(t, at, next) => Moves(at, next)
      BY DEF Lock
    <3>2. Unlock(t, at, next) => Moves(at, next)
      BY Zenon DEF Unlock
    <3>3. Wait(t, at, next) => Moves(at, next)
      BY DEF Wait
    <3>4. StoreReaders(t, at, next) => Moves(at, next)
      BY DEF StoreReaders
    <3>5. StoreWaitingWriters(t, at, next) => Moves(at, next)
      BY DEF StoreWaitingWriters
    <3>. QED
      BY <3>1, <3>2, <3>3, <3>4, <3>5
  <2>2. \A at, value, next :
          /\ Load(t, at, value, next) => Moves(at, next)
          /\ SetWriting(t, at, value, next) => Moves(at, next)
          /\ Broadcast(t, at, value, next) => Moves(at, next)
    <3>. TAKE at, value, next
    <3>1. Load(t, at, value, next) => Moves(at, next)
      BY DEF Load
    <3>2. SetWriting(t, at, value, next) => Moves(at, next)
      BY Zenon DEF SetWriting
    <3>3. Broadcast(t, at, value, next) => Moves(at, next)
      BY Zenon DEF Broadcast
    <3>. QED
      BY <3>1, <3>2, <3>3
  <2>3. \A at, condition, yes, no :
          Test(t, at, condition, yes, no) => \E next : Moves(at, next)
    BY DEF Test, sync
  <2>4. CASE comeca_leitura_stats(t)
    <3>. HIDE DEF Moves
    <3>1. \E at, next : Moves(at, next)
      BY <2>1, <2>2, <2>3, <2>4 DEF comeca_leitura_stats
    <3>. QED
      BY <3>1 DEF Moves
  <2>5. CASE termina_leitura_stats(t)
    <3>. HIDE DEF Moves
    <3>1. \E at, next : Moves(at, next)
      BY <2>1, <2>2, <2>5 DEF termina_leitura_stats
    <3>. QED
      BY <3>1 DEF Moves
  <2>6. CASE comeca_escrita_stats(t)
    <3>. HIDE DEF Moves
    <3>1. \E at, next : Moves(at, next)
      BY <2>1, <2>2, <2>3, <2>6 DEF comeca_escrita_stats
    <3>. QED
      BY <3>1 DEF Moves
  <2>7. CASE termina_escrita_stats(t)
    <3>. HIDE DEF Moves
    <3>1. \E at, next : Moves(at, next)
      BY <2>1, <2>2, <2>7 DEF termina_escrita_stats
    <3>. QED
      BY <3>1 DEF Moves
  <2>. QED
    BY <1>1, <2>4, <2>5, <2>6, <2>7 DEF LockStep
<1>2. CASE \E request \in Counted \cup {Refused, STATS} : Receive(t, request)
  <2>1. UNCHANGED sync /\ \E next : Goto(t, "idle", next)
    BY <1>2 DEF Receive
  <2>. QED
    BY <2>1, GotoMoves DEF sync
<1>3. CASE LoadCount(t) \/ StoreCount(t) \/ LoadReport(t) \/ LoadAverage(t) \/ StoreAverage(t)
  BY <1>3, GotoMoves DEF LoadCount, StoreCount, LoadReport, LoadAverage, StoreAverage, sync
<1>4. CASE Reply(t) \/ ReplyStats(t) \/ ReplyFails(t)
  BY <1>4, GotoMoves DEF Reply, ReplyStats, ReplyFails, sync
<1>. QED
  BY <1>1, <1>2, <1>3, <1>4, GotoMoves DEF Serve

\* The steps between the lock functions change neither lock nor roles.
LEMMA DataStepKeeps ==
  ASSUME LockInv, Guarded, NEW t \in Threads, UNCHANGED sync,
         NEW at, NEW next, Goto(t, at, next),
         <<at, next>> \in
           {<<"idle", "reply">>, <<"idle", "lockReader">>, <<"reading", "lockLeaving">>,
            <<"writing", "firstUnlock">>, <<"reply", "lockReader">>, <<"reply", "idle">>,
            <<"reply", "gone">>}
  PROVE  Guarded'
<1>1. /\ at \in ReaderLabels <=> next \in ReaderLabels
      /\ at \in WriterLabels <=> next \in WriterLabels
  BY DEF ReaderLabels, WriterLabels
<1>2. \A u \in Threads : pc[u] \in LockedLabels => m_stats' = 1 /\ holder' = u
  BY DEF Guarded, MutexHeld, sync
<1>3. Knows(t, next)'
  BY DEF Knows, LockedLabels
<1>. QED
  BY <1>1, <1>2, <1>3, QuietStep DEF sync

\* What invoke does between the lock functions leaves the lock alone.
LEMMA ServiceStep ==
  ASSUME LockInv, Guarded, NEW t \in Threads,
         \/ \E request \in Counted \cup {Refused, STATS} : Receive(t, request)
         \/ LoadCount(t) \/ StoreCount(t) \/ LoadReport(t) \/ Reply(t) \/ ReplyStats(t)
         \/ LoadAverage(t) \/ StoreAverage(t) \/ ReplyFails(t)
  PROVE  Guarded' /\ UNCHANGED sync
<1>1. CASE \E request \in Counted \cup {Refused, STATS} : Receive(t, request)
  <2>1. /\ UNCHANGED sync
        /\ Goto(t, "idle", "reply") \/ Goto(t, "idle", "lockReader")
    BY <1>1 DEF Receive
  <2>. QED
    BY <2>1, DataStepKeeps
<1>2. CASE LoadCount(t) \/ LoadReport(t) \/ LoadAverage(t)
  <2>1. UNCHANGED sync /\ Goto(t, "reading", "lockLeaving")
    BY <1>2 DEF LoadCount, LoadReport, LoadAverage
  <2>. QED
    BY <2>1, DataStepKeeps
<1>3. CASE StoreCount(t) \/ StoreAverage(t)
  <2>1. UNCHANGED sync /\ Goto(t, "writing", "firstUnlock")
    BY <1>3 DEF StoreCount, StoreAverage
  <2>. QED
    BY <2>1, DataStepKeeps
<1>4. CASE Reply(t) \/ ReplyStats(t) \/ ReplyFails(t)
  <2>1. /\ UNCHANGED sync
        /\ Goto(t, "reply", "lockReader") \/ Goto(t, "reply", "idle") \/ Goto(t, "reply", "gone")
    BY <1>4 DEF Reply, ReplyStats, ReplyFails
  <2>. QED
    BY <2>1, DataStepKeeps
<1>. QED
  BY <1>1, <1>2, <1>3, <1>4

\* Initially no thread is inside and nothing has been loaded.
LEMMA InitLockInv == Init => LockInv
<1>. SUFFICES ASSUME Init PROVE LockInv
  OBVIOUS
<1>1. SyncOK
  BY InitIInv DEF IInv
<1>2. \A t \in Threads : pc[t] = "idle"
  BY DEF Init
<1>3. Readers = {} /\ Writers = {}
  BY <1>2 DEF Readers, Writers, ReaderLabels, WriterLabels
<1>4. MutexHeld /\ LoadsFresh /\ TestsFresh
  BY <1>2 DEF MutexHeld, LoadsFresh, TestsFresh, LockedLabels
<1>5. CountersExact /\ Exclusion
  BY <1>3, FS_EmptySet DEF Init, CountersExact, Exclusion
<1>6. pc = [t \in Threads |-> pc[t]]
  BY DEF Init
<1>. QED
  BY <1>1, <1>4, <1>5, <1>6 DEF LockInv, Guarded

\* Every step keeps the invariant.
THEOREM LockInductive == IInv /\ LockInv /\ [Next]_vars => LockInv'
<1>. SUFFICES ASSUME IInv, LockInv, [Next]_vars PROVE LockInv'
  OBVIOUS
<1>1. SyncOK'
  BY Inductive DEF IInv
<1>2. CASE UNCHANGED vars
  <2>1. Readers' = Readers /\ Writers' = Writers
    BY <1>2 DEF Readers, Writers, vars
  <2>2. Guarded => Guarded'
    BY <1>2, <2>1 DEF Guarded, MutexHeld, LoadsFresh, TestsFresh, CountersExact, Exclusion,
                      vars, sync
  <2>. QED
    BY <1>1, <1>2, <2>2 DEF LockInv, vars, sync
<1>3. ASSUME NEW t \in Threads, SpuriousWakeup(t)
      PROVE  LockInv'
  <2>1. UNCHANGED <<m_stats, counters, register, holder, raced, pc>>
    BY <1>3 DEF SpuriousWakeup
  <2>2. Readers' = Readers /\ Writers' = Writers
    BY <2>1 DEF Readers, Writers
  <2>3. Guarded => Guarded'
    BY <2>1, <2>2 DEF Guarded, MutexHeld, LoadsFresh, TestsFresh, CountersExact, Exclusion,
                      counters
  <2>. QED
    BY <1>1, <2>1, <2>3 DEF LockInv
<1>4. ASSUME NEW t \in Threads,
             \/ \E request \in Counted \cup {Refused, STATS} : Receive(t, request)
             \/ Serve(t)
             \/ ReplyFails(t)
      PROVE  LockInv'
  <2>1. (raced => raced') /\ pc' = [u \in Threads |-> pc'[u]]
    BY <1>4, StepsGo
  <2>2. ASSUME ~raced' PROVE Guarded'
    <3>1. Guarded
      BY <2>1, <2>2 DEF LockInv
    <3>2. CASE LockStep(t)
      BY <2>2, <3>1, <3>2, ReaderBegins, ReaderEnds, WriterBegins, WriterEnds DEF LockStep
    <3>3. CASE ~LockStep(t)
      BY <1>4, <3>1, <3>3, ServiceStep DEF Serve
    <3>. QED
      BY <3>2, <3>3
  <2>. QED
    BY <1>1, <2>1, <2>2 DEF LockInv
<1>. QED
  BY <1>2, <1>3, <1>4 DEF Next

\* The README's rules for the statistics, "leitura: permitir leitura quando não
\* existem clientes a escrever" and "escrita: permitir escrita quando não existem
\* clientes a ler ou a escrever", hold for any number of threads until one has
\* intruded on another through the lock that termina_escrita_stats leaves out.
THEOREM ExclusionHolds == Spec => []ExclusionUnlessRaced
<1>1. IInv /\ LockInv /\ [Next]_vars => (IInv /\ LockInv)'
  BY Inductive, LockInductive
<1>2. LockInv => ExclusionUnlessRaced
  BY DEF LockInv, Guarded, CountersExact, ExclusionUnlessRaced
<1>. QED
  BY InitIInv, InitLockInv, <1>1, <1>2, PTL DEF Spec

=============================================================================
