-------------------------- MODULE TableLockProofs ---------------------------
(***************************************************************************)
(* Theorems about TableLock for every set of threads, every number of      *)
(* lists and every bound.                                                  *)
(*                                                                         *)
(* IInv is inductive.  Its parts need each other: ListExclusion needs the  *)
(* type of the counters only, SleepersAreBlocked needs to know that        *)
(* counters fall only where c is broadcast, and ScanStartsQuiet needs      *)
(* CountersExact, because a scan looks at the counters, not at the threads.*)
(***************************************************************************)
EXTENDS TableLock, FiniteSetTheorems, TLAPS

IInv ==
  /\ TypeOK
  /\ CountersExact
  /\ ListExclusion
  /\ SleepersAreBlocked

-----------------------------------------------------------------------------
\* The threads inside the monitor with one code are finitely many, so their
\* number is a natural number.
LEMMA InsideFinite ==
  ASSUME NEW code
  PROVE  IsFiniteSet(Inside(code)) /\ Cardinality(Inside(code)) \in Nat
<1>1. Inside(code) \subseteq Threads
  BY DEF Inside
<1>2. IsFiniteSet(Inside(code))
  BY <1>1, MonitorAssumption, FS_Subset DEF MonitorAssumption
<1>3. QED
  BY <1>2, FS_CardinalityType

\* Entering and leaving move the number of threads inside by one.
LEMMA InsideGrows ==
  ASSUME NEW code, NEW t, t \notin Inside(code), Inside(code)' = Inside(code) \cup {t}
  PROVE  Cardinality(Inside(code))' = Cardinality(Inside(code)) + 1
  BY InsideFinite, FS_AddElement

\* One thread less is inside.
LEMMA InsideShrinks ==
  ASSUME NEW code, NEW t, t \in Inside(code), Inside(code)' = Inside(code) \ {t}
  PROVE  Cardinality(Inside(code))' = Cardinality(Inside(code)) - 1
  BY InsideFinite, FS_RemoveElement

-----------------------------------------------------------------------------
\* The invariant holds at the start.
LEMMA InitIInv == Init => IInv
<1> SUFFICES ASSUME Init PROVE IInv
  OBVIOUS
<1>1. TypeOK
  BY TableLockAssumption
     DEF Init, MonitorInit, TypeOK, MonitorTypeOK, Requests, TableLockAssumption,
         PUT, DEL
<1>2. CountersExact
  <2>1. Inside(PUT) = {} /\ Inside(DEL) = {}
    BY DEF Init, Inside
  <2>2. QED
    BY <2>1, FS_EmptySet DEF Init, MonitorInit, CountersExact
<1>3. ListExclusion
  BY DEF Init, ListExclusion
<1>4. SleepersAreBlocked
  BY DEF Init, MonitorInit, SleepersAreBlocked
<1>5. QED
  BY <1>1, <1>2, <1>3, <1>4 DEF IInv

-----------------------------------------------------------------------------
\* What each action does to the set of threads inside the monitor.
LEMMA InsideAfterEnter ==
  ASSUME TypeOK, NEW t \in Threads, EnterList(t), NEW code
  PROVE  /\ req[t].code # code => Inside(code)' = Inside(code)
         /\ req[t].code = code =>
              t \notin Inside(code) /\ Inside(code)' = Inside(code) \cup {t}
  BY DEF TypeOK, EnterList, Goto, Inside

\* A thread that leaves was inside with its own operation, and nobody else left.
LEMMA InsideAfterExit ==
  ASSUME TypeOK, NEW t \in Threads, LeaveList(t) \/ AbandonList(t), NEW code
  PROVE  /\ req[t].code # code => Inside(code)' = Inside(code)
         /\ req[t].code = code =>
              t \in Inside(code) /\ Inside(code)' = Inside(code) \ {t}
  BY DEF TypeOK, LeaveList, AbandonList, Goto, Inside

\* Entering and leaving in the arithmetic of the counters.
LEMMA CountAfterEnter ==
  ASSUME TypeOK, NEW t \in Threads, EnterList(t), NEW code
  PROVE  Cardinality(Inside(code))' =
           Cardinality(Inside(code)) + One(req[t].code = code)
<1>1. CASE req[t].code = code
  BY <1>1, InsideAfterEnter, InsideGrows DEF One
<1>2. CASE req[t].code # code
  BY <1>2, InsideAfterEnter, InsideFinite DEF One
<1>3. QED
  BY <1>1, <1>2

\* The count goes down by one, of the operation of the thread.
LEMMA CountAfterExit ==
  ASSUME TypeOK, NEW t \in Threads, LeaveList(t) \/ AbandonList(t), NEW code
  PROVE  Cardinality(Inside(code))' =
           Cardinality(Inside(code)) - One(req[t].code = code)
<1>1. CASE req[t].code = code
  BY <1>1, InsideAfterExit, InsideShrinks DEF One
<1>2. CASE req[t].code # code
  BY <1>2, InsideAfterExit, InsideFinite DEF One
<1>3. QED
  BY <1>1, <1>2

\* Nothing else changes who is inside.
LEMMA InsideElsewhere ==
  ASSUME TypeOK, [Next]_vars, NEW code,
         ~ \E t \in Threads : EnterList(t) \/ LeaveList(t) \/ AbandonList(t)
  PROVE  Inside(code)' = Inside(code)
<1>1. ASSUME NEW t \in Threads, NEW r \in Requests, Receive(t, r)
      PROVE  Inside(code)' = Inside(code)
  BY <1>1 DEF TypeOK, Receive, Goto, Inside
<1>2. ASSUME NEW t \in Threads, EnterScan(t) \/ LeaveScan(t)
      PROVE  Inside(code)' = Inside(code)
  BY <1>2 DEF TypeOK, EnterScan, LeaveScan, Goto, Inside
<1>3. ASSUME UNCHANGED <<pc, req>>
      PROVE  Inside(code)' = Inside(code)
  BY <1>3 DEF Inside
<1>4. QED
  BY <1>1, <1>2, <1>3
     DEF Next, Serve, WaitForList, WaitForTable, SpuriousWakeup,
         WatcherSetsBoolean, vars

\* Only EnterList, LeaveList and AbandonList touch what CountersExact counts.
LEMMA CountersElsewhere ==
  ASSUME [Next]_vars,
         ~ \E t \in Threads : EnterList(t) \/ LeaveList(t) \/ AbandonList(t)
  PROVE  UNCHANGED <<counter_LISTAS, counter_PUT_ATUAL, counter_DEL_ATUAL,
                     abandoned, barged>>
  BY DEF Next, Serve, Receive, WaitForList, WaitForTable, EnterScan, LeaveScan,
         SpuriousWakeup, WatcherSetsBoolean, Sleep, ReleaseTable, vars,
         monitorVars

-----------------------------------------------------------------------------
\* Every step keeps the counters exact.
LEMMA CountersStep ==
  ASSUME TypeOK, CountersExact, [Next]_vars
  PROVE  CountersExact'
<1>1. ASSUME NEW t \in Threads, EnterList(t)
      PROVE  CountersExact'
  <2>1. \A code \in {PUT, DEL} :
          Cardinality(Inside(code))' =
            Cardinality(Inside(code)) + One(req[t].code = code)
    BY <1>1, CountAfterEnter
  <2>2. QED
    BY <1>1, <2>1, InsideFinite
       DEF CountersExact, EnterList, TakeList, TypeOK, MonitorTypeOK, One,
           PUT, DEL
<1>2. ASSUME NEW t \in Threads, LeaveList(t)
      PROVE  CountersExact'
  <2>1. \A code \in {PUT, DEL} :
          Cardinality(Inside(code))' =
            Cardinality(Inside(code)) - One(req[t].code = code)
    BY <1>2, CountAfterExit
  <2>2. QED
    BY <1>2, <2>1, InsideFinite
       DEF CountersExact, LeaveList, ReleaseList, TypeOK, MonitorTypeOK, One,
           PUT, DEL
<1>3. ASSUME NEW t \in Threads, AbandonList(t)
      PROVE  CountersExact'
  <2>1. \A code \in {PUT, DEL} :
          Cardinality(Inside(code))' =
            Cardinality(Inside(code)) - One(req[t].code = code)
    BY <1>3, CountAfterExit
  <2>2. QED
    BY <1>3, <2>1, InsideFinite
       DEF CountersExact, AbandonList, monitorVars, TypeOK, MonitorTypeOK, One,
           PUT, DEL
<1>4. ASSUME ~ \E t \in Threads :
                EnterList(t) \/ LeaveList(t) \/ AbandonList(t)
      PROVE  CountersExact'
  <2>1. Inside(PUT)' = Inside(PUT) /\ Inside(DEL)' = Inside(DEL)
    BY <1>4, InsideElsewhere
  <2>2. QED
    BY <1>4, <2>1, CountersElsewhere DEF CountersExact
<1>5. QED
  BY <1>1, <1>2, <1>3, <1>4

\* A put or del that is inside is counted, so its counter can be decremented.
LEMMA CountedInside ==
  ASSUME TypeOK, CountersExact, NEW t \in Threads, pc[t] = "inside"
  PROVE  /\ req[t].code = PUT => counter_PUT_ATUAL >= 1
         /\ req[t].code = DEL => counter_DEL_ATUAL >= 1
<1>1. ASSUME NEW code, req[t].code = code
      PROVE  Cardinality(Inside(code)) >= 1
  <2>1. t \in Inside(code)
    BY <1>1 DEF Inside
  <2>2. Cardinality(Inside(code)) # 0
    BY <2>1, InsideFinite, FS_EmptySet
  <2>3. QED
    BY <2>2, InsideFinite
<1>2. QED
  BY <1>1, InsideFinite DEF CountersExact, TypeOK

\* Every step keeps the types.
LEMMA TypeStep ==
  ASSUME TypeOK, CountersExact, [Next]_vars
  PROVE  TypeOK'
<1> USE DEF TypeOK, MonitorTypeOK
<1>1. ASSUME NEW t \in Threads, NEW r \in Requests, Receive(t, r)
      PROVE  TypeOK'
  BY <1>1, TableLockAssumption
     DEF Receive, Goto, monitorVars, TableLockAssumption
<1>2. ASSUME NEW t \in Threads, EnterList(t)
      PROVE  TypeOK'
  <2>1. req[t] \in ListRequests
    BY <1>2 DEF EnterList, Requests, ScanRequest
  <2>2. req[t].list \in Lists
    BY <2>1 DEF ListRequests
  <2>3. MonitorTypeOK'
    BY <1>2, <2>2 DEF EnterList, TakeList, One
  <2>4. QED
    BY <1>2, <2>1, <2>2, <2>3 DEF EnterList, Goto
<1>3. ASSUME NEW t \in Threads, LeaveList(t)
      PROVE  TypeOK'
  <2>1. req[t].list \in Lists
    BY <1>3 DEF LeaveList, ListRequests
  <2>2. MonitorTypeOK'
    BY <1>3, <2>1, CountedInside DEF LeaveList, ReleaseList, One, PUT, DEL
  <2>3. QED
    BY <1>3, <2>2 DEF LeaveList, Goto
<1>4. ASSUME NEW t \in Threads, AbandonList(t)
      PROVE  TypeOK'
  BY <1>4 DEF AbandonList, Goto, monitorVars
<1>5. ASSUME NEW t \in Threads, EnterScan(t) \/ LeaveScan(t)
      PROVE  TypeOK'
  BY <1>5 DEF EnterScan, LeaveScan, ReleaseTable, Goto, monitorVars, Requests,
              ListRequests, ScanRequest, PUT, DEL, GET, SCAN
<1>6. ASSUME NEW t \in Threads, WaitForList(t) \/ WaitForTable(t)
      PROVE  TypeOK'
  BY <1>6 DEF WaitForList, WaitForTable, Sleep
<1>7. ASSUME NEW t \in Threads, SpuriousWakeup(t)
      PROVE  TypeOK'
  BY <1>7 DEF SpuriousWakeup
<1>8. CASE WatcherSetsBoolean
  BY <1>8 DEF WatcherSetsBoolean
<1>9. CASE UNCHANGED vars
  BY <1>9 DEF vars, monitorVars
<1>10. QED
  BY <1>1, <1>2, <1>3, <1>4, <1>5, <1>6, <1>7, <1>8, <1>9 DEF Next, Serve

\* Every step keeps the lists exclusive.
LEMMA ExclusionStep ==
  ASSUME TypeOK, ListExclusion, [Next]_vars
  PROVE  ListExclusion'
<1> USE DEF ListExclusion
<1>1. ASSUME NEW t \in Threads, NEW r \in Requests, Receive(t, r)
      PROVE  ListExclusion'
  BY <1>1 DEF Receive, Goto, monitorVars, TypeOK
<1>2. ASSUME NEW t \in Threads, EnterList(t)
      PROVE  ListExclusion'
  <2>1. SUFFICES ASSUME NEW h \in Lists, ~barged'[h]
                 PROVE  ListExclusion!(h)'
    OBVIOUS
  <2>2. ~barged[h]
    BY <1>2, <2>1 DEF EnterList, TypeOK
  <2>3. CASE req[t].list # h
    BY <1>2, <2>2, <2>3 DEF EnterList, TakeList, Goto, TypeOK, MonitorTypeOK
  <2>4. CASE req[t].list = h
    \* The list was free: a taken one is entered only by barging.
    <3>1. counter_LISTAS[h] = 0
      BY <1>2, <2>1, <2>4
         DEF EnterList, ListBusy, Barges, TypeOK, MonitorTypeOK
    <3>2. \A u \in Threads : ~(pc[u] = "inside" /\ req[u].list = h)
      BY <2>2, <3>1
    <3>3. counter_LISTAS'[h] = 1
      BY <1>2, <2>4 DEF EnterList, TakeList, TypeOK, MonitorTypeOK
    <3>4. QED
      BY <1>2, <3>2, <3>3 DEF EnterList, Goto, TypeOK
  <2>5. QED
    BY <2>3, <2>4
<1>3. ASSUME NEW t \in Threads, LeaveList(t)
      PROVE  ListExclusion'
  BY <1>3 DEF LeaveList, ReleaseList, Goto, TypeOK, MonitorTypeOK
<1>4. ASSUME NEW t \in Threads, AbandonList(t)
      PROVE  ListExclusion'
  BY <1>4 DEF AbandonList, Goto, monitorVars, TypeOK
<1>5. ASSUME NEW t \in Threads, EnterScan(t) \/ LeaveScan(t)
      PROVE  ListExclusion'
  BY <1>5 DEF EnterScan, LeaveScan, ReleaseTable, Goto, monitorVars, TypeOK
<1>6. ASSUME UNCHANGED <<pc, req, counter_LISTAS, barged>>
      PROVE  ListExclusion'
  BY <1>6
<1>7. QED
  BY <1>1, <1>2, <1>3, <1>4, <1>5, <1>6
     DEF Next, Serve, WaitForList, WaitForTable, SpuriousWakeup,
         WatcherSetsBoolean, Sleep, vars, monitorVars

\* Every step leaves asleep only threads that have to wait.
LEMMA SleepersStep ==
  ASSUME TypeOK, SleepersAreBlocked, [Next]_vars
  PROVE  SleepersAreBlocked'
<1> USE DEF SleepersAreBlocked, TypeOK, MonitorTypeOK
<1>1. ASSUME NEW t \in Threads, NEW r \in Requests, Receive(t, r)
      PROVE  SleepersAreBlocked'
  BY <1>1 DEF Receive, Goto, monitorVars, TableBusy
<1>2. ASSUME NEW t \in Threads, EnterList(t)
      PROVE  SleepersAreBlocked'
  \* Entering raises counters, and the thread that enters was awake.
  <2>1. /\ counter_PUT_ATUAL' >= counter_PUT_ATUAL
        /\ counter_DEL_ATUAL' >= counter_DEL_ATUAL
        /\ \A h \in Lists : counter_LISTAS[h] # 0 => counter_LISTAS'[h] # 0
    BY <1>2 DEF EnterList, TakeList, One
  <2>2. TableBusy => TableBusy'
    BY <1>2, <2>1 DEF EnterList, TakeList, One, TableBusy
  <2>3. asleep' = asleep /\ req' = req /\ t \notin asleep
    BY <1>2 DEF EnterList, TakeList
  <2>4. \A u \in asleep : pc'[u] = pc[u]
    BY <1>2, <2>3 DEF EnterList, Goto
  <2>5. \A u \in asleep : req[u].code # SCAN => req[u].list \in Lists
    BY DEF Requests, ListRequests, ScanRequest
  <2>6. QED
    BY <2>1, <2>2, <2>3, <2>4, <2>5
<1>3. ASSUME NEW t \in Threads, LeaveList(t) \/ LeaveScan(t)
      PROVE  SleepersAreBlocked'
  BY <1>3 DEF LeaveList, LeaveScan, ReleaseList, ReleaseTable
<1>4. ASSUME NEW t \in Threads, AbandonList(t) \/ EnterScan(t)
      PROVE  SleepersAreBlocked'
  BY <1>4 DEF AbandonList, EnterScan, Goto, monitorVars, TableBusy
<1>5. ASSUME NEW t \in Threads, WaitForList(t)
      PROVE  SleepersAreBlocked'
  BY <1>5 DEF WaitForList, Sleep, ListBusy, TableBusy
<1>6. ASSUME NEW t \in Threads, WaitForTable(t)
      PROVE  SleepersAreBlocked'
  BY <1>6 DEF WaitForTable, Sleep, TableBusy
<1>7. ASSUME NEW t \in Threads, SpuriousWakeup(t)
      PROVE  SleepersAreBlocked'
  BY <1>7 DEF SpuriousWakeup, TableBusy
<1>8. CASE WatcherSetsBoolean
  BY <1>8 DEF WatcherSetsBoolean, TableBusy
<1>9. CASE UNCHANGED vars
  BY <1>9 DEF vars, monitorVars, TableBusy
<1>10. QED
  BY <1>1, <1>2, <1>3, <1>4, <1>5, <1>6, <1>7, <1>8, <1>9 DEF Next, Serve

-----------------------------------------------------------------------------
\* IInv is an invariant of every instance of TableLock.
THEOREM Invariance == Spec => []IInv
<1>1. IInv /\ [Next]_vars => IInv'
  BY TypeStep, CountersStep, ExclusionStep, SleepersStep DEF IInv
<1>2. QED
  BY InitIInv, <1>1, PTL DEF Spec

\* Type correctness; with it, the counters of puts and dels never fall below
\* zero, which the types alone do not give.
THEOREM TypeCorrectness == Spec => []TypeOK
<1>1. IInv => TypeOK
  BY DEF IInv
<1>2. QED
  BY <1>1, Invariance, PTL

\* The counters comeca waits on are the threads inside plus the error returns
\* of invoke that skipped termina_listas.
THEOREM CountersAreExact == Spec => []CountersExact
<1>1. IInv => CountersExact
  BY DEF IInv
<1>2. QED
  BY <1>1, Invariance, PTL

\* comeca_listas keeps all but one thread out of a list, unless boolean = 1 has
\* let a put or a del into it while it was taken.
THEOREM ListsAreExclusive == Spec => []ListExclusion
<1>1. IInv => ListExclusion
  BY DEF IInv
<1>2. QED
  BY <1>1, Invariance, PTL

\* No thread sleeps on c while what it waits for is free.
THEOREM NoMissedBroadcast == Spec => []SleepersAreBlocked
<1>1. IInv => SleepersAreBlocked
  BY DEF IInv
<1>2. QED
  BY <1>1, Invariance, PTL

\* A scan leaves comeca only when no put or del is in the table.
THEOREM ScansStartQuiet == Spec => ScanStartsQuiet
<1> DEFINE Step == \A t \in Threads :
                     pc[t] = "entering" /\ pc'[t] = "scanning" =>
                       Inside(PUT) = {} /\ Inside(DEL) = {}
<1>1. ASSUME IInv, [Next]_vars
      PROVE  [Step]_vars
  <2>1. SUFFICES ASSUME NEW t \in Threads,
                        pc[t] = "entering", pc'[t] = "scanning"
                 PROVE  Inside(PUT) = {} /\ Inside(DEL) = {}
    OBVIOUS
  <2>2. ~TableBusy
    BY <1>1, <2>1
       DEF IInv, TypeOK, Next, Serve, Receive, EnterList, WaitForList,
           LeaveList, AbandonList, EnterScan, WaitForTable, LeaveScan,
           SpuriousWakeup, WatcherSetsBoolean, Goto, vars
  <2>3. Cardinality(Inside(PUT)) = 0 /\ Cardinality(Inside(DEL)) = 0
    BY <1>1, <2>2, InsideFinite
       DEF IInv, CountersExact, TableBusy, TypeOK, MonitorTypeOK
  <2>4. QED
    BY <2>3, InsideFinite, FS_EmptySet
<1>2. QED
  BY <1>1, Invariance, PTL DEF Spec, ScanStartsQuiet

=============================================================================
