----------------------------- MODULE TableLock ------------------------------
(***************************************************************************)
(* The threads of a server that use the monitor of TableMonitor the way    *)
(* invoke (source/table_skel.c) does: put, del and get take the list of    *)
(* their key, size, getkeys and table_print pass comeca and read the whole *)
(* table.  What a request does to the table is left out: the module is     *)
(* about who may be where at the same time, and about who wakes whom.      *)
(***************************************************************************)
EXTENDS TableMonitor

CONSTANTS
  MaxRequests,  \* bound: requests a thread serves
  MaxAbandons   \* bound: error returns that keep the list

ASSUME TableLockAssumption == MaxRequests \in Nat /\ MaxAbandons \in Nat

VARIABLES
  pc,         \* where in invoke a thread is
  req,        \* its request: the code and, for put/del/get, the list
  started,    \* requests a thread has started (bounded by MaxRequests)
  abandoned,  \* history: error returns without termina_listas, by code
  barged      \* history: lists a put or del has entered while they were taken

vars == <<monitorVars, pc, req, started, abandoned, barged>>

SCAN == 3      \* size, getkeys and table_print
NoList == -1

ListRequests == [code : {PUT, DEL, GET}, list : Lists]
ScanRequest == [code |-> SCAN, list |-> NoList]
Requests == ListRequests \cup {ScanRequest}

TypeOK ==
  /\ MonitorTypeOK
  /\ pc \in [Threads -> {"idle", "entering", "inside", "scanning"}]
  /\ req \in [Threads -> Requests]
  /\ \A t \in Threads :
       /\ pc[t] = "inside" => req[t] \in ListRequests
       /\ pc[t] = "scanning" => req[t] = ScanRequest
  /\ started \in [Threads -> 0 .. MaxRequests]
  /\ abandoned \in [{PUT, DEL} -> Nat]
  /\ barged \in [Lists -> BOOLEAN]

Init ==
  /\ MonitorInit
  /\ pc = [t \in Threads |-> "idle"]
  /\ req = [t \in Threads |-> ScanRequest]
  /\ started = [t \in Threads |-> 0]
  /\ abandoned = [code \in {PUT, DEL} |-> 0]
  /\ barged = [h \in Lists |-> FALSE]

-----------------------------------------------------------------------------
Goto(t, label) == pc' = [pc EXCEPT ![t] = label]

\* invoke is called with the next request of the thread's client.
Receive(t, r) ==
  /\ pc[t] = "idle"
  /\ started[t] < MaxRequests
  /\ req' = [req EXCEPT ![t] = r]
  /\ started' = [started EXCEPT ![t] = @ + 1]
  /\ Goto(t, "entering")
  /\ UNCHANGED <<monitorVars, abandoned, barged>>

\* A put or del that boolean = 1 lets into a list that is taken.
Barges(t) ==
  /\ req[t].code # GET
  /\ boolean = 1
  /\ counter_LISTAS[req[t].list] # 0

\* comeca_listas: the while condition is false.
EnterList(t) ==
  /\ pc[t] = "entering"
  /\ t \notin asleep
  /\ req[t].code # SCAN
  /\ ~ListBusy(req[t].list, req[t].code)
  /\ TakeList(req[t].list, req[t].code)
  /\ barged' = [barged EXCEPT ![req[t].list] = @ \/ Barges(t)]
  /\ Goto(t, "inside")
  /\ UNCHANGED <<req, started, abandoned>>

\* comeca_listas: the while condition is true.
WaitForList(t) ==
  /\ pc[t] = "entering"
  /\ t \notin asleep
  /\ req[t].code # SCAN
  /\ ListBusy(req[t].list, req[t].code)
  /\ Sleep(t)
  /\ UNCHANGED <<pc, req, started, abandoned, barged>>

\* The request is done with the list: termina_listas.
LeaveList(t) ==
  /\ pc[t] = "inside"
  /\ ReleaseList(req[t].list, req[t].code)
  /\ Goto(t, "idle")
  /\ UNCHANGED <<req, started, abandoned, barged>>

\* rtable_put or rtable_del returned -1: invoke returns from between
\* comeca_listas and termina_listas.
AbandonList(t) ==
  /\ pc[t] = "inside"
  /\ req[t].code \in {PUT, DEL}
  /\ abandoned[PUT] + abandoned[DEL] < MaxAbandons
  /\ abandoned' = [abandoned EXCEPT ![req[t].code] = @ + 1]
  /\ Goto(t, "idle")
  /\ UNCHANGED <<monitorVars, req, started, barged>>

\* comeca: the while condition is false.  Nothing records the scan.
EnterScan(t) ==
  /\ pc[t] = "entering"
  /\ t \notin asleep
  /\ req[t].code = SCAN
  /\ ~TableBusy
  /\ Goto(t, "scanning")
  /\ UNCHANGED <<monitorVars, req, started, abandoned, barged>>

\* comeca: the while condition is true.
WaitForTable(t) ==
  /\ pc[t] = "entering"
  /\ t \notin asleep
  /\ req[t].code = SCAN
  /\ TableBusy
  /\ Sleep(t)
  /\ UNCHANGED <<pc, req, started, abandoned, barged>>

\* termina.
LeaveScan(t) ==
  /\ pc[t] = "scanning"
  /\ ReleaseTable
  /\ Goto(t, "idle")
  /\ UNCHANGED <<req, started, abandoned, barged>>

\* POSIX lets pthread_cond_wait return without a broadcast.
SpuriousWakeup(t) ==
  /\ t \in asleep
  /\ asleep' = asleep \ {t}
  /\ UNCHANGED <<counter_LISTAS, counter_PUT_ATUAL, counter_DEL_ATUAL, boolean>>
  /\ UNCHANGED <<pc, req, started, abandoned, barged>>

\* child_watcher writes boolean without taking m and without a broadcast: 1
\* when the backup is gone, 0 when a new one has been given the table.
WatcherSetsBoolean ==
  /\ boolean' = 1 - boolean
  /\ UNCHANGED <<counter_LISTAS, counter_PUT_ATUAL, counter_DEL_ATUAL, asleep>>
  /\ UNCHANGED <<pc, req, started, abandoned, barged>>

\* The steps a thread takes by itself once it has a request.
Serve(t) ==
  \/ EnterList(t)
  \/ WaitForList(t)
  \/ LeaveList(t)
  \/ EnterScan(t)
  \/ WaitForTable(t)
  \/ LeaveScan(t)

Next ==
  \/ \E t \in Threads :
       \/ \E r \in Requests : Receive(t, r)
       \/ Serve(t)
       \/ AbandonList(t)
       \/ SpuriousWakeup(t)
  \/ WatcherSetsBoolean

Spec == Init /\ [][Next]_vars

\* A thread that can run is scheduled in the end.
FairSpec == Spec /\ \A t \in Threads : WF_vars(Serve(t))

-----------------------------------------------------------------------------
Inside(code) == {t \in Threads : pc[t] = "inside" /\ req[t].code = code}

\* The counters that hold a scan back are exact: the threads between
\* comeca_listas and termina_listas plus the error returns that skipped
\* termina_listas.
CountersExact ==
  /\ counter_PUT_ATUAL = Cardinality(Inside(PUT)) + abandoned[PUT]
  /\ counter_DEL_ATUAL = Cardinality(Inside(DEL)) + abandoned[DEL]

\* The README's "put/get/del: impedir que dois clientes acessem à mesma lista",
\* as far as it holds: a list that no put or del entered through boolean = 1
\* has at most one thread in it, and none when its counter is 0.
ListExclusion ==
  \A h \in Lists : ~barged[h] =>
    /\ \A t, u \in Threads :
         /\ pc[t] = "inside" /\ req[t].list = h
         /\ pc[u] = "inside" /\ req[u].list = h
         => t = u
    /\ counter_LISTAS[h] = 0 =>
         \A t \in Threads : ~(pc[t] = "inside" /\ req[t].list = h)

\* No broadcast of c is missing: what a sleeping thread waits for is still
\* taken, so no thread sleeps on a list or a table that is free.
SleepersAreBlocked ==
  \A t \in asleep :
    /\ pc[t] = "entering"
    /\ req[t].code # SCAN => counter_LISTAS[req[t].list] # 0
    /\ req[t].code = SCAN => TableBusy

\* size, getkeys and table_print start reading the table only when no put or
\* del is between comeca_listas and termina_listas (comeca's while loop).
ScanStartsQuiet ==
  [][\A t \in Threads : pc[t] = "entering" /\ pc'[t] = "scanning" =>
       Inside(PUT) = {} /\ Inside(DEL) = {}]_vars

\* As long as every put and del reaches its termina_listas, every request gets
\* through the monitor (the requests being finitely many: the monitor itself
\* is not fair).
EveryRequestPasses ==
  [](abandoned[PUT] + abandoned[DEL] = 0)
    => \A t \in Threads : pc[t] = "entering" ~> pc[t] = "idle"

=============================================================================
