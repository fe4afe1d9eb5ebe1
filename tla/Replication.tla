----------------------------- MODULE Replication -----------------------------
(***************************************************************************)
(* A primary server and its backup.                                        *)
(*                                                                         *)
(* A thread of the primary serves a put or a del (invoke of                *)
(* source/table_skel.c) by taking the list of the key, sending the request *)
(* to the backup through the client stub (source/client_stub.c,            *)
(* source/network_client.c) and then changing its own table.  All threads  *)
(* share the stub: one global message msg and one socket.  child_watcher,  *)
(* which ZooKeeper calls when a server comes or goes, connects the stub to *)
(* a new backup and puts the whole table there, one key after the other.   *)
(*                                                                         *)
(* A frame on the socket is sent and received in one step, and msg is      *)
(* filled in one.  The statistics are left out (module Stats).             *)
(***************************************************************************)
EXTENDS TableMonitor, Sequences

CONSTANTS
  Clients,      \* the threads that serve the clients of the primary
  watcher,      \* the thread that runs child_watcher
  Keys,
  Values,
  Empty,        \* data NULL, datasize 0
  hash,         \* the list of every key
  Requests,     \* the requests that clients make
  MaxRequests,  \* bound: requests of one client
  MaxJoins      \* bound: backups, one after the other

ASSUME ReplicationAssumption ==
  /\ watcher \notin Clients
  /\ Threads = Clients \cup {watcher}
  /\ IsFiniteSet(Keys)
  /\ Empty \notin Values
  /\ hash \in [Keys -> Lists]
  /\ Requests \subseteq
       [op : {PUT}, key : Keys, value : Values]
         \cup [op : {DEL, GET}, key : Keys, value : {Empty}]
  /\ MaxRequests \in Nat
  /\ MaxJoins \in Nat

VARIABLES
  table,       \* the primary's table
  pc,          \* where in the code a thread is
  req,         \* what it serves; for the watcher, the key it puts next
  msg,         \* the global message of client_stub.c
  rtable,      \* the backup the stub is connected to, 0 for NULL
  conn,        \* the rtable a call of the stub was given
  keysLeft,    \* child_watcher: the keys still to be put
  sizeLeft,    \* child_watcher: size - i
  exited,      \* the primary's process has exited or crashed
  joined,      \* the backups that have joined so far: 1 is the first
  up,          \* the last backup is running
  backup,      \* its table
  znode,       \* /kvstore/backup exists
  notified,    \* a change of the children of /kvstore is to be told
  requests,    \* the frames on the way to every backup
  replies      \* and back

primaryVars == <<table, pc, req, msg, rtable, conn, keysLeft, sizeLeft, exited>>
backupVars == <<joined, up, backup, znode, notified, requests, replies>>

VARIABLES
  started,     \* requests received by a thread (bounded by MaxRequests)
  mishaps,     \* history: what has gone wrong so far (Mishaps)
  synced       \* history: the backup that child_watcher has brought up to date

historyVars == <<started, mishaps, synced>>
vars == <<monitorVars, primaryVars, backupVars, historyVars>>

Mishaps ==
  {"leak",     \* an error return kept a list
   "barge",    \* a put or del entered a list that was taken
   "overlap",  \* two threads were in the stub at once
   "race",     \* a put or del was in the stub during a resynchronisation
   "crash"}    \* a backup has crashed

\* message__t__init: opcode 0 is OP_BAD.
BAD == -1
Messages == [op : {BAD, PUT, DEL, GET}, key : Keys \cup {Empty}, value : Values \cup {Empty}]
Blank == [op |-> BAD, key |-> Empty, value |-> Empty]
Backups == 1 .. MaxJoins

Init ==
  /\ MonitorInit
  /\ table = [k \in Keys |-> Empty]
  /\ pc = [p \in Threads |-> "idle"]
  /\ req = [p \in Threads |-> Blank]
  /\ msg = Blank
  /\ rtable = 0
  /\ conn = [p \in Threads |-> 0]
  /\ keysLeft = {}
  /\ sizeLeft = 0
  /\ exited = FALSE
  /\ joined = 0
  /\ up = FALSE
  /\ backup = [k \in Keys |-> Empty]
  /\ znode = FALSE
  /\ notified = FALSE
  /\ requests = [b \in Backups |-> <<>>]
  /\ replies = [b \in Backups |-> <<>>]
  /\ started = [c \in Clients |-> 0]
  /\ mishaps = {}
  /\ synced = 0

-----------------------------------------------------------------------------
\* The story ends when the primary exits.
At(p, label) == ~exited /\ pc[p] = label
Goto(p, label) == pc' = [pc EXCEPT ![p] = label]

\* exit(EXIT_FAILURE), or the crash of a NULL dereference.
Exit == exited' = TRUE

InStub(p) == pc[p] \in {"fill", "send", "receive"}
Syncing == pc[watcher] \notin {"idle", "alone", "checkBackup", "connect", "comeca"}

Note(mishap, condition) == IF condition THEN mishaps \cup {mishap} ELSE mishaps

\* The stub reaches the backup it was connected to.
Connected(b) == b = joined /\ up

(* invoke, up to comeca_listas and from table_put on.                      *)

\* A put or del is refused when /kvstore/backup does not exist (zoo_exists).
Receive(c, r) ==
  /\ At(c, "idle")
  /\ started[c] < MaxRequests
  /\ started' = [started EXCEPT ![c] = @ + 1]
  /\ IF r.op # GET /\ ~znode
       THEN UNCHANGED <<pc, req>>
       ELSE Goto(c, "enter") /\ req' = [req EXCEPT ![c] = r]
  /\ UNCHANGED <<monitorVars, table, msg, rtable, conn, keysLeft, sizeLeft, exited>>
  /\ UNCHANGED <<backupVars, mishaps, synced>>

EnterList(p) ==
  /\ At(p, "enter")
  /\ p \notin asleep
  /\ ~ListBusy(hash[req[p].key], req[p].op)
  /\ TakeList(hash[req[p].key], req[p].op)
  /\ mishaps' = Note("barge", req[p].op # GET /\ counter_LISTAS[hash[req[p].key]] # 0)
  /\ Goto(p, IF req[p].op = GET THEN "read" ELSE "init")
  /\ UNCHANGED <<table, req, msg, rtable, conn, keysLeft, sizeLeft, exited>>
  /\ UNCHANGED <<backupVars, started, synced>>

WaitForList(p) ==
  /\ At(p, "enter")
  /\ p \notin asleep
  /\ ListBusy(hash[req[p].key], req[p].op)
  /\ Sleep(p)
  /\ UNCHANGED <<primaryVars, backupVars, historyVars>>

\* table_get: of a client's get, or of child_watcher.
Read(p) ==
  /\ At(p, "read")
  /\ req' = [req EXCEPT ![p].value = table[req[p].key]]
  /\ Goto(p, "leave")
  /\ UNCHANGED <<monitorVars, table, msg, rtable, conn, keysLeft, sizeLeft, exited>>
  /\ UNCHANGED <<backupVars, historyVars>>

\* table_put or table_del, after the backup's answer.
Apply(c) ==
  /\ At(c, "apply")
  /\ table' = [table EXCEPT ![req[c].key] = req[c].value]
  /\ Goto(c, "leave")
  /\ UNCHANGED <<monitorVars, req, msg, rtable, conn, keysLeft, sizeLeft, exited>>
  /\ UNCHANGED <<backupVars, historyVars>>

\* termina_listas.  A client is answered; child_watcher goes on to rtable_put.
Leave(p) ==
  /\ At(p, "leave")
  /\ ReleaseList(hash[req[p].key], req[p].op)
  /\ IF p = watcher
       THEN Goto(p, "init") /\ req' = [req EXCEPT ![p].op = PUT]
       ELSE Goto(p, "idle") /\ req' = [req EXCEPT ![p] = Blank]
  /\ conn' = [conn EXCEPT ![p] = 0]
  /\ UNCHANGED <<table, msg, rtable, keysLeft, sizeLeft, exited>>
  /\ UNCHANGED <<backupVars, historyVars>>

-----------------------------------------------------------------------------
(* The stub: rtable_put and rtable_del.                                    *)

\* The stub returns -1: invoke answers OP_ERROR and keeps the list,
\* child_watcher exits.
StubFails(p) ==
  IF p = watcher
    THEN Exit /\ UNCHANGED <<pc, req>>
    ELSE /\ Goto(p, "idle")
         /\ req' = [req EXCEPT ![p] = Blank]
         /\ UNCHANGED exited

\* message__t__init(&msg); then the test whether rtable is NULL.
InitMessage(p) ==
  /\ At(p, "init")
  /\ msg' = Blank
  /\ conn' = [conn EXCEPT ![p] = rtable]
  /\ mishaps' = Note("overlap", \E q \in Threads \ {p} : InStub(q))
                  \cup Note("race", p # watcher /\ Syncing)
                  \cup Note("leak", p # watcher /\ rtable = 0)
  /\ IF rtable = 0
       THEN StubFails(p)
       ELSE Goto(p, "fill") /\ UNCHANGED <<req, exited>>
  /\ UNCHANGED <<monitorVars, table, rtable, keysLeft, sizeLeft>>
  /\ UNCHANGED <<backupVars, started, synced>>

\* A plausible error: the opcode is not set.
FillMessageNoOpcode(p) ==
  /\ At(p, "fill")
  /\ msg' = [req[p] EXCEPT !.op = BAD]
  /\ Goto(p, "send")
  /\ UNCHANGED <<monitorVars, table, req, rtable, conn, keysLeft, sizeLeft, exited>>
  /\ UNCHANGED <<backupVars, historyVars>>

\* msg.opcode, msg.c_type, msg.data and msg.key.
FillMessage(p) ==
  /\ At(p, "fill")
  /\ msg' = req[p]
  /\ Goto(p, "send")
  /\ UNCHANGED <<monitorVars, table, req, rtable, conn, keysLeft, sizeLeft, exited>>
  /\ UNCHANGED <<backupVars, historyVars>>

\* network_send_receive packs msg as it is now and writes the frame.  When the
\* backup is gone, the write goes to the kernel's buffer or fails, and a failed
\* write returns the NULL answer that the stub dereferences.
Send(p) ==
  /\ At(p, "send")
  /\ IF Connected(conn[p])
       THEN requests' = [requests EXCEPT ![conn[p]] = Append(@, msg)]
            /\ UNCHANGED exited
       ELSE UNCHANGED requests /\ (Exit \/ UNCHANGED exited)
  /\ Goto(p, "receive")
  /\ UNCHANGED <<monitorVars, table, req, msg, rtable, conn, keysLeft, sizeLeft>>
  /\ UNCHANGED <<joined, up, backup, znode, notified, replies, historyVars>>

\* The first frame on the socket is the answer, whose request it answers
\* nobody looks at.
ReceiveAnswer(p) ==
  /\ At(p, "receive")
  /\ replies[conn[p]] # <<>>
  /\ replies' = [replies EXCEPT ![conn[p]] = Tail(@)]
  /\ IF Head(replies[conn[p]]) = "error"
       THEN StubFails(p)
       ELSE /\ Goto(p, IF p = watcher THEN "next" ELSE "apply")
            /\ UNCHANGED <<req, exited>>
  /\ mishaps' = Note("leak", p # watcher /\ Head(replies[conn[p]]) = "error")
  /\ UNCHANGED <<monitorVars, table, msg, rtable, conn, keysLeft, sizeLeft>>
  /\ UNCHANGED <<joined, up, backup, znode, notified, requests>>
  /\ UNCHANGED <<started, synced>>

\* A plausible error: no answer is taken for a good one.
LoseAnswerUnnoticed(p) ==
  /\ At(p, "receive")
  /\ ~Connected(conn[p])
  /\ replies[conn[p]] = <<>>
  /\ Goto(p, IF p = watcher THEN "next" ELSE "apply")
  /\ UNCHANGED <<monitorVars, table, req, msg, rtable, conn, keysLeft, sizeLeft, exited>>
  /\ UNCHANGED <<backupVars, historyVars>>

\* The backup is gone and has not answered: read returns 0 for ever, which
\* read_all takes for no progress, or fails (the NULL answer again).
LoseAnswer(p) ==
  /\ At(p, "receive")
  /\ ~Connected(conn[p])
  /\ replies[conn[p]] = <<>>
  /\ \/ Goto(p, "spinning") /\ UNCHANGED exited
     \/ Exit /\ UNCHANGED pc
  /\ UNCHANGED <<monitorVars, table, req, msg, rtable, conn, keysLeft, sizeLeft>>
  /\ UNCHANGED <<backupVars, historyVars>>

-----------------------------------------------------------------------------
(* child_watcher of the primary.                                           *)

\* zoo_wget_children: one child (the primary) or two.
WatcherNotified ==
  /\ At(watcher, "idle")
  /\ notified
  /\ notified' = FALSE
  /\ Goto(watcher, IF znode THEN "connect" ELSE "alone")
  /\ UNCHANGED <<monitorVars, table, req, msg, rtable, conn, keysLeft, sizeLeft, exited>>
  /\ UNCHANGED <<joined, up, backup, znode, requests, replies, historyVars>>

\* One child: zoo_exists(primary), boolean = 1.
WatcherAlone ==
  /\ At(watcher, "alone")
  /\ boolean' = 1
  /\ Goto(watcher, "checkBackup")
  /\ UNCHANGED <<counter_LISTAS, counter_PUT_ATUAL, counter_DEL_ATUAL, asleep>>
  /\ UNCHANGED <<table, req, msg, rtable, conn, keysLeft, sizeLeft, exited>>
  /\ UNCHANGED <<backupVars, historyVars>>

\* Then zoo_exists(backup): a backup that has come since the children were
\* listed makes the primary promote itself, and exit because it is the primary.
WatcherChecksBackup ==
  /\ At(watcher, "checkBackup")
  /\ IF znode THEN Exit /\ UNCHANGED pc
              ELSE Goto(watcher, "idle") /\ UNCHANGED exited
  /\ UNCHANGED <<monitorVars, table, req, msg, rtable, conn, keysLeft, sizeLeft>>
  /\ UNCHANGED <<backupVars, historyVars>>

\* Two children: zoo_get(backup) and rtable_connect, NULL if nobody listens.
WatcherConnects ==
  /\ At(watcher, "connect")
  /\ IF znode
       THEN /\ rtable' = IF up THEN joined ELSE 0
            /\ Goto(watcher, "comeca")
            /\ UNCHANGED exited
       ELSE Exit /\ UNCHANGED <<pc, rtable>>
  /\ UNCHANGED <<monitorVars, table, req, msg, conn, keysLeft, sizeLeft>>
  /\ UNCHANGED <<backupVars, historyVars>>

WatcherEntersTable ==
  /\ At(watcher, "comeca")
  /\ watcher \notin asleep
  /\ ~TableBusy
  /\ Goto(watcher, "keys")
  /\ UNCHANGED <<monitorVars, table, req, msg, rtable, conn, keysLeft, sizeLeft, exited>>
  /\ UNCHANGED <<backupVars, historyVars>>

WatcherWaitsForTable ==
  /\ At(watcher, "comeca")
  /\ watcher \notin asleep
  /\ TableBusy
  /\ Sleep(watcher)
  /\ UNCHANGED <<primaryVars, backupVars, historyVars>>

StoredKeys == {k \in Keys : table[k] # Empty}

\* table_get_keys.
WatcherGetsKeys ==
  /\ At(watcher, "keys")
  /\ keysLeft' = StoredKeys
  /\ Goto(watcher, "size")
  /\ UNCHANGED <<monitorVars, table, req, msg, rtable, conn, sizeLeft, exited>>
  /\ UNCHANGED <<backupVars, historyVars>>

\* A plausible error: the NULL at the end of the array is counted.
WatcherGetsSizeAndNull ==
  /\ At(watcher, "size")
  /\ sizeLeft' = Cardinality(StoredKeys) + 1
  /\ ReleaseTable
  /\ Goto(watcher, "next")
  /\ UNCHANGED <<table, req, msg, rtable, conn, keysLeft, exited>>
  /\ UNCHANGED <<backupVars, historyVars>>

\* table_size, then termina.
WatcherGetsSize ==
  /\ At(watcher, "size")
  /\ sizeLeft' = Cardinality(StoredKeys)
  /\ ReleaseTable
  /\ Goto(watcher, "next")
  /\ UNCHANGED <<table, req, msg, rtable, conn, keysLeft, exited>>
  /\ UNCHANGED <<backupVars, historyVars>>

\* The next round of the for loop: hash(keys[i]), which fails on the NULL at
\* the end of the array.  The order of the keys is left open.
WatcherTakesKey(k) ==
  /\ At(watcher, "next")
  /\ sizeLeft > 0
  /\ k \in keysLeft
  /\ keysLeft' = keysLeft \ {k}
  /\ sizeLeft' = sizeLeft - 1
  /\ req' = [req EXCEPT ![watcher] = [op |-> GET, key |-> k, value |-> Empty]]
  /\ Goto(watcher, "enter")
  /\ UNCHANGED <<monitorVars, table, msg, rtable, conn, exited>>
  /\ UNCHANGED <<backupVars, historyVars>>

WatcherMissesKey ==
  /\ At(watcher, "next")
  /\ sizeLeft > 0
  /\ keysLeft = {}
  /\ Exit
  /\ UNCHANGED <<monitorVars, table, pc, req, msg, rtable, conn, keysLeft, sizeLeft>>
  /\ UNCHANGED <<backupVars, historyVars>>

\* The loop is over: boolean = 0.
WatcherDone ==
  /\ At(watcher, "next")
  /\ sizeLeft = 0
  /\ boolean' = 0
  /\ synced' = rtable
  /\ keysLeft' = {}
  /\ req' = [req EXCEPT ![watcher] = Blank]
  /\ Goto(watcher, "idle")
  /\ UNCHANGED <<counter_LISTAS, counter_PUT_ATUAL, counter_DEL_ATUAL, asleep>>
  /\ UNCHANGED <<table, msg, rtable, conn, sizeLeft, exited>>
  /\ UNCHANGED <<backupVars, started, mishaps>>

-----------------------------------------------------------------------------
(* The backup: its own thread_sec and invoke, one request at a time.       *)

\* A plausible error: a del is answered and forgotten.
ServedIgnoresDel(m) ==
  IF m.op = PUT /\ m.value # Empty THEN [backup EXCEPT ![m.key] = m.value] ELSE backup

\* The backup's table after a request: data_create2 and so table_put refuse
\* data of size 0, and a message with no opcode does nothing.
Served(m) ==
  CASE m.op = PUT /\ m.value # Empty -> [backup EXCEPT ![m.key] = m.value]
    [] m.op = DEL                    -> [backup EXCEPT ![m.key] = Empty]
    [] OTHER                         -> backup

\* OP_ERROR answers a put without data and a del of a key that is not there.
Answer(m) ==
  IF \/ m.op = PUT /\ m.value = Empty
     \/ m.op = DEL /\ backup[m.key] = Empty
    THEN "error" ELSE "ok"

BackupServes ==
  /\ ~exited
  /\ up
  /\ requests[joined] # <<>>
  /\ backup' = Served(Head(requests[joined]))
  /\ replies' = [replies EXCEPT ![joined] = Append(@, Answer(Head(requests[joined])))]
  /\ requests' = [requests EXCEPT ![joined] = Tail(@)]
  /\ UNCHANGED <<monitorVars, primaryVars, joined, up, znode, notified, historyVars>>

\* table_skel_init of a server that finds a primary and no backup.
BackupJoins ==
  /\ ~exited
  /\ joined < MaxJoins
  /\ ~up
  /\ ~znode
  /\ joined' = joined + 1
  /\ up' = TRUE
  /\ backup' = [k \in Keys |-> Empty]
  /\ znode' = TRUE
  /\ notified' = TRUE
  /\ UNCHANGED <<monitorVars, primaryVars, requests, replies, historyVars>>

\* The backup's process dies; answers already sent can still be read.
BackupCrashes ==
  /\ ~exited
  /\ up
  /\ up' = FALSE
  /\ mishaps' = mishaps \cup {"crash"}
  /\ requests' = [requests EXCEPT ![joined] = <<>>]
  /\ UNCHANGED <<monitorVars, primaryVars, joined, backup, znode, notified, replies>>
  /\ UNCHANGED <<started, synced>>

\* ZooKeeper drops the ephemeral node when the session times out.
SessionExpires ==
  /\ ~exited
  /\ znode
  /\ ~up
  /\ znode' = FALSE
  /\ notified' = TRUE
  /\ UNCHANGED <<monitorVars, primaryVars, joined, up, backup, requests, replies, historyVars>>

ThreadStep(p) ==
  \/ EnterList(p)
  \/ WaitForList(p)
  \/ Read(p)
  \/ Leave(p)
  \/ InitMessage(p)
  \/ FillMessage(p)
  \/ Send(p)
  \/ ReceiveAnswer(p)
  \/ LoseAnswer(p)

WatcherStep ==
  \/ WatcherNotified
  \/ WatcherAlone
  \/ WatcherChecksBackup
  \/ WatcherConnects
  \/ WatcherEntersTable
  \/ WatcherWaitsForTable
  \/ WatcherGetsKeys
  \/ WatcherGetsSize
  \/ \E k \in Keys : WatcherTakesKey(k)
  \/ WatcherMissesKey
  \/ WatcherDone

Next ==
  \/ \E c \in Clients : (\E r \in Requests : Receive(c, r)) \/ Apply(c)
  \/ \E p \in Threads : ThreadStep(p)
  \/ WatcherStep
  \/ BackupServes
  \/ BackupJoins
  \/ BackupCrashes
  \/ SessionExpires

Spec == Init /\ [][Next]_vars

\* Threads that can run are scheduled in the end, on both servers.
FairSpec ==
  /\ Spec
  /\ \A c \in Clients : WF_vars(ThreadStep(c) \/ Apply(c))
  /\ WF_vars(ThreadStep(watcher) \/ WatcherStep)
  /\ WF_vars(BackupServes)

-----------------------------------------------------------------------------
Labels == {"idle", "enter", "read", "init", "fill", "send", "receive", "apply",
           "leave", "spinning", "alone", "checkBackup", "connect", "comeca",
           "keys", "size", "next"}

TypeOK ==
  /\ MonitorTypeOK
  /\ table \in [Keys -> Values \cup {Empty}]
  /\ backup \in [Keys -> Values \cup {Empty}]
  /\ pc \in [Threads -> Labels]
  /\ req \in [Threads -> Messages]
  /\ msg \in Messages
  /\ rtable \in 0 .. joined
  /\ conn \in [Threads -> 0 .. joined]
  /\ mishaps \subseteq Mishaps
  /\ keysLeft \subseteq Keys
  /\ sizeLeft \in 0 .. Cardinality(Keys)
  /\ joined \in 0 .. MaxJoins
  /\ requests \in [Backups -> Seq(Messages)]
  /\ replies \in [Backups -> Seq({"ok", "error"})]

\* The backup that serves the stub has been brought up to date, and nothing in
\* the history has spoilt it.
InService ==
  /\ ~exited /\ up /\ rtable = joined /\ synced = joined
  /\ mishaps \subseteq {"leak", "crash"}

Writes(c, k) ==
  /\ pc[c] \in {"fill", "send", "receive", "apply"}
  /\ req[c].op # GET
  /\ req[c].key = k

\* As long as no two threads are in a list or in the stub at once and no put or
\* del is in the stub during a resynchronisation, a key has the same data on both servers except
\* while a put or del of this key is between rtable_put and table_put.
InStep ==
  InService =>
    \A k \in Keys : (\A c \in Clients : ~Writes(c, k)) => table[k] = backup[k]

\* ... and the primary changes its table only when the backup has done so.
StoredBeforeApplied ==
  InService =>
    \A c \in Clients : pc[c] = "apply" => backup[req[c].key] = req[c].value

\* The backup has stored what the client is about to store.
Granted(c) == pc[c] = "apply" \/ (pc[c] = "receive" /\ replies[conn[c]] = <<"ok">>)

Ahead == {[key |-> req[c].key, value |-> req[c].value] : c \in {d \in Clients : Granted(d)}}

Mode ==
  CASE ~(mishaps \subseteq {"leak", "crash"}) -> "spoilt"
    [] mishaps \subseteq {"leak", "crash"} /\ exited -> "over"
    [] InService -> "paired"
    [] OTHER -> "alone"

\* Primary and backup implement the service of ReplicatedMap: whatever the threads,
\* the watcher, the backup and its crashes do, each step is one that the service
\* allows, until threads have met in a list or in the stub or a put or del has
\* been in the stub during a resynchronisation.
Service == INSTANCE ReplicatedMap
  WITH map <- table,
       copy <- backup,
       ahead <- Ahead,
       mode <- Mode
ImplementsService == Service!Spec

\* A primary exits only after a backup has crashed or after threads have met in
\* the stub or in a resynchronisation.
ExitsOnlyIfDisturbed == exited => mishaps \cap {"crash", "overlap", "race"} # {}

\* As long as no error return keeps a list, no backup crashes and the primary
\* does not exit, every request is answered (thread_sec sends the answer when
\* invoke returns).
AnsweredUnlessStuck ==
  \A c \in Clients :
    pc[c] = "enter" ~> pc[c] = "idle" \/ exited \/ mishaps \cap {"leak", "crash"} # {}

\* network_server.c on network_main_loop: "Esperar a resposta do skeleton;
\* Enviar a resposta ao cliente".  Every request that is received is answered,
\* unless the primary exits or a backup crashes.
EveryRequestAnswered ==
  \A c \in Clients :
    pc[c] = "enter" ~> pc[c] = "idle" \/ exited \/ "crash" \in mishaps

=============================================================================
