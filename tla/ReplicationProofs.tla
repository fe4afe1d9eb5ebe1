-------------------------- MODULE ReplicationProofs --------------------------
(***************************************************************************)
(* As long as no two threads meet in a list or in the stub and no put or   *)
(* del is in the stub during a resynchronisation, a backup that has been   *)
(* brought up to date is in step with its primary, and the primary exits   *)
(* only after a crash, for any number of clients, keys, requests and       *)
(* backups.                                                                *)
(*                                                                         *)
(* Until then the two are a copy and its original as ReplicatedMap         *)
(* promises: the last section shows that every step is one of its steps.   *)
(*                                                                         *)
(* The invariant has four parts.  Always: types, the places of the threads *)
(* and what the counters of the lists cover.  StubInv, until two threads   *)
(* race: the message and what is on the socket are those of the one thread *)
(* in the stub.  DataInv, until a put or del has barged into a list: what  *)
(* the backup has of each key, seen from the threads that are writing it.  *)
(* CalmInv, until a crash or a race: there is one backup and it answers.   *)
(***************************************************************************)
EXTENDS Replication, FiniteSetTheorems, SequenceTheorems, TLAPS

-----------------------------------------------------------------------------
(* What holds whatever the threads do to each other.                       *)

ClientLabels ==
  {"idle", "enter", "read", "init", "fill", "send", "receive", "apply", "leave", "spinning"}

\* The labels from the first call of the stub to table_put or table_del.
StubLabels == {"init", "fill", "send", "receive", "apply", "spinning"}

\* A client's put has data, a del has none, and a get has another path.
ClientOK(c) ==
  /\ pc[c] \in ClientLabels
  /\ pc[c] # "idle" => req[c].key \in Keys /\ req[c].op \in {PUT, DEL, GET}
  /\ pc[c] \in StubLabels => req[c].op \in {PUT, DEL}
  /\ pc[c] = "read" => req[c].op = GET
  /\ req[c].op = PUT => req[c].value \in Values
  /\ req[c].op = DEL => req[c].value = Empty

ClientsOK == \A c \in Clients : ClientOK(c)

\* child_watcher gets a key from the table, then puts it.
WatcherOK ==
  /\ pc[watcher] # "apply"
  /\ pc[watcher] \in {"enter", "read", "leave"} =>
       req[watcher].key \in Keys /\ req[watcher].op = GET
  /\ pc[watcher] \in {"init", "fill", "send", "receive", "spinning"} =>
       req[watcher].key \in Keys /\ req[watcher].op = PUT
  /\ InStub(watcher) => conn[watcher] = rtable

ConnsOK ==
  /\ \A p \in Threads : InStub(p) => conn[p] # 0
  /\ up => joined # 0 /\ \A p \in Threads : conn[p] = joined => rtable = joined
  /\ synced \in 0 .. joined

\* The puts, or dels, that hold a list.
Holding(op) ==
  {c \in Clients : pc[c] \in StubLabels \cup {"leave"} /\ req[c].op = op}

\* No put or del that holds a list is missing from the counters (those that an
\* error return has left there come on top).
CountersCover ==
  /\ counter_PUT_ATUAL >= Cardinality(Holding(PUT))
  /\ counter_DEL_ATUAL >= Cardinality(Holding(DEL))

Always == TypeOK /\ ClientsOK /\ WatcherOK /\ ConnsOK /\ CountersCover

-----------------------------------------------------------------------------
(* What holds until threads meet in the stub or in a resynchronisation.    *)

Orderly == ~exited /\ mishaps \cap {"overlap", "race"} = {}

StubAlone == \A p, q \in Threads : InStub(p) /\ InStub(q) => p = q

Quiet(b) == requests[b] = <<>> /\ replies[b] = <<>>

\* What has become of a request that a thread waits for: it is on its way, it has
\* been answered, or it is lost with the backup.
OnItsWay(p) ==
  requests[conn[p]] = <<req[p]>> /\ replies[conn[p]] = <<>> /\ Connected(conn[p])
Answered(p, a) == requests[conn[p]] = <<>> /\ replies[conn[p]] = <<a>>
Lost(p) == Quiet(conn[p]) /\ ~Connected(conn[p])

ChannelOK(p) ==
  /\ pc[p] \in {"fill", "send"} => Quiet(conn[p])
  /\ pc[p] = "send" => msg = req[p]
  /\ pc[p] = "receive" =>
       OnItsWay(p) \/ Answered(p, "ok") \/ Answered(p, "error") \/ Lost(p)

Channels ==
  /\ \A p \in Threads : ChannelOK(p)
  /\ \A b \in Backups : (\A p \in Threads : ~(InStub(p) /\ conn[p] = b)) => Quiet(b)

LoopLabels == {"next", "enter", "read", "leave", "init", "fill", "send", "receive", "spinning"}
InSync == pc[watcher] \in LoopLabels \cup {"keys", "size"}

Writing(c) == pc[c] \in {"fill", "send", "receive", "apply"}

\* comeca has waited for the puts and dels, and none has got to the stub since.
SyncAlone == InSync => \A c \in Clients : ~Writing(c)

\* The keys that child_watcher has still to put are stored, and the one it puts
\* has the data it has got.
SyncKeys ==
  /\ pc[watcher] = "size" => keysLeft = StoredKeys
  /\ pc[watcher] \in LoopLabels => keysLeft \subseteq StoredKeys /\ sizeLeft = Cardinality(keysLeft)
  /\ pc[watcher] \in LoopLabels \ {"next"} =>
       req[watcher].key \in StoredKeys \ keysLeft
  /\ pc[watcher] \in LoopLabels \ {"next", "enter", "read"} =>
       req[watcher].value = table[req[watcher].key]

StubInv == Orderly => StubAlone /\ Channels /\ SyncAlone /\ SyncKeys

-----------------------------------------------------------------------------
(* What holds if no put or del has barged into a list either.              *)

Exclusive == Orderly /\ "barge" \notin mishaps

InList(p) ==
  pc[p] \in {"read", "leave"} \/ (p # watcher /\ pc[p] \in StubLabels)

ListsAlone ==
  /\ \A p \in Threads : InList(p) => counter_LISTAS[hash[req[p].key]] = 1
  /\ \A p, q \in Threads :
       InList(p) /\ InList(q) /\ hash[req[p].key] = hash[req[q].key] => p = q

\* The backup has stored what the client is about to store.
Sent(c) ==
  /\ conn[c] = joined
  /\ pc[c] = "apply" \/ (pc[c] = "receive" /\ Answered(c, "ok"))

SentOn(k) == \E c \in Clients : Sent(c) /\ req[c].key = k

\* A backup that the primary is not connected to has got nothing yet.
Fresh == rtable # joined => \A k \in Keys : backup[k] = Empty

SentStored == \A c \in Clients : Sent(c) => backup[req[c].key] = req[c].value

\* Nobody puts to the new backup what a client does with the old one.
StaleUnstored ==
  \A c \in Clients : Writing(c) /\ conn[c] # joined => backup[req[c].key] = Empty

\* A backup has a key's data or lacks them, but never has other data.
Behind == \A k \in Keys : SentOn(k) \/ backup[k] \in {Empty, table[k]}

\* After the resynchronisation it lacks none.
UpToDate ==
  synced = joined =>
    /\ rtable = joined
    /\ \A c \in Clients : Writing(c) => conn[c] = joined
    /\ \A k \in Keys : SentOn(k) \/ backup[k] = table[k]

\* During it, none of those already put.
PutSoFar ==
  rtable = joined =>
    /\ pc[watcher] \in LoopLabels \cup {"size"} =>
         \A k \in Keys \ keysLeft :
           backup[k] = table[k] \/ (pc[watcher] \in LoopLabels \ {"next"} /\ k = req[watcher].key)
    /\ pc[watcher] = "receive" /\ Answered(watcher, "ok") =>
         backup[req[watcher].key] = req[watcher].value

DataOK ==
  /\ Fresh
  /\ SentStored
  /\ StaleUnstored
  /\ Behind
  /\ UpToDate
  /\ PutSoFar

DataInv == Exclusive => ListsAlone /\ (up => DataOK)

-----------------------------------------------------------------------------
(* What holds until a backup has crashed or threads have met in the stub.  *)

Calm == mishaps \cap {"crash", "overlap", "race"} = {}

OneBackup ==
  /\ ~exited
  /\ joined \in {0, 1}
  /\ up <=> joined = 1
  /\ znode <=> up
  /\ notified => up
  /\ rtable \in {0, joined}
  /\ pc[watcher] \notin {"alone", "checkBackup"}
  /\ pc[watcher] = "connect" => up
  /\ pc[watcher] = "comeca" \/ InSync => up /\ rtable = joined
  /\ pc[watcher] = "receive" => ~Answered(watcher, "error")

CalmInv == Calm => OneBackup

IInv == Always /\ StubInv /\ DataInv /\ CalmInv

-----------------------------------------------------------------------------
(* Facts about the model's operators.                                      *)

\* The keys are finitely many, so the size of a part of them is a number up
\* to theirs.
LEMMA KeysCount ==
  ASSUME NEW S \in SUBSET Keys
  PROVE  /\ IsFiniteSet(S)
         /\ Cardinality(S) \in 0 .. Cardinality(Keys)
  BY ReplicationAssumption, FS_Subset, FS_CardinalityType DEF ReplicationAssumption

\* The clients that hold a list are finitely many.
LEMMA HoldingCount ==
  ASSUME NEW op
  PROVE  /\ IsFiniteSet(Holding(op))
         /\ Cardinality(Holding(op)) \in Nat
<1>1. Holding(op) \subseteq Threads
  BY ReplicationAssumption DEF Holding, ReplicationAssumption
<1>2. QED
  BY <1>1, MonitorAssumption, FS_Subset, FS_CardinalityType DEF MonitorAssumption

\* The message before the first request is a message.
LEMMA BlankMessage == Blank \in Messages
  BY DEF Blank, Messages

\* A request is a message, with data only if it is a put.
LEMMA RequestMessage ==
  ASSUME NEW r \in Requests
  PROVE  /\ r \in Messages
         /\ r.key \in Keys
         /\ r.op \in {PUT, DEL, GET}
         /\ r.op = PUT => r.value \in Values
         /\ r.op # PUT => r.value = Empty
  BY ReplicationAssumption DEF ReplicationAssumption, Messages, PUT, DEL, GET

\* The threads of the primary are those of the clients and the watcher.
LEMMA ClientsAreThreads ==
  /\ watcher \in Threads
  /\ \A c \in Clients : c \in Threads /\ c # watcher
  /\ \A p \in Threads : p # watcher => p \in Clients
  BY ReplicationAssumption DEF ReplicationAssumption

\* A backup that has joined is one of the backups.
LEMMA BackupNumber ==
  ASSUME NEW j \in 0 .. MaxJoins, NEW b \in 0 .. j, b # 0
  PROVE  b \in Backups
  BY ReplicationAssumption DEF ReplicationAssumption, Backups

\* The backups that a call of the stub and the running backup stand for.
LEMMA BackupNumbers ==
  ASSUME Always
  PROVE  /\ joined \in Nat /\ MaxJoins \in Nat
         /\ up => joined \in Backups
         /\ \A p \in Threads : InStub(p) => conn[p] \in Backups
<1> USE DEF Always, TypeOK, ConnsOK
<1>1. joined \in Nat /\ MaxJoins \in Nat /\ joined <= MaxJoins
  BY ReplicationAssumption DEF ReplicationAssumption
<1>2. up => joined \in Backups
  BY <1>1 DEF Backups
<1>3. ASSUME NEW p \in Threads, InStub(p)
      PROVE  conn[p] \in Backups
  <2>1. conn[p] \in 0 .. joined /\ conn[p] # 0
    BY <1>3
  <2>2. QED
    BY <1>1, <2>1 DEF Backups
<1>4. QED
  BY <1>1, <1>2, <1>3

-----------------------------------------------------------------------------
\* The part that always holds, holds at the start.
LEMMA InitAlways == Init => Always
<1> SUFFICES ASSUME Init PROVE Always
  OBVIOUS
<1>1. TypeOK
  <2>1. Cardinality(Keys) \in Nat /\ MaxJoins \in Nat
    BY ReplicationAssumption, FS_CardinalityType DEF ReplicationAssumption
  <2>2. MonitorTypeOK
    BY MonitorAssumption DEF Init, MonitorInit, MonitorTypeOK, MonitorAssumption
  <2>3. QED
    BY <2>1, <2>2, BlankMessage DEF Init, TypeOK, Labels, Mishaps, Backups
<1>2. ClientsOK
  BY ClientsAreThreads DEF Init, ClientsOK, ClientOK, ClientLabels, StubLabels, Blank, BAD, PUT, DEL, GET
<1>3. WatcherOK
  BY ClientsAreThreads DEF Init, WatcherOK, InStub
<1>4. ConnsOK
  BY DEF Init, ConnsOK, InStub
<1>5. CountersCover
  <2>1. Holding(PUT) = {} /\ Holding(DEL) = {}
    BY ClientsAreThreads DEF Init, Holding, StubLabels
  <2>2. QED
    BY <2>1, FS_EmptySet DEF Init, MonitorInit, CountersCover
<1>6. QED
  BY <1>1, <1>2, <1>3, <1>4, <1>5 DEF Always

-----------------------------------------------------------------------------
(* Types.                                                                  *)

\* A request received or applied keeps the types.
LEMMA TypeKeptByClients ==
  ASSUME Always, NEW c \in Clients, Apply(c) \/ \E r \in Requests : Receive(c, r)
  PROVE  TypeOK'
<1> USE DEF Always, TypeOK, MonitorTypeOK
<1>1. ASSUME NEW r \in Requests, Receive(c, r)
      PROVE  TypeOK'
  BY ZenonT(60), <1>1, RequestMessage
     DEF Receive, At, Goto, monitorVars, backupVars, Labels
<1>2. CASE Apply(c)
  <2>1. req[c].key \in Keys /\ req[c].value \in Values \cup {Empty}
    BY <1>2, ClientsAreThreads DEF Apply, At, ClientsOK, ClientOK, StubLabels
  <2>2. QED
    BY <1>2, <2>1, ClientsAreThreads
       DEF Apply, At, Goto, monitorVars, backupVars, historyVars, Labels
<1>3. QED
  BY <1>1, <1>2

\* A put or del that leaves a list is counted.
LEMMA LeaverCounted ==
  ASSUME Always, NEW p \in Threads, Leave(p), NEW op \in {PUT, DEL}, req[p].op = op
  PROVE  /\ p \in Holding(op)
         /\ Cardinality(Holding(op)) >= 1
<1>1. p \in Clients
  BY ClientsAreThreads DEF Always, WatcherOK, Leave, At, PUT, DEL, GET
<1>2. p \in Holding(op)
  BY <1>1 DEF Leave, At, Holding
<1>3. Cardinality(Holding(op)) # 0
  BY <1>2, HoldingCount, FS_EmptySet
<1>4. QED
  BY <1>2, <1>3, HoldingCount

\* The steps through list and stub keep the types.
LEMMA TypeKeptByThreads ==
  ASSUME Always, NEW p \in Threads, ThreadStep(p)
  PROVE  TypeOK'
<1> USE DEF Always, TypeOK, MonitorTypeOK
<1>0. (p \in Clients \/ p = watcher) /\ watcher \in Threads
  BY ClientsAreThreads
<1>1. CASE EnterList(p)
  <2>1. req[p].key \in Keys
    BY <1>1, <1>0 DEF EnterList, At, ClientsOK, ClientOK, WatcherOK
  <2>2. hash[req[p].key] \in Lists
    BY <2>1, ReplicationAssumption DEF ReplicationAssumption
  <2>3. MonitorTypeOK'
    BY <1>1, <2>2 DEF EnterList, TakeList, One
  <2>4. QED
    BY <1>1, <2>3 DEF EnterList, Goto, Note, Mishaps, backupVars, Labels
<1>2. CASE WaitForList(p)
  BY <1>2 DEF WaitForList, Sleep, primaryVars, backupVars, historyVars
<1>3. CASE Read(p)
  <2>1. req[p].key \in Keys
    BY <1>3, <1>0 DEF Read, At, ClientsOK, ClientOK, WatcherOK
  <2>2. [req[p] EXCEPT !.value = table[req[p].key]] \in Messages
    BY <2>1 DEF Messages
  <2>3. req' \in [Threads -> Messages]
    BY <1>3, <2>2 DEF Read
  <2>4. QED
    BY <1>3, <2>3 DEF Read, Goto, monitorVars, backupVars, historyVars, Labels
<1>4. CASE Leave(p)
  <2>1. req[p].key \in Keys
    BY <1>4, <1>0 DEF Leave, At, ClientsOK, ClientOK, WatcherOK
  <2>2. hash[req[p].key] \in Lists
    BY <2>1, ReplicationAssumption DEF ReplicationAssumption
  <2>3. counter_PUT_ATUAL' \in Nat
    <3>1. CASE req[p].op = PUT
      <4>1. counter_PUT_ATUAL >= 1
        BY <1>4, <3>1, LeaverCounted, HoldingCount DEF CountersCover
      <4>2. counter_PUT_ATUAL' = counter_PUT_ATUAL - 1
        BY <1>4, <3>1 DEF Leave, ReleaseList, One
      <4>3. QED
        BY <4>1, <4>2
    <3>2. CASE req[p].op # PUT
      BY <1>4, <3>2 DEF Leave, ReleaseList, One
    <3>3. QED
      BY <3>1, <3>2
  <2>4. counter_DEL_ATUAL' \in Nat
    <3>1. CASE req[p].op = DEL
      <4>1. counter_DEL_ATUAL >= 1
        BY <1>4, <3>1, LeaverCounted, HoldingCount DEF CountersCover
      <4>2. counter_DEL_ATUAL' = counter_DEL_ATUAL - 1
        BY <1>4, <3>1 DEF Leave, ReleaseList, One
      <4>3. QED
        BY <4>1, <4>2
    <3>2. CASE req[p].op # DEL
      BY <1>4, <3>2 DEF Leave, ReleaseList, One
    <3>3. QED
      BY <3>1, <3>2
  <2>5. MonitorTypeOK'
    BY <1>4, <2>2, <2>3, <2>4 DEF Leave, ReleaseList
  <2>6. [req[watcher] EXCEPT !.op = PUT] \in Messages
    BY <1>0 DEF Messages
  <2>7. req' \in [Threads -> Messages]
    BY <1>4, <1>0, <2>6, BlankMessage DEF Leave
  <2>8. pc' \in [Threads -> Labels]
    BY <1>4 DEF Leave, Goto, Labels
  <2>9. QED
    BY <1>4, <2>5, <2>7, <2>8 DEF Leave, backupVars, historyVars
<1>5. CASE InitMessage(p)
  BY ZenonT(60), <1>5, BlankMessage
     DEF InitMessage, StubFails, Exit, Goto, Note, Mishaps, monitorVars, backupVars, Labels
<1>6. CASE FillMessage(p)
  BY <1>6 DEF FillMessage, Goto, monitorVars, backupVars, historyVars, Labels
<1>7. CASE Send(p)
  <2>1. conn[p] \in Backups
    BY <1>7, BackupNumbers DEF Send, At, InStub
  <2>2. Append(requests[conn[p]], msg) \in Seq(Messages)
    BY <2>1, AppendProperties
  <2>3. requests' \in [Backups -> Seq(Messages)]
    BY <1>7, <2>1, <2>2 DEF Send
  <2>4. QED
    BY <1>7, <2>3 DEF Send, Goto, monitorVars, historyVars, Labels
<1>8. CASE ReceiveAnswer(p)
  <2>1. conn[p] \in Backups
    BY <1>8, BackupNumbers DEF ReceiveAnswer, At, InStub
  <2>2. Tail(replies[conn[p]]) \in Seq({"ok", "error"})
    BY <1>8, <2>1, HeadTailProperties DEF ReceiveAnswer
  <2>3. replies' \in [Backups -> Seq({"ok", "error"})]
    BY <1>8, <2>2 DEF ReceiveAnswer
  <2>4. req' \in [Threads -> Messages] /\ pc' \in [Threads -> Labels]
    BY <1>8, BlankMessage DEF ReceiveAnswer, StubFails, Goto, Labels
  <2>5. mishaps' \subseteq Mishaps
    BY <1>8 DEF ReceiveAnswer, Note, Mishaps
  <2>6. QED
    BY <1>8, <2>3, <2>4, <2>5 DEF ReceiveAnswer, monitorVars
<1>9. CASE LoseAnswer(p)
  BY <1>9 DEF LoseAnswer, Exit, Goto, monitorVars, backupVars, historyVars, Labels
<1>10. QED
  BY <1>1, <1>2, <1>3, <1>4, <1>5, <1>6, <1>7, <1>8, <1>9 DEF ThreadStep

\* child_watcher keeps the types.
LEMMA TypeKeptByWatcher ==
  ASSUME Always, WatcherStep
  PROVE  TypeOK'
<1> USE DEF Always, TypeOK, MonitorTypeOK
<1>0. watcher \in Threads
  BY ClientsAreThreads
<1>1. CASE WatcherNotified
  BY <1>1 DEF WatcherNotified, Goto, monitorVars, historyVars, Labels
<1>2. CASE WatcherAlone
  BY <1>2 DEF WatcherAlone, Goto, backupVars, historyVars, Labels
<1>3. CASE WatcherChecksBackup
  BY <1>3 DEF WatcherChecksBackup, Exit, Goto, monitorVars, backupVars, historyVars, Labels
<1>4. CASE WatcherConnects
  <2>1. rtable' \in 0 .. joined'
    BY <1>4 DEF WatcherConnects, backupVars
  <2>2. QED
    BY <1>4, <2>1 DEF WatcherConnects, Exit, Goto, monitorVars, backupVars, historyVars, Labels
<1>5. CASE WatcherEntersTable
  BY <1>5 DEF WatcherEntersTable, Goto, monitorVars, backupVars, historyVars, Labels
<1>6. CASE WatcherWaitsForTable
  BY <1>6, <1>0 DEF WatcherWaitsForTable, Sleep, primaryVars, backupVars, historyVars
<1>7. CASE WatcherGetsKeys
  BY <1>7 DEF WatcherGetsKeys, StoredKeys, Goto, monitorVars, backupVars, historyVars, Labels
<1>8. CASE WatcherGetsSize
  <2>1. StoredKeys \in SUBSET Keys
    BY DEF StoredKeys
  <2>2. Cardinality(StoredKeys) \in 0 .. Cardinality(Keys)
    BY <2>1, KeysCount
  <2>3. QED
    BY <1>8, <2>2 DEF WatcherGetsSize, ReleaseTable, Goto, backupVars, historyVars, Labels
<1>9. ASSUME NEW k \in Keys, WatcherTakesKey(k)
      PROVE  TypeOK'
  <2>1. Cardinality(Keys) \in Nat
    BY KeysCount
  <2>2. sizeLeft' \in 0 .. Cardinality(Keys)
    BY <1>9, <2>1 DEF WatcherTakesKey
  <2>3. [op |-> GET, key |-> k, value |-> Empty] \in Messages
    BY DEF Messages
  <2>4. QED
    BY <1>9, <2>2, <2>3 DEF WatcherTakesKey, Goto, monitorVars, backupVars, historyVars, Labels
<1>10. CASE WatcherMissesKey
  BY <1>10 DEF WatcherMissesKey, Exit, monitorVars, backupVars, historyVars
<1>11. CASE WatcherDone
  BY <1>11, BlankMessage DEF WatcherDone, Goto, backupVars, Labels
<1>12. QED
  BY <1>1, <1>2, <1>3, <1>4, <1>5, <1>6, <1>7, <1>8, <1>9, <1>10, <1>11 DEF WatcherStep

\* The backup, its end and the next one keep the types.
LEMMA TypeKeptByBackup ==
  ASSUME Always, BackupServes \/ BackupJoins \/ BackupCrashes \/ SessionExpires
  PROVE  TypeOK'
<1> USE DEF Always, TypeOK, MonitorTypeOK
<1>1. CASE BackupServes
  <2>1. joined \in Backups /\ requests[joined] \in Seq(Messages)
    BY <1>1, BackupNumbers DEF BackupServes
  <2>2. /\ Head(requests[joined]) \in Messages
        /\ Tail(requests[joined]) \in Seq(Messages)
    BY <1>1, <2>1, HeadTailProperties DEF BackupServes
  <2>3. Answer(Head(requests[joined])) \in {"ok", "error"}
    BY DEF Answer
  <2>4. replies' \in [Backups -> Seq({"ok", "error"})]
    BY <1>1, <2>1, <2>3, AppendProperties DEF BackupServes
  <2>5. requests' \in [Backups -> Seq(Messages)]
    BY <1>1, <2>2 DEF BackupServes
  <2>6. Served(Head(requests[joined])) \in [Keys -> Values \cup {Empty}]
    BY <2>2 DEF Served, Messages
  <2>7. QED
    BY <1>1, <2>4, <2>5, <2>6 DEF BackupServes, monitorVars, primaryVars, historyVars
<1>2. CASE BackupJoins
  BY <1>2, ReplicationAssumption
     DEF BackupJoins, monitorVars, primaryVars, historyVars, ReplicationAssumption
<1>3. CASE BackupCrashes
  <2>1. <<>> \in Seq(Messages)
    OBVIOUS
  <2>2. QED
    BY <1>3, <2>1 DEF BackupCrashes, Mishaps, monitorVars, primaryVars
<1>4. CASE SessionExpires
  BY <1>4 DEF SessionExpires, monitorVars, primaryVars, historyVars
<1>5. QED
  BY <1>1, <1>2, <1>3, <1>4

-----------------------------------------------------------------------------
(* Whose step it is.                                                       *)

Moves(p) ==
  \/ ThreadStep(p)
  \/ p \in Clients /\ (Apply(p) \/ \E r \in Requests : Receive(p, r))
  \/ p = watcher /\ WatcherStep

BackupMoves == BackupServes \/ BackupJoins \/ BackupCrashes \/ SessionExpires

\* Every step is one of the primary's threads, or of the backups.
LEMMA Steps ==
  ASSUME [Next]_vars
  PROVE  (\E p \in Threads : Moves(p)) \/ BackupMoves \/ UNCHANGED vars
  BY ClientsAreThreads DEF Next, Moves, BackupMoves

\* A thread of the primary changes its own part of the state only, and nothing
\* of the backup but the frames.
LEMMA MoverAlone ==
  ASSUME TypeOK, NEW p \in Threads, Moves(p)
  PROVE  /\ ~exited
         /\ \A q \in Threads \ {p} :
              pc'[q] = pc[q] /\ req'[q] = req[q] /\ conn'[q] = conn[q]
         /\ UNCHANGED <<joined, up, backup>>
         /\ mishaps \subseteq mishaps'
<1> USE DEF TypeOK, At, Goto, Exit, backupVars, primaryVars, historyVars
<1>1. ASSUME NEW r \in Requests, Receive(p, r)
      PROVE  /\ ~exited
             /\ \A q \in Threads \ {p} :
                  pc'[q] = pc[q] /\ req'[q] = req[q] /\ conn'[q] = conn[q]
             /\ UNCHANGED <<joined, up, backup>>
             /\ mishaps \subseteq mishaps'
  BY <1>1 DEF Receive
<1>2. CASE Apply(p)
  BY <1>2 DEF Apply
<1>3. CASE ThreadStep(p)
  <2>1. CASE EnterList(p) \/ WaitForList(p) \/ Read(p)
    BY <2>1 DEF EnterList, WaitForList, Read, Note
  <2>2. CASE Leave(p)
    BY <2>2 DEF Leave
  <2>3. CASE InitMessage(p)
    BY <2>3 DEF InitMessage, StubFails, Note
  <2>4. CASE FillMessage(p) \/ Send(p) \/ LoseAnswer(p)
    BY <2>4 DEF FillMessage, Send, LoseAnswer
  <2>5. CASE ReceiveAnswer(p)
    BY <2>5 DEF ReceiveAnswer, StubFails, Note
  <2>6. QED
    BY <1>3, <2>1, <2>2, <2>3, <2>4, <2>5 DEF ThreadStep
<1>4. CASE p = watcher /\ WatcherStep
  <2>1. CASE WatcherNotified \/ WatcherAlone \/ WatcherChecksBackup \/ WatcherConnects
    BY <1>4, <2>1 DEF WatcherNotified, WatcherAlone, WatcherChecksBackup, WatcherConnects
  <2>2. CASE WatcherEntersTable \/ WatcherWaitsForTable \/ WatcherGetsKeys \/ WatcherGetsSize
    BY <1>4, <2>2 DEF WatcherEntersTable, WatcherWaitsForTable, WatcherGetsKeys, WatcherGetsSize
  <2>3. CASE WatcherMissesKey \/ WatcherDone
    BY <1>4, <2>3 DEF WatcherMissesKey, WatcherDone
  <2>4. CASE \E k \in Keys : WatcherTakesKey(k)
    BY <1>4, <2>4 DEF WatcherTakesKey
  <2>5. QED
    BY <1>4, <2>1, <2>2, <2>3, <2>4 DEF WatcherStep
<1>5. QED
  BY <1>1, <1>2, <1>3, <1>4 DEF Moves

\* The backup and ZooKeeper touch nothing of the primary's threads.
LEMMA BackupAlone ==
  ASSUME BackupMoves
  PROVE  /\ ~exited
         /\ UNCHANGED <<monitorVars, primaryVars, synced>>
         /\ mishaps \subseteq mishaps'
  BY DEF BackupMoves, BackupServes, BackupJoins, BackupCrashes, SessionExpires, historyVars

-----------------------------------------------------------------------------
\* The threads of the clients stay in invoke, with a request.
LEMMA ClientsKept ==
  ASSUME Always, [Next]_vars
  PROVE  ClientsOK'
<1> USE DEF Always
<1>1. ASSUME NEW c \in Clients, UNCHANGED <<pc[c], req[c]>>
      PROVE  ClientOK(c)'
  BY <1>1 DEF ClientsOK, ClientOK
<1>2. ASSUME NEW c \in Clients, Moves(c)
      PROVE  ClientOK(c)'
  <2> USE DEF TypeOK, ClientsOK, ClientOK, ClientLabels, StubLabels, At, Goto
  <2>1. c \in Threads /\ c # watcher
    BY ClientsAreThreads
  <2>2. ASSUME NEW r \in Requests, Receive(c, r)
        PROVE  ClientOK(c)'
    BY <2>1, <2>2, RequestMessage DEF Receive, PUT, DEL, GET
  <2>3. CASE Apply(c)
    BY <2>1, <2>3 DEF Apply, PUT, DEL, GET
  <2>4. CASE EnterList(c)
    BY <2>1, <2>4 DEF EnterList, PUT, DEL, GET
  <2>5. CASE WaitForList(c)
    BY <2>5 DEF WaitForList, primaryVars
  <2>6. CASE Read(c)
    BY <2>1, <2>6 DEF Read, PUT, DEL, GET
  <2>7. CASE Leave(c)
    BY <2>1, <2>7 DEF Leave, Blank, BAD, PUT, DEL, GET
  <2>8. CASE InitMessage(c)
    BY <2>1, <2>8 DEF InitMessage, StubFails, Blank, BAD, PUT, DEL, GET
  <2>9. CASE FillMessage(c)
    BY <2>1, <2>9 DEF FillMessage
  <2>10. CASE Send(c)
    BY <2>1, <2>10 DEF Send
  <2>11. CASE ReceiveAnswer(c)
    BY <2>1, <2>11 DEF ReceiveAnswer, StubFails, Blank, BAD, PUT, DEL, GET
  <2>12. CASE LoseAnswer(c)
    BY <2>1, <2>12 DEF LoseAnswer
  <2>13. QED
    BY <1>2, <2>1, <2>2, <2>3, <2>4, <2>5, <2>6, <2>7, <2>8, <2>9, <2>10, <2>11, <2>12
       DEF Moves, ThreadStep
<1>3. ASSUME NEW p \in Threads, Moves(p), NEW c \in Clients
      PROVE  ClientOK(c)'
  <2>1. CASE c = p
    BY <1>2, <1>3, <2>1
  <2>2. CASE c # p
    <3>1. UNCHANGED <<pc[c], req[c]>>
      BY <1>3, <2>2, MoverAlone, ClientsAreThreads
    <3>2. QED
      BY <3>1, <1>1
  <2>3. QED
    BY <2>1, <2>2
<1>4. ASSUME BackupMoves \/ UNCHANGED vars, NEW c \in Clients
      PROVE  ClientOK(c)'
  <2>1. UNCHANGED <<pc[c], req[c]>>
    BY <1>4, BackupAlone DEF primaryVars, vars
  <2>2. QED
    BY <2>1, <1>1
<1>5. QED
  BY <1>3, <1>4, Steps DEF ClientsOK

\* The watcher stays in child_watcher, and goes through the stub with puts.
LEMMA WatcherKept ==
  ASSUME Always, [Next]_vars
  PROVE  WatcherOK'
<1> USE DEF Always
<1>0. watcher \in Threads
  BY ClientsAreThreads
<1>1. ASSUME UNCHANGED <<pc[watcher], req[watcher], conn[watcher], rtable>>
      PROVE  WatcherOK'
  BY <1>1 DEF WatcherOK, InStub
<1>2. ASSUME NEW c \in Clients, Moves(c)
      PROVE  WatcherOK'
  <2>1. c \in Threads /\ c # watcher
    BY ClientsAreThreads
  <2>2. rtable' = rtable
    BY <1>2, <2>1
       DEF Moves, ThreadStep, Receive, Apply, EnterList, WaitForList, Read, Leave, InitMessage,
           FillMessage, Send, ReceiveAnswer, LoseAnswer, primaryVars
  <2>3. QED
    BY <1>1, <1>2, <1>0, <2>1, <2>2, MoverAlone
<1>3. ASSUME Moves(watcher)
      PROVE  WatcherOK'
  <2> USE DEF TypeOK, WatcherOK, InStub, At, Goto
  <2>1. watcher \notin Clients
    BY ClientsAreThreads
  <2>2. CASE EnterList(watcher)
    BY <1>0, <2>2 DEF EnterList
  <2>3. CASE WaitForList(watcher)
    BY <1>0, <2>3 DEF WaitForList, primaryVars
  <2>4. CASE Read(watcher)
    BY <1>0, <2>4 DEF Read
  <2>5. CASE Leave(watcher)
    <3>1. pc'[watcher] = "init" /\ req'[watcher] = [req[watcher] EXCEPT !.op = PUT]
      BY <1>0, <2>5 DEF Leave
    <3>2. req[watcher] \in Messages /\ req[watcher].key \in Keys
      BY <1>0, <2>5 DEF Leave
    <3>3. req'[watcher].op = PUT /\ req'[watcher].key \in Keys
      BY <3>1, <3>2 DEF Messages
    <3>4. QED
      BY <3>1, <3>3
  <2>6. CASE InitMessage(watcher)
    BY <1>0, <2>6 DEF InitMessage, StubFails
  <2>7. CASE FillMessage(watcher) \/ Send(watcher)
    BY <1>0, <2>7 DEF FillMessage, Send
  <2>8. CASE ReceiveAnswer(watcher)
    BY <1>0, <2>8 DEF ReceiveAnswer, StubFails
  <2>9. CASE LoseAnswer(watcher)
    BY <1>0, <2>9 DEF LoseAnswer
  <2>10. CASE WatcherNotified \/ WatcherAlone \/ WatcherChecksBackup \/ WatcherConnects
    BY <1>0, <2>10 DEF WatcherNotified, WatcherAlone, WatcherChecksBackup, WatcherConnects
  <2>11. CASE WatcherEntersTable \/ WatcherWaitsForTable \/ WatcherGetsKeys \/ WatcherGetsSize
    BY <1>0, <2>11
       DEF WatcherEntersTable, WatcherWaitsForTable, WatcherGetsKeys, WatcherGetsSize, primaryVars
  <2>12. CASE \E k \in Keys : WatcherTakesKey(k)
    BY <1>0, <2>12 DEF WatcherTakesKey
  <2>13. CASE WatcherMissesKey \/ WatcherDone
    BY <1>0, <2>13 DEF WatcherMissesKey, WatcherDone
  <2>14. QED
    BY <1>3, <2>1, <2>2, <2>3, <2>4, <2>5, <2>6, <2>7, <2>8, <2>9, <2>10, <2>11, <2>12, <2>13
       DEF Moves, ThreadStep, WatcherStep
<1>4. CASE BackupMoves \/ UNCHANGED vars
  <2>1. UNCHANGED <<pc[watcher], req[watcher], conn[watcher], rtable>>
    BY <1>4, BackupAlone DEF primaryVars, vars
  <2>2. QED
    BY <2>1, <1>1
<1>5. QED
  BY <1>2, <1>3, <1>4, Steps, ClientsAreThreads

\* A thread that is in the stub got there with a backup, and keeps it; the stub
\* is connected to the running backup before any thread gets there with it.
LEMMA ConnsKept ==
  ASSUME Always, [Next]_vars
  PROVE  ConnsOK'
<1> USE DEF Always
<1>0. joined \in Nat /\ watcher \in Threads
  BY BackupNumbers, ClientsAreThreads
<1>1. ASSUME UNCHANGED <<rtable, conn, joined, up, synced>>,
             \A p \in Threads : InStub(p)' => InStub(p)
      PROVE  ConnsOK'
  BY <1>1 DEF ConnsOK
<1>2. ASSUME NEW p \in Threads, Moves(p)
      PROVE  ConnsOK'
  <2> USE DEF TypeOK, InStub, At, Goto
  <2>1. ASSUME NEW r \in Requests, Receive(p, r)
        PROVE  ConnsOK'
    BY <1>1, <2>1 DEF Receive, backupVars
  <2>2. CASE Apply(p)
    BY <1>1, <2>2 DEF Apply, backupVars, historyVars
  <2>3. CASE EnterList(p) \/ WaitForList(p) \/ Read(p)
    BY <1>1, <2>3 DEF EnterList, WaitForList, Read, primaryVars, backupVars, historyVars
  <2>4. CASE Leave(p)
    BY <2>4 DEF ConnsOK, Leave, backupVars, historyVars
  <2>5. CASE InitMessage(p)
    BY <2>5 DEF ConnsOK, InitMessage, StubFails, backupVars
  <2>6. CASE FillMessage(p) \/ Send(p)
    BY <2>6 DEF ConnsOK, FillMessage, Send, backupVars, historyVars
  <2>7. CASE ReceiveAnswer(p)
    BY <1>1, <2>7 DEF ReceiveAnswer, StubFails
  <2>8. CASE LoseAnswer(p)
    BY <1>1, <2>8 DEF LoseAnswer, backupVars, historyVars
  <2>9. CASE WatcherNotified \/ WatcherAlone \/ WatcherChecksBackup
    BY <1>1, <2>9
       DEF WatcherNotified, WatcherAlone, WatcherChecksBackup, backupVars, historyVars
  <2>10. CASE WatcherConnects
    BY <1>0, <2>10 DEF ConnsOK, WatcherConnects, backupVars, historyVars
  <2>11. CASE WatcherEntersTable \/ WatcherWaitsForTable \/ WatcherGetsKeys \/ WatcherGetsSize
    BY <1>1, <2>11
       DEF WatcherEntersTable, WatcherWaitsForTable, WatcherGetsKeys, WatcherGetsSize,
           primaryVars, backupVars, historyVars
  <2>12. CASE \E k \in Keys : WatcherTakesKey(k)
    BY <1>1, <2>12 DEF WatcherTakesKey, backupVars, historyVars
  <2>13. CASE WatcherMissesKey
    BY <1>1, <2>13 DEF WatcherMissesKey, backupVars, historyVars
  <2>14. CASE WatcherDone
    BY <2>14 DEF ConnsOK, WatcherDone, backupVars
  <2>15. QED
    BY <1>2, <2>1, <2>2, <2>3, <2>4, <2>5, <2>6, <2>7, <2>8, <2>9, <2>10, <2>11, <2>12, <2>13, <2>14
       DEF Moves, ThreadStep, WatcherStep
<1>3. CASE BackupServes \/ SessionExpires
  BY <1>1, <1>3 DEF BackupServes, SessionExpires, primaryVars, historyVars, InStub
<1>4. CASE BackupCrashes
  BY <1>4 DEF ConnsOK, BackupCrashes, primaryVars, InStub
<1>5. CASE BackupJoins
  BY <1>5, <1>0 DEF TypeOK, ConnsOK, BackupJoins, primaryVars, historyVars, InStub
<1>6. CASE UNCHANGED vars
  BY <1>1, <1>6 DEF vars, primaryVars, backupVars, historyVars, InStub
<1>7. QED
  BY <1>2, <1>3, <1>4, <1>5, <1>6, Steps DEF BackupMoves

-----------------------------------------------------------------------------
(* The counters.                                                           *)

\* Two counters that are as before, or higher, cover fewer clients.
LEMMA FewerHolding ==
  ASSUME CountersCover, MonitorTypeOK,
         UNCHANGED <<counter_PUT_ATUAL, counter_DEL_ATUAL>>,
         \A op \in {PUT, DEL} : Holding(op)' \subseteq Holding(op)
  PROVE  CountersCover'
<1>1. \A op \in {PUT, DEL} : Cardinality(Holding(op)') <= Cardinality(Holding(op))
  BY HoldingCount, FS_Subset
<1>2. \A op \in {PUT, DEL} : Cardinality(Holding(op)') \in Nat
  BY HoldingCount, FS_Subset, FS_CardinalityType
<1>3. QED
  BY <1>1, <1>2, HoldingCount DEF CountersCover, MonitorTypeOK

\* A put or del that enters a list is counted.
LEMMA CountersAfterEnter ==
  ASSUME Always, NEW c \in Clients, EnterList(c)
  PROVE  CountersCover'
<1> USE DEF Always, TypeOK
<1>1. ASSUME NEW op \in {PUT, DEL}
      PROVE  /\ Cardinality(Holding(op))' \in Nat
             /\ Cardinality(Holding(op))' <= Cardinality(Holding(op)) + One(req[c].op = op)
  <2>1. CASE req[c].op = op
    <3>1. c \notin Holding(op) /\ Holding(op)' \subseteq Holding(op) \cup {c}
      BY ClientsAreThreads DEF EnterList, At, Goto, Holding, StubLabels
    <3>2. /\ IsFiniteSet(Holding(op) \cup {c})
          /\ Cardinality(Holding(op) \cup {c}) = Cardinality(Holding(op)) + 1
      BY <3>1, HoldingCount, FS_AddElement
    <3>3. /\ Cardinality(Holding(op)') <= Cardinality(Holding(op) \cup {c})
          /\ Cardinality(Holding(op)') \in Nat
      BY <3>1, <3>2, FS_Subset, FS_CardinalityType
    <3>4. QED
      BY <2>1, <3>2, <3>3 DEF One
  <2>2. CASE req[c].op # op
    <3>1. Holding(op)' = Holding(op)
      BY <2>2, ClientsAreThreads DEF EnterList, At, Goto, Holding, StubLabels
    <3>2. QED
      BY <2>2, <3>1, HoldingCount DEF One
  <2>3. QED
    BY <2>1, <2>2
<1>2. QED
  BY <1>1, HoldingCount DEF EnterList, TakeList, CountersCover, MonitorTypeOK, One

\* A put or del that leaves takes back its own count.
LEMMA CountersAfterLeave ==
  ASSUME Always, NEW c \in Clients, Leave(c)
  PROVE  CountersCover'
<1> USE DEF Always, TypeOK
<1>1. ASSUME NEW op \in {PUT, DEL}
      PROVE  /\ Cardinality(Holding(op))' \in Nat
             /\ Cardinality(Holding(op))' <= Cardinality(Holding(op)) - One(req[c].op = op)
  <2>1. CASE req[c].op = op
    <3>1. c \in Holding(op)
      BY <2>1 DEF Leave, At, Holding
    <3>2. Holding(op)' \subseteq Holding(op) \ {c}
      BY ClientsAreThreads DEF Leave, At, Goto, Holding, StubLabels
    <3>3. /\ IsFiniteSet(Holding(op) \ {c})
          /\ Cardinality(Holding(op) \ {c}) = Cardinality(Holding(op)) - 1
      BY <3>1, HoldingCount, FS_RemoveElement
    <3>4. /\ Cardinality(Holding(op)') <= Cardinality(Holding(op) \ {c})
          /\ Cardinality(Holding(op)') \in Nat
      BY <3>2, <3>3, FS_Subset, FS_CardinalityType
    <3>5. QED
      BY <2>1, <3>3, <3>4 DEF One
  <2>2. CASE req[c].op # op
    <3>1. Holding(op)' \subseteq Holding(op)
      BY <2>2, ClientsAreThreads DEF Leave, At, Goto, Holding, StubLabels
    <3>2. /\ Cardinality(Holding(op)') <= Cardinality(Holding(op))
          /\ Cardinality(Holding(op)') \in Nat
      BY <3>1, HoldingCount, FS_Subset, FS_CardinalityType
    <3>3. QED
      BY <2>2, <3>2, HoldingCount DEF One
  <2>3. QED
    BY <2>1, <2>2
<1>2. QED
  BY <1>1, HoldingCount DEF Leave, ReleaseList, CountersCover, MonitorTypeOK, One

\* Every put or del in a list is counted.
LEMMA CountersKept ==
  ASSUME Always, [Next]_vars
  PROVE  CountersCover'
<1> USE DEF Always, TypeOK
<1>1. ASSUME NEW c \in Clients, Moves(c), ~EnterList(c), ~Leave(c)
      PROVE  CountersCover'
  <2>1. c \in Threads /\ c # watcher
    BY ClientsAreThreads
  <2>2. UNCHANGED <<counter_PUT_ATUAL, counter_DEL_ATUAL>>
    BY <1>1, <2>1
       DEF Moves, ThreadStep, Receive, Apply, WaitForList, Read, InitMessage,
           FillMessage, Send, ReceiveAnswer, LoseAnswer, Sleep, monitorVars
  <2>3. ASSUME NEW op \in {PUT, DEL}
        PROVE  c \in Holding(op)' => c \in Holding(op)
    <3> USE DEF Holding, StubLabels, At, Goto
    <3>1. CASE Apply(c) \/ \E r \in Requests : Receive(c, r)
      BY <2>1, <3>1 DEF Apply, Receive
    <3>2. CASE WaitForList(c)
      BY <3>2 DEF WaitForList, primaryVars
    <3>3. CASE Read(c)
      BY <2>1, <3>3 DEF Read, ClientsOK, ClientOK, PUT, DEL, GET
    <3>4. CASE InitMessage(c)
      BY <2>1, <3>4 DEF InitMessage, StubFails
    <3>5. CASE FillMessage(c) \/ Send(c) \/ LoseAnswer(c)
      BY <2>1, <3>5 DEF FillMessage, Send, LoseAnswer
    <3>6. CASE ReceiveAnswer(c)
      BY <2>1, <3>6 DEF ReceiveAnswer, StubFails
    <3>7. QED
      BY <1>1, <2>1, <3>1, <3>2, <3>3, <3>4, <3>5, <3>6 DEF Moves, ThreadStep
  <2>4. \A d \in Clients : d # c => pc'[d] = pc[d] /\ req'[d] = req[d]
    BY <1>1, <2>1, MoverAlone, ClientsAreThreads
  <2>5. \A op \in {PUT, DEL} : Holding(op)' \subseteq Holding(op)
    BY <2>3, <2>4 DEF Holding
  <2>6. QED
    BY <2>2, <2>5, FewerHolding
<1>2. ASSUME Moves(watcher)
      PROVE  CountersCover'
  <2>1. watcher \in Threads /\ watcher \notin Clients
    BY ClientsAreThreads
  <2>2. UNCHANGED <<counter_PUT_ATUAL, counter_DEL_ATUAL>>
    <3> USE DEF monitorVars, Sleep
    <3>1. CASE EnterList(watcher)
      BY <3>1 DEF EnterList, At, TakeList, One, WatcherOK, MonitorTypeOK, PUT, DEL, GET
    <3>2. CASE Leave(watcher)
      BY <3>2 DEF Leave, At, ReleaseList, One, WatcherOK, MonitorTypeOK, PUT, DEL, GET
    <3>3. CASE ThreadStep(watcher) /\ ~EnterList(watcher) /\ ~Leave(watcher)
      BY <3>3
         DEF ThreadStep, WaitForList, Read, InitMessage, FillMessage, Send, ReceiveAnswer, LoseAnswer
    <3>4. CASE WatcherStep
      BY <3>4
         DEF WatcherStep, WatcherNotified, WatcherAlone, WatcherChecksBackup, WatcherConnects,
             WatcherEntersTable, WatcherWaitsForTable, WatcherGetsKeys, WatcherGetsSize,
             WatcherTakesKey, WatcherMissesKey, WatcherDone, ReleaseTable
    <3>5. QED
      BY <1>2, <2>1, <3>1, <3>2, <3>3, <3>4 DEF Moves
  <2>3. \A c \in Clients : pc'[c] = pc[c] /\ req'[c] = req[c]
    BY <1>2, <2>1, MoverAlone, ClientsAreThreads
  <2>4. \A op \in {PUT, DEL} : Holding(op)' \subseteq Holding(op)
    BY <2>3 DEF Holding
  <2>5. QED
    BY <2>2, <2>4, FewerHolding
<1>3. CASE BackupMoves \/ UNCHANGED vars
  <2>1. UNCHANGED <<pc, req, counter_PUT_ATUAL, counter_DEL_ATUAL>>
    BY <1>3, BackupAlone DEF primaryVars, monitorVars, vars
  <2>2. QED
    BY <2>1, FewerHolding DEF Holding
<1>4. QED
  BY <1>1, <1>2, <1>3, Steps, ClientsAreThreads, CountersAfterEnter, CountersAfterLeave

\* Every step keeps the part that always holds.
LEMMA AlwaysKept ==
  ASSUME Always, [Next]_vars
  PROVE  Always'
<1>1. TypeOK'
  <2>1. CASE UNCHANGED vars
    BY <2>1
       DEF Always, TypeOK, MonitorTypeOK, vars, monitorVars, primaryVars, backupVars, historyVars
  <2>2. QED
    BY <2>1, Steps, TypeKeptByClients, TypeKeptByThreads, TypeKeptByWatcher, TypeKeptByBackup
       DEF Moves, BackupMoves
<1>2. QED
  BY <1>1, ClientsKept, WatcherKept, ConnsKept, CountersKept DEF Always

\* Every state of every behaviour has the declared types: of the bounds, the
\* counters of puts and dels never fall below 0 and sizeLeft never below 0.
THEOREM TypeCorrectness == Spec => []TypeOK
<1>1. Always /\ [Next]_vars => Always'
  BY AlwaysKept
<1>2. Always => TypeOK
  BY DEF Always
<1>3. QED
  BY InitAlways, <1>1, <1>2, PTL DEF Spec

-----------------------------------------------------------------------------
(* The stub.                                                               *)

\* A socket that carries one frame.
LEMMA OneFrame ==
  ASSUME NEW m
  PROVE  /\ Append(<<>>, m) = <<m>>
         /\ Head(<<m>>) = m
         /\ Tail(<<m>>) = <<>>
         /\ <<m>> # <<>>
  OBVIOUS

StubStep(p) ==
  InitMessage(p) \/ FillMessage(p) \/ Send(p) \/ ReceiveAnswer(p) \/ LoseAnswer(p)

\* Who does not call the stub is not in it and leaves it as it is.
LEMMA OutsideStub ==
  ASSUME TypeOK, NEW p \in Threads, Moves(p), ~StubStep(p)
  PROVE  /\ ~InStub(p)
         /\ ~InStub(p)'
         /\ UNCHANGED <<msg, requests, replies>>
<1> USE DEF TypeOK, InStub, At, Goto, backupVars, primaryVars
<1>1. ASSUME NEW r \in Requests, Receive(p, r)
      PROVE  /\ ~InStub(p)
             /\ ~InStub(p)'
             /\ UNCHANGED <<msg, requests, replies>>
  BY <1>1 DEF Receive
<1>2. CASE Apply(p) \/ Leave(p) \/ Read(p)
  BY <1>2 DEF Apply, Leave, Read
<1>3. CASE EnterList(p) \/ WaitForList(p)
  BY <1>3 DEF EnterList, WaitForList
<1>4. CASE p = watcher /\ WatcherStep
  <2>1. CASE WatcherNotified \/ WatcherAlone \/ WatcherChecksBackup \/ WatcherConnects
    BY <1>4, <2>1 DEF WatcherNotified, WatcherAlone, WatcherChecksBackup, WatcherConnects
  <2>2. CASE WatcherEntersTable \/ WatcherWaitsForTable \/ WatcherGetsKeys \/ WatcherGetsSize
    BY <1>4, <2>2 DEF WatcherEntersTable, WatcherWaitsForTable, WatcherGetsKeys, WatcherGetsSize
  <2>3. CASE WatcherMissesKey \/ WatcherDone
    BY <1>4, <2>3 DEF WatcherMissesKey, WatcherDone
  <2>4. CASE \E k \in Keys : WatcherTakesKey(k)
    BY <1>4, <2>4 DEF WatcherTakesKey
  <2>5. QED
    BY <1>4, <2>1, <2>2, <2>3, <2>4 DEF WatcherStep
<1>5. QED
  BY <1>1, <1>2, <1>3, <1>4 DEF Moves, ThreadStep, StubStep

\* The primary is orderly only if it has been so far.
LEMMA OrderlyBefore ==
  ASSUME Always, [Next]_vars, Orderly'
  PROVE  Orderly
<1> USE DEF Always, Orderly
<1>1. ASSUME NEW p \in Threads, Moves(p)
      PROVE  Orderly
  BY <1>1, MoverAlone
<1>2. CASE BackupMoves
  BY <1>2, BackupAlone
<1>3. CASE UNCHANGED vars
  BY <1>3 DEF vars, primaryVars, historyVars
<1>4. QED
  BY <1>1, <1>2, <1>3, Steps

\* One thread at most is in the stub, until two of them race.
LEMMA StubAloneKept ==
  ASSUME Always, [Next]_vars, Orderly', StubAlone
  PROVE  StubAlone'
<1> USE DEF Always, TypeOK
<1>1. ASSUME \A q \in Threads : InStub(q)' => InStub(q)
      PROVE  StubAlone'
  BY <1>1 DEF StubAlone
<1>2. ASSUME NEW p \in Threads, Moves(p)
      PROVE  StubAlone'
  <2>1. \A q \in Threads \ {p} : InStub(q)' <=> InStub(q)
    BY <1>2, MoverAlone DEF InStub
  <2>2. CASE InitMessage(p)
    <3>1. \A q \in Threads \ {p} : ~InStub(q)
      BY <2>2 DEF InitMessage, Note, Orderly
    <3>2. QED
      BY <2>1, <3>1 DEF StubAlone
  <2>3. CASE FillMessage(p) \/ Send(p) \/ ReceiveAnswer(p) \/ LoseAnswer(p)
    <3>1. InStub(p)
      BY <2>3 DEF FillMessage, Send, ReceiveAnswer, LoseAnswer, At, InStub
    <3>2. QED
      BY <1>1, <2>1, <3>1
  <2>4. CASE ~StubStep(p)
    BY <1>1, <1>2, <2>1, <2>4, OutsideStub
  <2>5. QED
    BY <2>2, <2>3, <2>4 DEF StubStep
<1>3. CASE BackupMoves \/ UNCHANGED vars
  <2>1. pc' = pc
    BY <1>3, BackupAlone DEF primaryVars, vars
  <2>2. QED
    BY <1>1, <2>1 DEF InStub
<1>4. QED
  BY <1>2, <1>3, Steps

\* Steps outside the stub do not disturb the frames.
LEMMA ChannelsFrame ==
  ASSUME Channels, UNCHANGED <<msg, requests, replies, joined, up>>,
         \A p \in Threads : InStub(p)' <=> InStub(p),
         \A p \in Threads : InStub(p) => UNCHANGED <<pc[p], req[p], conn[p]>>
  PROVE  Channels'
<1>1. ASSUME NEW p \in Threads
      PROVE  ChannelOK(p)'
  BY ZenonT(60) DEF Channels, ChannelOK, InStub, Quiet, OnItsWay, Answered, Lost, Connected
<1>2. \A b \in Backups : Quiet(b)' <=> Quiet(b)
  BY DEF Quiet
<1>3. \A b \in Backups :
        (\A p \in Threads : ~(InStub(p) /\ conn[p] = b))' =>
          \A p \in Threads : ~(InStub(p) /\ conn[p] = b)
  OBVIOUS
<1>4. QED
  BY <1>1, <1>2, <1>3 DEF Channels

\* A step of the thread in the stub keeps message and socket its own.
LEMMA ChannelsAfterStub ==
  ASSUME Always, Always', Orderly, Orderly', StubAlone, Channels,
         NEW p \in Threads, Moves(p), StubStep(p)
  PROVE  Channels'
<1> USE DEF Always, TypeOK
<1>1. \A q \in Threads \ {p} : ~InStub(q) /\ pc'[q] = pc[q]
  <2>1. CASE InitMessage(p)
    BY <2>1, MoverAlone DEF InitMessage, Note, Orderly
  <2>2. CASE ~InitMessage(p)
    BY <2>2, MoverAlone
       DEF StubStep, FillMessage, Send, ReceiveAnswer, LoseAnswer, At, InStub, StubAlone
  <2>3. QED
    BY <2>1, <2>2
<1>2. \A q \in Threads \ {p} : ~InStub(q)' /\ ChannelOK(q)'
  BY <1>1 DEF InStub, ChannelOK
<1>3. \A b \in Backups : (InStub(p) /\ conn[p] = b) \/ Quiet(b)
  BY <1>1 DEF Channels
<1>4. SUFFICES /\ ChannelOK(p)'
               /\ \A b \in Backups : (InStub(p)' /\ conn'[p] = b) \/ Quiet(b)'
  BY <1>2 DEF Channels
<1>5. InStub(p) => conn[p] \in Backups
  BY BackupNumbers
<1>6. CASE InitMessage(p)
  <2>1. \A b \in Backups : Quiet(b)'
    BY <1>3, <1>6 DEF InitMessage, At, InStub, Quiet, backupVars
  <2>2. InStub(p)' => conn'[p] \in Backups
    <3>1. InStub(p)' => conn'[p] # 0
      BY DEF ConnsOK
    <3>2. conn'[p] \in 0 .. joined' /\ joined' \in 0 .. MaxJoins
      OBVIOUS
    <3>3. QED
      BY <3>1, <3>2, BackupNumber
  <2>3. pc'[p] \in {"fill", "idle", "init"}
    BY <1>6 DEF InitMessage, At, Goto, StubFails, Exit
  <2>4. QED
    BY <2>1, <2>2, <2>3 DEF ChannelOK, InStub
<1>7. CASE FillMessage(p)
  <2>1. /\ pc'[p] = "send" /\ msg' = req'[p] /\ pc[p] = "fill"
        /\ UNCHANGED <<requests, replies, conn>>
    BY <1>7 DEF FillMessage, At, Goto, backupVars
  <2>2. Quiet(conn[p])'
    BY <2>1 DEF Channels, ChannelOK, Quiet
  <2>3. QED
    BY <1>3, <2>1, <2>2 DEF ChannelOK, InStub, Quiet
<1>8. CASE Send(p)
  <2>1. /\ pc'[p] = "receive" /\ pc[p] = "send" /\ msg = req[p]
        /\ UNCHANGED <<replies, conn, req, joined, up>>
    BY <1>8 DEF Send, At, Goto, Channels, ChannelOK
  <2>2. Quiet(conn[p]) /\ conn[p] \in Backups
    BY <1>5, <2>1 DEF Channels, ChannelOK, InStub
  <2>3. \A b \in Backups : b # conn[p] => requests'[b] = requests[b]
    BY <1>8 DEF Send
  <2>4. CASE Connected(conn[p])
    <3>1. requests'[conn[p]] = <<req[p]>>
      BY <1>8, <2>1, <2>2, <2>4, OneFrame DEF Send, Quiet
    <3>2. OnItsWay(p)'
      BY <2>1, <2>2, <2>4, <3>1 DEF OnItsWay, Quiet, Connected
    <3>3. QED
      BY <1>3, <2>1, <2>3, <3>2 DEF ChannelOK, InStub, Quiet
  <2>5. CASE ~Connected(conn[p])
    <3>1. Lost(p)'
      BY <1>8, <2>1, <2>2, <2>5 DEF Send, Lost, Quiet, Connected
    <3>2. QED
      BY <1>3, <2>1, <2>3, <3>1 DEF ChannelOK, InStub, Quiet
  <2>6. QED
    BY <2>4, <2>5
<1>9. CASE ReceiveAnswer(p)
  <2>1. /\ pc[p] = "receive" /\ conn[p] \in Backups /\ replies[conn[p]] # <<>>
        /\ replies' = [replies EXCEPT ![conn[p]] = Tail(@)]
        /\ UNCHANGED requests
    BY <1>5, <1>9 DEF ReceiveAnswer, At, InStub
  <2>2. Answered(p, "ok") \/ Answered(p, "error")
    BY <2>1 DEF Channels, ChannelOK, OnItsWay, Lost, Quiet
  <2>3. requests'[conn[p]] = <<>> /\ replies'[conn[p]] = <<>>
    BY <2>1, <2>2, OneFrame DEF Answered
  <2>4. \A b \in Backups : Quiet(b)'
    BY <1>3, <2>1, <2>3 DEF Quiet
  <2>5. pc'[p] \notin {"fill", "send", "receive"}
    BY <1>9 DEF ReceiveAnswer, Goto, StubFails, Exit, Orderly
  <2>6. QED
    BY <2>4, <2>5 DEF ChannelOK
<1>10. CASE LoseAnswer(p)
  <2>1. /\ pc[p] = "receive" /\ conn[p] \in Backups /\ replies[conn[p]] = <<>>
        /\ ~Connected(conn[p])
        /\ UNCHANGED <<requests, replies>>
    BY <1>5, <1>10 DEF LoseAnswer, At, InStub, backupVars
  <2>2. Lost(p)
    BY <2>1, OneFrame DEF Channels, ChannelOK, OnItsWay, Answered
  <2>3. \A b \in Backups : Quiet(b)'
    BY <1>3, <2>1, <2>2 DEF Quiet, Lost
  <2>4. pc'[p] = "spinning"
    BY <1>10 DEF LoseAnswer, Goto, Exit, Orderly
  <2>5. QED
    BY <2>3, <2>4 DEF ChannelOK
<1>11. QED
  BY <1>6, <1>7, <1>8, <1>9, <1>10 DEF StubStep

\* The thread that the running backup works for.
LEMMA ServedThread ==
  ASSUME Always, Channels, up, requests[joined] # <<>>
  PROVE  \E p \in Threads : pc[p] = "receive" /\ conn[p] = joined /\ OnItsWay(p)
<1>1. joined \in Backups
  BY BackupNumbers
<1>2. PICK p \in Threads : InStub(p) /\ conn[p] = joined
  BY <1>1 DEF Channels, Quiet
<1>3. pc[p] = "receive" /\ OnItsWay(p)
  BY <1>2 DEF Channels, ChannelOK, Quiet, Answered, Lost, InStub
<1>4. QED
  BY <1>2, <1>3

\* So does a step of the backup.
LEMMA ChannelsAfterBackup ==
  ASSUME Always, StubAlone, Channels, BackupMoves
  PROVE  Channels'
<1> USE DEF Always, TypeOK
<1>1. UNCHANGED <<pc, req, msg, conn>>
  BY BackupAlone DEF primaryVars
<1>2. joined \in Nat
  BY BackupNumbers
<1>3. CASE BackupServes
  <2>1. PICK p \in Threads : pc[p] = "receive" /\ conn[p] = joined /\ OnItsWay(p)
    BY <1>3, ServedThread DEF BackupServes
  <2>2. joined \in Backups
    BY <1>3, BackupNumbers DEF BackupServes
  <2>3. /\ requests'[joined] = <<>>
        /\ replies'[joined] = <<Answer(req[p])>>
    BY <1>3, <2>1, <2>2, OneFrame DEF BackupServes, OnItsWay
  <2>4. Answer(req[p]) \in {"ok", "error"}
    BY DEF Answer
  <2>5. ChannelOK(p)'
    BY <1>1, <2>1, <2>3, <2>4 DEF ChannelOK, Answered
  <2>6. \A q \in Threads \ {p} : ~InStub(q) /\ ~InStub(q)' /\ ChannelOK(q)'
    BY <1>1, <2>1 DEF StubAlone, InStub, ChannelOK
  <2>7. \A b \in Backups : b = joined \/ Quiet(b)'
    BY <1>3, <2>1, <2>6 DEF Channels, Quiet, BackupServes
  <2>8. QED
    BY <1>1, <2>1, <2>5, <2>6, <2>7 DEF Channels, InStub
<1>4. CASE BackupCrashes
  <2>1. joined \in Backups
    BY <1>4, BackupNumbers DEF BackupCrashes
  <2>2. /\ requests' = [requests EXCEPT ![joined] = <<>>]
        /\ UNCHANGED <<replies, joined>> /\ ~up'
    BY <1>4 DEF BackupCrashes
  <2>3. ASSUME NEW p \in Threads
        PROVE  ChannelOK(p)'
    <3>1. CASE ~InStub(p)
      BY <1>1, <3>1 DEF InStub, ChannelOK
    <3>2. CASE InStub(p)
      <4>1. conn[p] \in Backups
        BY <3>2, BackupNumbers
      <4>2. requests'[conn[p]] = IF conn[p] = joined THEN <<>> ELSE requests[conn[p]]
        <5>1. CASE conn[p] = joined
          BY <2>1, <2>2, <5>1
        <5>2. CASE conn[p] # joined
          BY <2>2, <4>1, <5>2
        <5>3. QED
          BY <5>1, <5>2
      <4>3. Quiet(conn[p]) => Quiet(conn[p])'
        BY <1>1, <2>2, <4>2 DEF Quiet
      <4>4. OnItsWay(p) => Lost(p)'
        BY <1>1, <2>2, <4>2 DEF OnItsWay, Lost, Quiet, Connected
      <4>5. Lost(p) => Lost(p)'
        BY <1>1, <2>2, <4>3 DEF Lost, Connected
      <4>6. \A a : Answered(p, a) => Answered(p, a)'
        BY <1>1, <2>2, <4>2 DEF Answered
      <4>7. QED
        BY <1>1, <4>3, <4>4, <4>5, <4>6 DEF Channels, ChannelOK
    <3>3. QED
      BY <3>1, <3>2
  <2>4. \A b \in Backups : Quiet(b) => Quiet(b)'
    BY <2>1, <2>2 DEF Quiet
  <2>5. QED
    BY <1>1, <2>3, <2>4 DEF Channels, InStub
<1>5. CASE BackupJoins
  <2>1. UNCHANGED <<requests, replies>> /\ joined' = joined + 1 /\ ~up
    BY <1>5 DEF BackupJoins
  <2>2. \A p \in Threads : ~Connected(conn[p]) /\ ~Connected(conn[p])'
    BY <1>1, <1>2, <2>1 DEF Connected
  <2>3. QED
    BY <1>1, <2>1, <2>2
       DEF Channels, ChannelOK, InStub, Quiet, OnItsWay, Answered, Lost
<1>6. CASE SessionExpires
  BY <1>1, <1>6, ChannelsFrame DEF SessionExpires, InStub
<1>7. QED
  BY <1>3, <1>4, <1>5, <1>6 DEF BackupMoves

\* The message and what is on the socket belong to the thread in the stub.
LEMMA ChannelsKept ==
  ASSUME Always, Always', [Next]_vars, Orderly, Orderly', StubAlone, Channels
  PROVE  Channels'
<1>1. ASSUME NEW p \in Threads, Moves(p), ~StubStep(p)
      PROVE  Channels'
  <2>1. UNCHANGED <<msg, requests, replies, joined, up>> /\ ~InStub(p) /\ ~InStub(p)'
    BY <1>1, OutsideStub, MoverAlone DEF Always
  <2>2. \A q \in Threads \ {p} : UNCHANGED <<pc[q], req[q], conn[q]>>
    BY <1>1, MoverAlone DEF Always
  <2>3. \A q \in Threads : InStub(q)' <=> InStub(q)
    BY <2>1, <2>2 DEF InStub
  <2>4. \A q \in Threads : InStub(q) => UNCHANGED <<pc[q], req[q], conn[q]>>
    BY <2>1, <2>2
  <2>5. QED
    BY <2>1, <2>3, <2>4, ChannelsFrame
<1>2. CASE UNCHANGED vars
  BY <1>2, ChannelsFrame DEF vars, primaryVars, backupVars, InStub
<1>3. QED
  BY <1>1, <1>2, Steps, ChannelsAfterStub, ChannelsAfterBackup

-----------------------------------------------------------------------------
(* The resynchronisation.                                                  *)

\* What a client's thread leaves to the watcher.
LEMMA ClientLeavesSync ==
  ASSUME NEW c \in Clients, Moves(c)
  PROVE  /\ UNCHANGED <<rtable, keysLeft, sizeLeft, synced>>
         /\ ~Apply(c) => table' = table
  BY ClientsAreThreads
     DEF Moves, ThreadStep, Receive, Apply, EnterList, WaitForList, Read, Leave, InitMessage,
         FillMessage, Send, ReceiveAnswer, LoseAnswer, primaryVars, historyVars

\* A client gets to the stub by InitMessage only, with the request it has and the
\* backup it got there.
LEMMA WritingBegins ==
  ASSUME Always, NEW c \in Clients, Moves(c), ~InitMessage(c), Writing(c)'
  PROVE  Writing(c) /\ UNCHANGED <<req[c], conn[c]>>
<1> USE DEF Always, TypeOK, Writing, At, Goto
<1>1. c \in Threads /\ c # watcher
  BY ClientsAreThreads
<1>2. CASE Apply(c) \/ \E r \in Requests : Receive(c, r)
  BY <1>1, <1>2 DEF Apply, Receive
<1>3. CASE EnterList(c)
  BY <1>1, <1>3 DEF EnterList
<1>4. CASE WaitForList(c)
  BY <1>1, <1>4 DEF WaitForList, primaryVars
<1>5. CASE Read(c) \/ Leave(c)
  BY <1>1, <1>5 DEF Read, Leave
<1>6. CASE FillMessage(c) \/ Send(c)
  BY <1>1, <1>6 DEF FillMessage, Send
<1>7. CASE ReceiveAnswer(c)
  BY <1>1, <1>7 DEF ReceiveAnswer, StubFails
<1>8. CASE LoseAnswer(c)
  BY <1>1, <1>8 DEF LoseAnswer
<1>9. QED
  BY <1>1, <1>2, <1>3, <1>4, <1>5, <1>6, <1>7, <1>8 DEF Moves, ThreadStep

\* No put or del is in the stub when comeca lets child_watcher into the table.
LEMMA TableFree ==
  ASSUME Always, ~TableBusy, NEW c \in Clients
  PROVE  pc[c] \notin StubLabels
<1>1. counter_PUT_ATUAL = 0 /\ counter_DEL_ATUAL = 0
  BY DEF TableBusy
<1>2. Cardinality(Holding(PUT)) = 0 /\ Cardinality(Holding(DEL)) = 0
  BY <1>1, HoldingCount DEF Always, CountersCover
<1>3. Holding(PUT) = {} /\ Holding(DEL) = {}
  BY <1>2, HoldingCount, FS_EmptySet
<1>4. QED
  BY <1>3 DEF Holding, Always, ClientsOK, ClientOK

\* A resynchronisation begins when comeca lets the watcher go on.
LEMMA SyncBegins ==
  ASSUME TypeOK, Moves(watcher), InSync', ~InSync
  PROVE  WatcherEntersTable
<1> USE DEF TypeOK, InSync, LoopLabels, At, Goto
<1>1. watcher \in Threads /\ watcher \notin Clients
  BY ClientsAreThreads
<1>2. CASE EnterList(watcher) \/ WaitForList(watcher) \/ Read(watcher) \/ Leave(watcher)
  BY <1>1, <1>2 DEF EnterList, WaitForList, Read, Leave, primaryVars
<1>3. CASE StubStep(watcher)
  BY <1>1, <1>3 DEF StubStep, InitMessage, FillMessage, Send, ReceiveAnswer, LoseAnswer
<1>4. CASE WatcherNotified \/ WatcherAlone \/ WatcherChecksBackup \/ WatcherConnects
  BY <1>1, <1>4 DEF WatcherNotified, WatcherAlone, WatcherChecksBackup, WatcherConnects
<1>5. CASE WatcherWaitsForTable \/ WatcherGetsKeys \/ WatcherGetsSize
  BY <1>1, <1>5 DEF WatcherWaitsForTable, WatcherGetsKeys, WatcherGetsSize, primaryVars
<1>6. CASE (\E k \in Keys : WatcherTakesKey(k)) \/ WatcherMissesKey \/ WatcherDone
  BY <1>1, <1>6 DEF WatcherTakesKey, WatcherMissesKey, WatcherDone
<1>7. QED
  BY <1>1, <1>2, <1>3, <1>4, <1>5, <1>6 DEF Moves, ThreadStep, WatcherStep, StubStep

\* No client is in put or del during a resynchronisation, until one races it.
LEMMA SyncAloneKept ==
  ASSUME Always, [Next]_vars, Orderly', SyncAlone
  PROVE  SyncAlone'
<1>1. ASSUME NEW c \in Clients, Moves(c)
      PROVE  SyncAlone'
  <2>1. \A q \in Threads \ {c} : pc'[q] = pc[q]
    BY <1>1, MoverAlone, ClientsAreThreads DEF Always
  <2>2. InSync' <=> InSync
    BY <2>1, ClientsAreThreads DEF InSync
  <2>3. CASE InitMessage(c)
    <3>1. ~InSync
      BY <2>3, ClientsAreThreads
         DEF InitMessage, Note, Orderly, Syncing, InSync, LoopLabels
    <3>2. QED
      BY <2>2, <3>1 DEF SyncAlone
  <2>4. CASE ~InitMessage(c)
    <3>1. \A d \in Clients : Writing(d)' => Writing(d)
      BY <1>1, <2>1, <2>4, WritingBegins, ClientsAreThreads DEF Writing
    <3>2. QED
      BY <2>2, <3>1 DEF SyncAlone
  <2>5. QED
    BY <2>3, <2>4
<1>2. ASSUME Moves(watcher)
      PROVE  SyncAlone'
  <2>1. \A d \in Clients : pc'[d] = pc[d]
    BY <1>2, MoverAlone, ClientsAreThreads DEF Always
  <2>2. \A d \in Clients : Writing(d)' <=> Writing(d)
    BY <2>1 DEF Writing
  <2>3. CASE WatcherEntersTable
    BY <2>2, <2>3, TableFree DEF WatcherEntersTable, SyncAlone, Writing, StubLabels
  <2>4. CASE ~WatcherEntersTable
    BY <1>2, <2>2, <2>4, SyncBegins DEF SyncAlone, Always
  <2>5. QED
    BY <2>3, <2>4
<1>3. CASE BackupMoves \/ UNCHANGED vars
  <2>1. pc' = pc
    BY <1>3, BackupAlone DEF primaryVars, vars
  <2>2. QED
    BY <2>1 DEF SyncAlone, InSync, Writing
<1>4. QED
  BY <1>1, <1>2, <1>3, Steps, ClientsAreThreads

\* The watcher sends the keys of the table one by one.
LEMMA SyncKeysAfterWatcher ==
  ASSUME Always, Orderly', SyncKeys, Moves(watcher)
  PROVE  SyncKeys'
<1> USE DEF Always, TypeOK, LoopLabels, At, Goto
<1>1. watcher \in Threads /\ watcher \notin Clients
  BY ClientsAreThreads
<1>2. ASSUME table' = table PROVE StoredKeys' = StoredKeys
  BY <1>2 DEF StoredKeys
<1>3. CASE EnterList(watcher)
  <2>1. /\ pc'[watcher] = "read" /\ pc[watcher] = "enter"
        /\ UNCHANGED <<table, req, keysLeft, sizeLeft>>
    BY <1>1, <1>3 DEF EnterList, WatcherOK
  <2>2. QED
    BY <1>2, <2>1 DEF SyncKeys
<1>4. CASE WaitForList(watcher)
  BY <1>2, <1>4 DEF WaitForList, SyncKeys, primaryVars
<1>5. CASE Read(watcher)
  <2>1. /\ pc'[watcher] = "leave" /\ pc[watcher] = "read"
        /\ req'[watcher] = [req[watcher] EXCEPT !.value = table[req[watcher].key]]
        /\ UNCHANGED <<table, keysLeft, sizeLeft>>
    BY <1>1, <1>5 DEF Read
  <2>2. req[watcher] \in Messages
    BY <1>1
  <2>3. req'[watcher].key = req[watcher].key /\ req'[watcher].value = table[req[watcher].key]
    BY <2>1, <2>2 DEF Messages
  <2>4. QED
    BY <1>2, <2>1, <2>3 DEF SyncKeys
<1>6. CASE Leave(watcher)
  <2>1. /\ pc'[watcher] = "init" /\ pc[watcher] = "leave"
        /\ req'[watcher] = [req[watcher] EXCEPT !.op = PUT]
        /\ UNCHANGED <<table, keysLeft, sizeLeft>>
    BY <1>1, <1>6 DEF Leave
  <2>2. req[watcher] \in Messages
    BY <1>1
  <2>3. req'[watcher].key = req[watcher].key /\ req'[watcher].value = req[watcher].value
    BY <2>1, <2>2 DEF Messages
  <2>4. QED
    BY <1>2, <2>1, <2>3 DEF SyncKeys
<1>7. CASE InitMessage(watcher)
  BY <1>1, <1>2, <1>7 DEF InitMessage, StubFails, Exit, Orderly, SyncKeys
<1>8. CASE FillMessage(watcher) \/ Send(watcher)
  BY <1>1, <1>2, <1>8 DEF FillMessage, Send, SyncKeys
<1>9. CASE ReceiveAnswer(watcher)
  BY <1>1, <1>2, <1>9 DEF ReceiveAnswer, StubFails, Exit, Orderly, SyncKeys
<1>10. CASE LoseAnswer(watcher)
  BY <1>1, <1>2, <1>10 DEF LoseAnswer, Exit, Orderly, SyncKeys
<1>11. CASE WatcherNotified \/ WatcherAlone \/ WatcherChecksBackup \/ WatcherConnects
  BY <1>1, <1>11
     DEF WatcherNotified, WatcherAlone, WatcherChecksBackup, WatcherConnects, Exit, Orderly, SyncKeys
<1>12. CASE WatcherEntersTable \/ WatcherWaitsForTable
  BY <1>1, <1>2, <1>12 DEF WatcherEntersTable, WatcherWaitsForTable, SyncKeys, primaryVars
<1>13. CASE WatcherGetsKeys
  BY <1>1, <1>2, <1>13 DEF WatcherGetsKeys, SyncKeys
<1>14. CASE WatcherGetsSize
  BY <1>1, <1>2, <1>14 DEF WatcherGetsSize, SyncKeys
<1>15. ASSUME NEW k \in Keys, WatcherTakesKey(k)
       PROVE  SyncKeys'
  <2>1. /\ pc'[watcher] = "enter" /\ pc[watcher] = "next" /\ k \in keysLeft
        /\ keysLeft' = keysLeft \ {k} /\ sizeLeft' = sizeLeft - 1
        /\ req'[watcher] = [op |-> GET, key |-> k, value |-> Empty]
        /\ table' = table
    BY <1>1, <1>15 DEF WatcherTakesKey
  <2>2. Cardinality(keysLeft \ {k}) = Cardinality(keysLeft) - 1
    BY <2>1, KeysCount, FS_RemoveElement
  <2>3. req'[watcher].key = k
    BY <2>1
  <2>4. QED
    BY <1>2, <2>1, <2>2, <2>3 DEF SyncKeys
<1>16. CASE WatcherMissesKey
  BY <1>16 DEF WatcherMissesKey, Exit, Orderly
<1>17. CASE WatcherDone
  BY <1>1, <1>17 DEF WatcherDone, SyncKeys
<1>18. QED
  BY <1>1, <1>3, <1>4, <1>5, <1>6, <1>7, <1>8, <1>9, <1>10, <1>11, <1>12, <1>13, <1>14,
     <1>15, <1>16, <1>17
     DEF Moves, ThreadStep, WatcherStep

\* While child_watcher puts the table to the backup, no client changes it.
LEMMA SyncKeysKept ==
  ASSUME Always, [Next]_vars, Orderly', SyncAlone, SyncKeys
  PROVE  SyncKeys'
<1>1. ASSUME UNCHANGED <<pc[watcher], req[watcher], keysLeft, sizeLeft>>,
             InSync => table' = table
      PROVE  SyncKeys'
  BY <1>1 DEF SyncKeys, StoredKeys, InSync, LoopLabels
<1>2. ASSUME NEW c \in Clients, Moves(c)
      PROVE  SyncKeys'
  <2>1. UNCHANGED <<pc[watcher], req[watcher], keysLeft, sizeLeft>>
    BY <1>2, MoverAlone, ClientLeavesSync, ClientsAreThreads DEF Always
  <2>2. InSync => table' = table
    BY <1>2, ClientLeavesSync DEF SyncAlone, Writing, Apply, At
  <2>3. QED
    BY <1>1, <2>1, <2>2
<1>3. CASE BackupMoves \/ UNCHANGED vars
  BY <1>1, <1>3, BackupAlone DEF primaryVars, vars
<1>4. QED
  BY <1>2, <1>3, Steps, SyncKeysAfterWatcher, ClientsAreThreads

\* Every step keeps what is known of the stub.
LEMMA StubInvKept ==
  ASSUME Always, Always', StubInv, [Next]_vars
  PROVE  StubInv'
  BY OrderlyBefore, StubAloneKept, ChannelsKept, SyncAloneKept, SyncKeysKept DEF StubInv

-----------------------------------------------------------------------------
(* The primary exits only if disturbed.                                    *)

\* What has not gone wrong yet had not gone wrong before.
LEMMA CalmBefore ==
  ASSUME Always, [Next]_vars, Calm'
  PROVE  Calm
<1>1. ASSUME NEW p \in Threads, Moves(p)
      PROVE  mishaps \subseteq mishaps'
  BY <1>1, MoverAlone DEF Always
<1>2. mishaps \subseteq mishaps'
  BY <1>1, BackupAlone, Steps DEF vars, historyVars
<1>3. QED
  BY <1>2 DEF Calm

\* Until the first backup crashes, whoever is in the stub is connected to it.
LEMMA CalmConnected ==
  ASSUME Always, OneBackup, NEW p \in Threads, InStub(p)
  PROVE  Connected(conn[p])
<1>1. conn[p] # 0 /\ conn[p] \in 0 .. joined /\ joined \in {0, 1}
  BY DEF Always, TypeOK, ConnsOK, OneBackup
<1>2. QED
  BY <1>1 DEF OneBackup, Connected

\* As long as one thread is in the stub, no other one touches the frames.
LEMMA FramesLeft ==
  ASSUME TypeOK, StubAlone, NEW p \in Threads, Moves(p), NEW q \in Threads \ {p}, InStub(q)
  PROVE  UNCHANGED <<requests, replies>>
<1>1. CASE ~StubStep(p)
  BY <1>1, OutsideStub
<1>2. CASE InitMessage(p)
  BY <1>2 DEF InitMessage, backupVars
<1>3. CASE FillMessage(p) \/ Send(p) \/ ReceiveAnswer(p) \/ LoseAnswer(p)
  BY <1>3 DEF StubAlone, InStub, FillMessage, Send, ReceiveAnswer, LoseAnswer, At
<1>4. QED
  BY <1>1, <1>2, <1>3 DEF StubStep

\* What a client does in the stub neither ends the primary nor takes the answer
\* that child_watcher waits for.
LEMMA CalmAfterClient ==
  ASSUME Always, Calm', Orderly, StubAlone, OneBackup, NEW c \in Clients, Moves(c)
  PROVE  OneBackup'
<1> USE DEF Always, TypeOK
<1>1. c \in Threads /\ c # watcher /\ watcher \in Threads
  BY ClientsAreThreads
<1>2. /\ UNCHANGED <<pc[watcher], conn[watcher]>>
      /\ UNCHANGED <<rtable, joined, up>>
  BY <1>1, MoverAlone, ClientLeavesSync
<1>3. UNCHANGED <<znode, notified>>
  BY <1>1
     DEF Moves, ThreadStep, Receive, Apply, EnterList, WaitForList, Read, Leave, InitMessage,
         FillMessage, Send, ReceiveAnswer, LoseAnswer, backupVars
<1>4. ~exited'
  <2>1. CASE Send(c)
    BY <1>1, <2>1, CalmConnected DEF Send, At, InStub, OneBackup
  <2>2. CASE LoseAnswer(c)
    BY <1>1, <2>2, CalmConnected DEF LoseAnswer, At, InStub, OneBackup
  <2>3. CASE ~Send(c) /\ ~LoseAnswer(c)
    BY <1>1, <2>3
       DEF Moves, ThreadStep, Receive, Apply, EnterList, WaitForList, Read, Leave, InitMessage,
           FillMessage, ReceiveAnswer, StubFails, OneBackup, primaryVars
  <2>4. QED
    BY <2>1, <2>2, <2>3
<1>5. pc[watcher] = "receive" => UNCHANGED <<requests, replies>>
  BY <1>1, FramesLeft DEF InStub
<1>6. QED
  BY <1>2, <1>3, <1>4, <1>5 DEF OneBackup, InSync, Answered

\* While the only backup lives, the watcher is served.
LEMMA CalmAfterWatcher ==
  ASSUME Always, Channels, SyncKeys, OneBackup, Moves(watcher)
  PROVE  OneBackup'
<1> USE DEF Always, TypeOK, At, Goto
<1>1. watcher \in Threads /\ watcher \notin Clients
  BY ClientsAreThreads
<1>2. UNCHANGED <<joined, up>>
  BY <1>1, MoverAlone
<1>3. CASE EnterList(watcher) \/ Read(watcher) \/ Leave(watcher)
  BY <1>1, <1>3
     DEF EnterList, Read, Leave, OneBackup, InSync, LoopLabels, backupVars, WatcherOK
<1>4. CASE WaitForList(watcher) \/ WatcherWaitsForTable
  BY <1>4
     DEF WaitForList, WatcherWaitsForTable, OneBackup, InSync, primaryVars, backupVars, Answered
<1>5. CASE InitMessage(watcher)
  <2>1. up /\ rtable = joined /\ rtable # 0
    BY <1>1, <1>5 DEF InitMessage, OneBackup, InSync, LoopLabels
  <2>2. QED
    BY <1>1, <1>5, <2>1 DEF InitMessage, OneBackup, InSync, LoopLabels, backupVars
<1>6. CASE FillMessage(watcher)
  BY <1>1, <1>6 DEF FillMessage, OneBackup, InSync, LoopLabels, backupVars
<1>7. CASE Send(watcher)
  <2>1. Connected(conn[watcher]) /\ Quiet(conn[watcher])
    BY <1>1, <1>7, CalmConnected DEF Send, InStub, Channels, ChannelOK
  <2>2. replies'[conn'[watcher]] = <<>>
    BY <1>7, <2>1 DEF Send, Quiet
  <2>3. <<>> # <<"error">>
    BY OneFrame
  <2>4. ~Answered(watcher, "error")'
    BY <2>2, <2>3 DEF Answered
  <2>5. QED
    BY <1>1, <1>2, <1>7, <2>1, <2>4 DEF Send, OneBackup, InSync, LoopLabels
<1>8. CASE ReceiveAnswer(watcher)
  <2>1. Answered(watcher, "ok")
    BY <1>1, <1>8 DEF ReceiveAnswer, Channels, ChannelOK, OnItsWay, Lost, Quiet, OneBackup
  <2>2. Head(replies[conn[watcher]]) = "ok"
    BY <2>1, OneFrame DEF Answered
  <2>3. QED
    BY <1>1, <1>2, <1>8, <2>2 DEF ReceiveAnswer, OneBackup, InSync, LoopLabels
<1>9. CASE LoseAnswer(watcher)
  BY <1>1, <1>9, CalmConnected DEF LoseAnswer, InStub
<1>10. CASE WatcherNotified
  BY <1>1, <1>2, <1>10 DEF WatcherNotified, OneBackup, InSync, LoopLabels
<1>11. CASE WatcherAlone \/ WatcherChecksBackup
  BY <1>11 DEF WatcherAlone, WatcherChecksBackup, OneBackup
<1>12. CASE WatcherConnects
  BY <1>1, <1>2, <1>12 DEF WatcherConnects, OneBackup, InSync, LoopLabels, backupVars
<1>13. CASE WatcherEntersTable \/ WatcherGetsKeys \/ WatcherGetsSize
  BY <1>1, <1>13
     DEF WatcherEntersTable, WatcherGetsKeys, WatcherGetsSize, OneBackup, InSync, LoopLabels, backupVars
<1>14. CASE \E k \in Keys : WatcherTakesKey(k)
  BY <1>1, <1>14 DEF WatcherTakesKey, OneBackup, InSync, LoopLabels, backupVars
<1>15. CASE WatcherMissesKey
  BY <1>15, FS_EmptySet DEF WatcherMissesKey, SyncKeys, LoopLabels
<1>16. CASE WatcherDone
  BY <1>1, <1>16 DEF WatcherDone, OneBackup, InSync, LoopLabels, backupVars
<1>17. QED
  BY <1>1, <1>3, <1>4, <1>5, <1>6, <1>7, <1>8, <1>9, <1>10, <1>11, <1>12, <1>13, <1>14,
     <1>15, <1>16
     DEF Moves, ThreadStep, WatcherStep

\* The backup refuses nothing that child_watcher puts: the data come from the
\* table.
LEMMA WatcherNotRefused ==
  ASSUME Always, SyncKeys, pc[watcher] = "receive"
  PROVE  Answer(req[watcher]) = "ok"
<1>1. req[watcher].op = PUT
  BY DEF Always, WatcherOK
<1>2. req[watcher].value = table[req[watcher].key] /\ req[watcher].key \in StoredKeys
  BY DEF SyncKeys, LoopLabels
<1>3. req[watcher].value # Empty
  BY <1>2 DEF StoredKeys
<1>4. QED
  BY <1>1, <1>3 DEF Answer, PUT, DEL

\* While nothing goes wrong there is one backup, and it answers.
LEMMA CalmAfterBackup ==
  ASSUME Always, Calm', StubAlone, Channels, SyncKeys, OneBackup, BackupMoves
  PROVE  OneBackup'
<1> USE DEF Always, TypeOK
<1>1. UNCHANGED <<pc, req, conn, rtable, exited>>
  BY BackupAlone DEF primaryVars
<1>2. CASE BackupServes
  <2>1. PICK p \in Threads : pc[p] = "receive" /\ conn[p] = joined /\ OnItsWay(p)
    BY <1>2, ServedThread DEF BackupServes
  <2>2. joined \in Backups
    BY <1>2, BackupNumbers DEF BackupServes
  <2>3. replies'[joined] = <<Answer(req[p])>>
    BY <1>2, <2>1, <2>2, OneFrame DEF BackupServes, OnItsWay
  <2>4. pc[watcher] = "receive" => p = watcher
    BY <2>1, ClientsAreThreads DEF StubAlone, InStub
  <2>5. pc[watcher] = "receive" => replies'[conn'[watcher]] = <<"ok">>
    BY <1>1, <2>1, <2>3, <2>4, WatcherNotRefused
  <2>6. <<"ok">> # <<"error">>
    BY OneFrame
  <2>7. UNCHANGED <<joined, up, znode, notified>>
    BY <1>2 DEF BackupServes
  <2>8. QED
    BY <1>1, <2>5, <2>6, <2>7 DEF OneBackup, InSync, Answered
<1>3. CASE BackupJoins
  <2>1. joined = 0 /\ joined' = 1 /\ up' /\ znode' /\ notified' /\ ~up
    BY <1>3 DEF BackupJoins, OneBackup
  <2>2. pc[watcher] \notin {"connect", "comeca"} /\ ~InSync
    BY <2>1 DEF OneBackup
  <2>3. pc[watcher] # "receive"
    BY <2>2 DEF InSync, LoopLabels
  <2>4. QED
    BY <1>1, <2>1, <2>2, <2>3 DEF OneBackup, InSync
<1>4. CASE BackupCrashes
  BY <1>4 DEF BackupCrashes, Calm
<1>5. CASE SessionExpires
  BY <1>5 DEF SessionExpires, OneBackup
<1>6. QED
  BY <1>2, <1>3, <1>4, <1>5 DEF BackupMoves

\* Every step keeps what holds until a crash or a race.
LEMMA CalmInvKept ==
  ASSUME Always, StubInv, CalmInv, [Next]_vars
  PROVE  CalmInv'
<1> SUFFICES ASSUME Calm' PROVE OneBackup'
  BY DEF CalmInv
<1>1. Calm /\ OneBackup
  BY CalmBefore DEF CalmInv
<1>2. Orderly
  BY <1>1 DEF Calm, OneBackup, Orderly
<1>3. StubAlone /\ Channels /\ SyncKeys
  BY <1>2 DEF StubInv
<1>4. CASE UNCHANGED vars
  BY <1>1, <1>4 DEF OneBackup, InSync, Answered, vars, primaryVars, backupVars
<1>5. QED
  BY <1>1, <1>2, <1>3, <1>4, Steps, CalmAfterClient, CalmAfterWatcher, CalmAfterBackup,
     ClientsAreThreads

-----------------------------------------------------------------------------
(* The lists.                                                              *)

\* Besides comeca_listas, nothing takes a thread into a list, and nothing but it
\* and termina_listas touches the list of a key.
LEMMA InListMoves ==
  ASSUME Always, NEW p \in Threads, Moves(p), ~EnterList(p), ~Leave(p)
  PROVE  /\ counter_LISTAS' = counter_LISTAS
         /\ InList(p)' => InList(p) /\ req'[p].key = req[p].key
<1> USE DEF Always, TypeOK, InList, StubLabels, At, Goto, Sleep, monitorVars
<1>1. ASSUME NEW r \in Requests, Receive(p, r)
      PROVE  /\ counter_LISTAS' = counter_LISTAS
             /\ InList(p)' => InList(p) /\ req'[p].key = req[p].key
  BY <1>1 DEF Receive
<1>2. CASE p \in Clients /\ Apply(p)
  BY <1>2, ClientsAreThreads DEF Apply
<1>3. CASE WaitForList(p)
  BY <1>3 DEF WaitForList, primaryVars
<1>4. CASE Read(p)
  <2>1. /\ counter_LISTAS' = counter_LISTAS
        /\ pc[p] = "read"
        /\ req'[p] = [req[p] EXCEPT !.value = table[req[p].key]]
    BY <1>4 DEF Read
  <2>2. req[p] \in Messages
    OBVIOUS
  <2>3. req'[p].key = req[p].key
    BY <2>1, <2>2 DEF Messages
  <2>4. QED
    BY <2>1, <2>3
<1>5. CASE InitMessage(p)
  BY <1>5, ClientsAreThreads DEF InitMessage, StubFails
<1>6. CASE FillMessage(p) \/ Send(p)
  BY <1>6, ClientsAreThreads DEF FillMessage, Send
<1>7. CASE ReceiveAnswer(p)
  BY <1>7, ClientsAreThreads DEF ReceiveAnswer, StubFails
<1>8. CASE LoseAnswer(p)
  BY <1>8, ClientsAreThreads DEF LoseAnswer
<1>9. CASE p = watcher /\ WatcherStep
  <2>1. CASE WatcherNotified \/ WatcherAlone \/ WatcherChecksBackup \/ WatcherConnects
    BY <1>9, <2>1 DEF WatcherNotified, WatcherAlone, WatcherChecksBackup, WatcherConnects
  <2>2. CASE WatcherEntersTable \/ WatcherWaitsForTable \/ WatcherGetsKeys \/ WatcherGetsSize
    BY <1>9, <2>2
       DEF WatcherEntersTable, WatcherWaitsForTable, WatcherGetsKeys, WatcherGetsSize,
           ReleaseTable, primaryVars
  <2>3. CASE WatcherMissesKey \/ WatcherDone
    BY <1>9, <2>3 DEF WatcherMissesKey, WatcherDone
  <2>4. CASE \E k \in Keys : WatcherTakesKey(k)
    BY <1>9, <2>4 DEF WatcherTakesKey
  <2>5. QED
    BY <1>9, <2>1, <2>2, <2>3, <2>4 DEF WatcherStep
<1>10. QED
  BY <1>1, <1>2, <1>3, <1>4, <1>5, <1>6, <1>7, <1>8, <1>9 DEF Moves, ThreadStep

\* A thread in a list has a key of that list.
LEMMA InListKey ==
  ASSUME Always, NEW p \in Threads, InList(p) \/ pc[p] = "enter"
  PROVE  req[p].key \in Keys /\ hash[req[p].key] \in Lists
<1>1. req[p].key \in Keys
  BY ClientsAreThreads DEF Always, InList, ClientsOK, ClientOK, WatcherOK, StubLabels
<1>2. QED
  BY <1>1, ReplicationAssumption DEF ReplicationAssumption

\* One put or del at most is in a list, until one has barged.
LEMMA ListsAloneKept ==
  ASSUME Always, [Next]_vars, Exclusive', ListsAlone
  PROVE  ListsAlone'
<1> USE DEF Always, TypeOK, MonitorTypeOK
<1>1. ASSUME counter_LISTAS' = counter_LISTAS,
             \A q \in Threads : InList(q)' => InList(q) /\ req'[q].key = req[q].key
      PROVE  ListsAlone'
  BY <1>1 DEF ListsAlone
<1>2. ASSUME NEW p \in Threads, Moves(p)
      PROVE  ListsAlone'
  <2>1. \A q \in Threads \ {p} : pc'[q] = pc[q] /\ req'[q] = req[q]
    BY <1>2, MoverAlone
  <2>2. \A q \in Threads \ {p} : (InList(q)' <=> InList(q)) /\ req'[q].key = req[q].key
    BY <2>1 DEF InList
  <2>3. CASE EnterList(p)
    <3>1. hash[req[p].key] \in Lists
      BY <2>3, InListKey DEF EnterList, At
    <3>2. counter_LISTAS[hash[req[p].key]] = 0
      BY <2>3 DEF EnterList, ListBusy, Note, Exclusive
    <3>3. \A q \in Threads \ {p} : InList(q) => hash[req[q].key] # hash[req[p].key]
      BY <3>2 DEF ListsAlone
    <3>4. counter_LISTAS' = [counter_LISTAS EXCEPT ![hash[req[p].key]] = 1] /\ req' = req
      BY <2>3 DEF EnterList, TakeList
    <3>5. \A q \in Threads : InList(q)' => counter_LISTAS'[hash[req'[q].key]] = 1
      BY <2>2, <3>1, <3>4, InListKey DEF ListsAlone
    <3>6. \A q, r \in Threads :
            InList(q)' /\ InList(r)' /\ hash[req'[q].key] = hash[req'[r].key] => q = r
      BY <2>2, <3>3, <3>4 DEF ListsAlone
    <3>7. QED
      BY <3>5, <3>6 DEF ListsAlone
  <2>4. CASE Leave(p)
    <3>1. InList(p) /\ ~InList(p)'
      BY <2>4 DEF Leave, At, Goto, InList, StubLabels
    <3>2. hash[req[p].key] \in Lists
      BY <3>1, InListKey
    <3>3. counter_LISTAS' = [counter_LISTAS EXCEPT ![hash[req[p].key]] = 0]
      BY <2>4 DEF Leave, ReleaseList
    <3>4. \A q \in Threads \ {p} : InList(q) => hash[req[q].key] # hash[req[p].key]
      BY <3>1 DEF ListsAlone
    <3>5. \A q \in Threads \ {p} : InList(q) => counter_LISTAS'[hash[req[q].key]] = 1
      BY <3>2, <3>3, <3>4, InListKey DEF ListsAlone
    <3>6. QED
      BY <2>2, <3>1, <3>5 DEF ListsAlone
  <2>5. CASE ~EnterList(p) /\ ~Leave(p)
    BY <1>1, <1>2, <2>2, <2>5, InListMoves
  <2>6. QED
    BY <2>3, <2>4, <2>5
<1>3. CASE BackupMoves \/ UNCHANGED vars
  <2>1. UNCHANGED <<pc, req, counter_LISTAS>>
    BY <1>3, BackupAlone DEF primaryVars, monitorVars, vars
  <2>2. QED
    BY <1>1, <2>1 DEF InList
<1>4. QED
  BY <1>2, <1>3, Steps

-----------------------------------------------------------------------------
(* The data.                                                               *)

\* Among the clients, only the one that moves gets an answer or uses it.
LEMMA SentElsewhere ==
  ASSUME Always, StubAlone, NEW p \in Threads, Moves(p), NEW d \in Clients, d # p
  PROVE  /\ Sent(d)' <=> Sent(d)
         /\ Writing(d)' <=> Writing(d)
         /\ UNCHANGED <<req[d], conn[d]>>
<1>1. d \in Threads \ {p}
  BY ClientsAreThreads
<1>2. UNCHANGED <<pc[d], req[d], conn[d], joined>>
  BY <1>1, MoverAlone DEF Always
<1>3. pc[d] = "receive" => UNCHANGED <<requests, replies>>
  BY <1>1, FramesLeft DEF Always, InStub
<1>4. QED
  BY <1>2, <1>3 DEF Sent, Answered, Writing

\* What has reached the backup for a client, a step of it does not change
\* before the table of the primary has it.
LEMMA SentOfMover ==
  ASSUME Always, StubAlone, Channels, NEW c \in Clients, Moves(c), ~Apply(c), Orderly'
  PROVE  /\ Sent(c)' <=> Sent(c)
         /\ Sent(c) => req'[c] = req[c]
<1> USE DEF Always, TypeOK, At, Goto
<1>1. c \in Threads /\ c # watcher
  BY ClientsAreThreads
<1>2. InStub(c) => conn[c] \in Backups
  BY <1>1, BackupNumbers
<1>3. CASE pc[c] \notin {"apply", "receive"} /\ pc'[c] \notin {"apply", "receive"}
  BY <1>3 DEF Sent
<1>4. CASE \E r \in Requests : Receive(c, r)
  BY <1>1, <1>3, <1>4 DEF Receive
<1>5. CASE EnterList(c) \/ Read(c) \/ Leave(c) \/ FillMessage(c)
  BY <1>1, <1>3, <1>5 DEF EnterList, Read, Leave, FillMessage
<1>6. CASE InitMessage(c)
  BY <1>1, <1>3, <1>6 DEF InitMessage, StubFails
<1>7. CASE WaitForList(c)
  BY <1>3, <1>7 DEF WaitForList, primaryVars
<1>8. CASE Send(c)
  <2>1. pc[c] = "send" /\ pc'[c] = "receive" /\ Quiet(conn[c])
    BY <1>1, <1>8 DEF Send, Channels, ChannelOK
  <2>2. UNCHANGED <<replies, conn>>
    BY <1>8 DEF Send
  <2>3. replies'[conn'[c]] = <<>>
    BY <2>1, <2>2 DEF Quiet
  <2>4. QED
    BY <2>1, <2>3, OneFrame DEF Sent, Answered
<1>9. CASE ReceiveAnswer(c)
  <2>1. /\ pc[c] = "receive" /\ replies[conn[c]] # <<>>
        /\ UNCHANGED <<conn, joined>>
    BY <1>9 DEF ReceiveAnswer
  <2>2. Answered(c, "ok") \/ Answered(c, "error")
    BY <1>1, <2>1 DEF Channels, ChannelOK, OnItsWay, Lost, Quiet
  <2>3. CASE Answered(c, "ok")
    <3>1. Head(replies[conn[c]]) = "ok"
      BY <2>3, OneFrame DEF Answered
    <3>2. pc'[c] = "apply" /\ req' = req
      BY <1>1, <1>9, <3>1 DEF ReceiveAnswer
    <3>3. QED
      BY <2>1, <2>3, <3>2 DEF Sent
  <2>4. CASE Answered(c, "error")
    <3>1. Head(replies[conn[c]]) = "error"
      BY <2>4, OneFrame DEF Answered
    <3>2. pc'[c] = "idle"
      BY <1>1, <1>9, <3>1 DEF ReceiveAnswer, StubFails
    <3>3. ~Answered(c, "ok")
      BY <3>1, OneFrame DEF Answered
    <3>4. QED
      BY <2>1, <3>2, <3>3 DEF Sent
  <2>5. QED
    BY <2>2, <2>3, <2>4
<1>10. CASE LoseAnswer(c)
  <2>1. pc[c] = "receive" /\ replies[conn[c]] = <<>>
    BY <1>10 DEF LoseAnswer
  <2>2. pc'[c] = "spinning"
    BY <1>1, <1>10 DEF LoseAnswer, Exit, Orderly
  <2>3. QED
    BY <2>1, <2>2, OneFrame DEF Sent, Answered
<1>11. QED
  BY <1>1, <1>4, <1>5, <1>6, <1>7, <1>8, <1>9, <1>10 DEF Moves, ThreadStep

\* A client's step before table_put or table_del.
LEMMA DataAfterClient ==
  ASSUME Always, Orderly', StubAlone, Channels, DataOK, NEW c \in Clients, Moves(c), ~Apply(c)
  PROVE  DataOK'
<1> USE DEF Always, TypeOK
<1>1. c \in Threads /\ c # watcher /\ watcher \in Threads
  BY ClientsAreThreads
<1>2. UNCHANGED <<joined, up, backup, rtable, keysLeft, synced, table>>
  BY <1>1, MoverAlone, ClientLeavesSync
<1>3. \A d \in Clients : (Sent(d)' <=> Sent(d)) /\ (Sent(d) => req'[d] = req[d])
  BY <1>1, SentElsewhere, SentOfMover
<1>4. \A k \in Keys : SentOn(k)' <=> SentOn(k)
  BY <1>3 DEF SentOn
<1>5. Fresh'
  BY <1>2 DEF DataOK, Fresh
<1>6. SentStored'
  BY <1>2, <1>3 DEF DataOK, SentStored
<1>7. Behind'
  BY <1>2, <1>4 DEF DataOK, Behind
<1>8. ASSUME NEW d \in Clients, Writing(d)'
      PROVE  \/ Writing(d) /\ UNCHANGED <<req[d], conn[d]>>
             \/ conn'[d] = rtable /\ req'[d].key \in Keys
  <2>1. CASE d # c
    BY <1>1, <1>8, <2>1, SentElsewhere
  <2>2. CASE d = c /\ InitMessage(c)
    <3>1. req[c].key \in Keys
      BY <2>2, ClientsAreThreads DEF InitMessage, At, ClientsOK, ClientOK
    <3>2. pc'[c] \in {"fill", "send", "receive", "apply"}
      BY <1>8, <2>2 DEF Writing
    <3>3. conn'[c] = rtable /\ req'[c] = req[c]
      BY <1>1, <2>2, <3>2 DEF InitMessage, StubFails, Goto
    <3>4. QED
      BY <2>2, <3>1, <3>3
  <2>3. CASE d = c /\ ~InitMessage(c)
    BY <1>8, <2>3, WritingBegins
  <2>4. QED
    BY <2>1, <2>2, <2>3
<1>9. StaleUnstored'
  BY <1>2, <1>8 DEF DataOK, StaleUnstored, Fresh
<1>10. UpToDate'
  BY <1>2, <1>4, <1>8 DEF DataOK, UpToDate
<1>11. PutSoFar'
  <2>1. UNCHANGED <<pc[watcher], req[watcher], conn[watcher]>>
    BY <1>1, MoverAlone
  <2>2. pc[watcher] = "receive" => UNCHANGED <<requests, replies>>
    BY <1>1, FramesLeft DEF InStub
  <2>3. QED
    BY <1>2, <2>1, <2>2 DEF DataOK, PutSoFar, Answered
<1>12. QED
  BY <1>5, <1>6, <1>7, <1>9, <1>10, <1>11 DEF DataOK

\* table_put or table_del brings the primary in step with the backup that has
\* answered; a backup that has come since lacks the key's data.
LEMMA DataAfterApply ==
  ASSUME Always, Orderly, StubAlone, SyncAlone, ListsAlone, DataOK, NEW c \in Clients, Apply(c)
  PROVE  DataOK'
<1> USE DEF Always, TypeOK
<1>1. c \in Threads /\ c # watcher /\ watcher \in Threads /\ Moves(c)
  BY ClientsAreThreads DEF Moves
<1>2. UNCHANGED <<joined, up, backup, rtable, keysLeft, synced, conn, req>>
  BY DEF Apply, backupVars, historyVars
<1>3. /\ pc[c] = "apply" /\ pc'[c] = "leave"
      /\ table' = [table EXCEPT ![req[c].key] = req[c].value]
  BY <1>1 DEF Apply, At, Goto
<1>4. req[c].key \in Keys
  BY <1>3 DEF ClientsOK, ClientOK
<1>5. \A d \in Clients \ {c} : (Sent(d)' <=> Sent(d)) /\ (Writing(d)' <=> Writing(d))
  BY <1>1, SentElsewhere
<1>6. ~Sent(c)' /\ Writing(c) /\ ~Writing(c)' /\ (Sent(c) <=> conn[c] = joined)
  BY <1>3 DEF Sent, Writing
<1>7. \A k \in Keys \ {req[c].key} : SentOn(k)' <=> SentOn(k)
  BY <1>2, <1>5, <1>6 DEF SentOn
<1>8. backup[req[c].key] = IF conn[c] = joined THEN req[c].value ELSE Empty
  BY <1>6 DEF DataOK, SentStored, StaleUnstored
<1>9. Fresh'
  BY <1>2 DEF DataOK, Fresh
<1>10. SentStored'
  BY <1>2, <1>5, <1>6 DEF DataOK, SentStored
<1>11. Behind'
  <2>1. backup[req[c].key] \in {Empty, table'[req[c].key]}
    BY <1>3, <1>4, <1>8
  <2>2. \A k \in Keys \ {req[c].key} : table'[k] = table[k]
    BY <1>3
  <2>3. QED
    BY <1>2, <1>7, <2>1, <2>2 DEF DataOK, Behind
<1>12. StaleUnstored'
  BY <1>2, <1>5, <1>6 DEF DataOK, StaleUnstored
<1>13. UpToDate'
  <2>1. SUFFICES ASSUME synced = joined PROVE UpToDate'
    BY <1>2 DEF UpToDate
  <2>2. conn[c] = joined
    BY <1>6, <2>1 DEF DataOK, UpToDate
  <2>3. backup[req[c].key] = table'[req[c].key]
    BY <1>3, <1>4, <1>8, <2>2
  <2>4. \A k \in Keys \ {req[c].key} : table'[k] = table[k]
    BY <1>3
  <2>5. \A k \in Keys : SentOn(k)' \/ backup'[k] = table'[k]
    BY <1>2, <1>7, <2>1, <2>3, <2>4 DEF DataOK, UpToDate
  <2>6. QED
    BY <1>2, <1>5, <1>6, <2>1, <2>5 DEF DataOK, UpToDate
<1>14. PutSoFar'
  <2>1. ~InSync /\ pc'[watcher] = pc[watcher]
    BY <1>1, <1>6, MoverAlone DEF SyncAlone
  <2>2. QED
    BY <2>1 DEF PutSoFar, InSync, LoopLabels
<1>15. QED
  BY <1>9, <1>10, <1>11, <1>12, <1>13, <1>14 DEF DataOK

\* What child_watcher's steps do to what PutSoFar says of the loop.
LEMMA PutSoFarAfterWatcher ==
  ASSUME Always, Orderly', Channels, SyncAlone, SyncKeys, DataOK, up, Moves(watcher)
  PROVE  PutSoFar'
<1> USE DEF Always, TypeOK, LoopLabels, At, Goto
<1>1. watcher \in Threads /\ watcher \notin Clients
  BY ClientsAreThreads
<1>2. UNCHANGED <<joined, up, backup>>
  BY <1>1, MoverAlone
<1>3. CASE EnterList(watcher)
  <2>1. /\ pc'[watcher] = "read" /\ pc[watcher] = "enter"
        /\ UNCHANGED <<table, req, rtable, keysLeft>>
    BY <1>1, <1>3 DEF EnterList, WatcherOK
  <2>2. QED
    BY <1>2, <2>1 DEF DataOK, PutSoFar
<1>4. CASE WaitForList(watcher) \/ WatcherWaitsForTable
  BY <1>4 DEF WaitForList, WatcherWaitsForTable, DataOK, PutSoFar, primaryVars, backupVars, Answered
<1>5. CASE Read(watcher)
  <2>1. /\ pc'[watcher] = "leave" /\ pc[watcher] = "read"
        /\ req'[watcher] = [req[watcher] EXCEPT !.value = table[req[watcher].key]]
        /\ UNCHANGED <<table, rtable, keysLeft>>
    BY <1>1, <1>5 DEF Read
  <2>2. req'[watcher].key = req[watcher].key
    BY <1>1, <2>1 DEF Messages
  <2>3. QED
    BY <1>2, <2>1, <2>2 DEF DataOK, PutSoFar
<1>6. CASE Leave(watcher)
  <2>1. /\ pc'[watcher] = "init" /\ pc[watcher] = "leave"
        /\ req'[watcher] = [req[watcher] EXCEPT !.op = PUT]
        /\ UNCHANGED <<table, rtable, keysLeft>>
    BY <1>1, <1>6 DEF Leave
  <2>2. req'[watcher].key = req[watcher].key
    BY <1>1, <2>1 DEF Messages
  <2>3. QED
    BY <1>2, <2>1, <2>2 DEF DataOK, PutSoFar
<1>7. CASE InitMessage(watcher)
  <2>1. /\ pc'[watcher] = "fill" /\ pc[watcher] = "init"
        /\ UNCHANGED <<table, req, rtable, keysLeft>>
    BY <1>1, <1>7 DEF InitMessage, StubFails, Exit, Orderly
  <2>2. QED
    BY <1>2, <2>1 DEF DataOK, PutSoFar
<1>8. CASE FillMessage(watcher)
  <2>1. /\ pc'[watcher] = "send" /\ pc[watcher] = "fill"
        /\ UNCHANGED <<table, req, rtable, keysLeft>>
    BY <1>1, <1>8 DEF FillMessage
  <2>2. QED
    BY <1>2, <2>1 DEF DataOK, PutSoFar
<1>9. CASE Send(watcher)
  <2>1. /\ pc'[watcher] = "receive" /\ pc[watcher] = "send"
        /\ UNCHANGED <<table, req, rtable, keysLeft, replies, conn>>
    BY <1>1, <1>9 DEF Send
  <2>2. replies'[conn'[watcher]] = <<>>
    BY <1>1, <2>1 DEF Channels, ChannelOK, Quiet
  <2>3. ~Answered(watcher, "ok")'
    BY <2>2, OneFrame DEF Answered
  <2>4. QED
    BY <1>2, <2>1, <2>3 DEF DataOK, PutSoFar
<1>10. CASE ReceiveAnswer(watcher)
  <2>1. /\ pc[watcher] = "receive" /\ pc'[watcher] = "next"
        /\ Head(replies[conn[watcher]]) # "error" /\ replies[conn[watcher]] # <<>>
        /\ UNCHANGED <<table, req, rtable, keysLeft>>
    BY <1>1, <1>10 DEF ReceiveAnswer, StubFails, Exit, Orderly
  <2>2. Answered(watcher, "ok")
    BY <1>1, <2>1, OneFrame DEF Channels, ChannelOK, OnItsWay, Lost, Quiet, Answered
  <2>3. rtable = joined => backup[req[watcher].key] = table[req[watcher].key]
    BY <2>1, <2>2 DEF DataOK, PutSoFar, SyncKeys
  <2>4. QED
    BY <1>2, <2>1, <2>3 DEF DataOK, PutSoFar
<1>11. CASE LoseAnswer(watcher)
  <2>1. /\ pc'[watcher] = "spinning" /\ pc[watcher] = "receive"
        /\ UNCHANGED <<table, req, rtable, keysLeft>>
    BY <1>1, <1>11 DEF LoseAnswer, Exit, Orderly
  <2>2. QED
    BY <1>2, <2>1 DEF DataOK, PutSoFar
<1>12. CASE WatcherNotified \/ WatcherAlone \/ WatcherChecksBackup \/ WatcherConnects
  BY ZenonT(60), <1>1, <1>12
     DEF WatcherNotified, WatcherAlone, WatcherChecksBackup, WatcherConnects, Exit, Orderly, PutSoFar
<1>13. CASE WatcherEntersTable
  BY <1>1, <1>13 DEF WatcherEntersTable, PutSoFar
<1>14. CASE WatcherGetsKeys
  <2>1. /\ pc[watcher] = "keys" /\ pc'[watcher] = "size" /\ keysLeft' = StoredKeys
        /\ UNCHANGED <<table, rtable>>
    BY <1>1, <1>14 DEF WatcherGetsKeys
  <2>2. \A k \in Keys : ~SentOn(k)
    BY <2>1 DEF SyncAlone, InSync, SentOn, Sent, Writing
  <2>3. \A k \in Keys \ StoredKeys : backup[k] = table[k]
    BY <2>2 DEF DataOK, Behind, StoredKeys
  <2>4. QED
    BY <1>2, <2>1, <2>3 DEF PutSoFar
<1>15. CASE WatcherGetsSize
  BY <1>1, <1>2, <1>15 DEF WatcherGetsSize, DataOK, PutSoFar
<1>16. ASSUME NEW k \in Keys, WatcherTakesKey(k)
       PROVE  PutSoFar'
  <2>1. /\ pc'[watcher] = "enter" /\ pc[watcher] = "next"
        /\ keysLeft' = keysLeft \ {k}
        /\ req'[watcher] = [op |-> GET, key |-> k, value |-> Empty]
        /\ UNCHANGED <<table, rtable>>
    BY <1>1, <1>16 DEF WatcherTakesKey
  <2>2. req'[watcher].key = k
    BY <2>1
  <2>3. QED
    BY <1>2, <2>1, <2>2 DEF DataOK, PutSoFar
<1>17. CASE WatcherMissesKey
  BY <1>17 DEF WatcherMissesKey, Exit, Orderly
<1>18. CASE WatcherDone
  BY <1>1, <1>18 DEF WatcherDone, PutSoFar
<1>19. QED
  BY <1>1, <1>3, <1>4, <1>5, <1>6, <1>7, <1>8, <1>9, <1>10, <1>11, <1>12, <1>13, <1>14,
     <1>15, <1>16, <1>17, <1>18
     DEF Moves, ThreadStep, WatcherStep

\* child_watcher does not touch the table, and connects to the running backup.
LEMMA WatcherLeavesData ==
  ASSUME Orderly', up, Moves(watcher)
  PROVE  /\ table' = table
         /\ rtable' = rtable \/ rtable' = joined
         /\ synced' = synced \/ WatcherDone
<1>1. watcher \notin Clients
  BY ClientsAreThreads
<1>2. CASE ThreadStep(watcher)
  BY <1>2
     DEF ThreadStep, EnterList, WaitForList, Read, Leave, InitMessage, FillMessage, Send,
         ReceiveAnswer, LoseAnswer, primaryVars, historyVars
<1>3. CASE WatcherStep
  BY <1>3
     DEF WatcherStep, WatcherNotified, WatcherAlone, WatcherChecksBackup, WatcherConnects,
         WatcherEntersTable, WatcherWaitsForTable, WatcherGetsKeys, WatcherGetsSize,
         WatcherTakesKey, WatcherMissesKey, WatcherDone, primaryVars, historyVars, Exit, Orderly
<1>4. QED
  BY <1>1, <1>2, <1>3 DEF Moves

\* The watcher keeps what is known of the two tables.
LEMMA DataAfterWatcher ==
  ASSUME Always, Orderly', StubAlone, Channels, SyncAlone, SyncKeys, DataOK, up, Moves(watcher)
  PROVE  DataOK'
<1> USE DEF Always, TypeOK
<1>1. watcher \in Threads /\ watcher \notin Clients
  BY ClientsAreThreads
<1>2. UNCHANGED <<joined, up, backup>>
  BY <1>1, MoverAlone
<1>3. table' = table /\ (rtable' = rtable \/ rtable' = joined)
  BY WatcherLeavesData
<1>4. \A d \in Clients : /\ Sent(d)' <=> Sent(d)
                         /\ Writing(d)' <=> Writing(d)
                         /\ UNCHANGED <<req[d], conn[d]>>
  BY <1>1, SentElsewhere
<1>5. \A k \in Keys : SentOn(k)' <=> SentOn(k)
  BY <1>4 DEF SentOn
<1>6. Fresh'
  BY <1>2, <1>3 DEF DataOK, Fresh
<1>7. SentStored'
  BY <1>2, <1>4 DEF DataOK, SentStored
<1>8. StaleUnstored'
  BY <1>2, <1>4 DEF DataOK, StaleUnstored
<1>9. Behind'
  BY <1>2, <1>3, <1>5 DEF DataOK, Behind
<1>10. UpToDate'
  <2>1. CASE synced' = synced
    BY <1>2, <1>3, <1>4, <1>5, <2>1 DEF DataOK, UpToDate
  <2>2. CASE WatcherDone
    <3>1. /\ pc[watcher] = "next" /\ sizeLeft = 0
          /\ synced' = rtable /\ rtable' = rtable
      BY <2>2 DEF WatcherDone, At
    <3>2. keysLeft = {}
      BY <3>1, KeysCount, FS_EmptySet DEF SyncKeys, LoopLabels
    <3>3. rtable = joined => \A k \in Keys : backup[k] = table[k]
      BY <3>1, <3>2 DEF DataOK, PutSoFar, LoopLabels
    <3>4. \A d \in Clients : ~Writing(d)
      BY <3>1 DEF SyncAlone, InSync, LoopLabels
    <3>5. QED
      BY <1>2, <1>3, <1>4, <3>1, <3>3, <3>4 DEF UpToDate
  <2>3. QED
    BY <2>1, <2>2, WatcherLeavesData
<1>11. PutSoFar'
  BY PutSoFarAfterWatcher
<1>12. QED
  BY <1>6, <1>7, <1>8, <1>9, <1>10, <1>11 DEF DataOK

-----------------------------------------------------------------------------
\* A put with data, or a del, leaves the request's data at the backup.
LEMMA ServedStores ==
  ASSUME NEW m, (m.op = PUT /\ m.value # Empty) \/ (m.op = DEL /\ m.value = Empty)
  PROVE  Served(m) = [backup EXCEPT ![m.key] = m.value]
<1>1. CASE m.op = PUT /\ m.value # Empty
  <2>1. m.op # DEL
    BY <1>1 DEF PUT, DEL
  <2>2. QED
    BY <1>1, <2>1 DEF Served
<1>2. CASE m.op = DEL /\ m.value = Empty
  BY <1>2 DEF Served, PUT, DEL
<1>3. QED
  BY <1>1, <1>2

\* A new backup has an empty table, and nothing is asked of it yet.
LEMMA DataAfterJoin ==
  ASSUME Always, BackupJoins
  PROVE  DataOK'
<1> USE DEF Always, TypeOK
<1>1. /\ joined' = joined + 1 /\ joined \in Nat
      /\ backup' = [k \in Keys |-> Empty]
      /\ UNCHANGED <<table, pc, req, conn, rtable, synced>>
  BY BackupNumbers DEF BackupJoins, primaryVars, historyVars
<1>2. rtable' # joined' /\ synced' # joined' /\ \A p \in Threads : conn'[p] # joined'
  BY <1>1 DEF ConnsOK
<1>3. \A c \in Clients : ~Sent(c)' /\ (Writing(c)' => req'[c].key \in Keys)
  BY <1>1, <1>2, ClientsAreThreads DEF Sent, Writing, ClientsOK, ClientOK
<1>4. \A k \in Keys : backup'[k] = Empty
  BY <1>1
<1>5. QED
  BY <1>2, <1>3, <1>4
     DEF DataOK, Fresh, SentStored, StaleUnstored, Behind, UpToDate, PutSoFar

\* The backup serves a client's put or del: no other client is in the list of
\* that key, and child_watcher is not in its loop.
LEMMA DataAfterServingClient ==
  ASSUME Always, StubAlone, Channels, SyncAlone, ListsAlone, DataOK, BackupServes,
         NEW c \in Clients, pc[c] = "receive", conn[c] = joined, OnItsWay(c)
  PROVE  DataOK'
<1> USE DEF Always, TypeOK
<1>1. /\ UNCHANGED <<table, pc, req, conn, rtable, keysLeft, joined, up, synced>>
      /\ joined \in Backups
  BY BackupNumbers DEF BackupServes, primaryVars, historyVars
<1>2. c \in Threads /\ c # watcher
  BY ClientsAreThreads
<1>3. /\ requests'[joined] = <<>>
      /\ replies'[joined] = <<Answer(req[c])>>
      /\ backup' = Served(req[c])
  BY <1>1, OneFrame DEF BackupServes, OnItsWay
<1>4. /\ req[c].key \in Keys
      /\ \/ req[c].op = PUT /\ req[c].value # Empty
         \/ req[c].op = DEL /\ req[c].value = Empty
  BY ReplicationAssumption DEF ClientsOK, ClientOK, StubLabels, ReplicationAssumption
<1>5. backup' = [backup EXCEPT ![req[c].key] = req[c].value]
  BY <1>3, <1>4, ServedStores
<1>6. /\ backup'[req[c].key] = req[c].value
      /\ \A k \in Keys \ {req[c].key} : backup'[k] = backup[k]
  BY <1>4, <1>5
<1>7. \A d \in Clients \ {c} : InList(d) => req[d].key # req[c].key
  BY <1>2, ClientsAreThreads DEF ListsAlone, InList, StubLabels
<1>8. \A d \in Clients : Writing(d) => InList(d) /\ req[d].key \in Keys
  BY ClientsAreThreads DEF Writing, InList, StubLabels, ClientsOK, ClientOK
<1>9. ~Sent(c)
  BY <1>1, OneFrame DEF Sent, OnItsWay, Answered
<1>10. \A d \in Clients \ {c} : pc[d] # "receive"
  BY <1>2, ClientsAreThreads DEF StubAlone, InStub
<1>11. \A d \in Clients \ {c} :
         /\ Sent(d)' <=> Sent(d)
         /\ Sent(d) => InList(d) /\ req[d].key \in Keys
  BY <1>1, <1>8, <1>10 DEF Sent, Writing
<1>12. \A k \in Keys \ {req[c].key} : SentOn(k)' <=> SentOn(k)
  BY <1>1, <1>11 DEF SentOn
<1>13. ~SentOn(req[c].key)
  BY <1>7, <1>9, <1>11 DEF SentOn
<1>14. SentOn(req[c].key)' \/ backup' = backup
  <2>1. CASE Answer(req[c]) = "ok"
    BY <1>1, <1>3, <2>1 DEF SentOn, Sent, Answered
  <2>2. CASE Answer(req[c]) # "ok"
    <3>1. req[c].value = backup[req[c].key]
      BY <1>4, <2>2, ReplicationAssumption DEF Answer, ReplicationAssumption, PUT, DEL
    <3>2. QED
      BY <1>5, <3>1
  <2>3. QED
    BY <2>1, <2>2
<1>15. Fresh'
  <2>1. rtable = joined
    BY <1>2 DEF ConnsOK, BackupServes
  <2>2. QED
    BY <1>1, <2>1 DEF Fresh
<1>16. SentStored'
  <2>1. ASSUME NEW d \in Clients, Sent(d)'
        PROVE  backup'[req[d].key] = req[d].value
    <3>1. CASE d = c
      BY <1>6, <3>1
    <3>2. CASE d # c
      BY <1>6, <1>7, <1>11, <2>1, <3>2 DEF DataOK, SentStored
    <3>3. QED
      BY <3>1, <3>2
  <2>2. QED
    BY <1>1, <2>1 DEF SentStored
<1>17. StaleUnstored'
  <2>1. ASSUME NEW d \in Clients, Writing(d), conn[d] # joined
        PROVE  backup'[req[d].key] = Empty
    BY <1>6, <1>7, <1>8, <2>1 DEF DataOK, StaleUnstored
  <2>2. QED
    BY <1>1, <2>1 DEF StaleUnstored, Writing
<1>18. Behind'
  BY <1>1, <1>6, <1>12, <1>13, <1>14 DEF DataOK, Behind
<1>19. UpToDate'
  BY <1>1, <1>6, <1>12, <1>13, <1>14 DEF DataOK, UpToDate, Writing
<1>20. PutSoFar'
  BY <1>1 DEF SyncAlone, InSync, LoopLabels, Writing, PutSoFar
<1>21. QED
  BY <1>15, <1>16, <1>17, <1>18, <1>19, <1>20 DEF DataOK

\* The backup serves child_watcher: no client is between rtable_put and table_put.
LEMMA DataAfterServingWatcher ==
  ASSUME Always, Channels, SyncAlone, SyncKeys, DataOK, BackupServes,
         pc[watcher] = "receive", conn[watcher] = joined, OnItsWay(watcher)
  PROVE  DataOK'
<1> USE DEF Always, TypeOK
<1>1. /\ UNCHANGED <<table, pc, req, conn, rtable, keysLeft, joined, up, synced>>
      /\ joined \in Backups /\ watcher \in Threads
  BY BackupNumbers, ClientsAreThreads DEF BackupServes, primaryVars, historyVars
<1>2. backup' = Served(req[watcher])
  BY <1>1, OneFrame DEF BackupServes, OnItsWay
<1>3. /\ req[watcher].key \in Keys /\ req[watcher].op = PUT
      /\ req[watcher].value = table[req[watcher].key] /\ req[watcher].value # Empty
  BY DEF WatcherOK, SyncKeys, LoopLabels, StoredKeys
<1>4. backup' = [backup EXCEPT ![req[watcher].key] = table[req[watcher].key]]
  BY <1>2, <1>3, ServedStores
<1>5. /\ backup'[req[watcher].key] = table[req[watcher].key]
      /\ \A k \in Keys \ {req[watcher].key} : backup'[k] = backup[k]
  BY <1>3, <1>4
<1>6. \A c \in Clients : ~Writing(c)
  BY DEF SyncAlone, InSync, LoopLabels
<1>7. \A c \in Clients : ~Sent(c) /\ ~Sent(c)' /\ ~Writing(c)'
  BY <1>1, <1>6 DEF Sent, Writing
<1>8. \A k \in Keys : ~SentOn(k)
  BY <1>7 DEF SentOn
<1>9. rtable = joined
  BY <1>1 DEF ConnsOK, BackupServes
<1>10. Fresh' /\ SentStored' /\ StaleUnstored'
  BY <1>1, <1>7, <1>9 DEF Fresh, SentStored, StaleUnstored
<1>11. Behind'
  BY <1>1, <1>5, <1>8 DEF DataOK, Behind
<1>12. UpToDate'
  BY <1>1, <1>5, <1>7, <1>8, <1>9 DEF DataOK, UpToDate
<1>13. PutSoFar'
  BY <1>1, <1>3, <1>5 DEF DataOK, PutSoFar
<1>14. QED
  BY <1>10, <1>11, <1>12, <1>13 DEF DataOK

\* Every step keeps what is known of the two tables.
LEMMA DataInvKept ==
  ASSUME Always, StubInv, DataInv, [Next]_vars
  PROVE  DataInv'
<1> SUFFICES ASSUME Exclusive' PROVE ListsAlone' /\ (up' => DataOK')
  BY DEF DataInv
<1>1. Orderly' /\ Orderly
  BY OrderlyBefore DEF Exclusive
<1>2. mishaps \subseteq mishaps'
  <2>1. ASSUME NEW p \in Threads, Moves(p)
        PROVE  mishaps \subseteq mishaps'
    BY <2>1, MoverAlone DEF Always
  <2>2. QED
    BY <2>1, BackupAlone, Steps DEF vars, historyVars
<1>3. ListsAlone /\ (up => DataOK)
  BY <1>1, <1>2 DEF Exclusive, DataInv
<1>4. StubAlone /\ Channels /\ SyncAlone /\ SyncKeys
  BY <1>1 DEF StubInv
<1>5. ListsAlone'
  BY <1>3, ListsAloneKept
<1>6. SUFFICES ASSUME up' PROVE DataOK'
  BY <1>5
<1>7. ASSUME NEW p \in Threads, Moves(p)
      PROVE  DataOK'
  <2>1. up
    BY <1>6, <1>7, MoverAlone DEF Always
  <2>2. CASE p = watcher
    BY <1>1, <1>3, <1>4, <1>7, <2>1, <2>2, DataAfterWatcher
  <2>3. CASE p \in Clients
    BY <1>1, <1>3, <1>4, <1>7, <2>1, <2>3, DataAfterClient, DataAfterApply
  <2>4. QED
    BY <2>2, <2>3, ClientsAreThreads
<1>8. CASE BackupServes
  <2>1. up /\ requests[joined] # <<>>
    BY <1>8 DEF BackupServes
  <2>2. PICK p \in Threads : pc[p] = "receive" /\ conn[p] = joined /\ OnItsWay(p)
    BY <1>4, <2>1, ServedThread
  <2>3. QED
    BY <1>3, <1>4, <1>8, <2>1, <2>2, ClientsAreThreads,
       DataAfterServingClient, DataAfterServingWatcher
<1>9. CASE BackupJoins
  BY <1>9, DataAfterJoin
<1>10. CASE BackupCrashes
  BY <1>6, <1>10 DEF BackupCrashes
<1>11. CASE SessionExpires \/ UNCHANGED vars
  <2>1. UNCHANGED <<table, pc, req, conn, rtable, keysLeft, joined, up, synced, backup,
                    requests, replies>>
    BY <1>11 DEF SessionExpires, vars, primaryVars, backupVars, historyVars
  <2>2. DataOK
    BY <1>3, <1>6, <2>1
  <2>3. \A c \in Clients : (Sent(c)' <=> Sent(c)) /\ (Writing(c)' <=> Writing(c))
    BY <2>1 DEF Sent, Answered, Writing
  <2>4. \A k \in Keys : SentOn(k)' <=> SentOn(k)
    BY <2>1, <2>3 DEF SentOn
  <2>5. QED
    BY <2>1, <2>2, <2>3, <2>4
       DEF DataOK, Fresh, SentStored, StaleUnstored, Behind, UpToDate, PutSoFar, Answered
<1>12. QED
  BY <1>7, <1>8, <1>9, <1>10, <1>11, Steps DEF BackupMoves

-----------------------------------------------------------------------------
(* The theorems.                                                           *)

\* The invariant holds at the start.
LEMMA InitIInv == Init => IInv
<1> SUFFICES ASSUME Init PROVE IInv
  OBVIOUS
<1>1. Always
  BY InitAlways
<1>2. \A p \in Threads : pc[p] = "idle"
  BY DEF Init
<1>3. StubInv
  BY <1>2, ClientsAreThreads
     DEF Init, StubInv, StubAlone, Channels, ChannelOK, Quiet, InStub, SyncAlone, SyncKeys,
         InSync, LoopLabels, Writing
<1>4. DataInv
  BY <1>2, ClientsAreThreads DEF Init, DataInv, ListsAlone, InList, StubLabels
<1>5. CalmInv
  BY <1>2, ClientsAreThreads DEF Init, CalmInv, OneBackup, InSync, LoopLabels
<1>6. QED
  BY <1>1, <1>3, <1>4, <1>5 DEF IInv

\* Every step keeps the invariant.
LEMMA StepIInv ==
  ASSUME IInv, [Next]_vars
  PROVE  IInv'
  BY AlwaysKept, StubInvKept, DataInvKept, CalmInvKept DEF IInv

\* The inductive invariant behind the theorems on replication: threads in their
\* places, the stub and its messages, the data of the two tables, and what holds
\* until a crash or a race (invoke, child_watcher and client_stub.c).
THEOREM Invariance == Spec => []IInv
<1>1. IInv /\ [Next]_vars => IInv'
  BY StepIInv
<1>2. QED
  BY InitIInv, <1>1, PTL DEF Spec

\* A put or del whose answer has come is between rtable_put and table_put.
LEMMA SentWrites ==
  ASSUME Always, NEW k \in Keys, SentOn(k)
  PROVE  \E c \in Clients : Writes(c, k)
<1>1. PICK c \in Clients : Sent(c) /\ req[c].key = k
  BY DEF SentOn
<1>2. pc[c] \in {"receive", "apply"}
  BY <1>1 DEF Sent
<1>3. req[c].op \in {PUT, DEL}
  BY <1>2 DEF Always, ClientsOK, ClientOK, StubLabels
<1>4. QED
  BY <1>1, <1>2, <1>3 DEF Writes, PUT, DEL, GET

\* In service, what is known of the two tables holds of all the keys.
LEMMA ServiceIsInStep ==
  ASSUME IInv, InService
  PROVE  Always /\ DataOK /\ synced = joined
<1>1. Exclusive /\ up
  BY DEF InService, Exclusive, Orderly
<1>2. QED
  BY <1>1 DEF IInv, DataInv, InService

\* A key has the same data on the primary and on a backup that has been brought
\* up to date, except while one of the primary's threads is between rtable_put
\* or rtable_del and table_put or table_del with it, as long as nothing has
\* disturbed the lists and the stub (invoke and child_watcher of table_skel.c).
THEOREM ServersInStep == Spec => []InStep
<1>1. IInv => InStep
  <2>1. SUFFICES ASSUME IInv, InService,
                        NEW k \in Keys, \A c \in Clients : ~Writes(c, k)
                 PROVE  table[k] = backup[k]
    BY DEF InStep
  <2>2. Always /\ DataOK /\ synced = joined
    BY <2>1, ServiceIsInStep
  <2>3. SentOn(k) \/ backup[k] = table[k]
    BY <2>2 DEF DataOK, UpToDate
  <2>4. QED
    BY <2>1, <2>2, <2>3, SentWrites
<1>2. QED
  BY Invariance, <1>1, PTL

\* The primary changes its table only with what the backup has stored.
THEOREM StoredFirst == Spec => []StoredBeforeApplied
<1>1. IInv => StoredBeforeApplied
  <2>1. SUFFICES ASSUME IInv, InService, NEW c \in Clients, pc[c] = "apply"
                 PROVE  backup[req[c].key] = req[c].value
    BY DEF StoredBeforeApplied
  <2>2. DataOK /\ synced = joined
    BY <2>1, ServiceIsInStep
  <2>3. Sent(c)
    BY <2>1, <2>2 DEF DataOK, UpToDate, Writing, Sent
  <2>4. QED
    BY <2>2, <2>3 DEF DataOK, SentStored
<1>2. QED
  BY Invariance, <1>1, PTL

\* The primary exits only after a backup has crashed or after threads have met in
\* the stub or in a resynchronisation: none of the exits of child_watcher and
\* none of the failures of the stub is reached otherwise.
THEOREM OnlyTheDisturbedExit == Spec => []ExitsOnlyIfDisturbed
<1>1. IInv => ExitsOnlyIfDisturbed
  BY DEF IInv, CalmInv, Calm, OneBackup, ExitsOnlyIfDisturbed
<1>2. QED
  BY Invariance, <1>1, PTL

-----------------------------------------------------------------------------
(* The service of ReplicatedMap.                                           *)

Unspoilt == mishaps \subseteq {"leak", "crash"}

\* The mode of the service, from what the invariant speaks of.
LEMMA ModeOf ==
  TypeOK =>
    /\ ~Unspoilt => Mode = "spoilt"
    /\ Unspoilt /\ exited => Mode = "over"
    /\ Exclusive /\ InService => Mode = "paired"
    /\ Exclusive /\ ~InService => Mode = "alone"
    /\ Unspoilt /\ ~exited <=> Exclusive
<1> SUFFICES ASSUME TypeOK
             PROVE  /\ ~Unspoilt => Mode = "spoilt"
                    /\ Unspoilt /\ exited => Mode = "over"
                    /\ Exclusive /\ InService => Mode = "paired"
                    /\ Exclusive /\ ~InService => Mode = "alone"
                    /\ Unspoilt /\ ~exited <=> Exclusive
  OBVIOUS
<1>1. Unspoilt /\ ~exited <=> Exclusive
  BY DEF TypeOK, Unspoilt, Exclusive, Orderly, Mishaps
<1>2. ~Unspoilt => Mode = "spoilt"
  BY DEF Mode, Unspoilt, InService
<1>3. Unspoilt /\ exited => Mode = "over"
  BY DEF Mode, Unspoilt, InService
<1>4. Exclusive /\ InService => Mode = "paired"
  BY <1>1 DEF Mode, Unspoilt
<1>5. Exclusive /\ ~InService => Mode = "alone"
  BY <1>1 DEF Mode, Unspoilt
<1>6. QED
  BY <1>1, <1>2, <1>3, <1>4, <1>5

\* What a thread that is granted a write has in its request.
LEMMA GrantedWrites ==
  Always => \A c \in Clients : Granted(c) =>
    /\ Writing(c)
    /\ InList(c)
    /\ req[c].key \in Keys
    /\ req[c].value \in Values \cup {Empty}
<1> SUFFICES ASSUME Always, NEW c \in Clients, Granted(c)
             PROVE  /\ Writing(c)
                    /\ InList(c)
                    /\ req[c].key \in Keys
                    /\ req[c].value \in Values \cup {Empty}
  OBVIOUS
<1>1. c \in Threads /\ c # watcher
  BY ClientsAreThreads
<1>2. pc[c] \in {"receive", "apply"}
  BY DEF Granted
<1>3. Writing(c) /\ InList(c)
  BY <1>1, <1>2 DEF Writing, InList, StubLabels
<1>4. req[c].key \in Keys /\ req[c].op \in {PUT, DEL}
  BY <1>2 DEF Always, ClientsOK, ClientOK, StubLabels
<1>5. req[c].value \in Values \cup {Empty}
  BY <1>4 DEF Always, ClientsOK, ClientOK
<1>6. QED
  BY <1>3, <1>4, <1>5

\* The granted writes are writes of the service.
LEMMA AheadType == Always => Ahead \subseteq Service!Writes
  BY GrantedWrites DEF Ahead, Service!Writes, Service!Data

\* A granted write is that of a client.
LEMMA InAhead ==
  ASSUME NEW x
  PROVE  x \in Ahead <=>
           \E c \in Clients : Granted(c) /\ x = [key |-> req[c].key, value |-> req[c].value]
  BY DEF Ahead

\* The same clients with the same requests are the same granted writes.
LEMMA SameAhead ==
  ASSUME \A c \in Clients : /\ Granted(c)' <=> Granted(c)
                            /\ Granted(c) => req'[c] = req[c]
  PROVE  Ahead' = Ahead
<1>1. ASSUME NEW c \in Clients, Granted(c)
      PROVE  [key |-> req[c].key, value |-> req[c].value] \in Ahead'
  <2>1. Granted(c)' /\ req'[c] = req[c]
    BY <1>1
  <2>2. [key |-> req'[c].key, value |-> req'[c].value] \in Ahead'
    BY <2>1 DEF Ahead
  <2>3. QED
    BY <2>1, <2>2
<1>2. ASSUME NEW c \in Clients, Granted(c)'
      PROVE  [key |-> req'[c].key, value |-> req'[c].value] \in Ahead
  <2>1. Granted(c) /\ req'[c] = req[c]
    BY <1>2
  <2>2. [key |-> req[c].key, value |-> req[c].value] \in Ahead
    BY <2>1 DEF Ahead
  <2>3. QED
    BY <2>1, <2>2
<1>3. QED
  BY <1>1, <1>2 DEF Ahead

\* Among the clients, only the one that moves is granted a write or makes it.
LEMMA GrantedElsewhere ==
  ASSUME Always, StubAlone, NEW p \in Threads, Moves(p), NEW d \in Clients, d # p
  PROVE  (Granted(d)' <=> Granted(d)) /\ req'[d] = req[d]
<1>1. d \in Threads \ {p}
  BY ClientsAreThreads
<1>2. UNCHANGED <<pc[d], req[d], conn[d]>>
  BY <1>1, MoverAlone DEF Always
<1>3. pc[d] = "receive" => UNCHANGED <<requests, replies>>
  BY <1>1, FramesLeft DEF Always, InStub
<1>4. QED
  BY <1>2, <1>3 DEF Granted

\* A write stays granted until the client makes it.
LEMMA GrantedOfMover ==
  ASSUME Always, StubAlone, Channels, NEW c \in Clients, Moves(c), ~Apply(c)
  PROVE  (Granted(c)' <=> Granted(c)) /\ (Granted(c) => req'[c] = req[c])
<1> USE DEF Always, TypeOK, At, Goto
<1>1. c \in Threads /\ c # watcher
  BY ClientsAreThreads
<1>2. InStub(c) => conn[c] \in Backups
  BY <1>1, BackupNumbers
<1>3. CASE pc[c] \notin {"apply", "receive"} /\ pc'[c] \notin {"apply", "receive"}
  BY <1>3 DEF Granted
<1>4. CASE \E r \in Requests : Receive(c, r)
  BY <1>1, <1>3, <1>4 DEF Receive
<1>5. CASE EnterList(c) \/ Read(c) \/ Leave(c) \/ FillMessage(c)
  BY <1>1, <1>3, <1>5 DEF EnterList, Read, Leave, FillMessage
<1>6. CASE InitMessage(c)
  BY <1>1, <1>3, <1>6 DEF InitMessage, StubFails
<1>7. CASE WaitForList(c)
  BY <1>3, <1>7 DEF WaitForList, primaryVars
<1>8. CASE Send(c)
  <2>1. pc[c] = "send" /\ pc'[c] = "receive" /\ Quiet(conn[c])
    BY <1>1, <1>8 DEF Send, Channels, ChannelOK
  <2>2. UNCHANGED <<replies, conn>>
    BY <1>8 DEF Send
  <2>3. replies'[conn'[c]] = <<>>
    BY <2>1, <2>2 DEF Quiet
  <2>4. QED
    BY <2>1, <2>3, OneFrame DEF Granted
<1>9. CASE ReceiveAnswer(c)
  <2>1. pc[c] = "receive" /\ replies[conn[c]] # <<>>
    BY <1>9 DEF ReceiveAnswer
  <2>2. Answered(c, "ok") \/ Answered(c, "error")
    BY <1>1, <2>1 DEF Channels, ChannelOK, OnItsWay, Lost, Quiet
  <2>3. CASE Answered(c, "ok")
    <3>1. Head(replies[conn[c]]) = "ok"
      BY <2>3, OneFrame DEF Answered
    <3>2. pc'[c] = "apply" /\ req' = req
      BY <1>1, <1>9, <3>1 DEF ReceiveAnswer
    <3>3. QED
      BY <2>1, <2>3, <3>2 DEF Granted, Answered
  <2>4. CASE Answered(c, "error")
    <3>1. Head(replies[conn[c]]) = "error"
      BY <2>4, OneFrame DEF Answered
    <3>2. pc'[c] = "idle"
      BY <1>1, <1>9, <3>1 DEF ReceiveAnswer, StubFails
    <3>3. replies[conn[c]] # <<"ok">>
      BY <3>1, OneFrame
    <3>4. QED
      BY <2>1, <3>2, <3>3 DEF Granted
  <2>5. QED
    BY <2>2, <2>3, <2>4
<1>10. CASE LoseAnswer(c)
  <2>1. pc[c] = "receive" /\ replies[conn[c]] = <<>> /\ UNCHANGED <<replies, conn>>
    BY <1>10 DEF LoseAnswer, backupVars
  <2>2. pc'[c] \in {"spinning", "receive"}
    BY <1>1, <1>10 DEF LoseAnswer
  <2>3. QED
    BY <2>1, <2>2, OneFrame DEF Granted
<1>11. QED
  BY <1>1, <1>4, <1>5, <1>6, <1>7, <1>8, <1>9, <1>10 DEF Moves, ThreadStep

\* Besides table_put and table_del of a client, no step of a thread of the primary
\* changes a table or the granted writes.
LEMMA MovesLeaveService ==
  ASSUME Always, StubAlone, Channels, NEW p \in Threads, Moves(p),
         p \in Clients => ~Apply(p)
  PROVE  UNCHANGED <<table, backup, Ahead>>
<1>1. backup' = backup
  BY MoverAlone DEF Always
<1>2. table' = table
  <2>1. CASE p \in Clients
    BY <2>1, ClientLeavesSync
  <2>2. CASE p = watcher /\ ThreadStep(watcher)
    BY <2>2
       DEF ThreadStep, EnterList, WaitForList, Read, Leave, InitMessage, FillMessage, Send,
           ReceiveAnswer, LoseAnswer, primaryVars
  <2>3. CASE p = watcher /\ WatcherStep
    BY <2>3
       DEF WatcherStep, WatcherNotified, WatcherAlone, WatcherChecksBackup, WatcherConnects,
           WatcherEntersTable, WatcherWaitsForTable, WatcherGetsKeys, WatcherGetsSize,
           WatcherTakesKey, WatcherMissesKey, WatcherDone, primaryVars
  <2>4. QED
    BY <2>1, <2>2, <2>3, ClientsAreThreads DEF Moves
<1>3. \A c \in Clients : (Granted(c)' <=> Granted(c)) /\ (Granted(c) => req'[c] = req[c])
  BY GrantedElsewhere, GrantedOfMover
<1>4. QED
  BY <1>1, <1>2, <1>3, SameAhead

\* table_put and table_del make the write that the client was granted.
LEMMA ApplyCommits ==
  ASSUME Always, StubAlone, ListsAlone, NEW c \in Clients, Apply(c)
  PROVE  \E w \in Service!Writes :
           /\ w \in Ahead
           /\ table' = [table EXCEPT ![w.key] = w.value]
           /\ Ahead' = Ahead \ {w}
           /\ UNCHANGED <<backup, exited, up, rtable, joined, synced, mishaps>>
<1> DEFINE w == [key |-> req[c].key, value |-> req[c].value]
<1>1. c \in Threads /\ Moves(c) /\ UNCHANGED <<req, replies, conn>>
  BY ClientsAreThreads DEF Moves, Apply, backupVars
<1>2. Granted(c) /\ ~Granted(c)'
  BY <1>1 DEF Apply, At, Goto, Granted, Always, TypeOK
<1>3. w \in Ahead /\ w \in Service!Writes
  BY <1>2, AheadType DEF Ahead
<1>4. \A d \in Clients \ {c} : Granted(d)' <=> Granted(d)
  BY <1>1, GrantedElsewhere
<1>5. \A d \in Clients \ {c} : Granted(d) => req[d].key # req[c].key
  BY <1>2, GrantedWrites, ClientsAreThreads DEF ListsAlone
<1>6. Ahead' = Ahead \ {w}
  <2>1. ASSUME NEW x \in Ahead'
        PROVE  x \in Ahead \ {w}
    <3>1. PICK d \in Clients : Granted(d)' /\ x = [key |-> req[d].key, value |-> req[d].value]
      BY <1>1, <2>1 DEF Ahead
    <3>2. d # c /\ Granted(d)
      BY <1>2, <1>4, <3>1
    <3>3. x \in Ahead
      BY <3>1, <3>2 DEF Ahead
    <3>4. x.key # w.key
      BY <1>5, <3>1, <3>2
    <3>5. QED
      BY <3>3, <3>4
  <2>2. ASSUME NEW x \in Ahead \ {w}
        PROVE  x \in Ahead'
    <3>1. PICK d \in Clients : Granted(d) /\ x = [key |-> req[d].key, value |-> req[d].value]
      BY <2>2 DEF Ahead
    <3>2. d # c
      BY <2>2, <3>1
    <3>3. QED
      BY <1>1, <1>4, <3>1, <3>2 DEF Ahead
  <2>3. QED
    BY <2>1, <2>2
<1>7. table' = [table EXCEPT ![w.key] = w.value]
  BY DEF Apply
<1>8. UNCHANGED <<backup, exited, up, rtable, joined, synced, mishaps>>
  BY DEF Apply, backupVars, historyVars
<1>9. QED
  BY <1>3, <1>6, <1>7, <1>8

\* The mode after a step.
LEMMA ModeOfNext ==
  TypeOK' =>
    (/\ ~Unspoilt => Mode = "spoilt"
     /\ Unspoilt /\ exited => Mode = "over"
     /\ Exclusive /\ InService => Mode = "paired"
     /\ Exclusive /\ ~InService => Mode = "alone"
     /\ Unspoilt /\ ~exited <=> Exclusive)'
  BY ModeOf, PTL

\* The same of the granted writes after a step.
LEMMA AheadTypeNext == Always' => (Ahead \subseteq Service!Writes)'
  BY AheadType, PTL

\* What the mode is made of, unchanged, leaves it unchanged.
LEMMA SameMode ==
  ASSUME TypeOK, TypeOK', exited' <=> exited, UNCHANGED <<up, rtable, joined, synced>>,
         mishaps' = mishaps \/ (Exclusive /\ Exclusive')
  PROVE  Mode' = Mode
<1>1. CASE mishaps' = mishaps
  <2>1. (Unspoilt' <=> Unspoilt) /\ (InService' <=> InService)
    BY <1>1 DEF Unspoilt, InService
  <2>2. QED
    BY <2>1, ModeOf, ModeOfNext
<1>2. CASE Exclusive /\ Exclusive'
  <2>1. Unspoilt /\ ~exited /\ Unspoilt' /\ ~exited'
    BY <1>2, ModeOf, ModeOfNext
  <2>2. InService' <=> InService
    BY <2>1 DEF InService, Unspoilt
  <2>3. QED
    BY <1>2, <2>2, ModeOf, ModeOfNext
<1>3. QED
  BY <1>1, <1>2

\* A step of child_watcher leaves the backup in service, or out of it, unless it
\* ends the resynchronisation: then the backup lacks nothing.
LEMMA WatcherPairs ==
  ASSUME Always, Always', StubInv, DataInv, Moves(watcher), Exclusive, Exclusive'
  PROVE  \/ InService' <=> InService
         \/ ~InService /\ InService' /\ Ahead = {} /\ backup = table
<1> USE DEF Always
<1>1. Unspoilt /\ ~exited /\ Unspoilt' /\ ~exited'
  BY ModeOf, ModeOfNext
<1>2. UNCHANGED <<up, joined>>
  BY ClientsAreThreads, MoverAlone
<1>3. CASE ~up
  BY <1>2, <1>3 DEF InService
<1>4. CASE up
  <2>1. DataOK /\ SyncAlone /\ SyncKeys
    BY <1>4 DEF Exclusive, StubInv, DataInv
  <2>2. rtable' = rtable \/ rtable' = joined
    BY <1>4, WatcherLeavesData DEF Exclusive
  <2>3. CASE synced' = synced
    <3>1. synced = joined => rtable = joined
      BY <2>1 DEF DataOK, UpToDate
    <3>2. QED
      BY <1>1, <1>2, <2>2, <2>3, <3>1 DEF InService, Unspoilt
  <2>4. CASE WatcherDone
    <3>1. /\ pc[watcher] = "next" /\ sizeLeft = 0
          /\ synced' = rtable /\ rtable' = rtable
      BY <2>4 DEF WatcherDone, At
    <3>2. CASE rtable # joined
      BY <1>2, <3>1, <3>2 DEF InService
    <3>3. CASE rtable = joined
      <4>1. keysLeft = {}
        BY <2>1, <3>1, KeysCount, FS_EmptySet DEF TypeOK, SyncKeys, LoopLabels
      <4>2. \A k \in Keys : backup[k] = table[k]
        BY <2>1, <3>1, <3>3, <4>1 DEF DataOK, PutSoFar, LoopLabels
      <4>3. backup = table
        BY <4>2 DEF TypeOK
      <4>4. \A c \in Clients : ~Granted(c)
        BY <2>1, <3>1, GrantedWrites DEF SyncAlone, InSync, LoopLabels
      <4>5. Ahead = {}
        BY <4>4 DEF Ahead
      <4>6. InService'
        BY <1>1, <1>2, <1>4, <3>1, <3>3 DEF InService, Unspoilt
      <4>7. QED
        BY <4>3, <4>5, <4>6
    <3>4. QED
      BY <3>2, <3>3
  <2>5. QED
    BY <1>4, <2>3, <2>4, WatcherLeavesData DEF Exclusive
<1>5. QED
  BY <1>3, <1>4

\* The backup serves a client's put or del: it grants the write, or, refusing a del
\* of a key that is not there, leaves everything as it was.
LEMMA ServingClientStores ==
  ASSUME Always, StubAlone, Channels, ListsAlone, BackupServes,
         NEW c \in Clients, pc[c] = "receive", conn[c] = joined, OnItsWay(c)
  PROVE  \/ UNCHANGED <<backup, Ahead>>
         \/ \E w \in Service!Writes :
              /\ \A x \in Ahead : x.key # w.key
              /\ backup' = [backup EXCEPT ![w.key] = w.value]
              /\ Ahead' = Ahead \cup {w}
<1> USE DEF Always, TypeOK
<1> DEFINE w == [key |-> req[c].key, value |-> req[c].value]
<1>1. UNCHANGED <<pc, req, conn>> /\ joined \in Backups
  BY BackupNumbers DEF BackupServes, primaryVars
<1>2. c \in Threads /\ c # watcher
  BY ClientsAreThreads
<1>3. /\ replies'[joined] = <<Answer(req[c])>>
      /\ backup' = Served(req[c])
  BY <1>1, OneFrame DEF BackupServes, OnItsWay
<1>4. /\ req[c].key \in Keys
      /\ \/ req[c].op = PUT /\ req[c].value # Empty
         \/ req[c].op = DEL /\ req[c].value = Empty
  BY ReplicationAssumption DEF ClientsOK, ClientOK, StubLabels, ReplicationAssumption
<1>5. backup' = [backup EXCEPT ![req[c].key] = req[c].value]
  BY <1>3, <1>4, ServedStores
<1>6. ~Granted(c)
  BY OneFrame DEF OnItsWay, Granted
<1>7. \A d \in Clients \ {c} : pc[d] # "receive"
  BY <1>2, ClientsAreThreads DEF StubAlone, InStub
<1>8. \A d \in Clients \ {c} : Granted(d)' <=> Granted(d)
  BY <1>1, <1>7 DEF Granted
<1>9. CASE Answer(req[c]) = "ok"
  <2>1. Granted(c)'
    BY <1>1, <1>3, <1>9 DEF Granted
  <2>2. w \in Service!Writes
    <3>1. req[c].value \in Values \cup {Empty}
      BY <1>4 DEF ClientsOK, ClientOK
    <3>2. QED
      BY <1>4, <3>1 DEF Service!Writes, Service!Data
  <2>3. \A d \in Clients \ {c} : Granted(d) => req[d].key # req[c].key
    BY <1>2, GrantedWrites, ClientsAreThreads DEF ListsAlone, InList, StubLabels
  <2>4. ASSUME NEW x \in Ahead
        PROVE  x.key # w.key
    <3>1. PICK d \in Clients : Granted(d) /\ x = [key |-> req[d].key, value |-> req[d].value]
      BY <2>4 DEF Ahead
    <3>2. QED
      BY <1>6, <2>3, <3>1
  <2>5. Ahead' = Ahead \cup {w}
    <3>1. ASSUME NEW x \in Ahead'
          PROVE  x \in Ahead \cup {w}
      <4>1. PICK d \in Clients : Granted(d)' /\ x = [key |-> req[d].key, value |-> req[d].value]
        BY <1>1, <3>1 DEF Ahead
      <4>2. CASE d = c
        BY <4>1, <4>2
      <4>3. CASE d # c
        BY <1>8, <4>1, <4>3 DEF Ahead
      <4>4. QED
        BY <4>2, <4>3
    <3>2. ASSUME NEW x \in Ahead
          PROVE  x \in Ahead'
      <4>1. PICK d \in Clients : Granted(d) /\ x = [key |-> req[d].key, value |-> req[d].value]
        BY <3>2 DEF Ahead
      <4>2. QED
        BY <1>1, <1>6, <1>8, <4>1 DEF Ahead
    <3>3. w \in Ahead'
      BY <1>1, <2>1 DEF Ahead
    <3>4. QED
      BY <3>1, <3>2, <3>3
  <2>6. QED
    BY <1>5, <2>2, <2>4, <2>5
<1>10. CASE Answer(req[c]) # "ok"
  <2>1. req[c].value = backup[req[c].key]
    BY <1>4, <1>10, ReplicationAssumption DEF Answer, ReplicationAssumption, PUT, DEL
  <2>2. backup' = backup
    BY <1>5, <2>1
  <2>3. ~Granted(c)'
    <3>1. replies'[conn'[c]] # <<"ok">>
      BY <1>1, <1>3, <1>10, OneFrame
    <3>2. QED
      BY <1>1, <3>1 DEF Granted
  <2>4. Ahead' = Ahead
    BY <1>1, <1>6, <1>8, <2>3, SameAhead
  <2>5. QED
    BY <2>2, <2>4
<1>11. QED
  BY <1>9, <1>10

\* The backup serves child_watcher: it gets the primary's data of a key, which it
\* has already if it is in service.
LEMMA ServingWatcherCopies ==
  ASSUME Always, Channels, SyncAlone, SyncKeys, DataOK, BackupServes,
         pc[watcher] = "receive", conn[watcher] = joined, OnItsWay(watcher)
  PROVE  /\ Ahead = {} /\ Ahead' = {}
         /\ \E k \in Keys : backup' = [backup EXCEPT ![k] = table[k]]
         /\ InService => backup' = backup
<1> USE DEF Always, TypeOK
<1>1. /\ UNCHANGED <<pc, req, conn>>
      /\ joined \in Backups /\ watcher \in Threads
  BY BackupNumbers, ClientsAreThreads DEF BackupServes, primaryVars
<1>2. backup' = Served(req[watcher])
  BY <1>1, OneFrame DEF BackupServes, OnItsWay
<1>3. /\ req[watcher].key \in Keys /\ req[watcher].op = PUT
      /\ req[watcher].value = table[req[watcher].key] /\ req[watcher].value # Empty
  BY DEF WatcherOK, SyncKeys, LoopLabels, StoredKeys
<1>4. backup' = [backup EXCEPT ![req[watcher].key] = table[req[watcher].key]]
  BY <1>2, <1>3, ServedStores
<1>5. \A c \in Clients : ~Writing(c)
  BY DEF SyncAlone, InSync, LoopLabels
<1>6. \A c \in Clients : ~Granted(c) /\ ~Granted(c)' /\ ~Sent(c)
  BY <1>1, <1>5 DEF Granted, Writing, Sent
<1>7. Ahead = {} /\ Ahead' = {}
  BY <1>6 DEF Ahead
<1>8. InService => backup[req[watcher].key] = table[req[watcher].key]
  BY <1>3, <1>6 DEF InService, DataOK, UpToDate, SentOn
<1>9. QED
  BY <1>3, <1>4, <1>7, <1>8

\* Every step of primary and backup is a step of the service, or none.
LEMMA ServiceStep ==
  ASSUME IInv, [Next]_vars
  PROVE  [Service!Next]_(Service!mapVars)
<1> DEFINE Stutter == UNCHANGED <<table, backup, Ahead, Mode>>
<1>1. Always /\ Always' /\ TypeOK /\ TypeOK' /\ StubInv /\ DataInv
  BY StepIInv DEF IInv, Always
<1>2. Stutter => UNCHANGED Service!mapVars
  BY DEF Service!mapVars
<1>3. CASE UNCHANGED vars
  <2>1. \A c \in Clients : (Granted(c)' <=> Granted(c)) /\ req'[c] = req[c]
    BY <1>3 DEF vars, primaryVars, backupVars, Granted
  <2>2. Mode' = Mode
    BY <1>1, <1>3, SameMode DEF vars, primaryVars, backupVars, historyVars
  <2>3. QED
    BY <1>2, <1>3, <2>1, <2>2, SameAhead DEF vars, primaryVars, backupVars
<1>4. CASE ~Unspoilt'
  <2>1. Mode' = "spoilt" /\ (Ahead \subseteq Service!Writes)'
    BY <1>1, <1>4, ModeOfNext, AheadTypeNext
  <2>2. table' \in [Keys -> Values \cup {Empty}] /\ backup' \in [Keys -> Values \cup {Empty}]
    BY <1>1 DEF TypeOK
  <2>3. Service!Spoil
    BY <2>1, <2>2 DEF Service!Spoil, Service!Data, Service!Writes
  <2>4. QED
    BY <2>3 DEF Service!Next
<1>5. ASSUME Unspoilt', ~exited, mishaps \subseteq mishaps'
      PROVE  /\ Exclusive /\ StubAlone /\ Channels /\ SyncAlone /\ SyncKeys /\ ListsAlone
             /\ up => DataOK
             /\ Service!Serving
             /\ exited' => Mode' = "over"
             /\ ~exited' => Exclusive'
  <2>1. Exclusive
    BY <1>1, <1>5, ModeOf DEF Unspoilt
  <2>2. StubAlone /\ Channels /\ SyncAlone /\ SyncKeys /\ ListsAlone /\ (up => DataOK)
    BY <1>1, <2>1 DEF Exclusive, StubInv, DataInv
  <2>3. Service!Serving
    BY <1>1, <2>1, ModeOf DEF Service!Serving
  <2>4. QED
    BY <1>1, <1>5, <2>1, <2>2, <2>3, ModeOfNext
<1>6. ASSUME NEW p \in Threads, Moves(p), Unspoilt'
      PROVE  Stutter \/ Service!Next
  <2>1. ~exited /\ mishaps \subseteq mishaps' /\ UNCHANGED <<joined, up>>
    BY <1>1, <1>6, MoverAlone
  <2>2. /\ Exclusive /\ StubAlone /\ Channels /\ ListsAlone
        /\ Service!Serving
        /\ exited' => Mode' = "over"
        /\ ~exited' => Exclusive'
    BY <1>5, <1>6, <2>1
  <2>3. CASE p \in Clients /\ Apply(p)
    <3>1. PICK w \in Service!Writes :
             /\ w \in Ahead
             /\ table' = [table EXCEPT ![w.key] = w.value]
             /\ Ahead' = Ahead \ {w}
             /\ UNCHANGED <<backup, exited, up, rtable, joined, synced, mishaps>>
      BY <1>1, <2>2, <2>3, ApplyCommits
    <3>2. Mode' = Mode
      BY <1>1, <3>1, SameMode
    <3>3. Service!Commit(w)
      BY <2>2, <3>1, <3>2 DEF Service!Commit
    <3>4. QED
      BY <3>3 DEF Service!Next
  <2>4. CASE ~(p \in Clients /\ Apply(p))
    <3>1. UNCHANGED <<table, backup, Ahead>>
      BY <1>1, <1>6, <2>2, <2>4, MovesLeaveService
    <3>2. CASE exited'
      <4>1. Service!End
        BY <2>2, <3>1, <3>2 DEF Service!End
      <4>2. QED
        BY <4>1 DEF Service!Next
    <3>3. CASE ~exited' /\ p \in Clients
      <4>1. (exited' <=> exited) /\ UNCHANGED <<up, rtable, joined, synced>>
        BY <1>6, <2>1, <3>3, ClientLeavesSync
      <4>2. Mode' = Mode
        BY <1>1, <2>2, <3>3, <4>1, SameMode
      <4>3. QED
        BY <3>1, <4>2
    <3>4. CASE ~exited' /\ p = watcher
      <4>1. Exclusive'
        BY <2>2, <3>4
      <4>2. CASE InService' <=> InService
        BY <1>1, <2>2, <3>1, <4>1, <4>2, ModeOf, ModeOfNext
      <4>3. CASE ~InService /\ InService' /\ Ahead = {} /\ backup = table
        <5>1. Mode = "alone" /\ Mode' = "paired"
          BY <1>1, <2>2, <4>1, <4>3, ModeOf, ModeOfNext
        <5>2. Service!Pair
          BY <3>1, <4>3, <5>1 DEF Service!Pair
        <5>3. QED
          BY <5>2 DEF Service!Next
      <4>4. QED
        BY <1>1, <1>6, <2>2, <3>4, <4>1, <4>2, <4>3, WatcherPairs
    <3>5. QED
      BY <3>2, <3>3, <3>4, ClientsAreThreads
  <2>5. QED
    BY <2>3, <2>4
<1>7. ASSUME BackupMoves, Unspoilt'
      PROVE  Stutter \/ Service!Next
  <2>1. /\ ~exited /\ mishaps \subseteq mishaps'
        /\ UNCHANGED <<table, pc, req, conn, rtable, exited, synced>>
    BY <1>7, BackupAlone DEF primaryVars
  <2>2. /\ Exclusive /\ StubAlone /\ Channels /\ SyncAlone /\ SyncKeys /\ ListsAlone
        /\ up => DataOK
        /\ Service!Serving
        /\ Exclusive'
    BY <1>5, <1>7, <2>1
  <2>3. CASE BackupServes
    <3>1. up /\ requests[joined] # <<>>
          /\ UNCHANGED <<up, joined, mishaps>>
      BY <2>3 DEF BackupServes, historyVars
    <3>2. Mode' = Mode
      BY <1>1, <2>1, <3>1, SameMode
    <3>3. PICK p \in Threads : pc[p] = "receive" /\ conn[p] = joined /\ OnItsWay(p)
      BY <1>1, <2>2, <3>1, ServedThread
    <3>4. CASE p \in Clients
      <4>1. CASE UNCHANGED <<backup, Ahead>>
        BY <2>1, <3>2, <4>1
      <4>2. CASE \E w \in Service!Writes :
                   /\ \A x \in Ahead : x.key # w.key
                   /\ backup' = [backup EXCEPT ![w.key] = w.value]
                   /\ Ahead' = Ahead \cup {w}
        <5>1. PICK w \in Service!Writes :
                   /\ \A x \in Ahead : x.key # w.key
                   /\ backup' = [backup EXCEPT ![w.key] = w.value]
                   /\ Ahead' = Ahead \cup {w}
          BY <4>2
        <5>2. Service!Store(w)
          BY <2>1, <2>2, <3>2, <5>1 DEF Service!Store
        <5>3. QED
          BY <5>2 DEF Service!Next
      <4>3. QED
        BY <1>1, <2>2, <2>3, <3>3, <3>4, <4>1, <4>2, ServingClientStores
    <3>5. CASE p = watcher
      <4>1. /\ Ahead = {} /\ Ahead' = {}
            /\ \E k \in Keys : backup' = [backup EXCEPT ![k] = table[k]]
            /\ InService => backup' = backup
        BY <1>1, <2>2, <2>3, <3>1, <3>3, <3>5, ServingWatcherCopies
      <4>2. CASE InService
        BY <2>1, <3>2, <4>1, <4>2
      <4>3. CASE ~InService
        <5>1. Mode = "alone"
          BY <1>1, <2>2, <4>3, ModeOf
        <5>2. PICK k \in Keys : backup' = [backup EXCEPT ![k] = table[k]]
          BY <4>1
        <5>3. Service!CatchUp(k)
          BY <2>1, <3>2, <4>1, <5>1, <5>2 DEF Service!CatchUp
        <5>4. QED
          BY <5>3 DEF Service!Next
      <4>4. QED
        BY <4>2, <4>3
    <3>6. QED
      BY <3>3, <3>4, <3>5, ClientsAreThreads
  <2>4. ASSUME UNCHANGED replies
        PROVE  Ahead' = Ahead
    <3>1. \A c \in Clients : (Granted(c)' <=> Granted(c)) /\ req'[c] = req[c]
      BY <2>1, <2>4 DEF Granted
    <3>2. QED
      BY <3>1, SameAhead
  <2>5. CASE BackupJoins
    <3>1. /\ joined' = joined + 1 /\ joined \in Nat /\ ~up
          /\ backup' = [k \in Keys |-> Empty]
          /\ UNCHANGED <<replies, mishaps>>
      BY <1>1, <2>5, BackupNumbers DEF BackupJoins, historyVars
    <3>2. ~InService /\ ~InService'
      BY <1>1, <2>1, <3>1 DEF InService, Always, ConnsOK
    <3>3. Mode = "alone" /\ Mode' = "alone"
      BY <1>1, <2>2, <3>2, ModeOf, ModeOfNext
    <3>4. Service!Join
      BY <2>1, <2>4, <3>1, <3>3 DEF Service!Join, Service!Nothing
    <3>5. QED
      BY <3>4 DEF Service!Next
  <2>6. CASE BackupCrashes
    <3>1. ~up' /\ UNCHANGED <<backup, replies>>
      BY <2>6 DEF BackupCrashes
    <3>2. Mode' = "alone"
      BY <1>1, <2>2, <3>1, ModeOfNext DEF InService
    <3>3. CASE InService
      <4>1. Mode = "paired"
        BY <1>1, <2>2, <3>3, ModeOf
      <4>2. Service!Lose
        BY <2>1, <2>4, <3>1, <3>2, <4>1 DEF Service!Lose
      <4>3. QED
        BY <4>2 DEF Service!Next
    <3>4. CASE ~InService
      BY <1>1, <2>1, <2>2, <2>4, <3>1, <3>2, <3>4, ModeOf
    <3>5. QED
      BY <3>3, <3>4
  <2>7. CASE SessionExpires
    <3>1. UNCHANGED <<backup, replies, up, joined, mishaps>>
      BY <2>7 DEF SessionExpires, historyVars
    <3>2. Mode' = Mode
      BY <1>1, <2>1, <3>1, SameMode
    <3>3. QED
      BY <2>1, <2>4, <3>1, <3>2
  <2>8. QED
    BY <1>7, <2>3, <2>5, <2>6, <2>7 DEF BackupMoves
<1>8. QED
  BY <1>2, <1>3, <1>4, <1>6, <1>7, Steps

\* The service starts with two empty tables and nobody at work.
LEMMA ServiceInit == Init => Service!Init
<1> SUFFICES ASSUME Init PROVE Service!Init
  OBVIOUS
<1>1. Ahead = {}
  BY ClientsAreThreads DEF Init, Ahead, Granted
<1>2. Mode = "alone"
  BY InitAlways, ModeOf DEF Init, Always, Exclusive, Orderly, InService
<1>3. QED
  BY <1>1, <1>2 DEF Init, Service!Init, Service!Nothing

\* Primary and backup implement the service of ReplicatedMap until threads have met
\* where they must not: a put or del is stored by the backup before readers of
\* the primary see it, one of a key at a time, and a backup that child_watcher has
\* brought up to date lacks nothing (invoke and child_watcher of table_skel.c).
THEOREM Refinement == Spec => ImplementsService
<1>1. IInv /\ [Next]_vars => [Service!Next]_(Service!mapVars)
  BY ServiceStep
<1>2. QED
  BY ServiceInit, Invariance, <1>1, PTL DEF Spec, ImplementsService, Service!Spec
=============================================================================
