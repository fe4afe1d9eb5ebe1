# MAP-STORAGE: verification project

MAP-STORAGE is a key/value store: a multi-threaded server that keeps a hash
table, a backup server that keeps a copy of it, a ZooKeeper ensemble through
which the servers and the clients find each other, and a command-line client.
This directory models the server and its replication in TLA+, checks the models
with TLC on small instances, and proves the most important safety properties
with TLAPS for every value of the constants.

Paths below are relative to `src/`.

## 1. Inventory

| Part | State | Operations | Interacts with |
|---|---|---|---|
| Table monitor (`source/table_skel.c` 119-201) | mutex `m`, condition `c`, `counter_LISTAS`, `counter_PUT_ATUAL`, `counter_DEL_ATUAL`, `boolean` | `comeca_listas`, `termina_listas`, `comeca`, `termina` | called by `invoke` of every thread and by `child_watcher`, which writes `boolean` without the mutex |
| Statistics (`table_skel.c` 63-114, 1131-1174) | mutex `m_stats`, condition `c_stats`, three counters, `stats` | the four lock functions, the counting in `invoke`, the report, `update_stats`, `stats_init` | called by `invoke` and by `thread_sec` |
| Hash table and lists (`source/table.c`, `list.c`, `table-private.c`) | linked lists of entries | `table_put`, `table_get`, `table_del`, `table_size`, `table_get_keys` | called under the locks of the monitor (put, get, del) or after `comeca` (the walks) |
| Request handling (`invoke`, `thread_sec`) | per-thread locals | one branch per operation, once for the primary and once for the backup | monitor, table, statistics, stub |
| Client stub (`source/client_stub.c`, `network_client.c`, `message.c`) | global `msg`, the socket in `rtable` | `rtable_put`, `rtable_del`, ... | used by the primary towards the backup and by the client program |
| `child_watcher`, `table_skel_init` | `isprimary`, `boolean`, `rtable`, ZooKeeper nodes | start, promotion, resynchronisation of a new backup | runs in ZooKeeper's thread next to the threads of the clients |
| Connections of the server (`source/network_server.c`) | `thread_p`, the descriptors of the process | accept, create a thread, receive, send, close (twice) | starts `thread_sec`, which calls `invoke` |
| Client program (`source/table_client.c`) | `rtable`, the place of `strtok` | commands; a watcher that disconnects and replaces `rtable` | stub; ZooKeeper's thread runs next to `main` |
| `data.c`, `entry.c`, `serialization.c`, `sdmessage.pb-c.c`, `inet.c` | - | buffers, generated code | everything (`serialization.c` is called by nothing) |

What is hard here:

* Threads interleave in a monitor whose scans are not registered
  (`comeca` waits but leaves no trace), whose error returns skip
  `termina_listas`, and whose flag `boolean` is written from outside.
* The reader/writer lock of the statistics unlocks where it should lock.
* One global message and one socket serve all threads of the primary.
* The resynchronisation reads the table without keeping clients out, and a
  backup can crash at any point of it, or in the middle of a put.
* Server and client reuse numbers: a descriptor that is closed twice, or freed
  memory that holds one, may be somebody else's by then.
* Memory and arithmetic at boundaries: the array of `table_get_keys`, the
  divisor of the average, counters written back from stale copies.

What makes each part correct: the monitor keeps two threads out of one list,
counts exactly what is inside, loses no wakeup and lets every request through;
the statistics count every operation once, exclude writers and never divide by
zero; the table is a map, and its walks return what is there; primary and
backup hold the same data, and every request is answered; each connection of
the server has one thread, and its answers are its own; the client sends what
was typed to the primary there is.

## 2. Modules

| Module | What it is |
|---|---|
| `TableMonitor` | the monitor: its variables and the effect of each of its functions |
| `TableLock` | threads that use the monitor as `invoke` does, and the watcher's flag; extends `TableMonitor` |
| `Stats` | the lock of the statistics, one step per access to a shared variable, and all its users |
| `KVMap` | abstract: the map that `include/table.h` promises |
| `Table` | `table.c` and `list.c`, with the walks of size, getkeys and table_print; implements `KVMap` |
| `ReplicatedMap` | abstract: a map and a copy that is ahead of it, what the service of primary and backup promises |
| `Replication` | primary, stub, `child_watcher`, and a succession of backups; extends `TableMonitor`, implements `ReplicatedMap` |
| `Cluster` | servers that start, become primary or backup, are promoted, crash and lose their session |
| `Client` | the client's main thread, its watcher, the stub's connection |
| `Connections` | `network_main_loop`, the threads it makes, and the descriptors of the server |
| `TableLockProofs`, `StatsProofs`, `StatsLockProofs`, `TableProofs`, `ReplicationProofs`, `ClusterProofs`, `ClientProofs`, `ConnectionsProofs` | theorems about the module of the name |
| `MC*` | instances for TLC |

### TableMonitor and TableLock

Each function of the monitor locks `m` first and unlocks it last, so it is one
step up to a wait. A thread in `pthread_cond_wait` is in the set `asleep`; a
broadcast empties the set and the woken thread tests its condition again, and
so does a spurious wakeup. `pc` says where in `invoke` a thread is: it has
received a request (`entering`), is between `comeca_listas` and
`termina_listas` (`inside`), or between `comeca` and `termina` (`scanning`).
`AbandonList` is the error return of `invoke` between the two calls (lines
607-613 and 700-706). `WatcherSetsBoolean` may happen at any moment, because
`child_watcher` takes no lock. The history variable `barged` marks the lists
that a put or del entered because `boolean` was 1.

### Stats

`termina_escrita_stats` never locks `m_stats`, so nothing makes the lock
functions atomic: every load, store, test, lock and unlock is a step, and `x++`
is two. The mutex is a word without an owner, as in the C library when a
default mutex is unlocked by a thread that did not lock it. `Receive`,
`LoadCount`, `StoreCount`, `LoadReport`, `Reply`, `LoadAverage` and
`StoreAverage` are the uses of the lock; a refused put or del is averaged
although it is not counted. The average is one of non-negative, negative and
not finite: the only distinction the code makes is `stats->time < 0`, and the
elapsed time itself can be negative because seconds are added to nanoseconds.
`raced` becomes true when a thread unlocks the mutex, or changes what it
protects, while another one is between its lock and its unlock.

### Table and KVMap

A list is the sequence of its entries; `list_add`, `list_remove` and `list_get`
are operators on sequences. A put, del or get holds its list's lock and is one
step, but for a put that replaces, which is `list_remove` (`PutRemove`) and then
`list_add` (`PutAdd`); `putting` holds the entry in between. The walks hold no
lock. getkeys is three of them: two of `table_size` (for `n_info` and for the
size of the array), which go by lists (`VisitSize`), and one that copies, which
goes by nodes (`CopyKey`), because puts and dels free nodes and the walk may
stand on one (`UseFreed`). table_print asks for the size and the keys again at
every turn; each of these calls is one step. A walk that uses freed memory, or a
key that is not there, ends the model (`crashed`): in C anything may follow.
`present` and `seen` record the keys that were in the table during the whole
walk of getkeys and at some time of it, `disturbed` what ran meanwhile.

While `boolean` is 1, which lasts through the resynchronisation of a new backup,
`comeca_listas` lets a put or del into a list that another one has
(`table_skel.c:142`; `TableLock` and `Replication` say when). `Clash` is what
the two leave of the list: `list_add` and `list_remove` search first and link or
unlink a node then, so that an entry may be lost or stay, come or not, at any
place (`LeftByClash`). `ClashCrashes` is their use of a node that one of them
has freed, or of none. Which of these happens is nondeterministic, at any time
and without asking whether two writers are there: the module does not know the
flag. `clashed` keeps the lists it has happened to. A walk may go through any of
them, so what is said of walks is said until the first clash.

`Map == INSTANCE KVMap WITH map <- ..., doubtful <- ...` is the refinement
mapping: the map holds for a key what `table_get` returns, or the data of the put
that is between its two steps, as nobody else gets the list then, if not by a
clash; the keys of a clashed list are `doubtful`, and a `Clash` of the map may
give these any data and must leave the others theirs. A put takes effect, and `answer`
tells it, in its first step. The small array inside `list_get_keys` is not
modelled, the one of `table_get_keys` is (`room`).

### Replication and ReplicatedMap

A thread of the primary takes its list (`EnterList`, with the monitor's own
operators), goes through the stub (`InitMessage`, `FillMessage`, `Send`,
`ReceiveAnswer`), changes the table (`Apply`) and releases the list (`Leave`).
`StubFails` is the return value -1: a client's thread leaves with the list
taken, `child_watcher` exits. `child_watcher` is a thread of its own with the
labels `alone`, `checkBackup`, `connect`, `comeca`, `keys`, `size` and `next`;
for each key it goes through the same list and stub steps as a client. Backups
come one after the other (`BackupJoins`), may crash at any step
(`BackupCrashes`), and their node goes later (`SessionExpires`). What goes wrong
on the way is recorded in `mishaps`: a leaked list, a barge, two threads in the
stub, a put or del during a resynchronisation, a crash. Each property says
which mishaps it excludes. A frame is written and read in one step, and `msg` is
filled in one; the mixture of two half-written frames is therefore not in the
model, the exchange of whole messages and answers is. The story ends when the
primary exits.

`ReplicatedMap` says what that is for. A write is stored in the copy first
(`Store`) and then in the map that readers see (`Commit`), one write of a key at
a time. A copy begins empty (`Join`), gets the map's data while no write is
under way (`CatchUp`) and is paired when it lacks nothing (`Pair`); it can be
lost (`Lose`), and writes that were stored in it are made all the same. In the
mapping `Service`, the map and the copy are the two tables, the writes ahead are
those of the clients whose good answer is on the socket or has been read, and
the mode is "paired" while `InService` holds. It is "spoilt", and nothing is
promised, once `mishaps` has a barge, two threads in the stub or a put or del
during a resynchronisation; a crash, a leaked list and the end of the primary
are within the promise.

### Cluster

Every call of ZooKeeper in `table_skel_init` and `child_watcher` is a step of
the server that makes it, so that other servers act between two lookups; `found`
and `path` keep the old answers. `pc` is the place in `table_skel_init`, `wpc`
the place in `child_watcher`, which runs in another thread as soon as a watch is
set. A watch is used up by one change (`Tell`) and set again when the watcher
lists the children. `table_skel_init` calls itself when there is only a backup;
`nested` says that the call is one of those, which returns to `SetWatch`
whatever it returns. A process that ends leaves its nodes to `Gone` until
`Expire`; `LoseSession` takes the nodes of a living server, all sessions of
which are lost together. What the watcher does to the tables and to `boolean`
is in `Replication`, which in turn knows one primary and a sequence of backups.
`stray` records that a server which holds no node has set a watch: it can happen
when the primary goes between the two looks of `table_skel_init`.

### Client

Two threads, `main` and `watcher`, each with a `pc`. What `rtable_connect` does
is the same steps in both (`LookForPrimary` to `Connect`). An rtable is named by
the connection it was made for; `server` and `fd` are its contents, `freed` the
rtables whose memory is free, and what is read from one of those is the old
number, the number of the newest rtable or garbage (`Sockfds`). `open` says
which connection a descriptor leads to now, and the kernel gives out the lowest
free one. `ptr`, `sock` and `on` are copies a call has made: the rtable it was
given, its socket, and the connection that `read` waits for, which stays the
same when another thread closes the descriptor. `tok` is what `strtok` has left.
There is one `primary_host_ip` for both threads: `host` says whose buffer it
points to, `text` what is in each thread's last buffer. A thread allocates it
(`AllocateHost`), has `zoo_get` fill it (`GetPrimary`) and reads it again in
`rtable_connect` (`SplitHost`), where it may be the other's, empty or already
cut by `strtok`.
Of the commands, size stands for stats, and get for del: the
client does the same for them. `get_code` returns anything for a line that is no
command, and fails on a line without a word (`GetCodeOfBlank`). An answer is
taken in one step (`TakeAnswer`); `rtable_get_keys` writes the NULL after the
last key past its array, which may end the process any time later
(`HeapBreaks`) or never, and `rtable_print` reads on behind the last line, which
may end it at once (`PrintOverruns`). `Serve`, `ServerDies`, `PrimaryExpires`, `PrimaryAppears` and
`BackupChanges` are what the client sees of servers and ZooKeeper.
`harm` records what the code does to itself, and each property says which of it
it excludes: a thread calls `strtok` between two calls of the other
(`"strtok"`) or replaces the address the other is about to use (`"address"`),
main makes its first connection while the watcher is at work or after it
(`"connect"`), and the two overruns (`"keys"`, `"info"`).

### Connections

The main thread and the threads it makes, which are never joined. `param` is
`thread_p.connsockfd`: a thread reads it (`ReadParam`) after `pthread_create`
has returned, perhaps after the next `accept` has changed it. A connection that
has arrived waits in `backlog` until there is a descriptor. `Receive` and
`TakeRequest` or `EndOfStream` are `network_receive`, `Send` is `invoke` with
`network_send`; a failure closes the descriptor (`CloseOnError`) and `thread_sec`
closes the same number again (`CloseAgain`). Without descriptors `accept`
returns -1, which becomes a thread like any other. A request is known by the
connection it came on, so that an answer on another one shows. `harm` records
that a parameter was overtaken or that a second close hit a new connection.

## 3. Runs

| Run | Expect | Instance | What it shows |
|---|---|---|---|
| `table_lock` | pass | 3 threads, 2 lists, 1 request each, 1 error return | counters exact, one thread per list unless barged, no thread asleep on something free, scans start in a quiet table, every request passes unless an error return keeps a list |
| `stats` | pass | 2 threads, 1 counted operation, 1 request each, 1 spurious wakeup | counts are bounded by what was served, the divisor is positive, and until the missing lock has bitten the rules of the lock hold and every request is served |
| `stats_exclusion` | violation | no spurious wakeup | the missing lock puts a writer next to another thread (README.MD:13-15) |
| `table` | pass | 3 keys in 2 lists, 2 values, 2 changes of the lists during a walk (3 when the last is a put that replaces), 1 list in which writers clash (and any when they end the process) | the table implements the map but for the keys of a list that two writers were in at once; until then walks are exact when undisturbed and weakly consistent otherwise, and break only when disturbed |
| `table_keys_fit` | violation | same, but a clash only ends the process | a put between size and copy overflows the array (source/table.c:222-224) |
| `replication` | pass | 2 clients, 2 keys in 2 lists, 5 requests to choose from, 1 request each, 2 backups | the tables are equal except for keys being written, the backup stores before the primary applies, the primary exits only after a crash or a race, and every step is one of `ReplicatedMap` |
| `replication_answers` | pass | 1 backup | every request is answered if no list is leaked and no backup crashes |
| `replication_hang` | violation | 1 client, 2 requests | a refused del keeps its list and the next request waits for ever (source/network_server.c:155-161) |
| `cluster` | pass | 3 servers, 3 starts, 1 lost session | a server that thinks itself primary owns the node, the node leads to it, and a backup that watches takes over; all this unless a stray watches |
| `client` | pass | 2 lines of 5 kinds (table_print, put, getkeys, no command, no word), 2 primaries one after the other, 2 changes of the children | the process ends early only after a primary has left, a race, an answer that was overrun or a line that is no command; calls return; what is sent is what was typed; rtable follows the primary |
| `connections` | pass | 3 connections, 2 descriptors, 3 threads, 3 requests | one thread per connection, its answers its own, and requests answered, until the code's two mistakes with descriptors have bitten |
| `connections_answers` | violation | 3 requests | an answer goes to another client (source/network_server.c:155-161) |

`CHECK_DEADLOCK FALSE` is used where a bound lets the system come to rest, and
where the code itself really stops: a list that is never released, a process
that has ended (the primary, the client, the server without threads, or any
server in a broken walk).

Bounds (`MaxRequests`, `MaxAbandons`, `MaxSpurious`, `MaxJoins`, `MaxStarts`,
`MaxLosses`, `MaxWrites`, `MaxClashes`, `MaxConns`, `MaxThreads`, `Lines`, `MaxServers`,
`MaxChanges`) stand in guards of the actions that receive a request, abandon a
list, wake spuriously, bring a backup, start a process, lose a session, change a
list during a walk, let writers clash in a further list, make a connection or a thread, type a line, or change the
children of `/kvstore`. They suffice for the interactions of interest: a barge
needs two writers and the flag, a missed wakeup a holder and a sleeper, a
mixed-up message two threads in the stub; three threads add a bystander that a
wrong broadcast would forget. Two lists tell a list's lock from a table's. Three
keys in two lists give a list with a neighbour to damage and one without. Two
changes during a walk, the last of which may be a put with its two steps, let a
key be taken out and come back at the end, and another one go before. One clashed list of two leaves one to compare it
with. Without `MaxWrites` the walk of getkeys need not end: every key
it has copied can come back behind it. Two backups let the second one find a
table that is not empty, written with the first. Three servers give a primary, a
backup and one that arrives while one of them goes. Two threads suffice in
`Stats` because the lock's rules are about pairs; each has an access-by-access
interleaving with the other. Two primaries and two changes let the client lose
one and meet the next while it is in a call; two lines let the second call meet
what the first has left. Three connections on two descriptors give one that
waits for a number to be used again. Threads and data are interchangeable, and
symmetry is used where no liveness is checked.

### Fairness

Weak fairness of the steps a thread takes by itself (`Serve(t)`, `ThreadStep`,
`WatcherStep`, `BackupServes`): the scheduler of the operating system runs a
runnable thread in the end. In `Cluster`, weak fairness of `InitStep`,
`WatcherStep` and `Expire`: ZooKeeper delivers its notifications and times out
the sessions of processes that have ended. In `Client`, of `MainStep`,
`WatcherStep` and `Serve`; in `Connections`, of the main thread, of every thread
and of a client's taking an answer that has come. Reading a line and making a
request are not fair steps: nobody has to type. Nothing is assumed of clients, error returns,
spurious wakeups, the watcher's flag, crashes or joins. Weak fairness of a
waiting thread does not promise it the monitor while others overtake it; the
liveness properties hold because requests are finitely many, and say so.

## 4. Findings

Each violation run refutes one sentence of the repository.

1. `termina_escrita_stats` unlocks instead of locking (`table_skel.c:110`).
2. `table_get_keys` may write past its array (`table.c:228`): `comeca` does not
   hold back the puts and dels that start after it (`table_skel.c:184`).
3. Error returns of put and del keep the list and the counter
   (`table_skel.c:609`, `:702`), after which the list, all scans and the
   resynchronisation hang.
4. An answer may be written to another client (`network_server.c:175`): threads
   read `thread_p` when it is another connection's, and a second close hits the
   descriptor of a new one.

More came out of the passing runs and is recorded in their properties. A put or
del that barges into a list during the absence of a backup may still be there
when the next backup is in service, and the two writers then reach the two
tables in different orders: `InStep` and `StoredBeforeApplied` had to exclude
it. The counters of the statistics lose increments, because the copy is taken
under one lock and written back under another (`table_skel.c:580` and its
siblings): `CountBounded` is an upper bound and an equality would be false. A
server that sees a primary and no backup at its first look, and neither at its
second, ends up with no role, serves clients and sets the watch; when the real
backup is alone it promotes that backup's address in its own name and deletes
its node, and there may be two primaries (`stray` in `PrimaryHoldsNode` and
`AddressLeadsToOwner`). A backup that sets its watch after the primary went
never takes over, hence `watch[s]` in `BackupPromoted`. A primary whose session
expires goes on as primary, hence `~lost[s]` in `PrimaryHoldsNode`. The primary
itself takes the branch of the promoted backup when a new backup registers
between `child_watcher`'s list of the children and its lookup of the backup; it
then fails to create its own node and exits (one of the exits that
`ExitsOnlyIfDisturbed` allows). In the primary's own table, two writers
of a list may lose entries or end the process: `WellFormed` and `ImplementsMap`
except the list it happened in (`clashed`), and the properties of walks end with
it. Two puts on different lists share the stub's
global message, and one of them may return 0 with nothing stored: the overlap is
among what `InStep` and `StoredBeforeApplied` exclude.

In the client, `main` sets the watch before it makes its first connection: when
the primary changes in that moment, main's older address replaces the watcher's
newer one and stays (`"connect"` in `FollowsPrimary` and `CommandFinishes`).
`rtable_connect` in the watcher takes `strtok` away from a command, or the other
way round (`"strtok"` in `SentAsTyped`), and either thread may replace the address the
other is about to connect with. An answer to getkeys with keys in it makes
`rtable_get_keys` write past its array (`client_stub.c:282-292`), an answer to
table_print makes `rtable_print` look for a NULL that nobody sends (335): both
may end the client of a user who typed nothing wrong, next to a server that is
well. `EndsOnlyIfDisturbed` names them among the ends it allows. A call to a primary that has left may
spin in `read_all` for ever, or end the process by the NULL that
`network_send_receive` returns, which all functions but `rtable_get_keys`
dereference; hence `gone` in the client's properties. In the server, the threads
of clients that have left may spin in `read_all` with their descriptors; when
these run out, `accept` returns -1 again and again, every time with a new
thread, until `pthread_create` fails and the server ends: `main = "ended"` and
`FreeFds = {}` in `RequestAnswered` are these cases. In the table, a
getkeys during which a key is replaced may return it twice
(`KeysWeaklyConsistent` says so only of keys that stayed), and a del during
getkeys or table_print may end the server (`WalksBreakOnlyIfDisturbed`).

## 5. Proofs

Run `tlapm` on each `*Proofs` module.

* `TableLockProofs`. Inductive invariant: types, exact counters, what is known
  of sleepers, and exclusion with its converse (a list whose counter is 0 has
  nobody in it unless barged). Exclusion alone is not inductive: a thread enters
  because the counter is 0, so the counter has to speak for the threads. Counting
  puts and dels uses cardinalities of sets that lose or gain one thread. Results:
  `TypeCorrectness`, `CountersAreExact`, `ListsAreExclusive`,
  `NoMissedBroadcast`, `ScansStartQuiet`. Assumptions: finitely many threads, at
  least one list.
* `StatsProofs`. Nothing of the lock is used, because it protects nothing: the
  invariant bounds each counter, each local copy and each copy of the counters
  held by `update_stats` by the number of counts stored, from below by one as
  soon as one is stored. Results: `TypeCorrectness`, `CountsAreBounded`,
  `DivisorsArePositive`.
* `StatsLockProofs` (extends `StatsProofs`). `ExclusionHolds`: until `raced`,
  writers are alone and the counters of the lock are exact. Between its lock and
  its unlock a thread holds the mutex and nobody has unlocked it since
  (`MutexHeld`); with that, what it has loaded from a counter (`LoadsFresh`) and
  what it has tested on its way in (`TestsFresh`) are still true when it stores.
  None of the three is inductive without the others, and all of them are given
  up at once when a thread intrudes. Assumption: finitely many threads.
* `TableProofs`. Lemmas say what `list_add` and `list_remove` do to the keys and
  values of a list and that both keep it well formed; from them every action
  keeps the lists well formed and maps to an action or a stutter of `KVMap`.
  Well-formed lists are needed for refinement: with a key twice in a list, a del
  would uncover the older entry. So is what is known of a put between its two
  steps (an entry in `putting` has its list's hash and its key is not in the
  list): then `PutRemove` is the put of the map and `PutAdd` a stutter. A clash
  leaves a list in which no key is twice or from another list (`ClashLeaves`),
  and changes the data of its own keys, which are `doubtful` from then on.
  Results: `WellFormedness`, `Refinement`.

  The walks come after it (`WalkInvariance`). That table_get_keys, undisturbed,
  lists every key once (`AllKeysEnumerate`) is an induction over the lists, made
  with sets of numbers (`UpTo`: the smallest counterexample), because the
  induction theorem of the library takes an operator. For the copying of getkeys
  the invariant says that of the keys that were there all the time exactly those
  *behind* the walk, in an earlier list or at an earlier node of its list, have
  been copied, and once. A write keeps this because `list_add` appends and
  `list_remove` leaves the order of the others (`SameOrder`). `BreakInv` ties
  the sizes table_print has asked for to the size of the table now, as long as
  nothing was taken out (or added), and `Exact` what an undisturbed walk has
  counted to the cardinality of the keys in the lists it has passed. Results:
  `TypeCorrectness`, `WalksAreWeaklyConsistent`, `WalksBreakOnlyWhenDisturbed`,
  `UndisturbedWalksAreExact`. Assumption: `hash` maps keys to lists. (`Clash` is
  a step of all these proofs; what it does to a walk is given up with it.)
* `ReplicationProofs`. The invariant has four parts, each as long-lived as what
  it rests on. `Always`: types, the places of the threads, and that every put or
  del in a list is covered by the counters `comeca` looks at. `StubInv`, until
  two threads are in the stub or a put or del joins a resynchronisation: the
  message and what is on the socket belong to the one thread in the stub, and
  `child_watcher` has the data of the table for the key it puts. `DataInv`, until
  a put or del barges into a list too: what the backup has of a key is what the
  primary has, or what the thread writing that key has sent, or the key is one
  the resynchronisation has still to put. `InStep` alone is not inductive: it
  says nothing of a backup that is still being filled. `CalmInv`, until a crash
  or a race: there is one backup, it is up and it answers, so that the exits of
  the watcher are not taken. The refinement of `ReplicatedMap` follows step by
  step: a step of the primary's threads is a `Commit` (`Apply`), a `Pair` (the
  last step of the resynchronisation), an `End` or a stutter; the backup's
  serving is a `Store` or a `CatchUp`, or a stutter when it refuses a del or is
  put what it has. That nobody else has a write of the key ahead needs the
  lists, that a write is ahead exactly when the backup has it needs the one
  frame on the socket, and that `Pair` finds the tables equal needs `PutSoFar`.
  Results: `TypeCorrectness`, `ServersInStep`, `StoredFirst`,
  `OnlyTheDisturbedExit`, `Refinement`. Assumptions: finitely many threads and
  keys, `hash` maps keys to lists, the data of a put are not the NULL of no data.
* `ClusterProofs`. Every server is `Sound` by itself: unless it has lost its
  session, it watches only while it holds a node, the child its watcher listed is
  its own node, and if it has `isprimary` it holds `/kvstore/primary`; the nodes
  it holds have its address. `PrimaryHoldsNode` is the last part only; that a
  promoted backup gets there needs the others, as `child_watcher` copies the
  address of the one child it has listed. A step of a server leaves the others
  sound because nobody deletes the node of another. All of it is given up when
  a server without a node sets a watch (`stray`). Results: `TypeCorrectness`,
  `PrimaryHoldsItsNode`, `AtMostOnePrimary` (its corollary),
  `PrimaryAddressIsOwners`. Assumption: the value for "no node" is not a node.
* `ClientProofs`. Four parts. `Always`: types, the labels of each thread, that
  a socket in use was connected, and `MadeBounded`: connections made and still
  to be made are at most one more than the changes there were. Hence there is
  always a connection to make and a descriptor for it, which the type of `rtable`
  needs. `HostInv`: until a thread replaces the address of the other, a thread
  that is about to connect finds the whole address in `primary_host_ip`, which
  `strtok` splits well only then. `StrtokInv`: the words main has taken and those `strtok` has left are
  the line, until the threads race for `strtok`. `CalmInv`: while every primary
  has stayed and nothing is in `harm`, every rtable's descriptor leads to
  its own server and no call fails. Results: `TypeCorrectness`, `SentIsTyped`,
  `OnlyTheDisturbedEnd`. Assumptions: the bounds are numbers, at least one
  server, no word is an address, and what stands for "no command" and for "no word" is none.
* `ConnectionsProofs`. `OneThreadEach` is not inductive: that a descriptor is
  served once says nothing of the descriptor main has accepted and not yet given
  to a thread. The invariant therefore adds where a connection is on its way
  (`OnItsWay`: between accept and the read of `thread_p`): such a descriptor is
  open and served by nobody, and one thread at most has still to read the
  variable. It also says that requests and answers lie on the connection they
  were made on, which is what a thread's hands are checked against. Types and
  the place of requests hold always, the rest while `harm` is empty and main
  runs. Results: `TypeCorrectness`,
  `ThreadsCorrespond`. Assumptions: the bounds are numbers.

Every safety invariant of the passing runs and both refinements (`KVMap`,
`ReplicatedMap`) are proved. Only model-checked: liveness (`EveryRequestPasses`, `ServedUnlessRaced`,
`AnsweredUnlessStuck`, `BackupPromoted`, `CommandFinishes`, `FollowsPrimary`,
`RequestAnswered`), which rests on fairness and on ENABLED and is out of the
prover's reach.

## 6. Not modelled, and plan

Not modelled: the shutdown of the server and of the table, the memory management
of C (copies, `malloc` that fails; `free` is modelled where somebody else still
holds a pointer: the nodes of a list and the client's rtable), the generated
protocol-buffer code, what the client prints and makes of an answer (but for
the two places where it goes past its end), the checks
of the command lines (`verify_input`), `network_server_init`, and
`serialization.c` (unused). A frame is written and read in one step: two
half-written frames on one socket, and an end of file inside a frame, are not in
the models. What two writers in one list leave of it is nondeterministic (`Clash`),
their answers are left out, and so is the `list_remove` that never ends because
the other one has removed its key: the writers' steps on the nodes of a list are
not modelled one by one. The arithmetic of `hash` (chars below 0) and of `dif` is left open:
`Table` takes `hash` as a constant and `Stats` the sign of the average as any.

Next, in this order:

1. Proofs of what the liveness properties rest on that is an invariant: who
   holds what a waiting thread waits for.
2. `Elapsed`, `Hash`, `Framing`: the arithmetic of `dif`, of `hash` with signed
   characters and of `read_all`/`write_all`, against reference definitions.
