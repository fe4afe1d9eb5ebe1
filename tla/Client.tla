-------------------------------- MODULE Client --------------------------------
(***************************************************************************)
(* The client program: its main thread (source/table_client.c) reads       *)
(* commands and makes calls of the stub (source/client_stub.c,             *)
(* source/network_client.c), while ZooKeeper's thread runs                 *)
(* child_watcher_client, which disconnects and reconnects the same rtable. *)
(* Both split strings with strtok, which keeps its place in one static     *)
(* variable of the C library, and both keep the primary's address in the   *)
(* same primary_host_ip.                                                   *)
(*                                                                         *)
(* A frame is written in one step and read in one.  The servers are known  *)
(* by what the client sees of them; they have an address each, a host and  *)
(* a port.  Memory is never short, and the client keeps its own session    *)
(* with ZooKeeper.                                                         *)
(***************************************************************************)
EXTENDS Integers, Sequences, FiniteSets

CONSTANTS
  Words,       \* what a user types after the command
  Commands,    \* the lines the user may type: see ClientAssumption
  Unknown,     \* the op of a line whose first word is no command
  Blank,       \* the op of a line without a word
  Lines,       \* bound: lines typed
  MaxServers,  \* bound: primaries, one after the other
  MaxChanges   \* bound: changes of the children of /kvstore

\* "size" stands for stats too, "get" for del: commands that differ in nothing the
\* client does with them.
Ops == {"size", "get", "put", "getkeys", "table_print", "help", "quit"}
Servers == 1 .. MaxServers

ASSUME ClientAssumption ==
  /\ Commands \subseteq [op : Ops \cup {Unknown, Blank}, args : Seq(Words)]
  /\ Words \cap Servers = {}
  /\ {Unknown, Blank} \cap Ops = {} /\ Unknown # Blank
  /\ Lines \in Nat
  /\ MaxServers \in Nat \ {0}
  /\ MaxChanges \in Nat

\* Every notification leads to one connection, and main makes the first.
Conns == 1 .. (MaxChanges + 1)
Fds == Conns
NULL == 0

VARIABLES
  primary,   \* who holds /kvstore/primary, or NULL
  alive,     \* the servers that run
  watching,  \* the client has a watch on the children of /kvstore
  event,     \* a change is to be told
  inbox,     \* requests on the way to the server of a connection
  outbox     \* and answers on the way back

VARIABLES
  pc,        \* where "main" and "watcher" are
  ended,     \* "no", or how the process ended: "quit", "exit", "crash"
  tok,       \* what strtok has left of the string it was given last
  host,      \* primary_host_ip, by the thread that allocated its buffer
  text,      \* what is in the last buffer of a thread: the words strtok would find
  addr,      \* the server whose host name rtable_connect has found
  rtable,    \* the global rtable, by the connection it was made for
  freed,     \* the rtables whose memory is freed
  server,    \* the server a connection leads to, NULL if not made yet
  fd,        \* rtable->sockfd
  open,      \* the connection of a descriptor, NULL if it is closed
  line,      \* comando
  code,      \* the operation main carries out
  args,      \* its arguments, as strtok returned them
  ptr,       \* the rtable that a call was given
  sock,      \* network_send_receive: socket
  on         \* the connection that read waits for

VARIABLES
  typed,     \* lines typed (bounded by Lines)
  changes,   \* changes of the children (bounded)
  gone,      \* history: the servers that have ended or lost the primary's node
  harm       \* history: "strtok": a thread called it between two calls of the
             \* other; "address": a thread replaced the buffer that the other was
             \* about to connect with; "connect": main connected while the watcher
             \* was at work, or after it had; "keys", "info": a write past the keys,
             \* a read past the lines of an answer

zkVars == <<primary, alive, watching, event>>
wireVars == <<inbox, outbox>>
connVars == <<rtable, freed, server, fd, open>>
lineVars == <<line, code, args, typed>>
callVars == <<sock, on>>
hostVars == <<host, text>>
histVars == <<changes, gone>>
vars == <<zkVars, wireVars, connVars, lineVars, callVars, histVars, pc, ended,
          tok, hostVars, addr, ptr, harm>>

Threads == {"main", "watcher"}
Other(th) == CHOOSE u \in Threads : u # th
Idle == [op |-> Unknown, args |-> <<>>]

\* The words that the code of an operation asks strtok for.
Arity(op) == CASE op = "get" -> 1 [] op = "put" -> 2 [] OTHER -> 0

WellTyped(cmd) == cmd.op \in Ops /\ Len(cmd.args) >= Arity(cmd.op)

Init ==
  /\ primary \in {NULL, 1}
  /\ alive = Servers
  /\ watching = FALSE
  /\ event = FALSE
  /\ inbox = [c \in Conns |-> <<>>]
  /\ outbox = [c \in Conns |-> <<>>]
  /\ pc = [th \in Threads |-> IF th = "main" THEN "watch" ELSE "idle"]
  /\ ended = "no"
  /\ tok = <<>>
  /\ host = "main"    \* NULL, but each thread writes it before it reads it
  /\ text = [th \in Threads |-> <<>>]
  /\ addr = [th \in Threads |-> NULL]
  /\ rtable = NULL
  /\ freed = {}
  /\ server = [c \in Conns |-> NULL]
  /\ fd = [c \in Conns |-> NULL]
  /\ open = [f \in Fds |-> NULL]
  /\ line = Idle
  /\ code = Unknown
  /\ args = <<>>
  /\ ptr = [th \in Threads |-> NULL]
  /\ sock = NULL
  /\ on = NULL
  /\ typed = 0
  /\ changes = 0
  /\ gone = {}
  /\ harm = {}

-----------------------------------------------------------------------------
(* ZooKeeper and the servers.                                              *)

\* A change of the children uses up the watch.
Tell ==
  /\ changes < MaxChanges
  /\ changes' = changes + 1
  /\ event' = (event \/ watching)
  /\ watching' = FALSE

clientVars == <<connVars, lineVars, callVars, hostVars, pc, ended, tok, addr, ptr, harm>>

\* A backup comes or goes.
BackupChanges ==
  /\ Tell
  /\ UNCHANGED <<primary, alive, gone, wireVars, clientVars>>

\* The primary's session expires, whether its process has ended or not.
PrimaryExpires ==
  /\ primary # NULL
  /\ Tell
  /\ primary' = NULL
  /\ gone' = gone \cup {primary}
  /\ UNCHANGED <<alive, wireVars, clientVars>>

\* The next server creates /kvstore/primary; none does so twice.
PrimaryAppears(s) ==
  /\ primary = NULL
  /\ s \notin gone
  /\ 1 .. (s - 1) \subseteq gone
  /\ Tell
  /\ primary' = s
  /\ UNCHANGED <<alive, gone, wireVars, clientVars>>

ServerDies(s) ==
  /\ s \in alive
  /\ s \in gone \cup {primary}
  /\ alive' = alive \ {s}
  /\ gone' = gone \cup {s}
  /\ UNCHANGED <<primary, watching, event, changes, wireVars, clientVars>>

\* thread_sec of the server.
Serve(c) ==
  /\ server[c] \in alive
  /\ inbox[c] # <<>>
  /\ inbox' = [inbox EXCEPT ![c] = Tail(@)]
  /\ outbox' = [outbox EXCEPT ![c] = Append(@, Head(inbox[c]))]
  /\ UNCHANGED <<zkVars, histVars, clientVars>>

-----------------------------------------------------------------------------
At(th, label) == ended = "no" /\ pc[th] = label
Goto(th, label) == pc' = [pc EXCEPT ![th] = label]
End(how) == ended' = how

(* Looking for the primary and rtable_connect: done by main at the start   *)
(* and by child_watcher_client.                                            *)

\* zoo_wget_children in main.
SetWatch ==
  /\ At("main", "watch")
  /\ watching' = TRUE
  /\ Goto("main", "exists")
  /\ UNCHANGED <<primary, alive, event, wireVars, connVars, lineVars, callVars>>
  /\ UNCHANGED <<histVars, ended, tok, hostVars, addr, ptr, harm>>

\* A plausible error: the watcher reads the children without a new watch.
NotifiedOnce ==
  /\ At("watcher", "idle")
  /\ event
  /\ event' = FALSE
  /\ Goto("watcher", "exists")
  /\ UNCHANGED <<primary, alive, watching, wireVars, connVars, lineVars, callVars>>
  /\ UNCHANGED <<histVars, ended, tok, hostVars, addr, ptr, harm>>

\* zoo_wget_children in the watcher.
Notified ==
  /\ At("watcher", "idle")
  /\ event
  /\ event' = FALSE
  /\ watching' = TRUE
  /\ Goto("watcher", "exists")
  /\ UNCHANGED <<primary, alive, wireVars, connVars, lineVars, callVars>>
  /\ UNCHANGED <<histVars, ended, tok, hostVars, addr, ptr, harm>>

\* zoo_exists: without a primary, main returns and the watcher disconnects.
LookForPrimary(th) ==
  /\ At(th, "exists")
  /\ IF primary = NULL /\ th = "main"
       THEN End("quit") /\ UNCHANGED pc
       ELSE Goto(th, IF primary = NULL THEN "close" ELSE "get") /\ UNCHANGED ended
  /\ UNCHANGED <<zkVars, wireVars, connVars, lineVars, callVars>>
  /\ UNCHANGED <<histVars, tok, hostVars, addr, ptr, harm>>

\* primary_host_ip = malloc(size), which is all zeros, and the call of zoo_get.
AllocateHost(th) ==
  /\ At(th, "get")
  /\ host' = th
  /\ text' = [text EXCEPT ![th] = <<>>]
  /\ harm' = harm \cup {h \in {"address"} : pc[Other(th)] \in {"fill", "host"}}
  /\ Goto(th, "fill")
  /\ UNCHANGED <<zkVars, wireVars, connVars, lineVars, callVars>>
  /\ UNCHANGED <<histVars, ended, tok, addr, ptr>>

\* zoo_get returns: "host:port" is in the buffer it was given.
GetPrimary(th) ==
  /\ At(th, "fill")
  /\ IF primary = NULL
       THEN End("exit") /\ UNCHANGED <<pc, text>>
       ELSE /\ text' = [text EXCEPT ![th] = <<primary, primary>>]
            /\ Goto(th, "host")
            /\ UNCHANGED ended
  /\ UNCHANGED <<zkVars, wireVars, connVars, lineVars, callVars>>
  /\ UNCHANGED <<histVars, tok, host, addr, ptr, harm>>

\* A call of strtok by th, while the other thread expects to find its own string.
Splitting(th) == pc[th] \in {"port", "arg"}
Strtok(th, rest) ==
  /\ tok' = rest
  /\ harm' = IF Splitting(Other(th)) THEN harm \cup {"strtok"} ELSE harm

\* rtable_connect(primary_host_ip): strtok(address_port, ":") cuts the buffer off
\* after its first word; of an empty one it returns NULL, and strlen takes it.
SplitHost(th) ==
  /\ At(th, "host")
  /\ Strtok(th, IF text[host] = <<>> THEN <<>> ELSE Tail(text[host]))
  /\ IF text[host] = <<>>
       THEN End("crash") /\ UNCHANGED <<pc, text, addr>>
       ELSE /\ addr' = [addr EXCEPT ![th] = Head(text[host])]
            /\ text' = [text EXCEPT ![host] = <<Head(@)>>]
            /\ Goto(th, "port")
            /\ UNCHANGED ended
  /\ UNCHANGED <<zkVars, wireVars, connVars, lineVars, callVars>>
  /\ UNCHANGED <<histVars, host, ptr>>

\* strtok(NULL, ":") takes all that is left; nobody listens on a port that is
\* not this server's.
SplitPort(th) ==
  /\ At(th, "port")
  /\ Strtok(th, <<>>)
  /\ IF tok = <<addr[th]>>
       THEN Goto(th, "connect") /\ UNCHANGED ended
       ELSE End(IF tok = <<>> THEN "crash" ELSE "exit") /\ UNCHANGED pc
  /\ UNCHANGED <<zkVars, wireVars, connVars, lineVars, callVars>>
  /\ UNCHANGED <<histVars, hostVars, addr, ptr>>

\* The lowest number that is free, as the kernel gives it out.
FreeFd == CHOOSE f \in Fds : open[f] = NULL /\ \A g \in 1 .. (f - 1) : open[g] # NULL

\* The connection c, made with the descriptor f, becomes the global rtable.
Connected(th, c, f, others) ==
  /\ server' = [server EXCEPT ![c] = addr[th]]
  /\ fd' = [fd EXCEPT ![c] = f]
  /\ open' = [others EXCEPT ![f] = c]
  /\ rtable' = c
  /\ harm' = harm \cup
       {r \in {"connect"} : th = "main" /\ (rtable # NULL \/ pc["watcher"] # "idle")}
  /\ addr' = [addr EXCEPT ![th] = NULL]
  /\ Goto(th, IF th = "main" THEN "prompt" ELSE "idle")

NewConn == CHOOSE c \in Conns : server[c] = NULL

\* A plausible error: the descriptor of the rtable that is replaced is closed.
ReplaceAndClose(th) ==
  /\ At(th, "connect")
  /\ addr[th] \in alive
  /\ Connected(th, NewConn, FreeFd,
               [f \in Fds |-> IF rtable # NULL /\ f = fd[rtable] THEN NULL ELSE open[f]])
  /\ UNCHANGED <<zkVars, wireVars, lineVars, callVars, histVars, hostVars, ended, tok, ptr, freed>>

\* network_connect succeeds; what the rtable had before is left as it is.
Connect(th) ==
  /\ At(th, "connect")
  /\ addr[th] \in alive
  /\ Connected(th, NewConn, FreeFd, open)
  /\ UNCHANGED <<zkVars, wireVars, lineVars, callVars, histVars, hostVars, ended, tok, ptr, freed>>

\* Nobody listens: main returns and the watcher calls exit.
ConnectionRefused(th) ==
  /\ At(th, "connect")
  /\ addr[th] \notin alive
  /\ End("exit")
  /\ UNCHANGED <<zkVars, wireVars, connVars, lineVars, callVars, histVars, pc, tok, hostVars, addr, ptr, harm>>

\* sockfd of an rtable; of one that is freed, what is in the memory now: the
\* old number, the number of an rtable that has got the memory, or garbage.
Sockfds(c) == IF c \in freed THEN {fd[c], fd[rtable], NULL} ELSE {fd[c]}
Open(f) == f # NULL /\ open[f] # NULL
Close(f) == open' = [g \in Fds |-> IF g = f THEN NULL ELSE open[g]]

\* rtable_disconnect in the watcher: network_close, which may fail, ...
Disconnect ==
  /\ At("watcher", "close")
  /\ ptr' = [ptr EXCEPT !["watcher"] = rtable]
  /\ IF rtable = NULL
       THEN Goto("watcher", "idle") /\ UNCHANGED open
       ELSE \E f \in Sockfds(rtable) :
              /\ Close(f)
              /\ Goto("watcher", IF Open(f) THEN "free" ELSE "idle")
  /\ UNCHANGED <<zkVars, wireVars, lineVars, callVars, histVars, ended, tok, hostVars, addr, harm>>
  /\ UNCHANGED <<rtable, freed, server, fd>>

\* ... then free.  Memory that is freed twice ends the process.
FreeRtable ==
  /\ At("watcher", "free")
  /\ IF ptr["watcher"] \in freed
       THEN End("crash") /\ UNCHANGED <<pc, freed>>
       ELSE /\ freed' = freed \cup {ptr["watcher"]}
            /\ Goto("watcher", "idle")
            /\ UNCHANGED ended
  /\ UNCHANGED <<zkVars, wireVars, lineVars, callVars, histVars, tok, hostVars, addr, ptr, harm>>
  /\ UNCHANGED <<rtable, server, fd, open>>

-----------------------------------------------------------------------------
(* main: commands.                                                         *)

ReadLine(cmd) ==
  /\ At("main", "prompt")
  /\ typed < Lines
  /\ typed' = typed + 1
  /\ line' = cmd
  /\ args' = <<>>
  /\ Goto("main", "code")
  /\ UNCHANGED <<zkVars, wireVars, connVars, callVars, histVars, code, ended, tok, hostVars, addr, ptr, harm>>

\* At the end of the input fgets leaves comando as the last command left it: cut
\* after its first word if strtok has been used on it.
InputEnds ==
  /\ At("main", "prompt")
  /\ 0 < typed /\ typed < Lines
  /\ typed' = typed + 1
  /\ line' = IF args = <<>> THEN line ELSE [line EXCEPT !.args = <<>>]
  /\ args' = <<>>
  /\ Goto("main", "code")
  /\ UNCHANGED <<zkVars, wireVars, connVars, callVars, histVars, code, ended, tok, hostVars, addr, ptr, harm>>

\* get_code: strtok of a copy of the line.  Of a word that is no command it
\* returns a variable it has not written.
GetCode ==
  /\ At("main", "code")
  /\ line.op # Blank
  /\ Strtok("main", line.args)
  /\ code' \in IF line.op = Unknown THEN Ops \cup {Unknown} ELSE {line.op}
  /\ Goto("main", CASE code' \in {Unknown, "help"} -> "prompt"
                    [] code' = "quit"    -> "quit"
                    [] Arity(code') > 0  -> "split"
                    [] OTHER             -> "call")
  /\ UNCHANGED <<zkVars, wireVars, connVars, callVars, histVars, line, args, typed>>
  /\ UNCHANGED <<ended, hostVars, addr, ptr>>

\* Of a line without a word strtok returns NULL, and strcmp takes it.
GetCodeOfBlank ==
  /\ At("main", "code")
  /\ line.op = Blank
  /\ Strtok("main", <<>>)
  /\ End("crash")
  /\ UNCHANGED <<zkVars, wireVars, connVars, lineVars, callVars, histVars, hostVars, pc, addr, ptr>>

\* strtok(comando, " ").
Split ==
  /\ At("main", "split")
  /\ Strtok("main", line.args)
  /\ Goto("main", "arg")
  /\ UNCHANGED <<zkVars, wireVars, connVars, lineVars, callVars, histVars, ended, hostVars, addr, ptr>>

\* A plausible error: the last word is taken for the first.
TakeArgSwapped ==
  /\ At("main", "arg")
  /\ IF tok = <<>>
       THEN End("crash") /\ UNCHANGED <<pc, tok, args, harm>>
       ELSE /\ Strtok("main", Tail(tok))
            /\ args' = <<Head(tok)>> \o args
            /\ Goto("main", IF Len(args') = Arity(code) THEN "call" ELSE "arg")
            /\ UNCHANGED ended
  /\ UNCHANGED <<zkVars, wireVars, connVars, callVars, histVars, line, code, typed, hostVars, addr, ptr>>

\* strtok(NULL, " "), and strdup of what it returns.
TakeArg ==
  /\ At("main", "arg")
  /\ IF tok = <<>>
       THEN End("crash") /\ UNCHANGED <<pc, tok, args, harm>>
       ELSE /\ Strtok("main", Tail(tok))
            /\ args' = Append(args, Head(tok))
            /\ Goto("main", IF Len(args') = Arity(code) THEN "call" ELSE "arg")
            /\ UNCHANGED ended
  /\ UNCHANGED <<zkVars, wireVars, connVars, callVars, histVars, line, code, typed, hostVars, addr, ptr>>

\* rtable_disconnect and return; of an rtable that is freed, it frees the memory
\* again if its number is open.
Quit ==
  /\ At("main", "quit")
  /\ \E f \in Sockfds(rtable) :
       End(IF rtable \in freed /\ Open(f) THEN "crash" ELSE "quit")
  /\ UNCHANGED <<zkVars, wireVars, connVars, lineVars, callVars, histVars, pc, tok, hostVars, addr, ptr, harm>>

(* main: a call of the stub.                                               *)

\* The call gets the value of rtable; the message is filled.
Call ==
  /\ At("main", "call")
  /\ ptr' = [ptr EXCEPT !["main"] = rtable]
  /\ Goto("main", "write")
  /\ UNCHANGED <<zkVars, wireVars, connVars, lineVars, callVars, histVars, ended, tok, hostVars, addr, harm>>

\* A plausible error: after the length, the message is not written.
WriteLength ==
  /\ At("main", "write")
  /\ \E f \in Sockfds(ptr["main"]) :
       /\ sock' = f
       /\ Goto("main", IF Open(f) THEN "read" ELSE "failed")
  /\ UNCHANGED <<zkVars, wireVars, connVars, lineVars, on, histVars, ended, tok, hostVars, addr, ptr, harm>>

\* network_send_receive: socket = rtable->sockfd, write_all.
Write ==
  /\ At("main", "write")
  /\ \E f \in Sockfds(ptr["main"]) :
       /\ sock' = f
       /\ IF Open(f) /\ server[open[f]] \in alive
            THEN /\ inbox' = [inbox EXCEPT ![open[f]] = Append(@, [op |-> code, args |-> args])]
                 /\ Goto("main", "read")
            ELSE /\ UNCHANGED inbox
                 /\ \/ Goto("main", "failed")
                    \/ Open(f) /\ Goto("main", "read")
  /\ UNCHANGED <<zkVars, outbox, connVars, lineVars, on, histVars, ended, tok, hostVars, addr, ptr, harm>>

\* read_all: read waits for the connection the descriptor has now.
Read ==
  /\ At("main", "read")
  /\ IF Open(sock)
       THEN on' = open[sock] /\ Goto("main", "blocked")
       ELSE Goto("main", "failed") /\ UNCHANGED on
  /\ UNCHANGED <<zkVars, wireVars, connVars, lineVars, sock, histVars, ended, tok, hostVars, addr, ptr, harm>>

\* A plausible error: the socket of no call is -1.
ReturnMinusOne ==
  /\ Goto("main", "prompt")
  /\ ptr' = [ptr EXCEPT !["main"] = NULL]
  /\ sock' = -1
  /\ on' = NULL

\* A call returns, and its local variables are gone.
Return ==
  /\ Goto("main", "prompt")
  /\ ptr' = [ptr EXCEPT !["main"] = NULL]
  /\ sock' = NULL
  /\ on' = NULL

\* The answer is used.  After the last key, if there is one, rtable_get_keys writes
\* a NULL past its array, which may hit something (HeapBreaks) or not.
TakeAnswer ==
  /\ At("main", "blocked")
  /\ outbox[on] # <<>>
  /\ outbox' = [outbox EXCEPT ![on] = Tail(@)]
  /\ \/ UNCHANGED harm
     \/ code = "getkeys" /\ harm' = harm \cup {"keys"}
  /\ Return
  /\ UNCHANGED <<zkVars, inbox, connVars, lineVars, histVars, hostVars, ended, tok, addr>>

\* rtable_print reads info up to a NULL that no answer has, and what stands there
\* first is no string.
PrintOverruns ==
  /\ At("main", "blocked")
  /\ outbox[on] # <<>>
  /\ code = "table_print"
  /\ outbox' = [outbox EXCEPT ![on] = Tail(@)]
  /\ harm' = harm \cup {"info"}
  /\ End("crash")
  /\ UNCHANGED <<zkVars, inbox, connVars, lineVars, callVars, histVars, hostVars, pc, tok, addr, ptr>>

\* malloc or free of either thread finds what the NULL has overwritten.
HeapBreaks ==
  /\ ended = "no"
  /\ "keys" \in harm
  /\ End("crash")
  /\ UNCHANGED <<zkVars, wireVars, connVars, lineVars, callVars, histVars, hostVars, pc, tok>>
  /\ UNCHANGED <<addr, ptr, harm>>

\* Without a server, read returns 0, and read_all calls it again, or -1.
EndOfFile ==
  /\ At("main", "blocked")
  /\ outbox[on] = <<>>
  /\ server[on] \notin alive
  /\ \/ Goto("main", "read")
     \/ Goto("main", "failed")
  /\ UNCHANGED <<zkVars, wireVars, connVars, lineVars, callVars, histVars, ended, tok, hostVars, addr, ptr, harm>>

\* close(socket), return NULL: rtable_get_keys returns NULL ("Tabela vazia"),
\* the other functions use the answer.
Fail ==
  /\ At("main", "failed")
  /\ Close(sock)
  /\ IF code = "getkeys"
       THEN Return /\ UNCHANGED ended
       ELSE End("crash") /\ UNCHANGED <<pc, ptr, callVars>>
  /\ UNCHANGED <<zkVars, wireVars, lineVars, histVars, tok, hostVars, addr, harm>>
  /\ UNCHANGED <<rtable, freed, server, fd>>

ConnectStep(th) ==
  \/ LookForPrimary(th)
  \/ AllocateHost(th)
  \/ GetPrimary(th)
  \/ SplitHost(th)
  \/ SplitPort(th)
  \/ Connect(th)
  \/ ConnectionRefused(th)

MainStep ==
  \/ SetWatch
  \/ ConnectStep("main")
  \/ GetCode
  \/ GetCodeOfBlank
  \/ Split
  \/ TakeArg
  \/ Quit
  \/ Call
  \/ Write
  \/ Read
  \/ TakeAnswer
  \/ PrintOverruns
  \/ EndOfFile
  \/ Fail

WatcherStep ==
  \/ Notified
  \/ ConnectStep("watcher")
  \/ Disconnect
  \/ FreeRtable

Next ==
  \/ BackupChanges
  \/ PrimaryExpires
  \/ \E s \in Servers : PrimaryAppears(s) \/ ServerDies(s)
  \/ \E c \in Conns : Serve(c)
  \/ \E cmd \in Commands : ReadLine(cmd)
  \/ InputEnds
  \/ HeapBreaks
  \/ MainStep
  \/ WatcherStep

Spec == Init /\ [][Next]_vars

\* Both threads run, and servers that run answer.  Nothing makes a user type,
\* a server end or a node come and go.
FairSpec ==
  /\ Spec
  /\ WF_vars(MainStep)
  /\ WF_vars(WatcherStep)
  /\ \A c \in Conns : WF_vars(Serve(c))

-----------------------------------------------------------------------------
Requests == [op : Ops, args : Seq(Words \cup Servers)]

\* The type invariant.
TypeOK ==
  /\ primary \in Servers \cup {NULL}
  /\ alive \subseteq Servers
  /\ watching \in BOOLEAN
  /\ event \in BOOLEAN
  /\ inbox \in [Conns -> Seq(Requests)]
  /\ outbox \in [Conns -> Seq(Requests)]
  /\ pc \in [Threads -> {"watch", "exists", "get", "fill", "host", "port", "connect",
               "prompt", "code", "split", "arg", "quit", "call", "write", "read",
               "blocked", "failed", "idle", "close", "free"}]
  /\ ended \in {"no", "quit", "exit", "crash"}
  /\ tok \in Seq(Words \cup Servers)
  /\ host \in Threads
  /\ text \in [Threads -> Seq(Servers)]
  /\ addr \in [Threads -> Servers \cup {NULL}]
  /\ rtable \in Conns \cup {NULL}
  /\ freed \subseteq Conns
  /\ server \in [Conns -> Servers \cup {NULL}]
  /\ fd \in [Conns -> Fds \cup {NULL}]
  /\ open \in [Fds -> Conns \cup {NULL}]
  /\ line \in [op : Ops \cup {Unknown, Blank}, args : Seq(Words)]
  /\ code \in Ops \cup {Unknown}
  /\ args \in Seq(Words \cup Servers)
  /\ ptr \in [Threads -> Conns \cup {NULL}]
  /\ sock \in Fds \cup {NULL}
  /\ on \in Conns \cup {NULL}
  /\ gone \subseteq Servers

\* The threads share rtable, its descriptor, primary_host_ip and strtok.  As long
\* as no primary has left, the threads have not raced for strtok, the address or
\* the first connection, the line is a command with its arguments, and the answer
\* of a getkeys or a table_print has not been overrun (the NULL of rtable_get_keys,
\* the loop of rtable_print), nothing ends the process but quit: the watcher's
\* reconnections (a backup came or went) do not disturb a call that main is in.
EndsOnlyIfDisturbed ==
  ended \in {"exit", "crash"} => gone # {} \/ harm # {} \/ ~WellTyped(line)

\* rtable_* returns, even when the watcher has replaced rtable during the call,
\* unless the process ends, the server the call goes to has left or the threads
\* raced for the first connection.
CommandFinishes ==
  pc["main"] = "call" ~>
    \/ pc["main"] = "prompt" \/ ended # "no"
    \/ ptr["main"] # NULL /\ server[ptr["main"]] \in gone
    \/ "connect" \in harm

\* Once primaries stop changing, rtable leads to the one there is, unless the
\* process has ended or the threads raced for the first connection.
FollowsPrimary ==
  <>[](\/ ended # "no" \/ "connect" \in harm
       \/ primary = NULL
       \/ rtable # NULL /\ server[rtable] = primary)

\* What main sends is what was typed, unless both threads were in strtok at once
\* (get_code, the commands and rtable_connect split strings with it).
SentAsTyped ==
  pc["main"] = "write" /\ WellTyped(line) /\ "strtok" \notin harm =>
    code = line.op /\ args = SubSeq(line.args, 1, Arity(code))

=============================================================================
