----------------------------- MODULE Connections -----------------------------
(***************************************************************************)
(* The server's connections (source/network_server.c): network_main_loop   *)
(* accepts them, each is served by a thread_sec of its own, and all of     *)
(* them share the process's table of descriptors, whose numbers the kernel *)
(* uses again.  Of a request and of its answer only the connection counts  *)
(* that the request was made on; invoke is in Table and Replication.       *)
(*                                                                         *)
(* A frame is written in one step and read in one, and it can be unpacked. *)
(***************************************************************************)
EXTENDS Naturals, Sequences, FiniteSets

CONSTANTS
  MaxConns,      \* bound: connections that clients make
  MaxFds,        \* the descriptors the process may have
  MaxThreads,    \* the threads the process may make: none is joined
  MaxRequests    \* bound: requests, of all clients

ASSUME ConnectionsAssumption ==
  /\ MaxConns \in Nat
  /\ MaxFds \in Nat \ {0}
  /\ MaxThreads \in Nat \ {0}
  /\ MaxRequests \in Nat

\* The connections, and their clients, in the order in which they are made.
Conns == 1 .. MaxConns
Fds == 1 .. MaxFds
Threads == 1 .. MaxThreads
None == 0             \* no connection
Error == 0            \* what the code has as descriptor -1

VARIABLES
  arrived,   \* connections made
  asked,     \* requests made
  waiting,   \* the client waits for an answer
  left,      \* the clients that have closed their end
  backlog,   \* connections that listen has and accept has not returned
  inbox,     \* requests on the way, by connection
  outbox     \* answers on the way back

VARIABLES
  open,      \* the connection of a descriptor, None if it is free
  main,      \* where network_main_loop is
  param,     \* thread_p.connsockfd, of which each thread is given the address
  threads,   \* threads made
  pc,        \* where a thread is
  conn,      \* thread_sec: conn
  on,        \* the connection that a read waits for
  msg,       \* the request in hand, with the connection it came on
  harm       \* history: "overwritten": param was, before a thread had read it;
             \* "reclosed": a second close met a descriptor in use again

clientVars == <<arrived, asked, waiting, left>>
netVars == <<backlog, inbox, outbox>>
loopVars == <<main, param, threads>>
threadVars == <<pc, conn, on, msg>>
vars == <<clientVars, netVars, open, loopVars, threadVars, harm>>

Init ==
  /\ arrived = 0
  /\ asked = 0
  /\ waiting = {}
  /\ left = {}
  /\ backlog = <<>>
  /\ inbox = [c \in Conns |-> <<>>]
  /\ outbox = [c \in Conns |-> <<>>]
  /\ open = [f \in Fds |-> None]
  /\ main = "accept"
  /\ param = Error
  /\ threads = 0
  /\ pc = [t \in Threads |-> "none"]
  /\ conn = [t \in Threads |-> Error]
  /\ on = [t \in Threads |-> None]
  /\ msg = [t \in Threads |-> None]
  /\ harm = {}

-----------------------------------------------------------------------------
(* Clients.                                                                *)

serverVars == <<open, loopVars, threadVars, harm>>

\* What becomes of the clients of a server that has ended is left out.
Up == main # "ended"

\* c is in a call of the stub: the request is written.
Request(c) ==
  /\ asked < MaxRequests
  /\ asked' = asked + 1
  /\ waiting' = waiting \cup {c}
  /\ inbox' = [inbox EXCEPT ![c] = Append(@, c)]

\* A client connects and makes its first request.
Arrive(c) ==
  /\ Up
  /\ c = arrived + 1
  /\ arrived' = c
  /\ backlog' = Append(backlog, c)
  /\ Request(c)
  /\ UNCHANGED <<left, outbox, serverVars>>

Ask(c) ==
  /\ Up
  /\ c <= arrived
  /\ c \notin left \cup waiting
  /\ Request(c)
  /\ UNCHANGED <<arrived, left, backlog, outbox, serverVars>>

GetAnswer(c) ==
  /\ Up
  /\ c \in waiting
  /\ outbox[c] # <<>>
  /\ outbox' = [outbox EXCEPT ![c] = Tail(@)]
  /\ waiting' = waiting \ {c}
  /\ UNCHANGED <<arrived, asked, left, backlog, inbox, serverVars>>

\* quit, or the end of the client's process, in a call or not.
Leave(c) ==
  /\ Up
  /\ c <= arrived
  /\ c \notin left
  /\ left' = left \cup {c}
  /\ waiting' = waiting \ {c}
  /\ UNCHANGED <<arrived, asked, netVars, serverVars>>

-----------------------------------------------------------------------------
(* network_main_loop.                                                      *)

FreeFds == {f \in Fds : open[f] = None}

\* The kernel gives out the lowest number that is free.
NextFd(f) == f \in FreeFds /\ \A g \in FreeFds : f <= g

\* thread_p is one variable: a thread that has not read it yet sees the new value.
SetParam(f) ==
  /\ param' = f
  /\ harm' = IF \E t \in Threads : pc[t] = "start" THEN harm \cup {"overwritten"} ELSE harm
  /\ main' = "create"

Accept ==
  /\ main = "accept"
  /\ backlog # <<>>
  /\ \E f \in Fds :
       /\ NextFd(f)
       /\ open' = [open EXCEPT ![f] = Head(backlog)]
       /\ SetParam(f)
  /\ backlog' = Tail(backlog)
  /\ UNCHANGED <<clientVars, inbox, outbox, threads, threadVars>>

\* Without a free descriptor accept returns -1, which goes to a thread too.
AcceptFails ==
  /\ main = "accept"
  /\ FreeFds = {}
  /\ SetParam(Error)
  /\ UNCHANGED <<clientVars, netVars, open, threads, threadVars>>

\* A plausible error: what pthread_create returns is not looked at.
CreateThreadAnyway ==
  /\ main = "create"
  /\ threads' = threads + 1
  /\ pc' = [t \in Threads |-> IF t = threads + 1 THEN "start" ELSE pc[t]]
  /\ main' = "accept"
  /\ UNCHANGED <<clientVars, netVars, open, param, conn, on, msg, harm>>

\* pthread_create: when it fails, the loop and then the process end.
CreateThread ==
  /\ main = "create"
  /\ IF threads = MaxThreads
       THEN main' = "ended" /\ UNCHANGED <<threads, pc>>
       ELSE /\ threads' = threads + 1
            /\ pc' = [pc EXCEPT ![threads + 1] = "start"]
            /\ main' = "accept"
  /\ UNCHANGED <<clientVars, netVars, open, param, conn, on, msg, harm>>

MainStep == Accept \/ AcceptFails \/ CreateThread

-----------------------------------------------------------------------------
(* thread_sec.                                                             *)

At(t, label) == main # "ended" /\ pc[t] = label
Goto(t, label) == pc' = [pc EXCEPT ![t] = label]
Open(f) == f # Error /\ open[f] # None
Close(f) == open' = [g \in Fds |-> IF g = f THEN None ELSE open[g]]

\* conn = tp->connsockfd.
ReadParam(t) ==
  /\ At(t, "start")
  /\ conn' = [conn EXCEPT ![t] = param]
  /\ Goto(t, "receive")
  /\ UNCHANGED <<clientVars, netVars, open, loopVars, on, msg, harm>>

\* read, called by read_all: it waits for the connection the descriptor has now.
Receive(t) ==
  /\ At(t, "receive")
  /\ IF Open(conn[t])
       THEN on' = [on EXCEPT ![t] = open[conn[t]]] /\ Goto(t, "blocked")
       ELSE Goto(t, "failed") /\ UNCHANGED on
  /\ UNCHANGED <<clientVars, netVars, open, loopVars, conn, msg, harm>>

TakeRequest(t) ==
  /\ At(t, "blocked")
  /\ inbox[on[t]] # <<>>
  /\ inbox' = [inbox EXCEPT ![on[t]] = Tail(@)]
  /\ msg' = [msg EXCEPT ![t] = Head(inbox[on[t]])]
  /\ on' = [on EXCEPT ![t] = None]
  /\ Goto(t, "send")
  /\ UNCHANGED <<clientVars, backlog, outbox, open, loopVars, conn, harm>>

\* The client has closed its end: read returns 0, and read_all calls it again,
\* or -1.
EndOfStream(t) ==
  /\ At(t, "blocked")
  /\ on[t] \in left
  /\ inbox[on[t]] = <<>>
  /\ on' = [on EXCEPT ![t] = None]
  /\ Goto(t, "receive") \/ Goto(t, "failed")
  /\ UNCHANGED <<clientVars, netVars, open, loopVars, conn, msg, harm>>

\* A plausible error: the parameter is read again.
SocketOfParam(t) == param

\* Where the answer of t is written.
Socket(t) == conn[t]

\* A plausible error: a thread serves one request.
ServeOnce == "done"

\* Where a thread goes on once an answer is sent.
ServeNext == "receive"

\* network_send, after invoke: to a client that has left it may fail or not.
Send(t) ==
  /\ At(t, "send")
  /\ msg' = [msg EXCEPT ![t] = None]
  /\ \/ /\ Open(Socket(t))
        /\ outbox' = [outbox EXCEPT ![open[Socket(t)]] = Append(@, msg[t])]
        /\ Goto(t, ServeNext)
     \/ /\ Open(Socket(t)) => open[Socket(t)] \in left
        /\ Goto(t, "failed")
        /\ UNCHANGED outbox
  /\ UNCHANGED <<clientVars, backlog, inbox, open, loopVars, conn, on, harm>>

\* A plausible error: the thread ends without closing its descriptor.
ForgetsToClose(t) ==
  /\ At(t, "failed")
  /\ Goto(t, "done")
  /\ UNCHANGED <<clientVars, netVars, open, loopVars, conn, on, msg, harm>>

\* network_receive or network_send closes the descriptor ...
CloseOnError(t) ==
  /\ At(t, "failed")
  /\ Close(conn[t])
  /\ Goto(t, "close")
  /\ UNCHANGED <<clientVars, netVars, loopVars, conn, on, msg, harm>>

\* ... and thread_sec does so again before it returns.
CloseAgain(t) ==
  /\ At(t, "close")
  /\ Close(conn[t])
  /\ harm' = IF Open(conn[t]) THEN harm \cup {"reclosed"} ELSE harm
  /\ conn' = [conn EXCEPT ![t] = Error]
  /\ Goto(t, "done")
  /\ UNCHANGED <<clientVars, netVars, loopVars, on, msg>>

ThreadStep(t) ==
  \/ ReadParam(t)
  \/ Receive(t)
  \/ TakeRequest(t)
  \/ EndOfStream(t)
  \/ Send(t)
  \/ CloseOnError(t)
  \/ CloseAgain(t)

Next ==
  \/ MainStep
  \/ \E t \in Threads : ThreadStep(t)
  \/ \E c \in Conns : Arrive(c) \/ Ask(c) \/ GetAnswer(c) \/ Leave(c)

Spec == Init /\ [][Next]_vars

\* The main thread and every thread_sec run, and a client reads what has come.
\* Nobody has to ask, and nobody has to leave.
FairSpec ==
  /\ Spec
  /\ WF_vars(MainStep)
  /\ \A t \in Threads : WF_vars(ThreadStep(t))
  /\ \A c \in Conns : WF_vars(GetAnswer(c))

-----------------------------------------------------------------------------
\* The type invariant.
TypeOK ==
  /\ arrived \in 0 .. MaxConns
  /\ asked \in 0 .. MaxRequests
  /\ waiting \subseteq Conns
  /\ left \subseteq Conns
  /\ backlog \in Seq(Conns)
  /\ inbox \in [Conns -> Seq(Conns)]
  /\ outbox \in [Conns -> Seq(Conns)]
  /\ open \in [Fds -> Conns \cup {None}]
  /\ main \in {"accept", "create", "ended"}
  /\ param \in Fds \cup {Error}
  /\ threads \in 0 .. MaxThreads
  /\ pc \in [Threads -> {"none", "start", "receive", "blocked", "send", "failed",
                         "close", "done"}]
  /\ conn \in [Threads -> Fds \cup {Error}]
  /\ on \in [Threads -> Conns \cup {None}]
  /\ msg \in [Threads -> Conns \cup {None}]
  /\ harm \subseteq {"overwritten", "reclosed"}

\* network_server.c:160, "Enviar a resposta ao cliente": what is sent on a
\* connection answers a request that came on it.
AnswersReachAskers ==
  \A c \in Conns : \A i \in DOMAIN outbox[c] : outbox[c][i] = c

Serves(t, f) == conn[t] = f /\ pc[t] \in {"receive", "blocked", "send", "failed"}
OnItsWay(f) == param = f /\ (main = "create" \/ \E t \in Threads : pc[t] = "start")

\* While the server runs, descriptors and threads correspond as long as main has
\* not overtaken a thread and no second close has hit a new connection: a
\* connection that is open is served by one thread or on its way to one, and its
\* answers are its own.
OneThreadEach ==
  harm = {} /\ main # "ended" =>
    /\ \A f \in Fds : Open(f) =>
         Cardinality({t \in Threads : Serves(t, f)}) = IF OnItsWay(f) THEN 0 ELSE 1
    /\ \A t \in Threads : pc[t] = "blocked" => open[conn[t]] = on[t]
    /\ AnswersReachAskers

\* A client that waits gets an answer or gives up, unless a thread was harmed so,
\* clients that have left have cost the last thread, or the connection has not
\* been accepted and there is no descriptor for it.
RequestAnswered ==
  \A c \in Conns :
    c \in waiting ~> \/ c \notin waiting \/ harm # {} \/ main = "ended"
                     \/ FreeFds = {} /\ \A f \in Fds : open[f] # c

=============================================================================
