--------------------------- MODULE ConnectionsProofs ---------------------------
(***************************************************************************)
(* As long as main has not overtaken a thread and no second close has hit  *)
(* a new connection, connections and threads of the server correspond, for *)
(* any number of connections, descriptors, threads and requests.           *)
(***************************************************************************)
EXTENDS Connections, FiniteSetTheorems, SequenceTheorems, TLAPS

\* What a thread reads from and what it has in hand are connections.
HandsOK ==
  /\ \A t \in Threads : pc[t] = "blocked" => on[t] \in Conns
  /\ \A t \in Threads : pc[t] = "send" => msg[t] \in Conns

Serving(t) == pc[t] \in {"receive", "blocked", "send", "failed"}

\* A request lies on the connection it was made on.
RequestsOwn == \A c \in Conns : \A i \in DOMAIN inbox[c] : inbox[c][i] = c

\* Threads that are not made yet.
ThreadsMade == \A t \in Threads : t > threads => pc[t] = "none"

ServedOpen ==
  \A t \in Threads : Serving(t) /\ conn[t] # Error => open[conn[t]] # None

ServedOnce ==
  \A t, u \in Threads :
    Serving(t) /\ Serving(u) /\ conn[t] = conn[u] /\ conn[t] # Error => t = u

OnItsWayUnserved ==
  \A t \in Threads : Serving(t) /\ conn[t] # Error => ~OnItsWay(conn[t])

OnItsWayOpen == param # Error /\ OnItsWay(param) => open[param] # None

NoStartAtCreate == main = "create" => \A t \in Threads : pc[t] # "start"

OneStart ==
  \A t, u \in Threads : pc[t] = "start" /\ pc[u] = "start" => t = u

OpenServed ==
  \A f \in Fds : open[f] # None => OnItsWay(f) \/ \E t \in Threads : Serves(t, f)

ReadsOwn ==
  \A t \in Threads : pc[t] = "blocked" => conn[t] # Error /\ open[conn[t]] = on[t]

AnswersOwn ==
  \A t \in Threads : pc[t] = "send" => conn[t] # Error /\ open[conn[t]] = msg[t]

Correspondence ==
  /\ ServedOpen
  /\ ServedOnce
  /\ OnItsWayUnserved
  /\ OnItsWayOpen
  /\ NoStartAtCreate
  /\ OneStart
  /\ OpenServed
  /\ ReadsOwn
  /\ AnswersOwn
  /\ AnswersReachAskers

Unharmed == harm = {} /\ main # "ended"

TypeInv == TypeOK /\ HandsOK

IInv == TypeInv /\ RequestsOwn /\ ThreadsMade /\ (Unharmed => Correspondence)

-----------------------------------------------------------------------------
(* Facts about the operators.                                              *)

\* None and Error are no connection and no descriptor.
LEMMA Zero ==
  /\ None \notin Conns
  /\ Error \notin Fds
BY ConnectionsAssumption DEF None, Error, Conns, Fds

\* A close leaves the table of descriptors typed, and a number that is not open
\* leaves it as it is.
LEMMA Closed ==
  ASSUME NEW f, Close(f), open \in [Fds -> Conns \cup {None}]
  PROVE  /\ open' \in [Fds -> Conns \cup {None}]
         /\ \A g \in Fds : g # f => open'[g] = open[g]
         /\ f \in Fds => open'[f] = None
         /\ f \in Fds \cup {Error} /\ ~Open(f) => open' = open
<1>1. /\ open' = [g \in Fds |-> IF g = f THEN None ELSE open[g]]
      /\ open = [g \in Fds |-> open[g]]
  BY DEF Close
<1>2. ASSUME f \in Fds \cup {Error}, ~Open(f)
      PROVE  \A g \in Fds : open'[g] = open[g]
  BY <1>1, <1>2, Zero DEF Open
<1>3. f \in Fds \cup {Error} /\ ~Open(f) => open' = open
  BY <1>1, <1>2
<1>. QED
  BY <1>1, <1>3

\* In a sequence whose elements are all c, so are the first and the others.
LEMMA HeadTailOf ==
  ASSUME NEW S, NEW s \in Seq(S), s # <<>>, NEW c, \A i \in DOMAIN s : s[i] = c
  PROVE  /\ Head(s) = c
         /\ \A i \in DOMAIN Tail(s) : Tail(s)[i] = c
<1>1. /\ Len(s) \in Nat /\ Len(s) # 0
      /\ DOMAIN s = 1 .. Len(s)
  BY EmptySeq, LenProperties
<1>2. /\ Head(s) = s[1]
      /\ DOMAIN Tail(s) = 1 .. (Len(s) - 1)
      /\ \A i \in 1 .. (Len(s) - 1) : Tail(s)[i] = s[i + 1]
  BY <1>1, HeadTailProperties, LenProperties
<1>. QED
  BY <1>1, <1>2

\* And another c at its end makes no difference.
LEMMA AppendOf ==
  ASSUME NEW S, NEW s \in Seq(S), NEW c \in S, \A i \in DOMAIN s : s[i] = c
  PROVE  \A i \in DOMAIN Append(s, c) : Append(s, c)[i] = c
<1>1. /\ Len(s) \in Nat
      /\ DOMAIN s = 1 .. Len(s)
      /\ DOMAIN Append(s, c) = 1 .. (Len(s) + 1)
      /\ \A i \in 1 .. Len(s) : Append(s, c)[i] = s[i]
      /\ Append(s, c)[Len(s) + 1] = c
  BY AppendProperties, LenProperties
<1>. QED
  BY <1>1

-----------------------------------------------------------------------------
(* Types.                                                                  *)

clientTypes ==
  /\ arrived \in 0 .. MaxConns
  /\ asked \in 0 .. MaxRequests
  /\ waiting \subseteq Conns
  /\ left \subseteq Conns

\* The actions of clients keep the types.
LEMMA ClientTypes ==
  ASSUME TypeInv, NEW c \in Conns, Arrive(c) \/ Ask(c) \/ GetAnswer(c) \/ Leave(c)
  PROVE  TypeInv'
<1>. USE DEF clientTypes
<1>1. /\ UNCHANGED <<open, loopVars, threadVars, harm>>
  BY DEF Arrive, Ask, GetAnswer, Leave, serverVars
<1>2. /\ clientTypes'
      /\ backlog' \in Seq(Conns)
      /\ inbox' \in [Conns -> Seq(Conns)]
      /\ outbox' \in [Conns -> Seq(Conns)]
  <2>1. CASE Arrive(c)
    BY <2>1, ConnectionsAssumption, AppendProperties
       DEF TypeInv, TypeOK, Arrive, Request, Conns
  <2>2. CASE Ask(c)
    BY <2>2, ConnectionsAssumption, AppendProperties
       DEF TypeInv, TypeOK, Ask, Request, Conns
  <2>3. CASE GetAnswer(c)
    BY <2>3, HeadTailProperties DEF TypeInv, TypeOK, GetAnswer
  <2>4. CASE Leave(c)
    BY <2>4 DEF TypeInv, TypeOK, Leave, netVars
  <2>. QED
    BY <2>1, <2>2, <2>3, <2>4
<1>. QED
  BY <1>1, <1>2 DEF TypeInv, TypeOK, HandsOK, loopVars, threadVars

\* The steps of the main thread keep the types.
LEMMA MainTypes ==
  ASSUME TypeInv, MainStep
  PROVE  TypeInv'
<1>. USE DEF TypeInv, TypeOK, HandsOK
<1>1. CASE Accept
  <2>1. Head(backlog) \in Conns /\ Tail(backlog) \in Seq(Conns)
    BY <1>1, HeadTailProperties DEF Accept
  <2>. QED
    BY <1>1, <2>1 DEF Accept, SetParam, clientVars, threadVars
<1>2. CASE AcceptFails
  BY <1>2 DEF AcceptFails, SetParam, clientVars, netVars, threadVars
<1>3. CASE CreateThread
  BY SMTT(30), <1>3, ConnectionsAssumption DEF CreateThread, clientVars, netVars, Threads
<1>. QED
  BY <1>1, <1>2, <1>3 DEF MainStep

\* So do the steps of a thread.
LEMMA ThreadTypes ==
  ASSUME TypeInv, NEW t \in Threads, ThreadStep(t)
  PROVE  TypeInv'
<1>. USE DEF TypeInv, TypeOK, HandsOK, At, Goto, clientVars, netVars, loopVars
<1>1. CASE ReadParam(t)
  BY <1>1 DEF ReadParam
<1>2. CASE Receive(t)
  BY ZenonT(60), <1>2, Zero DEF Receive, Open
<1>3. CASE TakeRequest(t)
  <2>1. /\ Head(inbox[on[t]]) \in Conns
        /\ Tail(inbox[on[t]]) \in Seq(Conns)
    BY <1>3, HeadTailProperties DEF TakeRequest
  <2>. QED
    BY <1>3, <2>1 DEF TakeRequest
<1>4. CASE EndOfStream(t)
  BY <1>4 DEF EndOfStream
<1>5. CASE Send(t)
  <2>1. Open(Socket(t)) => open[Socket(t)] \in Conns
    BY <1>5, Zero DEF Open, Socket
  <2>2. outbox' \in [Conns -> Seq(Conns)]
    <3>1. msg[t] \in Conns
      BY <1>5 DEF Send
    <3>2. ASSUME Open(Socket(t)) PROVE Append(outbox[open[Socket(t)]], msg[t]) \in Seq(Conns)
      BY <2>1, <3>1, <3>2, AppendProperties
    <3>. QED
      BY <1>5, <2>1, <3>2 DEF Send
  <2>3. msg' = [msg EXCEPT ![t] = None] /\ (Goto(t, "receive") \/ Goto(t, "failed"))
    BY <1>5 DEF Send, ServeNext
  <2>4. UNCHANGED <<clientVars, backlog, inbox, open, loopVars, conn, on, harm>>
    BY <1>5 DEF Send
  <2>. QED
    BY <2>2, <2>3, <2>4
<1>6. CASE CloseOnError(t)
  BY <1>6, Closed DEF CloseOnError
<1>7. CASE CloseAgain(t)
  BY <1>7, Closed DEF CloseAgain
<1>. QED
  BY <1>1, <1>2, <1>3, <1>4, <1>5, <1>6, <1>7 DEF ThreadStep

\* The types hold at the start and after every step.
LEMMA Types ==
  /\ Init => TypeInv
  /\ TypeInv /\ [Next]_vars => TypeInv'
<1>1. Init => TypeInv
  BY ConnectionsAssumption DEF Init, TypeInv, TypeOK, HandsOK
<1>2. TypeInv /\ UNCHANGED vars => TypeInv'
  BY DEF TypeInv, TypeOK, HandsOK, vars, clientVars, netVars, loopVars, threadVars
<1>. QED
  BY <1>1, <1>2, ClientTypes, MainTypes, ThreadTypes DEF Next

-----------------------------------------------------------------------------
(* Requests, threads and the history.                                      *)

\* Requests stay on the connections they were made on.
LEMMA RequestsStay ==
  ASSUME TypeInv, RequestsOwn, [Next]_vars
  PROVE  RequestsOwn'
<1>. USE DEF TypeInv, TypeOK
<1>1. CASE UNCHANGED inbox
  BY <1>1 DEF RequestsOwn
<1>2. ASSUME NEW c \in Conns, Request(c)
      PROVE  RequestsOwn'
  <2>1. inbox' = [inbox EXCEPT ![c] = Append(@, c)]
    BY <1>2 DEF Request
  <2>2. \A i \in DOMAIN Append(inbox[c], c) : Append(inbox[c], c)[i] = c
    <3>1. inbox[c] \in Seq(Conns) /\ \A i \in DOMAIN inbox[c] : inbox[c][i] = c
      BY DEF RequestsOwn
    <3>. HIDE DEF TypeInv, TypeOK
    <3>. QED
      BY <3>1, AppendOf
  <2>. QED
    BY <2>1, <2>2 DEF RequestsOwn
<1>3. ASSUME NEW t \in Threads, TakeRequest(t)
      PROVE  RequestsOwn'
  <2>1. /\ on[t] \in Conns
        /\ inbox[on[t]] # <<>>
        /\ inbox' = [inbox EXCEPT ![on[t]] = Tail(@)]
    BY <1>3 DEF TakeRequest, At, HandsOK
  <2>2. \A i \in DOMAIN Tail(inbox[on[t]]) : Tail(inbox[on[t]])[i] = on[t]
    BY <2>1, HeadTailOf DEF RequestsOwn
  <2>. QED
    BY <2>1, <2>2 DEF RequestsOwn
<1>4. UNCHANGED vars => UNCHANGED inbox
  BY DEF vars, netVars
<1>5. MainStep => UNCHANGED inbox
  BY DEF MainStep, Accept, AcceptFails, CreateThread, netVars
<1>6. ASSUME NEW t \in Threads, ThreadStep(t), ~TakeRequest(t)
      PROVE  UNCHANGED inbox
  BY <1>6 DEF ThreadStep, ReadParam, Receive, EndOfStream, Send, CloseOnError,
              CloseAgain, netVars
<1>7. ASSUME NEW c \in Conns, Arrive(c) \/ Ask(c) \/ GetAnswer(c) \/ Leave(c)
      PROVE  UNCHANGED inbox \/ Request(c)
  BY <1>7 DEF Arrive, Ask, GetAnswer, Leave, netVars
<1>. QED
  BY <1>1, <1>2, <1>3, <1>4, <1>5, <1>6, <1>7 DEF Next

\* A thread that is not made does nothing.
LEMMA ThreadsStay ==
  ASSUME TypeInv, ThreadsMade, [Next]_vars
  PROVE  ThreadsMade'
<1>. USE DEF TypeInv, TypeOK
<1>1. CASE UNCHANGED <<pc, threads>>
  BY <1>1 DEF ThreadsMade
<1>2. CASE CreateThread
  BY <1>2, ConnectionsAssumption DEF CreateThread, ThreadsMade, Threads
<1>3. ASSUME NEW t \in Threads, ThreadStep(t)
      PROVE  ThreadsMade'
  <2>1. /\ pc[t] # "none" /\ UNCHANGED threads
        /\ \A u \in Threads : u # t => pc'[u] = pc[u]
    BY <1>3 DEF ThreadStep, ReadParam, Receive, TakeRequest, EndOfStream, Send,
                CloseOnError, CloseAgain, At, Goto, loopVars
  <2>. QED
    BY <2>1 DEF ThreadsMade
<1>4. Accept \/ AcceptFails => UNCHANGED <<pc, threads>>
  BY DEF Accept, AcceptFails, threadVars
<1>5. ASSUME NEW c \in Conns, Arrive(c) \/ Ask(c) \/ GetAnswer(c) \/ Leave(c)
      PROVE  UNCHANGED <<pc, threads>>
  BY <1>5 DEF Arrive, Ask, GetAnswer, Leave, serverVars, threadVars, loopVars
<1>6. UNCHANGED vars => UNCHANGED <<pc, threads>>
  BY DEF vars, threadVars, loopVars
<1>. QED
  BY <1>1, <1>2, <1>3, <1>4, <1>5, <1>6 DEF Next, MainStep

\* What is harmed stays harmed.
LEMMA HarmStays ==
  ASSUME [Next]_vars, Unharmed'
  PROVE  Unharmed
<1>1. CASE UNCHANGED <<harm, main>>
  BY <1>1 DEF Unharmed
<1>2. CASE MainStep
  BY <1>2 DEF Unharmed, MainStep, Accept, AcceptFails, CreateThread, SetParam
<1>3. ASSUME NEW t \in Threads, ThreadStep(t)
      PROVE  Unharmed
  <2>1. main # "ended"
    BY <1>3 DEF ThreadStep, ReadParam, Receive, TakeRequest, EndOfStream, Send,
                CloseOnError, CloseAgain, At
  <2>2. harm' = {} => harm = {}
    BY <1>3 DEF ThreadStep, ReadParam, Receive, TakeRequest, EndOfStream, Send,
                CloseOnError, CloseAgain
  <2>. QED
    BY <2>1, <2>2 DEF Unharmed
<1>4. ASSUME NEW c \in Conns, Arrive(c) \/ Ask(c) \/ GetAnswer(c) \/ Leave(c)
      PROVE  UNCHANGED <<harm, main>>
  BY <1>4 DEF Arrive, Ask, GetAnswer, Leave, serverVars, loopVars
<1>5. UNCHANGED vars => UNCHANGED <<harm, main>>
  BY DEF vars, loopVars
<1>. QED
  BY <1>1, <1>2, <1>3, <1>4, <1>5 DEF Next

-----------------------------------------------------------------------------
(* The correspondence of connections and threads.                          *)

\* The actions of clients leave it alone.
LEMMA ClientKeeps ==
  ASSUME TypeInv, Correspondence, NEW c \in Conns,
         Arrive(c) \/ Ask(c) \/ GetAnswer(c) \/ Leave(c)
  PROVE  Correspondence'
<1>1. UNCHANGED <<open, loopVars, threadVars, harm>>
  BY DEF Arrive, Ask, GetAnswer, Leave, serverVars
<1>2. AnswersReachAskers'
  <2>1. CASE GetAnswer(c)
    <3>1. /\ outbox[c] \in Seq(Conns) /\ outbox[c] # <<>>
          /\ outbox' = [outbox EXCEPT ![c] = Tail(@)]
      BY <2>1 DEF GetAnswer, TypeInv, TypeOK
    <3>2. \A i \in DOMAIN Tail(outbox[c]) : Tail(outbox[c])[i] = c
      BY <3>1, HeadTailOf DEF Correspondence, AnswersReachAskers
    <3>. QED
      BY <3>1, <3>2 DEF Correspondence, AnswersReachAskers, TypeInv, TypeOK
  <2>2. CASE UNCHANGED outbox
    BY <2>2 DEF Correspondence, AnswersReachAskers
  <2>. QED
    BY <2>1, <2>2 DEF Arrive, Ask, Leave, netVars
<1>. QED
  BY <1>1, <1>2
     DEF Correspondence, ServedOpen, ServedOnce, OnItsWayUnserved, OnItsWayOpen,
         NoStartAtCreate, OneStart, OpenServed, ReadsOwn, AnswersOwn, Serving,
         Serves, OnItsWay, loopVars, threadVars

\* accept: the new connection is on its way, and nothing else was.
LEMMA AcceptKeeps ==
  ASSUME TypeInv, Correspondence, Accept, Unharmed'
  PROVE  Correspondence'
<1>. USE DEF TypeInv, TypeOK, Correspondence
<1>1. PICK f \in Fds :
        /\ open[f] = None
        /\ open' = [open EXCEPT ![f] = Head(backlog)]
        /\ param' = f /\ main' = "create"
  BY DEF Accept, NextFd, FreeFds, SetParam
<1>2. Head(backlog) \in Conns /\ Head(backlog) # None
  BY HeadTailProperties, Zero DEF Accept
<1>3. main = "accept" /\ UNCHANGED <<outbox, threads, threadVars>>
  BY DEF Accept
<1>4. \A t \in Threads : pc[t] # "start"
  BY DEF Accept, SetParam, Unharmed
<1>5. \A g \in Fds : open[g] # None => \E t \in Threads : Serves(t, g)
  BY <1>3, <1>4 DEF OpenServed, OnItsWay
<1>6. \A t \in Threads : Serving(t) /\ conn[t] # Error => conn[t] \in Fds \ {f}
  BY <1>1 DEF ServedOpen
<1>7. \A g \in Fds : g # f => open'[g] = open[g]
  BY <1>1
<1>8. ServedOpen' /\ OnItsWayOpen' /\ OnItsWayUnserved'
  <2>1. /\ pc' = pc /\ conn' = conn
        /\ \A t \in Threads : Serving(t)' = Serving(t)
    BY <1>3 DEF threadVars, Serving
  <2>2. ServedOpen'
    BY <1>6, <1>7, <2>1 DEF ServedOpen
  <2>3. OnItsWayOpen'
    BY <1>1, <1>2 DEF OnItsWayOpen
  <2>4. OnItsWayUnserved'
    BY <1>1, <1>6, <2>1 DEF OnItsWayUnserved, OnItsWay
  <2>. QED
    BY <2>2, <2>3, <2>4
<1>9. ServedOnce' /\ NoStartAtCreate' /\ OneStart' /\ AnswersReachAskers'
  BY <1>3, <1>4 DEF ServedOnce, NoStartAtCreate, OneStart, AnswersReachAskers, Serving, threadVars
<1>10. OpenServed'
  BY <1>1, <1>3, <1>5, <1>7 DEF OpenServed, Serves, OnItsWay, threadVars
<1>11. ReadsOwn' /\ AnswersOwn'
  BY <1>1, <1>3, <1>6, <1>7 DEF ReadsOwn, AnswersOwn, Serving, threadVars
<1>. QED
  BY <1>8, <1>9, <1>10, <1>11

\* accept without a descriptor: no connection is on its way.
LEMMA AcceptFailsKeeps ==
  ASSUME TypeInv, Correspondence, AcceptFails, Unharmed'
  PROVE  Correspondence'
<1>. USE DEF TypeInv, TypeOK, Correspondence
<1>1. /\ main = "accept" /\ main' = "create" /\ param' = Error
      /\ UNCHANGED <<outbox, open, threads, threadVars>>
      /\ \A t \in Threads : pc[t] # "start"
  BY DEF AcceptFails, SetParam, Unharmed, netVars
<1>2. OpenServed'
  <2>1. \A f \in Fds : open[f] # None => \E t \in Threads : Serves(t, f)
    BY <1>1 DEF OpenServed, OnItsWay
  <2>2. \A t \in Threads, f \in Fds : Serves(t, f)' = Serves(t, f)
    BY <1>1 DEF Serves, threadVars
  <2>. QED
    BY <1>1, <2>1, <2>2 DEF OpenServed
<1>3. OnItsWayOpen' /\ OnItsWayUnserved'
  BY <1>1 DEF OnItsWayOpen, OnItsWayUnserved, OnItsWay, threadVars
<1>. QED
  BY <1>1, <1>2, <1>3
     DEF ServedOpen, ServedOnce, NoStartAtCreate, OneStart, ReadsOwn, AnswersOwn,
         AnswersReachAskers, Serving, threadVars

\* pthread_create: the one that starts takes over what is on its way.
LEMMA CreateKeeps ==
  ASSUME TypeInv, Correspondence, ThreadsMade, CreateThread, Unharmed'
  PROVE  Correspondence'
<1>. USE DEF TypeInv, TypeOK, Correspondence
<1>1. /\ main = "create" /\ main' = "accept"
      /\ UNCHANGED <<outbox, open, param, conn, on, msg>>
      /\ threads # MaxThreads /\ pc' = [pc EXCEPT ![threads + 1] = "start"]
  BY DEF CreateThread, Unharmed, netVars
<1>2. threads + 1 \in Threads /\ pc[threads + 1] = "none"
  BY <1>1, ConnectionsAssumption DEF ThreadsMade, Threads
<1>3. \A t \in Threads : pc[t] # "start"
  BY <1>1 DEF NoStartAtCreate
<1>4. /\ pc'[threads + 1] = "start"
      /\ \A t \in Threads : t # threads + 1 => pc'[t] = pc[t]
  BY <1>1, <1>2
<1>5. \A f : OnItsWay(f) <=> OnItsWay(f)'
  BY <1>1, <1>2, <1>4 DEF OnItsWay
<1>6. \A t \in Threads : Serving(t) <=> Serving(t)'
  BY <1>2, <1>4 DEF Serving
<1>7. ServedOpen' /\ ServedOnce' /\ OnItsWayUnserved' /\ OnItsWayOpen'
  BY <1>1, <1>5, <1>6 DEF ServedOpen, ServedOnce, OnItsWayUnserved, OnItsWayOpen
<1>8. OpenServed'
  BY <1>1, <1>5, <1>6 DEF OpenServed, Serves, Serving
<1>9. NoStartAtCreate' /\ OneStart'
  BY <1>1, <1>3, <1>4 DEF NoStartAtCreate, OneStart
<1>10. ReadsOwn' /\ AnswersOwn' /\ AnswersReachAskers'
  BY <1>1, <1>4 DEF ReadsOwn, AnswersOwn, AnswersReachAskers
<1>. QED
  BY <1>7, <1>8, <1>9, <1>10

\* A thread that serves a connection and goes on serving it.
LEMMA GoesOn ==
  ASSUME TypeInv, Correspondence, NEW t \in Threads,
         Serving(t), Serving(t)', UNCHANGED <<open, loopVars, conn>>,
         \A u \in Threads : u # t => pc'[u] = pc[u] /\ on'[u] = on[u] /\ msg'[u] = msg[u],
         pc'[t] = "blocked" => conn[t] # Error /\ open[conn[t]] = on'[t],
         pc'[t] = "send" => conn[t] # Error /\ open[conn[t]] = msg'[t],
         AnswersReachAskers'
  PROVE  Correspondence'
<1>1. \A u \in Threads : /\ Serving(u)' = Serving(u)
                         /\ pc'[u] = "start" <=> pc[u] = "start"
  BY DEF Serving
<1>2. \A f : /\ OnItsWay(f)' = OnItsWay(f)
             /\ \A u \in Threads : Serves(u, f)' = Serves(u, f)
  BY <1>1 DEF OnItsWay, Serves, Serving, loopVars
<1>3. ReadsOwn' /\ AnswersOwn'
  BY DEF Correspondence, ReadsOwn, AnswersOwn
<1>. QED
  BY <1>1, <1>2, <1>3
     DEF Correspondence, ServedOpen, ServedOnce, OnItsWayUnserved, OnItsWayOpen,
         NoStartAtCreate, OneStart, OpenServed, loopVars

\* What a step of t changes of pc, of on and of msg is t's.
LEMMA OthersStay ==
  ASSUME TypeInv, NEW t \in Threads, ThreadStep(t)
  PROVE  \A u \in Threads : u # t =>
           pc'[u] = pc[u] /\ conn'[u] = conn[u] /\ on'[u] = on[u] /\ msg'[u] = msg[u]
BY DEF TypeInv, TypeOK, ThreadStep, ReadParam, Receive, TakeRequest, EndOfStream,
       Send, CloseOnError, CloseAgain, At, Goto

\* conn = tp->connsockfd: what was on its way is served.
LEMMA ReadParamKeeps ==
  ASSUME TypeInv, Correspondence, NEW t \in Threads, ReadParam(t)
  PROVE  Correspondence'
<1>. USE DEF TypeInv, TypeOK, Correspondence
<1>1. /\ pc[t] = "start" /\ pc'[t] = "receive" /\ conn'[t] = param
      /\ UNCHANGED <<open, outbox, on, msg, param, main>>
  BY DEF ReadParam, At, Goto, netVars, loopVars
<1>2. \A u \in Threads : u # t => pc'[u] = pc[u] /\ conn'[u] = conn[u]
  BY OthersStay DEF ThreadStep
<1>3. main # "create" /\ \A u \in Threads : pc'[u] # "start"
  BY <1>1, <1>2 DEF NoStartAtCreate, OneStart
<1>4. OnItsWay(param) /\ \A f : ~OnItsWay(f)'
  BY <1>1, <1>3 DEF OnItsWay
<1>5. \A u \in Threads : Serving(u)' <=> u = t \/ Serving(u)
  BY <1>1, <1>2 DEF Serving
<1>6. \A u \in Threads : Serving(u) /\ conn[u] # Error => conn[u] # param /\ u # t
  BY <1>1, <1>4 DEF OnItsWayUnserved, Serving
<1>7. ServedOpen'
  BY <1>1, <1>2, <1>4, <1>5 DEF ServedOpen, OnItsWayOpen
<1>8. ServedOnce'
  BY <1>1, <1>2, <1>5, <1>6 DEF ServedOnce
<1>9. OnItsWayUnserved' /\ OnItsWayOpen' /\ NoStartAtCreate' /\ OneStart'
  BY <1>1, <1>3, <1>4 DEF OnItsWayUnserved, OnItsWayOpen, NoStartAtCreate, OneStart
<1>10. OpenServed'
  <2>. SUFFICES ASSUME NEW f \in Fds, open[f] # None
                PROVE  \E u \in Threads : Serves(u, f)'
    BY <1>1 DEF OpenServed
  <2>1. CASE f = param
    BY <1>1, <2>1 DEF Serves
  <2>2. CASE f # param
    <3>1. PICK u \in Threads : Serves(u, f)
      BY <2>2 DEF OpenServed, OnItsWay
    <3>2. u # t
      BY <1>1, <3>1 DEF Serves
    <3>. QED
      BY <1>2, <3>1, <3>2 DEF Serves
  <2>. QED
    BY <2>1, <2>2
<1>11. ReadsOwn' /\ AnswersOwn' /\ AnswersReachAskers'
  BY ZenonT(60), <1>1, <1>2 DEF ReadsOwn, AnswersOwn, AnswersReachAskers
<1>. QED
  BY <1>7, <1>8, <1>9, <1>10, <1>11

\* network_receive reads what was asked on the thread's own connection.
LEMMA ReceiveKeeps ==
  ASSUME TypeInv, RequestsOwn, Correspondence, NEW t \in Threads,
         Receive(t) \/ TakeRequest(t) \/ EndOfStream(t)
  PROVE  Correspondence'
<1>. USE DEF TypeInv, TypeOK
<1>1. UNCHANGED <<open, loopVars, conn, outbox>>
  BY DEF Receive, TakeRequest, EndOfStream, netVars
<1>2. \A u \in Threads : u # t => pc'[u] = pc[u] /\ on'[u] = on[u] /\ msg'[u] = msg[u]
  BY OthersStay DEF ThreadStep
<1>3. Serving(t) /\ Serving(t)'
  BY DEF Serving, Receive, TakeRequest, EndOfStream, At, Goto
<1>4. AnswersReachAskers'
  BY <1>1 DEF Correspondence, AnswersReachAskers
<1>5. pc'[t] = "blocked" => conn[t] # Error /\ open[conn[t]] = on'[t]
  BY DEF Receive, TakeRequest, EndOfStream, At, Goto, Open
<1>6. pc'[t] = "send" => conn[t] # Error /\ open[conn[t]] = msg'[t]
  <2>1. Receive(t) \/ EndOfStream(t) => pc'[t] # "send"
    BY DEF Receive, EndOfStream, Goto
  <2>2. CASE TakeRequest(t)
    <3>1. pc[t] = "blocked" /\ on[t] \in Conns /\ inbox[on[t]] # <<>>
      BY <2>2 DEF TakeRequest, At, HandsOK
    <3>2. Head(inbox[on[t]]) = on[t]
      BY <3>1, HeadTailOf DEF RequestsOwn
    <3>. QED
      BY <2>2, <3>1, <3>2 DEF TakeRequest, Correspondence, ReadsOwn
  <2>. QED
    BY <2>1, <2>2
<1>. QED
  BY <1>1, <1>2, <1>3, <1>4, <1>5, <1>6, GoesOn

\* network_send writes to the connection the request came on.
LEMMA SendKeeps ==
  ASSUME TypeInv, Correspondence, NEW t \in Threads, Send(t)
  PROVE  Correspondence'
<1>. USE DEF TypeInv, TypeOK
<1>1. /\ UNCHANGED <<open, loopVars, conn>>
      /\ pc[t] = "send" /\ pc'[t] \in {"receive", "failed"}
  BY DEF Send, At, Goto, ServeNext
<1>2. \A u \in Threads : u # t => pc'[u] = pc[u] /\ on'[u] = on[u] /\ msg'[u] = msg[u]
  BY OthersStay DEF ThreadStep
<1>3. msg[t] \in Conns /\ (Open(Socket(t)) => open[Socket(t)] = msg[t])
  BY <1>1 DEF HandsOK, Correspondence, AnswersOwn, Socket
<1>4. AnswersReachAskers'
  <2>1. CASE UNCHANGED outbox
    BY <2>1 DEF Correspondence, AnswersReachAskers
  <2>2. CASE outbox' = [outbox EXCEPT ![msg[t]] = Append(@, msg[t])]
    <3>1. \A i \in DOMAIN Append(outbox[msg[t]], msg[t]) :
            Append(outbox[msg[t]], msg[t])[i] = msg[t]
      <4>1. /\ outbox[msg[t]] \in Seq(Conns)
            /\ \A i \in DOMAIN outbox[msg[t]] : outbox[msg[t]][i] = msg[t]
        BY <1>3 DEF Correspondence, AnswersReachAskers
      <4>. HIDE DEF TypeInv, TypeOK
      <4>. QED
        BY <1>3, <4>1, AppendOf
    <3>. QED
      BY <2>2, <1>3, <3>1 DEF Correspondence, AnswersReachAskers
  <2>. QED
    BY <1>3, <2>1, <2>2 DEF Send
<1>. QED
  BY <1>1, <1>2, <1>4, GoesOn DEF Serving

\* network_receive or network_send closes the connection its thread serves.
LEMMA CloseOnErrorKeeps ==
  ASSUME TypeInv, Correspondence, NEW t \in Threads, CloseOnError(t)
  PROVE  Correspondence'
<1>. USE DEF TypeInv, TypeOK, Correspondence
<1>1. /\ pc[t] = "failed" /\ pc'[t] = "close" /\ Close(conn[t])
      /\ UNCHANGED <<outbox, conn, on, msg, param, main>>
  BY DEF CloseOnError, At, Goto, netVars, loopVars
<1>2. \A u \in Threads : u # t => pc'[u] = pc[u]
  BY OthersStay DEF ThreadStep
<1>3. \A g \in Fds : g # conn[t] => open'[g] = open[g]
  BY <1>1, Closed
<1>4. \A u \in Threads : Serving(u)' <=> u # t /\ Serving(u)
  BY <1>1, <1>2 DEF Serving
<1>5. \A u \in Threads : Serving(u)' /\ conn[u] # Error => conn[u] # conn[t]
  BY <1>1, <1>4 DEF ServedOnce, Serving
<1>6. \A f : OnItsWay(f)' = OnItsWay(f)
  BY <1>1, <1>2 DEF OnItsWay
<1>7. ServedOpen' /\ ServedOnce' /\ OnItsWayUnserved'
  BY <1>1, <1>3, <1>4, <1>5, <1>6 DEF ServedOpen, ServedOnce, OnItsWayUnserved
<1>8. OnItsWayOpen'
  BY <1>1, <1>3, <1>6 DEF OnItsWayOpen, OnItsWayUnserved, Serving
<1>9. NoStartAtCreate' /\ OneStart'
  BY <1>1, <1>2 DEF NoStartAtCreate, OneStart
<1>10. OpenServed'
  <2>. SUFFICES ASSUME NEW f \in Fds, open'[f] # None, ~OnItsWay(f)
                PROVE  \E u \in Threads : Serves(u, f)'
    BY <1>6 DEF OpenServed
  <2>1. f # conn[t] /\ open[f] # None
    BY <1>1, <1>3, Closed
  <2>2. PICK u \in Threads : Serves(u, f)
    BY <2>1 DEF OpenServed
  <2>. QED
    BY <1>1, <1>2, <2>1, <2>2 DEF Serves
<1>11. ReadsOwn' /\ AnswersOwn'
  <2>1. \A u \in Threads : pc'[u] \in {"blocked", "send"} =>
          /\ pc'[u] = pc[u]
          /\ conn[u] # Error => open'[conn[u]] = open[conn[u]]
    BY <1>1, <1>2, <1>3, <1>5 DEF Serving
  <2>. QED
    BY <1>1, <2>1 DEF ReadsOwn, AnswersOwn
<1>12. AnswersReachAskers'
  BY <1>1 DEF AnswersReachAskers
<1>. QED
  BY <1>7, <1>8, <1>9, <1>10, <1>11, <1>12

\* The second close, if it meets nothing, changes nothing.
LEMMA CloseAgainKeeps ==
  ASSUME TypeInv, Correspondence, NEW t \in Threads, CloseAgain(t), Unharmed'
  PROVE  Correspondence'
<1>. USE DEF TypeInv, TypeOK, Correspondence
<1>1. /\ pc[t] = "close" /\ pc'[t] = "done" /\ ~Open(conn[t]) /\ Close(conn[t])
      /\ UNCHANGED <<outbox, on, msg, param, main>>
  BY DEF CloseAgain, At, Goto, netVars, loopVars, Unharmed
<1>2. open' = open
  BY <1>1, Closed
<1>3. \A u \in Threads : u # t => pc'[u] = pc[u] /\ conn'[u] = conn[u]
  BY OthersStay DEF ThreadStep
<1>4. \A u \in Threads : /\ Serving(u)' = Serving(u)
                         /\ Serving(u) => conn'[u] = conn[u]
                         /\ pc'[u] = "start" <=> pc[u] = "start"
  BY <1>1, <1>3 DEF Serving
<1>5. \A f : OnItsWay(f)' = OnItsWay(f)
  BY <1>1, <1>4 DEF OnItsWay
<1>6. \A f \in Fds, u \in Threads : Serves(u, f) => Serves(u, f)'
  BY <1>1, <1>3 DEF Serves
<1>7. ReadsOwn' /\ AnswersOwn' /\ AnswersReachAskers'
  BY ZenonT(60), <1>1, <1>2, <1>3 DEF ReadsOwn, AnswersOwn, AnswersReachAskers
<1>. QED
  BY <1>1, <1>2, <1>4, <1>5, <1>6, <1>7
     DEF ServedOpen, ServedOnce, OnItsWayUnserved, OnItsWayOpen, NoStartAtCreate,
         OneStart, OpenServed

-----------------------------------------------------------------------------
\* The invariant holds at the start: there are no connections and no threads.
LEMMA InitIInv == Init => IInv
<1>1. Init => RequestsOwn /\ ThreadsMade
  BY DEF Init, RequestsOwn, ThreadsMade
<1>2. Init => Correspondence
  BY DEF Init, Correspondence, ServedOpen, ServedOnce, OnItsWayUnserved, OnItsWayOpen,
         NoStartAtCreate, OneStart, OpenServed, ReadsOwn, AnswersOwn,
         AnswersReachAskers, Serving
<1>. QED
  BY <1>1, <1>2, Types DEF IInv

\* Every step keeps it.
LEMMA Inductive == IInv /\ [Next]_vars => IInv'
<1>. SUFFICES ASSUME IInv, [Next]_vars
              PROVE  IInv'
  OBVIOUS
<1>1. TypeInv' /\ RequestsOwn' /\ ThreadsMade'
  BY Types, RequestsStay, ThreadsStay DEF IInv
<1>2. ASSUME Unharmed'
      PROVE  Correspondence'
  <2>. /\ TypeInv /\ RequestsOwn /\ ThreadsMade
       /\ Correspondence
    BY <1>2, HarmStays DEF IInv
  <2>1. ASSUME MainStep PROVE Correspondence'
    BY <1>2, <2>1, AcceptKeeps, AcceptFailsKeeps, CreateKeeps DEF MainStep
  <2>2. ASSUME NEW t \in Threads, ThreadStep(t) PROVE Correspondence'
    BY <1>2, <2>2, ReadParamKeeps, ReceiveKeeps, SendKeeps, CloseOnErrorKeeps,
       CloseAgainKeeps DEF ThreadStep
  <2>3. ASSUME UNCHANGED vars PROVE Correspondence'
    <3>1. UNCHANGED <<open, main, param, pc, conn, on, msg, outbox>>
      BY <2>3 DEF vars, loopVars, threadVars, netVars
    <3>. QED
      BY <3>1
         DEF Correspondence, ServedOpen, ServedOnce, OnItsWayUnserved, OnItsWayOpen,
             NoStartAtCreate, OneStart, OpenServed, ReadsOwn, AnswersOwn,
             AnswersReachAskers, Serving, Serves, OnItsWay
  <2>. QED
    BY <2>1, <2>2, <2>3, ClientKeeps DEF Next
<1>. QED
  BY <1>1, <1>2 DEF IInv

\* What corresponds has one thread each.
LEMMA IInvImplies == IInv => TypeOK /\ OneThreadEach
<1>. SUFFICES ASSUME IInv, Unharmed
              PROVE  OneThreadEach
  BY DEF IInv, TypeInv, OneThreadEach, Unharmed
<1>. Correspondence
  BY DEF IInv
<1>1. ASSUME NEW f \in Fds, Open(f)
      PROVE  Cardinality({t \in Threads : Serves(t, f)}) = IF OnItsWay(f) THEN 0 ELSE 1
  <2>0. open[f] # None /\ f # Error
    BY <1>1 DEF Open
  <2>1. CASE OnItsWay(f)
    <3>1. {t \in Threads : Serves(t, f)} = {}
      BY <2>0, <2>1 DEF Correspondence, OnItsWayUnserved, Serves, Serving
    <3>. QED
      BY <2>1, <3>1, FS_EmptySet
  <2>2. CASE ~OnItsWay(f)
    <3>1. PICK t \in Threads : Serves(t, f)
      BY <2>0, <2>2 DEF Correspondence, OpenServed
    <3>2. {u \in Threads : Serves(u, f)} = {t}
      BY <2>0, <3>1 DEF Correspondence, ServedOnce, Serves, Serving
    <3>. QED
      BY <2>2, <3>2, FS_Singleton
  <2>. QED
    BY <2>1, <2>2
<1>2. \A t \in Threads : pc[t] = "blocked" => open[conn[t]] = on[t]
  BY DEF Correspondence, ReadsOwn
<1>. QED
  BY <1>1, <1>2 DEF OneThreadEach, Correspondence

\* The invariant holds in every reachable state.
THEOREM Invariance == Spec => []IInv
  BY InitIInv, Inductive, PTL DEF Spec

\* Type correctness of the server's connections.
THEOREM TypeCorrectness == Spec => []TypeOK
  BY Invariance, IInvImplies, PTL

\* Until main overtakes a thread, or the second close of thread_sec hits a
\* connection made since the first, every connection is served by one thread and
\* gets the answers to its own requests.
THEOREM ThreadsCorrespond == Spec => []OneThreadEach
  BY Invariance, IInvImplies, PTL

=============================================================================
