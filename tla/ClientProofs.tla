---------------------------- MODULE ClientProofs -----------------------------
(***************************************************************************)
(* What main sends is what was typed, and the client goes on until quit,   *)
(* unless its two threads have raced, a primary has left or the answer of  *)
(* a getkeys or a table_print has been overrun: for any number of lines,   *)
(* words, servers and changes of the children of /kvstore.                 *)
(***************************************************************************)
EXTENDS Client, FiniteSetTheorems, SequenceTheorems, TLAPS

-----------------------------------------------------------------------------
(* What holds whatever the threads do to each other.                       *)

\* The labels of a thread that will connect.
Seeking == {"exists", "get", "fill", "host", "port", "connect"}

StartLabels == Seeking \cup {"watch"}
CallLabels == {"call", "write", "read", "blocked", "failed"}
LoopLabels == {"prompt", "code", "split", "arg", "quit"} \cup CallLabels
WatcherLabels == Seeking \cup {"idle", "close", "free"}

PcOK == pc["main"] \in StartLabels \cup LoopLabels /\ pc["watcher"] \in WatcherLabels

AddrOK == \A th \in Threads : pc[th] \in {"port", "connect"} => addr[th] # NULL

\* Every rtable has been connected, and every open descriptor belongs to the
\* connection it was made for.
RtablesOK ==
  /\ rtable # NULL => server[rtable] # NULL
  /\ \A c \in Conns : server[c] # NULL => fd[c] # NULL
  /\ \A f \in Fds : open[f] # NULL => server[open[f]] # NULL /\ fd[open[f]] = f
  /\ freed # {} => rtable # NULL
  /\ pc["main"] \in LoopLabels => rtable # NULL
  /\ pc["watcher"] = "free" => ptr["watcher"] # NULL /\ rtable # NULL

CallOK ==
  /\ pc["main"] \in {"split", "arg"} \cup CallLabels => code # Unknown
  /\ pc["main"] = "write" => ptr["main"] # NULL /\ server[ptr["main"]] # NULL
  /\ pc["main"] = "blocked" => on # NULL /\ server[on] # NULL

Made == {c \in Conns : server[c] # NULL}

One(condition) == IF condition THEN 1 ELSE 0

\* The connections that are still to be made for what has happened so far.
Pending == One(pc["main"] \in StartLabels) + One(event) + One(pc["watcher"] \in Seeking)

\* main connects once, and the watcher at most once for a change.
MadeBounded ==
  /\ changes \in 0 .. MaxChanges
  /\ Cardinality(Made) + Pending <= 1 + changes

Always == TypeOK /\ PcOK /\ AddrOK /\ RtablesOK /\ CallOK /\ MadeBounded

-----------------------------------------------------------------------------
(* What holds until one thread replaces the address that the other is about *)
(* to connect with.                                                        *)

\* primary_host_ip is the buffer of the thread that is about to connect with it,
\* and holds a whole address when it does.
HostOK ==
  \A th \in Threads :
    /\ pc[th] \in {"fill", "host"} => host = th
    /\ pc[th] = "host" => \E s \in Servers : text[th] = <<s, s>>

HostInv == "address" \notin harm => HostOK

-----------------------------------------------------------------------------
(* What holds until both threads are in strtok at once.                    *)

\* The words taken so far are the first of the line, and strtok has the rest.
Taken ==
  /\ Len(args) <= Len(line.args)
  /\ \A i \in 1 .. Len(args) : args[i] = line.args[i]
Rest ==
  /\ Len(args) + Len(tok) = Len(line.args)
  /\ \A i \in 1 .. Len(tok) : tok[i] = line.args[Len(args) + i]

ParseOK ==
  /\ pc["main"] \in {"code", "split"} => args = <<>>
  /\ pc["main"] \in {"split", "arg", "call", "write"} =>
       line.op = Unknown \/ code = line.op
  /\ pc["main"] = "split" => Arity(code) > 0
  /\ pc["main"] = "arg" => Len(args) < Arity(code)
  /\ pc["main"] \in {"call", "write"} => Len(args) = Arity(code)

Unsplit ==
  /\ pc["main"] = "arg" => Taken /\ Rest
  /\ pc["main"] \in {"call", "write"} => Taken
  /\ \A th \in Threads : pc[th] = "port" => tok = <<addr[th]>> \/ "address" \in harm

StrtokInv == ParseOK /\ ("strtok" \notin harm => Unsplit)

-----------------------------------------------------------------------------
(* What holds until a primary leaves, the threads race or an answer is     *)
(* overrun.                                                                *)

Calm == gone = {} /\ harm = {}

Undisturbed ==
  /\ alive = Servers
  /\ freed = {}
  /\ rtable # NULL => primary # NULL
  /\ \A th \in Threads : pc[th] \in Seeking \ {"exists"} => primary # NULL
  /\ pc["watcher"] # "free"
  /\ pc["watcher"] = "close" => rtable = NULL
  /\ \A c \in Conns : server[c] # NULL => open[fd[c]] = c
  /\ pc["main"] # "failed"
  /\ pc["main"] = "read" => Open(sock)
  /\ ended \in {"exit", "crash"} => ~WellTyped(line)

CalmInv == Calm => Undisturbed

IInv == Always /\ HostInv /\ StrtokInv /\ CalmInv

-----------------------------------------------------------------------------
(* The bounds on connections and descriptors are never met.                *)

\* A set of numbers that is not empty has a smallest one.
LEMMA Smallest ==
  ASSUME NEW T \in SUBSET Nat, T # {}
  PROVE  \E x \in T : \A y \in T : x <= y
<1> DEFINE R == {ss \in Nat \X Nat : ss[1] < ss[2]}
<1>1. IsWellFoundedOn(R, Nat)
  BY NatLessThanWellFounded DEF OpToRel
<1> HIDE DEF R
<1>2. \E x \in T : \A y \in T : ~(<<y, x>> \in R)
  BY <1>1, WFMin
<1>3. PICK x \in T : \A y \in T : ~(<<y, x>> \in R)
  BY <1>2
<1>4. ASSUME NEW y \in T
      PROVE  x <= y
  <2>1. ~(<<y, x>> \in R)
    BY <1>3
  <2>2. ~(y < x)
    BY <2>1 DEF R
  <2>3. QED
    BY <2>2
<1>5. QED
  BY <1>4

\* There is a connection for the first primary and for every change.
LEMMA ConnNumbers ==
  /\ MaxChanges \in Nat
  /\ NULL \notin Conns /\ NULL \notin Servers
  /\ IsFiniteSet(Conns)
  /\ Cardinality(Conns) = MaxChanges + 1
<1>1. MaxChanges \in Nat
  BY ClientAssumption DEF ClientAssumption
<1>2. IsFiniteSet(Conns) /\ Cardinality(Conns) = MaxChanges + 1
  BY <1>1, FS_Interval DEF Conns
<1>3. QED
  BY <1>1, <1>2 DEF Conns, Servers, NULL

\* The connections made so far are finitely many.
LEMMA MadeCount ==
  /\ Made \subseteq Conns
  /\ IsFiniteSet(Made)
  /\ Cardinality(Made) \in Nat
<1>1. Made \subseteq Conns
  BY DEF Made
<1>2. QED
  BY <1>1, ConnNumbers, FS_Subset, FS_CardinalityType

\* Every place from which a connection may still be made counts.
LEMMA PendingNumber ==
  /\ Pending \in Nat
  /\ pc["main"] \in StartLabels => Pending >= 1
  /\ event => Pending >= 1
  /\ pc["watcher"] \in Seeking => Pending >= 1
  BY DEF Pending, One

\* A thread that is about to connect finds a connection that has not been made
\* and a descriptor that is closed.
LEMMA RoomToConnect ==
  ASSUME Always, NEW th \in Threads, pc[th] \in Seeking
  PROVE  /\ NewConn \in Conns /\ server[NewConn] = NULL
         /\ FreeFd \in Fds /\ open[FreeFd] = NULL
<1>1. pc["main"] \in StartLabels \/ pc["watcher"] \in Seeking
  BY DEF Threads, StartLabels
<1>2. Cardinality(Made) < Cardinality(Conns)
  BY <1>1, PendingNumber, MadeCount, ConnNumbers DEF Always, MadeBounded
<1>3. NewConn \in Conns /\ server[NewConn] = NULL
  <2>1. Made # Conns
    BY <1>2, ConnNumbers
  <2>2. \E c \in Conns : server[c] = NULL
    BY <2>1 DEF Made
  <2>3. QED
    BY <2>2 DEF NewConn
<1>4. \E f \in Fds : open[f] = NULL
  <2>1. SUFFICES ASSUME \A f \in Fds : open[f] # NULL PROVE FALSE
    OBVIOUS
  <2>2. open \in [Fds -> Made]
    BY <2>1 DEF Always, TypeOK, RtablesOK, Made
  <2>3. Cardinality(Made) < Cardinality(Fds) /\ IsFiniteSet(Fds)
    BY <1>2, ConnNumbers DEF Fds
  <2>4. PICK f, g \in Fds : f # g /\ open[f] = open[g]
    BY <2>2, <2>3, MadeCount, FS_PigeonHole
  <2>5. fd[open[f]] = f /\ fd[open[g]] = g
    BY <2>1 DEF Always, RtablesOK
  <2>6. QED
    BY <2>4, <2>5
<1>5. FreeFd \in Fds /\ open[FreeFd] = NULL
  <2> DEFINE Free == {f \in Fds : open[f] = NULL}
  <2>1. Free \in SUBSET Nat /\ Free # {}
    BY <1>4 DEF Fds, Conns
  <2>2. PICK f \in Free : \A g \in Free : f <= g
    <3> HIDE DEF Free
    <3>1. QED
      BY <2>1, Smallest
  <2>3. \A g \in 1 .. (f - 1) : open[g] # NULL
    BY <2>2, ConnNumbers DEF Fds, Conns
  <2>4. QED
    BY <2>2, <2>3 DEF FreeFd
<1>6. QED
  BY <1>3, <1>5

-----------------------------------------------------------------------------
(* Whose step it is.                                                       *)

World ==
  \/ BackupChanges
  \/ PrimaryExpires
  \/ \E s \in Servers : PrimaryAppears(s) \/ ServerDies(s)
  \/ \E c \in Conns : Serve(c)

Moves(th) ==
  \/ th = "main" /\ (MainStep \/ InputEnds \/ \E cmd \in Commands : ReadLine(cmd))
  \/ th = "watcher" /\ WatcherStep

\* Nothing moves, but the process may end by what rtable_get_keys has overwritten.
Stays ==
  /\ UNCHANGED <<zkVars, wireVars, connVars, lineVars, callVars, histVars, hostVars>>
  /\ UNCHANGED <<pc, tok, addr, ptr, harm>>
  /\ \/ UNCHANGED ended
     \/ ended' = "crash" /\ "keys" \in harm

\* Every step is one of the two threads, or of the world around them.
LEMMA Steps ==
  ASSUME [Next]_vars
  PROVE  Moves("main") \/ Moves("watcher") \/ World \/ Stays
<1>1. UNCHANGED vars => Stays
  <2>1. SUFFICES ASSUME UNCHANGED vars
                 PROVE  Stays
    OBVIOUS
  <2>2. /\ UNCHANGED <<zkVars, wireVars, connVars, lineVars, callVars, histVars, hostVars>>
        /\ UNCHANGED <<pc, tok, addr, ptr, harm>>
    BY <2>1 DEF vars
  <2>3. UNCHANGED ended
    BY <2>1 DEF vars
  <2>4. QED
    BY <2>2, <2>3 DEF Stays
<1>2. HeapBreaks => Stays
  BY DEF HeapBreaks, Stays, End
<1>3. QED
  BY <1>1, <1>2 DEF Next, Moves, World

\* The client has two threads.
LEMMA TwoThreads ==
  /\ Threads = {"main", "watcher"}
  /\ Other("main") = "watcher"
  /\ Other("watcher") = "main"
<1>1. \A u \in Threads : u # "main" <=> u = "watcher"
  BY DEF Threads
<1>2. \A u \in Threads : u # "watcher" <=> u = "main"
  BY DEF Threads
<1>3. QED
  BY <1>1, <1>2 DEF Other, Threads

\* Servers and ZooKeeper do not touch the variables of the client.
LEMMA WorldOutside ==
  ASSUME World
  PROVE  UNCHANGED clientVars
<1>1. CASE BackupChanges
  BY <1>1 DEF BackupChanges
<1>2. CASE PrimaryExpires
  BY <1>2 DEF PrimaryExpires
<1>3. ASSUME NEW s \in Servers, PrimaryAppears(s)
      PROVE  UNCHANGED clientVars
  BY <1>3 DEF PrimaryAppears
<1>4. ASSUME NEW s \in Servers, ServerDies(s)
      PROVE  UNCHANGED clientVars
  BY <1>4 DEF ServerDies
<1>5. ASSUME NEW c \in Conns, Serve(c)
      PROVE  UNCHANGED clientVars
  BY <1>5 DEF Serve
<1>6. QED
  BY <1>1, <1>2, <1>3, <1>4, <1>5 DEF World

-----------------------------------------------------------------------------
\* A line that was typed may be the words that strtok returns.
LEMMA WordsAreArgs ==
  ASSUME NEW s \in Seq(Words)
  PROVE  s \in Seq(Words \cup Servers)
  OBVIOUS

\* The number that a call finds in an rtable is that of a descriptor or garbage.
LEMMA SockfdsType ==
  ASSUME Always, NEW c \in Conns
  PROVE  Sockfds(c) \subseteq Fds \cup {NULL}
  BY DEF Always, TypeOK, RtablesOK, Sockfds

\* The part that always holds, holds at the start.
LEMMA InitAlways == Init => Always
<1> SUFFICES ASSUME Init PROVE Always
  OBVIOUS
<1>1. \A th \in Threads : pc[th] = IF th = "main" THEN "watch" ELSE "idle"
  BY DEF Init
<1>2. TypeOK
  <2>1. 1 \in Servers
    BY ClientAssumption DEF ClientAssumption, Servers
  <2>2. Idle \in [op : Ops \cup {Unknown, Blank}, args : Seq(Words)]
    BY DEF Idle
  <2>3. /\ inbox \in [Conns -> Seq(Requests)]
        /\ outbox \in [Conns -> Seq(Requests)]
    BY DEF Init
  <2>4. tok \in Seq(Words \cup Servers) /\ args \in Seq(Words \cup Servers)
    BY DEF Init
  <2>5. /\ primary \in Servers \cup {NULL}
        /\ alive \subseteq Servers
        /\ watching \in BOOLEAN
        /\ event \in BOOLEAN
    BY <2>1 DEF Init
  <2>6. pc \in [Threads -> {"watch", "idle"}]
    BY DEF Init
  <2>7. /\ ended = "no"
        /\ addr \in [Threads -> Servers \cup {NULL}]
        /\ rtable \in Conns \cup {NULL}
        /\ freed \subseteq Conns
        /\ server \in [Conns -> Servers \cup {NULL}]
        /\ fd \in [Conns -> Fds \cup {NULL}]
        /\ open \in [Fds -> Conns \cup {NULL}]
        /\ code \in Ops \cup {Unknown}
        /\ ptr \in [Threads -> Conns \cup {NULL}]
        /\ sock \in Fds \cup {NULL}
        /\ on \in Conns \cup {NULL}
        /\ gone \subseteq Servers
    BY DEF Init
  <2>8. line \in [op : Ops \cup {Unknown, Blank}, args : Seq(Words)]
    BY <2>2 DEF Init
  <2>9. host \in Threads /\ text \in [Threads -> Seq(Servers)]
    <3>1. <<>> \in Seq(Servers)
      OBVIOUS
    <3>2. QED
      BY <3>1, TwoThreads DEF Init
  <2>10. QED
    BY <2>3, <2>4, <2>5, <2>6, <2>7, <2>8, <2>9 DEF TypeOK
<1>3. PcOK /\ AddrOK
  BY <1>1, TwoThreads DEF PcOK, AddrOK, StartLabels, WatcherLabels
<1>4. RtablesOK
  BY <1>1, TwoThreads DEF Init, RtablesOK, LoopLabels, CallLabels
<1>5. CallOK
  BY <1>1, TwoThreads DEF CallOK, CallLabels
<1>6. MadeBounded
  <2>1. Made = {}
    BY DEF Init, Made
  <2>2. Cardinality(Made) = 0
    BY <2>1, FS_EmptySet
  <2>3. Pending = 1
    BY <1>1, TwoThreads DEF Init, Pending, One, StartLabels, Seeking
  <2>4. QED
    BY <2>2, <2>3, ConnNumbers DEF Init, MadeBounded
<1>7. QED
  BY <1>2, <1>3, <1>4, <1>5, <1>6 DEF Always

-----------------------------------------------------------------------------
(* Types.                                                                  *)

\* Servers and ZooKeeper keep the types.
LEMMA TypeKeptByWorld ==
  ASSUME Always, World
  PROVE  TypeOK'
<1> USE DEF Always, TypeOK, hostVars, clientVars, connVars, lineVars, callVars, zkVars, wireVars, histVars
<1>0. UNCHANGED clientVars
  BY WorldOutside
<1>1. ASSUME Tell
      PROVE  watching' \in BOOLEAN /\ event' \in BOOLEAN
  BY <1>1, Zenon DEF Tell
<1>2. CASE BackupChanges
  BY <1>0, <1>1, <1>2 DEF BackupChanges
<1>3. CASE PrimaryExpires
  BY <1>0, <1>1, <1>3 DEF PrimaryExpires
<1>4. ASSUME NEW s \in Servers, PrimaryAppears(s)
      PROVE  TypeOK'
  BY <1>0, <1>1, <1>4 DEF PrimaryAppears
<1>5. ASSUME NEW s \in Servers, ServerDies(s)
      PROVE  TypeOK'
  BY <1>0, <1>5 DEF ServerDies
<1>6. ASSUME NEW c \in Conns, Serve(c)
      PROVE  TypeOK'
  <2>1. /\ Head(inbox[c]) \in Requests
        /\ Tail(inbox[c]) \in Seq(Requests)
    BY <1>6, HeadTailProperties DEF Serve
  <2>2. Append(outbox[c], Head(inbox[c])) \in Seq(Requests)
    BY <2>1, AppendProperties
  <2>3. inbox' \in [Conns -> Seq(Requests)] /\ outbox' \in [Conns -> Seq(Requests)]
    BY <1>6, <2>1, <2>2 DEF Serve
  <2>4. QED
    BY <1>0, <1>6, <2>3 DEF Serve
<1>7. QED
  BY <1>2, <1>3, <1>4, <1>5, <1>6 DEF World

\* rtable_connect keeps the types, in either thread.
LEMMA TypeKeptByConnect ==
  ASSUME Always, NEW th \in Threads, ConnectStep(th)
  PROVE  TypeOK'
<1> USE DEF Always, TypeOK, At, Goto, End, hostVars, connVars, lineVars, callVars, zkVars, wireVars, histVars
<1>1. CASE LookForPrimary(th)
  BY ZenonT(60), <1>1 DEF LookForPrimary
<1>8. CASE AllocateHost(th)
  <2>1. text' \in [Threads -> Seq(Servers)] /\ host' \in Threads
    BY <1>8 DEF AllocateHost
  <2>2. QED
    BY <1>8, <2>1 DEF AllocateHost
<1>2. CASE GetPrimary(th)
  <2>1. text' \in [Threads -> Seq(Servers)]
    <3>1. primary # NULL => <<primary, primary>> \in Seq(Servers)
      OBVIOUS
    <3>2. QED
      BY <1>2, <3>1 DEF GetPrimary
  <2>2. QED
    BY ZenonT(60), <1>2, <2>1 DEF GetPrimary
<1>3. CASE SplitHost(th)
  <2>1. text[host] \in Seq(Servers)
    OBVIOUS
  <2>2. CASE text[host] = <<>>
    <3>1. tok' \in Seq(Words \cup Servers)
      BY <1>3, <2>2 DEF SplitHost, Strtok
    <3>2. QED
      BY <1>3, <2>2, <3>1 DEF SplitHost
  <2>3. CASE text[host] # <<>>
    <3>1. Head(text[host]) \in Servers /\ Tail(text[host]) \in Seq(Servers)
      BY <2>1, <2>3, HeadTailProperties
    <3>2. Tail(text[host]) \in Seq(Words \cup Servers)
      BY <3>1
    <3>3. <<Head(text[host])>> \in Seq(Servers)
      BY <3>1
    <3>4. /\ tok' \in Seq(Words \cup Servers)
          /\ addr' \in [Threads -> Servers \cup {NULL}]
          /\ text' \in [Threads -> Seq(Servers)]
      BY <1>3, <2>3, <3>1, <3>2, <3>3 DEF SplitHost, Strtok
    <3>5. QED
      BY <1>3, <2>3, <3>4 DEF SplitHost
  <2>4. QED
    BY <2>2, <2>3
<1>4. CASE SplitPort(th)
  <2>1. tok' \in Seq(Words \cup Servers)
    BY <1>4 DEF SplitPort, Strtok
  <2>2. pc' \in [Threads -> {"watch", "exists", "get", "fill", "host", "port", "connect",
               "prompt", "code", "split", "arg", "quit", "call", "write", "read",
               "blocked", "failed", "idle", "close", "free"}]
    BY <1>4 DEF SplitPort
  <2>3. ended' \in {"no", "quit", "exit", "crash"}
    BY <1>4 DEF SplitPort
  <2>4. QED
    BY <1>4, <2>1, <2>2, <2>3 DEF SplitPort
<1>5. CASE Connect(th)
  <2>1. NewConn \in Conns /\ FreeFd \in Fds
    BY <1>5, RoomToConnect DEF Connect, Seeking
  <2>2. /\ server' \in [Conns -> Servers \cup {NULL}]
        /\ fd' \in [Conns -> Fds \cup {NULL}]
        /\ open' \in [Fds -> Conns \cup {NULL}]
        /\ rtable' \in Conns \cup {NULL}
        /\ addr' \in [Threads -> Servers \cup {NULL}]
    BY <1>5, <2>1 DEF Connect, Connected
  <2>3. QED
    BY <1>5, <2>2 DEF Connect, Connected
<1>6. CASE ConnectionRefused(th)
  BY <1>6 DEF ConnectionRefused
<1>7. QED
  BY <1>1, <1>2, <1>3, <1>4, <1>5, <1>6, <1>8 DEF ConnectStep

\* child_watcher_client keeps the types.
LEMMA TypeKeptByWatcher ==
  ASSUME Always, WatcherStep
  PROVE  TypeOK'
<1> USE DEF Always, TypeOK, At, Goto, End, hostVars, connVars, lineVars, callVars, zkVars, wireVars, histVars
<1>1. CASE Notified
  BY <1>1 DEF Notified
<1>2. CASE Disconnect
  <2>1. pc' \in [Threads -> {"watch", "exists", "get", "fill", "host", "port", "connect",
               "prompt", "code", "split", "arg", "quit", "call", "write", "read",
               "blocked", "failed", "idle", "close", "free"}]
    BY ZenonT(60), <1>2 DEF Disconnect
  <2>2. open' \in [Fds -> Conns \cup {NULL}]
    BY <1>2 DEF Disconnect, Close
  <2>3. QED
    BY <1>2, <2>1, <2>2 DEF Disconnect
<1>3. CASE FreeRtable
  <2>1. ptr["watcher"] \in Conns
    BY <1>3, TwoThreads DEF FreeRtable, RtablesOK
  <2>2. freed' \subseteq Conns
    BY <1>3, <2>1 DEF FreeRtable
  <2>3. pc' \in [Threads -> {"watch", "exists", "get", "fill", "host", "port", "connect",
               "prompt", "code", "split", "arg", "quit", "call", "write", "read",
               "blocked", "failed", "idle", "close", "free"}]
    BY ZenonT(60), <1>3 DEF FreeRtable
  <2>4. ended' \in {"no", "quit", "exit", "crash"}
    BY <1>3 DEF FreeRtable
  <2>5. QED
    BY <1>3, <2>2, <2>3, <2>4 DEF FreeRtable
<1>4. QED
  BY <1>1, <1>2, <1>3, TypeKeptByConnect, TwoThreads DEF WatcherStep

\* Where get_code leads.
LEMMA CodeLeads ==
  ASSUME TypeOK, GetCode
  PROVE  \/ Goto("main", "prompt")
         \/ Goto("main", "quit")
         \/ Goto("main", "split") /\ code' # Unknown /\ Arity(code') > 0
         \/ Goto("main", "call") /\ code' # Unknown /\ Arity(code') = 0
<1>1. Unknown \notin Ops
  BY ClientAssumption DEF ClientAssumption
<1>2. code' \in Ops \/ code' = Unknown
  BY DEF GetCode, TypeOK
<1> DEFINE lead == CASE code' \in {Unknown, "help"} -> "prompt"
                     [] code' = "quit"    -> "quit"
                     [] Arity(code') > 0  -> "split"
                     [] OTHER             -> "call"
<1>3. Goto("main", lead)
  BY DEF GetCode
<1>4. CASE code' = Unknown
  <2>1. Arity(code') = 0
    BY <1>1, <1>4 DEF Arity, Ops
  <2>2. lead = "prompt"
    BY <1>1, <1>4, <2>1 DEF Ops
  <2>3. QED
    BY <1>3, <2>2
<1>5. CASE code' = "help"
  <2>1. Arity(code') = 0
    BY <1>5 DEF Arity
  <2>2. lead = "prompt"
    BY <1>5, <2>1
  <2>3. QED
    BY <1>3, <2>2
<1>6. CASE code' = "quit"
  <2>1. Arity(code') = 0 /\ code' # Unknown
    BY <1>1, <1>6 DEF Arity, Ops
  <2>2. lead = "quit"
    BY <1>6, <2>1
  <2>3. QED
    BY <1>3, <2>2
<1>7. CASE code' \in {"get", "put"}
  <2>1. Arity(code') > 0 /\ code' # Unknown
    BY <1>1, <1>7 DEF Arity, Ops
  <2>2. lead = "split"
    BY <1>7, <2>1
  <2>3. QED
    BY <1>3, <2>1, <2>2
<1>8. CASE code' \in {"size", "getkeys", "table_print"}
  <2>1. Arity(code') = 0 /\ code' # Unknown
    BY <1>1, <1>8 DEF Arity, Ops
  <2>2. lead = "call"
    BY <1>8, <2>1
  <2>3. QED
    BY <1>3, <2>1, <2>2
<1>9. QED
  BY <1>2, <1>4, <1>5, <1>6, <1>7, <1>8 DEF Ops

\* main keeps the types.
LEMMA TypeKeptByMain ==
  ASSUME Always, Moves("main")
  PROVE  TypeOK'
<1> USE DEF Always, TypeOK, At, Goto, End, hostVars, connVars, lineVars, callVars, zkVars, wireVars, histVars
<1>0. "main" \in Threads
  BY TwoThreads
<1>1. CASE SetWatch
  BY <1>1 DEF SetWatch
<1>2. CASE InputEnds
  <2>1. line' \in [op : Ops \cup {Unknown, Blank}, args : Seq(Words)]
    <3>1. <<>> \in Seq(Words)
      OBVIOUS
    <3>2. [line EXCEPT !.args = <<>>] \in [op : Ops \cup {Unknown, Blank}, args : Seq(Words)]
      BY <3>1
    <3>3. QED
      BY <1>2, <3>2 DEF InputEnds
  <2>2. args' \in Seq(Words \cup Servers)
    BY <1>2 DEF InputEnds
  <2>3. QED
    BY <1>2, <2>1, <2>2 DEF InputEnds
<1>3. ASSUME NEW cmd \in Commands, ReadLine(cmd)
      PROVE  TypeOK'
  <2>1. line' \in [op : Ops \cup {Unknown, Blank}, args : Seq(Words)]
    BY <1>3, ClientAssumption DEF ReadLine, ClientAssumption
  <2>2. args' \in Seq(Words \cup Servers)
    BY <1>3 DEF ReadLine
  <2>3. QED
    BY <1>3, <2>1, <2>2 DEF ReadLine
<1>4. CASE GetCode
  <2>1. line.args \in Seq(Words)
    OBVIOUS
  <2>2. tok' \in Seq(Words \cup Servers)
    BY <1>4, <2>1, WordsAreArgs DEF GetCode, Strtok
  <2>3. code' \in Ops \cup {Unknown}
    BY <1>4 DEF GetCode, TypeOK
  <2>4. pc' \in [Threads -> {"watch", "exists", "get", "fill", "host", "port", "connect",
               "prompt", "code", "split", "arg", "quit", "call", "write", "read",
               "blocked", "failed", "idle", "close", "free"}]
    <3>1. PICK l \in {"prompt", "quit", "split", "call"} : Goto("main", l)
      BY <1>4, CodeLeads
    <3>2. QED
      BY <3>1
  <2>5. QED
    BY <1>4, <2>2, <2>3, <2>4 DEF GetCode
<1>5. CASE Split
  <2>1. line.args \in Seq(Words)
    OBVIOUS
  <2>2. tok' \in Seq(Words \cup Servers)
    BY <1>5, <2>1, WordsAreArgs DEF Split, Strtok
  <2>3. QED
    BY <1>5, <2>2 DEF Split
<1>6. CASE TakeArg
  <2>1. CASE tok = <<>>
    BY <1>6, <2>1 DEF TakeArg
  <2>2. CASE tok # <<>>
    <3>1. Head(tok) \in Words \cup Servers /\ Tail(tok) \in Seq(Words \cup Servers)
      BY <2>2, HeadTailProperties
    <3>2. Append(args, Head(tok)) \in Seq(Words \cup Servers)
      BY <3>1, AppendProperties
    <3>3. tok' \in Seq(Words \cup Servers) /\ args' \in Seq(Words \cup Servers)
      BY <1>6, <2>2, <3>1, <3>2 DEF TakeArg, Strtok
    <3>4. QED
      BY ZenonT(60), <1>6, <2>2, <3>3 DEF TakeArg
  <2>3. QED
    BY <2>1, <2>2
<1>7. CASE Quit
  BY <1>7 DEF Quit
<1>8. CASE Call
  BY <1>8 DEF Call
<1>9. CASE Write
  <2>1. ptr["main"] \in Conns /\ code \in Ops
    BY <1>0, <1>9 DEF Write, CallOK, CallLabels
  <2>2. PICK f \in Sockfds(ptr["main"]) :
          /\ sock' = f
          /\ IF Open(f) /\ server[open[f]] \in alive
               THEN /\ inbox' = [inbox EXCEPT ![open[f]] = Append(@, [op |-> code, args |-> args])]
                    /\ Goto("main", "read")
               ELSE /\ UNCHANGED inbox
                    /\ \/ Goto("main", "failed")
                       \/ Open(f) /\ Goto("main", "read")
    BY <1>9 DEF Write
  <2>3. f \in Fds \cup {NULL}
    BY <2>1, SockfdsType
  <2>4. [op |-> code, args |-> args] \in Requests
    BY <2>1 DEF Requests
  <2>5. inbox' \in [Conns -> Seq(Requests)]
    <3>1. CASE Open(f) /\ server[open[f]] \in alive
      <4>1. open[f] \in Conns
        BY <2>3, <3>1 DEF Open
      <4>2. Append(inbox[open[f]], [op |-> code, args |-> args]) \in Seq(Requests)
        BY <2>4, <4>1, AppendProperties
      <4>3. QED
        BY ZenonT(60), <2>2, <3>1, <4>2
    <3>2. CASE ~(Open(f) /\ server[open[f]] \in alive)
      BY <2>2, <3>2
    <3>3. QED
      BY <3>1, <3>2
  <2>6. \E l \in {"read", "failed"} : pc' = [pc EXCEPT !["main"] = l]
    BY <2>2
  <2>7. QED
    BY ZenonT(60), <1>9, <2>2, <2>3, <2>5, <2>6 DEF Write
<1>10. CASE Read
  BY ZenonT(60), <1>10 DEF Read, Open
<1>11. CASE TakeAnswer
  <2>1. on \in Conns
    BY <1>11 DEF TakeAnswer, CallOK
  <2>2. Tail(outbox[on]) \in Seq(Requests)
    BY <1>11, <2>1, HeadTailProperties DEF TakeAnswer
  <2>3. QED
    BY <1>11, <2>1, <2>2 DEF TakeAnswer, Return
<1>12. CASE EndOfFile
  BY ZenonT(60), <1>12 DEF EndOfFile
<1>13. CASE Fail
  BY ZenonT(60), <1>13 DEF Fail, Return, Close
<1>14. CASE GetCodeOfBlank
  <2>1. tok' \in Seq(Words \cup Servers)
    BY <1>14 DEF GetCodeOfBlank, Strtok
  <2>2. QED
    BY <1>14, <2>1 DEF GetCodeOfBlank
<1>15. CASE PrintOverruns
  <2>1. on \in Conns
    BY <1>15 DEF PrintOverruns, CallOK
  <2>2. Tail(outbox[on]) \in Seq(Requests)
    BY <1>15, <2>1, HeadTailProperties DEF PrintOverruns
  <2>3. QED
    BY <1>15, <2>1, <2>2 DEF PrintOverruns
<1>16. QED
  BY <1>0, <1>1, <1>2, <1>3, <1>4, <1>5, <1>6, <1>7, <1>8, <1>9, <1>10, <1>11, <1>12, <1>13, <1>14, <1>15,
     TypeKeptByConnect
     DEF Moves, MainStep

-----------------------------------------------------------------------------
(* Where the threads go.                                                   *)

\* What servers and ZooKeeper leave alone.
LEMMA WorldLeaves ==
  ASSUME World
  PROVE  UNCHANGED <<rtable, freed, server, fd, open, line, code, args, typed,
                     sock, on, host, text, pc, ended, tok, addr, ptr, harm>>
  BY WorldOutside DEF clientVars, connVars, lineVars, callVars, hostVars

\* A thread on its way to a connection goes on, gives up or connects.
LEMMA ConnectMoves ==
  ASSUME Always, NEW th \in Threads, ConnectStep(th)
  PROVE  /\ ended = "no" /\ pc[th] \in Seeking
         /\ pc'[Other(th)] = pc[Other(th)] /\ addr'[Other(th)] = addr[Other(th)]
         /\ UNCHANGED <<zkVars, wireVars, lineVars, callVars, histVars, ptr, freed>>
         /\ \/ pc'[th] = pc[th] /\ addr'[th] = addr[th]
            \/ pc[th] = "exists" /\ pc'[th] = "get"
            \/ pc[th] = "exists" /\ pc'[th] = "close" /\ th = "watcher"
            \/ pc[th] = "get" /\ pc'[th] = "fill"
            \/ pc[th] = "fill" /\ pc'[th] = "host"
            \/ pc[th] = "host" /\ pc'[th] = "port" /\ addr'[th] # NULL
            \/ pc[th] = "port" /\ pc'[th] = "connect" /\ addr'[th] = addr[th]
            \/ Connect(th) /\ th = "main" /\ pc'[th] = "prompt"
            \/ Connect(th) /\ th = "watcher" /\ pc'[th] = "idle"
<1> USE DEF Always, TypeOK, At, Goto, End, Seeking
<1>0. Other(th) \in Threads /\ Other(th) # th /\ th \in {"main", "watcher"}
  BY TwoThreads
<1>1. CASE LookForPrimary(th)
  BY <1>0, <1>1 DEF LookForPrimary, connVars
<1>2. CASE GetPrimary(th)
  BY <1>0, <1>2 DEF GetPrimary, connVars
<1>8. CASE AllocateHost(th)
  BY <1>0, <1>8 DEF AllocateHost, connVars
<1>3. CASE SplitHost(th)
  <2>1. text[host] # <<>> => Head(text[host]) # NULL
    <3>1. text[host] # <<>> => Head(text[host]) \in Servers
      BY HeadTailProperties
    <3>2. QED
      BY <3>1, ConnNumbers
  <2>2. QED
    BY <1>0, <1>3, <2>1 DEF SplitHost, connVars
<1>4. CASE SplitPort(th)
  BY <1>0, <1>4 DEF SplitPort, connVars
<1>5. CASE Connect(th)
  BY <1>0, <1>5 DEF Connect, Connected
<1>6. CASE ConnectionRefused(th)
  BY <1>0, <1>6 DEF ConnectionRefused, connVars
<1>7. QED
  BY <1>1, <1>2, <1>3, <1>4, <1>5, <1>6, <1>8 DEF ConnectStep

\* A step that makes no connection leaves them as they are.
LEMMA ConnectOrNot ==
  ASSUME NEW th \in Threads, ConnectStep(th)
  PROVE  Connect(th) \/ UNCHANGED connVars
<1>1. CASE LookForPrimary(th)
  BY <1>1 DEF LookForPrimary
<1>2. CASE GetPrimary(th)
  BY <1>2 DEF GetPrimary
<1>3. CASE SplitHost(th)
  BY <1>3 DEF SplitHost
<1>4. CASE SplitPort(th)
  BY <1>4 DEF SplitPort
<1>5. CASE ConnectionRefused(th)
  BY <1>5 DEF ConnectionRefused
<1>6. CASE AllocateHost(th)
  BY <1>6 DEF AllocateHost
<1>7. QED
  BY <1>1, <1>2, <1>3, <1>4, <1>5, <1>6 DEF ConnectStep

\* The watcher's steps outside ConnectStep.
LEMMA WatcherMoves ==
  ASSUME Always, Notified \/ Disconnect \/ FreeRtable
  PROVE  /\ ended = "no"
         /\ pc'["main"] = pc["main"] /\ ptr'["main"] = ptr["main"]
         /\ UNCHANGED <<primary, alive, wireVars, lineVars, callVars, histVars, hostVars, tok, addr, harm>>
         /\ UNCHANGED <<rtable, server, fd>>
         /\ \/ event /\ ~event' /\ pc["watcher"] = "idle" /\ pc'["watcher"] = "exists"
            \/ /\ UNCHANGED event
               /\ pc["watcher"] \in {"close", "free"} /\ pc'["watcher"] \in {"idle", "free"}
<1> USE DEF Always, TypeOK, At, Goto, End
<1>0. Threads = {"main", "watcher"}
  BY TwoThreads
<1>1. CASE Notified
  BY <1>0, <1>1 DEF Notified, connVars, zkVars
<1>2. CASE Disconnect
  BY <1>0, <1>2 DEF Disconnect, connVars, zkVars
<1>3. CASE FreeRtable
  BY <1>0, <1>3 DEF FreeRtable, connVars, zkVars
<1>4. QED
  BY <1>1, <1>2, <1>3

\* main's steps outside ConnectStep.
LEMMA MainMoves ==
  ASSUME Always, Moves("main"), ~ConnectStep("main")
  PROVE  /\ ended = "no"
         /\ pc'["watcher"] = pc["watcher"] /\ ptr'["watcher"] = ptr["watcher"]
         /\ UNCHANGED <<primary, alive, event, histVars, hostVars, addr>>
         /\ UNCHANGED <<rtable, freed, server, fd>>
         /\ \/ pc["main"] = "watch" /\ pc'["main"] = "exists"
            \/ pc["main"] \in LoopLabels /\ pc'["main"] \in LoopLabels
<1> USE DEF Always, At, Goto, End, LoopLabels, CallLabels
<1>0. Threads = {"main", "watcher"} /\ DOMAIN pc = Threads /\ DOMAIN ptr = Threads
  BY TwoThreads DEF TypeOK
<1>p. pc \in [Threads -> StartLabels \cup LoopLabels \cup WatcherLabels]
  BY DEF TypeOK, StartLabels, WatcherLabels, Seeking
<1>1. CASE SetWatch
  BY <1>0, <1>p, <1>1 DEF SetWatch, connVars
<1>2. CASE InputEnds
  BY <1>0, <1>p, <1>2 DEF InputEnds, connVars, zkVars
<1>3. ASSUME NEW cmd \in Commands, ReadLine(cmd)
      PROVE  /\ ended = "no" /\ pc["main"] = "prompt" /\ pc' = [pc EXCEPT !["main"] = "code"]
             /\ UNCHANGED <<ptr, zkVars, histVars, hostVars, addr, connVars>>
  BY <1>3 DEF ReadLine
<1>4. CASE GetCode
  <2>1. \E l \in {"prompt", "quit", "split", "call"} : pc' = [pc EXCEPT !["main"] = l]
    BY <1>4, CodeLeads
  <2>2. ended = "no" /\ pc["main"] = "code" /\ UNCHANGED <<ptr, zkVars, histVars, hostVars, addr, connVars>>
    BY <1>4 DEF GetCode
  <2>3. QED
    BY <1>0, <1>p, <2>1, <2>2 DEF connVars, zkVars
<1>5. CASE Split
  BY <1>0, <1>p, <1>5 DEF Split, connVars, zkVars
<1>6. CASE TakeArg
  BY <1>0, <1>p, <1>6 DEF TakeArg, connVars, zkVars
<1>7. CASE Quit
  BY <1>0, <1>p, <1>7 DEF Quit, connVars, zkVars
<1>8. CASE Call
  BY <1>0, <1>p, <1>8 DEF Call, connVars, zkVars
<1>9. CASE Write
  <2>1. \E l \in {"read", "failed"} : pc' = [pc EXCEPT !["main"] = l]
    BY <1>9 DEF Write
  <2>2. ended = "no" /\ pc["main"] = "write" /\ UNCHANGED <<ptr, zkVars, histVars, hostVars, addr, connVars>>
    BY <1>9 DEF Write
  <2>3. QED
    BY <1>0, <1>p, <2>1, <2>2 DEF connVars, zkVars
<1>10. CASE Read
  BY <1>0, <1>p, <1>10 DEF Read, connVars, zkVars
<1>11. CASE TakeAnswer
  BY <1>0, <1>p, <1>11 DEF TakeAnswer, Return, connVars, zkVars
<1>12. CASE EndOfFile
  BY <1>0, <1>p, <1>12 DEF EndOfFile, connVars, zkVars
<1>13. CASE Fail
  BY <1>0, <1>p, <1>13 DEF Fail, Return, connVars, zkVars
<1>14. CASE GetCodeOfBlank
  BY <1>0, <1>p, <1>14 DEF GetCodeOfBlank, connVars, zkVars
<1>15. CASE PrintOverruns
  BY <1>0, <1>p, <1>15 DEF PrintOverruns, connVars, zkVars
<1>16. QED
  BY <1>0, <1>p, <1>1, <1>2, <1>3, <1>4, <1>5, <1>6, <1>7, <1>8, <1>9, <1>10, <1>11, <1>12, <1>13,
     <1>14, <1>15
     DEF Moves, MainStep, connVars, zkVars

\* main's steps forget no harm.
LEMMA MainHarm ==
  ASSUME Moves("main"), ~ConnectStep("main")
  PROVE  UNCHANGED gone /\ harm \subseteq harm'
  BY DEF Moves, MainStep, InputEnds, ReadLine, SetWatch, GetCode, GetCodeOfBlank, Split, TakeArg,
         Quit, Call, Write, Read, TakeAnswer, PrintOverruns, EndOfFile, Fail, Strtok, histVars

-----------------------------------------------------------------------------
\* Either thread stays in its own code, and the address it connects to is one
\* that it has read.
LEMMA PcKept ==
  ASSUME Always, [Next]_vars
  PROVE  PcOK' /\ AddrOK'
<1> USE DEF Always, PcOK, AddrOK
<1> USE DEF StartLabels, LoopLabels, CallLabels, WatcherLabels, Seeking
<1>0. Threads = {"main", "watcher"}
  BY TwoThreads
<1>1. CASE Stays
  BY <1>1 DEF Stays
<1>2. CASE World
  BY <1>2, WorldLeaves
<1>3. ASSUME ConnectStep("main")
      PROVE  PcOK' /\ AddrOK'
  BY <1>0, <1>3, TwoThreads, ConnectMoves
<1>4. ASSUME ConnectStep("watcher")
      PROVE  PcOK' /\ AddrOK'
  BY <1>0, <1>4, TwoThreads, ConnectMoves
<1>5. ASSUME Moves("main"), ~ConnectStep("main")
      PROVE  PcOK' /\ AddrOK'
  BY <1>0, <1>5, MainMoves
<1>6. ASSUME Notified \/ Disconnect \/ FreeRtable
      PROVE  PcOK' /\ AddrOK'
  BY <1>0, <1>6, WatcherMoves
<1>7. QED
  BY <1>1, <1>2, <1>3, <1>4, <1>5, <1>6, Steps DEF Moves, WatcherStep

-----------------------------------------------------------------------------
(* The connections.                                                        *)

\* What a connection sets up.
LEMMA ConnectMakes ==
  ASSUME Always, NEW th \in Threads, Connect(th)
  PROVE  /\ NewConn \in Conns /\ server[NewConn] = NULL /\ NewConn # NULL
         /\ FreeFd \in Fds /\ open[FreeFd] = NULL /\ FreeFd # NULL
         /\ addr[th] \in Servers
         /\ server' = [server EXCEPT ![NewConn] = addr[th]]
         /\ fd' = [fd EXCEPT ![NewConn] = FreeFd]
         /\ open' = [open EXCEPT ![FreeFd] = NewConn]
         /\ rtable' = NewConn
         /\ pc' = [pc EXCEPT ![th] = IF th = "main" THEN "prompt" ELSE "idle"]
         /\ pc[th] = "connect"
<1> USE DEF Always, Connect, At
<1>1. NewConn \in Conns /\ server[NewConn] = NULL /\ FreeFd \in Fds /\ open[FreeFd] = NULL
  BY RoomToConnect DEF Seeking
<1>2. NewConn # NULL /\ FreeFd # NULL
  BY <1>1, ConnNumbers DEF Fds
<1>3. addr[th] \in Servers
  BY DEF AddrOK, TypeOK
<1>4. QED
  BY <1>1, <1>2, <1>3 DEF Connected, Goto

\* A connection that is made gets an rtable of its own.
LEMMA RtablesKeptByConnect ==
  ASSUME Always, NEW th \in Threads, Connect(th)
  PROVE  RtablesOK'
<1> USE DEF Always, TypeOK, RtablesOK
<1>1. UNCHANGED <<freed, ptr>>
  BY DEF Connect
<1>2. \A c \in Conns : server[c] # NULL => c # NewConn
  BY ConnectMakes
<1>3. addr[th] # NULL
  BY ConnectMakes, ConnNumbers
<1>4. rtable' # NULL /\ server'[rtable'] # NULL
  BY <1>3, ConnectMakes
<1>5. \A c \in Conns : server'[c] # NULL => fd'[c] # NULL
  BY ZenonT(60), <1>3, ConnectMakes
<1>6. ASSUME NEW f \in Fds, open'[f] # NULL
      PROVE  server'[open'[f]] # NULL /\ fd'[open'[f]] = f
  <2>1. CASE f = FreeFd
    BY <1>3, <2>1, ConnectMakes
  <2>2. CASE f # FreeFd
    <3>1. open'[f] = open[f] /\ open[f] \in Conns
      BY <1>6, <2>2, ConnectMakes
    <3>2. server[open[f]] # NULL /\ fd[open[f]] = f
      BY <1>6, <3>1
    <3>3. QED
      BY <1>2, <3>1, <3>2, ConnectMakes
  <2>3. QED
    BY <2>1, <2>2
<1>7. pc'["watcher"] = "free" => ptr'["watcher"] # NULL /\ rtable' # NULL
  BY <1>1, TwoThreads, ConnectMakes
<1>8. QED
  BY <1>4, <1>5, <1>6, <1>7

\* Every rtable in use stays one that was made.
LEMMA RtablesKept ==
  ASSUME Always, [Next]_vars
  PROVE  RtablesOK'
<1> USE DEF Always, TypeOK, RtablesOK
<1>0. Threads = {"main", "watcher"}
  BY TwoThreads
<1>1. CASE Stays
  BY <1>1 DEF Stays, connVars
<1>2. CASE World
  BY <1>2, WorldLeaves
<1>3. ASSUME NEW th \in Threads, ConnectStep(th), ~Connect(th)
      PROVE  RtablesOK'
  <2>1. UNCHANGED <<rtable, freed, server, fd, open, ptr>>
    BY <1>3, ConnectMoves, ConnectOrNot DEF connVars
  <2>2. pc'["main"] \in LoopLabels => pc["main"] \in LoopLabels
    BY SMTT(30), <1>0, <1>3, ConnectMoves, TwoThreads DEF Seeking, LoopLabels, CallLabels
  <2>3. pc'["watcher"] = "free" => pc["watcher"] = "free"
    BY <1>0, <1>3, ConnectMoves, TwoThreads DEF Seeking
  <2>4. QED
    BY <2>1, <2>2, <2>3
<1>4. CASE Disconnect
  <2>1. UNCHANGED <<rtable, freed, server, fd>> /\ pc'["main"] = pc["main"]
    BY <1>4, WatcherMoves DEF Disconnect
  <2>2. \A f \in Fds : open'[f] # NULL => open'[f] = open[f]
    BY <1>4 DEF Disconnect, Close
  <2>3. pc'["watcher"] = "free" => ptr'["watcher"] # NULL /\ rtable # NULL
    BY <1>0, <1>4 DEF Disconnect, Goto
  <2>4. QED
    BY <2>1, <2>2, <2>3
<1>5. CASE FreeRtable
  <2>1. UNCHANGED <<rtable, server, fd, open, ptr>> /\ pc'["main"] = pc["main"]
    BY <1>5, WatcherMoves DEF FreeRtable
  <2>2. rtable # NULL
    BY <1>5 DEF FreeRtable, At
  <2>3. pc'["watcher"] = "free" => ptr["watcher"] # NULL
    BY <1>5 DEF FreeRtable, At
  <2>4. QED
    BY <2>1, <2>2, <2>3
<1>6. CASE Notified
  BY <1>6, WatcherMoves DEF Notified, connVars
<1>7. ASSUME Moves("main"), ~ConnectStep("main")
      PROVE  RtablesOK'
  <2>1. /\ UNCHANGED <<rtable, freed, server, fd>>
        /\ pc'["watcher"] = pc["watcher"] /\ ptr'["watcher"] = ptr["watcher"]
        /\ pc'["main"] \in LoopLabels => pc["main"] \in LoopLabels
    BY <1>7, MainMoves DEF LoopLabels, CallLabels
  <2>2. CASE Fail
    <3>1. \A f \in Fds : open'[f] # NULL => open'[f] = open[f]
      BY <2>2 DEF Fail, Close
    <3>2. QED
      BY <2>1, <3>1
  <2>3. CASE ~Fail
    <3>1. UNCHANGED open
      BY <1>7, <2>3 DEF Moves, MainStep, SetWatch, InputEnds, ReadLine, GetCode, GetCodeOfBlank, Split, TakeArg, Quit,
                        Call, Write, Read, TakeAnswer, PrintOverruns, EndOfFile, connVars
    <3>2. QED
      BY <2>1, <3>1
  <2>4. QED
    BY <2>2, <2>3
<1>8. QED
  BY <1>0, <1>1, <1>2, <1>3, <1>4, <1>5, <1>6, <1>7, Steps, ConnectOrNot, RtablesKeptByConnect
     DEF Moves, WatcherStep

\* A connection that has been made leads to its server for good.
LEMMA ServersStay ==
  ASSUME Always, [Next]_vars, NEW c \in Conns, server[c] # NULL
  PROVE  server'[c] = server[c]
<1>0. Threads = {"main", "watcher"}
  BY TwoThreads
<1>1. CASE Stays
  BY <1>1 DEF Stays, connVars
<1>2. CASE World
  BY <1>2, WorldLeaves
<1>3. ASSUME NEW th \in Threads, ConnectStep(th)
      PROVE  server'[c] = server[c]
  BY <1>3, ConnectOrNot, ConnectMakes DEF connVars, Always, TypeOK
<1>4. CASE Notified \/ Disconnect \/ FreeRtable
  BY <1>4, WatcherMoves
<1>5. ASSUME Moves("main"), ~ConnectStep("main")
      PROVE  server'[c] = server[c]
  BY <1>5, MainMoves
<1>6. QED
  BY <1>0, <1>1, <1>2, <1>3, <1>4, <1>5, Steps DEF Moves, WatcherStep

\* A call goes on with the rtable and the socket it began with.
LEMMA CallKept ==
  ASSUME Always, [Next]_vars
  PROVE  CallOK'
<1> USE DEF Always, CallOK, CallLabels
<1>0. Threads = {"main", "watcher"}
  BY TwoThreads
<1>p. pc \in [Threads -> StartLabels \cup LoopLabels \cup WatcherLabels]
  BY DEF TypeOK, StartLabels, WatcherLabels, Seeking, LoopLabels
<1>q. ptr \in [Threads -> Conns \cup {NULL}] /\ on \in Conns \cup {NULL}
  BY DEF TypeOK
<1>r. \A c \in Conns : server[c] # NULL => server'[c] # NULL
  BY ServersStay
<1>1. CASE Stays
  BY <1>1 DEF Stays, connVars, lineVars, callVars
<1>2. CASE World
  BY <1>2, WorldLeaves
<1>3. ASSUME NEW th \in Threads, ConnectStep(th)
      PROVE  CallOK'
  <2>1. UNCHANGED <<code, on, ptr>>
    BY <1>3, ConnectMoves DEF lineVars, callVars
  <2>2. pc'["main"] \notin {"split", "arg"} \cup CallLabels \/ pc'["main"] = pc["main"]
    BY <1>0, <1>3, TwoThreads, ConnectMoves
  <2>3. QED
    BY <1>0, <2>1, <2>2, <1>q, <1>r
<1>4. CASE Notified \/ Disconnect \/ FreeRtable
  <2>1. UNCHANGED <<code, on>> /\ ptr'["main"] = ptr["main"] /\ pc'["main"] = pc["main"]
    BY <1>4, WatcherMoves DEF lineVars, callVars
  <2>2. QED
    BY <1>0, <1>q, <1>r, <2>1
<1>5. CASE GetCode
  <2>1. /\ pc'["main"] \in {"prompt", "quit", "split", "call"}
        /\ pc'["main"] \in {"split", "call"} => code' # Unknown
    BY <1>0, <1>p, <1>5, CodeLeads DEF Goto
  <2>2. QED
    BY <2>1
<1>6. CASE Call
  <2>1. pc'["main"] = "write" /\ ptr'["main"] = rtable /\ code' = code /\ pc["main"] = "call"
    BY <1>0, <1>p, <1>q, <1>6 DEF Call, Goto, At, lineVars
  <2>2. rtable \in Conns /\ server[rtable] # NULL
    BY <2>1 DEF RtablesOK, LoopLabels, TypeOK
  <2>3. QED
    BY <2>1, <2>2, <1>r, ConnNumbers
<1>7. CASE Read
  <2>1. pc["main"] = "read" /\ code' = code /\ pc'["main"] \in {"blocked", "failed"}
    BY <1>0, <1>p, <1>7 DEF Read, Goto, At, lineVars
  <2>2. pc'["main"] = "blocked" => Open(sock) /\ on' = open[sock]
    BY <1>0, <1>p, <1>7 DEF Read, Goto
  <2>3. Open(sock) => open[sock] # NULL /\ open[sock] \in Conns /\ server[open[sock]] # NULL
    BY DEF Open, RtablesOK, TypeOK
  <2>4. QED
    BY <2>1, <2>2, <2>3, <1>r
<1>8. CASE SetWatch \/ InputEnds \/ Quit \/ \E cmd \in Commands : ReadLine(cmd)
  <2>1. pc'["main"] \in {"exists", "code", "quit"}
    BY <1>0, <1>p, <1>8 DEF SetWatch, InputEnds, Quit, ReadLine, Goto, At
  <2>2. QED
    BY <2>1
<1>9. CASE Split \/ TakeArg \/ EndOfFile
  <2>1. /\ code' = code /\ pc["main"] \in {"split", "arg", "blocked"}
        /\ pc'["main"] \in {"arg", "call", "read", "failed"}
    BY <1>0, <1>p, <1>9 DEF Split, TakeArg, EndOfFile, Goto, At, lineVars
  <2>2. QED
    BY <2>1
<1>10. CASE Write
  <2>1. \E l \in {"read", "failed"} : pc' = [pc EXCEPT !["main"] = l]
    BY <1>10 DEF Write, Goto
  <2>2. code' = code /\ pc["main"] = "write"
    BY <1>10 DEF Write, At, lineVars
  <2>3. QED
    BY <1>0, <1>p, <2>1, <2>2
<1>11. CASE TakeAnswer \/ Fail
  <2>1. /\ code' = code /\ pc["main"] \in {"blocked", "failed"}
        /\ pc'["main"] \in {"prompt", "failed"}
    BY <1>0, <1>p, <1>11 DEF TakeAnswer, Fail, Return, Goto, At, lineVars
  <2>2. QED
    BY <2>1
<1>12. CASE GetCodeOfBlank \/ PrintOverruns
  <2>1. UNCHANGED <<code, on, ptr, pc>>
    BY <1>12 DEF GetCodeOfBlank, PrintOverruns, lineVars, callVars
  <2>2. QED
    BY <1>0, <1>q, <1>r, <2>1
<1>13. QED
  BY <1>0, <1>1, <1>2, <1>3, <1>4, <1>5, <1>6, <1>7, <1>8, <1>9, <1>10, <1>11, <1>12, Steps
     DEF Moves, MainStep, WatcherStep

\* No more connections are made than the changes of the primary ask for.
LEMMA CountKept ==
  ASSUME Always, [Next]_vars
  PROVE  MadeBounded'
<1> USE DEF Always, MadeBounded
<1>0. Threads = {"main", "watcher"} /\ pc \in [Threads -> StartLabels \cup LoopLabels \cup WatcherLabels]
  BY TwoThreads DEF TypeOK, StartLabels, WatcherLabels, Seeking, LoopLabels, CallLabels
<1>m. Cardinality(Made) \in Nat /\ MaxChanges \in Nat
  BY MadeCount, ConnNumbers
<1>n. Pending \in Nat
  BY PendingNumber
<1>k. ASSUME UNCHANGED server
      PROVE  Cardinality(Made') = Cardinality(Made)
  BY <1>k DEF Made
<1>l. ASSUME UNCHANGED <<server, changes>>, Pending' \in Nat, Pending' <= Pending
      PROVE  MadeBounded'
  BY <1>k, <1>l, <1>m, <1>n
<1>1. CASE Stays
  BY <1>1, <1>l, <1>n DEF Stays, connVars, histVars, zkVars, Pending
<1>2. CASE World
  <2>1. UNCHANGED <<server, pc>>
    BY <1>2, WorldLeaves
  <2>2. \/ UNCHANGED <<event, changes>>
        \/ changes < MaxChanges /\ changes' = changes + 1
    BY <1>2 DEF World, BackupChanges, PrimaryExpires, PrimaryAppears, ServerDies, Serve, Tell, zkVars, histVars
  <2>3. Pending' \in Nat /\ Pending' <= Pending + 1
    BY <2>1 DEF Pending, One
  <2>4. UNCHANGED event => Pending' = Pending
    BY <2>1 DEF Pending
  <2>5. QED
    BY <1>k, <1>m, <1>n, <2>1, <2>2, <2>3, <2>4
<1>3. ASSUME NEW th \in Threads, ConnectStep(th), ~Connect(th)
      PROVE  MadeBounded'
  <2>1. UNCHANGED <<server, changes, event>>
    BY <1>3, ConnectMoves, ConnectOrNot DEF connVars, histVars, zkVars
  <2>2. /\ pc'["main"] \in StartLabels => pc["main"] \in StartLabels
        /\ pc'["watcher"] \in Seeking => pc["watcher"] \in Seeking
    BY <1>0, <1>3, ConnectMoves, TwoThreads DEF StartLabels
  <2>3. Pending' \in Nat /\ Pending' <= Pending
    BY <2>1, <2>2 DEF Pending, One
  <2>4. QED
    BY <1>l, <2>1, <2>3
<1>4. ASSUME NEW th \in Threads, Connect(th)
      PROVE  MadeBounded'
  <2>1. Made' = Made \cup {NewConn} /\ NewConn \notin Made
    BY <1>4, ConnectMakes, ConnNumbers DEF Made, TypeOK
  <2>2. Cardinality(Made') = Cardinality(Made) + 1
    BY <2>1, MadeCount, FS_AddElement
  <2>3. UNCHANGED <<event, changes>>
    BY <1>4 DEF Connect, zkVars, histVars
  <2>4. /\ pc' = [pc EXCEPT ![th] = IF th = "main" THEN "prompt" ELSE "idle"]
        /\ pc[th] = "connect"
    BY <1>4, ConnectMakes
  <2>5. CASE th = "main"
    <3>1. /\ pc["main"] \in StartLabels /\ pc'["main"] \notin StartLabels
          /\ pc'["watcher"] = pc["watcher"]
      BY <1>0, <2>4, <2>5 DEF StartLabels, Seeking
    <3>2. Pending' \in Nat /\ Pending' + 1 = Pending
      BY <2>3, <3>1 DEF Pending, One
    <3>3. Cardinality(Made') \in Nat /\ Cardinality(Made') + Pending' = Cardinality(Made) + Pending
      <4>1. \A made, pending, after \in Nat :
              pending = after + 1 => made + 1 \in Nat /\ (made + 1) + after = made + pending
        OBVIOUS
      <4>2. Pending = Pending' + 1
        BY <3>2
      <4>3. Cardinality(Made) + 1 \in Nat /\ (Cardinality(Made) + 1) + Pending' = Cardinality(Made) + Pending
        BY <1>m, <1>n, <3>2, <4>1, <4>2
      <4>4. QED
        BY <2>2, <4>3
    <3>4. Cardinality(Made') + Pending' <= 1 + changes'
      BY <2>3, <3>3
    <3>5. QED
      BY <2>3, <3>4
  <2>6. CASE th = "watcher"
    <3>1. /\ pc["watcher"] \in Seeking /\ pc'["watcher"] \notin Seeking
          /\ pc'["main"] = pc["main"]
      BY <1>0, <2>4, <2>6 DEF Seeking
    <3>2. Pending' \in Nat /\ Pending' + 1 = Pending
      BY <2>3, <3>1 DEF Pending, One
    <3>3. Cardinality(Made') \in Nat /\ Cardinality(Made') + Pending' = Cardinality(Made) + Pending
      <4>1. \A made, pending, after \in Nat :
              pending = after + 1 => made + 1 \in Nat /\ (made + 1) + after = made + pending
        OBVIOUS
      <4>2. Pending = Pending' + 1
        BY <3>2
      <4>3. Cardinality(Made) + 1 \in Nat /\ (Cardinality(Made) + 1) + Pending' = Cardinality(Made) + Pending
        BY <1>m, <1>n, <3>2, <4>1, <4>2
      <4>4. QED
        BY <2>2, <4>3
    <3>4. Cardinality(Made') + Pending' <= 1 + changes'
      BY <2>3, <3>3
    <3>5. QED
      BY <2>3, <3>4
  <2>7. QED
    BY <1>0, <2>5, <2>6
<1>5. ASSUME Notified \/ Disconnect \/ FreeRtable
      PROVE  MadeBounded'
  <2>1. UNCHANGED <<server, changes>> /\ pc'["main"] = pc["main"]
    BY <1>5, WatcherMoves DEF histVars
  <2>2. \/ event /\ ~event'
        \/ UNCHANGED event /\ pc'["watcher"] \notin Seeking
    BY <1>5, WatcherMoves DEF Seeking
  <2>3. Pending' \in Nat /\ Pending' <= Pending
    BY <2>1, <2>2 DEF Pending, One
  <2>4. QED
    BY <1>l, <2>1, <2>3
<1>6. ASSUME Moves("main"), ~ConnectStep("main")
      PROVE  MadeBounded'
  <2>1. /\ UNCHANGED <<server, changes, event>> /\ pc'["watcher"] = pc["watcher"]
        /\ pc'["main"] \in StartLabels => pc["main"] \in StartLabels
    BY <1>6, MainMoves DEF histVars, StartLabels, LoopLabels, CallLabels, Seeking
  <2>2. Pending' \in Nat /\ Pending' <= Pending
    BY <2>1 DEF Pending, One
  <2>3. QED
    BY <1>l, <2>1, <2>2
<1>7. QED
  BY <1>0, <1>1, <1>2, <1>3, <1>4, <1>5, <1>6, Steps DEF Moves, WatcherStep

\* Every step keeps the part that always holds.
LEMMA AlwaysKept ==
  ASSUME Always, [Next]_vars
  PROVE  Always'
<1>1. TypeOK'
  <2>1. CASE Stays
    BY <2>1 DEF Stays, connVars, lineVars, callVars, hostVars, zkVars, wireVars, histVars, TypeOK, Always
  <2>2. QED
    BY <2>1, Steps, TypeKeptByWorld, TypeKeptByMain, TypeKeptByWatcher DEF Moves
<1>2. QED
  BY <1>1, PcKept, RtablesKept, CallKept, CountKept DEF Always

-----------------------------------------------------------------------------
(* primary_host_ip.                                                        *)

\* What strtok finds in an address.
LEMMA TwoWords ==
  ASSUME NEW s \in Servers
  PROVE  <<s, s>> # <<>> /\ Head(<<s, s>>) = s /\ Tail(<<s, s>>) = <<s>>
<1>1. <<s, s>> \in Seq(Servers) /\ Len(<<s, s>>) = 2
  OBVIOUS
<1>2. <<s, s>> # <<>>
  BY <1>1
<1>3. Head(<<s, s>>) = s
  BY <1>1, <1>2, HeadTailProperties
<1>4. /\ Tail(<<s, s>>) \in Seq(Servers)
      /\ Len(Tail(<<s, s>>)) = 1
      /\ Tail(<<s, s>>)[1] = s
  BY <1>1, <1>2, HeadTailProperties
<1>5. <<s>> \in Seq(Servers) /\ Len(<<s>>) = 1
  OBVIOUS
<1>6. Tail(<<s, s>>) = <<s>>
  BY <1>4, <1>5, SeqEqual
<1>7. QED
  BY <1>2, <1>3, <1>6

\* A thread connects with the address it has read itself, unless the other one
\* has replaced it.
LEMMA HostKept ==
  ASSUME Always, HostInv, [Next]_vars
  PROVE  HostInv'
<1> SUFFICES ASSUME "address" \notin harm'
             PROVE  HostOK'
  BY DEF HostInv
<1> USE DEF Always, TypeOK
<1>0. Threads = {"main", "watcher"}
  BY TwoThreads
<1>a. ASSUME UNCHANGED <<harm, host, text>>,
             \A th \in Threads : pc'[th] = pc[th] \/ pc'[th] \notin {"fill", "host"}
      PROVE  HostOK'
  BY <1>a DEF HostInv, HostOK
<1>b. ASSUME UNCHANGED <<host, text>>, harm \subseteq harm',
             \A th \in Threads : pc'[th] = pc[th] \/ pc'[th] \notin {"fill", "host"}
      PROVE  HostOK'
  BY <1>b DEF HostInv, HostOK
<1>1. CASE Stays
  BY <1>1, <1>b DEF Stays, hostVars
<1>2. CASE World
  BY <1>2, <1>b, WorldLeaves
<1>3. ASSUME NEW th \in Threads, ConnectStep(th)
      PROVE  HostOK'
  <2>0. /\ Other(th) \in Threads /\ Other(th) # th
        /\ \A t \in Threads : t = th \/ t = Other(th)
        /\ pc'[Other(th)] = pc[Other(th)]
    BY <1>0, <1>3, TwoThreads, ConnectMoves
  <2>1. CASE AllocateHost(th)
    <3>1. /\ host' = th /\ text' = [text EXCEPT ![th] = <<>>]
          /\ pc' = [pc EXCEPT ![th] = "fill"]
          /\ harm' = harm \cup {h \in {"address"} : pc[Other(th)] \in {"fill", "host"}}
      BY <2>1 DEF AllocateHost, Goto
    <3>2. pc[Other(th)] \notin {"fill", "host"}
      BY <3>1
    <3>3. pc'[th] = "fill"
      BY <3>1
    <3>4. QED
      BY <2>0, <3>1, <3>2, <3>3 DEF HostOK
  <2>2. CASE GetPrimary(th)
    <3>1. harm' = harm /\ host' = host /\ pc[th] = "fill"
      BY <2>2 DEF GetPrimary, At
    <3>2. HostOK
      BY <3>1 DEF HostInv
    <3>3. CASE primary = NULL
      BY <2>2, <3>1, <3>3, <1>a DEF GetPrimary
    <3>4. CASE primary # NULL
      <4>1. /\ text' = [text EXCEPT ![th] = <<primary, primary>>]
            /\ pc' = [pc EXCEPT ![th] = "host"]
            /\ primary \in Servers
        BY <2>2, <3>4 DEF GetPrimary, Goto
      <4>2. text'[th] = <<primary, primary>> /\ text'[Other(th)] = text[Other(th)] /\ pc'[th] = "host"
        BY <2>0, <4>1
      <4>3. host = th
        BY <3>1, <3>2 DEF HostOK
      <4>4. QED
        BY <2>0, <3>1, <3>2, <4>1, <4>2, <4>3 DEF HostOK
    <3>5. QED
      BY <3>3, <3>4
  <2>3. CASE SplitHost(th)
    <3>1. harm \subseteq harm' /\ host' = host /\ pc[th] = "host" /\ ended = "no"
      BY <2>3 DEF SplitHost, Strtok, At
    <3>2. HostOK
      BY <3>1 DEF HostInv
    <3>3. host = th /\ text[host] # <<>>
      <4>1. PICK s \in Servers : text[th] = <<s, s>>
        BY <3>1, <3>2 DEF HostOK
      <4>2. QED
        BY <3>1, <3>2, <4>1, TwoWords DEF HostOK
    <3>4. /\ text' = [text EXCEPT ![th] = <<Head(@)>>]
          /\ pc' = [pc EXCEPT ![th] = "port"]
      BY <2>3, <3>3 DEF SplitHost, Goto
    <3>5. text'[Other(th)] = text[Other(th)] /\ pc'[th] = "port"
      BY <2>0, <3>4
    <3>6. QED
      BY <2>0, <3>1, <3>2, <3>5 DEF HostOK
  <2>4. CASE LookForPrimary(th) \/ SplitPort(th) \/ Connect(th) \/ ConnectionRefused(th)
    <3>1. UNCHANGED <<host, text>> /\ harm \subseteq harm'
      BY <2>4 DEF LookForPrimary, SplitPort, Connect, Connected, ConnectionRefused, Strtok, hostVars
    <3>2. pc'[th] = pc[th] \/ pc'[th] \notin {"fill", "host"}
      BY <2>4 DEF LookForPrimary, SplitPort, Connect, Connected, ConnectionRefused, Goto, End
    <3>3. QED
      BY <2>0, <3>1, <3>2, <1>b
  <2>5. QED
    BY <1>3, <2>1, <2>2, <2>3, <2>4 DEF ConnectStep
<1>4. CASE Notified \/ Disconnect \/ FreeRtable
  BY <1>0, <1>4, <1>a, WatcherMoves DEF hostVars
<1>5. ASSUME Moves("main"), ~ConnectStep("main")
      PROVE  HostOK'
  <2>1. UNCHANGED <<host, text>> /\ pc'["watcher"] = pc["watcher"]
        /\ pc'["main"] \notin {"fill", "host"}
    BY <1>5, MainMoves DEF hostVars, LoopLabels, CallLabels
  <2>2. harm \subseteq harm'
    BY <1>5, MainHarm
  <2>3. QED
    BY <1>0, <1>b, <2>1, <2>2
<1>6. QED
  BY <1>0, <1>1, <1>2, <1>3, <1>4, <1>5, Steps DEF Moves, WatcherStep

-----------------------------------------------------------------------------
(* strtok.                                                                 *)

\* A command has a number of words.
LEMMA ArityType ==
  ASSUME NEW op
  PROVE  Arity(op) \in Nat
  BY DEF Arity

\* A command is put together from the words of its line.
LEMMA ParseKept ==
  ASSUME Always, ParseOK, [Next]_vars
  PROVE  ParseOK'
<1> USE DEF Always, ParseOK
<1>0. Threads = {"main", "watcher"} /\ pc \in [Threads -> StartLabels \cup LoopLabels \cup WatcherLabels]
  BY TwoThreads DEF TypeOK, StartLabels, WatcherLabels, Seeking, LoopLabels, CallLabels
<1>a. ASSUME UNCHANGED <<line, code, args>>,
             \/ pc'["main"] = pc["main"]
             \/ pc["main"] = "call" /\ pc'["main"] = "write"
             \/ pc'["main"] \notin {"code", "split", "arg", "call", "write"}
      PROVE  ParseOK'
  BY <1>a
<1>1. CASE Stays
  BY <1>1, <1>a DEF Stays, lineVars
<1>2. CASE World
  BY <1>2, <1>a, WorldLeaves
<1>3. ASSUME NEW th \in Threads, ConnectStep(th)
      PROVE  ParseOK'
  <2>1. UNCHANGED <<line, code, args>>
    BY <1>3, ConnectMoves DEF lineVars
  <2>2. pc'["main"] \notin {"code", "split", "arg", "call", "write"} \/ pc'["main"] = pc["main"]
    BY <1>0, <1>3, TwoThreads, ConnectMoves
  <2>3. QED
    BY <2>1, <2>2, <1>a
<1>4. CASE Notified \/ Disconnect \/ FreeRtable
  BY <1>4, <1>a, WatcherMoves DEF lineVars
<1>5. CASE GetCode
  <2>1. UNCHANGED <<line, args>> /\ pc["main"] = "code" /\ args = <<>> /\ Len(args) = 0
    BY <1>5 DEF GetCode, At
  <2>2. line.op = Unknown \/ code' = line.op
    BY <1>5 DEF GetCode
  <2>3. \/ pc'["main"] \in {"prompt", "quit"}
        \/ pc'["main"] = "split" /\ Arity(code') > 0
        \/ pc'["main"] = "call" /\ Arity(code') = 0
    BY <1>0, <1>5, CodeLeads DEF Goto
  <2>4. QED
    BY <2>1, <2>2, <2>3
<1>6. CASE InputEnds \/ \E cmd \in Commands : ReadLine(cmd)
  <2>1. args' = <<>> /\ pc'["main"] = "code"
    BY <1>0, <1>6 DEF InputEnds, ReadLine, Goto
  <2>2. QED
    BY <2>1
<1>7. CASE Split
  <2>1. UNCHANGED <<line, code, args>> /\ pc["main"] = "split" /\ pc'["main"] = "arg"
    BY <1>0, <1>7 DEF Split, At, Goto, lineVars
  <2>2. Len(args) = 0
    BY <2>1
  <2>3. QED
    BY <2>1, <2>2
<1>8. CASE TakeArg
  <2>1. CASE tok = <<>>
    BY <1>8, <1>a, <2>1 DEF TakeArg
  <2>2. CASE tok # <<>>
    <3>1. UNCHANGED <<line, code>> /\ pc["main"] = "arg" /\ args' = Append(args, Head(tok))
      BY <1>8, <2>2 DEF TakeArg, At
    <3>2. Len(args) \in Nat /\ Len(args') = Len(args) + 1
      BY <2>2, <3>1, AppendProperties, HeadTailProperties, LenProperties DEF TypeOK
    <3>3. pc'["main"] = IF Len(args') = Arity(code) THEN "call" ELSE "arg"
      BY <1>0, <1>8, <2>2 DEF TakeArg, Goto
    <3>4. QED
      BY <3>1, <3>2, <3>3, ArityType
  <2>3. QED
    BY <2>1, <2>2
<1>9. CASE SetWatch \/ GetCodeOfBlank \/ Quit \/ Call \/ Read \/ TakeAnswer \/ PrintOverruns \/ EndOfFile \/ Fail
  <2>1. UNCHANGED <<line, code, args>>
    BY <1>9 DEF SetWatch, GetCodeOfBlank, Quit, Call, Read, TakeAnswer, PrintOverruns, EndOfFile, Fail, lineVars
  <2>2. \/ pc'["main"] = pc["main"]
        \/ pc["main"] = "call" /\ pc'["main"] = "write"
        \/ pc'["main"] \notin {"code", "split", "arg", "call", "write"}
    BY <1>0, <1>9 DEF SetWatch, GetCodeOfBlank, Quit, Call, Read, TakeAnswer, PrintOverruns, EndOfFile, Fail, Return, At, Goto
  <2>3. QED
    BY <1>a, <2>1, <2>2
<1>10. CASE Write
  <2>1. \E l \in {"read", "failed"} : pc' = [pc EXCEPT !["main"] = l]
    BY <1>10 DEF Write, Goto
  <2>2. UNCHANGED <<line, code, args>>
    BY <1>10 DEF Write, lineVars
  <2>3. QED
    BY <1>0, <1>a, <2>1, <2>2
<1>11. QED
  BY <1>0, <1>1, <1>2, <1>3, <1>4, <1>5, <1>6, <1>7, <1>8, <1>9, <1>10, Steps
     DEF Moves, MainStep, WatcherStep

\* Who calls strtok while the other thread does not expect its own string to be
\* there, as long as nobody has done otherwise.
LEMMA ConnectStrtok ==
  ASSUME Always, HostInv, Unsplit, NEW th \in Threads, ConnectStep(th), "strtok" \notin harm'
  PROVE  /\ "strtok" \notin harm
         /\ harm \subseteq harm'
         /\ \/ tok' = tok /\ (pc'[th] = "port" => pc[th] = "port" /\ addr'[th] = addr[th])
            \/ ~Splitting(Other(th)) /\ (pc'[th] = "port" => tok' = <<addr'[th]>> \/ "address" \in harm')
<1> USE DEF Always, TypeOK, At, Goto, End
<1>1. CASE LookForPrimary(th)
  BY <1>1 DEF LookForPrimary
<1>2. CASE GetPrimary(th)
  BY <1>2 DEF GetPrimary
<1>8. CASE AllocateHost(th)
  BY <1>8 DEF AllocateHost
<1>3. CASE SplitHost(th)
  <2>1. harm' = IF Splitting(Other(th)) THEN harm \cup {"strtok"} ELSE harm
    BY <1>3 DEF SplitHost, Strtok
  <2>2. ASSUME "address" \notin harm
        PROVE  tok' = <<addr'[th]>>
    <3>1. pc[th] = "host"
      BY <1>3 DEF SplitHost
    <3>2. PICK s \in Servers : text[th] = <<s, s>>
      BY <2>2, <3>1 DEF HostInv, HostOK
    <3>3. host = th
      BY <2>2, <3>1 DEF HostInv, HostOK
    <3>4. text[host] # <<>> /\ Head(text[host]) = s /\ Tail(text[host]) = <<s>>
      BY <3>2, <3>3, TwoWords
    <3>5. tok' = <<s>> /\ addr' = [addr EXCEPT ![th] = s]
      BY <1>3, <3>4 DEF SplitHost, Strtok
    <3>6. QED
      BY <3>5
  <2>3. QED
    BY <2>1, <2>2
<1>4. CASE SplitPort(th)
  <2>1. /\ harm' = IF Splitting(Other(th)) THEN harm \cup {"strtok"} ELSE harm
        /\ tok' = <<>> /\ addr' = addr
        /\ pc[th] = "port"
        /\ pc'[th] \in {"port", "connect"}
        /\ tok = <<addr[th]>> => pc'[th] = "connect"
    BY <1>4 DEF SplitPort, Strtok
  <2>2. QED
    BY <2>1 DEF Unsplit
<1>5. CASE Connect(th)
  BY <1>5, TwoThreads DEF Connect, Connected
<1>6. CASE ConnectionRefused(th)
  BY <1>6 DEF ConnectionRefused
<1>7. QED
  BY <1>1, <1>2, <1>3, <1>4, <1>5, <1>6, <1>8 DEF ConnectStep

\* strtok goes on where the same thread has left it, unless the threads race.
LEMMA UnsplitKept ==
  ASSUME Always, HostInv, StrtokInv, [Next]_vars, "strtok" \notin harm'
  PROVE  Unsplit'
<1>0. Threads = {"main", "watcher"} /\ pc \in [Threads -> StartLabels \cup LoopLabels \cup WatcherLabels]
  BY TwoThreads DEF Always, TypeOK, StartLabels, WatcherLabels, Seeking, LoopLabels, CallLabels
<1>1. CASE Stays
  BY <1>1 DEF Stays, lineVars, StrtokInv, Unsplit, Taken, Rest
<1>2. CASE World
  BY <1>2, WorldLeaves DEF StrtokInv, Unsplit, Taken, Rest
<1>3. ASSUME NEW th \in Threads, ConnectStep(th)
      PROVE  Unsplit'
  <2>1. /\ "strtok" \notin harm => Unsplit
        /\ harm \subseteq harm'
    BY <1>3 DEF StrtokInv, ConnectStep, LookForPrimary, AllocateHost, GetPrimary, SplitHost, SplitPort, Connect,
                Connected, ConnectionRefused, Strtok
  <2>2. Unsplit
    BY <2>1
  <2>3. \/ tok' = tok /\ (pc'[th] = "port" => pc[th] = "port" /\ addr'[th] = addr[th])
        \/ ~Splitting(Other(th)) /\ (pc'[th] = "port" => tok' = <<addr'[th]>> \/ "address" \in harm')
    BY <1>3, <2>2, ConnectStrtok
  <2>4. /\ pc'[Other(th)] = pc[Other(th)] /\ addr'[Other(th)] = addr[Other(th)]
        /\ UNCHANGED <<line, code, args>>
    BY <1>3, ConnectMoves DEF lineVars
  <2>5. pc'["main"] \in {"arg", "call", "write"} => th = "watcher" /\ pc["main"] = pc'["main"]
    BY <1>0, <1>3, <2>4, ConnectMoves, TwoThreads DEF Seeking
  <2>6. pc'["main"] = "arg" => tok' = tok
    BY <2>3, <2>5, TwoThreads DEF Splitting
  <2>7. pc'["main"] = "arg" => Taken' /\ Rest'
    BY <2>2, <2>4, <2>5, <2>6 DEF Unsplit, Taken, Rest
  <2>8. pc'["main"] \in {"call", "write"} => Taken'
    BY <2>2, <2>4, <2>5 DEF Unsplit, Taken
  <2>9. \A t \in Threads : pc'[t] = "port" => tok' = <<addr'[t]>> \/ "address" \in harm'
    <3>1. pc'[th] = "port" => tok' = <<addr'[th]>> \/ "address" \in harm'
      BY <2>1, <2>2, <2>3 DEF Unsplit
    <3>2. Other(th) \in Threads /\ \A t \in Threads : t = th \/ t = Other(th)
      BY <1>0, TwoThreads
    <3>3. pc'[Other(th)] = "port" => tok' = <<addr'[Other(th)]>> \/ "address" \in harm'
      BY <2>1, <2>2, <2>3, <2>4, <3>2 DEF Unsplit, Splitting
    <3>4. QED
      BY <3>1, <3>2, <3>3
  <2>10. QED
    BY <2>7, <2>8, <2>9 DEF Unsplit
<1>4. CASE Notified \/ Disconnect \/ FreeRtable
  <2>1. /\ UNCHANGED <<line, code, args, tok, addr, harm>>
        /\ pc'["main"] = pc["main"] /\ pc'["watcher"] # "port"
    BY <1>4, WatcherMoves DEF lineVars
  <2>2. QED
    BY <1>0, <2>1 DEF StrtokInv, Unsplit, Taken, Rest
<1>5. ASSUME ~(GetCode \/ GetCodeOfBlank \/ Split \/ TakeArg), Moves("main"), ~ConnectStep("main")
      PROVE  Unsplit'
  <2>1. UNCHANGED <<tok, addr>> /\ harm \subseteq harm'
    BY <1>5, MainHarm DEF Moves, MainStep, SetWatch, InputEnds, ReadLine, Quit, Call, Write, Read,
                          TakeAnswer, PrintOverruns, EndOfFile, Fail
  <2>2. pc'["watcher"] = pc["watcher"] /\ pc'["main"] # "port"
    BY <1>5, MainMoves DEF LoopLabels, CallLabels
  <2>3. pc'["main"] \in {"arg", "call", "write"} => pc["main"] = "call" /\ pc'["main"] = "write" /\ Call
    <3>1. CASE Write
      <4>1. \E l \in {"read", "failed"} : pc' = [pc EXCEPT !["main"] = l]
        BY <3>1 DEF Write, Goto
      <4>2. QED
        BY <1>0, <4>1
    <3>2. CASE Call
      BY <1>0, <3>2 DEF Call, At, Goto
    <3>3. CASE SetWatch \/ InputEnds \/ Quit \/ Read \/ TakeAnswer \/ EndOfFile \/ Fail
      BY <1>0, <3>3 DEF SetWatch, InputEnds, Quit, Read, TakeAnswer, EndOfFile, Fail, Return, At, Goto
    <3>4. CASE \E cmd \in Commands : ReadLine(cmd)
      BY <1>0, <3>4 DEF ReadLine, Goto
    <3>5. CASE PrintOverruns
      BY <3>5 DEF PrintOverruns, At
    <3>6. QED
      BY <1>5, <3>1, <3>2, <3>3, <3>4, <3>5 DEF Moves, MainStep
  <2>4. Call => UNCHANGED <<line, args>>
    BY DEF Call, lineVars
  <2>5. QED
    BY <1>0, <2>1, <2>2, <2>3, <2>4 DEF StrtokInv, Unsplit, Taken
<1>6. ASSUME GetCode \/ Split \/ (TakeArg /\ tok # <<>>)
      PROVE  /\ "strtok" \notin harm /\ Unsplit
             /\ pc'["watcher"] = pc["watcher"] /\ pc'["watcher"] # "port"
             /\ pc'["main"] # "port"
  <2>1. /\ harm' = IF Splitting(Other("main")) THEN harm \cup {"strtok"} ELSE harm
        /\ ~ConnectStep("main") => pc'["watcher"] = pc["watcher"] /\ pc'["main"] # "port"
    BY <1>6, MainMoves DEF GetCode, Split, TakeArg, Strtok, Moves, MainStep, LoopLabels, CallLabels
  <2>2. ~ConnectStep("main")
    <3>1. pc["main"] \notin Seeking
      BY <1>6 DEF GetCode, Split, TakeArg, At, Seeking
    <3>2. QED
      BY <1>0, <3>1, ConnectMoves
  <2>3. QED
    BY <2>1, <2>2, TwoThreads DEF Splitting, StrtokInv
<1>7. CASE GetCode
  <2>1. UNCHANGED <<line, args>> /\ pc["main"] = "code" /\ args = <<>>
    BY <1>7 DEF GetCode, At, StrtokInv, ParseOK
  <2>2. pc'["main"] # "arg"
    BY <1>0, <1>7, CodeLeads DEF Goto, Always
  <2>3. line.args \in Seq(Words)
    BY DEF Always, TypeOK
  <2>4. Taken'
    BY <2>1, <2>3, LenProperties DEF Taken
  <2>5. QED
    BY <1>0, <1>6, <1>7, <2>2, <2>4 DEF Unsplit
<1>8. CASE Split
  <2>1. /\ UNCHANGED <<line, args>> /\ pc["main"] = "split" /\ args = <<>> /\ pc'["main"] = "arg"
        /\ tok' = line.args
    BY <1>0, <1>8 DEF Split, Strtok, At, Goto, lineVars, StrtokInv, ParseOK
  <2>2. line.args \in Seq(Words)
    BY DEF Always, TypeOK
  <2>3. Taken' /\ Rest'
    BY <2>1, <2>2, LenProperties DEF Taken, Rest
  <2>4. QED
    BY <1>0, <1>6, <1>8, <2>1, <2>3 DEF Unsplit
<1>9. CASE TakeArg /\ tok # <<>>
  <2>1. /\ UNCHANGED line /\ pc["main"] = "arg" /\ pc'["main"] \in {"arg", "call"}
        /\ tok' = Tail(tok) /\ args' = Append(args, Head(tok))
    BY <1>0, <1>9 DEF TakeArg, Strtok, At, Goto
  <2>2. Taken /\ Rest
    BY <1>6, <1>9, <2>1 DEF Unsplit
  <2>3. Taken' /\ Rest'
    <3>1. /\ tok \in Seq(Words \cup Servers) /\ args \in Seq(Words \cup Servers)
          /\ line.args \in Seq(Words)
      BY DEF Always, TypeOK
    <3>2. /\ Len(tok) \in Nat /\ Len(tok) > 0 /\ Len(args) \in Nat /\ Len(line.args) \in Nat
          /\ Head(tok) = tok[1]
      BY <1>9, <3>1
    <3>3. Len(tok') = Len(tok) - 1 /\ \A i \in 1 .. Len(tok') : tok'[i] = tok[i + 1]
      BY <1>9, <2>1, <3>1
    <3>4. /\ Len(args') = Len(args) + 1
          /\ \A i \in 1 .. Len(args) : args'[i] = args[i]
          /\ args'[Len(args) + 1] = tok[1]
      BY <1>9, <2>1, <3>1, <3>2, AppendProperties, HeadTailProperties
    <3>5. tok[1] = line.args[Len(args) + 1]
      BY <2>2, <3>2 DEF Rest
    <3>6. Taken'
      BY <2>1, <2>2, <3>2, <3>4, <3>5 DEF Taken, Rest
    <3>7. Rest'
      <4>1. Len(args') + Len(tok') = Len(line.args)
        <5>1. \A a, t, n \in Nat : a + t = n => (a + 1) + (t - 1) = n
          OBVIOUS
        <5>2. (Len(args) + 1) + (Len(tok) - 1) = Len(line.args)
          BY <2>2, <3>2, <5>1 DEF Rest
        <5>3. QED
          BY <3>3, <3>4, <5>2
      <4>2. ASSUME NEW i \in 1 .. Len(tok')
            PROVE  tok'[i] = line.args[Len(args') + i]
        <5>1. i + 1 \in 1 .. Len(tok)
          BY <3>2, <3>3
        <5>2. tok[i + 1] = line.args[Len(args) + (i + 1)]
          BY <2>2, <5>1 DEF Rest
        <5>3. Len(args) + (i + 1) = Len(args') + i
          BY <3>2, <3>4
        <5>4. QED
          BY <3>3, <5>2, <5>3
      <4>3. QED
        BY <2>1, <4>1, <4>2 DEF Rest
    <3>8. QED
      BY <3>6, <3>7
  <2>4. QED
    BY <1>0, <1>6, <1>9, <2>1, <2>3 DEF Unsplit
<1>10. CASE TakeArg /\ tok = <<>>
  <2>1. UNCHANGED <<line, args, tok, harm, addr, pc>>
    BY <1>10 DEF TakeArg
  <2>2. QED
    BY <1>0, <2>1 DEF StrtokInv, Unsplit, Taken, Rest
<1>11. CASE GetCodeOfBlank
  <2>1. /\ UNCHANGED <<pc, addr>> /\ pc["main"] = "code"
        /\ harm' = IF Splitting(Other("main")) THEN harm \cup {"strtok"} ELSE harm
    BY <1>11 DEF GetCodeOfBlank, Strtok, At
  <2>2. pc["watcher"] # "port"
    BY <2>1, TwoThreads DEF Splitting
  <2>3. QED
    BY <1>0, <2>1, <2>2 DEF Unsplit
<1>12. QED
  BY <1>0, <1>1, <1>2, <1>3, <1>4, <1>5, <1>7, <1>8, <1>9, <1>10, <1>11, Steps
     DEF Moves, MainStep, WatcherStep

\* Every step keeps what is known of strtok.
LEMMA StrtokKept ==
  ASSUME Always, HostInv, StrtokInv, [Next]_vars
  PROVE  StrtokInv'
  BY ParseKept, UnsplitKept DEF StrtokInv

-----------------------------------------------------------------------------
(* The calm.                                                               *)

\* The history is never forgotten.
LEMMA HistoryGrows ==
  ASSUME [Next]_vars
  PROVE  gone \subseteq gone' /\ harm \subseteq harm'
<1>1. CASE Stays
  BY <1>1 DEF Stays, histVars
<1>2. CASE World
  <2>1. UNCHANGED harm
    BY <1>2, WorldLeaves
  <2>2. gone \subseteq gone'
    BY <1>2 DEF World, BackupChanges, PrimaryExpires, PrimaryAppears, ServerDies, Serve, histVars
  <2>3. QED
    BY <2>1, <2>2
<1>3. ASSUME NEW th \in Threads, ConnectStep(th)
      PROVE  gone \subseteq gone' /\ harm \subseteq harm'
  BY <1>3 DEF ConnectStep, LookForPrimary, AllocateHost, GetPrimary, SplitHost, SplitPort, Connect, Connected,
              ConnectionRefused, Strtok, histVars
<1>4. CASE Notified \/ Disconnect \/ FreeRtable
  BY <1>4 DEF Notified, Disconnect, FreeRtable, histVars
<1>5. ASSUME Moves("main"), ~ConnectStep("main")
      PROVE  gone \subseteq gone' /\ harm \subseteq harm'
  BY <1>5, MainHarm
<1>6. QED
  BY <1>1, <1>2, <1>3, <1>4, <1>5, Steps, TwoThreads DEF Moves, WatcherStep

\* A step of a thread that leaves the connections and the servers alone, ends
\* nothing and leads to no place that the calm has conditions for.
LEMMA CalmlyMoves ==
  ASSUME Undisturbed, NEW th \in Threads,
         UNCHANGED <<alive, freed, rtable, primary, server, fd, open, ended>>,
         ended = "no", pc'[Other(th)] = pc[Other(th)],
         th = "watcher" => UNCHANGED sock,
         pc'[th] \in Seeking \ {"exists"} => primary # NULL,
         pc'[th] \notin {"close", "free", "failed"},
         pc'[th] = "read" => th = "main" /\ Open(sock')
  PROVE  Undisturbed'
<1>0. Threads = {"main", "watcher"} /\ th \in {"main", "watcher"}
  BY TwoThreads
<1>1. CASE th = "main"
  BY <1>0, <1>1, TwoThreads DEF Undisturbed, Open
<1>2. CASE th = "watcher"
  BY <1>0, <1>2, TwoThreads DEF Undisturbed, Open
<1>3. QED
  BY <1>0, <1>1, <1>2

\* Servers and ZooKeeper leave an undisturbed client undisturbed.
LEMMA CalmKeptByWorld ==
  ASSUME Always, Undisturbed, Calm', World
  PROVE  Undisturbed'
<1>1. UNCHANGED <<rtable, freed, server, fd, open, sock, pc, ended, line>>
  BY WorldLeaves
<1>2. UNCHANGED alive /\ (primary # NULL => primary' # NULL)
  <2>1. CASE BackupChanges
    BY <2>1 DEF BackupChanges
  <2>2. ~PrimaryExpires
    BY DEF PrimaryExpires, Calm
  <2>3. ASSUME NEW s \in Servers, PrimaryAppears(s)
        PROVE  UNCHANGED alive /\ primary = NULL
    BY <2>3 DEF PrimaryAppears
  <2>4. \A s \in Servers : ~ServerDies(s)
    BY DEF ServerDies, Calm
  <2>5. ASSUME NEW c \in Conns, Serve(c)
        PROVE  UNCHANGED <<alive, primary>>
    BY <2>5 DEF Serve, zkVars
  <2>6. QED
    BY <2>1, <2>2, <2>3, <2>4, <2>5 DEF World
<1>3. QED
  BY <1>1, <1>2 DEF Undisturbed, Open

\* rtable_connect leaves it undisturbed: the address splits in two and the
\* primary is there.
LEMMA CalmKeptByConnect ==
  ASSUME Always, HostInv, Unsplit, Undisturbed, Calm, Calm', NEW th \in Threads, ConnectStep(th)
  PROVE  Undisturbed'
<1> USE DEF At, Goto, End
<1>0. /\ Threads = {"main", "watcher"} /\ Other(th) \in Threads /\ Other(th) # th
      /\ pc \in [Threads -> StartLabels \cup LoopLabels \cup WatcherLabels]
  BY TwoThreads DEF Always, TypeOK, StartLabels, WatcherLabels, Seeking, LoopLabels, CallLabels
<1>1. CASE LookForPrimary(th)
  <2>1. /\ UNCHANGED <<alive, freed, rtable, primary, server, fd, open, sock, line>>
        /\ ended = "no" /\ pc[th] = "exists"
    BY <1>1 DEF LookForPrimary, zkVars, connVars, callVars, lineVars
  <2>2. CASE primary = NULL /\ th = "main"
    <3>1. ended' = "quit" /\ UNCHANGED pc
      BY <1>1, <2>2 DEF LookForPrimary
    <3>2. QED
      BY <2>1, <3>1 DEF Undisturbed, Open
  <2>3. CASE primary = NULL /\ th = "watcher"
    <3>1. UNCHANGED ended /\ pc'["main"] = pc["main"] /\ pc'["watcher"] = "close"
      BY <1>0, <1>1, <2>3 DEF LookForPrimary
    <3>2. rtable = NULL
      BY <2>3 DEF Undisturbed
    <3>3. QED
      BY <1>0, <2>1, <3>1, <3>2 DEF Undisturbed, Seeking, Open
  <2>4. CASE primary # NULL
    <3>1. UNCHANGED ended /\ pc'[th] = "get" /\ pc'[Other(th)] = pc[Other(th)]
      BY <1>0, <1>1, <2>4 DEF LookForPrimary
    <3>2. QED
      BY <2>1, <2>4, <3>1, CalmlyMoves
  <2>5. QED
    BY <1>0, <2>2, <2>3, <2>4
<1>8. CASE AllocateHost(th)
  <2>1. /\ UNCHANGED <<alive, freed, rtable, primary, server, fd, open, sock, ended>>
        /\ ended = "no" /\ pc[th] = "get"
    BY <1>8 DEF AllocateHost, zkVars, connVars, callVars
  <2>2. primary # NULL
    BY <2>1 DEF Undisturbed, Seeking
  <2>3. pc'[th] = "fill" /\ pc'[Other(th)] = pc[Other(th)]
    BY <1>0, <1>8 DEF AllocateHost
  <2>4. QED
    BY <2>1, <2>2, <2>3, CalmlyMoves
<1>2. CASE GetPrimary(th)
  <2>1. /\ UNCHANGED <<alive, freed, rtable, primary, server, fd, open, sock>>
        /\ ended = "no" /\ pc[th] = "fill"
    BY <1>2 DEF GetPrimary, zkVars, connVars, callVars
  <2>2. primary # NULL
    BY <2>1 DEF Undisturbed, Seeking
  <2>3. UNCHANGED ended /\ pc'[th] = "host" /\ pc'[Other(th)] = pc[Other(th)]
    BY <1>0, <1>2, <2>2 DEF GetPrimary
  <2>4. QED
    BY <2>1, <2>2, <2>3, CalmlyMoves
<1>3. CASE SplitHost(th)
  <2>0. pc[th] = "host"
    BY <1>3 DEF SplitHost
  <2>5. host = th /\ \E s \in Servers : text[th] = <<s, s>>
    BY <2>0 DEF Calm, HostInv, HostOK
  <2>6. text[host] # <<>>
    BY <2>5, TwoWords
  <2>1. /\ UNCHANGED <<alive, freed, rtable, primary, server, fd, open, sock, ended>>
        /\ ended = "no" /\ pc[th] = "host"
    BY <1>3, <2>6 DEF SplitHost, zkVars, connVars, callVars
  <2>2. primary # NULL
    BY <2>1 DEF Undisturbed, Seeking
  <2>3. pc'[th] = "port" /\ pc'[Other(th)] = pc[Other(th)]
    BY <1>0, <1>3, <2>6 DEF SplitHost
  <2>4. QED
    BY <2>1, <2>2, <2>3, CalmlyMoves
<1>4. CASE SplitPort(th)
  <2>1. /\ UNCHANGED <<alive, freed, rtable, primary, server, fd, open, sock>>
        /\ ended = "no" /\ pc[th] = "port"
    BY <1>4 DEF SplitPort, zkVars, connVars, callVars
  <2>2. primary # NULL /\ tok = <<addr[th]>>
    BY <2>1 DEF Undisturbed, Seeking, Unsplit, Calm
  <2>3. UNCHANGED ended /\ pc'[th] = "connect" /\ pc'[Other(th)] = pc[Other(th)]
    BY <1>0, <1>4, <2>2 DEF SplitPort
  <2>4. QED
    BY <2>1, <2>2, <2>3, CalmlyMoves
<1>5. CASE Connect(th)
  <2>1. /\ UNCHANGED <<alive, freed, primary, sock, ended, line>>
        /\ ended = "no" /\ pc[th] = "connect"
    BY <1>5 DEF Connect, zkVars, callVars, lineVars
  <2>2. primary # NULL
    BY <2>1 DEF Undisturbed, Seeking
  <2>3. /\ pc'[th] = (IF th = "main" THEN "prompt" ELSE "idle")
        /\ pc'[Other(th)] = pc[Other(th)]
    BY <1>0, <1>5, ConnectMakes
  <2>4. th = "main" => pc["watcher"] = "idle"
    BY <1>5 DEF Connect, Connected, Calm
  <2>5. \A f \in Fds : open[f] # NULL => open'[f] = open[f]
    BY <1>5, ConnectMakes DEF Always, TypeOK
  <2>6. ASSUME NEW c \in Conns, server'[c] # NULL
        PROVE  open'[fd'[c]] = c
    <3>1. CASE c = NewConn
      BY <1>5, <3>1, ConnectMakes DEF Always, TypeOK
    <3>2. CASE c # NewConn
      <4>1. server[c] # NULL /\ fd'[c] = fd[c]
        BY <1>5, <2>6, <3>2, ConnectMakes DEF Always, TypeOK
      <4>2. open[fd[c]] = c /\ fd[c] # NULL /\ fd[c] \in Fds
        BY <4>1 DEF Undisturbed, Always, RtablesOK, TypeOK
      <4>3. QED
        BY <2>5, <4>1, <4>2, ConnNumbers
    <3>3. QED
      BY <3>1, <3>2
  <2>7. pc'["main"] = "read" => Open(sock)'
    <3>1. pc'["main"] = "read" => Open(sock) /\ sock \in Fds
      BY <1>0, <2>3, TwoThreads DEF Undisturbed, Open, Always, TypeOK
    <3>2. QED
      BY <2>1, <2>5, <3>1 DEF Open
  <2>8. \A t \in Threads : pc'[t] \in Seeking \ {"exists"} => primary' # NULL
    BY <2>1, <2>2
  <2>9. pc'["watcher"] \notin {"free", "close"} /\ pc'["main"] # "failed"
    BY <1>0, <2>3, <2>4, TwoThreads DEF Undisturbed
  <2>10. QED
    BY <2>1, <2>2, <2>6, <2>7, <2>8, <2>9 DEF Undisturbed
<1>6. CASE ConnectionRefused(th)
  <2>1. addr[th] \in Servers
    BY <1>6 DEF ConnectionRefused, Always, AddrOK, TypeOK
  <2>2. QED
    BY <1>6, <2>1 DEF ConnectionRefused, Undisturbed
<1>7. QED
  BY <1>1, <1>2, <1>3, <1>4, <1>5, <1>6, <1>8 DEF ConnectStep

\* The watcher has nothing to do while the primary stays.
LEMMA CalmKeptByWatcher ==
  ASSUME Always, Undisturbed, Notified \/ Disconnect \/ FreeRtable
  PROVE  Undisturbed'
<1> USE DEF At, Goto
<1>0. /\ Threads = {"main", "watcher"} /\ Other("watcher") = "main"
      /\ pc \in [Threads -> StartLabels \cup LoopLabels \cup WatcherLabels]
  BY TwoThreads DEF Always, TypeOK, StartLabels, WatcherLabels, Seeking, LoopLabels, CallLabels
<1>1. CASE Notified
  <2>1. /\ UNCHANGED <<alive, freed, rtable, primary, server, fd, open, sock, ended>>
        /\ ended = "no" /\ pc'["watcher"] = "exists" /\ pc'["main"] = pc["main"]
    BY <1>0, <1>1 DEF Notified, connVars, callVars
  <2>2. QED
    BY <1>0, <2>1, CalmlyMoves
<1>2. CASE Disconnect
  <2>1. rtable = NULL
    BY <1>2 DEF Disconnect, Undisturbed
  <2>2. /\ UNCHANGED <<alive, freed, rtable, primary, server, fd, open, sock, ended>>
        /\ ended = "no" /\ pc'["watcher"] = "idle" /\ pc'["main"] = pc["main"]
    BY <1>0, <1>2, <2>1 DEF Disconnect, zkVars, callVars
  <2>3. QED
    BY <1>0, <2>2, CalmlyMoves DEF Seeking
<1>3. CASE FreeRtable
  BY <1>3 DEF FreeRtable, Undisturbed
<1>4. QED
  BY <1>1, <1>2, <1>3

\* The rtable that a call was given is in place.
LEMMA CalmRtable ==
  ASSUME Always, Undisturbed, NEW c \in Conns, server[c] # NULL
  PROVE  /\ Sockfds(c) = {fd[c]}
         /\ fd[c] \in Fds /\ open[fd[c]] = c
         /\ Open(fd[c]) /\ server[open[fd[c]]] \in alive
  BY ConnNumbers DEF Always, RtablesOK, TypeOK, Undisturbed, Sockfds, Open

\* A command leaves it undisturbed: the primary answers.
LEMMA CalmKeptByMain ==
  ASSUME Always, ParseOK, Unsplit, Undisturbed, Calm', Moves("main"), ~ConnectStep("main")
  PROVE  Undisturbed'
<1> USE DEF At, Goto, End
<1>0. /\ Threads = {"main", "watcher"} /\ Other("main") = "watcher"
      /\ pc \in [Threads -> StartLabels \cup LoopLabels \cup WatcherLabels]
  BY TwoThreads DEF Always, TypeOK, StartLabels, WatcherLabels, Seeking, LoopLabels, CallLabels
<1>a. /\ UNCHANGED <<alive, freed, rtable, primary, server, fd>> /\ ended = "no"
      /\ pc'["watcher"] = pc["watcher"]
  BY MainMoves
<1>b. ASSUME UNCHANGED <<open, ended>>,
             pc'["main"] \notin Seeking \ {"exists"},
             pc'["main"] \notin {"close", "free", "failed"},
             pc'["main"] = "read" => Open(sock')
      PROVE  Undisturbed'
  BY <1>0, <1>a, <1>b, CalmlyMoves
<1>1. CASE SetWatch \/ Split \/ Call \/ TakeAnswer \/ InputEnds \/ \E cmd \in Commands : ReadLine(cmd)
  <2>1. /\ UNCHANGED <<open, ended>>
        /\ pc'["main"] \in {"exists", "arg", "write", "prompt", "code"}
    BY <1>0, <1>1 DEF SetWatch, Split, Call, TakeAnswer, Return, InputEnds, ReadLine, connVars
  <2>2. QED
    BY <1>b, <2>1 DEF Seeking
<1>2. CASE GetCode
  <2>1. UNCHANGED <<open, ended>>
    BY <1>2 DEF GetCode, connVars
  <2>2. pc'["main"] \in {"prompt", "quit", "split", "call"}
    BY <1>0, <1>2, CodeLeads DEF Always
  <2>3. QED
    BY <1>b, <2>1, <2>2 DEF Seeking
<1>3. CASE TakeArg /\ tok # <<>>
  <2>1. /\ UNCHANGED <<open, ended>>
        /\ pc'["main"] \in {"arg", "call"}
    BY <1>0, <1>3 DEF TakeArg, connVars
  <2>2. QED
    BY <1>b, <2>1 DEF Seeking
<1>4. CASE TakeArg /\ tok = <<>>
  <2>1. UNCHANGED <<open, line, sock, pc>> /\ pc["main"] = "arg"
    BY <1>4 DEF TakeArg, connVars, callVars
  <2>2. ~WellTyped(line)
    <3>1. line.op = Unknown \/ code = line.op
      BY <2>1 DEF ParseOK
    <3>2. Len(args) < Arity(code)
      BY <2>1 DEF ParseOK
    <3>3. Len(args) + Len(tok) = Len(line.args) /\ Len(tok) = 0 /\ Len(args) \in Nat
      BY <1>4, <2>1 DEF Unsplit, Rest, Always, TypeOK
    <3>4. QED
      BY <3>1, <3>2, <3>3, ArityType, ClientAssumption DEF WellTyped, ClientAssumption
  <2>3. QED
    BY <1>a, <2>1, <2>2 DEF Undisturbed, Open, WellTyped
<1>5. CASE Quit
  <2>1. UNCHANGED <<open, pc, sock>>
    BY <1>5 DEF Quit, connVars, callVars
  <2>2. freed = {}
    BY DEF Undisturbed
  <2>3. ended' = "quit"
    BY <1>5, <2>2 DEF Quit
  <2>4. QED
    BY <1>a, <2>1, <2>3 DEF Undisturbed, Open
<1>6. CASE Write
  <2>1. ptr["main"] \in Conns /\ server[ptr["main"]] # NULL
    BY <1>0, <1>6 DEF Write, Always, CallOK, TypeOK
  <2>2. /\ sock' = fd[ptr["main"]] /\ pc'["main"] = "read"
        /\ Open(fd[ptr["main"]])
    BY <1>0, <1>6, <2>1, CalmRtable DEF Write
  <2>3. UNCHANGED <<open, ended>>
    BY <1>6 DEF Write, connVars
  <2>4. QED
    BY <1>b, <2>2, <2>3 DEF Seeking
<1>7. CASE Read
  <2>1. Open(sock)
    BY <1>7 DEF Read, Undisturbed
  <2>2. pc'["main"] = "blocked" /\ UNCHANGED <<open, ended>>
    BY <1>0, <1>7, <2>1 DEF Read, connVars
  <2>3. QED
    BY <1>b, <2>2 DEF Seeking
<1>8. CASE EndOfFile
  <2>1. on \in Conns /\ server[on] # NULL
    BY <1>8 DEF EndOfFile, Always, CallOK, TypeOK
  <2>2. server[on] \in alive
    BY <2>1 DEF Undisturbed, Always, TypeOK
  <2>3. QED
    BY <1>8, <2>2 DEF EndOfFile
<1>9. CASE Fail
  BY <1>9 DEF Fail, Undisturbed
<1>10. CASE GetCodeOfBlank
  <2>1. UNCHANGED <<open, pc, sock, line>> /\ line.op = Blank
    BY <1>10 DEF GetCodeOfBlank, connVars, callVars, lineVars
  <2>2. ~WellTyped(line')
    BY <2>1, ClientAssumption DEF ClientAssumption, WellTyped
  <2>3. QED
    BY <1>a, <2>1, <2>2 DEF Undisturbed, Open
<1>11. CASE PrintOverruns
  BY <1>11 DEF PrintOverruns, Calm
<1>12. QED
  BY <1>1, <1>2, <1>3, <1>4, <1>5, <1>6, <1>7, <1>8, <1>9, <1>10, <1>11 DEF Moves, MainStep

\* Every step keeps what holds until a primary leaves or the threads race.
LEMMA CalmKept ==
  ASSUME IInv, [Next]_vars
  PROVE  CalmInv'
<1> SUFFICES ASSUME Calm'
             PROVE  Undisturbed'
  BY DEF CalmInv
<1>1. Calm
  BY HistoryGrows DEF Calm
<1>2. Always /\ HostInv /\ Undisturbed /\ ParseOK /\ Unsplit
  BY <1>1 DEF IInv, CalmInv, StrtokInv, Calm
<1>3. CASE Stays
  <2>1. UNCHANGED ended
    BY <1>3 DEF Stays, Calm
  <2>2. QED
    BY <1>2, <1>3, <2>1 DEF Stays, connVars, callVars, lineVars, zkVars, Undisturbed, Open
<1>4. CASE World
  BY <1>2, <1>4, CalmKeptByWorld
<1>5. ASSUME NEW th \in Threads, ConnectStep(th)
      PROVE  Undisturbed'
  BY <1>1, <1>2, <1>5, CalmKeptByConnect
<1>6. CASE Notified \/ Disconnect \/ FreeRtable
  BY <1>2, <1>6, CalmKeptByWatcher
<1>7. ASSUME Moves("main"), ~ConnectStep("main")
      PROVE  Undisturbed'
  BY <1>2, <1>7, CalmKeptByMain
<1>8. QED
  BY <1>3, <1>4, <1>5, <1>6, <1>7, Steps, TwoThreads DEF Moves, WatcherStep

-----------------------------------------------------------------------------
(* The theorems.                                                           *)

\* The invariant holds at the start.
LEMMA InitIInv == Init => IInv
<1> SUFFICES ASSUME Init PROVE IInv
  OBVIOUS
<1>1. Always
  BY InitAlways
<1>2. \A th \in Threads : pc[th] = IF th = "main" THEN "watch" ELSE "idle"
  BY DEF Init
<1>3. StrtokInv
  BY <1>2, TwoThreads DEF StrtokInv, ParseOK, Unsplit
<1>4. CalmInv
  <2>1. \A c \in Conns : server[c] = NULL
    BY DEF Init
  <2>2. alive = Servers /\ freed = {} /\ rtable = NULL /\ ended = "no"
    BY DEF Init
  <2>3. QED
    BY <1>2, <2>1, <2>2, TwoThreads DEF CalmInv, Undisturbed, Seeking
<1>5. HostInv
  BY <1>2, TwoThreads DEF HostInv, HostOK
<1>6. QED
  BY <1>1, <1>3, <1>4, <1>5 DEF IInv

\* The invariant is inductive: it holds at the start and every step keeps it.
LEMMA Inductive == IInv /\ [Next]_vars => IInv'
  BY AlwaysKept, HostKept, StrtokKept, CalmKept DEF IInv

\* IInv holds in every state the client, ZooKeeper and the servers reach.
THEOREM Invariance == Spec => []IInv
<1>1. Init => IInv
  BY InitIInv
<1>2. IInv /\ [Next]_vars => IInv'
  BY Inductive
<1>3. QED
  BY <1>1, <1>2, PTL DEF Spec

\* The variables of the client keep their types; Connect never runs out of
\* connections or descriptors, so their bound MaxChanges + 1 cuts nothing off.
THEOREM TypeCorrectness == Spec => []TypeOK
<1>1. IInv => TypeOK
  BY DEF IInv, Always
<1>2. QED
  BY <1>1, Invariance, PTL

\* What main sends is what was typed (get_code and strtok in table_client.c),
\* unless a thread called strtok between two calls of the other.
THEOREM SentIsTyped == Spec => []SentAsTyped
<1>1. ASSUME IInv
      PROVE  SentAsTyped
  <2> SUFFICES ASSUME pc["main"] = "write", WellTyped(line), "strtok" \notin harm
               PROVE  code = line.op /\ args = SubSeq(line.args, 1, Arity(code))
    BY DEF SentAsTyped
  <2>1. code = line.op /\ Len(args) = Arity(code)
    BY <1>1, ClientAssumption DEF IInv, StrtokInv, ParseOK, WellTyped, ClientAssumption
  <2>2. Taken
    BY <1>1 DEF IInv, StrtokInv, Unsplit
  <2>3. args \in Seq(Words \cup Servers) /\ line.args \in Seq(Words \cup Servers)
    BY <1>1, WordsAreArgs DEF IInv, Always, TypeOK
  <2>4. Len(args) \in Nat /\ Len(line.args) \in Nat /\ Len(args) <= Len(line.args)
    BY <2>2, <2>3 DEF Taken
  <2> DEFINE first == SubSeq(line.args, 1, Len(args))
  <2>5. /\ first \in Seq(Words \cup Servers)
        /\ Len(first) = Len(args)
        /\ \A i \in 1 .. Len(args) : first[i] = line.args[i]
    BY <2>3, <2>4, SubSeqProperties
  <2>6. args = first
    BY <2>2, <2>3, <2>5, SeqEqual DEF Taken
  <2>7. QED
    BY <2>1, <2>6
<1>2. QED
  BY <1>1, Invariance, PTL

\* As long as no primary has left, the threads have not raced and neither
\* rtable_get_keys nor rtable_print has gone past the end of an answer, only quit,
\* or a line that is no command with its arguments, ends the process: the
\* watcher's reconnections leave every call of main its descriptor
\* (child_watcher_client replaces the rtable and closes nothing), and the address
\* that main connects with is the one it has read.
THEOREM OnlyTheDisturbedEnd == Spec => []EndsOnlyIfDisturbed
<1>1. IInv => EndsOnlyIfDisturbed
  BY DEF IInv, CalmInv, Calm, Undisturbed, EndsOnlyIfDisturbed
<1>2. QED
  BY <1>1, Invariance, PTL
=============================================================================
