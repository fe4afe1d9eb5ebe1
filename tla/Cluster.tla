------------------------------- MODULE Cluster -------------------------------
(***************************************************************************)
(* How servers become primary and backup (source/table_skel.c):            *)
(* table_skel_init looks up the nodes /kvstore/primary and /kvstore/backup *)
(* in ZooKeeper and creates the one that is missing; child_watcher, which  *)
(* ZooKeeper calls when the children of /kvstore change, promotes the      *)
(* backup.  Every call of ZooKeeper is a step.                             *)
(*                                                                         *)
(* A process that ends leaves its ephemeral nodes to Gone until ZooKeeper  *)
(* times its session out.  What child_watcher does to the table of a new   *)
(* backup, and the flag boolean, are in module Replication.                *)
(***************************************************************************)
EXTENDS Integers, FiniteSets

CONSTANTS
  Servers,
  Gone,       \* the owner of a node whose process has ended
  Absent,     \* no node
  MaxStarts,  \* bound: processes started
  MaxLosses   \* bound: sessions that expire while the process runs

ASSUME ClusterAssumption ==
  /\ Gone \notin Servers
  /\ Absent \notin [owner : Servers \cup {Gone}, addr : Servers]
  /\ MaxStarts \in Nat
  /\ MaxLosses \in Nat

VARIABLES
  root,       \* /kvstore exists
  znode,      \* its children: who owns them, and the address they hold
  pc,         \* where in table_skel_init a server is
  wpc,        \* where in child_watcher
  isprimary,
  lost,       \* the server's session has expired
  watch,      \* it has a watch on the children of /kvstore
  event,      \* ZooKeeper has a change to tell it
  nested,     \* table_skel_init has called itself
  found,      \* what the last zoo_exists(primary) returned (retvalue)
  path,       \* children_list->data[0] of child_watcher
  buff,       \* the address it has read
  starts,     \* processes started (bounded)
  losses,     \* sessions lost (bounded)
  stray       \* history: a server that holds no node has set a watch

zkVars == <<root, znode>>
watchVars == <<wpc, watch, event, path, buff>>
boundVars == <<starts, losses, stray>>
vars == <<root, znode, pc, wpc, isprimary, lost, watch, event, nested, found,
          path, buff, starts, losses, stray>>

Paths == {"primary", "backup"}
Nodes == [owner : Servers \cup {Gone}, addr : Servers]

Init ==
  /\ root = FALSE
  /\ znode = [p \in Paths |-> Absent]
  /\ pc = [s \in Servers |-> "down"]
  /\ wpc = [s \in Servers |-> "idle"]
  /\ isprimary = [s \in Servers |-> FALSE]
  /\ lost = [s \in Servers |-> FALSE]
  /\ watch = [s \in Servers |-> FALSE]
  /\ event = [s \in Servers |-> FALSE]
  /\ nested = [s \in Servers |-> FALSE]
  /\ found = [s \in Servers |-> "none"]
  /\ path = [s \in Servers |-> "primary"]
  /\ buff = [s \in Servers |-> s]
  /\ starts = 0
  /\ losses = 0
  /\ stray = FALSE

-----------------------------------------------------------------------------
(* ZooKeeper.  With an expired session every call fails.                   *)

Children == {p \in Paths : znode[p] # Absent}
Owner(p) == znode[p].owner
Owns(s, p) == znode[p] # Absent /\ Owner(p) = s

\* The return value of zoo_exists: ZOK, ZNONODE, or another error.
Exists(s, p) == IF lost[s] THEN "error" ELSE IF p \in Children THEN "ok" ELSE "none"

\* A change of the children of /kvstore uses up every watch.
Tell ==
  /\ event' = [s \in Servers |-> event[s] \/ watch[s]]
  /\ watch' = [s \in Servers |-> FALSE]

\* A plausible error: the node is created without a value, as /kvstore is.
CreateWithoutAddress(s, p, addr) ==
  znode' = [znode EXCEPT ![p] = [owner |-> s, addr |-> Absent]]

\* A plausible error: the backup registers the address it has read last.
CreateWithPrimaryAddress(s, p, addr) ==
  znode' = [znode EXCEPT ![p] =
              [owner |-> s, addr |-> IF "primary" \in Children THEN znode["primary"].addr ELSE addr]]

CanCreate(s, p) == Exists(s, p) = "none"
Create(s, p, addr) == znode' = [znode EXCEPT ![p] = [owner |-> s, addr |-> addr]]

\* The process ends: exit, a crash, or main returning -1.
End(s) ==
  /\ pc' = [pc EXCEPT ![s] = "down"]
  /\ wpc' = [wpc EXCEPT ![s] = "idle"]
  /\ isprimary' = [isprimary EXCEPT ![s] = FALSE]
  /\ lost' = [lost EXCEPT ![s] = FALSE]
  /\ watch' = [watch EXCEPT ![s] = FALSE]
  /\ event' = [event EXCEPT ![s] = FALSE]
  /\ nested' = [nested EXCEPT ![s] = FALSE]
  /\ found' = [found EXCEPT ![s] = "none"]
  /\ path' = [path EXCEPT ![s] = "primary"]
  /\ buff' = [buff EXCEPT ![s] = s]
  /\ znode' = [p \in Paths |->
                 IF Owns(s, p) THEN [znode[p] EXCEPT !.owner = Gone] ELSE znode[p]]
  /\ UNCHANGED <<root, boundVars>>

\* The session of an ended process times out.
Expire(p) ==
  /\ Owns(Gone, p)
  /\ znode' = [znode EXCEPT ![p] = Absent]
  /\ Tell
  /\ UNCHANGED <<root, pc, wpc, isprimary, lost, nested, found, path, buff, boundVars>>

\* ZooKeeper hears nothing from a living server for too long.
LoseSession(s) ==
  /\ pc[s] # "down"
  /\ ~lost[s]
  /\ losses < MaxLosses
  /\ losses' = losses + 1
  /\ lost' = [lost EXCEPT ![s] = TRUE]
  /\ znode' = [p \in Paths |-> IF Owns(s, p) THEN Absent ELSE znode[p]]
  /\ IF \E p \in Paths : Owns(s, p)
       THEN /\ event' = [t \in Servers |-> event[t] \/ (watch[t] /\ t # s)]
            /\ watch' = [t \in Servers |-> FALSE]
       ELSE /\ watch' = [watch EXCEPT ![s] = FALSE]
            /\ UNCHANGED event
  /\ UNCHANGED <<root, pc, wpc, isprimary, nested, found, path, buff, starts, stray>>

Crash(s) == pc[s] # "down" /\ End(s)

-----------------------------------------------------------------------------
(* table_skel_init.                                                        *)

Goto(s, label) == pc' = [pc EXCEPT ![s] = label]
At(s, label) == pc[s] = label

Start(s) ==
  /\ At(s, "down")
  /\ starts < MaxStarts
  /\ starts' = starts + 1
  /\ Goto(s, "init")
  /\ UNCHANGED <<zkVars, watchVars, isprimary, lost, nested, found, losses, stray>>

\* return 0.  A nested call returns to table_skel_init, which sets the watch.
Succeed(s) ==
  /\ Goto(s, IF nested[s] THEN "watch" ELSE "serving")
  /\ nested' = [nested EXCEPT ![s] = FALSE]

\* return -1 ends the process, but table_skel_init does not look at what its
\* own call returns.
Fail(s) ==
  IF nested[s]
    THEN /\ Goto(s, "watch")
         /\ nested' = [nested EXCEPT ![s] = FALSE]
         /\ UNCHANGED <<zkVars, watchVars, isprimary, lost, found, boundVars>>
    ELSE End(s)

\* zookeeper_init and sleep(3): the connection is there or not.
NotConnected(s) ==
  /\ At(s, "init")
  /\ Succeed(s)
  /\ UNCHANGED <<zkVars, watchVars, isprimary, lost, found, boundVars>>

LookForRoot(s) ==
  /\ At(s, "init")
  /\ IF lost[s]
       THEN Succeed(s)
       ELSE /\ Goto(s, IF root THEN "primary1" ELSE "createRoot")
            /\ UNCHANGED nested
  /\ UNCHANGED <<zkVars, watchVars, isprimary, lost, found, boundVars>>

CreateRoot(s) ==
  /\ At(s, "createRoot")
  /\ IF root \/ lost[s]
       THEN Fail(s)
       ELSE /\ root' = TRUE
            /\ Goto(s, "createPrimary")
            /\ UNCHANGED <<znode, watchVars, isprimary, lost, nested, found, boundVars>>

\* A plausible error: isprimary is set although the node is another server's.
CreatePrimaryAnyway(s) ==
  /\ At(s, "createPrimary")
  /\ isprimary' = [isprimary EXCEPT ![s] = TRUE]
  /\ Goto(s, "watch")
  /\ IF CanCreate(s, "primary")
       THEN Create(s, "primary", s) /\ Tell
       ELSE UNCHANGED <<znode, watch, event>>
  /\ UNCHANGED <<root, wpc, path, buff, lost, nested, found, boundVars>>

CreatePrimary(s) ==
  /\ At(s, "createPrimary")
  /\ IF CanCreate(s, "primary")
       THEN /\ Create(s, "primary", s)
            /\ Tell
            /\ isprimary' = [isprimary EXCEPT ![s] = TRUE]
            /\ Goto(s, "watch")
            /\ UNCHANGED <<root, wpc, path, buff, lost, nested, found, boundVars>>
       ELSE Fail(s)

\* retvalue = zoo_exists(primary): three times, each followed by
\* retvalue1 = zoo_exists(backup) and the conditions on the two.
LookForPrimary(s, at, next) ==
  /\ At(s, at)
  /\ found' = [found EXCEPT ![s] = Exists(s, "primary")]
  /\ Goto(s, next)
  /\ UNCHANGED <<zkVars, watchVars, isprimary, lost, nested, boundVars>>

Move(s, label) ==
  /\ Goto(s, label)
  /\ UNCHANGED <<zkVars, watchVars, isprimary, lost, nested, found, boundVars>>

LookForBackup1(s) ==
  /\ At(s, "backup1")
  /\ LET both == <<found[s], Exists(s, "backup")>> IN
       CASE both = <<"ok", "ok">>     -> Fail(s)
         [] both = <<"none", "none">> -> Move(s, "createPrimary")
         [] OTHER                     -> Move(s, "primary2")

LookForBackup2(s) ==
  /\ At(s, "backup2")
  /\ Move(s, IF found[s] = "ok" /\ Exists(s, "backup") = "none"
               THEN "createBackup" ELSE "primary3")

CreateBackup(s) ==
  /\ At(s, "createBackup")
  /\ IF CanCreate(s, "backup")
       THEN /\ Create(s, "backup", s)
            /\ Tell
            /\ Goto(s, "getPrimary")
            /\ UNCHANGED <<root, wpc, path, buff, isprimary, lost, nested, found, boundVars>>
       ELSE Fail(s)

\* zoo_get of the primary's address; then isprimary = 0.
GetPrimary(s) ==
  /\ At(s, "getPrimary")
  /\ IF Exists(s, "primary") = "ok"
       THEN /\ isprimary' = [isprimary EXCEPT ![s] = FALSE]
            /\ Goto(s, "primary3")
            /\ UNCHANGED <<zkVars, watchVars, lost, nested, found, boundVars>>
       ELSE Fail(s)

\* A backup without a primary: sleep(3), isprimary = 0, table_skel_init again,
\* with a new session; the nodes of the old one stay.
LookForBackup3(s) ==
  /\ At(s, "backup3")
  /\ IF found[s] = "none" /\ Exists(s, "backup") = "ok"
       THEN /\ Goto(s, "init")
            /\ nested' = [nested EXCEPT ![s] = TRUE]
            /\ isprimary' = [isprimary EXCEPT ![s] = FALSE]
            /\ UNCHANGED <<zkVars, watchVars, lost, found, boundVars>>
       ELSE Move(s, "watch")

\* zoo_wget_children; nobody looks at the children it returns.
SetWatch(s) ==
  /\ At(s, "watch")
  /\ IF lost[s]
       THEN Fail(s)
       ELSE /\ watch' = [watch EXCEPT ![s] = TRUE]
            /\ Succeed(s)
            /\ stray' = (stray \/ \A p \in Paths : ~Owns(s, p))
            /\ UNCHANGED <<zkVars, wpc, event, path, buff, isprimary, lost, found,
                           starts, losses>>

InitStep(s) ==
  \/ NotConnected(s)
  \/ LookForRoot(s)
  \/ CreateRoot(s)
  \/ CreatePrimary(s)
  \/ LookForPrimary(s, "primary1", "backup1")
  \/ LookForBackup1(s)
  \/ LookForPrimary(s, "primary2", "backup2")
  \/ LookForBackup2(s)
  \/ CreateBackup(s)
  \/ GetPrimary(s)
  \/ LookForPrimary(s, "primary3", "backup3")
  \/ LookForBackup3(s)
  \/ SetWatch(s)

-----------------------------------------------------------------------------
(* child_watcher.                                                          *)

InWatcher(s, label) == pc[s] # "down" /\ wpc[s] = label
WatcherGoto(s, label) == wpc' = [wpc EXCEPT ![s] = label]

\* zoo_wget_children sets the watch again and lists the children.
ListChildren(s) ==
  /\ InWatcher(s, "idle")
  /\ event[s]
  /\ IF lost[s]
       THEN End(s)
       ELSE /\ event' = [event EXCEPT ![s] = FALSE]
            /\ watch' = [watch EXCEPT ![s] = TRUE]
            /\ \/ Cardinality(Children) = 1 /\ WatcherGoto(s, "exists")
               \/ Cardinality(Children) = 2 /\ isprimary[s] /\ WatcherGoto(s, "getBackup")
               \/ Cardinality(Children) = 2 /\ ~isprimary[s] /\ UNCHANGED wpc
               \/ Cardinality(Children) = 0 /\ UNCHANGED wpc
            /\ path' = [path EXCEPT ![s] =
                          IF Cardinality(Children) = 1 THEN CHOOSE p \in Children : TRUE ELSE @]
            /\ UNCHANGED <<zkVars, pc, buff, isprimary, lost, nested, found, boundVars>>

\* A plausible error: the other path is looked up.
FindPrimary(s) ==
  /\ InWatcher(s, "exists")
  /\ WatcherGoto(s, IF Exists(s, "primary") = "ok" THEN "get" ELSE "idle")
  /\ UNCHANGED <<zkVars, pc, isprimary, lost, watch, event, nested, found, path, buff, boundVars>>

\* One child: a server that finds a backup promotes itself.
FindBackup(s) ==
  /\ InWatcher(s, "exists")
  /\ WatcherGoto(s, IF Exists(s, "backup") = "ok" THEN "get" ELSE "idle")
  /\ UNCHANGED <<zkVars, pc, isprimary, lost, watch, event, nested, found, path, buff, boundVars>>

\* zoo_get of the child that was listed.
GetChild(s) ==
  /\ InWatcher(s, "get")
  /\ IF Exists(s, path[s]) = "ok"
       THEN /\ buff' = [buff EXCEPT ![s] = znode[path[s]].addr]
            /\ WatcherGoto(s, "create")
            /\ UNCHANGED <<zkVars, pc, isprimary, lost, watch, event, nested, found, path, boundVars>>
       ELSE End(s)

PromoteNode(s) ==
  /\ InWatcher(s, "create")
  /\ IF CanCreate(s, "primary")
       THEN /\ Create(s, "primary", buff[s])
            /\ Tell
            /\ WatcherGoto(s, "delete")
            /\ UNCHANGED <<root, pc, isprimary, lost, nested, found, path, buff, boundVars>>
       ELSE End(s)

\* zoo_delete of the child that was listed; then isprimary = 1.
DeleteChild(s) ==
  /\ InWatcher(s, "delete")
  /\ IF Exists(s, path[s]) = "ok"
       THEN /\ znode' = [znode EXCEPT ![path[s]] = Absent]
            /\ Tell
            /\ isprimary' = [isprimary EXCEPT ![s] = TRUE]
            /\ WatcherGoto(s, "idle")
            /\ path' = [path EXCEPT ![s] = "primary"]
            /\ buff' = [buff EXCEPT ![s] = s]
            /\ UNCHANGED <<root, pc, lost, nested, found, boundVars>>
       ELSE End(s)

\* Two children: the primary reads the backup's address to connect to it.
GetBackup(s) ==
  /\ InWatcher(s, "getBackup")
  /\ IF Exists(s, "backup") = "ok"
       THEN /\ WatcherGoto(s, "idle")
            /\ UNCHANGED <<zkVars, pc, isprimary, lost, watch, event, nested, found, path, buff, boundVars>>
       ELSE End(s)

WatcherStep(s) ==
  \/ ListChildren(s)
  \/ FindBackup(s)
  \/ GetChild(s)
  \/ PromoteNode(s)
  \/ DeleteChild(s)
  \/ GetBackup(s)

Next ==
  \/ \E s \in Servers :
       \/ Start(s)
       \/ InitStep(s)
       \/ WatcherStep(s)
       \/ Crash(s)
       \/ LoseSession(s)
  \/ \E p \in Paths : Expire(p)

Spec == Init /\ [][Next]_vars

\* Processes run, ZooKeeper delivers what it has to tell and times out the
\* sessions of ended processes.
FairSpec ==
  /\ Spec
  /\ \A s \in Servers : WF_vars(InitStep(s)) /\ WF_vars(WatcherStep(s))
  /\ \A p \in Paths : WF_vars(Expire(p))

-----------------------------------------------------------------------------
\* The type invariant.
TypeOK ==
  /\ root \in BOOLEAN
  /\ znode \in [Paths -> Nodes \cup {Absent}]
  /\ pc \in [Servers -> {"down", "init", "createRoot", "createPrimary", "primary1",
               "backup1", "primary2", "backup2", "createBackup", "getPrimary",
               "primary3", "backup3", "watch", "serving"}]
  /\ wpc \in [Servers -> {"idle", "exists", "get", "create", "delete", "getBackup"}]
  /\ isprimary \in [Servers -> BOOLEAN]
  /\ lost \in [Servers -> BOOLEAN]
  /\ watch \in [Servers -> BOOLEAN]
  /\ event \in [Servers -> BOOLEAN]
  /\ nested \in [Servers -> BOOLEAN]
  /\ found \in [Servers -> {"ok", "none", "error"}]
  /\ path \in [Servers -> Paths]
  /\ buff \in [Servers -> Servers]
  /\ stray \in BOOLEAN

\* A server with isprimary = 1 and a session owns /kvstore/primary: no
\* interleaving of table_skel_init and child_watcher in several servers, with
\* crashes and expired sessions, leaves two servers that forward writes as the
\* primary.  False once a stray watches: child_watcher asks whether some backup
\* exists, not whether it is the backup, and promotes it (lines 252-291).
PrimaryHoldsNode ==
  ~stray => \A s \in Servers : isprimary[s] /\ ~lost[s] => Owns(s, "primary")

\* The clients find in /kvstore/primary the address of the server that owns it:
\* child_watcher copies the address from the only child it listed, which has
\* to be its own node still when it is read.
AddressLeadsToOwner ==
  ~stray => \A s \in Servers : Owns(s, "primary") => znode["primary"].addr = s

\* When the process of the primary has ended and the backup was watching before
\* its session timed out, some server becomes the primary unless the backup
\* ends or loses its session.  Without watch[s] this is false: SetWatch takes no
\* notice of a primary that went before.
BackupPromoted ==
  \A s \in Servers :
    /\ ~stray /\ pc[s] = "serving" /\ ~lost[s] /\ watch[s]
    /\ Owns(s, "backup") /\ Owns(Gone, "primary")
    ~> \/ stray \/ pc[s] = "down" \/ lost[s]
       \/ \E t \in Servers : Owns(t, "primary")

=============================================================================
