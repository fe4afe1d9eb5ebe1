---------------------------- MODULE ClusterProofs ----------------------------
(***************************************************************************)
(* As long as no server that holds no node watches /kvstore, a primary     *)
(* with a session holds /kvstore/primary, with its own address, for any    *)
(* number of servers, processes started and sessions lost.                 *)
(***************************************************************************)
EXTENDS Cluster, FiniteSetTheorems, TLAPS

\* A server that watches, or has been told and has not ended, holds a node.
WatcherHolds(s) ==
  watch[s] \/ event[s] \/ wpc[s] # "idle" => \E p \in Paths : Owns(s, p)

\* The only child that child_watcher listed is its own server's node ...
ChildIsOwn(s) == wpc[s] \in {"exists", "get", "create", "delete"} => Owns(s, path[s])

\* ... and the address read from it the server's own.
BuffIsOwn(s) == wpc[s] = "create" => buff[s] = s

\* Between its zoo_create and its zoo_delete, a backup holds both nodes.
PromotedHoldsBoth(s) == wpc[s] = "delete" => path[s] = "backup" /\ Owns(s, "primary")

OwnAddresses(s) == \A p \in Paths : Owns(s, p) => znode[p].addr = s

Sound(s) ==
  /\ ~lost[s] => /\ WatcherHolds(s)
                 /\ ChildIsOwn(s)
                 /\ BuffIsOwn(s)
                 /\ PromotedHoldsBoth(s)
                 /\ isprimary[s] => Owns(s, "primary")
  /\ OwnAddresses(s)

NoStray == \A s \in Servers : Sound(s)

IInv == TypeOK /\ (~stray => NoStray)

\* The invariant gives the properties that the run checks.
LEMMA IInvImplies == IInv => TypeOK /\ PrimaryHoldsNode /\ AddressLeadsToOwner
BY DEF IInv, NoStray, Sound, OwnAddresses, PrimaryHoldsNode, AddressLeadsToOwner, Paths

\* Nobody holds a node before a process has been started.
LEMMA InitIInv == Init => IInv
<1>. SUFFICES ASSUME Init PROVE IInv
  OBVIOUS
<1>1. TypeOK
  BY ClusterAssumption DEF Init, TypeOK, Nodes, Paths
<1>2. NoStray
  BY DEF Init, NoStray, Sound, WatcherHolds, ChildIsOwn, BuffIsOwn, PromotedHoldsBoth,
         OwnAddresses, Owns, Paths
<1>. QED
  BY <1>1, <1>2 DEF IInv

-----------------------------------------------------------------------------
(* Facts about the nodes.                                                  *)

\* A node that a server creates is the server's.
LEMMA Created ==
  ASSUME TypeOK, NEW s \in Servers, NEW p \in Paths, NEW a \in Servers, Create(s, p, a)
  PROVE  /\ Owns(s, p)' /\ znode'[p].addr = a
         /\ \A q \in Paths : q # p => znode'[q] = znode[q]
         /\ znode' \in [Paths -> Nodes \cup {Absent}]
<1>1. [owner |-> s, addr |-> a] \in Nodes /\ [owner |-> s, addr |-> a] # Absent
  BY ClusterAssumption DEF Nodes
<1>. QED
  BY <1>1 DEF Create, Owns, Owner, TypeOK

\* The end of a process leaves the nodes of the others alone.
LEMMA Ended ==
  ASSUME TypeOK, NEW s \in Servers, End(s)
  PROVE  /\ TypeOK'
         /\ \A t \in Servers, p \in Paths : t # s /\ Owns(t, p) => znode'[p] = znode[p]
         /\ \A t \in Servers, p \in Paths : Owns(t, p)' => znode'[p] = znode[p]
<1>1. \A p \in Paths : znode'[p] = IF Owns(s, p) THEN [znode[p] EXCEPT !.owner = Gone] ELSE znode[p]
  BY DEF End
<1>2. \A p \in Paths : Owns(s, p) =>
        /\ [znode[p] EXCEPT !.owner = Gone] \in Nodes
        /\ [znode[p] EXCEPT !.owner = Gone].owner = Gone
  BY DEF Owns, Nodes, TypeOK
<1>3. znode' \in [Paths -> Nodes \cup {Absent}]
  BY <1>1, <1>2 DEF End, TypeOK
<1>4. TypeOK'
  BY <1>3 DEF TypeOK, End, boundVars, Paths
<1>5. \A t \in Servers, p \in Paths : t # s /\ Owns(t, p) => znode'[p] = znode[p]
  BY <1>1 DEF Owns, Owner
<1>6. \A t \in Servers, p \in Paths : Owns(t, p)' => znode'[p] = znode[p]
  BY <1>1, <1>2, ClusterAssumption DEF Owns, Owner
<1>. QED
  BY <1>4, <1>5, <1>6

\* A server whose own variables and nodes a step leaves alone, except that it may
\* be told of a change, stays sound.
LEMMA SoundStays ==
  ASSUME NEW s \in Servers, Sound(s),
         lost'[s] = lost[s], wpc'[s] = wpc[s], path'[s] = path[s], buff'[s] = buff[s],
         isprimary'[s] => isprimary[s],
         watch'[s] \/ event'[s] => watch[s] \/ event[s],
         \A p \in Paths : Owns(s, p) \/ Owns(s, p)' => znode'[p] = znode[p],
         path[s] \in Paths
  PROVE  Sound(s)'
<1>1. \A p \in Paths : Owns(s, p)' <=> Owns(s, p)
  BY DEF Owns, Owner
<1>2. "primary" \in Paths
  BY DEF Paths
<1>3. OwnAddresses(s)'
  BY <1>1 DEF Sound, OwnAddresses
<1>. QED
  BY <1>1, <1>2, <1>3 DEF Sound, WatcherHolds, ChildIsOwn, BuffIsOwn, PromotedHoldsBoth

\* Nobody is watching twice, and nobody is told of a change without a watch.
LEMMA Told ==
  ASSUME TypeOK, Tell
  PROVE  /\ watch' \in [Servers -> BOOLEAN] /\ event' \in [Servers -> BOOLEAN]
         /\ \A s \in Servers : watch'[s] \/ event'[s] => watch[s] \/ event[s]
<1>1. watch' \in [Servers -> BOOLEAN] /\ event' \in [Servers -> BOOLEAN]
  BY DEF Tell, TypeOK
<1>2. \A s \in Servers : watch'[s] \/ event'[s] => watch[s] \/ event[s]
  BY DEF Tell
<1>. QED
  BY <1>1, <1>2

-----------------------------------------------------------------------------
(* Processes, sessions and ZooKeeper.                                      *)

\* A process ends.
LEMMA EndKeeps ==
  ASSUME IInv, NEW s \in Servers, End(s)
  PROVE  IInv'
<1>1. TypeOK' /\ UNCHANGED stray
  BY Ended DEF IInv, End, boundVars
<1>2. ASSUME NoStray PROVE NoStray'
  <2>. SUFFICES ASSUME NEW t \in Servers PROVE Sound(t)'
    BY DEF NoStray
  <2>1. CASE t = s
    <3>1. /\ wpc'[s] = "idle" /\ ~watch'[s] /\ ~event'[s] /\ ~isprimary'[s]
      BY DEF End, IInv, TypeOK
    <3>2. \A p \in Paths : Owns(s, p)' => znode'[p] = znode[p] /\ Owns(s, p)
      BY Ended DEF IInv, Owns, Owner
    <3>3. OwnAddresses(s)'
      BY <1>2, <3>2 DEF NoStray, Sound, OwnAddresses
    <3>. QED
      BY <2>1, <3>1, <3>3 DEF Sound, WatcherHolds, ChildIsOwn, BuffIsOwn, PromotedHoldsBoth
  <2>2. CASE t # s
    <3>1. /\ lost'[t] = lost[t] /\ wpc'[t] = wpc[t] /\ path'[t] = path[t]
          /\ buff'[t] = buff[t] /\ isprimary'[t] = isprimary[t]
          /\ watch'[t] = watch[t] /\ event'[t] = event[t]
      BY <2>2 DEF End, IInv, TypeOK
    <3>2. \A p \in Paths : Owns(t, p) \/ Owns(t, p)' => znode'[p] = znode[p]
      BY <2>2, Ended DEF IInv
    <3>. QED
      BY <1>2, <3>1, <3>2, SoundStays DEF NoStray, IInv, TypeOK
  <2>. QED
    BY <2>1, <2>2
<1>. QED
  BY <1>1, <1>2 DEF IInv

\* ZooKeeper times out the session of a process that has ended.
LEMMA ExpireKeeps ==
  ASSUME IInv, NEW p \in Paths, Expire(p)
  PROVE  IInv'
<1>1. /\ UNCHANGED <<root, pc, wpc, isprimary, lost, nested, found, path, buff, stray>>
      /\ Tell
      /\ znode' = [znode EXCEPT ![p] = Absent] /\ Owns(Gone, p)
  BY DEF Expire, boundVars
<1>2. TypeOK'
  BY <1>1, Told DEF IInv, TypeOK
<1>3. ASSUME NoStray PROVE NoStray'
  <2>. SUFFICES ASSUME NEW t \in Servers PROVE Sound(t)'
    BY DEF NoStray
  <2>1. \A q \in Paths : Owns(t, q) \/ Owns(t, q)' => znode'[q] = znode[q]
    BY <1>1, ClusterAssumption DEF Owns, Owner, IInv, TypeOK
  <2>. QED
    BY <1>1, <1>3, <2>1, Told, SoundStays DEF NoStray, IInv, TypeOK
<1>. QED
  BY <1>1, <1>2, <1>3 DEF IInv

\* ZooKeeper ends the session of a living server: it holds nothing any more.
LEMMA LoseSessionKeeps ==
  ASSUME IInv, NEW s \in Servers, LoseSession(s)
  PROVE  IInv'
<1>1. /\ UNCHANGED <<root, pc, wpc, isprimary, nested, found, path, buff, stray>>
      /\ lost' = [lost EXCEPT ![s] = TRUE]
      /\ znode' = [p \in Paths |-> IF Owns(s, p) THEN Absent ELSE znode[p]]
  BY DEF LoseSession
<1>2. /\ watch' \in [Servers -> BOOLEAN] /\ event' \in [Servers -> BOOLEAN]
      /\ \A t \in Servers : watch'[t] \/ event'[t] => watch[t] \/ event[t]
  BY ZenonT(60) DEF LoseSession, IInv, TypeOK
<1>3. TypeOK'
  BY <1>1, <1>2 DEF IInv, TypeOK
<1>4. ASSUME NoStray PROVE NoStray'
  <2>. SUFFICES ASSUME NEW t \in Servers PROVE Sound(t)'
    BY DEF NoStray
  <2>1. CASE t = s
    <3>1. lost'[s] /\ \A p \in Paths : ~Owns(s, p)'
      BY <1>1 DEF IInv, TypeOK, Owns, Owner
    <3>. QED
      BY <2>1, <3>1 DEF Sound, OwnAddresses
  <2>2. CASE t # s
    <3>1. \A p \in Paths : Owns(t, p) \/ Owns(t, p)' => znode'[p] = znode[p]
      BY <1>1, <2>2 DEF Owns, Owner
    <3>2. lost'[t] = lost[t]
      BY <1>1, <2>2 DEF IInv, TypeOK
    <3>. QED
      BY <1>1, <1>2, <1>4, <3>1, <3>2, SoundStays DEF NoStray, IInv, TypeOK
  <2>. QED
    BY <2>1, <2>2
<1>. QED
  BY <1>1, <1>3, <1>4 DEF IInv

-----------------------------------------------------------------------------
(* table_skel_init.                                                        *)

\* A step that ZooKeeper and child_watcher do not notice.
Unnoticed ==
  /\ TypeOK'
  /\ UNCHANGED <<znode, lost, wpc, watch, event, path, buff, stray>>
  /\ \A s \in Servers : isprimary'[s] => isprimary[s]

\* A step that the invariant does not speak of keeps it.
LEMMA UnnoticedKeeps ==
  ASSUME IInv, Unnoticed
  PROVE  IInv'
<1>1. ASSUME NoStray PROVE NoStray'
  BY <1>1, SoundStays DEF NoStray, Unnoticed, IInv, TypeOK
<1>. QED
  BY <1>1 DEF IInv, Unnoticed

\* Only the types of pc, nested, found, isprimary and root change.
LEMMA Moved ==
  ASSUME TypeOK, UNCHANGED <<znode, lost, wpc, watch, event, path, buff, stray>>,
         root' \in BOOLEAN,
         pc' \in [Servers -> {"down", "init", "createRoot", "createPrimary", "primary1",
               "backup1", "primary2", "backup2", "createBackup", "getPrimary",
               "primary3", "backup3", "watch", "serving"}],
         nested' \in [Servers -> BOOLEAN],
         found' \in [Servers -> {"ok", "none", "error"}],
         isprimary' \in [Servers -> BOOLEAN],
         \A s \in Servers : isprimary'[s] => isprimary[s]
  PROVE  Unnoticed
BY DEF Unnoticed, TypeOK

\* A return of -1 ends the process or is not noticed.
LEMMA Failed ==
  ASSUME TypeOK, NEW s \in Servers, Fail(s)
  PROVE  End(s) \/ Unnoticed
<1>1. CASE nested[s]
  <2>1. /\ UNCHANGED <<root, znode, lost, wpc, watch, event, path, buff, stray, isprimary, found>>
        /\ pc' = [pc EXCEPT ![s] = "watch"] /\ nested' = [nested EXCEPT ![s] = FALSE]
    BY <1>1 DEF Fail, zkVars, watchVars, boundVars, Goto
  <2>. QED
    BY <2>1, Moved DEF TypeOK
<1>. QED
  BY <1>1 DEF Fail

\* Going on to such a place of table_skel_init is a step of this kind.
LEMMA MoveUnnoticed ==
  ASSUME TypeOK, NEW s \in Servers,
         NEW label \in {"createPrimary", "primary2", "createBackup", "primary3", "watch"},
         Move(s, label)
  PROVE  Unnoticed
<1>1. /\ UNCHANGED <<root, znode, lost, wpc, watch, event, path, buff, stray, isprimary,
                     found, nested>>
      /\ pc' = [pc EXCEPT ![s] = label]
  BY DEF Move, zkVars, watchVars, boundVars, Goto
<1>. QED
  BY <1>1, Moved DEF TypeOK

\* The looks into ZooKeeper, and the calls that change only what the server knows.
LEMMA LooksUnnoticed ==
  ASSUME TypeOK, NEW s \in Servers,
         \/ Start(s) \/ NotConnected(s) \/ LookForRoot(s) \/ CreateRoot(s)
         \/ LookForPrimary(s, "primary1", "backup1") \/ LookForBackup1(s)
         \/ LookForPrimary(s, "primary2", "backup2") \/ LookForBackup2(s)
         \/ LookForPrimary(s, "primary3", "backup3") \/ LookForBackup3(s)
         \/ GetPrimary(s)
  PROVE  End(s) \/ Unnoticed
<1>. USE DEF zkVars, watchVars, boundVars, Goto, At
<1>1. CASE Start(s)
  <2>1. /\ UNCHANGED <<root, znode, lost, wpc, watch, event, path, buff, stray, isprimary,
                       found, nested>>
        /\ pc' = [pc EXCEPT ![s] = "init"]
    BY <1>1 DEF Start
  <2>. QED
    BY <2>1, Moved DEF TypeOK
<1>2. CASE NotConnected(s) \/ LookForRoot(s)
  <2>1. /\ UNCHANGED <<root, znode, lost, wpc, watch, event, path, buff, stray, isprimary, found>>
        /\ \E label \in {"watch", "serving", "primary1", "createRoot"} :
             pc' = [pc EXCEPT ![s] = label]
        /\ nested' = [nested EXCEPT ![s] = FALSE] \/ UNCHANGED nested
    BY <1>2 DEF NotConnected, LookForRoot, Succeed
  <2>. QED
    BY ZenonT(60), <2>1, Moved DEF TypeOK
<1>3. CASE CreateRoot(s)
  <2>1. CASE Fail(s)
    BY <2>1, Failed
  <2>2. CASE ~Fail(s)
    <3>1. /\ UNCHANGED <<znode, lost, wpc, watch, event, path, buff, stray, isprimary, found, nested>>
          /\ root' = TRUE
          /\ pc' = [pc EXCEPT ![s] = "createPrimary"]
      BY <1>3, <2>2 DEF CreateRoot
    <3>. QED
      BY <3>1, Moved DEF TypeOK
  <2>. QED
    BY <2>1, <2>2
<1>4. ASSUME NEW at, NEW next \in {"backup1", "backup2", "backup3"},
             LookForPrimary(s, at, next)
      PROVE  Unnoticed
  <2>1. /\ UNCHANGED <<root, znode, lost, wpc, watch, event, path, buff, stray, isprimary, nested>>
        /\ found' = [found EXCEPT ![s] = Exists(s, "primary")]
        /\ pc' = [pc EXCEPT ![s] = next]
    BY <1>4 DEF LookForPrimary
  <2>2. Exists(s, "primary") \in {"ok", "none", "error"}
    BY DEF Exists
  <2>. QED
    BY <2>1, <2>2, Moved DEF TypeOK
<1>5. CASE LookForBackup1(s)
  <2>1. Fail(s) \/ Move(s, "createPrimary") \/ Move(s, "primary2")
    BY <1>5 DEF LookForBackup1
  <2>. QED
    BY <2>1, Failed, MoveUnnoticed
<1>6. CASE LookForBackup2(s)
  <2>1. Move(s, "createBackup") \/ Move(s, "primary3")
    BY <1>6 DEF LookForBackup2
  <2>. QED
    BY <2>1, MoveUnnoticed
<1>7. CASE LookForBackup3(s)
  <2>1. CASE Move(s, "watch")
    BY <2>1, MoveUnnoticed
  <2>2. CASE ~Move(s, "watch")
    <3>1. /\ UNCHANGED <<root, znode, lost, wpc, watch, event, path, buff, stray, found>>
          /\ pc' = [pc EXCEPT ![s] = "init"]
          /\ nested' = [nested EXCEPT ![s] = TRUE]
          /\ isprimary' = [isprimary EXCEPT ![s] = FALSE]
      BY <1>7, <2>2 DEF LookForBackup3
    <3>. QED
      BY <3>1, Moved DEF TypeOK
  <2>. QED
    BY <2>1, <2>2
<1>8. CASE GetPrimary(s)
  <2>1. CASE Fail(s)
    BY <2>1, Failed
  <2>2. CASE ~Fail(s)
    <3>1. /\ UNCHANGED <<root, znode, lost, wpc, watch, event, path, buff, stray, found, nested>>
          /\ pc' = [pc EXCEPT ![s] = "primary3"]
          /\ isprimary' = [isprimary EXCEPT ![s] = FALSE]
      BY <1>8, <2>2 DEF GetPrimary
    <3>. QED
      BY <3>1, Moved DEF TypeOK
  <2>. QED
    BY <2>1, <2>2
<1>. QED
  BY <1>1, <1>2, <1>3, <1>4, <1>5, <1>6, <1>7, <1>8

-----------------------------------------------------------------------------
(* The steps that ZooKeeper or child_watcher notices.                      *)

\* What a step of s leaves alone of the others.
OthersAlone(s) ==
  \A t \in Servers : t # s =>
    /\ lost'[t] = lost[t] /\ wpc'[t] = wpc[t] /\ path'[t] = path[t]
    /\ buff'[t] = buff[t] /\ isprimary'[t] = isprimary[t]
    /\ watch'[t] \/ event'[t] => watch[t] \/ event[t]
    /\ \A p \in Paths : Owns(t, p) \/ Owns(t, p)' => znode'[p] = znode[p]

\* A server that leaves the others alone has only its own part to keep.
LEMMA OwnStep ==
  ASSUME TypeOK, TypeOK', NEW s \in Servers, OthersAlone(s),
         stray => stray', ~stray' /\ NoStray => Sound(s)', ~stray => NoStray
  PROVE  IInv'
<1>1. ASSUME ~stray' PROVE NoStray'
  <2>1. NoStray /\ Sound(s)'
    BY <1>1
  <2>2. \A t \in Servers : t # s => Sound(t)'
    BY <2>1, SoundStays DEF OthersAlone, NoStray, TypeOK
  <2>. QED
    BY <2>1, <2>2 DEF NoStray
<1>. QED
  BY <1>1 DEF IInv

\* A server creates a node with its own address.
LEMMA CreateOwn ==
  ASSUME IInv, NEW s \in Servers, NEW p \in Paths, CanCreate(s, p), Create(s, p, s), Tell
  PROVE  /\ znode' \in [Paths -> Nodes \cup {Absent}]
         /\ ~lost[s]
         /\ Owns(s, p)'
         /\ \A q \in Paths : Owns(s, q) => Owns(s, q)'
         /\ OwnAddresses(s) => OwnAddresses(s)'
         /\ \A t \in Servers : t # s => \A q \in Paths :
              Owns(t, q) \/ Owns(t, q)' => znode'[q] = znode[q]
<1>1. /\ Owns(s, p)' /\ znode'[p].addr = s
      /\ \A q \in Paths : q # p => znode'[q] = znode[q]
      /\ znode' \in [Paths -> Nodes \cup {Absent}]
  BY Created DEF IInv
<1>2. ~lost[s] /\ znode[p] = Absent
  BY DEF CanCreate, Exists, Children
<1>. QED
  BY <1>1, <1>2 DEF Owns, Owner, OwnAddresses

\* A server that has created the node of the primary holds it.
LEMMA CreatePrimaryKeeps ==
  ASSUME IInv, NEW s \in Servers, CreatePrimary(s), ~Fail(s)
  PROVE  IInv'
<1>1. /\ CanCreate(s, "primary") /\ Create(s, "primary", s) /\ Tell
      /\ isprimary' = [isprimary EXCEPT ![s] = TRUE]
      /\ pc' = [pc EXCEPT ![s] = "watch"]
      /\ UNCHANGED <<root, wpc, path, buff, lost, nested, found, stray>>
  BY DEF CreatePrimary, boundVars, Goto
<1>2. "primary" \in Paths
  BY DEF Paths
<1>3. TypeOK'
  BY <1>1, <1>2, CreateOwn, Told DEF IInv, TypeOK
<1>4. OthersAlone(s)
  BY <1>1, <1>2, CreateOwn, Told DEF OthersAlone, IInv, TypeOK
<1>5. NoStray => Sound(s)'
  BY <1>1, <1>2, CreateOwn, Told DEF NoStray, Sound, WatcherHolds, ChildIsOwn, BuffIsOwn,
     PromotedHoldsBoth, IInv, TypeOK
<1>. QED
  BY <1>1, <1>3, <1>4, <1>5, OwnStep DEF IInv

\* A server that has created the node of the backup holds it.
LEMMA CreateBackupKeeps ==
  ASSUME IInv, NEW s \in Servers, CreateBackup(s), ~Fail(s)
  PROVE  IInv'
<1>1. /\ CanCreate(s, "backup") /\ Create(s, "backup", s) /\ Tell
      /\ pc' = [pc EXCEPT ![s] = "getPrimary"]
      /\ UNCHANGED <<root, wpc, path, buff, isprimary, lost, nested, found, stray>>
  BY DEF CreateBackup, boundVars, Goto
<1>2. "backup" \in Paths /\ "primary" \in Paths
  BY DEF Paths
<1>3. TypeOK'
  BY <1>1, <1>2, CreateOwn, Told DEF IInv, TypeOK
<1>4. OthersAlone(s)
  BY <1>1, <1>2, CreateOwn, Told DEF OthersAlone, IInv, TypeOK
<1>5. NoStray => Sound(s)'
  BY <1>1, <1>2, CreateOwn, Told DEF NoStray, Sound, WatcherHolds, ChildIsOwn, BuffIsOwn,
     PromotedHoldsBoth, IInv, TypeOK
<1>. QED
  BY <1>1, <1>3, <1>4, <1>5, OwnStep DEF IInv

\* The watch is set by a server that holds a node, or is a stray's.
LEMMA SetWatchKeeps ==
  ASSUME IInv, NEW s \in Servers, SetWatch(s), ~Fail(s)
  PROVE  IInv'
<1>1. /\ watch' = [watch EXCEPT ![s] = TRUE]
      /\ nested' = [nested EXCEPT ![s] = FALSE]
      /\ \E label \in {"watch", "serving"} : pc' = [pc EXCEPT ![s] = label]
      /\ UNCHANGED <<root, znode, wpc, event, path, buff, isprimary, lost, found>>
  BY DEF SetWatch, Succeed, Goto, zkVars
<1>2. stray' = (stray \/ \A p \in Paths : ~Owns(s, p))
  BY DEF SetWatch
<1>3. stray' \in BOOLEAN /\ (stray => stray') /\ (~stray' => \E p \in Paths : Owns(s, p))
  BY <1>2, Zenon
<1>4. TypeOK'
  BY <1>1, <1>3 DEF IInv, TypeOK
<1>5. OthersAlone(s)
  BY <1>1 DEF OthersAlone, IInv, TypeOK
<1>6. ASSUME ~stray', NoStray PROVE Sound(s)'
  <2>1. \A p \in Paths : Owns(s, p)' <=> Owns(s, p)
    BY <1>1 DEF Owns, Owner
  <2>2. path[s] \in Paths /\ "primary" \in Paths
    BY DEF IInv, TypeOK, Paths
  <2>. QED
    BY <1>1, <1>3, <1>6, <2>1, <2>2 DEF NoStray, Sound, WatcherHolds, ChildIsOwn, BuffIsOwn,
       PromotedHoldsBoth, OwnAddresses
<1>. QED
  BY <1>3, <1>4, <1>5, <1>6, OwnStep DEF IInv

\* Every step of table_skel_init keeps the invariant.
LEMMA InitStepKeeps ==
  ASSUME IInv, NEW s \in Servers, Start(s) \/ InitStep(s)
  PROVE  IInv'
<1>1. CASE Fail(s)
  BY <1>1, Failed, EndKeeps, UnnoticedKeeps DEF IInv
<1>2. CASE ~Fail(s)
  BY <1>2, LooksUnnoticed, EndKeeps, UnnoticedKeeps, CreatePrimaryKeeps, CreateBackupKeeps,
     SetWatchKeeps DEF IInv, InitStep
<1>. QED
  BY <1>1, <1>2

-----------------------------------------------------------------------------
(* child_watcher.                                                          *)

\* A server that holds a node and sees a single child sees its own.
LEMMA SingleChild ==
  ASSUME NEW s \in Servers, Cardinality(Children) = 1,
         \E p \in Paths : Owns(s, p)
  PROVE  Owns(s, CHOOSE p \in Children : TRUE)
<1>1. Children \subseteq Paths /\ IsFiniteSet(Paths)
  <2>1. IsFiniteSet({"primary", "backup"})
    <3>1. IsFiniteSet({} \cup {"primary"})
      BY FS_EmptySet, FS_AddElement
    <3>2. IsFiniteSet(({} \cup {"primary"}) \cup {"backup"})
      BY <3>1, FS_AddElement
    <3>3. ({} \cup {"primary"}) \cup {"backup"} = {"primary", "backup"}
      OBVIOUS
    <3>. QED
      BY <3>2, <3>3
  <2>. QED
    BY <2>1 DEF Children, Paths
<1>2. PICK q : Children = {q}
  BY <1>1, FS_Subset, FS_Singleton
<1>3. \A p \in Paths : Owns(s, p) => p = q
  BY <1>2 DEF Children, Owns
<1>4. (CHOOSE p \in Children : TRUE) = q
  BY <1>2
<1>. QED
  BY <1>3, <1>4

\* A server that lists the children sets its watch again.
LEMMA ListChildrenKeeps ==
  ASSUME IInv, NEW s \in Servers, ListChildren(s), ~End(s)
  PROVE  IInv'
<1>. DEFINE only == CHOOSE p \in Children : TRUE
            single == Cardinality(Children) = 1
<1>1. /\ wpc[s] = "idle" /\ event[s] /\ ~lost[s]
      /\ event' = [event EXCEPT ![s] = FALSE]
      /\ watch' = [watch EXCEPT ![s] = TRUE]
      /\ path' = [path EXCEPT ![s] = IF single THEN only ELSE @]
      /\ UNCHANGED <<root, znode, pc, buff, isprimary, lost, nested, found, stray>>
  BY DEF ListChildren, InWatcher, zkVars, boundVars
<1>2. \E label \in {"exists", "getBackup", "idle"} :
        /\ wpc' = [wpc EXCEPT ![s] = label]
        /\ label = "exists" => single
  BY <1>1 DEF ListChildren, WatcherGoto, IInv, TypeOK
<1>3. single => only \in Paths
  <2>1. ASSUME Children # {} PROVE only \in Paths
    BY <2>1 DEF Children
  <2>2. single => Children # {}
    BY FS_EmptySet
  <2>. QED
    BY <2>1, <2>2
<1>4. TypeOK'
  <2>1. path' \in [Servers -> Paths]
    BY <1>1, <1>3 DEF IInv, TypeOK
  <2>. QED
    BY <1>1, <1>2, <2>1 DEF IInv, TypeOK
<1>5. OthersAlone(s)
  BY <1>1, <1>2 DEF OthersAlone, IInv, TypeOK
<1>6. ASSUME NoStray PROVE Sound(s)'
  <2>1. \A p \in Paths : Owns(s, p)' <=> Owns(s, p)
    BY <1>1 DEF Owns, Owner
  <2>2. \E p \in Paths : Owns(s, p)
    BY <1>1, <1>6 DEF NoStray, Sound, WatcherHolds
  <2>3. wpc'[s] = "exists" => single /\ path'[s] = only
    BY <1>1, <1>2 DEF IInv, TypeOK
  <2>4. ChildIsOwn(s)'
    <3>1. wpc'[s] \in {"exists", "get", "create", "delete"} => wpc'[s] = "exists"
      BY <1>2 DEF IInv, TypeOK
    <3>. QED
      BY <1>3, <2>1, <2>2, <2>3, <3>1, SingleChild DEF ChildIsOwn
  <2>5. WatcherHolds(s)'
    BY <2>1, <2>2 DEF WatcherHolds
  <2>6. BuffIsOwn(s)' /\ PromotedHoldsBoth(s)'
    BY <1>2 DEF BuffIsOwn, PromotedHoldsBoth, IInv, TypeOK
  <2>7. OwnAddresses(s)'
    BY <1>1, <1>6, <2>1 DEF OwnAddresses, NoStray, Sound
  <2>8. isprimary'[s] => Owns(s, "primary")'
    BY <1>1, <1>6, <2>1 DEF NoStray, Sound, Paths
  <2>. QED
    BY <2>4, <2>5, <2>6, <2>7, <2>8 DEF Sound
<1>. QED
  BY <1>1, <1>4, <1>5, <1>6, OwnStep DEF IInv

\* child_watcher goes on without ZooKeeper's noticing: to look up, to read, or out.
LEMMA WatcherLooks ==
  ASSUME IInv, NEW s \in Servers, ~End(s), FindBackup(s) \/ GetChild(s) \/ GetBackup(s)
  PROVE  IInv'
<1>1. /\ wpc[s] \in {"exists", "get", "getBackup"}
      /\ UNCHANGED <<root, znode, pc, isprimary, lost, watch, event, nested, found, path, stray>>
  BY DEF FindBackup, GetChild, GetBackup, InWatcher, zkVars, boundVars
<1>2. PICK label \in {"get", "create", "idle"} :
        /\ wpc' = [wpc EXCEPT ![s] = label]
        /\ label = "get" => wpc[s] = "exists"
        /\ label = "create" =>
             /\ wpc[s] = "get" /\ ~lost[s] /\ znode[path[s]] # Absent
             /\ buff' = [buff EXCEPT ![s] = znode[path[s]].addr]
        /\ label # "create" => UNCHANGED buff
  <2>1. GetChild(s) => /\ wpc' = [wpc EXCEPT ![s] = "create"]
                       /\ wpc[s] = "get" /\ ~lost[s] /\ znode[path[s]] # Absent
                       /\ buff' = [buff EXCEPT ![s] = znode[path[s]].addr]
    BY DEF GetChild, InWatcher, WatcherGoto, Exists, Children
  <2>2. GetBackup(s) => wpc' = [wpc EXCEPT ![s] = "idle"] /\ UNCHANGED buff
    BY DEF GetBackup, WatcherGoto
  <2>3. FindBackup(s) => /\ wpc' = [wpc EXCEPT ![s] = "get"] \/ wpc' = [wpc EXCEPT ![s] = "idle"]
                         /\ wpc[s] = "exists" /\ UNCHANGED buff
    BY DEF FindBackup, InWatcher, WatcherGoto
  <2>. QED
    BY <2>1, <2>2, <2>3
<1>3. path[s] \in Paths /\ "primary" \in Paths
  BY DEF IInv, TypeOK, Paths
<1>4. TypeOK'
  <2>1. label = "create" => znode[path[s]].addr \in Servers
    BY <1>2, <1>3 DEF IInv, TypeOK, Nodes
  <2>2. buff' \in [Servers -> Servers]
    BY <1>2, <2>1 DEF IInv, TypeOK
  <2>. QED
    BY <1>1, <1>2, <2>2 DEF IInv, TypeOK
<1>5. OthersAlone(s)
  BY <1>1, <1>2 DEF OthersAlone, IInv, TypeOK
<1>6. ASSUME NoStray PROVE Sound(s)'
  <2>1. \A p \in Paths : Owns(s, p)' <=> Owns(s, p)
    BY <1>1 DEF Owns, Owner
  <2>2. wpc'[s] = label
    BY <1>2 DEF IInv, TypeOK
  <2>3. ASSUME ~lost[s] PROVE ChildIsOwn(s)' /\ WatcherHolds(s)'
    <3>1. wpc[s] \in {"exists", "get"} => Owns(s, path[s])
      BY <1>6, <2>3 DEF NoStray, Sound, ChildIsOwn
    <3>2. \E p \in Paths : Owns(s, p)
      BY <1>1, <1>6, <2>3 DEF NoStray, Sound, WatcherHolds
    <3>. QED
      BY <1>1, <1>2, <1>3, <2>1, <2>2, <3>1, <3>2 DEF ChildIsOwn, WatcherHolds
  <2>4. BuffIsOwn(s)'
    <3>1. ASSUME label = "create" PROVE buff'[s] = s
      <4>1. Owns(s, path[s])
        BY <1>2, <1>6, <3>1 DEF NoStray, Sound, ChildIsOwn
      <4>2. znode[path[s]].addr = s
        BY <1>3, <1>6, <4>1 DEF NoStray, Sound, OwnAddresses
      <4>. QED
        BY <1>2, <3>1, <4>2 DEF IInv, TypeOK
    <3>. QED
      BY <2>2, <3>1 DEF BuffIsOwn
  <2>5. PromotedHoldsBoth(s)'
    BY <2>2 DEF PromotedHoldsBoth
  <2>6. OwnAddresses(s)'
    BY <1>1, <1>6, <2>1 DEF OwnAddresses, NoStray, Sound
  <2>. QED
    BY <1>1, <1>3, <1>6, <2>1, <2>3, <2>4, <2>5, <2>6 DEF NoStray, Sound
<1>. QED
  BY <1>1, <1>4, <1>5, <1>6, OwnStep DEF IInv

\* A backup makes itself primary: the only child it listed was its own node, so
\* when /kvstore/primary can be created that node is /kvstore/backup.
LEMMA PromoteNodeKeeps ==
  ASSUME IInv, NEW s \in Servers, PromoteNode(s), ~End(s)
  PROVE  IInv'
<1>1. /\ wpc[s] = "create"
      /\ CanCreate(s, "primary") /\ Create(s, "primary", buff[s]) /\ Tell
      /\ wpc' = [wpc EXCEPT ![s] = "delete"]
      /\ UNCHANGED <<root, pc, isprimary, lost, nested, found, path, buff, stray>>
  BY DEF PromoteNode, InWatcher, WatcherGoto, boundVars
<1>2. "primary" \in Paths /\ buff[s] \in Servers /\ path[s] \in Paths
  BY DEF IInv, TypeOK, Paths
<1>3. /\ Owns(s, "primary")' /\ znode'["primary"].addr = buff[s]
      /\ \A q \in Paths : q # "primary" => znode'[q] = znode[q]
      /\ znode' \in [Paths -> Nodes \cup {Absent}]
  BY <1>1, <1>2, Created DEF IInv
<1>4. ~lost[s] /\ znode["primary"] = Absent
  BY <1>1, <1>2 DEF CanCreate, Exists, Children
<1>5. TypeOK'
  BY <1>1, <1>3, Told DEF IInv, TypeOK
<1>6. OthersAlone(s)
  <2>1. \A t \in Servers, q \in Paths :
          t # s /\ (Owns(t, q) \/ Owns(t, q)') => znode'[q] = znode[q]
    BY <1>3, <1>4 DEF Owns, Owner
  <2>. QED
    BY <1>1, <2>1, Told DEF OthersAlone, IInv, TypeOK
<1>7. ASSUME NoStray PROVE Sound(s)'
  <2>1. Owns(s, path[s]) /\ buff[s] = s
    BY <1>1, <1>4, <1>7 DEF NoStray, Sound, ChildIsOwn, BuffIsOwn
  <2>2. path[s] = "backup"
    BY <1>2, <1>4, <2>1 DEF Owns, Paths
  <2>3. wpc'[s] = "delete"
    BY <1>1 DEF IInv, TypeOK
  <2>4. Owns(s, path[s])'
    BY <1>1, <1>2, <1>3, <2>1, <2>2 DEF Owns, Owner
  <2>5. OwnAddresses(s)'
    BY <1>3, <1>7, <2>1 DEF OwnAddresses, Owns, Owner, NoStray, Sound
  <2>. QED
    BY <1>1, <1>2, <1>3, <2>2, <2>3, <2>4, <2>5 DEF Sound, WatcherHolds, ChildIsOwn, BuffIsOwn,
       PromotedHoldsBoth
<1>. QED
  BY <1>1, <1>5, <1>6, <1>7, OwnStep DEF IInv

\* ... and deletes its node of a backup; it has the other one already.
LEMMA DeleteChildKeeps ==
  ASSUME IInv, NEW s \in Servers, DeleteChild(s), ~End(s)
  PROVE  IInv'
<1>1. /\ wpc[s] = "delete" /\ ~lost[s]
      /\ znode' = [znode EXCEPT ![path[s]] = Absent]
      /\ Tell
      /\ isprimary' = [isprimary EXCEPT ![s] = TRUE]
      /\ wpc' = [wpc EXCEPT ![s] = "idle"]
      /\ path' = [path EXCEPT ![s] = "primary"]
      /\ buff' = [buff EXCEPT ![s] = s]
      /\ UNCHANGED <<root, pc, lost, nested, found, stray>>
  BY DEF DeleteChild, InWatcher, WatcherGoto, Exists, boundVars
<1>2. "primary" \in Paths /\ path[s] \in Paths
  BY DEF IInv, TypeOK, Paths
<1>3. TypeOK'
  BY <1>1, <1>2, Told DEF IInv, TypeOK
<1>4. ASSUME NoStray
      PROVE  /\ path[s] = "backup" /\ Owns(s, "backup") /\ Owns(s, "primary")
             /\ OwnAddresses(s)
  BY <1>1, <1>4 DEF NoStray, Sound, ChildIsOwn, PromotedHoldsBoth
<1>5. ASSUME NoStray PROVE OthersAlone(s) /\ Sound(s)'
  <2>1. \A t \in Servers, q \in Paths :
          t # s /\ (Owns(t, q) \/ Owns(t, q)') => znode'[q] = znode[q]
    BY <1>1, <1>4, <1>5 DEF Owns, Owner, IInv, TypeOK
  <2>2. OthersAlone(s)
    BY <1>1, <2>1, Told DEF OthersAlone, IInv, TypeOK
  <2>3. \A q \in Paths : Owns(s, q)' => Owns(s, q) /\ znode'[q] = znode[q]
    BY <1>1 DEF Owns, Owner, IInv, TypeOK
  <2>4. Owns(s, "primary")'
    BY <1>1, <1>2, <1>4, <1>5 DEF Owns, Owner, IInv, TypeOK
  <2>5. OwnAddresses(s)'
    BY <1>4, <1>5, <2>3 DEF OwnAddresses
  <2>6. wpc'[s] = "idle"
    BY <1>1 DEF IInv, TypeOK
  <2>. QED
    BY <1>2, <2>2, <2>4, <2>5, <2>6 DEF Sound, WatcherHolds, ChildIsOwn, BuffIsOwn,
       PromotedHoldsBoth
<1>6. ASSUME ~stray' PROVE NoStray'
  BY <1>1, <1>3, <1>5, <1>6, SoundStays DEF OthersAlone, NoStray, IInv, TypeOK
<1>. QED
  BY <1>3, <1>6 DEF IInv

-----------------------------------------------------------------------------
\* Every step of the specification keeps the invariant.
THEOREM Inductive == IInv /\ [Next]_vars => IInv'
<1>. SUFFICES ASSUME IInv, [Next]_vars PROVE IInv'
  OBVIOUS
<1>1. CASE UNCHANGED vars
  BY <1>1, UnnoticedKeeps DEF vars, Unnoticed, IInv, TypeOK
<1>2. ASSUME NEW p \in Paths, Expire(p)
      PROVE  IInv'
  BY <1>2, ExpireKeeps
<1>3. ASSUME NEW s \in Servers,
             Start(s) \/ InitStep(s) \/ WatcherStep(s) \/ Crash(s) \/ LoseSession(s)
      PROVE  IInv'
  <2>1. CASE Start(s) \/ InitStep(s)
    BY <2>1, InitStepKeeps
  <2>2. CASE End(s) \/ Crash(s)
    BY <2>2, EndKeeps DEF Crash
  <2>3. CASE WatcherStep(s) /\ ~End(s)
    BY <2>3, ListChildrenKeeps, WatcherLooks, PromoteNodeKeeps, DeleteChildKeeps
       DEF WatcherStep
  <2>4. CASE LoseSession(s)
    BY <2>4, LoseSessionKeeps
  <2>. QED
    BY <1>3, <2>1, <2>2, <2>3, <2>4
<1>. QED
  BY <1>1, <1>2, <1>3 DEF Next

\* The invariant holds in every reachable state.
THEOREM Invariance == Spec => []IInv
  BY InitIInv, Inductive, PTL DEF Spec

\* Type correctness of the cluster.
THEOREM TypeCorrectness == Spec => []TypeOK
  BY Invariance, IInvImplies, PTL

\* Until a stray watches, a server with isprimary = 1 and a session owns
\* /kvstore/primary, through every interleaving of table_skel_init and
\* child_watcher, crash and expired session.
THEOREM PrimaryHoldsItsNode == Spec => []PrimaryHoldsNode
  BY Invariance, IInvImplies, PTL

\* ... so that no two servers with a session are primary at a time.
THEOREM AtMostOnePrimary ==
  Spec => [](~stray => \A s, t \in Servers :
               isprimary[s] /\ ~lost[s] /\ isprimary[t] /\ ~lost[t] => s = t)
<1>1. PrimaryHoldsNode =>
        (~stray => \A s, t \in Servers :
           isprimary[s] /\ ~lost[s] /\ isprimary[t] /\ ~lost[t] => s = t)
  BY DEF PrimaryHoldsNode, Owns, Owner
<1>. QED
  BY <1>1, PrimaryHoldsItsNode, PTL

\* Until a stray watches, the address in /kvstore/primary is its owner's, although
\* child_watcher copies it from the only child it listed some steps ago.
THEOREM PrimaryAddressIsOwners == Spec => []AddressLeadsToOwner
  BY Invariance, IInvImplies, PTL

=============================================================================
