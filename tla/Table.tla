-------------------------------- MODULE Table --------------------------------
(***************************************************************************)
(* The hash table of a server (source/table.c) and its lists               *)
(* (source/list.c), and a reader that walks over the whole table the way   *)
(* size, getkeys and table_print do (source/table_skel.c).                 *)
(*                                                                         *)
(* put, del and get take their list (comeca_listas), so each is one step   *)
(* for the others; but a put that replaces removes an entry and then adds  *)
(* one, and the walks take no list.  They start when no put or del runs    *)
(* (comeca), and puts and dels may run between two of their steps.         *)
(*                                                                         *)
(* While boolean is 1, a put or a del does not wait for a list that        *)
(* another one has: the two then change the same nodes at once (Clash).    *)
(* What that leaves of the list is nondeterministic, and the properties    *)
(* name the lists it has happened to.                                      *)
(***************************************************************************)
EXTENDS Integers, FiniteSets, SequencesExt

CONSTANTS
  Keys,
  Values,
  Empty,        \* the data_t of table_get for a missing key: data NULL, size 0
  numberLists,  \* table->numberLists
  MaxWrites,    \* bound: changes of the lists during one walk, before the last
                \* put or del begins
  MaxClashes,   \* bound: lists that have clashed before the last one does
  hash          \* the function hash of table-private.c: a list for every key

Lists == 0 .. (numberLists - 1)

ASSUME TableAssumption ==
  /\ Empty \notin Values \cup Keys
  /\ numberLists \in Nat \ {0}
  /\ MaxWrites \in Nat
  /\ MaxClashes \in Nat
  /\ hash \in [Keys -> Lists]

VARIABLES
  lists,    \* table->lists, every list as the sequence of its entries
  putting,  \* for every list, the entry of a put that has removed the old one
  answer,   \* the last put, del or get that took effect and what it returns
  clashed,  \* history: the lists that two writers have been in at once
  scan,     \* the reader: see Scans
  present,  \* history: keys in the table during the whole walk of getkeys
  seen      \* history: keys in the table at some time of it

vars == <<lists, putting, answer, clashed, scan, present, seen>>
scanVars == <<scan, present, seen>>
tableVars == <<lists, putting, answer, clashed>>

Entries == [key : Keys, value : Values]
NoEntry == [key |-> Empty, value |-> Empty]

-----------------------------------------------------------------------------
(* source/list.c                                                           *)

Has(list, key) == \E i \in DOMAIN list : list[i].key = key

\* The node at which the loops over a list stop.
First(list, key) ==
  CHOOSE i \in DOMAIN list :
    /\ list[i].key = key
    /\ \A j \in 1 .. (i - 1) : list[j].key # key

\* list_get: the value of the entry found, Empty for the NULL of no entry.
list_get(list, key) ==
  IF Has(list, key) THEN list[First(list, key)].value ELSE Empty

\* list_add: replaces the entry of the same key, or appends.
list_add(list, entry) ==
  IF Has(list, entry.key)
    THEN [list EXCEPT ![First(list, entry.key)] = entry]
    ELSE Append(list, entry)

\* A plausible error: the loop that unlinks stops one node too early.
list_removeOffByOne(list, key) ==
  LET i == First(list, key) IN RemoveAt(list, IF i > 1 THEN i - 1 ELSE i)

\* list_remove, for a key of the list (table.c asks list_get first).
list_remove(list, key) == RemoveAt(list, First(list, key))

\* list_get_keys, when nothing runs in between.
list_get_keys(list) == [i \in DOMAIN list |-> list[i].key]

-----------------------------------------------------------------------------
(* source/table.c                                                          *)

\* The entry of table_put: keyCopy and valueCopy.
EntryOf(key, value) == [key |-> key, value |-> value]

\* A plausible error: the entry goes to list 0.
AddedToFirst(key, value) == [lists EXCEPT ![0] = list_add(@, EntryOf(key, value))]

\* The lists after list_add in table_put.
Added(key, value) == [lists EXCEPT ![hash[key]] = list_add(@, EntryOf(key, value))]

table_get(key) == list_get(lists[hash[key]], key)

\* The lists after list_remove in table_del and in table_put.
Removed(key) == [lists EXCEPT ![hash[key]] = list_remove(@, key)]

TableKeys(table) == {k \in Keys : Has(table[hash[k]], k)}

GetKeysWalk == {"n_info", "allocate", "copy"}

\* A walk notices a write: of the keys that getkeys should find, those that were
\* there all the time get fewer, those that were there at some time more.  The
\* node it stands on may be freed by list_remove.
Notice(table, op) ==
  /\ seen' = IF scan.at \in GetKeysWalk THEN seen \cup TableKeys(table) ELSE seen
  /\ scan' = IF scan.at = "idle" THEN scan
             ELSE [scan EXCEPT !.disturbed = @ \cup {op}, !.writes = @ + 1,
                     !.at = IF scan.node \in Keys \ TableKeys(table) THEN "dangling" ELSE @]

NoteWrite(table, op) ==
  /\ present' = present \cap TableKeys(table)
  /\ Notice(table, op)

\* comeca_listas lets this thread have the list of the key, and nobody else is
\* in it.  A put or a del that gets in next to another one is a Clash.
HasList(key) == putting[hash[key]] = NoEntry

WritesLeft == scan.at = "idle" \/ scan.writes < MaxWrites
MayWrite(key) == HasList(key) /\ WritesLeft

\* table_put of a key that list_get does not find.
PutNew(key, value) ==
  /\ MayWrite(key)
  /\ ~Has(lists[hash[key]], key)
  /\ lists' = Added(key, value)
  /\ answer' = [op |-> "put", key |-> key, result |-> 0]
  /\ NoteWrite(lists', "new")
  /\ UNCHANGED <<putting, clashed>>

\* table_put of a key that list_get finds: list_remove ...
PutRemove(key, value) ==
  /\ MayWrite(key)
  /\ Has(lists[hash[key]], key)
  /\ lists' = Removed(key)
  /\ putting' = [putting EXCEPT ![hash[key]] = EntryOf(key, value)]
  /\ answer' = [op |-> "put", key |-> key, result |-> 0]
  /\ NoteWrite(lists', "replace")
  /\ UNCHANGED clashed

\* ... and then list_add.
PutAdd(key) ==
  /\ putting[hash[key]].key = key
  /\ lists' = Added(key, putting[hash[key]].value)
  /\ putting' = [putting EXCEPT ![hash[key]] = NoEntry]
  /\ NoteWrite(lists', "replace")
  /\ UNCHANGED <<answer, clashed>>

Del(key) ==
  /\ MayWrite(key)
  /\ Has(lists[hash[key]], key)
  /\ lists' = Removed(key)
  /\ answer' = [op |-> "del", key |-> key, result |-> 0]
  /\ NoteWrite(lists', "del")
  /\ UNCHANGED <<putting, clashed>>

DelMissing(key) ==
  /\ HasList(key)
  /\ ~Has(lists[hash[key]], key)
  /\ answer' = [op |-> "del", key |-> key, result |-> -1]
  /\ UNCHANGED <<lists, putting, clashed, scanVars>>

Get(key) ==
  /\ HasList(key)
  /\ answer' = [op |-> "get", key |-> key, result |-> table_get(key)]
  /\ UNCHANGED <<lists, putting, clashed, scanVars>>

-----------------------------------------------------------------------------
(* The walks.  getkeys (table_skel.c) calls table_size for msg->n_info and *)
(* table_get_keys for msg->info; table_get_keys calls table_size again for *)
(* the size of its array and then copies the keys of every list, node by   *)
(* node.  size stops after the first of the three walks.  table_print calls *)
(* table_size, table_get_keys and table_get again and again for what it    *)
(* has not kept.  Counting a list and each of the calls of table_print is  *)
(* one step: what happens inside them is seen in the copying of getkeys.   *)

Walks == {"size", "dangling"} \cup GetKeysWalk
Prints == {"print", "array", "loop", "key", "line", "count", "printed"}

Scans == [at : {"idle", "crashed"} \cup Walks \cup Prints,
          i : Nat,                 \* the loop variable: the next list or key
          node : Keys \cup {Empty}, \* nextNode of list_get_keys, Empty for NULL
          nElements : Nat,         \* the number table_size adds up
          n_info : Nat,            \* msg->size or msg->n_info
          room : Nat,              \* the array has room + 1 places
          keys : Seq(Keys),        \* the keys copied so far
          writes : Nat,            \* changes of the lists during the walk (bounded)
          disturbed : SUBSET {"new", "replace", "del", "clash"}]
                                   \* history: puts and dels during the walk

Idle == [at |-> "idle", i |-> 0, node |-> Empty, nElements |-> 0, n_info |-> 0, room |-> 0,
         keys |-> <<>>, writes |-> 0, disturbed |-> {}]

StartScan(walk) ==
  /\ scan.at = "idle"
  /\ \A h \in Lists : putting[h] = NoEntry
  /\ scan' = [Idle EXCEPT !.at = walk]
  /\ present' = IF walk = "n_info" THEN TableKeys(lists) ELSE {}
  /\ seen' = present'
  /\ UNCHANGED tableVars

\* A plausible error: the loop stops before the last list.
VisitSizeStopsEarly ==
  /\ scan.at \in {"size", "n_info", "allocate"}
  /\ scan.i < numberLists
  /\ scan' = [scan EXCEPT !.i = @ + 1,
                !.nElements = @ + IF scan.i = numberLists - 1
                                    THEN 0 ELSE Len(lists[scan.i])]
  /\ UNCHANGED <<tableVars, present, seen>>

\* table_size: nElements += list_size(table->lists[i]).
VisitSize ==
  /\ scan.at \in {"size", "n_info", "allocate"}
  /\ scan.i < numberLists
  /\ scan' = [scan EXCEPT !.i = @ + 1, !.nElements = @ + Len(lists[scan.i])]
  /\ UNCHANGED <<tableVars, present, seen>>

\* A plausible error: the number of elements without the last one.
SizeDoneMinusOne ==
  /\ scan.at \in {"n_info", "allocate"}
  /\ scan.i = numberLists
  /\ scan' = IF scan.at = "n_info"
               THEN [scan EXCEPT !.at = "allocate", !.i = 0, !.nElements = 0,
                                 !.n_info = scan.nElements - 1]
               ELSE [scan EXCEPT !.at = "copy", !.i = 0, !.room = scan.nElements]
  /\ UNCHANGED <<tableVars, present, seen>>

\* table_size returns.
SizeDone ==
  /\ scan.at \in {"n_info", "allocate"}
  /\ scan.i = numberLists
  /\ scan' = IF scan.at = "n_info"
               THEN [scan EXCEPT !.at = "allocate", !.i = 0, !.nElements = 0,
                                 !.n_info = scan.nElements]
               ELSE [scan EXCEPT !.at = "copy", !.i = 0, !.room = scan.nElements]
  /\ UNCHANGED <<tableVars, present, seen>>

\* The node after the i-th of the list h, and the next list after the last one.
GoToNode(h, i, keys) ==
  LET more == i < Len(lists[h]) IN
  scan' = [scan EXCEPT !.node = IF more THEN lists[h][i + 1].key ELSE Empty,
                       !.i = IF more THEN h ELSE h + 1,
                       !.keys = keys]

\* table_get_keys calls list_get_keys for the next list: nextNode = list->head.
VisitKeys ==
  /\ scan.at = "copy"
  /\ scan.node = Empty
  /\ scan.i < numberLists
  /\ GoToNode(scan.i, 0, scan.keys)
  /\ UNCHANGED <<tableVars, present, seen>>

\* A plausible error: k is set back, so that the keys overwrite each other.
CopyKeyOverwrites ==
  /\ scan.at = "copy"
  /\ scan.node \in Keys
  /\ GoToNode(scan.i, First(lists[scan.i], scan.node), <<scan.node>>)
  /\ UNCHANGED <<tableVars, present, seen>>

\* The loop of list_get_keys: the key of a node follows the others.
CopyKey ==
  /\ scan.at = "copy"
  /\ scan.node \in Keys
  /\ GoToNode(scan.i, First(lists[scan.i], scan.node), Append(scan.keys, scan.node))
  /\ UNCHANGED <<tableVars, present, seen>>

\* It goes on from a node that is freed.  Anything may follow, the end of the
\* process included; the model ends here.
UseFreed ==
  /\ scan.at = "dangling"
  /\ scan' = [scan EXCEPT !.at = "crashed"]
  /\ UNCHANGED <<tableVars, present, seen>>

\* What table_get_keys returns when nothing runs in between.
AllKeys == FlattenSeq([i \in 1 .. numberLists |-> list_get_keys(lists[i - 1])])
table_size == Len(AllKeys)

PrintGoes(to) == scan' = [scan EXCEPT !.at = to] /\ UNCHANGED <<tableVars, present, seen>>

\* table_print: if(table_size(table) != 0), without which msg->size = -1.
PrintTest ==
  /\ scan.at = "print"
  /\ PrintGoes(IF table_size = 0 THEN "printed" ELSE "array")

\* A plausible error: the array is one place short.
PrintAllocateShort ==
  /\ scan.at = "array"
  /\ scan' = [scan EXCEPT !.at = "loop", !.room = table_size - 1]
  /\ UNCHANGED <<tableVars, present, seen>>

PrintAllocate ==
  /\ scan.at = "array"
  /\ scan' = [scan EXCEPT !.at = "loop", !.room = table_size]
  /\ UNCHANGED <<tableVars, present, seen>>

\* i < table_size(table).
PrintLoop ==
  /\ scan.at = "loop"
  /\ PrintGoes(IF scan.i < table_size THEN "key" ELSE "count")

\* table_get_keys(table)[i] != NULL; a place past the NULL may hold anything.
PrintKey ==
  /\ scan.at = "key"
  /\ \/ /\ scan.i # table_size
        /\ PrintGoes("line")
     \/ /\ scan.i >= table_size
        /\ scan' = [scan EXCEPT !.at = "loop", !.i = @ + 1]
        /\ UNCHANGED <<tableVars, present, seen>>

\* table_get of the same place of new keys, and the line in print[j]: of a NULL
\* or of what is past it there is no data to point to.
PrintLine ==
  /\ scan.at = "line"
  /\ scan' = IF scan.i < table_size
               THEN [scan EXCEPT !.at = "loop", !.i = @ + 1,
                                 !.keys = Append(@, AllKeys[scan.i + 1])]
               ELSE [scan EXCEPT !.at = "crashed"]
  /\ UNCHANGED <<tableVars, present, seen>>

\* msg->n_info = table_size(table).
PrintCount ==
  /\ scan.at = "count"
  /\ scan' = [scan EXCEPT !.at = "printed", !.n_info = table_size]
  /\ UNCHANGED <<tableVars, present, seen>>

PrintStep ==
  \/ PrintTest
  \/ PrintAllocate
  \/ PrintLoop
  \/ PrintKey
  \/ PrintLine
  \/ PrintCount

WalkOver ==
  \/ scan.at \in {"size", "copy"} /\ scan.i = numberLists
  \/ scan.at = "printed"

\* The message is filled; the request is over.
EndScan ==
  /\ WalkOver
  /\ scan' = Idle
  /\ present' = {}
  /\ seen' = {}
  /\ UNCHANGED tableVars

-----------------------------------------------------------------------------
(* Two writers in one list: while boolean is 1 (TableLock and Replication  *)
(* say when), comeca_listas lets a put or a del into the list of another   *)
(* one.  What the two answer is left out.                                  *)

\* list_add and list_remove search first and link or unlink a node then, so
\* each may act on a list that is no longer the one it searched: the entry that
\* one links is lost when the other links its own behind the same node or frees
\* that node, and list_remove counts to a place where another entry stands by
\* then.  Entries may be lost or stay, come or not, in any order; none gets in
\* twice, as list_add links behind the last node it has compared.
LeftByClash(h) ==
  LET keys == {k \in Keys : hash[k] = h} IN
  {list \in SeqOf([key : keys, value : Values], Cardinality(keys)) :
     IsInjective(list_get_keys(list))}

\* They leave such a list.  (A list_remove whose key the other one has removed
\* never ends; then the gets of the list and the walks wait for ever, which is
\* nothing that happens here.)
Clash(h) ==
  /\ Cardinality(clashed) < MaxClashes
  /\ WritesLeft
  /\ \E list \in LeftByClash(h) : lists' = [lists EXCEPT ![h] = list]
  /\ putting' = [putting EXCEPT ![h] = NoEntry]
  /\ clashed' = clashed \cup {h}
  /\ present' = {k \in present \cap TableKeys(lists') : hash[k] # h}
  /\ Notice(lists', "clash")
  /\ UNCHANGED answer

\* Or one of them uses or links a node that the other has freed, or one that is
\* not there.  Anything may follow, the end of the process included; the model
\* ends here.
ClashCrashes(h) ==
  /\ clashed' = clashed \cup {h}
  /\ scan' = [Idle EXCEPT !.at = "crashed", !.disturbed = {"clash"}]
  /\ present' = {}
  /\ seen' = {}
  /\ UNCHANGED <<lists, putting, answer>>

-----------------------------------------------------------------------------
Init ==
  /\ lists = [h \in Lists |-> <<>>]           \* table_create
  /\ putting = [h \in Lists |-> NoEntry]
  /\ \E k \in Keys : answer = [op |-> "none", key |-> k, result |-> 0]
  /\ clashed = {}
  /\ scan = Idle
  /\ present = {}
  /\ seen = {}

\* The process lives.
Up == scan.at # "crashed"

Next ==
  /\ Up
  /\ \/ \E key \in Keys :
          \/ \E value \in Values : PutNew(key, value) \/ PutRemove(key, value)
          \/ PutAdd(key)
          \/ Del(key)
          \/ DelMissing(key)
          \/ Get(key)
     \/ \E h \in Lists : Clash(h) \/ ClashCrashes(h)
     \/ \E walk \in {"size", "n_info", "print"} : StartScan(walk)
     \/ VisitSize
     \/ SizeDone
     \/ VisitKeys
     \/ CopyKey
     \/ UseFreed
     \/ PrintStep
     \/ EndScan

Spec == Init /\ [][Next]_vars

-----------------------------------------------------------------------------
TypeOK ==
  /\ lists \in [Lists -> Seq(Entries)]
  /\ putting \in [Lists -> Entries \cup {NoEntry}]
  /\ answer \in [op : {"none", "put", "del", "get"}, key : Keys,
                 result : {0, -1} \cup Values \cup {Empty}]
  /\ clashed \in SUBSET Lists
  /\ scan \in Scans
  /\ present \in SUBSET Keys
  /\ seen \in SUBSET Keys

WellFormedList(h, list) ==
  \A i \in DOMAIN list :
    /\ hash[list[i].key] = h
    /\ \A j \in DOMAIN list : list[i].key = list[j].key => i = j

\* Every entry is in the list of its key's hash and no key has two entries, so
\* the list that comeca_listas takes for a key holds all there is of the key -
\* except in a list that two writers have been in at once.
WellFormed == \A h \in Lists \ clashed : WellFormedList(h, lists[h])

\* The data of a key: those of a put that has removed the old entry are as good
\* as in the table, as nobody else gets the list before they are, if not by a
\* clash.
Data(key) ==
  IF putting[hash[key]].key = key THEN putting[hash[key]].value ELSE table_get(key)

\* The table implements the map of table.h: put, del and get return what the
\* map returns, and everything else leaves the map alone.  Of the keys of a list
\* that two writers have been in at once it promises nothing.
Map == INSTANCE KVMap WITH map <- [k \in Keys |-> Data(k)],
                           doubtful <- {k \in Keys : hash[k] \in clashed}
ImplementsMap == Map!Spec

\* A walk that no put or del disturbed tells the table: size its number of
\* keys, getkeys and table_print every key once, as many as n_info says, in an
\* array of room.  This and the next two hold until two writers have been in
\* one list at once.
ScanExact ==
  clashed = {} /\ WalkOver /\ scan.disturbed = {} =>
    IF scan.at = "size"
      THEN scan.nElements = Cardinality(TableKeys(lists))
      ELSE /\ ToSet(scan.keys) = TableKeys(lists)
           /\ Len(scan.keys) = Cardinality(TableKeys(lists))
           /\ scan.n_info = Len(scan.keys)
           /\ scan.room = Len(scan.keys)

\* Any walk of getkeys that is not cut short returns every key that was in its
\* list all the time, and once; other keys it returns were there at some time,
\* and may be there twice, before a put has moved them to the end of the list
\* and after.
KeysWeaklyConsistent ==
  clashed = {} /\ WalkOver /\ scan.at = "copy" =>
    /\ present \subseteq ToSet(scan.keys)
    /\ ToSet(scan.keys) \subseteq seen
    /\ \A i, j \in DOMAIN scan.keys :
         scan.keys[i] = scan.keys[j] /\ i # j => scan.keys[i] \notin present

\* list_get_keys stands on nodes that list_remove frees, and table_print asks
\* for the size and for the keys at every turn of its loop: they end the process
\* only if an entry was taken out meanwhile, and table_print writes past its
\* array only if one was added.
WalksBreakOnlyIfDisturbed ==
  clashed = {} =>
    /\ scan.at = "crashed" => scan.disturbed \cap {"del", "replace"} # {}
    /\ scan.at \in Prints /\ Len(scan.keys) > scan.room =>
         scan.disturbed \cap {"new", "replace"} # {}

\* table.c on table_get_keys: "reservando toda a memória necessária" - the keys
\* copied have room in the array, next to the NULL at its end.
KeysFit == scan.at = "copy" => Len(scan.keys) <= scan.room

=============================================================================
