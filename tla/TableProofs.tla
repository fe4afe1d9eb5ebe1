----------------------------- MODULE TableProofs -----------------------------
(***************************************************************************)
(* For every set of keys and of values, every number of lists and every    *)
(* hash function: the lists of the table stay well formed, the table       *)
(* implements the map of KVMap, and its walks, which hold no lock, tell    *)
(* what they may tell whatever puts and dels run between their steps.  A   *)
(* list in which two writers have clashed is excepted, and so are, for the *)
(* walks, all steps after a clash.                                         *)
(***************************************************************************)
EXTENDS Table, SequenceTheorems, FiniteSetTheorems, TLAPS

-----------------------------------------------------------------------------
(* Lists.                                                                  *)

\* In a list without two entries of a key, the entry of the key is the one the
\* loops find.
LEMMA FirstFound ==
  ASSUME NEW h, NEW list \in Seq(Entries), WellFormedList(h, list),
         NEW i \in 1 .. Len(list)
  PROVE  First(list, list[i].key) = i
<1>. DEFINE Found(n) == /\ list[n].key = list[i].key
                        /\ \A j \in 1 .. (n - 1) : list[j].key # list[i].key
<1>1. DOMAIN list = 1 .. Len(list) /\ Len(list) \in Nat
  OBVIOUS
<1>2. \A n \in DOMAIN list : list[n].key = list[i].key => n = i
  BY <1>1 DEF WellFormedList
<1>3. Found(i)
  BY <1>1, <1>2
<1>4. \A n \in DOMAIN list : Found(n) => n = i
  BY <1>2
<1>. HIDE DEF Found
<1>5. (CHOOSE n \in DOMAIN list : Found(n)) = i
  BY <1>1, <1>3, <1>4
<1>. QED
  BY <1>5 DEF First, Found

\* list_get returns the value of the key's entry.
LEMMA GetFound ==
  ASSUME NEW h, NEW list \in Seq(Entries), WellFormedList(h, list),
         NEW i \in 1 .. Len(list)
  PROVE  list_get(list, list[i].key) = list[i].value
<1>1. DOMAIN list = 1 .. Len(list)
  OBVIOUS
<1>2. Has(list, list[i].key)
  BY <1>1 DEF Has
<1>. QED
  BY <1>2, FirstFound DEF list_get

\* list_get returns Empty exactly for the keys that are not in the list.
LEMMA GetEmpty ==
  ASSUME NEW h, NEW list \in Seq(Entries), WellFormedList(h, list), NEW key
  PROVE  /\ list_get(list, key) = Empty <=> ~Has(list, key)
         /\ list_get(list, key) \in Values \cup {Empty}
<1>1. CASE Has(list, key)
  <2>1. PICK i \in 1 .. Len(list) : list[i].key = key
    BY <1>1 DEF Has
  <2>2. list_get(list, key) = list[i].value
    BY <2>1, GetFound
  <2>3. list[i] \in Entries
    BY ElementOfSeq
  <2>. QED
    BY <1>1, <2>2, <2>3, TableAssumption DEF Entries
<1>2. CASE ~Has(list, key)
  BY <1>2 DEF list_get
<1>. QED
  BY <1>1, <1>2

\* What RemoveAt does to a sequence.
LEMMA RemoveAtProperties ==
  ASSUME NEW S, NEW s \in Seq(S), NEW i \in 1 .. Len(s)
  PROVE  /\ RemoveAt(s, i) \in Seq(S)
         /\ Len(RemoveAt(s, i)) = Len(s) - 1
         /\ \A j \in 1 .. (Len(s) - 1) :
              RemoveAt(s, i)[j] = IF j < i THEN s[j] ELSE s[j + 1]
<1>. DEFINE before == SubSeq(s, 1, i - 1)
            after == SubSeq(s, i + 1, Len(s))
<1>1. Len(s) \in Nat /\ i \in Int /\ \A j \in 1 .. Len(s) : s[j] \in S
  BY ElementOfSeq
<1>2. /\ before \in Seq(S)
      /\ Len(before) = i - 1
      /\ \A j \in 1 .. (i - 1) : before[j] = s[j]
  <2>1. \A j \in 1 .. (i - 1) : s[j] \in S
    BY <1>1
  <2>2. /\ SubSeq(s, 1, i - 1) \in Seq(S)
        /\ Len(SubSeq(s, 1, i - 1)) = IF 1 <= i - 1 THEN (i - 1) - 1 + 1 ELSE 0
        /\ \A j \in 1 .. (i - 1) - 1 + 1 : SubSeq(s, 1, i - 1)[j] = s[1 + j - 1]
    BY <1>1, <2>1, SubSeqProperties
  <2>. QED
    BY <1>1, <2>2
<1>3. /\ after \in Seq(S)
      /\ Len(after) = Len(s) - i
      /\ \A j \in 1 .. (Len(s) - i) : after[j] = s[i + j]
  <2>1. \A j \in (i + 1) .. Len(s) : s[j] \in S
    BY <1>1
  <2>2. /\ SubSeq(s, i + 1, Len(s)) \in Seq(S)
        /\ Len(SubSeq(s, i + 1, Len(s))) =
             IF i + 1 <= Len(s) THEN Len(s) - (i + 1) + 1 ELSE 0
        /\ \A j \in 1 .. Len(s) - (i + 1) + 1 :
             SubSeq(s, i + 1, Len(s))[j] = s[(i + 1) + j - 1]
    BY <1>1, <2>1, SubSeqProperties
  <2>. QED
    BY <1>1, <2>2
<1>. HIDE DEF before, after
<1>4. /\ before \o after \in Seq(S)
      /\ Len(before \o after) = Len(before) + Len(after)
      /\ \A j \in 1 .. Len(before) + Len(after) :
           (before \o after)[j] =
             IF j <= Len(before) THEN before[j] ELSE after[j - Len(before)]
  BY <1>2, <1>3, ConcatProperties
<1>5. RemoveAt(s, i) = before \o after
  BY DEF RemoveAt, before, after
<1>6. Len(before) + Len(after) = Len(s) - 1
  BY <1>1, <1>2, <1>3
<1>7. ASSUME NEW j \in 1 .. (Len(s) - 1)
      PROVE  (before \o after)[j] = IF j < i THEN s[j] ELSE s[j + 1]
  <2>1. (before \o after)[j] = IF j <= Len(before) THEN before[j] ELSE after[j - Len(before)]
    BY <1>4, <1>6
  <2>2. CASE j < i
    BY <1>1, <1>2, <2>1, <2>2
  <2>3. CASE ~(j < i)
    <3>1. ~(j <= Len(before)) /\ j - Len(before) = j - i + 1 /\ j - i + 1 \in 1 .. (Len(s) - i)
      BY <1>1, <1>2, <2>3
    <3>2. after[j - i + 1] = s[i + (j - i + 1)] /\ i + (j - i + 1) = j + 1
      BY <1>1, <1>3, <3>1
    <3>. QED
      BY <2>1, <2>3, <3>1, <3>2
  <2>. QED
    BY <2>2, <2>3
<1>. QED
  BY <1>4, <1>5, <1>6, <1>7

\* list_remove takes the key's entry out of a well formed list, and nothing
\* else.
LEMMA ListRemoved ==
  ASSUME NEW h, NEW list \in Seq(Entries), WellFormedList(h, list),
         NEW key, Has(list, key)
  PROVE  /\ list_remove(list, key) \in Seq(Entries)
         /\ WellFormedList(h, list_remove(list, key))
         /\ ~Has(list_remove(list, key), key)
         /\ \A k : k # key =>
              list_get(list_remove(list, key), k) = list_get(list, k)
<1>. DEFINE rest == list_remove(list, key)
<1>1. PICK i \in 1 .. Len(list) : list[i].key = key
  BY DEF Has
<1>2. rest = RemoveAt(list, i)
  <2>1. First(list, list[i].key) = i
    BY FirstFound
  <2>. QED
    BY <1>1, <2>1 DEF list_remove
<1>3. /\ rest \in Seq(Entries)
      /\ Len(rest) = Len(list) - 1
      /\ \A j \in 1 .. (Len(list) - 1) :
           rest[j] = IF j < i THEN list[j] ELSE list[j + 1]
  BY <1>2, RemoveAtProperties
<1>. HIDE DEF rest
<1>4. /\ Len(list) \in Nat /\ DOMAIN list = 1 .. Len(list)
      /\ DOMAIN rest = 1 .. (Len(list) - 1)
  BY <1>3
<1>5. \A j, k \in 1 .. Len(list) : list[j].key = list[k].key => j = k
  BY <1>4 DEF WellFormedList
<1>6. WellFormedList(h, rest)
  <2>. SUFFICES ASSUME NEW j \in 1 .. (Len(list) - 1)
                PROVE  /\ hash[rest[j].key] = h
                       /\ \A k \in 1 .. (Len(list) - 1) :
                            rest[j].key = rest[k].key => j = k
    BY <1>4 DEF WellFormedList
  <2>1. hash[rest[j].key] = h
    BY <1>3, <1>4 DEF WellFormedList
  <2>2. ASSUME NEW k \in 1 .. (Len(list) - 1), rest[j].key = rest[k].key
        PROVE  j = k
    BY <1>3, <1>4, <1>5, <2>2
  <2>. QED
    BY <2>1, <2>2
<1>7. ~Has(rest, key)
  <2>. SUFFICES ASSUME NEW j \in 1 .. (Len(list) - 1) PROVE rest[j].key # key
    BY <1>4 DEF Has
  <2>. QED
    BY <1>1, <1>3, <1>4, <1>5
<1>8. ASSUME NEW k, k # key PROVE list_get(rest, k) = list_get(list, k)
  <2>1. CASE Has(list, k)
    <3>1. PICK j \in 1 .. Len(list) : list[j].key = k
      BY <2>1, <1>4 DEF Has
    <3>2. PICK r \in 1 .. (Len(list) - 1) : rest[r] = list[j]
      <4>1. j # i
        BY <1>1, <1>8, <3>1
      <4>2. CASE j < i
        BY <1>3, <1>4, <4>2
      <4>3. CASE j > i
        <5>1. j - 1 \in 1 .. (Len(list) - 1) /\ ~(j - 1 < i) /\ (j - 1) + 1 = j
          BY <1>4, <4>3
        <5>. QED
          BY <1>3, <5>1
      <4>. QED
        BY <4>1, <4>2, <4>3
    <3>3. list_get(list, k) = list[j].value
      BY <3>1, GetFound
    <3>4. list_get(rest, k) = rest[r].value
      BY <1>3, <1>6, <3>1, <3>2, GetFound
    <3>. QED
      BY <3>2, <3>3, <3>4
  <2>2. CASE ~Has(list, k)
    <3>1. ~Has(rest, k)
      BY SMTT(30), <1>3, <1>4, <2>2 DEF Has
    <3>. QED
      BY <2>2, <3>1 DEF list_get
  <2>. QED
    BY <2>1, <2>2
<1>. QED
  BY <1>3, <1>6, <1>7, <1>8 DEF rest

\* list_add of a key that is not in a well formed list appends its entry.
LEMMA ListAdded ==
  ASSUME NEW h, NEW list \in Seq(Entries), WellFormedList(h, list),
         NEW entry \in Entries, ~Has(list, entry.key), hash[entry.key] = h
  PROVE  /\ list_add(list, entry) \in Seq(Entries)
         /\ WellFormedList(h, list_add(list, entry))
         /\ list_get(list_add(list, entry), entry.key) = entry.value
         /\ \A k : k # entry.key =>
              list_get(list_add(list, entry), k) = list_get(list, k)
<1>. DEFINE more == list_add(list, entry)
<1>1. more = Append(list, entry)
  BY DEF list_add
<1>2. /\ more \in Seq(Entries)
      /\ Len(list) \in Nat /\ Len(more) = Len(list) + 1
      /\ DOMAIN list = 1 .. Len(list) /\ DOMAIN more = 1 .. (Len(list) + 1)
      /\ more[Len(list) + 1] = entry
      /\ \A j \in 1 .. Len(list) : more[j] = list[j]
  BY <1>1
<1>. HIDE DEF more
<1>3. \A j \in 1 .. Len(list) : list[j].key # entry.key
  BY <1>2 DEF Has
<1>4. WellFormedList(h, more)
  <2>. SUFFICES ASSUME NEW j \in 1 .. (Len(list) + 1)
                PROVE  /\ hash[more[j].key] = h
                       /\ \A k \in 1 .. (Len(list) + 1) :
                            more[j].key = more[k].key => j = k
    BY <1>2 DEF WellFormedList
  <2>1. CASE j \in 1 .. Len(list)
    BY <1>2, <1>3, <2>1 DEF WellFormedList
  <2>2. CASE j = Len(list) + 1
    BY <1>2, <1>3, <2>2
  <2>. QED
    BY <1>2, <2>1, <2>2
<1>5. list_get(more, entry.key) = entry.value
  <2>1. Len(list) + 1 \in 1 .. Len(more)
    BY <1>2
  <2>. QED
    BY <1>2, <1>4, <2>1, GetFound
<1>6. ASSUME NEW k, k # entry.key PROVE list_get(more, k) = list_get(list, k)
  <2>1. CASE Has(list, k)
    <3>1. PICK j \in 1 .. Len(list) : list[j].key = k
      BY <2>1, <1>2 DEF Has
    <3>2. list_get(list, k) = list[j].value
      BY <3>1, GetFound
    <3>3. list_get(more, k) = more[j].value
      <4>1. j \in 1 .. Len(more) /\ more[j].key = k
        BY <1>2, <3>1
      <4>. QED
        BY <1>2, <1>4, <4>1, GetFound
    <3>. QED
      BY <1>2, <3>1, <3>2, <3>3
  <2>2. CASE ~Has(list, k)
    <3>1. ~Has(more, k)
      <4>. SUFFICES ASSUME NEW j \in 1 .. (Len(list) + 1) PROVE more[j].key # k
        BY <1>2 DEF Has
      <4>1. CASE j \in 1 .. Len(list)
        BY <1>2, <2>2, <4>1 DEF Has
      <4>2. CASE j = Len(list) + 1
        BY <1>2, <1>6, <4>2
      <4>. QED
        BY <1>2, <4>1, <4>2
    <3>. QED
      BY <2>2, <3>1 DEF list_get
  <2>. QED
    BY <2>1, <2>2
<1>. QED
  BY <1>2, <1>4, <1>5, <1>6 DEF more

-----------------------------------------------------------------------------
(* The table.                                                              *)

\* What is left of a list that two writers have been in at once is well formed
\* too, where the model goes on at all: entries are lost, not doubled.
AllWellFormed == \A h \in Lists : WellFormedList(h, lists[h])

\* The lists are well formed, and a put that has removed an entry is in the list
\* of its key, in which the key is not.
IInv ==
  /\ lists \in [Lists -> Seq(Entries)]
  /\ clashed \in SUBSET Lists
  /\ AllWellFormed
  /\ putting \in [Lists -> Entries \cup {NoEntry}]
  /\ \A h \in Lists : putting[h] # NoEntry =>
       hash[putting[h].key] = h /\ ~Has(lists[h], putting[h].key)

map == [k \in Keys |-> Data(k)]
doubtful == {k \in Keys : hash[k] \in clashed}
MapOK == map \in [Keys -> Values \cup {Empty}]

\* What list_add does to the lists and to what table_get returns.
LEMMA AddLists ==
  ASSUME IInv, NEW key \in Keys, NEW value \in Values, ~Has(lists[hash[key]], key),
         lists' = Added(key, value)
  PROVE  /\ lists' \in [Lists -> Seq(Entries)] /\ AllWellFormed'
         /\ \A k \in Keys : table_get(k)' = IF k = key THEN value ELSE table_get(k)
         /\ \A g \in Lists : g # hash[key] => lists'[g] = lists[g]
<1>. DEFINE h == hash[key]
            entry == EntryOf(key, value)
<1>1. h \in Lists /\ entry \in Entries /\ entry.key = key /\ entry.value = value
  BY TableAssumption DEF Entries, EntryOf
<1>2. lists[h] \in Seq(Entries) /\ WellFormedList(h, lists[h])
  BY <1>1 DEF IInv, AllWellFormed
<1>3. lists' = [lists EXCEPT ![h] = list_add(lists[h], entry)]
  BY DEF Added
<1>. HIDE DEF entry, h
<1>4. /\ list_add(lists[h], entry) \in Seq(Entries)
      /\ WellFormedList(h, list_add(lists[h], entry))
      /\ list_get(list_add(lists[h], entry), key) = value
      /\ \A k : k # key => list_get(list_add(lists[h], entry), k) = list_get(lists[h], k)
  <2>1. hash[entry.key] = h /\ ~Has(lists[h], entry.key)
    BY <1>1 DEF h
  <2>. QED
    BY <1>1, <1>2, <2>1, ListAdded
<1>5. /\ lists' \in [Lists -> Seq(Entries)]
      /\ lists'[h] = list_add(lists[h], entry)
      /\ \A g \in Lists : g # h => lists'[g] = lists[g]
  BY <1>1, <1>3, <1>4 DEF IInv
<1>6. AllWellFormed'
  BY <1>4, <1>5 DEF IInv, AllWellFormed
<1>7. ASSUME NEW k \in Keys
      PROVE  table_get(k)' = IF k = key THEN value ELSE table_get(k)
  <2>1. hash[k] \in Lists
    BY TableAssumption
  <2>2. table_get(k)' = list_get(lists'[hash[k]], k) /\ table_get(k) = list_get(lists[hash[k]], k)
    BY DEF table_get
  <2>3. CASE k = key
    BY <1>4, <1>5, <2>2, <2>3 DEF h
  <2>4. CASE k # key /\ hash[k] = h
    BY <1>4, <1>5, <2>2, <2>4
  <2>5. CASE k # key /\ hash[k] # h
    BY <1>5, <2>1, <2>2, <2>5
  <2>. QED
    BY <2>3, <2>4, <2>5
<1>. QED
  BY <1>5, <1>6, <1>7 DEF h

\* What list_remove does to the lists and to what table_get returns.
LEMMA RemoveLists ==
  ASSUME IInv, NEW key \in Keys, Has(lists[hash[key]], key), lists' = Removed(key)
  PROVE  /\ lists' \in [Lists -> Seq(Entries)] /\ AllWellFormed'
         /\ \A k \in Keys : table_get(k)' = IF k = key THEN Empty ELSE table_get(k)
         /\ \A g \in Lists : g # hash[key] => lists'[g] = lists[g]
         /\ ~Has(lists'[hash[key]], key)
<1>. DEFINE h == hash[key]
            rest == list_remove(lists[h], key)
<1>1. h \in Lists
  BY TableAssumption
<1>2. lists[h] \in Seq(Entries) /\ WellFormedList(h, lists[h])
  BY <1>1 DEF IInv, AllWellFormed
<1>3. /\ rest \in Seq(Entries) /\ WellFormedList(h, rest) /\ ~Has(rest, key)
      /\ \A k : k # key => list_get(rest, k) = list_get(lists[h], k)
  BY <1>2, ListRemoved
<1>4. lists' = [lists EXCEPT ![h] = rest]
  BY DEF Removed
<1>. HIDE DEF rest, h
<1>5. /\ lists' \in [Lists -> Seq(Entries)]
      /\ lists'[h] = rest
      /\ \A g \in Lists : g # h => lists'[g] = lists[g]
  BY <1>1, <1>3, <1>4 DEF IInv
<1>6. AllWellFormed'
  BY <1>3, <1>5 DEF IInv, AllWellFormed
<1>7. ASSUME NEW k \in Keys
      PROVE  table_get(k)' = IF k = key THEN Empty ELSE table_get(k)
  <2>1. hash[k] \in Lists
    BY TableAssumption
  <2>2. table_get(k)' = list_get(lists'[hash[k]], k) /\ table_get(k) = list_get(lists[hash[k]], k)
    BY DEF table_get
  <2>3. CASE k = key
    <3>1. list_get(rest, key) = Empty
      BY <1>3 DEF list_get
    <3>. QED
      BY <1>5, <2>2, <2>3, <3>1 DEF h
  <2>4. CASE k # key /\ hash[k] = h
    BY <1>3, <1>5, <2>2, <2>4
  <2>5. CASE k # key /\ hash[k] # h
    BY <1>5, <2>1, <2>2, <2>5
  <2>. QED
    BY <2>3, <2>4, <2>5
<1>. QED
  BY <1>3, <1>5, <1>6, <1>7 DEF h

\* Of a list that no put has in hand, the data are what table_get returns.
LEMMA DataOfFreeList ==
  ASSUME NEW k \in Keys, putting[hash[k]] = NoEntry
  PROVE  Data(k) = table_get(k)
  BY TableAssumption DEF Data, NoEntry

\* A put of a new key.
LEMMA PutNewStep ==
  ASSUME IInv, NEW key \in Keys, NEW value \in Values, PutNew(key, value)
  PROVE  IInv' /\ map' = [map EXCEPT ![key] = value]
<1>1. /\ putting[hash[key]] = NoEntry /\ putting' = putting /\ clashed' = clashed
      /\ ~Has(lists[hash[key]], key) /\ lists' = Added(key, value)
  BY DEF PutNew, MayWrite, HasList
<1>2. /\ lists' \in [Lists -> Seq(Entries)] /\ AllWellFormed'
      /\ \A k \in Keys : table_get(k)' = IF k = key THEN value ELSE table_get(k)
      /\ \A g \in Lists : g # hash[key] => lists'[g] = lists[g]
  BY <1>1, AddLists
<1>3. IInv'
  BY <1>1, <1>2 DEF IInv
<1>4. ASSUME NEW k \in Keys
      PROVE  Data(k)' = IF k = key THEN value ELSE Data(k)
  <2>1. CASE k = key
    BY <1>1, <1>2, <2>1, TableAssumption DEF Data, NoEntry
  <2>2. CASE k # key
    BY <1>1, <1>2, <2>2 DEF Data
  <2>. QED
    BY <2>1, <2>2
<1>. QED
  BY <1>3, <1>4 DEF map

\* The first half of a put that replaces: for the map it is the put.
LEMMA PutRemoveStep ==
  ASSUME IInv, NEW key \in Keys, NEW value \in Values, PutRemove(key, value)
  PROVE  IInv' /\ map' = [map EXCEPT ![key] = value]
<1>. DEFINE h == hash[key]
            entry == EntryOf(key, value)
<1>1. /\ putting[h] = NoEntry /\ Has(lists[h], key) /\ lists' = Removed(key)
      /\ clashed' = clashed
      /\ putting' = [putting EXCEPT ![h] = entry]
  BY DEF PutRemove, MayWrite, HasList
<1>2. /\ h \in Lists /\ entry \in Entries
      /\ entry.key = key /\ entry.value = value
  BY TableAssumption DEF Entries, EntryOf
<1>3. /\ lists' \in [Lists -> Seq(Entries)] /\ AllWellFormed' /\ ~Has(lists'[h], key)
      /\ \A k \in Keys : table_get(k)' = IF k = key THEN Empty ELSE table_get(k)
      /\ \A g \in Lists : g # h => lists'[g] = lists[g]
  BY <1>1, RemoveLists
<1>. HIDE DEF entry
<1>4. /\ putting' \in [Lists -> Entries \cup {NoEntry}]
      /\ putting'[h] = entry
      /\ \A g \in Lists : g # h => putting'[g] = putting[g]
  BY <1>1, <1>2 DEF IInv
<1>5. IInv'
  BY <1>1, <1>2, <1>3, <1>4 DEF IInv
<1>6. ASSUME NEW k \in Keys
      PROVE  Data(k)' = IF k = key THEN value ELSE Data(k)
  <2>1. hash[k] \in Lists
    BY TableAssumption
  <2>2. CASE k = key
    BY <1>2, <1>4, <2>2 DEF Data
  <2>3. CASE k # key /\ hash[k] = h
    <3>1. Data(k) = table_get(k)
      BY <1>1, <2>3, DataOfFreeList
    <3>. QED
      BY <1>2, <1>3, <1>4, <2>3, <3>1 DEF Data
  <2>4. CASE k # key /\ hash[k] # h
    BY <1>3, <1>4, <2>1, <2>4 DEF Data
  <2>. QED
    BY <2>2, <2>3, <2>4
<1>. QED
  BY <1>5, <1>6 DEF map

\* The second half leaves the map alone.
LEMMA PutAddStep ==
  ASSUME IInv, NEW key \in Keys, PutAdd(key)
  PROVE  IInv' /\ map' = map
<1>. DEFINE h == hash[key]
            value == putting[h].value
<1>1. /\ putting[h].key = key /\ lists' = Added(key, value) /\ clashed' = clashed
      /\ putting' = [putting EXCEPT ![h] = NoEntry]
  BY DEF PutAdd
<1>2. h \in Lists
  BY TableAssumption
<1>3. putting[h] # NoEntry /\ putting[h] \in Entries
  BY <1>1, <1>2, TableAssumption DEF IInv, NoEntry
<1>4. value \in Values /\ ~Has(lists[h], key)
  BY <1>1, <1>2, <1>3 DEF IInv, Entries
<1>. HIDE DEF value
<1>5. /\ lists' \in [Lists -> Seq(Entries)] /\ AllWellFormed'
      /\ \A k \in Keys : table_get(k)' = IF k = key THEN value ELSE table_get(k)
      /\ \A g \in Lists : g # h => lists'[g] = lists[g]
  BY <1>1, <1>4, AddLists
<1>6. /\ putting' \in [Lists -> Entries \cup {NoEntry}]
      /\ putting'[h] = NoEntry
      /\ \A g \in Lists : g # h => putting'[g] = putting[g]
  BY <1>1, <1>2 DEF IInv
<1>7. IInv'
  BY <1>1, <1>2, <1>5, <1>6 DEF IInv
<1>8. ASSUME NEW k \in Keys PROVE Data(k)' = Data(k)
  <2>1. hash[k] \in Lists
    BY TableAssumption
  <2>2. CASE hash[k] = h
    <3>1. Data(k)' = table_get(k)'
      BY <1>6, <2>2, TableAssumption DEF Data, NoEntry
    <3>2. Data(k) = IF k = key THEN value ELSE table_get(k)
      BY <1>1, <2>2 DEF Data, value
    <3>. QED
      BY <1>5, <3>1, <3>2
  <2>3. CASE hash[k] # h
    BY <1>5, <1>6, <2>1, <2>3 DEF Data
  <2>. QED
    BY <2>2, <2>3
<1>. QED
  BY <1>7, <1>8 DEF map

\* A del of a key that is there.
LEMMA DelStep ==
  ASSUME IInv, NEW key \in Keys, Del(key)
  PROVE  IInv' /\ map' = [map EXCEPT ![key] = Empty] /\ map[key] # Empty
<1>1. /\ putting[hash[key]] = NoEntry /\ putting' = putting /\ clashed' = clashed
      /\ Has(lists[hash[key]], key) /\ lists' = Removed(key)
  BY DEF Del, MayWrite, HasList
<1>2. /\ lists' \in [Lists -> Seq(Entries)] /\ AllWellFormed'
      /\ \A k \in Keys : table_get(k)' = IF k = key THEN Empty ELSE table_get(k)
      /\ \A g \in Lists : g # hash[key] => lists'[g] = lists[g]
  BY <1>1, RemoveLists
<1>3. IInv'
  BY <1>1, <1>2 DEF IInv
<1>4. ASSUME NEW k \in Keys
      PROVE  Data(k)' = IF k = key THEN Empty ELSE Data(k)
  <2>1. CASE k = key
    BY <1>1, <1>2, <2>1, TableAssumption DEF Data, NoEntry
  <2>2. CASE k # key
    BY <1>1, <1>2, <2>2 DEF Data
  <2>. QED
    BY <2>1, <2>2
<1>5. map[key] # Empty
  <2>1. WellFormedList(hash[key], lists[hash[key]]) /\ lists[hash[key]] \in Seq(Entries)
    BY TableAssumption DEF IInv, AllWellFormed
  <2>2. table_get(key) # Empty
    BY <1>1, <2>1, GetEmpty DEF table_get
  <2>. QED
    BY <1>1, <2>2, DataOfFreeList DEF map
<1>. QED
  BY <1>3, <1>4, <1>5 DEF map

\* Steps that leave the lists and the puts alone leave the map alone.
LEMMA SameLists ==
  ASSUME IInv, UNCHANGED <<lists, putting>>, clashed' \in SUBSET Lists
  PROVE  IInv' /\ map' = map
  BY DEF IInv, AllWellFormed, map, Data, table_get

\* A list that clashing writers leave is typed and well formed.
LEMMA ClashLeaves ==
  ASSUME NEW h \in Lists, NEW list \in LeftByClash(h)
  PROVE  list \in Seq(Entries) /\ WellFormedList(h, list)
<1>. DEFINE keys == {k \in Keys : hash[k] = h}
<1>0. PICK n \in 0 .. Cardinality(keys) : list \in [1 .. n -> [key : keys, value : Values]]
  BY DEF LeftByClash, SeqOf
<1>1. n \in Nat /\ list \in [1 .. n -> [key : keys, value : Values]]
  BY <1>0
<1>2. list \in Seq(Entries)
  <2>1. [key : keys, value : Values] \subseteq Entries
    BY DEF Entries
  <2>2. list \in [1 .. n -> Entries]
    BY <1>1, <2>1
  <2>. QED
    BY <1>1, <2>2
<1>3. \A i \in DOMAIN list : hash[list[i].key] = h
  BY <1>1
<1>4. ASSUME NEW i \in DOMAIN list, NEW j \in DOMAIN list, list[i].key = list[j].key
      PROVE  i = j
  BY <1>4 DEF LeftByClash, IsInjective, list_get_keys
<1>. QED
  BY <1>2, <1>3, <1>4 DEF WellFormedList

\* The data of the keys are of the map's type.
LEMMA MapTyped == IInv => MapOK
<1>. SUFFICES ASSUME IInv, NEW k \in Keys PROVE Data(k) \in Values \cup {Empty}
  BY DEF map, MapOK
<1>1. hash[k] \in Lists
  BY TableAssumption
<1>2. WellFormedList(hash[k], lists[hash[k]]) /\ lists[hash[k]] \in Seq(Entries)
  BY <1>1 DEF IInv, AllWellFormed
<1>3. table_get(k) \in Values \cup {Empty}
  BY <1>2, GetEmpty DEF table_get
<1>4. putting[hash[k]].value \in Values \cup {Empty}
  BY <1>1 DEF IInv, Entries, NoEntry
<1>. QED
  BY <1>3, <1>4 DEF Data

\* A clash leaves the data of the keys of the other lists alone.
LEMMA ClashStep ==
  ASSUME IInv, NEW h \in Lists, Clash(h)
  PROVE  /\ IInv'
         /\ map' \in [Keys -> Values \cup {Empty}]
         /\ \A k \in Keys : hash[k] # h => map'[k] = map[k]
<1>1. PICK list \in LeftByClash(h) : lists' = [lists EXCEPT ![h] = list]
  BY DEF Clash
<1>2. list \in Seq(Entries) /\ WellFormedList(h, list)
  BY ClashLeaves
<1>3. /\ putting' = [putting EXCEPT ![h] = NoEntry]
      /\ clashed' = clashed \cup {h}
  BY DEF Clash
<1>4. /\ lists' \in [Lists -> Seq(Entries)] /\ lists'[h] = list
      /\ putting' \in [Lists -> Entries \cup {NoEntry}] /\ putting'[h] = NoEntry
      /\ \A g \in Lists : g # h => lists'[g] = lists[g] /\ putting'[g] = putting[g]
  BY <1>1, <1>2, <1>3 DEF IInv
<1>5. IInv'
  BY <1>2, <1>3, <1>4 DEF IInv, AllWellFormed
<1>6. IInv' => MapOK'
  BY MapTyped, PTL
<1>7. ASSUME NEW k \in Keys, hash[k] # h
      PROVE  Data(k)' = Data(k)
  BY <1>4, <1>7, TableAssumption DEF Data, table_get
<1>. QED
  BY <1>5, <1>6, <1>7 DEF map, MapOK

\* The initial table is well formed and its map is empty.
LEMMA InitTable == Init => IInv /\ map = [k \in Keys |-> Empty]
<1>. SUFFICES ASSUME Init PROVE IInv /\ map = [k \in Keys |-> Empty]
  OBVIOUS
<1>1. \A h \in Lists : lists[h] = <<>> /\ putting[h] = NoEntry
  BY DEF Init
<1>2. IInv
  BY <1>1 DEF Init, IInv, AllWellFormed, WellFormedList
<1>3. \A k \in Keys : table_get(k) = Empty
  BY <1>1, TableAssumption DEF table_get, list_get, Has
<1>4. \A k \in Keys : Data(k) = Empty
  BY <1>1, <1>3, TableAssumption, DataOfFreeList
<1>. QED
  BY <1>2, <1>4 DEF map

-----------------------------------------------------------------------------
\* Every step keeps the lists well formed and is a step of the map or leaves
\* the map alone.
LEMMA StepRefines ==
  ASSUME IInv, [Next]_vars
  PROVE  IInv' /\ [Map!Next]_<<map, answer, doubtful>>
<1>1. ASSUME NEW key \in Keys, NEW value \in Values, PutNew(key, value)
      PROVE  IInv' /\ Map!Put(key, value)
  <2>1. IInv' /\ map' = [map EXCEPT ![key] = value]
    BY <1>1, PutNewStep
  <2>. QED
    BY <1>1, <2>1 DEF PutNew, Map!Put, map, doubtful
<1>2. ASSUME NEW key \in Keys, NEW value \in Values, PutRemove(key, value)
      PROVE  IInv' /\ Map!Put(key, value)
  <2>1. IInv' /\ map' = [map EXCEPT ![key] = value]
    BY <1>2, PutRemoveStep
  <2>. QED
    BY <1>2, <2>1 DEF PutRemove, Map!Put, map, doubtful
<1>3. ASSUME NEW key \in Keys, PutAdd(key)
      PROVE  IInv' /\ UNCHANGED <<map, answer, doubtful>>
  <2>1. IInv' /\ map' = map
    BY <1>3, PutAddStep
  <2>. QED
    BY <1>3, <2>1 DEF PutAdd, doubtful
<1>4. ASSUME NEW key \in Keys, Del(key)
      PROVE  IInv' /\ Map!Del(key)
  <2>1. IInv' /\ map' = [map EXCEPT ![key] = Empty] /\ map[key] # Empty
    BY <1>4, DelStep
  <2>. QED
    BY <1>4, <2>1 DEF Del, Map!Del, map, doubtful
<1>5. ASSUME NEW key \in Keys, DelMissing(key)
      PROVE  IInv' /\ Map!Del(key)
  <2>1. IInv' /\ map' = map
    BY <1>5, SameLists DEF DelMissing, IInv
  <2>2. map[key] = Empty
    <3>1. table_get(key) = Empty /\ putting[hash[key]] = NoEntry
      BY <1>5 DEF DelMissing, HasList, table_get, list_get
    <3>. QED
      BY <3>1, DataOfFreeList DEF map
  <2>3. map = [map EXCEPT ![key] = Empty]
    BY <2>2 DEF map
  <2>. QED
    BY <1>5, <2>1, <2>2, <2>3 DEF DelMissing, Map!Del, map, doubtful
<1>6. ASSUME NEW key \in Keys, Get(key)
      PROVE  IInv' /\ Map!Get(key)
  <2>1. IInv' /\ map' = map
    BY <1>6, SameLists DEF Get, IInv
  <2>2. map[key] = table_get(key)
    BY <1>6, DataOfFreeList DEF map, Get, HasList
  <2>. QED
    BY <1>6, <2>1, <2>2 DEF Get, Map!Get, map, doubtful
<1>7. ASSUME \/ \E walk \in {"size", "n_info", "print"} : StartScan(walk)
             \/ VisitSize \/ SizeDone \/ VisitKeys \/ CopyKey \/ UseFreed
             \/ PrintStep \/ EndScan
             \/ UNCHANGED vars
      PROVE  IInv' /\ UNCHANGED <<map, answer, doubtful>>
  <2>1. PrintStep => UNCHANGED tableVars
    BY DEF PrintStep, PrintTest, PrintAllocate, PrintLoop, PrintKey, PrintLine,
           PrintCount, PrintGoes
  <2>2. UNCHANGED <<lists, putting, answer, clashed>>
    BY <1>7, <2>1 DEF StartScan, VisitSize, SizeDone, VisitKeys, CopyKey, UseFreed, EndScan, vars, tableVars
  <2>. QED
    BY <2>2, SameLists DEF IInv, doubtful
<1>8. ASSUME NEW h \in Lists, Clash(h) \/ ClashCrashes(h)
      PROVE  IInv' /\ Map!Clash
  <2>. DEFINE keys == {k \in Keys : hash[k] = h}
  <2>1. answer' = answer /\ clashed' = clashed \cup {h}
    BY <1>8 DEF Clash, ClashCrashes
  <2>2. doubtful' = doubtful \cup keys
    BY <2>1 DEF doubtful
  <2>3. CASE Clash(h)
    <3>1. /\ IInv' /\ map' \in [Keys -> Values \cup {Empty}]
          /\ \A k \in Keys : hash[k] # h => map'[k] = map[k]
      BY <2>3, ClashStep
    <3>. QED
      BY <2>1, <2>2, <3>1 DEF Map!Clash, map, doubtful
  <2>4. CASE ClashCrashes(h)
    <3>1. IInv' /\ map' = map
      BY <2>1, <2>4, SameLists DEF ClashCrashes, IInv
    <3>2. map \in [Keys -> Values \cup {Empty}]
      BY MapTyped DEF MapOK
    <3>. QED
      BY <2>1, <2>2, <3>1, <3>2 DEF Map!Clash, map, doubtful
  <2>. QED
    BY <1>8, <2>3, <2>4
<1>. QED
  BY <1>1, <1>2, <1>3, <1>4, <1>5, <1>6, <1>7, <1>8 DEF Next, Map!Next

\* The lists stay well formed: typed, every entry where its hash says, no key
\* twice.
THEOREM Invariance == Spec => []IInv
<1>1. Init => IInv
  BY InitTable
<1>2. IInv /\ [Next]_vars => IInv'
  BY StepRefines
<1>. QED
  BY <1>1, <1>2, PTL DEF Spec

\* The list that is taken for a key holds all there is of the key: every entry
\* is where hash sends it and no key has two, after any puts and dels of table.c,
\* in every list but those that comeca_listas has let two writers into.
THEOREM WellFormedness == Spec => []WellFormed
<1>1. IInv => WellFormed
  BY DEF IInv, AllWellFormed, WellFormed
<1>. QED
  BY <1>1, Invariance, PTL

\* The table with its lists implements the map of table.h, and a clash of two
\* writers touches no key of another list than theirs.
THEOREM Refinement == Spec => ImplementsMap
<1>1. Init => Map!Init
  BY InitTable DEF Init, Map!Init, map
<1>2. IInv /\ [Next]_vars => [Map!Next]_<<map, answer, doubtful>>
  BY StepRefines
<1>3. IInv /\ [Next]_vars => [Map!Next]_(Map!mapVars)
  BY <1>2 DEF map, doubtful, Map!mapVars
<1>. QED
  BY <1>1, <1>3, Invariance, PTL DEF Spec, ImplementsMap, Map!Spec

-----------------------------------------------------------------------------
(* Induction on numbers, as the smallest counterexample.                   *)

\* A set of numbers that is not empty has a smallest one.
LEMMA Smallest ==
  ASSUME NEW T \in SUBSET Nat, T # {}
  PROVE  \E x \in T : \A y \in T : x <= y
<1>. DEFINE R == {ss \in Nat \X Nat : ss[1] < ss[2]}
<1>1. IsWellFoundedOn(R, Nat)
  BY NatLessThanWellFounded DEF OpToRel
<1>. HIDE DEF R
<1>2. PICK x \in T : \A y \in T : ~(<<y, x>> \in R)
  BY <1>1, WFMin
<1>3. ASSUME NEW y \in T
      PROVE  x <= y
  <2>1. ~(<<y, x>> \in R)
    BY <1>2
  <2>2. ~(y < x)
    BY <2>1 DEF R
  <2>. QED
    BY <2>2
<1>. QED
  BY <1>3

\* A set that has 0 and with every number below n the next one has n.
LEMMA UpTo ==
  ASSUME NEW n \in Nat, NEW Good, 0 \in Good,
         \A i \in 0 .. (n - 1) : i \in Good => i + 1 \in Good
  PROVE  \A i \in 0 .. n : i \in Good
<1>. DEFINE Bad == {i \in 0 .. n : i \notin Good}
<1>. SUFFICES ASSUME Bad # {} PROVE FALSE
  OBVIOUS
<1>1. PICK x \in Bad : \A y \in Bad : x <= y
  <2>1. Bad \in SUBSET Nat
    OBVIOUS
  <2>. HIDE DEF Bad
  <2>. QED
    BY <2>1, Smallest
<1>2. x - 1 \in 0 .. (n - 1) /\ x - 1 \notin Bad
  BY <1>1
<1>3. x - 1 \in Good
  BY <1>2
<1>. QED
  BY <1>2, <1>3

-----------------------------------------------------------------------------
(* FlattenSeq, which the model takes from the community modules.           *)

\* g[i] is the first i sequences, one after the other.
IsFlat(seqs, g) ==
  g = [i \in 1 .. Len(seqs) |-> IF i = 1 THEN seqs[i] ELSE g[i - 1] \o seqs[i]]

\* FlattenSeq is the last of the beginnings put together.
LEMMA FlattenIs ==
  ASSUME NEW seqs, Len(seqs) # 0, NEW g, IsFlat(seqs, g)
  PROVE  \E f : IsFlat(seqs, f) /\ FlattenSeq(seqs) = f[Len(seqs)]
<1>. DEFINE f == CHOOSE f : IsFlat(seqs, f)
<1>1. IsFlat(seqs, f)
  OBVIOUS
<1>2. FlattenSeq(seqs) = f[Len(seqs)]
  BY DEF FlattenSeq, IsFlat
<1>. QED
  BY <1>1, <1>2

\* There are such beginnings.
LEMMA FlatExists ==
  ASSUME NEW S, NEW seqs \in Seq(Seq(S))
  PROVE  \E g : IsFlat(seqs, g)
<1>. DEFINE Of(g, i) == IF i = 1 THEN seqs[i] ELSE g[i - 1] \o seqs[i]
            Parts(n) == {g \in [1 .. n -> Seq(S)] : \A i \in 1 .. n : g[i] = Of(g, i)}
            Good == {n \in 0 .. Len(seqs) : Parts(n) # {}}
<1>0. Len(seqs) \in Nat /\ \A i \in 1 .. Len(seqs) : seqs[i] \in Seq(S)
  BY ElementOfSeq
<1>1. 0 \in Good
  <2>1. [i \in 1 .. 0 |-> <<>>] \in Parts(0)
    OBVIOUS
  <2>. HIDE DEF Parts
  <2>. QED
    BY <1>0, <2>1
<1>2. ASSUME NEW n \in 0 .. (Len(seqs) - 1), n \in Good
      PROVE  n + 1 \in Good
  <2>1. PICK g \in [1 .. n -> Seq(S)] : \A i \in 1 .. n : g[i] = Of(g, i)
    BY <1>2
  <2>. DEFINE h == [i \in 1 .. (n + 1) |-> IF i = n + 1 THEN Of(g, i) ELSE g[i]]
  <2>2. n \in Nat /\ n + 1 \in 1 .. Len(seqs)
    BY <1>0
  <2>3. Of(g, n + 1) \in Seq(S)
    <3>1. CASE n = 0
      BY <1>0, <2>2, <3>1
    <3>2. CASE n # 0
      <4>1. g[n] \in Seq(S) /\ seqs[n + 1] \in Seq(S)
        BY <1>0, <2>2, <3>2
      <4>2. g[n] \o seqs[n + 1] \in Seq(S)
        BY <4>1, ConcatProperties
      <4>3. Of(g, n + 1) = g[n] \o seqs[n + 1]
        <5>1. n + 1 # 1 /\ (n + 1) - 1 = n
          BY <2>2, <3>2
        <5>. QED
          BY <5>1
      <4>. QED
        BY <4>2, <4>3
    <3>. QED
      BY <3>1, <3>2
  <2>. HIDE DEF Of
  <2>4. h \in [1 .. (n + 1) -> Seq(S)]
    BY <2>1, <2>2, <2>3
  <2>5. ASSUME NEW i \in 1 .. (n + 1)
        PROVE  h[i] = Of(h, i)
    <3>1. i # 1 => h[i - 1] = g[i - 1]
      BY <2>2
    <3>2. Of(h, i) = Of(g, i)
      BY <3>1 DEF Of
    <3>3. h[i] = Of(g, i)
      BY <2>1, <2>2
    <3>. QED
      BY <3>2, <3>3
  <2>6. h \in Parts(n + 1)
    BY <2>4, <2>5
  <2>. HIDE DEF Parts
  <2>. QED
    BY <1>0, <2>2, <2>6
<1>3. Len(seqs) \in Good
  <2>. HIDE DEF Good
  <2>1. \A n \in 0 .. Len(seqs) : n \in Good
    BY <1>0, <1>1, <1>2, UpTo
  <2>. QED
    BY <1>0, <2>1
<1>4. PICK g \in [1 .. Len(seqs) -> Seq(S)] : \A i \in 1 .. Len(seqs) : g[i] = Of(g, i)
  BY <1>3
<1>5. g = [i \in 1 .. Len(seqs) |-> Of(g, i)]
  BY <1>4
<1>. QED
  BY <1>5 DEF IsFlat

\* FlattenSeq puts one sequence after the other.
LEMMA Flattened ==
  ASSUME NEW S, NEW seqs \in Seq(Seq(S))
  PROVE  \E f : /\ f[0] = <<>>
                /\ \A i \in 1 .. Len(seqs) : f[i] = f[i - 1] \o seqs[i]
                /\ FlattenSeq(seqs) = f[Len(seqs)]
<1>0. Len(seqs) \in Nat /\ \A i \in 1 .. Len(seqs) : seqs[i] \in Seq(S)
  BY ElementOfSeq
<1>1. CASE Len(seqs) = 0
  <2>. DEFINE f == [i \in 0 .. 0 |-> <<>>]
  <2>1. seqs = <<>>
    BY <1>1, EmptySeq
  <2>2. FlattenSeq(seqs) = <<>>
    BY <2>1, <1>1 DEF FlattenSeq
  <2>3. f[0] = <<>> /\ \A i \in 1 .. Len(seqs) : FALSE
    BY <1>1
  <2>. HIDE DEF f
  <2>. QED
    BY <1>1, <2>2, <2>3
<1>2. CASE Len(seqs) # 0
  <2>1. PICK g : IsFlat(seqs, g) /\ FlattenSeq(seqs) = g[Len(seqs)]
    BY <1>2, FlattenIs, FlatExists
  <2>. DEFINE f == [i \in 0 .. Len(seqs) |-> IF i = 0 THEN <<>> ELSE g[i]]
  <2>2. \A i \in 1 .. Len(seqs) : g[i] = IF i = 1 THEN seqs[i] ELSE g[i - 1] \o seqs[i]
    BY <2>1 DEF IsFlat
  <2>3. ASSUME NEW i \in 1 .. Len(seqs)
        PROVE  f[i] = f[i - 1] \o seqs[i]
    <3>1. CASE i = 1
      <4>1. f[i] = seqs[i] /\ f[i - 1] = <<>>
        BY <1>0, <2>2, <3>1
      <4>2. <<>> \o seqs[i] = seqs[i]
        BY <1>0, ConcatEmptySeq
      <4>. QED
        BY <4>1, <4>2
    <3>2. CASE i # 1
      <4>1. f[i] = g[i] /\ f[i - 1] = g[i - 1]
        BY <1>0, <3>2
      <4>2. g[i] = g[i - 1] \o seqs[i]
        BY <2>2, <3>2
      <4>. QED
        BY <4>1, <4>2
    <3>. QED
      BY <3>1, <3>2
  <2>4. f[0] = <<>> /\ f[Len(seqs)] = g[Len(seqs)]
    BY <1>0, <1>2
  <2>. QED
    BY <2>1, <2>3, <2>4
<1>. QED
  BY <1>1, <1>2

-----------------------------------------------------------------------------
(* Sequences that name every member of a set once.                         *)

Enumerates(seq, set) ==
  /\ seq \in Seq(Keys)
  /\ \A i \in 1 .. Len(seq) : seq[i] \in set
  /\ \A k \in set : \E i \in 1 .. Len(seq) : seq[i] = k
  /\ \A i, j \in 1 .. Len(seq) : seq[i] = seq[j] => i = j

\* The empty sequence enumerates the empty set.
LEMMA EnumeratesNone == Enumerates(<<>>, {})
  BY DEF Enumerates

\* The members of the sequence are those of the set.
LEMMA EnumeratedSet ==
  ASSUME NEW seq, NEW set, Enumerates(seq, set)
  PROVE  ToSet(seq) = set /\ set \in SUBSET Keys
<1>1. DOMAIN seq = 1 .. Len(seq) /\ \A i \in 1 .. Len(seq) : seq[i] \in Keys
  BY LenProperties, ElementOfSeq DEF Enumerates
<1>. QED
  BY <1>1 DEF Enumerates, ToSet

\* The sequence is as long as the set is large.
LEMMA EnumeratedCount ==
  ASSUME NEW seq, NEW set, Enumerates(seq, set)
  PROVE  IsFiniteSet(set) /\ Cardinality(set) = Len(seq) /\ Len(seq) \in Nat
<1>1. Len(seq) \in Nat /\ seq \in [1 .. Len(seq) -> Keys]
  BY LenProperties DEF Enumerates
<1>2. seq \in [1 .. Len(seq) -> set]
  BY <1>1 DEF Enumerates
<1>3. seq \in Bijection(1 .. Len(seq), set)
  BY <1>1, <1>2 DEF Enumerates, Bijection, Injection, Surjection, IsInjective
<1>4. ExistsBijection(1 .. Len(seq), set)
  BY <1>3 DEF ExistsBijection
<1>5. IsFiniteSet(1 .. Len(seq)) /\ Cardinality(1 .. Len(seq)) = Len(seq)
  <2>1. \A n \in Nat : n \in Int /\ (IF 1 > n THEN 0 ELSE n - 1 + 1) = n
    OBVIOUS
  <2>2. IsFiniteSet(1 .. Len(seq)) /\ Cardinality(1 .. Len(seq)) = IF 1 > Len(seq) THEN 0 ELSE Len(seq) - 1 + 1
    BY <1>1, <2>1, FS_Interval
  <2>. QED
    BY <1>1, <2>1, <2>2
<1>. QED
  BY <1>1, <1>4, <1>5, FS_Bijection

\* A new member at the end.
LEMMA EnumeratesAppend ==
  ASSUME NEW seq, NEW set, Enumerates(seq, set), NEW k \in Keys, k \notin set
  PROVE  Enumerates(Append(seq, k), set \cup {k})
<1>. DEFINE more == Append(seq, k)
<1>1. /\ seq \in Seq(Keys) /\ Len(seq) \in Nat
      /\ more \in Seq(Keys) /\ Len(more) = Len(seq) + 1
      /\ \A i \in 1 .. Len(seq) : more[i] = seq[i]
      /\ more[Len(seq) + 1] = k
  BY LenProperties, AppendProperties DEF Enumerates
<1>. HIDE DEF more
<1>2. \A i \in 1 .. Len(more) : i \in 1 .. Len(seq) \/ i = Len(seq) + 1
  BY <1>1
<1>3. \A i \in 1 .. Len(more) : more[i] \in set \cup {k}
  BY <1>1, <1>2 DEF Enumerates
<1>4. ASSUME NEW e \in set \cup {k}
      PROVE  \E i \in 1 .. Len(more) : more[i] = e
  <2>1. CASE e = k
    BY <1>1, <2>1
  <2>2. CASE e \in set
    <3>1. PICK i \in 1 .. Len(seq) : seq[i] = e
      BY <2>2 DEF Enumerates
    <3>2. i \in 1 .. Len(more) /\ more[i] = e
      BY <1>1, <3>1
    <3>. QED
      BY <3>2
  <2>. QED
    BY <2>1, <2>2
<1>5. ASSUME NEW i \in 1 .. Len(more), NEW j \in 1 .. Len(more), more[i] = more[j]
      PROVE  i = j
  <2>1. \A n \in 1 .. Len(seq) : more[n] \in set /\ more[n] # k
    BY <1>1 DEF Enumerates
  <2>2. CASE i \in 1 .. Len(seq) /\ j \in 1 .. Len(seq)
    BY <1>1, <1>5, <2>2 DEF Enumerates
  <2>. QED
    BY <1>1, <1>2, <1>5, <2>1, <2>2
<1>. QED
  BY <1>1, <1>3, <1>4, <1>5 DEF Enumerates, more

\* Two sequences of disjoint sets, one after the other.
LEMMA EnumeratesBoth ==
  ASSUME NEW s, NEW A, Enumerates(s, A), NEW t, NEW B, Enumerates(t, B), A \cap B = {}
  PROVE  Enumerates(s \o t, A \cup B)
<1>. DEFINE both == s \o t
<1>1. /\ s \in Seq(Keys) /\ t \in Seq(Keys) /\ Len(s) \in Nat /\ Len(t) \in Nat
      /\ both \in Seq(Keys) /\ Len(both) = Len(s) + Len(t)
      /\ \A i \in 1 .. Len(both) : both[i] = IF i <= Len(s) THEN s[i] ELSE t[i - Len(s)]
  BY LenProperties, ConcatProperties DEF Enumerates
<1>. HIDE DEF both
<1>2. \A i \in 1 .. Len(both) : \/ i \in 1 .. Len(s) /\ both[i] = s[i]
                                \/ ~(i <= Len(s)) /\ i - Len(s) \in 1 .. Len(t) /\ both[i] = t[i - Len(s)]
  BY <1>1
<1>3. \A i \in 1 .. Len(s) : i \in 1 .. Len(both) /\ both[i] = s[i]
  BY <1>1
<1>4. \A i \in 1 .. Len(t) : i + Len(s) \in 1 .. Len(both) /\ both[i + Len(s)] = t[i]
  <2>. TAKE i \in 1 .. Len(t)
  <2>1. i + Len(s) \in 1 .. Len(both) /\ ~(i + Len(s) <= Len(s)) /\ (i + Len(s)) - Len(s) = i
    BY <1>1
  <2>. QED
    BY <1>1, <2>1
<1>5. \A i \in 1 .. Len(both) : both[i] \in A \cup B
  BY <1>2 DEF Enumerates
<1>6. ASSUME NEW e \in A \cup B
      PROVE  \E i \in 1 .. Len(both) : both[i] = e
  <2>1. CASE e \in A
    <3>1. PICK i \in 1 .. Len(s) : s[i] = e
      BY <2>1 DEF Enumerates
    <3>. QED
      BY <1>3, <3>1
  <2>2. CASE e \in B
    <3>1. PICK i \in 1 .. Len(t) : t[i] = e
      BY <2>2 DEF Enumerates
    <3>2. i + Len(s) \in 1 .. Len(both) /\ both[i + Len(s)] = e
      BY <1>4, <3>1
    <3>. QED
      BY <3>2
  <2>. QED
    BY <2>1, <2>2
<1>7. ASSUME NEW i \in 1 .. Len(both), NEW j \in 1 .. Len(both), both[i] = both[j]
      PROVE  i = j
  <2>1. \A n \in 1 .. Len(s) : s[n] \in A
    BY DEF Enumerates
  <2>2. \A n \in 1 .. Len(t) : t[n] \in B
    BY DEF Enumerates
  <2>3. CASE i \in 1 .. Len(s) /\ j \in 1 .. Len(s)
    BY <1>3, <1>7, <2>3 DEF Enumerates
  <2>4. CASE ~(i <= Len(s)) /\ ~(j <= Len(s))
    <3>1. /\ i - Len(s) \in 1 .. Len(t) /\ j - Len(s) \in 1 .. Len(t)
          /\ t[i - Len(s)] = t[j - Len(s)]
      BY <1>2, <1>7, <2>4
    <3>2. i - Len(s) = j - Len(s)
      BY <3>1 DEF Enumerates
    <3>. QED
      BY <1>1, <3>2
  <2>. QED
    BY <1>2, <1>7, <2>1, <2>2, <2>3, <2>4
<1>. QED
  BY <1>1, <1>5, <1>6, <1>7 DEF Enumerates, both

-----------------------------------------------------------------------------
(* The keys of the table.                                                  *)

KeysOf(h) == {k \in Keys : Has(lists[h], k)}
KeysBelow(i) == {k \in TableKeys(lists) : hash[k] < i}

\* list_get_keys tells every key of a list once.
LEMMA ListKeys ==
  ASSUME IInv, NEW h \in Lists
  PROVE  Enumerates(list_get_keys(lists[h]), KeysOf(h))
<1>. DEFINE list == lists[h]
            keys == list_get_keys(list)
<1>1. /\ list \in Seq(Entries) /\ WellFormedList(h, list)
      /\ Len(list) \in Nat /\ DOMAIN list = 1 .. Len(list)
      /\ \A i \in 1 .. Len(list) : list[i] \in Entries
  BY LenProperties, ElementOfSeq DEF IInv, AllWellFormed
<1>2. \A i \in 1 .. Len(list) : list[i].key \in Keys
  BY <1>1 DEF Entries
<1>3. keys = [i \in 1 .. Len(list) |-> list[i].key]
  BY <1>1 DEF list_get_keys
<1>4. keys \in Seq(Keys) /\ Len(keys) = Len(list) /\ \A i \in 1 .. Len(list) : keys[i] = list[i].key
  BY <1>1, <1>2, <1>3
<1>. HIDE DEF keys, list
<1>5. KeysOf(h) = {k \in Keys : \E i \in 1 .. Len(list) : list[i].key = k}
  BY <1>1 DEF KeysOf, Has, list
<1>6. \A i, j \in 1 .. Len(list) : list[i].key = list[j].key => i = j
  BY <1>1 DEF WellFormedList
<1>7. Enumerates(keys, KeysOf(h))
  BY <1>2, <1>4, <1>5, <1>6 DEF Enumerates
<1>. QED
  BY <1>7 DEF keys, list

\* The keys of the lists below i and of the list i are those below i + 1.
LEMMA NextList ==
  ASSUME IInv, NEW i \in Lists
  PROVE  /\ KeysBelow(i + 1) = KeysBelow(i) \cup KeysOf(i)
         /\ KeysBelow(i) \cap KeysOf(i) = {}
<1>1. \A k \in KeysOf(i) : hash[k] = i /\ k \in TableKeys(lists)
  <2>. TAKE k \in KeysOf(i)
  <2>1. PICK j \in DOMAIN lists[i] : lists[i][j].key = k
    BY DEF KeysOf, Has
  <2>2. hash[k] = i
    BY <2>1 DEF IInv, AllWellFormed, WellFormedList
  <2>. QED
    BY <2>2 DEF KeysOf, TableKeys
<1>2. \A k \in TableKeys(lists) : hash[k] = i => k \in KeysOf(i)
  BY DEF KeysOf, TableKeys
<1>3. \A k \in TableKeys(lists) : hash[k] \in Lists
  BY TableAssumption DEF TableKeys
<1>4. \A k \in TableKeys(lists) : hash[k] < i + 1 <=> hash[k] < i \/ hash[k] = i
  BY <1>3, TableAssumption DEF Lists
<1>. QED
  BY <1>1, <1>2, <1>4, TableAssumption DEF KeysBelow, Lists

\* Below the first list there is no key, below the end there are all.
LEMMA FirstAndLast ==
  KeysBelow(0) = {} /\ KeysBelow(numberLists) = TableKeys(lists)
<1>1. \A k \in TableKeys(lists) : hash[k] \in 0 .. (numberLists - 1)
  BY TableAssumption DEF TableKeys, Lists
<1>. QED
  BY <1>1, TableAssumption DEF KeysBelow

\* table_get_keys, when nothing runs in between, tells every key of the table
\* once, and table_size is their number.
LEMMA AllKeysEnumerate ==
  ASSUME IInv
  PROVE  Enumerates(AllKeys, TableKeys(lists))
<1>. DEFINE seqs == [i \in 1 .. numberLists |-> list_get_keys(lists[i - 1])]
<1>0. numberLists \in Nat /\ \A i \in 1 .. numberLists : i - 1 \in Lists
  BY TableAssumption DEF Lists
<1>1. /\ seqs \in Seq(Seq(Keys)) /\ Len(seqs) = numberLists
      /\ \A i \in 1 .. numberLists : seqs[i] = list_get_keys(lists[i - 1])
  <2>1. \A i \in 1 .. numberLists : list_get_keys(lists[i - 1]) \in Seq(Keys)
    BY <1>0, ListKeys DEF Enumerates
  <2>. QED
    BY <1>0, <2>1
<1>2. AllKeys = FlattenSeq(seqs)
  BY DEF AllKeys
<1>. HIDE DEF seqs
<1>3. PICK f : /\ f[0] = <<>>
               /\ \A i \in 1 .. numberLists : f[i] = f[i - 1] \o seqs[i]
               /\ FlattenSeq(seqs) = f[numberLists]
  BY <1>1, Flattened
<1>. DEFINE Good == {i \in 0 .. numberLists : Enumerates(f[i], KeysBelow(i))}
<1>4. 0 \in Good
  <2>1. Enumerates(f[0], KeysBelow(0))
    BY <1>3, EnumeratesNone, FirstAndLast
  <2>. QED
    BY <1>0, <2>1
<1>5. ASSUME NEW i \in 0 .. (numberLists - 1), i \in Good
      PROVE  i + 1 \in Good
  <2>1. i \in Lists /\ i + 1 \in 1 .. numberLists /\ (i + 1) - 1 = i
    BY <1>0 DEF Lists
  <2>2. f[i + 1] = f[i] \o list_get_keys(lists[i])
    BY <1>1, <1>3, <2>1
  <2>3. Enumerates(f[i + 1], KeysBelow(i + 1))
    BY <1>5, <2>1, <2>2, ListKeys, NextList, EnumeratesBoth
  <2>. QED
    BY <2>1, <2>3
<1>6. numberLists \in Good
  <2>. HIDE DEF Good
  <2>1. \A i \in 0 .. numberLists : i \in Good
    BY <1>0, <1>4, <1>5, UpTo
  <2>. QED
    BY <1>0, <2>1
<1>. QED
  BY <1>2, <1>3, <1>6, FirstAndLast

Listed ==
  /\ Enumerates(AllKeys, TableKeys(lists))
  /\ IsFiniteSet(TableKeys(lists))
  /\ table_size = Cardinality(TableKeys(lists))
  /\ table_size \in Nat

\* table_size counts the keys of the table.
LEMMA TableSize == IInv => Listed
  BY AllKeysEnumerate, EnumeratedCount DEF table_size, Listed

-----------------------------------------------------------------------------
(* What a put or del does to the keys of the table and to their order.     *)

\* Whatever list_get finds is in the table, and what it does not find is not.
LEMMA KeysFound ==
  ASSUME NEW table \in [Lists -> Seq(Entries)],
         \A h \in Lists : WellFormedList(h, table[h]), NEW k \in Keys
  PROVE  k \in TableKeys(table) <=> list_get(table[hash[k]], k) # Empty
<1>1. table[hash[k]] \in Seq(Entries) /\ WellFormedList(hash[k], table[hash[k]])
  BY TableAssumption
<1>. QED
  BY <1>1, GetEmpty DEF TableKeys

\* Of two keys of a list the same one comes first in both.
SameOrder(list, other, k, n) ==
  First(list, k) < First(list, n) <=> First(other, k) < First(other, n)

\* list_add of a new key leaves the order of the others.
LEMMA AddKeepsOrder ==
  ASSUME NEW h, NEW list \in Seq(Entries), WellFormedList(h, list), NEW entry \in Entries,
         ~Has(list, entry.key), hash[entry.key] = h,
         NEW k, Has(list, k), NEW n, Has(list, n)
  PROVE  SameOrder(list, list_add(list, entry), k, n)
<1>. DEFINE more == list_add(list, entry)
<1>1. more \in Seq(Entries) /\ WellFormedList(h, more)
  BY ListAdded
<1>2. /\ Len(list) \in Nat /\ DOMAIN list = 1 .. Len(list) /\ Len(more) = Len(list) + 1
      /\ \A j \in 1 .. Len(list) : more[j] = list[j]
  BY LenProperties, AppendProperties DEF list_add
<1>. HIDE DEF more
<1>3. ASSUME NEW x, Has(list, x)
      PROVE  First(more, x) = First(list, x)
  <2>1. PICK j \in 1 .. Len(list) : list[j].key = x
    BY <1>2, <1>3 DEF Has
  <2>2. First(list, x) = j
    BY <2>1, FirstFound
  <2>3. j \in 1 .. Len(more) /\ more[j].key = x
    BY <1>2, <2>1
  <2>4. First(more, x) = j
    BY <1>1, <2>3, FirstFound
  <2>. QED
    BY <2>2, <2>4
<1>. QED
  BY <1>3 DEF SameOrder, more

\* list_remove leaves the order of the others.
LEMMA RemoveKeepsOrder ==
  ASSUME NEW h, NEW list \in Seq(Entries), WellFormedList(h, list), NEW key, Has(list, key),
         NEW k, Has(list, k), k # key, NEW n, Has(list, n), n # key
  PROVE  SameOrder(list, list_remove(list, key), k, n)
<1>. DEFINE rest == list_remove(list, key)
<1>1. rest \in Seq(Entries) /\ WellFormedList(h, rest)
  BY ListRemoved
<1>2. PICK i \in 1 .. Len(list) : list[i].key = key
  BY DEF Has
<1>3. rest = RemoveAt(list, i)
  <2>1. First(list, list[i].key) = i
    BY FirstFound
  <2>. QED
    BY <1>2, <2>1 DEF list_remove
<1>4. /\ Len(list) \in Nat /\ DOMAIN list = 1 .. Len(list) /\ Len(rest) = Len(list) - 1
      /\ \A j \in 1 .. (Len(list) - 1) : rest[j] = IF j < i THEN list[j] ELSE list[j + 1]
  BY <1>3, LenProperties, RemoveAtProperties
<1>. HIDE DEF rest
<1>5. ASSUME NEW x, Has(list, x), x # key
      PROVE  /\ First(list, x) \in Nat /\ First(list, x) # i
             /\ First(rest, x) = IF First(list, x) < i THEN First(list, x) ELSE First(list, x) - 1
  <2>1. PICK j \in 1 .. Len(list) : list[j].key = x
    BY <1>4, <1>5 DEF Has
  <2>2. First(list, x) = j /\ j # i
    BY <1>2, <1>5, <2>1, FirstFound
  <2>3. CASE j < i
    <3>1. j \in 1 .. Len(rest) /\ rest[j].key = x
      BY <1>4, <2>1, <2>3
    <3>2. First(rest, x) = j
      BY <1>1, <3>1, FirstFound
    <3>. QED
      BY <2>2, <2>3, <3>2
  <2>4. CASE ~(j < i)
    <3>1. j - 1 \in 1 .. (Len(list) - 1) /\ ~(j - 1 < i) /\ (j - 1) + 1 = j
      BY <1>4, <2>2, <2>4
    <3>2. j - 1 \in 1 .. Len(rest) /\ rest[j - 1].key = x
      BY <1>4, <2>1, <3>1
    <3>3. First(rest, x) = j - 1
      BY <1>1, <3>2, FirstFound
    <3>. QED
      BY <2>2, <2>4, <3>3
  <2>. QED
    BY <2>3, <2>4
<1>6. \A a, b \in Nat : a # i /\ b # i =>
        (a < b <=> (IF a < i THEN a ELSE a - 1) < (IF b < i THEN b ELSE b - 1))
  BY <1>4
<1>7. First(list, k) < First(list, n) <=> First(rest, k) < First(rest, n)
  BY <1>5, <1>6
<1>. QED
  BY <1>7 DEF SameOrder, rest

\* How a write looks to a walk: a key comes or goes, or a list clashes, and the
\* keys that stay there keep their places.
Wrote(op) ==
  /\ IInv'
  /\ Notice(lists', op)
  /\ present' \subseteq present \cap TableKeys(lists')
  /\ \/ op \in {"new", "replace"} /\ TableKeys(lists) \subseteq TableKeys(lists')
     \/ op \in {"del", "replace"} /\ TableKeys(lists') \subseteq TableKeys(lists)
     \/ op = "clash"
  /\ \A k \in present' \cap TableKeys(lists), n \in TableKeys(lists) \cap TableKeys(lists') :
       hash[k] = hash[n] => SameOrder(lists[hash[k]], lists'[hash[k]], k, n)

\* list_add in table_put is such a write.
LEMMA AddWrites ==
  ASSUME IInv, NEW key \in Keys, NEW value \in Values, ~Has(lists[hash[key]], key),
         lists' = Added(key, value), IInv', NEW op \in {"new", "replace"}, NoteWrite(lists', op)
  PROVE  Wrote(op)
<1>1. \A k \in Keys : table_get(k)' = IF k = key THEN value ELSE table_get(k)
  BY AddLists
<1>2. value # Empty
  BY TableAssumption
<1>3. ASSUME NEW k \in Keys
      PROVE  /\ k \in TableKeys(lists) <=> table_get(k) # Empty
             /\ k \in TableKeys(lists') <=> table_get(k)' # Empty
  BY KeysFound DEF IInv, AllWellFormed, table_get
<1>4. TableKeys(lists) \subseteq TableKeys(lists')
  <2>1. TableKeys(lists) \subseteq Keys
    BY DEF TableKeys
  <2>2. ASSUME NEW k \in TableKeys(lists)
        PROVE  k \in TableKeys(lists')
    <3>1. k \in Keys
      BY <2>1
    <3>2. table_get(k) # Empty
      BY <1>3, <3>1
    <3>3. table_get(k)' # Empty
      BY <1>1, <1>2, <3>1, <3>2
    <3>. QED
      BY <1>3, <3>1, <3>3
  <2>. QED
    BY <2>2
<1>5. ASSUME NEW k \in TableKeys(lists), NEW n \in TableKeys(lists), hash[k] = hash[n]
      PROVE  SameOrder(lists[hash[k]], lists'[hash[k]], k, n)
  <2>. DEFINE h == hash[key]
              entry == EntryOf(key, value)
  <2>1. /\ k \in Keys /\ n \in Keys
        /\ Has(lists[hash[k]], k) /\ Has(lists[hash[k]], n)
    BY <1>5 DEF TableKeys
  <2>2. h \in Lists /\ hash[k] \in Lists
    BY <2>1, TableAssumption
  <2>3. /\ lists \in [Lists -> Seq(Entries)] /\ WellFormedList(h, lists[h])
        /\ lists' = [lists EXCEPT ![h] = list_add(lists[h], entry)]
    BY <2>2 DEF IInv, AllWellFormed, Added
  <2>4. entry \in Entries /\ entry.key = key
    BY DEF Entries, EntryOf
  <2>. HIDE DEF entry
  <2>5. CASE hash[k] = h
    <3>1. lists'[h] = list_add(lists[h], entry)
      BY <2>2, <2>3
    <3>2. SameOrder(lists[h], list_add(lists[h], entry), k, n)
      BY <2>1, <2>2, <2>3, <2>4, <2>5, AddKeepsOrder
    <3>. QED
      BY <2>5, <3>1, <3>2
  <2>6. CASE hash[k] # h
    <3>1. lists'[hash[k]] = lists[hash[k]]
      BY <2>2, <2>3, <2>6
    <3>. QED
      BY <3>1 DEF SameOrder
  <2>. QED
    BY <2>5, <2>6
<1>. QED
  BY <1>4, <1>5 DEF Wrote, NoteWrite

\* So is list_remove in table_put and in table_del.
LEMMA RemoveWrites ==
  ASSUME IInv, NEW key \in Keys, Has(lists[hash[key]], key),
         lists' = Removed(key), IInv', NEW op \in {"del", "replace"}, NoteWrite(lists', op)
  PROVE  Wrote(op)
<1>1. \A k \in Keys : table_get(k)' = IF k = key THEN Empty ELSE table_get(k)
  BY RemoveLists
<1>2. ASSUME NEW k \in Keys
      PROVE  /\ k \in TableKeys(lists) <=> table_get(k) # Empty
             /\ k \in TableKeys(lists') <=> table_get(k)' # Empty
  BY KeysFound DEF IInv, AllWellFormed, table_get
<1>3. TableKeys(lists') \subseteq TableKeys(lists) /\ key \notin TableKeys(lists')
  <2>1. TableKeys(lists') \subseteq Keys
    BY DEF TableKeys
  <2>2. TableKeys(lists) \subseteq Keys
    BY DEF TableKeys
  <2>3. ASSUME NEW k \in TableKeys(lists')
        PROVE  k \in TableKeys(lists) /\ k # key
    <3>1. k \in Keys
      BY <2>1
    <3>2. table_get(k)' # Empty
      BY <1>2, <3>1
    <3>3. k # key /\ table_get(k) # Empty
      BY <1>1, <3>1, <3>2
    <3>. QED
      BY <1>2, <3>1, <3>3
  <2>. QED
    BY <2>3
<1>4. ASSUME NEW k \in TableKeys(lists), NEW n \in TableKeys(lists), hash[k] = hash[n],
             k # key, n # key
      PROVE  SameOrder(lists[hash[k]], lists'[hash[k]], k, n)
  <2>. DEFINE h == hash[key]
  <2>1. /\ k \in Keys /\ n \in Keys
        /\ Has(lists[hash[k]], k) /\ Has(lists[hash[k]], n)
    BY <1>4 DEF TableKeys
  <2>2. h \in Lists /\ hash[k] \in Lists
    BY <2>1, TableAssumption
  <2>3. /\ lists \in [Lists -> Seq(Entries)] /\ WellFormedList(h, lists[h])
        /\ lists' = [lists EXCEPT ![h] = list_remove(lists[h], key)]
    BY <2>2 DEF IInv, AllWellFormed, Removed
  <2>4. CASE hash[k] = h
    <3>1. lists'[h] = list_remove(lists[h], key)
      BY <2>2, <2>3
    <3>2. SameOrder(lists[h], list_remove(lists[h], key), k, n)
      BY <1>4, <2>1, <2>2, <2>3, <2>4, RemoveKeepsOrder
    <3>. QED
      BY <2>4, <3>1, <3>2
  <2>5. CASE hash[k] # h
    <3>1. lists'[hash[k]] = lists[hash[k]]
      BY <2>2, <2>3, <2>5
    <3>. QED
      BY <3>1 DEF SameOrder
  <2>. QED
    BY <2>4, <2>5
<1>. QED
  BY <1>3, <1>4 DEF Wrote, NoteWrite

\* The steps of the walks.
WalkStep ==
  \/ \E walk \in {"size", "n_info", "print"} : StartScan(walk)
  \/ VisitSize
  \/ SizeDone
  \/ VisitKeys
  \/ CopyKey
  \/ UseFreed
  \/ PrintStep
  \/ EndScan

\* What a walk may be disturbed by.
Ops == {"new", "replace", "del", "clash"}

\* A clash is such a write, in which the keys of the list are not counted as
\* staying.
LEMMA ClashWrites ==
  ASSUME IInv, IInv', NEW h \in Lists, Clash(h)
  PROVE  Wrote("clash")
<1>1. /\ \A g \in Lists : g # h => lists'[g] = lists[g]
      /\ present' = {k \in present \cap TableKeys(lists') : hash[k] # h}
      /\ Notice(lists', "clash")
  BY DEF Clash, IInv
<1>2. ASSUME NEW k \in present' \cap TableKeys(lists)
      PROVE  lists'[hash[k]] = lists[hash[k]]
  BY <1>1, TableAssumption DEF TableKeys
<1>. QED
  BY <1>1, <1>2 DEF Wrote, SameOrder

\* The process may end with a clash.
Ended ==
  /\ IInv'
  /\ lists' = lists
  /\ scan' = [Idle EXCEPT !.at = "crashed", !.disturbed = {"clash"}]
  /\ present' = {}
  /\ seen' = {}

\* Every step writes, or walks, or ends the process, or leaves the walk and the
\* lists alone.
LEMMA StepKinds ==
  ASSUME IInv, [Next]_vars
  PROVE  /\ IInv'
         /\ \/ Up /\ \E op \in Ops : Wrote(op)
            \/ Up /\ UNCHANGED <<lists, putting, answer>> /\ WalkStep
            \/ Ended
            \/ UNCHANGED <<lists, scan, present, seen>>
<1>0. IInv'
  BY StepRefines
<1>1. ASSUME NEW key \in Keys, NEW value \in Values, PutNew(key, value)
      PROVE  Wrote("new")
  BY <1>0, <1>1, AddWrites DEF PutNew
<1>2. ASSUME NEW key \in Keys, NEW value \in Values, PutRemove(key, value)
      PROVE  Wrote("replace")
  BY <1>0, <1>2, RemoveWrites DEF PutRemove
<1>3. ASSUME NEW key \in Keys, PutAdd(key)
      PROVE  Wrote("replace")
  <2>1. hash[key] \in Lists
    BY TableAssumption
  <2>2. putting[hash[key]] # NoEntry /\ putting[hash[key]] \in Entries
    BY <1>3, <2>1, TableAssumption DEF PutAdd, IInv, NoEntry
  <2>3. putting[hash[key]].value \in Values /\ ~Has(lists[hash[key]], key)
    BY <1>3, <2>1, <2>2 DEF PutAdd, IInv, Entries
  <2>. QED
    BY <1>0, <1>3, <2>3, AddWrites DEF PutAdd
<1>4. ASSUME NEW key \in Keys, Del(key)
      PROVE  Wrote("del")
  BY <1>0, <1>4, RemoveWrites DEF Del
<1>5. ASSUME NEW key \in Keys, DelMissing(key) \/ Get(key)
      PROVE  UNCHANGED <<lists, scan, present, seen>>
  BY <1>5 DEF DelMissing, Get, scanVars
<1>6. WalkStep => UNCHANGED <<lists, putting, answer>>
  BY DEF WalkStep, StartScan, VisitSize, SizeDone, VisitKeys, CopyKey, UseFreed, EndScan, tableVars,
         PrintStep, PrintTest, PrintAllocate, PrintLoop, PrintKey, PrintLine, PrintCount, PrintGoes
<1>7. CASE UNCHANGED vars
  BY <1>0, <1>7 DEF vars
<1>8. ASSUME NEW h \in Lists, Clash(h)
      PROVE  Wrote("clash")
  BY <1>0, <1>8, ClashWrites
<1>9. ASSUME NEW h \in Lists, ClashCrashes(h)
      PROVE  Ended
  BY <1>0, <1>9 DEF ClashCrashes, Ended
<1>10. CASE Next
  BY <1>0, <1>1, <1>2, <1>3, <1>4, <1>5, <1>6, <1>8, <1>9, <1>10 DEF Next, WalkStep, Ops
<1>. QED
  BY <1>7, <1>10

-----------------------------------------------------------------------------
(* The walks: types.                                                       *)

ScanOK == scan \in Scans /\ present \in SUBSET Keys /\ seen \in SUBSET Keys

\* What a walk notices of a write.
LEMMA Noticed ==
  ASSUME ScanOK, NEW op \in Ops, Wrote(op)
  PROVE  /\ present' \subseteq present \cap TableKeys(lists')
         /\ seen' = IF scan.at \in GetKeysWalk THEN seen \cup TableKeys(lists') ELSE seen
         /\ scan.at = "idle" => scan' = scan
         /\ scan.at # "idle" =>
              /\ scan'.at = IF scan.node \in Keys \ TableKeys(lists') THEN "dangling" ELSE scan.at
              /\ scan'.i = scan.i /\ scan'.node = scan.node /\ scan'.nElements = scan.nElements
              /\ scan'.n_info = scan.n_info /\ scan'.room = scan.room /\ scan'.keys = scan.keys
              /\ scan'.disturbed = scan.disturbed \cup {op}
         /\ ScanOK'
<1>1. Notice(lists', op) /\ present' \subseteq present \cap TableKeys(lists')
  BY DEF Wrote
<1>2. CASE scan.at = "idle"
  BY <1>1, <1>2 DEF Notice, ScanOK, TableKeys
<1>3. CASE scan.at # "idle"
  <2>1. scan' = [scan EXCEPT !.disturbed = @ \cup {op}, !.writes = @ + 1,
                   !.at = IF scan.node \in Keys \ TableKeys(lists') THEN "dangling" ELSE @]
    BY <1>1, <1>3 DEF Notice
  <2>2. scan.disturbed \cup {op} \in SUBSET {"new", "replace", "del", "clash"} /\ scan.writes + 1 \in Nat
    BY DEF ScanOK, Scans, Ops
  <2>3. (IF scan.node \in Keys \ TableKeys(lists') THEN "dangling" ELSE scan.at)
           \in {"idle", "crashed"} \cup Walks \cup Prints
    BY DEF ScanOK, Scans, Walks
  <2>4. /\ scan'.at = IF scan.node \in Keys \ TableKeys(lists') THEN "dangling" ELSE scan.at
        /\ scan'.i = scan.i /\ scan'.node = scan.node /\ scan'.nElements = scan.nElements
        /\ scan'.n_info = scan.n_info /\ scan'.room = scan.room /\ scan'.keys = scan.keys
        /\ scan'.disturbed = scan.disturbed \cup {op}
    BY <2>1 DEF ScanOK, Scans
  <2>5. scan' \in Scans
    BY <2>1, <2>2, <2>3 DEF ScanOK, Scans
  <2>6. present' \in SUBSET Keys /\ seen' \in SUBSET Keys
    BY <1>1 DEF Notice, ScanOK, TableKeys
  <2>. QED
    BY <1>1, <1>3, <2>4, <2>5, <2>6 DEF Notice, ScanOK
<1>. QED
  BY <1>2, <1>3

-----------------------------------------------------------------------------
(* The walks: invariants.  KeysWeaklyConsistent is about the end of the    *)
(* copying; before it, the keys copied are those behind the node on which  *)
(* the walk stands (Behind, Copying), and a write moves no key that stays  *)
(* in the table from one side of that node to the other.                   *)
(* WalksBreakOnlyIfDisturbed needs what the sizes that a walk has asked    *)
(* for say of the table now (BreakInv), ScanExact what it has counted and  *)
(* copied so far (Exact).                                                  *)

\* An entry has been taken out, or added, during the walk.
Shrunk == scan.disturbed \cap {"del", "replace", "clash"} # {}
Grown == scan.disturbed \cap {"new", "replace", "clash"} # {}

\* The keys in the lists and nodes that getkeys has behind it.
Behind ==
  {k \in TableKeys(lists) :
     \/ hash[k] < scan.i
     \/ /\ hash[k] = scan.i
        /\ scan.node \in Keys
        /\ First(lists[scan.i], k) < First(lists[scan.i], scan.node)}

\* The node of getkeys is in the list it goes through; of the keys that have
\* been there all the time, those behind it have been copied, and once.
Copying ==
  /\ scan.node \in Keys => scan.node \in TableKeys(lists) /\ hash[scan.node] = scan.i
  /\ \A j \in 1 .. Len(scan.keys) : scan.keys[j] \in seen
  /\ \A k \in present : k \in Behind <=> \E j \in 1 .. Len(scan.keys) : scan.keys[j] = k
  /\ \A i, j \in 1 .. Len(scan.keys) :
       scan.keys[i] = scan.keys[j] /\ i # j => scan.keys[i] \notin present

CopyInv ==
  /\ scan.at \in GetKeysWalk => present \subseteq TableKeys(lists) /\ TableKeys(lists) \subseteq seen
  /\ scan.at \in {"size", "n_info", "allocate"} => scan.keys = <<>>
  /\ scan.at \in {"size", "n_info", "allocate", "copy"} => scan.i \in 0 .. numberLists
  /\ scan.at \notin {"copy", "dangling", "crashed"} => scan.node = Empty
  /\ scan.at = "copy" => Copying

\* What a walk relies on, unless entries have gone or come meanwhile.
BreakInv ==
  /\ scan.at \in {"dangling", "crashed"} => Shrunk
  /\ scan.at \in {"print", "array"} =>
       scan.keys = <<>> /\ scan.i = 0 /\ scan.n_info = 0 /\ scan.room = 0
  /\ scan.at \in {"loop", "key", "line", "count"} =>
       /\ Len(scan.keys) <= scan.i
       /\ Grown \/ table_size <= scan.room
  /\ scan.at \in Prints => Grown \/ Len(scan.keys) <= scan.room
  /\ scan.at \in {"key", "line"} => Shrunk \/ scan.i < table_size

\* What an undisturbed walk knows.
Exact ==
  /\ scan.at \in {"size", "n_info", "allocate"} => scan.nElements = Cardinality(KeysBelow(scan.i))
  /\ scan.at \in {"allocate", "copy"} => scan.n_info = table_size
  /\ scan.at = "copy" => scan.room = table_size
  /\ scan.at \in GetKeysWalk => seen \subseteq present
  /\ scan.at \in {"loop", "key", "line", "count"} =>
       /\ scan.room = table_size
       /\ scan.i <= table_size
       /\ Len(scan.keys) = scan.i
       /\ \A j \in 1 .. scan.i : scan.keys[j] = AllKeys[j]
  /\ scan.at = "count" => scan.i = table_size
  /\ scan.at = "printed" =>
       /\ Enumerates(scan.keys, TableKeys(lists))
       /\ scan.n_info = Len(scan.keys)
       /\ scan.room = Len(scan.keys)

ExactInv == scan.disturbed = {} => Exact

WalkInv == ScanOK /\ CopyInv /\ BreakInv /\ ExactInv

-----------------------------------------------------------------------------
(* The walks: a write.                                                     *)

\* A key that stays in the table stays on its side of the copying.
LEMMA BehindKept ==
  ASSUME IInv, ScanOK, Copying, scan.i \in 0 .. numberLists, NEW op \in Ops, Wrote(op),
         scan'.i = scan.i, scan'.node = scan.node,
         scan.node \in Keys => scan.node \in TableKeys(lists'),
         NEW k \in present' \cap TableKeys(lists), k \in TableKeys(lists')
  PROVE  k \in Behind <=> k \in Behind'
<1>1. CASE scan.node \in Keys /\ hash[k] = scan.i
  <2>1. scan.node \in TableKeys(lists) \cap TableKeys(lists') /\ hash[scan.node] = scan.i
    BY <1>1 DEF Copying
  <2>2. SameOrder(lists[hash[k]], lists'[hash[k]], k, scan.node)
    BY <1>1, <2>1 DEF Wrote
  <2>3. First(lists[scan.i], k) < First(lists[scan.i], scan.node) <=>
          First(lists'[scan.i], k) < First(lists'[scan.i], scan.node)
    BY <1>1, <2>2 DEF SameOrder
  <2>. QED
    BY <1>1, <2>3 DEF Behind
<1>2. CASE ~(scan.node \in Keys /\ hash[k] = scan.i)
  BY <1>2 DEF Behind
<1>. QED
  BY <1>1, <1>2

\* A write keeps what is known of the keys copied.
LEMMA CopyKeptByWrite ==
  ASSUME IInv, WalkInv, NEW op \in Ops, Wrote(op)
  PROVE  CopyInv'
<1>. USE DEF WalkInv
<1>1. ScanOK'
  BY Noticed
<1>2. CASE scan.at = "idle"
  <2>1. scan' = scan
    BY <1>2, Noticed
  <2>. QED
    BY <1>2, <2>1 DEF CopyInv, GetKeysWalk
<1>3. CASE scan.at # "idle"
  <2>1. /\ present' \subseteq present \cap TableKeys(lists')
        /\ seen' = IF scan.at \in GetKeysWalk THEN seen \cup TableKeys(lists') ELSE seen
        /\ scan'.at = IF scan.node \in Keys \ TableKeys(lists') THEN "dangling" ELSE scan.at
        /\ scan'.i = scan.i /\ scan'.node = scan.node /\ scan'.keys = scan.keys
    BY <1>3, Noticed
  <2>2. scan.at # "copy" => scan'.at = scan.at \/ scan'.at = "dangling"
    BY <2>1
  <2>3. /\ scan'.at \in GetKeysWalk => scan.at \in GetKeysWalk
        /\ scan'.at \in GetKeysWalk => present' \subseteq TableKeys(lists') /\ TableKeys(lists') \subseteq seen'
    BY <2>1 DEF GetKeysWalk
  <2>4. ASSUME scan'.at = "copy"
        PROVE  Copying'
    <3>1. scan.at = "copy" /\ Copying /\ scan.i \in 0 .. numberLists
      BY <2>1, <2>4 DEF CopyInv
    <3>2. scan.node \in Keys => scan.node \in TableKeys(lists')
      BY <2>1, <2>4
    <3>3. ASSUME NEW k \in present'
          PROVE  k \in Behind' <=> \E j \in 1 .. Len(scan'.keys) : scan'.keys[j] = k
      <4>1. k \in present /\ k \in present' \cap TableKeys(lists) /\ k \in TableKeys(lists')
        BY <2>1, <3>1 DEF CopyInv, GetKeysWalk
      <4>2. k \in Behind <=> k \in Behind'
        BY <2>1, <3>1, <3>2, <4>1, BehindKept
      <4>3. k \in Behind <=> \E j \in 1 .. Len(scan.keys) : scan.keys[j] = k
        BY <3>1, <4>1 DEF Copying
      <4>. QED
        BY <2>1, <4>2, <4>3
    <3>4. \A j \in 1 .. Len(scan'.keys) : scan'.keys[j] \in seen'
      BY <2>1, <3>1 DEF Copying
    <3>5. \A i, j \in 1 .. Len(scan'.keys) :
            scan'.keys[i] = scan'.keys[j] /\ i # j => scan'.keys[i] \notin present'
      BY <2>1, <3>1 DEF Copying
    <3>6. scan'.node \in Keys => scan'.node \in TableKeys(lists') /\ hash[scan'.node] = scan'.i
      BY <2>1, <3>1, <3>2 DEF Copying
    <3>. QED
      BY <3>3, <3>4, <3>5, <3>6 DEF Copying
  <2>. QED
    BY <2>1, <2>3, <2>4 DEF CopyInv
<1>. QED
  BY <1>2, <1>3

\* A write that makes the table smaller or larger is on record.
LEMMA BreakKeptByWrite ==
  ASSUME IInv, WalkInv, NEW op \in Ops, Wrote(op)
  PROVE  BreakInv'
<1>. USE DEF WalkInv
<1>1. CASE scan.at = "idle"
  <2>1. scan' = scan
    BY <1>1, Noticed
  <2>. QED
    BY <1>1, <2>1 DEF BreakInv, Prints
<1>2. CASE scan.at # "idle"
  <2>1. /\ scan'.at = IF scan.node \in Keys \ TableKeys(lists') THEN "dangling" ELSE scan.at
        /\ scan'.i = scan.i /\ scan'.node = scan.node /\ scan'.keys = scan.keys
        /\ scan'.n_info = scan.n_info /\ scan'.room = scan.room
        /\ scan'.disturbed = scan.disturbed \cup {op}
    BY <1>2, Noticed
  <2>2. /\ IsFiniteSet(TableKeys(lists)) /\ table_size = Cardinality(TableKeys(lists))
        /\ table_size \in Nat
    BY TableSize DEF Listed
  <2>3. /\ IsFiniteSet(TableKeys(lists')) /\ table_size' = Cardinality(TableKeys(lists'))
        /\ table_size' \in Nat
    <3>1. IInv' => Listed'
      BY TableSize, PTL
    <3>. QED
      BY <3>1 DEF Listed, Wrote
  <2>4. op \in {"new", "replace", "clash"} => Grown'
    BY <2>1 DEF Grown
  <2>5. op \in {"del", "replace", "clash"} => Shrunk'
    BY <2>1 DEF Shrunk
  <2>6. Grown' \/ (op = "del" /\ (Grown => Grown') /\ table_size' <= table_size)
    <3>1. CASE op = "del"
      <4>1. TableKeys(lists') \subseteq TableKeys(lists)
        BY <3>1 DEF Wrote
      <4>2. table_size' <= table_size
        BY <2>2, <2>3, <4>1, FS_Subset
      <4>. QED
        BY <2>1, <3>1, <4>2 DEF Grown
    <3>. QED
      BY <2>4, <3>1 DEF Ops
  <2>7. Shrunk' \/ (op = "new" /\ (Shrunk => Shrunk') /\ table_size <= table_size')
    <3>1. CASE op = "new"
      <4>1. TableKeys(lists) \subseteq TableKeys(lists')
        BY <3>1 DEF Wrote
      <4>2. table_size <= table_size'
        BY <2>2, <2>3, <4>1, FS_Subset
      <4>. QED
        BY <2>1, <3>1, <4>2 DEF Shrunk
    <3>. QED
      BY <2>5, <3>1 DEF Ops
  <2>8. scan'.at = "dangling" => Shrunk'
    <3>1. CASE scan.at = "dangling"
      BY <2>1, <3>1 DEF BreakInv, Shrunk
    <3>2. CASE scan.node \in Keys \ TableKeys(lists')
      <4>1. scan.at \in {"copy", "dangling", "crashed"}
        BY <3>2, TableAssumption DEF CopyInv
      <4>2. scan.at = "copy" => scan.node \in TableKeys(lists)
        BY <3>2 DEF CopyInv, Copying
      <4>3. scan.at = "copy" => op # "new"
        BY <3>2, <4>2 DEF Wrote
      <4>. QED
        BY <2>1, <2>5, <4>1, <4>3 DEF BreakInv, Shrunk, Ops
    <3>. QED
      BY <2>1, <3>1, <3>2
  <2>9. scan'.at = "crashed" => Shrunk'
    BY <2>1 DEF BreakInv, Shrunk
  <2>10. scan'.at \notin {"dangling", "crashed"} => scan'.at = scan.at
    BY <2>1
  <2>11. scan.i \in Nat /\ scan.room \in Nat /\ Len(scan.keys) \in Nat
    BY DEF ScanOK, Scans
  <2>12. scan'.at \in {"loop", "key", "line", "count"} =>
           /\ Len(scan'.keys) <= scan'.i
           /\ Grown' \/ table_size' <= scan'.room
    BY <2>1, <2>2, <2>3, <2>6, <2>10, <2>11 DEF BreakInv
  <2>13. scan'.at \in Prints => Grown' \/ Len(scan'.keys) <= scan'.room
    BY <2>1, <2>6, <2>10 DEF BreakInv, Prints
  <2>14. scan'.at \in {"key", "line"} => Shrunk' \/ scan'.i < table_size'
    BY <2>1, <2>2, <2>3, <2>7, <2>10, <2>11 DEF BreakInv
  <2>15. scan'.at \in {"print", "array"} =>
           scan'.keys = <<>> /\ scan'.i = 0 /\ scan'.n_info = 0 /\ scan'.room = 0
    BY <2>1, <2>10 DEF BreakInv
  <2>. QED
    BY <2>8, <2>9, <2>12, <2>13, <2>14, <2>15 DEF BreakInv
<1>. QED
  BY <1>1, <1>2

\* After a write the walk is not undisturbed.
LEMMA ExactKeptByWrite ==
  ASSUME IInv, WalkInv, NEW op \in Ops, Wrote(op)
  PROVE  ExactInv'
<1>1. CASE scan.at = "idle"
  <2>1. scan'.at = "idle"
    BY <1>1, Noticed DEF WalkInv
  <2>. QED
    BY <2>1 DEF ExactInv, Exact, GetKeysWalk
<1>2. CASE scan.at # "idle"
  <2>1. scan'.disturbed # {}
    BY <1>2, Noticed DEF WalkInv
  <2>. QED
    BY <2>1 DEF ExactInv
<1>. QED
  BY <1>1, <1>2

-----------------------------------------------------------------------------
(* The walks: their own steps.                                             *)

\* Without a write the table stays.
LEMMA SameTable ==
  ASSUME lists' = lists
  PROVE  /\ AllKeys' = AllKeys /\ table_size' = table_size
         /\ TableKeys(lists') = TableKeys(lists)
         /\ \A i : KeysBelow(i)' = {k \in TableKeys(lists) : hash[k] < i}
  BY DEF AllKeys, table_size, KeysBelow

\* list_size counts the keys of its list.
LEMMA NextCount ==
  ASSUME IInv, NEW i \in Lists
  PROVE  /\ Len(lists[i]) \in Nat
         /\ Cardinality(KeysBelow(i + 1)) = Cardinality(KeysBelow(i)) + Len(lists[i])
<1>1. Enumerates(list_get_keys(lists[i]), KeysOf(i))
  BY ListKeys
<1>2. Len(list_get_keys(lists[i])) = Len(lists[i]) /\ Len(lists[i]) \in Nat
  <2>1. lists[i] \in Seq(Entries)
    BY DEF IInv
  <2>2. Len(lists[i]) \in Nat /\ DOMAIN lists[i] = 1 .. Len(lists[i])
    BY <2>1, LenProperties
  <2>. QED
    BY <2>2 DEF list_get_keys
<1>3. IsFiniteSet(KeysOf(i)) /\ Cardinality(KeysOf(i)) = Len(lists[i])
  BY <1>1, <1>2, EnumeratedCount
<1>4. IsFiniteSet(KeysBelow(i))
  <2>1. KeysBelow(i) \subseteq TableKeys(lists)
    BY DEF KeysBelow
  <2>. QED
    BY <2>1, TableSize, FS_Subset DEF Listed
<1>5. KeysBelow(i + 1) = KeysBelow(i) \cup KeysOf(i) /\ KeysBelow(i) \cap KeysOf(i) = {}
  BY NextList
<1>6. Cardinality(KeysBelow(i)) \in Nat
  BY <1>4, FS_CardinalityType
<1>7. Cardinality(KeysBelow(i) \cap KeysOf(i)) = 0
  BY <1>5, FS_EmptySet
<1>8. Cardinality(KeysBelow(i + 1)) = Cardinality(KeysBelow(i)) + Cardinality(KeysOf(i))
                                       - Cardinality(KeysBelow(i) \cap KeysOf(i))
  BY <1>3, <1>4, <1>5, FS_Union
<1>9. \A a, b, c \in Nat : c = 0 => a + b - c = a + b
  OBVIOUS
<1>. QED
  BY <1>2, <1>3, <1>6, <1>7, <1>8, <1>9

\* comeca returns and the walk begins.
LEMMA StartScanKeeps ==
  ASSUME IInv, WalkInv, NEW walk \in {"size", "n_info", "print"}, StartScan(walk)
  PROVE  WalkInv'
<1>1. /\ lists' = lists
      /\ scan'.at = walk /\ scan'.i = 0 /\ scan'.node = Empty /\ scan'.nElements = 0
      /\ scan'.n_info = 0 /\ scan'.room = 0 /\ scan'.keys = <<>> /\ scan'.disturbed = {}
      /\ present' = (IF walk = "n_info" THEN TableKeys(lists) ELSE {}) /\ seen' = present'
  BY DEF StartScan, Idle, tableVars
<1>2. TableKeys(lists) \subseteq Keys
  BY DEF TableKeys
<1>3. ScanOK'
  <2>1. scan' = [Idle EXCEPT !.at = walk]
    BY DEF StartScan
  <2>2. scan' = [at |-> walk, i |-> 0, node |-> Empty, nElements |-> 0, n_info |-> 0, room |-> 0,
                 keys |-> <<>>, writes |-> 0, disturbed |-> {}]
    BY <2>1 DEF Idle
  <2>3. <<>> \in Seq(Keys) /\ walk \in {"idle", "crashed"} \cup Walks \cup Prints
    BY DEF Walks, Prints, GetKeysWalk
  <2>4. scan' \in Scans
    BY <2>2, <2>3 DEF Scans
  <2>. QED
    BY <1>1, <1>2, <2>4 DEF ScanOK
<1>4. CopyInv'
  BY <1>1, TableAssumption DEF CopyInv, GetKeysWalk
<1>5. BreakInv'
  BY <1>1 DEF BreakInv, Prints
<1>6. Cardinality(KeysBelow(scan.i)') = 0
  <2>1. KeysBelow(0)' = {}
    BY <1>1, SameTable, FirstAndLast DEF KeysBelow
  <2>2. KeysBelow(scan.i)' = KeysBelow(0)'
    BY <1>1 DEF KeysBelow
  <2>. QED
    BY <2>1, <2>2, FS_EmptySet
<1>7. ExactInv'
  BY <1>1, <1>6 DEF ExactInv, Exact, GetKeysWalk
<1>. QED
  BY <1>3, <1>4, <1>5, <1>7 DEF WalkInv

\* table_size goes on to the next list.
LEMMA VisitSizeKeeps ==
  ASSUME IInv, WalkInv, VisitSize
  PROVE  WalkInv'
<1>. USE DEF WalkInv
<1>0. scan.i \in Lists /\ scan.i \in Nat
  BY TableAssumption DEF VisitSize, ScanOK, Scans, Lists
<1>1. /\ lists' = lists /\ present' = present /\ seen' = seen
      /\ scan.at \in {"size", "n_info", "allocate"}
      /\ scan' = [scan EXCEPT !.i = @ + 1, !.nElements = @ + Len(lists[scan.i])]
  BY DEF VisitSize, tableVars
<1>2. /\ scan'.at = scan.at /\ scan'.i = scan.i + 1 /\ scan'.node = scan.node
      /\ scan'.nElements = scan.nElements + Len(lists[scan.i])
      /\ scan'.n_info = scan.n_info /\ scan'.room = scan.room /\ scan'.keys = scan.keys
      /\ scan'.disturbed = scan.disturbed
  BY <1>1 DEF ScanOK, Scans
<1>3. ScanOK'
  <2>1. scan.i + 1 \in Nat /\ scan.nElements + Len(lists[scan.i]) \in Nat
    BY <1>0, NextCount DEF ScanOK, Scans
  <2>. QED
    BY <1>1, <2>1 DEF ScanOK, Scans
<1>4. CopyInv'
  <2>1. scan.i + 1 \in 0 .. numberLists
    BY <1>0, TableAssumption DEF Lists
  <2>. QED
    BY <1>1, <1>2, <2>1 DEF CopyInv
<1>5. BreakInv'
  BY <1>1, <1>2 DEF BreakInv, Prints
<1>6. ASSUME scan.disturbed = {}
      PROVE  scan'.nElements = Cardinality(KeysBelow(scan.i)')
  <2>1. KeysBelow(scan.i)' = KeysBelow(scan.i + 1)
    BY <1>1, <1>2 DEF KeysBelow
  <2>2. scan.nElements = Cardinality(KeysBelow(scan.i))
    BY <1>1, <1>6 DEF ExactInv, Exact
  <2>. QED
    BY <1>0, <1>2, <2>1, <2>2, NextCount
<1>7. ExactInv'
  <2>1. table_size' = table_size
    BY <1>1, SameTable
  <2>. QED
    BY <1>1, <1>2, <1>6, <2>1 DEF ExactInv, Exact
<1>. QED
  BY <1>3, <1>4, <1>5, <1>7

\* table_size has counted the table.
LEMMA SizeDoneKeeps ==
  ASSUME IInv, WalkInv, SizeDone
  PROVE  WalkInv'
<1>. USE DEF WalkInv
<1>1. /\ lists' = lists /\ present' = present /\ seen' = seen
      /\ scan.at \in {"n_info", "allocate"} /\ scan.i = numberLists
      /\ scan.keys = <<>> /\ scan.node = Empty
  BY DEF SizeDone, tableVars, CopyInv
<1>2. /\ scan'.i = 0 /\ scan'.node = Empty /\ scan'.keys = <<>>
      /\ scan'.disturbed = scan.disturbed
      /\ scan.at = "n_info" => /\ scan'.at = "allocate" /\ scan'.nElements = 0
                               /\ scan'.n_info = scan.nElements /\ scan'.room = scan.room
      /\ scan.at = "allocate" => /\ scan'.at = "copy" /\ scan'.room = scan.nElements
                                 /\ scan'.n_info = scan.n_info
  BY <1>1 DEF SizeDone, ScanOK, Scans
<1>3. ScanOK'
  <2>1. "allocate" \in Walks /\ "copy" \in Walks /\ scan.nElements \in Nat
    BY DEF ScanOK, Scans, Walks, GetKeysWalk
  <2>2. scan' \in Scans
    BY <1>1, <2>1 DEF SizeDone, ScanOK, Scans
  <2>. QED
    BY <1>1, <2>2 DEF ScanOK
<1>4. CopyInv'
  <2>1. scan'.at = "copy" => Copying'
    <3>1. \A k : k \notin Behind'
      <4>1. \A k \in TableKeys(lists') : hash[k] \in Lists
        BY TableAssumption DEF TableKeys
      <4>2. \A k \in TableKeys(lists') : ~(hash[k] < 0)
        BY <4>1, TableAssumption DEF Lists
      <4>. QED
        BY <1>2, <4>2, TableAssumption DEF Behind
    <3>2. 1 .. Len(scan'.keys) = {}
      BY <1>2
    <3>. QED
      BY <1>2, <3>1, <3>2, TableAssumption DEF Copying
  <2>2. present' \subseteq TableKeys(lists') /\ TableKeys(lists') \subseteq seen'
    BY <1>1 DEF CopyInv, GetKeysWalk
  <2>3. 0 \in 0 .. numberLists
    BY TableAssumption
  <2>. QED
    BY <1>1, <1>2, <2>1, <2>2, <2>3 DEF CopyInv
<1>5. BreakInv'
  BY <1>1, <1>2 DEF BreakInv, Prints
<1>6. ASSUME scan.disturbed = {}
      PROVE  scan.nElements = table_size /\ table_size' = table_size
             /\ Cardinality(KeysBelow(0)') = 0
  <2>1. scan.nElements = Cardinality(KeysBelow(numberLists))
    BY <1>1, <1>6 DEF ExactInv, Exact
  <2>2. KeysBelow(0)' = {}
    BY <1>1, FirstAndLast DEF KeysBelow
  <2>. QED
    BY <1>1, <2>1, <2>2, FirstAndLast, TableSize, SameTable, FS_EmptySet DEF Listed
<1>7. ExactInv'
  <2>. SUFFICES ASSUME scan'.disturbed = {} PROVE Exact'
    BY DEF ExactInv
  <2>1. Cardinality(KeysBelow(scan.i)') = 0
    <3>1. KeysBelow(scan.i)' = KeysBelow(0)'
      BY <1>2 DEF KeysBelow
    <3>. QED
      BY <1>2, <1>6, <3>1
  <2>. QED
    BY <1>1, <1>2, <1>6, <2>1 DEF ExactInv, Exact, GetKeysWalk
<1>. QED
  BY <1>3, <1>4, <1>5, <1>7

\* Where the copying stands when it has passed p nodes of the list h.
LEMMA NextNode ==
  ASSUME IInv, ScanOK, lists' = lists, NEW h \in Lists, NEW p \in 0 .. Len(lists[h]), NEW keys,
         GoToNode(h, p, keys), keys \in Seq(Keys)
  PROVE  /\ scan' \in Scans /\ scan'.at = scan.at /\ scan'.keys = keys
         /\ scan'.nElements = scan.nElements /\ scan'.n_info = scan.n_info
         /\ scan'.room = scan.room /\ scan'.disturbed = scan.disturbed
         /\ scan'.i \in 0 .. numberLists
         /\ scan'.node \in Keys => scan'.node \in TableKeys(lists') /\ hash[scan'.node] = scan'.i
         /\ \A k \in TableKeys(lists) :
              k \in Behind' <=> hash[k] < h \/ (hash[k] = h /\ First(lists[h], k) <= p)
<1>. DEFINE list == lists[h]
            more == p < Len(list)
<1>1. /\ list \in Seq(Entries) /\ WellFormedList(h, list)
      /\ Len(list) \in Nat /\ DOMAIN list = 1 .. Len(list)
      /\ \A j \in 1 .. Len(list) : list[j].key \in Keys
  <2>1. list \in Seq(Entries) /\ WellFormedList(h, list)
    BY DEF IInv, AllWellFormed
  <2>2. \A j \in 1 .. Len(list) : list[j] \in Entries
    BY <2>1, ElementOfSeq
  <2>. QED
    BY <2>1, <2>2, LenProperties DEF Entries
<1>2. scan' = [scan EXCEPT !.node = IF more THEN list[p + 1].key ELSE Empty,
                           !.i = IF more THEN h ELSE h + 1,
                           !.keys = keys]
  BY DEF GoToNode
<1>3. h \in Nat /\ h < numberLists /\ numberLists \in Nat
  BY TableAssumption DEF Lists
<1>. HIDE DEF list, more
<1>4. /\ scan'.at = scan.at /\ scan'.keys = keys
      /\ scan'.nElements = scan.nElements /\ scan'.n_info = scan.n_info
      /\ scan'.room = scan.room /\ scan'.disturbed = scan.disturbed
      /\ scan'.node = (IF more THEN list[p + 1].key ELSE Empty)
      /\ scan'.i = (IF more THEN h ELSE h + 1)
  BY <1>2 DEF ScanOK, Scans
<1>5. more => p + 1 \in 1 .. Len(list)
  BY <1>1 DEF list, more
<1>6. scan' \in Scans /\ scan'.i \in 0 .. numberLists
  <2>1. (IF more THEN list[p + 1].key ELSE Empty) \in Keys \cup {Empty}
    BY <1>1, <1>5
  <2>2. (IF more THEN h ELSE h + 1) \in Nat /\ (IF more THEN h ELSE h + 1) \in 0 .. numberLists
    BY <1>3
  <2>. QED
    BY <1>2, <1>4, <2>1, <2>2 DEF ScanOK, Scans
<1>7. ASSUME NEW k \in TableKeys(lists), hash[k] = h
      PROVE  /\ First(list, k) \in 1 .. Len(list)
             /\ list[First(list, k)].key = k
  <2>1. Has(list, k)
    BY <1>7 DEF TableKeys, list
  <2>2. PICK j \in 1 .. Len(list) : list[j].key = k
    BY <1>1, <2>1 DEF Has
  <2>. QED
    BY <1>1, <2>2, FirstFound
<1>8. CASE more
  <2>1. First(list, list[p + 1].key) = p + 1
    BY <1>1, <1>5, <1>8, FirstFound
  <2>2. /\ list[p + 1].key \in Keys /\ hash[list[p + 1].key] = h
        /\ Has(list, list[p + 1].key)
    BY <1>1, <1>5, <1>8 DEF WellFormedList, Has
  <2>3. list[p + 1].key \in TableKeys(lists)
    BY <2>2 DEF TableKeys, list
  <2>4. scan'.node = list[p + 1].key /\ scan'.i = h
    BY <1>4, <1>8
  <2>5. ASSUME NEW k \in TableKeys(lists)
        PROVE  k \in Behind' <=> hash[k] < h \/ (hash[k] = h /\ First(list, k) <= p)
    <3>1. k \in Behind' <=> hash[k] < h \/ (hash[k] = h /\ First(list, k) < p + 1)
      BY <2>1, <2>2, <2>4 DEF Behind, list
    <3>2. hash[k] = h => (First(list, k) < p + 1 <=> First(list, k) <= p)
      BY <1>1, <1>7
    <3>. QED
      BY <3>1, <3>2
  <2>. QED
    BY <1>4, <1>6, <2>2, <2>3, <2>4, <2>5 DEF list
<1>9. CASE ~more
  <2>1. p = Len(list)
    BY <1>1, <1>9 DEF more, list
  <2>2. scan'.node = Empty /\ scan'.i = h + 1 /\ Empty \notin Keys
    BY <1>4, <1>9, TableAssumption
  <2>3. ASSUME NEW k \in TableKeys(lists)
        PROVE  k \in Behind' <=> hash[k] < h \/ (hash[k] = h /\ First(list, k) <= p)
    <3>1. k \in Behind' <=> hash[k] < h + 1
      BY <2>2 DEF Behind
    <3>2. hash[k] \in Lists
      BY TableAssumption DEF TableKeys
    <3>3. hash[k] < h + 1 <=> hash[k] < h \/ hash[k] = h
      BY <1>3, <3>2 DEF Lists
    <3>4. hash[k] = h => First(list, k) <= p
      BY <1>1, <1>7, <2>1
    <3>. QED
      BY <3>1, <3>3, <3>4
  <2>. QED
    BY <1>4, <1>6, <2>2, <2>3 DEF list
<1>. QED
  BY <1>8, <1>9

\* A step of the copying changes nothing else that the invariants tell of.
LEMMA CopyStepKeeps ==
  ASSUME IInv, WalkInv, scan.at = "copy", lists' = lists, present' = present, seen' = seen,
         scan' \in Scans, scan'.at = "copy", scan'.i \in 0 .. numberLists,
         scan'.n_info = scan.n_info, scan'.room = scan.room, scan'.disturbed = scan.disturbed,
         Copying'
  PROVE  WalkInv'
<1>. USE DEF WalkInv
<1>1. ScanOK'
  BY DEF ScanOK
<1>2. CopyInv'
  BY DEF CopyInv, GetKeysWalk
<1>3. BreakInv'
  BY DEF BreakInv, Prints
<1>4. ExactInv'
  BY SameTable DEF ExactInv, Exact, GetKeysWalk
<1>. QED
  BY <1>1, <1>2, <1>3, <1>4

\* The copying goes to the head of the next list: no key gets behind it.
LEMMA VisitKeysKeeps ==
  ASSUME IInv, WalkInv, VisitKeys
  PROVE  WalkInv'
<1>1. /\ lists' = lists /\ present' = present /\ seen' = seen
      /\ scan.at = "copy" /\ scan.node = Empty
      /\ GoToNode(scan.i, 0, scan.keys)
  BY DEF VisitKeys, tableVars
<1>2. scan.i \in Lists /\ scan.keys \in Seq(Keys) /\ ScanOK
  BY TableAssumption DEF VisitKeys, WalkInv, ScanOK, Scans, Lists
<1>. DEFINE h == scan.i
            list == lists[h]
<1>3. list \in Seq(Entries) /\ WellFormedList(h, list) /\ Len(list) \in Nat /\ 0 \in 0 .. Len(list)
  BY <1>2, LenProperties DEF IInv, AllWellFormed
<1>. HIDE DEF list
<1>4. /\ scan' \in Scans /\ scan'.at = scan.at /\ scan'.keys = scan.keys
      /\ scan'.n_info = scan.n_info /\ scan'.room = scan.room /\ scan'.disturbed = scan.disturbed
      /\ scan'.i \in 0 .. numberLists
      /\ scan'.node \in Keys => scan'.node \in TableKeys(lists') /\ hash[scan'.node] = scan'.i
      /\ \A k \in TableKeys(lists) :
           k \in Behind' <=> hash[k] < h \/ (hash[k] = h /\ First(list, k) <= 0)
  BY <1>1, <1>2, <1>3, NextNode DEF list
<1>5. Copying /\ present \subseteq TableKeys(lists)
  BY <1>1 DEF WalkInv, CopyInv, GetKeysWalk
<1>6. ASSUME NEW k \in TableKeys(lists)
      PROVE  k \in Behind' <=> k \in Behind
  <2>1. k \in Behind <=> hash[k] < h
    BY <1>1, TableAssumption DEF Behind
  <2>2. ASSUME hash[k] = h PROVE ~(First(list, k) <= 0)
    <3>1. Has(list, k)
      BY <2>2 DEF TableKeys, list
    <3>2. PICK j \in 1 .. Len(list) : list[j].key = k
      BY <1>3, <3>1 DEF Has
    <3>3. First(list, k) = j
      BY <1>3, <3>2, FirstFound
    <3>. QED
      BY <1>3, <3>3
  <2>. QED
    BY <1>4, <2>1, <2>2
<1>7. Copying'
  BY <1>1, <1>4, <1>5, <1>6 DEF Copying
<1>. QED
  BY <1>1, <1>4, <1>7, CopyStepKeeps

\* The copying goes on from a node: this key, and no other, gets behind it.
LEMMA CopyKeyKeeps ==
  ASSUME IInv, WalkInv, CopyKey
  PROVE  WalkInv'
<1>. DEFINE h == scan.i
            list == lists[h]
            node == scan.node
            p == First(list, node)
            keys == Append(scan.keys, node)
            n == Len(scan.keys)
<1>1. /\ lists' = lists /\ present' = present /\ seen' = seen
      /\ scan.at = "copy" /\ node \in Keys
      /\ GoToNode(h, p, keys)
  BY DEF CopyKey, tableVars
<1>2. /\ Copying /\ present \subseteq TableKeys(lists) /\ TableKeys(lists) \subseteq seen
      /\ ScanOK /\ scan.keys \in Seq(Keys)
  BY <1>1 DEF WalkInv, CopyInv, GetKeysWalk, ScanOK, Scans
<1>3. node \in TableKeys(lists) /\ hash[node] = h /\ h \in Lists
  BY <1>1, <1>2, TableAssumption DEF Copying
<1>4. /\ list \in Seq(Entries) /\ WellFormedList(h, list) /\ Len(list) \in Nat
      /\ DOMAIN list = 1 .. Len(list)
  BY <1>3, LenProperties DEF IInv, AllWellFormed
<1>. HIDE DEF list
<1>5. ASSUME NEW k \in TableKeys(lists), hash[k] = h
      PROVE  First(list, k) \in 1 .. Len(list) /\ list[First(list, k)].key = k
  <2>1. Has(list, k)
    BY <1>5 DEF TableKeys, list
  <2>2. PICK j \in 1 .. Len(list) : list[j].key = k
    BY <1>4, <2>1 DEF Has
  <2>. QED
    BY <1>4, <2>2, FirstFound
<1>6. p \in 1 .. Len(list) /\ list[p].key = node
  BY <1>3, <1>5
<1>7. /\ keys \in Seq(Keys) /\ n \in Nat /\ Len(keys) = n + 1 /\ keys[n + 1] = node
      /\ \A j \in 1 .. n : keys[j] = scan.keys[j]
  BY <1>1, <1>2, LenProperties, AppendProperties
<1>. HIDE DEF p, keys, n
<1>8. /\ scan' \in Scans /\ scan'.at = scan.at /\ scan'.keys = keys
      /\ scan'.n_info = scan.n_info /\ scan'.room = scan.room /\ scan'.disturbed = scan.disturbed
      /\ scan'.i \in 0 .. numberLists
      /\ scan'.node \in Keys => scan'.node \in TableKeys(lists') /\ hash[scan'.node] = scan'.i
      /\ \A k \in TableKeys(lists) :
           k \in Behind' <=> hash[k] < h \/ (hash[k] = h /\ First(list, k) <= p)
  <2>1. p \in 0 .. Len(list)
    BY <1>6
  <2>. QED
    BY <1>1, <1>2, <1>3, <1>7, <2>1, NextNode DEF list
<1>9. ASSUME NEW k \in TableKeys(lists)
      PROVE  k \in Behind' <=> k \in Behind \/ k = node
  <2>1. k \in Behind <=> hash[k] < h \/ (hash[k] = h /\ First(list, k) < p)
    BY <1>1 DEF Behind, list, p
  <2>2. ASSUME hash[k] = h
        PROVE  First(list, k) <= p <=> First(list, k) < p \/ k = node
    <3>1. First(list, k) = p <=> k = node
      BY <1>5, <1>6, <2>2 DEF p
    <3>2. First(list, k) <= p <=> First(list, k) < p \/ First(list, k) = p
      BY <1>4, <1>5, <1>6, <2>2
    <3>. QED
      BY <3>1, <3>2
  <2>. QED
    BY <1>3, <1>8, <2>1, <2>2
<1>10. node \notin Behind
  <2>1. ~(hash[node] < h)
    BY <1>3, TableAssumption DEF Lists
  <2>2. ~(First(list, node) < p)
    BY <1>4, <1>6 DEF p
  <2>. QED
    BY <2>1, <2>2 DEF Behind, list, p
<1>11. \A j \in 1 .. (n + 1) : j \in 1 .. n \/ j = n + 1
  BY <1>7
<1>12. \A j \in 1 .. n : j \in 1 .. (n + 1) /\ j # n + 1
  BY <1>7
<1>13. \A j \in 1 .. (n + 1) : keys[j] \in seen
  <2>1. \A j \in 1 .. n : scan.keys[j] \in seen
    BY <1>2 DEF Copying, n
  <2>. QED
    BY <1>2, <1>3, <1>7, <1>11, <2>1
<1>14. ASSUME NEW k \in present
       PROVE  k \in Behind' <=> \E j \in 1 .. (n + 1) : keys[j] = k
  <2>1. k \in Behind <=> \E j \in 1 .. n : scan.keys[j] = k
    BY <1>2 DEF Copying, n
  <2>2. (\E j \in 1 .. (n + 1) : keys[j] = k) <=> (\E j \in 1 .. n : scan.keys[j] = k) \/ node = k
    <3>1. n + 1 \in 1 .. (n + 1)
      BY <1>7
    <3>. QED
      BY <1>7, <1>11, <1>12, <3>1
  <2>. QED
    BY <1>2, <1>9, <2>1, <2>2
<1>15. ASSUME NEW i \in 1 .. (n + 1), NEW j \in 1 .. (n + 1), keys[i] = keys[j], i # j
       PROVE  keys[i] \notin present
  <2>1. \A a, b \in 1 .. n : scan.keys[a] = scan.keys[b] /\ a # b => scan.keys[a] \notin present
    BY <1>2 DEF Copying, n
  <2>2. ASSUME NEW a \in 1 .. n, scan.keys[a] = node
        PROVE  node \notin present
    BY <1>2, <1>10, <2>2 DEF Copying, n
  <2>. QED
    BY <1>7, <1>11, <1>15, <2>1, <2>2
<1>16. Copying'
  BY <1>1, <1>7, <1>8, <1>13, <1>14, <1>15 DEF Copying
<1>. QED
  BY <1>1, <1>8, <1>16, CopyStepKeeps

\* A walk that stands on a freed node ends, and an entry has been taken out.
LEMMA UseFreedKeeps ==
  ASSUME IInv, WalkInv, UseFreed
  PROVE  WalkInv'
<1>1. /\ lists' = lists /\ present' = present /\ seen' = seen
      /\ scan.at = "dangling" /\ scan' = [scan EXCEPT !.at = "crashed"]
  BY DEF UseFreed, tableVars
<1>2. scan'.at = "crashed" /\ scan'.disturbed = scan.disturbed
  BY <1>1 DEF WalkInv, ScanOK, Scans
<1>3. ScanOK'
  BY <1>1 DEF WalkInv, ScanOK, Scans
<1>4. CopyInv'
  BY <1>2 DEF CopyInv, GetKeysWalk
<1>5. BreakInv'
  BY <1>1, <1>2 DEF WalkInv, BreakInv, Shrunk, Prints
<1>6. ExactInv'
  BY <1>1, <1>2 DEF WalkInv, BreakInv, Shrunk, ExactInv
<1>. QED
  BY <1>3, <1>4, <1>5, <1>6 DEF WalkInv

\* table_print does not copy: what it changes concerns the other invariants.
LEMMA PrintStepKeeps ==
  ASSUME IInv, WalkInv, PrintStep
  PROVE  WalkInv'
<1>. USE DEF WalkInv
<1>0. /\ lists' = lists /\ present' = present /\ seen' = seen
      /\ AllKeys' = AllKeys /\ table_size' = table_size /\ TableKeys(lists') = TableKeys(lists)
      /\ table_size \in Nat /\ table_size = Cardinality(TableKeys(lists))
      /\ IsFiniteSet(TableKeys(lists))
      /\ Enumerates(AllKeys, TableKeys(lists)) /\ table_size = Len(AllKeys)
  <2>1. UNCHANGED <<lists, present, seen>>
    BY DEF PrintStep, PrintTest, PrintAllocate, PrintLoop, PrintKey, PrintLine, PrintCount,
           PrintGoes, tableVars
  <2>. QED
    BY <2>1, SameTable, TableSize DEF Listed, table_size
<1>1. /\ scan.i \in Nat /\ scan.room \in Nat /\ scan.n_info \in Nat /\ scan.keys \in Seq(Keys)
      /\ Len(scan.keys) \in Nat /\ scan \in Scans
  BY LenProperties DEF ScanOK, Scans
<1>2. scan.at \in {"print", "array", "loop", "key", "line", "count"}
  BY DEF PrintStep, PrintTest, PrintAllocate, PrintLoop, PrintKey, PrintLine, PrintCount
<1>. DEFINE To(at, i, n_info, room, keys) ==
              [scan EXCEPT !.at = at, !.i = i, !.n_info = n_info, !.room = room, !.keys = keys]
            Going(at, i, n_info, room, keys) ==
              /\ scan'.at = at /\ scan'.i = i /\ scan'.n_info = n_info /\ scan'.room = room
              /\ scan'.keys = keys /\ scan'.disturbed = scan.disturbed /\ scan'.node = scan.node
<1>3. ASSUME NEW at \in Prints \cup {"crashed"}, NEW i \in Nat, NEW n_info \in Nat, NEW room \in Nat,
             NEW keys \in Seq(Keys), scan' = To(at, i, n_info, room, keys)
      PROVE  ScanOK' /\ CopyInv' /\ Going(at, i, n_info, room, keys)
  <2>1. Going(at, i, n_info, room, keys)
    BY <1>1, <1>3 DEF Scans
  <2>2. ScanOK'
    BY <1>0, <1>1, <1>3 DEF ScanOK, Scans
  <2>3. scan.node = Empty
    BY <1>2 DEF CopyInv
  <2>4. CopyInv'
    BY <2>1, <2>3 DEF CopyInv, GetKeysWalk, Prints
  <2>. QED
    BY <2>1, <2>2, <2>4
<1>. HIDE DEF Going
<1>4. CASE PrintTest
  <2>. DEFINE at == IF table_size = 0 THEN "printed" ELSE "array"
  <2>1. scan.at = "print" /\ scan' = [scan EXCEPT !.at = at]
    BY <1>4 DEF PrintTest, PrintGoes
  <2>2. scan.keys = <<>> /\ scan.i = 0 /\ scan.n_info = 0 /\ scan.room = 0
    BY <2>1 DEF BreakInv
  <2>3. scan' = To(at, scan.i, scan.n_info, scan.room, scan.keys)
    BY <1>1, <2>1 DEF Scans
  <2>4. at \in Prints \cup {"crashed"}
    BY DEF Prints
  <2>5. ScanOK' /\ CopyInv' /\ Going(at, scan.i, scan.n_info, scan.room, scan.keys)
    <3>. HIDE DEF To, at
    <3>. QED
      BY <1>1, <1>3, <2>3, <2>4
  <2>6. BreakInv'
    BY <2>2, <2>5 DEF Going, BreakInv
  <2>7. at = "printed" => Enumerates(scan.keys, TableKeys(lists))
    BY <1>0, <2>2, FS_EmptySet, EnumeratesNone
  <2>8. ExactInv'
    BY <1>0, <2>2, <2>5, <2>7 DEF Going, ExactInv, Exact, GetKeysWalk
  <2>. QED
    BY <2>5, <2>6, <2>8
<1>5. CASE PrintAllocate
  <2>1. scan.at = "array" /\ scan' = [scan EXCEPT !.at = "loop", !.room = table_size]
    BY <1>5 DEF PrintAllocate
  <2>2. scan.keys = <<>> /\ scan.i = 0
    BY <2>1 DEF BreakInv
  <2>3. scan' = To("loop", scan.i, scan.n_info, table_size, scan.keys)
    BY <1>1, <2>1 DEF Scans
  <2>5. ScanOK' /\ CopyInv' /\ Going("loop", scan.i, scan.n_info, table_size, scan.keys)
    <3>. HIDE DEF To
    <3>. QED
      BY <1>0, <1>1, <1>3, <2>3 DEF Prints
  <2>6. BreakInv'
    BY <1>0, <2>2, <2>5 DEF Going, BreakInv, Prints
  <2>8. ExactInv'
    BY <1>0, <2>2, <2>5 DEF Going, ExactInv, Exact, GetKeysWalk
  <2>. QED
    BY <2>5, <2>6, <2>8
<1>6. CASE PrintLoop
  <2>. DEFINE at == IF scan.i < table_size THEN "key" ELSE "count"
  <2>1. scan.at = "loop" /\ scan' = [scan EXCEPT !.at = at]
    BY <1>6 DEF PrintLoop, PrintGoes
  <2>3. scan' = To(at, scan.i, scan.n_info, scan.room, scan.keys)
    BY <1>1, <2>1 DEF Scans
  <2>4. at \in Prints \cup {"crashed"}
    BY DEF Prints
  <2>5. ScanOK' /\ CopyInv' /\ Going(at, scan.i, scan.n_info, scan.room, scan.keys)
    <3>. HIDE DEF To, at
    <3>. QED
      BY <1>1, <1>3, <2>3, <2>4
  <2>6. BreakInv'
    BY <1>0, <2>1, <2>5 DEF Going, BreakInv, Prints, Shrunk, Grown
  <2>7. scan.disturbed = {} => scan.i <= table_size
    BY <2>1 DEF ExactInv, Exact
  <2>8. ExactInv'
    BY <1>0, <1>1, <2>1, <2>5, <2>7 DEF Going, ExactInv, Exact, GetKeysWalk
  <2>. QED
    BY <2>5, <2>6, <2>8
<1>7. CASE PrintKey
  <2>1. CASE scan.i # table_size /\ PrintGoes("line")
    <3>1. scan.at = "key" /\ scan' = [scan EXCEPT !.at = "line"]
      BY <1>7, <2>1 DEF PrintKey, PrintGoes
    <3>2. scan' = To("line", scan.i, scan.n_info, scan.room, scan.keys)
      BY <1>1, <3>1 DEF Scans
    <3>3. ScanOK' /\ CopyInv' /\ Going("line", scan.i, scan.n_info, scan.room, scan.keys)
      <4>. HIDE DEF To
      <4>. QED
        BY <1>1, <1>3, <3>2 DEF Prints
    <3>4. BreakInv'
      BY <1>0, <3>1, <3>3 DEF Going, BreakInv, Prints, Shrunk, Grown
    <3>5. ExactInv'
      BY <1>0, <3>1, <3>3 DEF Going, ExactInv, Exact, GetKeysWalk
    <3>. QED
      BY <3>3, <3>4, <3>5
  <2>2. CASE scan.i >= table_size /\ scan' = [scan EXCEPT !.at = "loop", !.i = @ + 1]
    <3>1. scan.at = "key"
      BY <1>7 DEF PrintKey
    <3>2. scan' = To("loop", scan.i + 1, scan.n_info, scan.room, scan.keys)
      BY <1>1, <2>2 DEF Scans
    <3>3. ScanOK' /\ CopyInv' /\ Going("loop", scan.i + 1, scan.n_info, scan.room, scan.keys)
      <4>. HIDE DEF To
      <4>. QED
        BY <1>1, <1>3, <3>2 DEF Prints
    <3>4. Shrunk
      BY <1>0, <1>1, <2>2, <3>1 DEF BreakInv
    <3>5. /\ Len(scan.keys) <= scan.i + 1
          /\ Grown \/ table_size <= scan.room
          /\ Grown \/ Len(scan.keys) <= scan.room
      BY <1>1, <3>1 DEF BreakInv, Prints
    <3>6. BreakInv'
      BY <1>0, <3>3, <3>5 DEF Going, BreakInv, Prints, Grown
    <3>7. ExactInv'
      BY <3>3, <3>4 DEF Going, ExactInv, Shrunk
    <3>. QED
      BY <3>3, <3>6, <3>7
  <2>. QED
    BY <1>7, <2>1, <2>2 DEF PrintKey
<1>8. CASE PrintLine
  <2>0. scan.at = "line"
    BY <1>8 DEF PrintLine
  <2>1. CASE scan.i < table_size
    <3>. DEFINE key == AllKeys[scan.i + 1]
                keys == Append(scan.keys, key)
    <3>1. key \in Keys
      <4>1. AllKeys \in Seq(Keys) /\ scan.i + 1 \in 1 .. Len(AllKeys)
        BY <1>0, <1>1, <2>1 DEF Enumerates
      <4>. QED
        BY <4>1, ElementOfSeq
    <3>. HIDE DEF key
    <3>2. /\ keys \in Seq(Keys) /\ Len(keys) = Len(scan.keys) + 1
          /\ \A j \in 1 .. Len(scan.keys) : keys[j] = scan.keys[j]
          /\ keys[Len(scan.keys) + 1] = key
      BY <1>1, <3>1, AppendProperties
    <3>3. scan' = To("loop", scan.i + 1, scan.n_info, scan.room, keys)
      BY <1>1, <1>8, <2>1 DEF Scans, PrintLine, key
    <3>. HIDE DEF keys
    <3>4. ScanOK' /\ CopyInv' /\ Going("loop", scan.i + 1, scan.n_info, scan.room, keys)
      <4>. HIDE DEF To
      <4>. QED
        BY <1>1, <1>3, <3>2, <3>3 DEF Prints
    <3>5. /\ Len(keys) <= scan.i + 1
          /\ Grown \/ table_size <= scan.room
          /\ Grown \/ Len(keys) <= scan.room
      <4>1. Len(scan.keys) <= scan.i /\ (Grown \/ table_size <= scan.room)
        BY <2>0 DEF BreakInv
      <4>. QED
        BY <1>0, <1>1, <2>1, <3>2, <4>1
    <3>6. BreakInv'
      BY <1>0, <3>4, <3>5 DEF Going, BreakInv, Prints, Grown
    <3>7. ASSUME scan.disturbed = {}
          PROVE  /\ scan.room = table_size /\ scan.i + 1 <= table_size
                 /\ Len(keys) = scan.i + 1
                 /\ \A j \in 1 .. (scan.i + 1) : keys[j] = AllKeys[j]
      <4>1. /\ scan.room = table_size /\ Len(scan.keys) = scan.i
            /\ \A j \in 1 .. scan.i : scan.keys[j] = AllKeys[j]
        BY <2>0, <3>7 DEF ExactInv, Exact
      <4>2. \A j \in 1 .. (scan.i + 1) : j \in 1 .. scan.i \/ j = scan.i + 1
        BY <1>1
      <4>3. ASSUME NEW j \in 1 .. (scan.i + 1)
            PROVE  keys[j] = AllKeys[j]
        BY <3>2, <4>1, <4>2 DEF key
      <4>. QED
        BY <1>0, <1>1, <2>1, <3>2, <4>1, <4>3
    <3>8. ExactInv'
      BY <1>0, <3>4, <3>7 DEF Going, ExactInv, Exact, GetKeysWalk
    <3>. QED
      BY <3>4, <3>6, <3>8
  <2>2. CASE ~(scan.i < table_size)
    <3>1. scan' = [scan EXCEPT !.at = "crashed"]
      BY <1>8, <2>2 DEF PrintLine
    <3>2. scan' = To("crashed", scan.i, scan.n_info, scan.room, scan.keys)
      BY <1>1, <3>1 DEF Scans
    <3>3. ScanOK' /\ CopyInv' /\ Going("crashed", scan.i, scan.n_info, scan.room, scan.keys)
      <4>. HIDE DEF To
      <4>. QED
        BY <1>1, <1>3, <3>2
    <3>4. Shrunk
      BY <2>0, <2>2 DEF BreakInv
    <3>5. BreakInv'
      BY <3>3, <3>4 DEF Going, BreakInv, Prints, Shrunk
    <3>6. ExactInv'
      BY <3>3, <3>4 DEF Going, ExactInv, Shrunk
    <3>. QED
      BY <3>3, <3>5, <3>6
  <2>. QED
    BY <2>1, <2>2
<1>9. CASE PrintCount
  <2>1. scan.at = "count" /\ scan' = [scan EXCEPT !.at = "printed", !.n_info = table_size]
    BY <1>9 DEF PrintCount
  <2>2. scan' = To("printed", scan.i, table_size, scan.room, scan.keys)
    BY <1>1, <2>1 DEF Scans
  <2>3. ScanOK' /\ CopyInv' /\ Going("printed", scan.i, table_size, scan.room, scan.keys)
    <3>. HIDE DEF To
    <3>. QED
      BY <1>0, <1>1, <1>3, <2>2 DEF Prints
  <2>4. BreakInv'
    BY <2>1, <2>3 DEF Going, BreakInv, Prints, Grown
  <2>5. ASSUME scan.disturbed = {}
        PROVE  scan.room = table_size /\ Len(scan.keys) = table_size /\ scan.keys = AllKeys
    <3>1. /\ scan.room = table_size /\ Len(scan.keys) = table_size /\ scan.i = table_size
          /\ \A j \in 1 .. scan.i : scan.keys[j] = AllKeys[j]
      BY <2>1, <2>5 DEF ExactInv, Exact
    <3>2. scan.keys \in Seq(Keys) /\ AllKeys \in Seq(Keys) /\ Len(scan.keys) = Len(AllKeys)
          /\ \A j \in 1 .. Len(scan.keys) : scan.keys[j] = AllKeys[j]
      BY <1>0, <1>1, <3>1 DEF Enumerates
    <3>3. scan.keys = AllKeys
      BY <3>2, SeqEqual
    <3>. QED
      BY <3>1, <3>3
  <2>6. ExactInv'
    BY <1>0, <2>3, <2>5 DEF Going, ExactInv, Exact, GetKeysWalk
  <2>. QED
    BY <2>3, <2>4, <2>6
<1>. QED
  BY <1>4, <1>5, <1>6, <1>7, <1>8, <1>9 DEF PrintStep

\* A walk that is over leaves nothing to keep.
LEMMA EndScanKeeps ==
  ASSUME IInv, WalkInv, EndScan
  PROVE  WalkInv'
<1>1. lists' = lists /\ scan' = Idle /\ present' = {} /\ seen' = {}
  BY DEF EndScan, tableVars
<1>2. /\ scan'.at = "idle" /\ scan'.i = 0 /\ scan'.node = Empty /\ scan'.keys = <<>>
      /\ scan' \in Scans
  BY <1>1 DEF Idle, Scans
<1>. QED
  BY <1>1, <1>2 DEF WalkInv, ScanOK, CopyInv, BreakInv, ExactInv, Exact, GetKeysWalk, Prints

\* The invariants hold at the start.
LEMMA InitWalk == Init => IInv /\ WalkInv
<1>. SUFFICES ASSUME Init PROVE IInv /\ WalkInv
  OBVIOUS
<1>1. scan = Idle /\ present = {} /\ seen = {} /\ IInv
  BY InitTable DEF Init
<1>2. scan.at = "idle" /\ scan.i = 0 /\ scan.node = Empty /\ scan.keys = <<>> /\ scan \in Scans
  BY <1>1 DEF Idle, Scans
<1>. QED
  BY <1>1, <1>2 DEF WalkInv, ScanOK, CopyInv, BreakInv, ExactInv, Exact, GetKeysWalk, Prints

\* Every step keeps what the walks rest on.
LEMMA StepKeepsWalk == IInv /\ WalkInv /\ [Next]_vars => WalkInv'
<1>. SUFFICES ASSUME IInv, WalkInv, [Next]_vars PROVE WalkInv'
  OBVIOUS
<1>1. ASSUME NEW op \in Ops, Wrote(op)
      PROVE  WalkInv'
  <2>1. CopyInv' /\ BreakInv' /\ ExactInv'
    BY <1>1, CopyKeptByWrite, BreakKeptByWrite, ExactKeptByWrite
  <2>2. ScanOK'
    BY <1>1, Noticed DEF WalkInv
  <2>. QED
    BY <2>1, <2>2 DEF WalkInv
<1>4. CASE Ended
  <2>0. scan' = [at |-> "crashed", i |-> 0, node |-> Empty, nElements |-> 0, n_info |-> 0,
                 room |-> 0, keys |-> <<>>, writes |-> 0, disturbed |-> {"clash"}]
    BY <1>4 DEF Ended, Idle
  <2>1. /\ scan'.at = "crashed" /\ scan'.node = Empty /\ scan'.disturbed = {"clash"}
        /\ scan' \in Scans
    BY <2>0 DEF Scans
  <2>. QED
    BY <1>4, <2>1 DEF Ended, WalkInv, ScanOK, CopyInv, BreakInv, Shrunk, ExactInv, GetKeysWalk, Prints
<1>2. CASE WalkStep
  BY <1>2, StartScanKeeps, VisitSizeKeeps, SizeDoneKeeps, VisitKeysKeeps, CopyKeyKeeps,
     UseFreedKeeps, PrintStepKeeps, EndScanKeeps DEF WalkStep
<1>3. CASE UNCHANGED <<lists, scan, present, seen>>
  BY <1>3, SameTable DEF WalkInv, ScanOK, CopyInv, Copying, Behind, BreakInv, Shrunk, Grown,
     ExactInv, Exact, KeysBelow
<1>. QED
  BY <1>1, <1>2, <1>3, <1>4, StepKinds

\* The walks rest on what they have counted, on where they stand and on what
\* they have copied, whatever puts and dels do meanwhile.
THEOREM WalkInvariance == Spec => [](IInv /\ WalkInv)
<1>1. IInv /\ WalkInv /\ [Next]_vars => (IInv /\ WalkInv)'
  BY StepRefines, StepKeepsWalk
<1>. QED
  BY <1>1, InitWalk, PTL DEF Spec

-----------------------------------------------------------------------------
(* The walks: what they promise.                                           *)

AnswerOK == answer \in [op : {"none", "put", "del", "get"}, key : Keys,
                        result : {0, -1} \cup Values \cup {Empty}]

\* Every answer is one of table.h.
LEMMA AnswerTyped == IInv /\ AnswerOK /\ [Next]_vars => AnswerOK'
<1>. SUFFICES ASSUME IInv, AnswerOK, [Next]_vars PROVE AnswerOK'
  OBVIOUS
<1>1. ASSUME NEW key \in Keys, Get(key)
      PROVE  AnswerOK'
  <2>1. lists[hash[key]] \in Seq(Entries) /\ WellFormedList(hash[key], lists[hash[key]])
    BY TableAssumption DEF IInv, AllWellFormed
  <2>2. table_get(key) \in Values \cup {Empty}
    BY <2>1, GetEmpty DEF table_get
  <2>. QED
    BY <1>1, <2>2 DEF Get, AnswerOK
<1>2. ASSUME NEW key \in Keys,
             \/ \E value \in Values : PutNew(key, value) \/ PutRemove(key, value)
             \/ PutAdd(key) \/ Del(key) \/ DelMissing(key)
      PROVE  AnswerOK'
  BY <1>2 DEF PutNew, PutRemove, PutAdd, Del, DelMissing, AnswerOK
<1>3. CASE UNCHANGED answer
  BY <1>3 DEF AnswerOK
<1>4. WalkStep => UNCHANGED answer
  BY DEF WalkStep, StartScan, VisitSize, SizeDone, VisitKeys, CopyKey, UseFreed, EndScan, tableVars,
         PrintStep, PrintTest, PrintAllocate, PrintLoop, PrintKey, PrintLine, PrintCount, PrintGoes
<1>5. CASE Next
  <2>1. \A h \in Lists : Clash(h) \/ ClashCrashes(h) => UNCHANGED answer
    BY DEF Clash, ClashCrashes
  <2>. QED
    BY <1>1, <1>2, <1>3, <1>4, <1>5, <2>1 DEF Next, WalkStep
<1>6. CASE UNCHANGED vars
  BY <1>3, <1>6 DEF vars
<1>. QED
  BY <1>5, <1>6

\* The variables have their types: the walks number lists, places and elements,
\* stand on keys or on NULL, and every answer is one of table.h.
THEOREM TypeCorrectness == Spec => []TypeOK
<1>1. Init => AnswerOK
  BY DEF Init, AnswerOK
<1>2. Spec => []AnswerOK
  BY <1>1, AnswerTyped, Invariance, PTL DEF Spec
<1>3. IInv /\ WalkInv /\ AnswerOK => TypeOK
  BY DEF IInv, WalkInv, ScanOK, AnswerOK, TypeOK
<1>. QED
  BY <1>2, <1>3, WalkInvariance, PTL

\* getkeys, while puts and dels change the lists that it goes through, returns
\* every key that was there all the time, once, and no key that was never there
\* (table_get_keys and list_get_keys), as long as no two writers have been in one
\* list.
THEOREM WalksAreWeaklyConsistent == Spec => []KeysWeaklyConsistent
<1>1. ASSUME IInv, WalkInv
      PROVE  KeysWeaklyConsistent
  <2>. SUFFICES ASSUME WalkOver, scan.at = "copy"
                PROVE  /\ present \subseteq ToSet(scan.keys)
                       /\ ToSet(scan.keys) \subseteq seen
                       /\ \A i, j \in DOMAIN scan.keys :
                            scan.keys[i] = scan.keys[j] /\ i # j => scan.keys[i] \notin present
    BY DEF KeysWeaklyConsistent
  <2>1. /\ Copying /\ present \subseteq TableKeys(lists) /\ scan.i = numberLists
        /\ scan.keys \in Seq(Keys)
    BY <1>1 DEF WalkInv, CopyInv, GetKeysWalk, WalkOver, ScanOK, Scans
  <2>2. DOMAIN scan.keys = 1 .. Len(scan.keys)
    BY <2>1, LenProperties
  <2>3. ToSet(scan.keys) = {scan.keys[j] : j \in 1 .. Len(scan.keys)}
    BY <2>2 DEF ToSet
  <2>4. ASSUME NEW k \in present
        PROVE  k \in Behind
    <3>1. k \in TableKeys(lists) /\ hash[k] \in Lists
      BY <2>1, TableAssumption DEF TableKeys
    <3>. QED
      BY <2>1, <3>1, TableAssumption DEF Behind, Lists
  <2>. QED
    BY <2>1, <2>2, <2>3, <2>4 DEF Copying
<1>2. IInv /\ WalkInv => KeysWeaklyConsistent
  BY <1>1
<1>. QED
  BY <1>2, WalkInvariance, PTL

\* A clash that a walk has noticed is on record.
ClashNoted == "clash" \in scan.disturbed => clashed # {}

LEMMA ClashNotedKept == IInv /\ WalkInv /\ ClashNoted /\ [Next]_vars => ClashNoted'
<1>. SUFFICES ASSUME IInv, WalkInv, ClashNoted, [Next]_vars PROVE ClashNoted'
  OBVIOUS
<1>0. scan \in Scans
  BY DEF WalkInv, ScanOK
<1>1. ASSUME NEW op \in Ops, NEW table, Notice(table, op), clashed' = clashed, op # "clash"
      PROVE  ClashNoted'
  BY <1>0, <1>1 DEF Notice, ClashNoted, Scans
<1>2. ASSUME NEW key \in Keys,
             \/ \E value \in Values : PutNew(key, value) \/ PutRemove(key, value)
             \/ PutAdd(key) \/ Del(key)
      PROVE  ClashNoted'
  BY <1>1, <1>2 DEF PutNew, PutRemove, PutAdd, Del, NoteWrite, Ops
<1>3. ASSUME NEW key \in Keys, DelMissing(key) \/ Get(key)
      PROVE  ClashNoted'
  BY <1>3 DEF DelMissing, Get, scanVars, ClashNoted
<1>4. ASSUME NEW h \in Lists, Clash(h) \/ ClashCrashes(h)
      PROVE  ClashNoted'
  BY <1>4 DEF Clash, ClashCrashes, ClashNoted
<1>5. CASE \/ \E walk \in {"size", "n_info", "print"} : StartScan(walk)
           \/ EndScan
  BY <1>5 DEF StartScan, EndScan, Idle, ClashNoted
<1>6. CASE VisitSize \/ SizeDone \/ UseFreed
  BY <1>0, <1>6 DEF VisitSize, SizeDone, UseFreed, tableVars, ClashNoted, Scans
<1>7. CASE VisitKeys \/ CopyKey
  BY <1>0, <1>7 DEF VisitKeys, CopyKey, GoToNode, tableVars, ClashNoted, Scans
<1>8. CASE PrintStep
  <2>1. scan'.disturbed = scan.disturbed /\ clashed' = clashed
    BY <1>0, <1>8 DEF PrintStep, PrintTest, PrintAllocate, PrintLoop, PrintKey, PrintLine,
       PrintCount, PrintGoes, tableVars, Scans
  <2>. QED
    BY <2>1 DEF ClashNoted
<1>9. CASE Next
  BY <1>2, <1>3, <1>4, <1>5, <1>6, <1>7, <1>8, <1>9 DEF Next
<1>10. CASE UNCHANGED vars
  BY <1>10 DEF vars, ClashNoted
<1>. QED
  BY <1>9, <1>10

\* As long as no two writers have been in one list, a walk ends the process only
\* if a put or del has taken an entry out meanwhile, and table_print passes the
\* end of its array only if one was added.
THEOREM WalksBreakOnlyWhenDisturbed == Spec => []WalksBreakOnlyIfDisturbed
<1>1. IInv /\ WalkInv /\ ClashNoted => WalksBreakOnlyIfDisturbed
  <2>. SUFFICES ASSUME WalkInv, ClashNoted, clashed = {}
                PROVE  /\ scan.at = "crashed" => scan.disturbed \cap {"del", "replace"} # {}
                       /\ scan.at \in Prints /\ Len(scan.keys) > scan.room =>
                            scan.disturbed \cap {"new", "replace"} # {}
    BY DEF WalksBreakOnlyIfDisturbed
  <2>1. scan.at \in Prints => Grown \/ Len(scan.keys) <= scan.room
    BY DEF WalkInv, BreakInv
  <2>2. scan.room \in Nat /\ Len(scan.keys) \in Nat
    BY LenProperties DEF WalkInv, ScanOK, Scans
  <2>3. scan.at = "crashed" => Shrunk
    BY DEF WalkInv, BreakInv
  <2>4. "clash" \notin scan.disturbed
    BY DEF ClashNoted
  <2>. QED
    BY <2>1, <2>2, <2>3, <2>4 DEF Shrunk, Grown
<1>2. Init => ClashNoted
  BY DEF Init, Idle, ClashNoted
<1>3. Spec => []ClashNoted
  BY <1>2, ClashNotedKept, WalkInvariance, PTL DEF Spec
<1>. QED
  BY <1>1, <1>3, WalkInvariance, PTL

\* A size, getkeys or table_print that no put or del disturbs tells the table:
\* its number of keys, and every key once, in an array of room, as long as no two
\* writers have been in one list.
THEOREM UndisturbedWalksAreExact == Spec => []ScanExact
<1>1. ASSUME IInv, WalkInv
      PROVE  ScanExact
  <2>. SUFFICES ASSUME WalkOver, scan.disturbed = {}
                PROVE  IF scan.at = "size"
                         THEN scan.nElements = Cardinality(TableKeys(lists))
                         ELSE /\ ToSet(scan.keys) = TableKeys(lists)
                              /\ Len(scan.keys) = Cardinality(TableKeys(lists))
                              /\ scan.n_info = Len(scan.keys)
                              /\ scan.room = Len(scan.keys)
    BY DEF ScanExact
  <2>1. Exact /\ Listed
    BY <1>1, TableSize DEF WalkInv, ExactInv
  <2>2. CASE scan.at = "size"
    BY <2>1, <2>2, FirstAndLast DEF Exact, WalkOver
  <2>3. CASE scan.at = "printed"
    <3>1. /\ Enumerates(scan.keys, TableKeys(lists))
          /\ scan.n_info = Len(scan.keys) /\ scan.room = Len(scan.keys)
      BY <2>1, <2>3 DEF Exact
    <3>. QED
      BY <2>3, <3>1, EnumeratedSet, EnumeratedCount
  <2>4. CASE scan.at = "copy"
    <3>1. /\ Copying /\ present \subseteq TableKeys(lists) /\ TableKeys(lists) \subseteq seen
          /\ seen \subseteq present /\ scan.keys \in Seq(Keys)
          /\ scan.n_info = table_size /\ scan.room = table_size /\ scan.i = numberLists
      BY <1>1, <2>1, <2>4 DEF WalkInv, CopyInv, GetKeysWalk, Exact, WalkOver, ScanOK, Scans
    <3>2. present = TableKeys(lists) /\ seen = TableKeys(lists)
      BY <3>1
    <3>3. ASSUME NEW k \in TableKeys(lists)
          PROVE  k \in Behind
      <4>1. hash[k] \in Lists
        BY TableAssumption DEF TableKeys
      <4>. QED
        BY <3>1, <4>1, TableAssumption DEF Behind, Lists
    <3>4. \A i, j \in 1 .. Len(scan.keys) : scan.keys[i] = scan.keys[j] => i = j
      BY <3>1, <3>2 DEF Copying
    <3>5. Enumerates(scan.keys, TableKeys(lists))
      BY <3>1, <3>2, <3>3, <3>4 DEF Copying, Enumerates
    <3>. QED
      BY <2>1, <2>4, <3>1, <3>5, EnumeratedSet, EnumeratedCount DEF Listed
  <2>. QED
    BY <2>2, <2>3, <2>4 DEF WalkOver
<1>2. IInv /\ WalkInv => ScanExact
  BY <1>1
<1>. QED
  BY <1>2, WalkInvariance, PTL

=============================================================================
