-------------------------------- MODULE KVMap --------------------------------
(***************************************************************************)
(* What table.h promises: a map from keys to data.  put adds the key or    *)
(* replaces its data, del removes it and says whether it was there, get    *)
(* returns a copy of the data.                                             *)
(*                                                                         *)
(* Of the data of the keys over which two writers have met, nothing is     *)
(* promised.                                                               *)
(***************************************************************************)
EXTENDS Integers

CONSTANTS
  Keys,
  Values,
  Empty   \* no data: what get returns for a key that is not in the table

VARIABLES
  map,      \* the data of every key, Empty if it is not in the table
  answer,   \* the last operation on one key and what it returned
  doubtful  \* the keys whose data may be lost or changed

mapVars == <<map, answer, doubtful>>

Outcomes == {0, -1} \cup Values \cup {Empty}
Answers == [op : {"none", "put", "del", "get"}, key : Keys, result : Outcomes]

Init ==
  /\ map = [k \in Keys |-> Empty]
  /\ \E k \in Keys : answer = [op |-> "none", key |-> k, result |-> 0]
  /\ doubtful = {}

Put(k, v) ==
  /\ answer' = [op |-> "put", key |-> k, result |-> 0]
  /\ map' = [map EXCEPT ![k] = v]
  /\ UNCHANGED doubtful

Del(k) ==
  /\ answer' = [op |-> "del", key |-> k,
                result |-> IF map[k] = Empty THEN -1 ELSE 0]
  /\ map' = [map EXCEPT ![k] = Empty]
  /\ UNCHANGED doubtful

Get(k) ==
  /\ answer' = [op |-> "get", key |-> k, result |-> map[k]]
  /\ UNCHANGED <<map, doubtful>>

\* Two writers meet over some keys: each of these keys has then some data or
\* none.  The other keys keep their data.
Clash ==
  /\ UNCHANGED answer
  /\ doubtful \subseteq doubtful' /\ doubtful' \subseteq Keys
  /\ \A k \in Keys :
       IF k \in doubtful' THEN map'[k] \in Values \cup {Empty} ELSE map'[k] = map[k]
  /\ map' = [k \in Keys |-> map'[k]]

Next ==
  \/ \E k \in Keys :
       \/ \E v \in Values : Put(k, v)
       \/ Del(k)
       \/ Get(k)
  \/ Clash

Spec == Init /\ [][Next]_mapVars

=============================================================================
