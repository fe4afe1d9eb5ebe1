---------------------------- MODULE ReplicatedMap ----------------------------
(***************************************************************************)
(* What the service of a primary and its backup promises: a map from keys  *)
(* to data, and a copy of it that is always ahead.  Data come into the map *)
(* only from the copy, one write of a key at a time, and a copy that has   *)
(* been brought up to date lacks nothing.  A copy that is being brought up *)
(* to date holds no other data than the map's, and no write gets between.  *)
(*                                                                         *)
(* The promise is off when threads have met where they must not: any step  *)
(* is then allowed.                                                        *)
(***************************************************************************)
CONSTANTS
  Keys,
  Values,
  Empty   \* no data: the key is not in the map

VARIABLES
  map,    \* what the primary has of every key
  copy,   \* what the last backup has
  ahead,  \* the writes that the backup has stored and the primary has not
  mode    \* "alone": there is no copy, or it is not up to date; "paired";
          \* "over": the primary has ended; "spoilt": the promise is off

mapVars == <<map, copy, ahead, mode>>

Nothing == [k \in Keys |-> Empty]
Data == Values \cup {Empty}
Writes == [key : Keys, value : Data]
Modes == {"alone", "paired", "over", "spoilt"}

Init ==
  /\ map = Nothing
  /\ copy = Nothing
  /\ ahead = {}
  /\ mode = "alone"

Serving == mode \in {"alone", "paired"}

\* The backup stores a write: data, or Empty for a del.
Store(w) ==
  /\ Serving
  /\ \A x \in ahead : x.key # w.key
  /\ copy' = [copy EXCEPT ![w.key] = w.value]
  /\ ahead' = ahead \cup {w}
  /\ UNCHANGED <<map, mode>>

\* Then the primary does, and readers see it.
Commit(w) ==
  /\ Serving
  /\ w \in ahead
  /\ map' = [map EXCEPT ![w.key] = w.value]
  /\ ahead' = ahead \ {w}
  /\ UNCHANGED <<copy, mode>>

\* A backup joins with an empty table ...
Join ==
  /\ mode = "alone"
  /\ copy' = Nothing
  /\ UNCHANGED <<map, ahead, mode>>

\* ... gets the map, one key after the other, while nothing is written ...
CatchUp(k) ==
  /\ mode = "alone"
  /\ ahead = {}
  /\ copy' = [copy EXCEPT ![k] = map[k]]
  /\ UNCHANGED <<map, ahead, mode>>

\* ... and is a copy when it lacks nothing.
Pair ==
  /\ mode = "alone"
  /\ ahead = {}
  /\ copy = map
  /\ mode' = "paired"
  /\ UNCHANGED <<map, copy, ahead>>

\* The backup dies; its table is what the promise speaks of no longer.
Lose ==
  /\ mode = "paired"
  /\ mode' = "alone"
  /\ UNCHANGED <<map, copy, ahead>>

\* The primary ends, which neither table notices.
End ==
  /\ Serving
  /\ mode' = "over"
  /\ UNCHANGED <<map, copy, ahead>>

Spoil ==
  /\ mode' = "spoilt"
  /\ map' \in [Keys -> Data]
  /\ copy' \in [Keys -> Data]
  /\ ahead' \subseteq Writes

Next ==
  \/ \E w \in Writes : Store(w) \/ Commit(w)
  \/ Join
  \/ \E k \in Keys : CatchUp(k)
  \/ Pair
  \/ Lose
  \/ End
  \/ Spoil

Spec == Init /\ [][Next]_mapVars

=============================================================================
