-------------------------------- MODULE LRU --------------------------------
(***************************************************************************)
(* The bounded least-recently-used map of the cachetools library, as       *)
(* TileCache and FilterCache use it: get refreshes an entry, an assignment *)
(* inserts or refreshes it and evicts the stalest entry of a full map, pop *)
(* removes it.                                                             *)
(*                                                                         *)
(* A recency order is kept as ages: age[k] is the number of entries used   *)
(* more recently than k, and MaxSize says that k is not in the map.        *)
(* Refreshing an entry and inserting one are then the same operation, and  *)
(* the entry that reaches age MaxSize is the one that is evicted.          *)
(***************************************************************************)
EXTENDS Integers

CONSTANTS Keys,     \* what the map may be asked for
          MaxSize   \* its maxsize argument

ASSUME LRUAssumption == MaxSize \in Nat \ {0}

Ages == 0 .. MaxSize

Holds(age, k) == age[k] < MaxSize

NothingHeld == [k \in Keys |-> MaxSize]

Use(age, k) ==
  [j \in Keys |-> IF j = k THEN 0
                  ELSE IF age[j] < age[k] THEN age[j] + 1
                  ELSE age[j]]

Forget(age, k) ==
  [j \in Keys |-> IF j = k THEN MaxSize
                  ELSE IF age[k] < age[j] /\ Holds(age, j) THEN age[j] - 1
                  ELSE age[j]]

\* No two entries have one age, and no age is left out.
RecencyOrder(age) ==
  /\ \A i, j \in Keys : Holds(age, i) /\ age[i] = age[j] => i = j
  /\ \A j \in Keys : Holds(age, j) => \A n \in 0 .. age[j] - 1 : \E i \in Keys : age[i] = n

\* The contents vals of a map once its ages are age: what was evicted is gone.
Kept(age, vals, gone) ==
  [k \in Keys |-> IF Holds(age, k) THEN vals[k] ELSE gone]
============================================================================
