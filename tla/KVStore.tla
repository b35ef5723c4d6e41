------------------------------ MODULE KVStore ------------------------------
(***************************************************************************)
(* What a Verkle trie promises about its content, whatever the shape of    *)
(* its nodes: a map from fixed-size keys to values, where a key that was   *)
(* never set is told apart from one that was set to zero (only the latter  *)
(* carries the "used" marker that enters the commitment), and where a      *)
(* write changes the one key it names.                                     *)
(***************************************************************************)
CONSTANTS
    Key,     \* the keys in use
    Value,   \* the values that can be stored
    Unset    \* marks a key that was never set

VARIABLE store   \* store[k] is the value of k, or Unset

Init == store = [k \in Key |-> Unset]

Set(k, v) == store' = [store EXCEPT ![k] = v]

Next == \E k \in Key, v \in Value : Set(k, v)

Spec == Init /\ [][Next]_store
=============================================================================
