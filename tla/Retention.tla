------------------------------ MODULE Retention ------------------------------
(***************************************************************************)
(* What the archive of block snapshots promises: it keeps the snapshots of *)
(* the MaxSize newest blocks it was given, newest by block number, however *)
(* they arrive.                                                            *)
(***************************************************************************)
EXTENDS Naturals, FiniteSets

CONSTANTS
    Block,      \* block numbers
    Snapshot,   \* snapshots
    MaxSize     \* how many blocks to keep, 0 for all of them

VARIABLE kept   \* block -> snapshot

\* The MaxSize largest members of B.
Newest(B) ==
    {b \in B : MaxSize = 0 \/ Cardinality({c \in B : c >= b}) <= MaxSize}

Init == kept = [b \in {} |-> b]

Add(b, s) ==
    kept' = [c \in Newest(DOMAIN kept \cup {b}) |->
                IF c = b THEN s ELSE kept[c]]

Next == \E b \in Block, s \in Snapshot : Add(b, s)

Spec == Init /\ [][Next]_kept
=============================================================================
