---------------------------- MODULE MCSnapshotSync ----------------------------
(***************************************************************************)
(* Small instances of SnapshotSync: two keys that snapshots look at and    *)
(* one that they do not, which the receiving state may hold.               *)
(***************************************************************************)
EXTENDS SnapshotSync, TLC

CONSTANTS k1, k2, k3, v

MCWrites == {<<k1, v>>, <<k2, v>>, <<k1, Zero>>}

MCBefore == {Empty, [Empty EXCEPT ![k3] = v, ![k1] = v]}
=============================================================================
