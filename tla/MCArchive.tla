------------------------------ MODULE MCArchive ------------------------------
(* Small instances of Archive: block numbers with and without block 0. *)
EXTENDS Archive

BlocksFromOne == 1..6
BlocksFromZero == 0..5

\* A chain: block 0 first, then each block once and in order.
Chain ==
    Init /\ [][\E b \in Block, s \in Snapshot :
                b = (IF hasBlocks THEN maxBlock + 1 ELSE 0) /\ addBlock(b, s)]_archiveVars
=============================================================================
