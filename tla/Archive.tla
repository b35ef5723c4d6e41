------------------------------- MODULE Archive -------------------------------
(***************************************************************************)
(* The archive of block snapshots: vtArchive in memory/state.go.  Apply    *)
(* adds one snapshot per block to it, archived views share it, and nothing *)
(* orders the block numbers.                                               *)
(***************************************************************************)
EXTENDS Naturals, FiniteSets, FiniteSetsExt, Functions

CONSTANTS
    Block,      \* the block numbers in use (uint64)
    Snapshot,   \* the snapshots in use
    MaxSize     \* vtArchive.maxSize: blocks to keep, 0 = unlimited

ASSUME ArchiveAssumption ==
    /\ Block \subseteq Nat
    /\ MaxSize \in Nat

VARIABLES
    snapshots,    \* block -> snapshot
    maxBlock,     \* highest block number stored
    hasBlocks,    \* whether any block was archived
    oldestBlock   \* the block to prune next

archiveVars == <<snapshots, maxBlock, hasBlocks, oldestBlock>>

-----------------------------------------------------------------------------

\* newVtArchive
Init ==
    /\ snapshots = [b \in {} |-> b]
    /\ maxBlock = 0
    /\ hasBlocks = FALSE
    /\ oldestBlock = 0

\* Variant of Highest: the block added last counts as the highest.
HighestIsLast(b) == b

\* maxBlock after block b was stored.
Highest(b) == IF ~ hasBlocks \/ b > maxBlock THEN b ELSE maxBlock

\* oldestBlock after block b was stored.  Zero stands for "not set yet",
\* although it is a block number too.  The code's first disjunct,
\* !a.hasBlocks, is never true: the flag was set a few lines above.
Oldest(b) == IF b < oldestBlock \/ oldestBlock = 0 THEN b ELSE oldestBlock

\* Variant of Exceeds with the comparison off by one.
ExceedsAtSize(S) == MaxSize > 0 /\ Cardinality(S) >= MaxSize

\* Whether the blocks in S are more than the archive keeps.
Exceeds(S) == MaxSize > 0 /\ Cardinality(S) > MaxSize

\* The oldest of the blocks in S, found by a loop that starts at max.
NewOldest(S, max) == Min(S \cup {max})

\* pruneOldest, on the fields as addBlock has updated them.
pruneOldest(stored, max, oldest) ==
    LET kept == DOMAIN stored \ {oldest} IN
    /\ snapshots' = Restrict(stored, kept)
    /\ oldestBlock' = NewOldest(kept, max)

\* The map f with f[b] = s.
Stored(f, b, s) == [c \in DOMAIN f \cup {b} |-> IF c = b THEN s ELSE f[c]]

addBlock(b, s) ==
    LET stored == Stored(snapshots, b, s) IN
    /\ maxBlock' = Highest(b)
    /\ hasBlocks' = TRUE
    /\ IF Exceeds(DOMAIN stored)
       THEN pruneOldest(stored, Highest(b), Oldest(b))
       ELSE snapshots' = stored /\ oldestBlock' = Oldest(b)

Next == \E b \in Block, s \in Snapshot : addBlock(b, s)

Spec == Init /\ [][Next]_archiveVars

-----------------------------------------------------------------------------
(* Properties.                                                             *)

\* Types: the blocks of the archive and their snapshots.
TypeOK ==
    /\ DOMAIN snapshots \subseteq Block
    /\ \A b \in DOMAIN snapshots : snapshots[b] \in Snapshot
    /\ maxBlock \in Block \cup {0}
    /\ oldestBlock \in Block \cup {0}
    /\ hasBlocks \in BOOLEAN

\* Every prune removes a block, so that the archive never outgrows maxSize:
\* the block that oldestBlock names is there to be deleted, in whatever
\* order blocks arrive, and a deleted block is never named again.
Bounded ==
    /\ MaxSize > 0 => Cardinality(DOMAIN snapshots) <= MaxSize
    /\ hasBlocks => oldestBlock \in DOMAIN snapshots

\* "getBlockHeight returns the highest archived block number": the height
\* that GetArchiveBlockHeight reports is one GetArchiveState can serve.
HeightArchived ==
    hasBlocks => /\ maxBlock \in DOMAIN snapshots
                 /\ \A b \in DOMAIN snapshots : b <= maxBlock

\* What is pruned next is the oldest block there is.
OldestIsMin ==
    hasBlocks => /\ oldestBlock \in DOMAIN snapshots
                 /\ \A b \in DOMAIN snapshots : oldestBlock <= b

\* The archive keeps the newest blocks and the last snapshot of each.
Kept == INSTANCE Retention WITH kept <- snapshots

RefinesRetention == Kept!Spec
=============================================================================
