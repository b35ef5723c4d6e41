------------------------------- MODULE VTState -------------------------------
(***************************************************************************)
(* States with their archive, snapshots and restores: memory/state.go.     *)
(*                                                                         *)
(* A handle is a variable of the caller that can hold a *State.  Main      *)
(* holds the state made by NewState; the other handles are filled by       *)
(* GetArchiveState and share Main's archive.  Nothing makes these          *)
(* archived states read-only, so that every operation is possible on       *)
(* every handle, in any order.                                             *)
(*                                                                         *)
(* The trie of a state is the map from keys to values of AccountCells.  A  *)
(* commitment is binding, and tells keys that were set to zero from keys   *)
(* that were never set: it is represented by that map itself.  In the      *)
(* serialized form of a trie the order of the entries is left out.         *)
(***************************************************************************)
EXTENDS AccountCells, FiniteSets

CONSTANTS
    Handle,           \* the callers' variables of type *State
    Main,             \* the one that NewState's result is kept in
    Block,            \* the block numbers in use
    MaxSize,          \* archiveMaxSize: blocks to keep, 0 = unlimited
    SampledAddress,   \* bytes 1 to 19 are zero
    SampledSlot,      \* the slots 0 to 255
    SampledChunk      \* the chunks 0 to 1023

ASSUME VTStateAssumption ==
    /\ Main \in Handle
    /\ Block \subseteq Nat
    /\ MaxSize \in Nat
    /\ SampledAddress \subseteq Address
    /\ SampledSlot \subseteq Slot
    /\ SampledChunk \subseteq ChunkNumber

VARIABLES
    states,        \* handle -> [cells, writtenSlots], for handles in use
    held,          \* the snapshot that a caller took last, as a set
    snapshots,     \* the fields of the archive: see module Archive
    maxBlock,
    hasBlocks,
    oldestBlock,
    left           \* history: block -> the cells its last Apply left behind

archiveVars == <<snapshots, maxBlock, hasBlocks, oldestBlock>>
vars == <<states, held, archiveVars, left>>

Archived == INSTANCE Archive WITH Snapshot <- {}

NoCells == [k \in TreeKey |-> Unset]

\* newState
NewState == [cells |-> NoCells, writtenSlots |-> {}]

Init ==
    /\ states = [h \in {Main} |-> NewState]
    /\ held = {}
    /\ Archived!Init
    /\ left = [b \in {} |-> NoCells]

-----------------------------------------------------------------------------
(* Snapshots.                                                              *)

\* The keys that serializeTrie looks at.
SampledKey ==
    UNION {{getBasicDataKey(a), getCodeHashKey(a)}
                \cup {getStorageKey(a, k) : k \in SampledSlot}
                \cup {getCodeChunkKey(a, n) : n \in SampledChunk} :
           a \in SampledAddress}

\* Variant of serializeTrie that leaves out the chunks of code.
serializeTrieNoCode(c) ==
    [k \in {x \in SampledKey : Get(c, x) # Zero /\ \A a \in Address, n \in ChunkNumber :
                                    x # getCodeChunkKey(a, n)} |-> Get(c, k)]

\* The entries of the sampled keys whose values are not zero.
serializeTrie(c) == [k \in {x \in SampledKey : Get(c, x) # Zero} |-> Get(c, k)]

\* The trie after the entries were set in an empty one.
deserializeTrie(d) ==
    [k \in TreeKey |-> IF k \in DOMAIN d THEN d[k] ELSE Unset]

\* CreateSnapshot of a state with the trie c.
SnapshotOf(c) == [commitment |-> c, data |-> serializeTrie(c)]

\* Whether Restore accepts snapshot s.
Restorable(s) == deserializeTrie(s.data) = s.commitment

-----------------------------------------------------------------------------
(* Operations.                                                             *)

\* The history after block b left the cells c behind.
Leaving(b, c) ==
    [x \in (DOMAIN left \cap DOMAIN snapshots') \cup {b} |->
        IF x = b THEN c ELSE left[x]]

\* Variant of Apply that archives the state it found.
ApplyArchiveFirst(h, b, u) ==
    /\ h \in DOMAIN states
    /\ LET after == Applied(states[h].cells, u) IN
        /\ states' = [states EXCEPT ![h] =
                        [cells |-> after, writtenSlots |-> Tracked(@.writtenSlots, u)]]
        /\ Archived!addBlock(b, SnapshotOf(states[h].cells))
        /\ left' = Leaving(b, after)
    /\ UNCHANGED held

\* Apply: the update, then archiveCurrentState.
Apply(h, b, u) ==
    /\ h \in DOMAIN states
    /\ LET after == Applied(states[h].cells, u) IN
        /\ states' = [states EXCEPT ![h] =
                        [cells |-> after, writtenSlots |-> Tracked(@.writtenSlots, u)]]
        /\ Archived!addBlock(b, SnapshotOf(after))
        /\ left' = Leaving(b, after)
    /\ UNCHANGED held

\* The handles after h got a new state with the trie c.
Opened(h, c) ==
    [g \in DOMAIN states \cup {h} |->
        IF g = h THEN [cells |-> c, writtenSlots |-> {}] ELSE states[g]]

\* Variant of GetArchiveState that does not compare commitments.
GetArchiveStateUnchecked(h, b) ==
    /\ h # Main
    /\ b \in DOMAIN snapshots
    /\ states' = Opened(h, deserializeTrie(snapshots[b].data))
    /\ UNCHANGED <<held, archiveVars, left>>

\* GetArchiveState restores the snapshot of block b in a new state, which
\* is kept in handle h.  If it reports an error nothing has changed.
GetArchiveState(h, b) ==
    /\ h # Main
    /\ b \in DOMAIN snapshots
    /\ Restorable(snapshots[b])
    /\ states' = Opened(h, deserializeTrie(snapshots[b].data))
    /\ UNCHANGED <<held, archiveVars, left>>

CreateSnapshot(h) ==
    /\ h \in DOMAIN states
    /\ held' = {SnapshotOf(states[h].cells)}
    /\ UNCHANGED <<states, archiveVars, left>>

\* Restore replaces the trie first and compares commitments afterwards: if
\* it reports an error, the trie is replaced all the same.  The slots that
\* are tracked and the archive stay as they are.
Restore(h) ==
    /\ h \in DOMAIN states
    /\ \E s \in held :
        states' = [states EXCEPT ![h].cells = deserializeTrie(s.data)]
    /\ UNCHANGED <<held, archiveVars, left>>

Next ==
    \E h \in Handle :
        \/ \E b \in Block, u \in Update : Apply(h, b, u)
        \/ \E b \in Block : GetArchiveState(h, b)
        \/ CreateSnapshot(h)
        \/ Restore(h)

Spec == Init /\ [][Next]_vars

-----------------------------------------------------------------------------
(* Properties.                                                             *)

\* Types: Main always holds a state, and the trie of a state is total.
TypeOK ==
    /\ DOMAIN states \subseteq Handle
    /\ Main \in DOMAIN states
    /\ \A h \in DOMAIN states :
        /\ DOMAIN states[h] = {"cells", "writtenSlots"}
        /\ DOMAIN states[h].cells = TreeKey
        /\ states[h].writtenSlots \subseteq Address \X Slot
    /\ \A s \in held : DOMAIN s = {"commitment", "data"}

\* What the archive has for a block is a snapshot of the trie that the last
\* Apply of this block left behind, whatever happened to any state since:
\* restores, other blocks, updates of archived states.
ArchiveMatchesHistory ==
    /\ DOMAIN snapshots \subseteq DOMAIN left
    /\ \A b \in DOMAIN snapshots : snapshots[b] = SnapshotOf(left[b])

\* GetArchiveState never returns a state that differs from the one the
\* block left behind: where the samples in the snapshot are not all there
\* was, it reports an error.
ViewIsBlockState ==
    [][\A h \in Handle, b \in Block :
        GetArchiveState(h, b) => states'[h].cells = left[b]]_vars

\* Exactly when a block can be restored: every key that was ever set is
\* among the samples and is not zero.
RestorableExactly ==
    \A b \in DOMAIN snapshots :
        Restorable(snapshots[b]) <=>
            \A k \in TreeKey : left[b][k] # Unset =>
                k \in SampledKey /\ left[b][k] # Zero

\* README.md: "GetArchiveState(block)" "Retrieves historical state for any
\* archived block".
ArchivedAreServed ==
    \A b \in DOMAIN snapshots : Restorable(snapshots[b])

\* README.md: "Empty storage detection - Tracks all written slots
\* accurately".  HasEmptyStorage is right about every state there is.
EmptyStorageExact ==
    \A h \in DOMAIN states :
        \A a \in Address :
            HasEmptyStorage(states[h].cells, states[h].writtenSlots, a)
                <=> \A k \in Slot : GetStorage(states[h].cells, a, k) = Zero
=============================================================================
