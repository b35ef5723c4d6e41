---------------------------- MODULE VTStateProofs ----------------------------
(***************************************************************************)
(* What VTState promises about archived blocks, for any number of handles, *)
(* accounts, blocks and updates; and that the archive behind the handles   *)
(* is the Archive of the module of that name, so that what is proved there *)
(* holds for it.                                                           *)
(***************************************************************************)
EXTENDS VTState, TLAPS

\* c is the content of a trie.
Total(c) == c = [k \in TreeKey |-> c[k]]

-----------------------------------------------------------------------------
(* Cells.                                                                  *)

\* Setting cells gives the content of a trie again.
LEMMA PutTotal ==
    ASSUME NEW c, NEW f, Total(c)
    PROVE  Total(Put(c, f))
BY DEF Total, Put

\* Apply gives the content of a trie, whatever it sets.
LEMMA AppliedTotal ==
    ASSUME NEW c, NEW u, Total(c)
    PROVE  Total(Applied(c, u))
<1>1. Total(Created(c, u))
  BY PutTotal DEF Created
<1>2. Total(Nonced(Created(c, u), u))
  BY <1>1, PutTotal DEF Nonced
<1>3. Total(Balanced(Nonced(Created(c, u), u), u))
  BY <1>2, PutTotal DEF Balanced
<1>4. Total(Slotted(Balanced(Nonced(Created(c, u), u), u), u))
  BY <1>3, PutTotal DEF Slotted
<1> QED
  BY <1>4, PutTotal DEF Applied, Coded

\* Entries make the content of a trie.
LEMMA DeserializedTotal == \A d : Total(deserializeTrie(d))
BY DEF Total, deserializeTrie

\* Writing the samples down and reading them back gives the same trie just
\* when they are all there is.
LEMMA RoundTrip ==
    ASSUME NEW c, Total(c)
    PROVE  deserializeTrie(serializeTrie(c)) = c <=>
                \A k \in TreeKey : c[k] # Unset => k \in SampledKey /\ c[k] # Zero
<1> DEFINE back == deserializeTrie(serializeTrie(c))
<1>1. \A k \in TreeKey : back[k] = IF k \in SampledKey /\ Get(c, k) # Zero
                                   THEN Get(c, k) ELSE Unset
  BY DEF deserializeTrie, serializeTrie
<1>2. Total(back)
  BY DeserializedTotal
<1> HIDE DEF back
<1>3. back = c <=> \A k \in TreeKey : back[k] = c[k]
  BY <1>2 DEF Total
<1>4. ASSUME NEW k \in TreeKey
      PROVE  back[k] = c[k] <=> (c[k] # Unset => k \in SampledKey /\ c[k] # Zero)
  BY <1>1 DEF Get
<1>5. back = c <=>
        \A k \in TreeKey : c[k] # Unset => k \in SampledKey /\ c[k] # Zero
  BY <1>3, <1>4
<1> QED
  BY <1>5 DEF back

-----------------------------------------------------------------------------
(* The inductive invariant.                                                *)

\* Besides the types: every content there is a total map, and snapshots
\* are what CreateSnapshot makes of the contents in the history.
IInv ==
    /\ TypeOK
    /\ \A h \in DOMAIN states : Total(states[h].cells)
    /\ \A b \in DOMAIN left : Total(left[b])
    /\ ArchiveMatchesHistory

LEMMA InitIInv == Init => IInv
<1> SUFFICES ASSUME Init PROVE IInv
  OBVIOUS
<1>1. Total(NoCells)
  BY DEF Total, NoCells
<1>2. DOMAIN states = {Main} /\ states[Main] = NewState /\ held = {}
  BY DEF Init
<1>3. /\ DOMAIN NewState = {"cells", "writtenSlots"}
      /\ DOMAIN NewState.cells = TreeKey
      /\ NewState.writtenSlots \subseteq Address \X Slot
  BY DEF NewState, NoCells
<1>4. TypeOK
  BY <1>2, <1>3, VTStateAssumption DEF TypeOK
<1>5. \A h \in DOMAIN states : Total(states[h].cells)
  BY <1>1, <1>2 DEF NewState
<1>6. DOMAIN left = {} /\ DOMAIN snapshots = {}
  BY DEF Init, Archived!Init
<1> QED
  BY <1>4, <1>5, <1>6 DEF IInv, ArchiveMatchesHistory

-----------------------------------------------------------------------------
(* Steps.                                                                  *)

\* What addBlock does to the map of snapshots: it stores one, and may drop
\* one.
LEMMA AddBlock ==
    ASSUME NEW b, NEW s, Archived!addBlock(b, s)
    PROVE  /\ DOMAIN snapshots' \subseteq DOMAIN snapshots \cup {b}
           /\ \A x \in DOMAIN snapshots' :
                snapshots'[x] = IF x = b THEN s ELSE snapshots[x]
<1> DEFINE stored == Archived!Stored(snapshots, b, s)
<1>1. /\ DOMAIN stored = DOMAIN snapshots \cup {b}
      /\ \A x \in DOMAIN stored : stored[x] = IF x = b THEN s ELSE snapshots[x]
  BY DEF Archived!Stored
<1>2. CASE snapshots' = stored
  BY <1>1, <1>2
<1>3. CASE \E o : Archived!pruneOldest(stored, Archived!Highest(b), o)
  <2>1. PICK o : snapshots' = Archived!Restrict(stored, DOMAIN stored \ {o})
    BY <1>3 DEF Archived!pruneOldest
  <2>2. /\ DOMAIN snapshots' = DOMAIN stored \ {o}
        /\ \A x \in DOMAIN snapshots' : snapshots'[x] = stored[x]
    BY <2>1 DEF Archived!Restrict
  <2> QED
    BY <1>1, <2>2
<1> QED
  BY <1>2, <1>3 DEF Archived!addBlock

\* Apply, on any handle.
LEMMA ApplyIInv ==
    ASSUME IInv, NEW h \in Handle, NEW b \in Block, NEW u \in Update, Apply(h, b, u)
    PROVE  IInv'
<1> DEFINE after == Applied(states[h].cells, u)
           slots == Tracked(states[h].writtenSlots, u)
<1>1. Total(after) /\ Total(states[h].cells) /\ h \in DOMAIN states
  BY AppliedTotal DEF IInv, Apply
<1>2. states' = [states EXCEPT ![h] = [cells |-> after, writtenSlots |-> slots]]
  BY DEF Apply
<1>3. slots \subseteq Address \X Slot
  BY <1>1, UpdateAssumption DEF IInv, TypeOK, Tracked
<1>4. left' = [x \in (DOMAIN left \cap DOMAIN snapshots') \cup {b} |->
                IF x = b THEN after ELSE left[x]]
  BY DEF Apply, Leaving
<1>5. /\ DOMAIN snapshots' \subseteq DOMAIN snapshots \cup {b}
      /\ \A x \in DOMAIN snapshots' :
            snapshots'[x] = IF x = b THEN SnapshotOf(after) ELSE snapshots[x]
  BY AddBlock DEF Apply
<1> HIDE DEF after, slots
<1>6. DOMAIN after = TreeKey
  BY <1>1 DEF Total
<1>7. states'[h] = [cells |-> after, writtenSlots |-> slots]
      /\ DOMAIN states' = DOMAIN states
      /\ \A g \in DOMAIN states : g # h => states'[g] = states[g]
  BY <1>1, <1>2
<1>8. TypeOK'
  <2>1. held' = held
    BY DEF Apply
  <2> QED
    BY <1>3, <1>6, <1>7, <2>1, VTStateAssumption DEF IInv, TypeOK
<1>9. (\A g \in DOMAIN states : Total(states[g].cells))'
  BY <1>1, <1>7 DEF IInv, Total
<1>10. (\A x \in DOMAIN left : Total(left[x]))'
  BY <1>1, <1>4 DEF IInv, Total
<1>11. ArchiveMatchesHistory'
  BY <1>4, <1>5 DEF IInv, ArchiveMatchesHistory, SnapshotOf
<1> QED
  BY <1>8, <1>9, <1>10, <1>11 DEF IInv

\* GetArchiveState, into any handle but Main.
LEMMA GetArchiveStateIInv ==
    ASSUME IInv, NEW h \in Handle, NEW b \in Block, GetArchiveState(h, b)
    PROVE  IInv'
<1> DEFINE c == deserializeTrie(snapshots[b].data)
<1>1. states' = Opened(h, c) /\ UNCHANGED <<held, snapshots, left>>
  BY DEF GetArchiveState, archiveVars
<1>2. Total(c)
  BY DeserializedTotal
<1> HIDE DEF c
<1>3. DOMAIN c = TreeKey
  BY <1>2 DEF Total
<1>4. /\ DOMAIN states' = DOMAIN states \cup {h}
      /\ states'[h] = [cells |-> c, writtenSlots |-> {}]
      /\ \A g \in DOMAIN states : g # h => states'[g] = states[g]
  BY <1>1 DEF Opened
<1>5. TypeOK'
  BY <1>1, <1>3, <1>4 DEF IInv, TypeOK
<1>6. (\A g \in DOMAIN states : Total(states[g].cells))'
  BY <1>2, <1>4 DEF IInv, Total
<1> QED
  BY <1>1, <1>5, <1>6 DEF IInv, ArchiveMatchesHistory, Total

\* CreateSnapshot and Restore.
LEMMA SnapshotIInv ==
    ASSUME IInv, NEW h \in Handle, CreateSnapshot(h) \/ Restore(h)
    PROVE  IInv'
<1>1. CASE CreateSnapshot(h)
  <2>1. held' = {SnapshotOf(states[h].cells)} /\ UNCHANGED <<states, snapshots, left>>
    BY <1>1 DEF CreateSnapshot, archiveVars
  <2>2. TypeOK'
    BY <2>1 DEF IInv, TypeOK, SnapshotOf
  <2> QED
    BY <2>1, <2>2 DEF IInv, ArchiveMatchesHistory, Total
<1>2. CASE Restore(h)
  <2>1. UNCHANGED <<held, snapshots, left>> /\ h \in DOMAIN states
    BY <1>2 DEF Restore, archiveVars
  <2>2. PICK s \in held :
            states' = [states EXCEPT ![h].cells = deserializeTrie(s.data)]
    BY <1>2 DEF Restore
  <2> DEFINE c == deserializeTrie(s.data)
  <2>3. Total(c)
    BY DeserializedTotal
  <2> HIDE DEF c
  <2>4. DOMAIN c = TreeKey
    BY <2>3 DEF Total
  <2>5. /\ DOMAIN states' = DOMAIN states
        /\ states'[h] = [states[h] EXCEPT !.cells = c]
        /\ \A g \in DOMAIN states : g # h => states'[g] = states[g]
    BY <2>1, <2>2 DEF c
  <2>6. DOMAIN states[h] = {"cells", "writtenSlots"}
    BY <2>1 DEF IInv, TypeOK
  <2>7. /\ DOMAIN states'[h] = {"cells", "writtenSlots"}
        /\ states'[h].cells = c
        /\ states'[h].writtenSlots = states[h].writtenSlots
    BY <2>5, <2>6
  <2>8. TypeOK'
    BY <2>1, <2>4, <2>5, <2>7 DEF IInv, TypeOK
  <2>9. (\A g \in DOMAIN states : Total(states[g].cells))'
    BY <2>3, <2>5, <2>7 DEF IInv, Total
  <2> QED
    BY <2>1, <2>8, <2>9 DEF IInv, ArchiveMatchesHistory, Total
<1> QED
  BY <1>1, <1>2

LEMMA NextIInv == IInv /\ [Next]_vars => IInv'
<1> SUFFICES ASSUME IInv, [Next]_vars PROVE IInv'
  OBVIOUS
<1>1. CASE Next
  <2>1. PICK h \in Handle :
            \/ \E b \in Block, u \in Update : Apply(h, b, u)
            \/ \E b \in Block : GetArchiveState(h, b)
            \/ CreateSnapshot(h)
            \/ Restore(h)
    BY <1>1 DEF Next
  <2> QED
    BY <2>1, ApplyIInv, GetArchiveStateIInv, SnapshotIInv
<1>2. CASE UNCHANGED vars
  BY <1>2 DEF vars, archiveVars, IInv, TypeOK, ArchiveMatchesHistory, Total
<1> QED
  BY <1>1, <1>2

LEMMA Invariance == Spec => []IInv
<1> QED
  BY InitIInv, NextIInv, PTL DEF Spec

-----------------------------------------------------------------------------
(* Theorems.                                                               *)

\* Types, for any instance.
THEOREM TypeCorrect == Spec => []TypeOK
<1>1. IInv => TypeOK
  BY DEF IInv
<1> QED
  BY <1>1, Invariance, PTL

\* The archive's snapshot of a block is the one of the trie that the last
\* Apply of the block left behind (archiveCurrentState).
THEOREM ArchiveCorrect == Spec => []ArchiveMatchesHistory
<1>1. IInv => ArchiveMatchesHistory
  BY DEF IInv
<1> QED
  BY <1>1, Invariance, PTL

\* Restore accepts the snapshot of a block (serializeTrie, deserializeTrie
\* and the comparison of commitments) just when every key the block had
\* set is sampled and not zero.
THEOREM RestorableCorrect == Spec => []RestorableExactly
<1>1. IInv => RestorableExactly
  <2> SUFFICES ASSUME IInv, NEW b \in DOMAIN snapshots
               PROVE  Restorable(snapshots[b]) <=>
                        \A k \in TreeKey : left[b][k] # Unset =>
                            k \in SampledKey /\ left[b][k] # Zero
    BY DEF RestorableExactly
  <2>1. Total(left[b])
    BY DEF IInv, ArchiveMatchesHistory
  <2>2. Restorable(snapshots[b]) <=> deserializeTrie(serializeTrie(left[b])) = left[b]
    BY DEF IInv, ArchiveMatchesHistory, Restorable, SnapshotOf
  <2> QED
    BY <2>1, <2>2, RoundTrip
<1> QED
  BY <1>1, Invariance, PTL

\* GetArchiveState returns the state the block left behind, or an error.
THEOREM ViewCorrect == Spec => ViewIsBlockState
<1> DEFINE Served == \A h \in Handle, b \in Block :
                        GetArchiveState(h, b) => states'[h].cells = left[b]
<1>1. IInv => Served
  <2> SUFFICES ASSUME IInv, NEW h \in Handle, NEW b \in Block, GetArchiveState(h, b)
               PROVE  states'[h].cells = left[b]
    OBVIOUS
  <2>1. states'[h].cells = deserializeTrie(snapshots[b].data)
    BY DEF GetArchiveState, Opened
  <2>2. /\ b \in DOMAIN snapshots
        /\ deserializeTrie(snapshots[b].data) = snapshots[b].commitment
    BY DEF GetArchiveState, Restorable
  <2>3. snapshots[b].commitment = left[b]
    BY <2>2 DEF IInv, ArchiveMatchesHistory, SnapshotOf
  <2> QED
    BY <2>1, <2>2, <2>3
<1>2. IInv /\ [Next]_vars => [Served]_vars
  BY <1>1
<1>3. Spec => [][Served]_vars
  BY <1>2, Invariance, PTL DEF Spec
<1> QED
  BY <1>3 DEF ViewIsBlockState

-----------------------------------------------------------------------------
(* The archive that all handles share.                                     *)

\* Which blocks the archive has, and when it drops one, does not depend on
\* what the snapshots are: for what Archive promises each counts as 0.
Stocked == [b \in DOMAIN snapshots |-> 0]

Shared == INSTANCE ArchiveProofs WITH snapshots <- Stocked, Snapshot <- {0}

\* A new state has a new archive.
LEMMA SharedInit == Init => Shared!Init
<1>1. Init => DOMAIN snapshots = {} /\ maxBlock = 0 /\ hasBlocks = FALSE /\ oldestBlock = 0
  BY DEF Init, Archived!Init
<1> QED
  BY <1>1 DEF Stocked, Shared!Init

\* Adding a block is the same step in both.
LEMMA SharedAdd ==
    ASSUME NEW b \in Block, NEW s, Archived!addBlock(b, s)
    PROVE  Shared!addBlock(b, 0)
<1> DEFINE old == Archived!Stored(snapshots, b, s)
           new == Shared!Stored(Stocked, b, 0)
<1>1. /\ Shared!Highest(b) = Archived!Highest(b)
      /\ Shared!Oldest(b) = Archived!Oldest(b)
  BY DEF Shared!Highest, Archived!Highest, Shared!Oldest, Archived!Oldest
<1>2. /\ DOMAIN new = DOMAIN old
      /\ new = [c \in DOMAIN old |-> 0]
  BY DEF Shared!Stored, Archived!Stored, Stocked
<1>3. \A S : Shared!Exceeds(S) <=> Archived!Exceeds(S)
  BY DEF Shared!Exceeds, Archived!Exceeds, Shared!Cardinality, Archived!Cardinality,
     Shared!IsFiniteSet, Archived!IsFiniteSet
<1>4. \A S, max : Shared!NewOldest(S, max) = Archived!NewOldest(S, max)
  BY DEF Shared!NewOldest, Archived!NewOldest, Shared!Min, Archived!Min
<1>5. maxBlock' = Shared!Highest(b) /\ hasBlocks' = TRUE
  BY <1>1 DEF Archived!addBlock
<1>6. CASE Shared!Exceeds(DOMAIN new)
  <2>1. Archived!pruneOldest(old, Archived!Highest(b), Archived!Oldest(b))
    BY <1>2, <1>3, <1>6 DEF Archived!addBlock
  <2>2. /\ Stocked' = Shared!Restrict(new, DOMAIN new \ {Shared!Oldest(b)})
        /\ oldestBlock' = Shared!NewOldest(DOMAIN new \ {Shared!Oldest(b)}, Shared!Highest(b))
    BY <2>1, <1>1, <1>2, <1>4 DEF Archived!pruneOldest, Archived!Restrict,
       Shared!Restrict, Stocked
  <2> QED
    BY <2>2, <1>5, <1>6 DEF Shared!addBlock, Shared!pruneOldest
<1>7. CASE ~ Shared!Exceeds(DOMAIN new)
  <2>1. snapshots' = old /\ oldestBlock' = Archived!Oldest(b)
    BY <1>2, <1>3, <1>7 DEF Archived!addBlock
  <2>2. Stocked' = new
    BY <2>1, <1>2 DEF Stocked
  <2> QED
    BY <2>1, <2>2, <1>1, <1>5, <1>7 DEF Shared!addBlock
<1> QED
  BY <1>6, <1>7

\* Apply adds a block through whichever handle; nothing else touches the
\* archive.
LEMMA SharedNext == [Next]_vars => [Shared!Next]_(Shared!archiveVars)
<1>1. ASSUME NEW h \in Handle, NEW b \in Block, NEW u \in Update, Apply(h, b, u)
      PROVE  Shared!Next
  BY <1>1, SharedAdd DEF Apply, Shared!Next
<1>2. ASSUME UNCHANGED archiveVars
      PROVE  UNCHANGED Shared!archiveVars
  BY <1>2 DEF archiveVars, Shared!archiveVars, Stocked
<1> QED
  BY <1>1, <1>2 DEF Next, vars, GetArchiveState, CreateSnapshot, Restore

\* Whatever the handles do, and in whatever order, the archive they share
\* behaves as the module Archive says.
THEOREM SharedArchive == Spec => Shared!Spec
BY SharedInit, SharedNext, PTL DEF Spec, Shared!Spec

\* What is left to assume about the constants of Archive is assumed here.
LEMMA SharedAssumption == Shared!ArchiveAssumption
BY VTStateAssumption DEF Shared!ArchiveAssumption

\* The archive behind the handles never outgrows archiveMaxSize, with or
\* without block 0, and the block it would prune next is there.
THEOREM SharedBounded == Spec => []Archived!Bounded
<1>1. Shared!Bounded => Archived!Bounded
  <2>1. \A S : Shared!Cardinality(S) = Archived!Cardinality(S)
    BY DEF Shared!Cardinality, Archived!Cardinality, Shared!IsFiniteSet, Archived!IsFiniteSet
  <2>2. DOMAIN Stocked = DOMAIN snapshots
    BY DEF Stocked
  <2> QED
    BY <2>1, <2>2 DEF Shared!Bounded, Archived!Bounded
<1>2. Spec => []Shared!Bounded
  BY SharedArchive, SharedAssumption, Shared!ArchiveIsBounded
<1> QED
  BY <1>1, <1>2, PTL

\* Without block 0, GetArchiveBlockHeight reports through every handle a
\* block that is archived, and the highest one.
THEOREM SharedHeight == 0 \notin Block => (Spec => []Archived!HeightArchived)
<1> SUFFICES ASSUME 0 \notin Block PROVE Spec => []Archived!HeightArchived
  OBVIOUS
<1>1. Shared!HeightArchived => Archived!HeightArchived
  BY DEF Shared!HeightArchived, Archived!HeightArchived, Stocked
<1>2. Spec => []Shared!HeightArchived
  BY SharedArchive, SharedAssumption, Shared!HeightCorrect
<1> QED
  BY <1>1, <1>2, PTL

\* Without block 0, Apply through any handle leaves exactly the newest
\* archiveMaxSize blocks of those it found and its own: no interleaving of
\* the handles loses another one.
THEOREM SharedKeepsNewest ==
    0 \notin Block =>
        (Spec => [][\A h \in Handle, b \in Block, u \in Update :
                        Apply(h, b, u) => DOMAIN snapshots' =
                            Shared!Kept!Newest(DOMAIN snapshots \cup {b})]_vars)
<1> SUFFICES ASSUME 0 \notin Block
             PROVE  Spec => [][\A h \in Handle, b \in Block, u \in Update :
                        Apply(h, b, u) => DOMAIN snapshots' =
                            Shared!Kept!Newest(DOMAIN snapshots \cup {b})]_vars
  OBVIOUS
<1> DEFINE Newest == \A h \in Handle, b \in Block, u \in Update :
                        Apply(h, b, u) => DOMAIN snapshots' =
                            Shared!Kept!Newest(DOMAIN snapshots \cup {b})
<1>1. Init => Shared!PInv
  BY SharedInit, SharedAssumption, Shared!PositiveInit
<1>2. Shared!PInv /\ [Next]_vars => Shared!PInv'
  BY SharedNext, SharedAssumption, Shared!PositiveNext
<1>3. Shared!PInv => Newest
  <2> SUFFICES ASSUME Shared!PInv, NEW h \in Handle, NEW b \in Block, NEW u \in Update,
                      Apply(h, b, u)
               PROVE  DOMAIN snapshots' = Shared!Kept!Newest(DOMAIN snapshots \cup {b})
    OBVIOUS
  <2>1. Shared!addBlock(b, 0)
    BY SharedAdd DEF Apply
  <2>2. Shared!Kept!Add(b, 0)
    BY <2>1, SharedAssumption, Shared!PositiveAdd
  <2>3. DOMAIN Stocked = DOMAIN snapshots /\ DOMAIN Stocked' = DOMAIN snapshots'
    BY DEF Stocked
  <2> QED
    BY <2>2, <2>3 DEF Shared!Kept!Add
<1>4. Spec => []Shared!PInv
  BY <1>1, <1>2, PTL DEF Spec
<1>5. Shared!PInv /\ [Next]_vars => [Newest]_vars
  BY <1>3
<1> QED
  BY <1>4, <1>5, PTL DEF Spec
=============================================================================
