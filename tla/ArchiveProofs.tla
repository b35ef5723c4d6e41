---------------------------- MODULE ArchiveProofs ----------------------------
(***************************************************************************)
(* What TLAPS proves about Archive for every set of block numbers and      *)
(* every size: that it stays bounded and, where block 0 does not occur,    *)
(* that it is the Retention it promises to be.                             *)
(***************************************************************************)
EXTENDS Archive, FiniteSetTheorems, WellFoundedInduction, TLAPS

-----------------------------------------------------------------------------
(* The least element of a set of numbers.                                  *)

\* A non-empty set of naturals has a least element.
LEMMA NatMin ==
    ASSUME NEW S \in SUBSET Nat, S # {}
    PROVE  \E x \in S : \A y \in S : x <= y
<1>1. \E R : /\ IsWellFoundedOn(R, Nat)
             /\ \A x, y \in Nat : y < x => <<y, x>> \in R
  <2>1. IsWellFoundedOn(OpToRel(<, Nat), Nat)
    BY NatLessThanWellFounded
  <2>2. \A x, y \in Nat : y < x => <<y, x>> \in OpToRel(<, Nat)
    BY DEF OpToRel
  <2> QED
    BY <2>1, <2>2
<1>2. PICK R : /\ IsWellFoundedOn(R, Nat)
               /\ \A x, y \in Nat : y < x => <<y, x>> \in R
  BY <1>1
<1>3. PICK x \in S : \A y \in S : ~ (<<y, x>> \in R)
  BY <1>2, WFMin
<1>4. \A y \in S : ~ (y < x)
  BY <1>2, <1>3
<1>5. \A y \in S : x <= y
  BY <1>4
<1> QED
  BY <1>5

\* What Min returns.
LEMMA MinIsLeast ==
    ASSUME NEW S \in SUBSET Nat, S # {}
    PROVE  Min(S) \in S /\ \A y \in S : Min(S) <= y
BY NatMin DEF Min

-----------------------------------------------------------------------------
(* Invariants.                                                             *)

Blocks == DOMAIN snapshots

\* The inductive invariant for all block numbers.
IInv ==
    /\ TypeOK
    /\ Bounded
    /\ IsFiniteSet(Blocks)
    /\ hasBlocks <=> Blocks # {}
    /\ ~ hasBlocks => oldestBlock = 0
    /\ \A b \in Blocks : b <= maxBlock

LEMMA TypeFacts ==
    ASSUME IInv
    PROVE  /\ Blocks \subseteq Nat /\ maxBlock \in Nat /\ oldestBlock \in Nat
           /\ Blocks \subseteq Block
<1>1. /\ Blocks \subseteq Block /\ maxBlock \in Block \cup {0}
      /\ oldestBlock \in Block \cup {0}
  BY Zenon DEF IInv, TypeOK, Blocks
<1> QED
  BY <1>1, ArchiveAssumption

\* What one addBlock leaves behind, in terms of sets of blocks.
LEMMA AddFacts ==
    ASSUME IInv, NEW b \in Block, NEW s \in Snapshot, addBlock(b, s),
           NEW all, all = Blocks \cup {b}
    PROVE  /\ all \subseteq Nat /\ all # {} /\ IsFiniteSet(all)
           /\ maxBlock' \in all \cup {maxBlock} /\ maxBlock' \in Nat
           /\ \A c \in all : c <= maxBlock'
           /\ Oldest(b) \in all
           /\ hasBlocks'
           /\ Exceeds(all) =>
                /\ Blocks' = all \ {Oldest(b)}
                /\ oldestBlock' = Min(Blocks' \cup {maxBlock'})
           /\ ~ Exceeds(all) => Blocks' = all /\ oldestBlock' = Oldest(b)
           /\ \A c \in Blocks' :
                snapshots'[c] = IF c = b THEN s ELSE snapshots[c]
<1>0. IsFiniteSet(all)
  BY FS_AddElement DEF IInv
<1>1. /\ all \subseteq Nat /\ all # {}
      /\ maxBlock \in Nat /\ oldestBlock \in Nat /\ b \in Nat
  BY TypeFacts, ArchiveAssumption
<1>2. maxBlock' = Highest(b) /\ hasBlocks' = TRUE
  BY DEF addBlock
<1>3. maxBlock' \in Nat /\ (maxBlock' = b \/ maxBlock' = maxBlock)
  BY <1>1, <1>2 DEF Highest
<1>4. \A c \in all : c <= maxBlock'
  BY <1>1, <1>2 DEF Highest, IInv
<1>5. Oldest(b) \in all
  <2>1. CASE hasBlocks
    BY <2>1 DEF Oldest, IInv, Bounded, Blocks
  <2>2. CASE ~ hasBlocks
    BY <2>2 DEF Oldest, IInv
  <2> QED
    BY <2>1, <2>2
<1> QED
  BY <1>0, <1>1, <1>2, <1>3, <1>4, <1>5
     DEF addBlock, pruneOldest, Stored, NewOldest, Restrict, Blocks

\* Pruning leaves a block behind, and oldestBlock names one of the rest.
LEMMA PruneFacts ==
    ASSUME IInv, NEW b \in Block, NEW s \in Snapshot, addBlock(b, s),
           NEW all, all = Blocks \cup {b}, Exceeds(all)
    PROVE  /\ Cardinality(all) = MaxSize + 1 /\ MaxSize \in Nat /\ MaxSize > 0
           /\ Cardinality(Blocks') = MaxSize
           /\ Blocks' = all \ {Oldest(b)} /\ Blocks' # {}
           /\ oldestBlock' \in Blocks'
           /\ \A c \in Blocks' : oldestBlock' <= c
<1> DEFINE kept == Blocks'
<1>1. /\ all \subseteq Nat /\ maxBlock' \in Nat /\ \A c \in all : c <= maxBlock'
      /\ Oldest(b) \in all /\ kept = all \ {Oldest(b)}
      /\ oldestBlock' = Min(kept \cup {maxBlock'})
  BY AddFacts
<1>2. IsFiniteSet(all)
  BY AddFacts
<1>3. Cardinality(kept) = Cardinality(all) - 1
  BY <1>1, <1>2, FS_RemoveElement
<1>4. /\ Cardinality(Blocks) \in Nat
      /\ Cardinality(all) <= Cardinality(Blocks) + 1 /\ Cardinality(all) \in Nat
  BY <1>2, FS_AddElement, FS_CardinalityType DEF IInv
<1>5. MaxSize \in Nat /\ MaxSize > 0 /\ Cardinality(all) > MaxSize
  BY ArchiveAssumption DEF Exceeds
<1>6. Cardinality(Blocks) <= MaxSize
  BY <1>5 DEF IInv, Bounded, Blocks
<1>7. Cardinality(all) = MaxSize + 1 /\ Cardinality(kept) = MaxSize
  BY <1>3, <1>4, <1>5, <1>6
<1>8. kept # {}
  BY <1>5, <1>7, FS_EmptySet
<1>9. /\ oldestBlock' \in kept \cup {maxBlock'}
      /\ \A c \in kept \cup {maxBlock'} : oldestBlock' <= c
  BY <1>1, MinIsLeast
<1>10. oldestBlock' \in kept
  <2>1. PICK c \in kept : TRUE
    BY <1>8
  <2>2. /\ c \in Nat /\ c <= maxBlock' /\ oldestBlock' <= c
        /\ oldestBlock' = maxBlock' \/ oldestBlock' \in kept
    BY <1>1, <1>9, <2>1
  <2>3. oldestBlock' = maxBlock' => c = maxBlock'
    BY <1>1, <2>2
  <2> QED
    BY <2>1, <2>2, <2>3
<1> QED
  BY <1>1, <1>5, <1>7, <1>8, <1>9, <1>10

LEMMA InitInv == Init => IInv
<1> SUFFICES ASSUME Init PROVE IInv
  OBVIOUS
<1>1. Blocks = {} /\ maxBlock = 0 /\ oldestBlock = 0 /\ hasBlocks = FALSE
  BY DEF Init, Blocks
<1>2. IsFiniteSet(Blocks) /\ Cardinality(Blocks) = 0
  BY <1>1, FS_EmptySet
<1>3. TypeOK
  BY <1>1 DEF TypeOK, Blocks
<1>4. Bounded
  BY <1>1, <1>2, ArchiveAssumption DEF Bounded, Blocks
<1>5. hasBlocks <=> Blocks # {}
  BY <1>1
<1> QED
  BY <1>1, <1>2, <1>3, <1>4, <1>5, Zenon DEF IInv

LEMMA AddInv ==
    ASSUME IInv, NEW b \in Block, NEW s \in Snapshot, addBlock(b, s)
    PROVE  IInv'
<1> DEFINE all == Blocks \cup {b}
<1>1. IsFiniteSet(all) /\ all # {} /\ Oldest(b) \in all /\ hasBlocks'
  BY AddFacts
<1>2. /\ \A c \in all : c <= maxBlock'
      /\ maxBlock' \in all \cup {maxBlock}
      /\ \A c \in Blocks' : snapshots'[c] = IF c = b THEN s ELSE snapshots[c]
  BY AddFacts
<1>3. /\ Blocks' \subseteq all /\ Blocks' # {} /\ oldestBlock' \in Blocks'
      /\ MaxSize > 0 => Cardinality(Blocks') <= MaxSize
  <2>1. CASE Exceeds(all)
    BY <2>1, PruneFacts
  <2>2. CASE ~ Exceeds(all)
    <3>1. Blocks' = all /\ oldestBlock' = Oldest(b)
      BY <2>2, AddFacts
    <3>2. Cardinality(all) \in Nat
      BY <1>1, FS_CardinalityType
    <3> QED
      BY <1>1, <2>2, <3>1, <3>2, ArchiveAssumption DEF Exceeds
  <2> QED
    BY <2>1, <2>2
<1>4. IsFiniteSet(Blocks')
  BY <1>1, <1>3, FS_Subset
<1>5. all \subseteq Block /\ \A c \in Blocks : snapshots[c] \in Snapshot
  BY DEF IInv, TypeOK, Blocks
<1>6. TypeOK'
  <2>1. hasBlocks' \in BOOLEAN
    BY DEF addBlock
  <2>2. maxBlock' \in Block \cup {0}
    BY <1>2, <1>5 DEF IInv, TypeOK
  <2>3. \A c \in Blocks' : snapshots'[c] \in Snapshot
    BY <1>2, <1>3, <1>5
  <2> QED
    BY <1>3, <1>5, <2>1, <2>2, <2>3 DEF TypeOK, Blocks
<1>7. Bounded'
  BY <1>1, <1>3 DEF Bounded, Blocks
<1> QED
  BY <1>1, <1>2, <1>3, <1>4, <1>6, <1>7 DEF IInv

LEMMA NextInv == IInv /\ [Next]_archiveVars => IInv'
<1> SUFFICES ASSUME IInv, [Next]_archiveVars PROVE IInv'
  OBVIOUS
<1>1. CASE Next
  BY <1>1, AddInv DEF Next
<1>2. CASE UNCHANGED archiveVars
  <2>1. Blocks' = Blocks
    BY <1>2 DEF archiveVars, Blocks
  <2> QED
    BY <1>2, <2>1 DEF archiveVars, IInv, TypeOK, Bounded
<1> QED
  BY <1>1, <1>2

LEMMA Invariance == Spec => []IInv
BY InitInv, NextInv, PTL DEF Spec

\* The archive holds blocks that were added, with their snapshots.
THEOREM TypeCorrect == Spec => []TypeOK
BY Invariance, PTL DEF IInv

\* Whatever blocks arrive in whatever order, block 0 and repeated blocks
\* included, the archive holds at most maxSize of them.
THEOREM ArchiveIsBounded == Spec => []Bounded
BY Invariance, PTL DEF IInv

-----------------------------------------------------------------------------
(* Without block 0 the value 0 of oldestBlock always means "not set".      *)

PInv == IInv /\ OldestIsMin /\ HeightArchived

\* The instance of Retention counts like Archive.
LEMMA SameCardinality == \A S : Kept!Cardinality(S) = Cardinality(S)
BY DEF Kept!Cardinality, Cardinality

LEMMA PositiveAdd ==
    ASSUME 0 \notin Block, PInv,
           NEW b \in Block, NEW s \in Snapshot, addBlock(b, s)
    PROVE  /\ PInv'
           /\ Kept!Add(b, s)
<1> DEFINE all == Blocks \cup {b}
           first == Oldest(b)
<1>1. /\ all \subseteq Nat /\ first \in all /\ maxBlock' \in Nat
      /\ \A c \in all : c <= maxBlock'
      /\ ~ Exceeds(all) => Blocks' = all /\ oldestBlock' = first
      /\ \A c \in Blocks' : snapshots'[c] = IF c = b THEN s ELSE snapshots[c]
  BY AddFacts DEF PInv
<1>2. IsFiniteSet(all)
  BY AddFacts DEF PInv
<1>3. \A c \in all : first <= c
  <2>1. CASE hasBlocks
    <3>1. /\ oldestBlock \in Blocks /\ oldestBlock # 0 /\ oldestBlock \in Nat
          /\ b \in Nat /\ \A c \in Blocks : oldestBlock <= c
      BY <1>1, <2>1 DEF PInv, IInv, TypeOK, OldestIsMin, Blocks
    <3> QED
      BY <1>1, <3>1 DEF Oldest
  <2>2. CASE ~ hasBlocks
    BY <1>1, <2>2 DEF PInv, IInv
  <2> QED
    BY <2>1, <2>2
<1>4. maxBlock' \in all
  BY DEF PInv, HeightArchived, addBlock, Highest, Blocks
<1>5. /\ oldestBlock' \in Blocks' /\ maxBlock' \in Blocks'
      /\ \A c \in Blocks' : oldestBlock' <= c
      /\ Blocks' \subseteq all
  <2>1. CASE Exceeds(all)
    <3>1. /\ Cardinality(all) = MaxSize + 1 /\ MaxSize \in Nat /\ MaxSize > 0
          /\ Blocks' = all \ {first}
          /\ oldestBlock' \in Blocks' /\ \A c \in Blocks' : oldestBlock' <= c
      BY <2>1, PruneFacts DEF PInv
    <3>2. maxBlock' # first
      BY <1>1, <1>3, <1>4, <3>1
    <3> QED
      BY <1>4, <3>1, <3>2
  <2>2. CASE ~ Exceeds(all)
    BY <1>1, <1>3, <1>4, <2>2
  <2> QED
    BY <2>1, <2>2
<1>6. PInv'
  <2>1. IInv'
    BY AddInv DEF PInv
  <2> QED
    BY <1>1, <1>5, <2>1 DEF PInv, OldestIsMin, HeightArchived, Blocks
<1>7. Blocks' = Kept!Newest(all)
  <2> DEFINE Above(c) == {a \in all : a >= c}
  <2>1. \A c \in all : Above(c) \in SUBSET all
    OBVIOUS
  <2>2. \A c \in all : /\ IsFiniteSet(Above(c)) /\ Cardinality(Above(c)) \in Nat
                       /\ Cardinality(Above(c)) <= Cardinality(all)
    BY <1>2, <2>1, FS_Subset, FS_CardinalityType
  <2>3. Cardinality(all) \in Nat
    BY <1>2, FS_CardinalityType
  <2>4. CASE Exceeds(all)
    <3>1. /\ Cardinality(all) = MaxSize + 1 /\ MaxSize \in Nat /\ MaxSize > 0
          /\ Blocks' = all \ {first} /\ Cardinality(Blocks') = MaxSize
      BY <2>4, PruneFacts DEF PInv
    <3>2. Above(first) = all
      BY <1>1, <1>3
    <3>3. ASSUME NEW c \in all, c # first PROVE Cardinality(Above(c)) <= MaxSize
      <4>1. Above(c) \in SUBSET Blocks'
        BY <1>1, <1>3, <3>1, <3>3
      <4>2. IsFiniteSet(Blocks')
        BY <1>6 DEF PInv, IInv
      <4>3. Cardinality(Above(c)) <= Cardinality(Blocks')
        BY <4>1, <4>2, FS_Subset
      <4> QED
        BY <3>1, <4>3
    <3>4. Cardinality(Above(first)) = MaxSize + 1
      BY <3>1, <3>2
    <3>5. \A c \in all : c # first <=> (MaxSize = 0 \/ Cardinality(Above(c)) <= MaxSize)
      BY <3>1, <3>3, <3>4
    <3> QED
      BY <3>1, <3>5, SameCardinality DEF Kept!Newest
  <2>5. CASE ~ Exceeds(all)
    <3>1. Blocks' = all
      BY <1>1, <2>5
    <3>2. MaxSize = 0 \/ Cardinality(all) <= MaxSize
      BY <2>3, <2>5, ArchiveAssumption DEF Exceeds
    <3>3. \A c \in all : MaxSize = 0 \/ Cardinality(Above(c)) <= MaxSize
      BY <2>2, <2>3, <3>2, ArchiveAssumption
    <3> QED
      BY <3>1, <3>3, SameCardinality DEF Kept!Newest
  <2> QED
    BY <2>4, <2>5
<1>8. snapshots' = [c \in Blocks' |-> snapshots'[c]]
  BY DEF addBlock, pruneOldest, Stored, Restrict, Blocks
<1>9. snapshots' = [c \in Kept!Newest(DOMAIN snapshots \cup {b}) |->
                        IF c = b THEN s ELSE snapshots[c]]
  BY <1>1, <1>7, <1>8 DEF Blocks
<1> QED
  BY <1>6, <1>9 DEF Kept!Add

LEMMA PositiveInit == Init => PInv /\ Kept!Init
BY InitInv DEF PInv, Init, OldestIsMin, HeightArchived, Kept!Init

LEMMA PositiveNext ==
    ASSUME 0 \notin Block
    PROVE  PInv /\ [Next]_archiveVars => PInv' /\ [Kept!Next]_snapshots
<1> SUFFICES ASSUME PInv, [Next]_archiveVars
             PROVE  PInv' /\ [Kept!Next]_snapshots
  OBVIOUS
<1>1. CASE Next
  <2>1. PICK b \in Block, s \in Snapshot : addBlock(b, s)
    BY <1>1 DEF Next
  <2> QED
    BY <2>1, PositiveAdd DEF Kept!Next
<1>2. CASE UNCHANGED archiveVars
  <2>1. IInv'
    BY <1>2, NextInv DEF PInv
  <2> QED
    BY <1>2, <2>1 DEF archiveVars, PInv, OldestIsMin, HeightArchived
<1> QED
  BY <1>1, <1>2

\* Without block 0 the reported height can be served and is the highest
\* there is.
THEOREM HeightCorrect == 0 \notin Block => (Spec => []HeightArchived)
<1> SUFFICES ASSUME 0 \notin Block PROVE Spec => []HeightArchived
  OBVIOUS
<1>1. PInv /\ [Next]_archiveVars => PInv'
  BY PositiveNext
<1>2. PInv => HeightArchived
  BY DEF PInv
<1> QED
  BY <1>1, <1>2, PositiveInit, PTL DEF Spec

\* Without block 0 the block that is pruned is the oldest.
THEOREM OldestCorrect == 0 \notin Block => (Spec => []OldestIsMin)
<1> SUFFICES ASSUME 0 \notin Block PROVE Spec => []OldestIsMin
  OBVIOUS
<1>1. PInv /\ [Next]_archiveVars => PInv'
  BY PositiveNext
<1>2. PInv => OldestIsMin
  BY DEF PInv
<1> QED
  BY <1>1, <1>2, PositiveInit, PTL DEF Spec

\* Without block 0 the archive keeps exactly the maxSize newest blocks.
THEOREM ArchiveImplementsRetention == 0 \notin Block => (Spec => RefinesRetention)
<1> SUFFICES ASSUME 0 \notin Block PROVE Spec => RefinesRetention
  OBVIOUS
<1>1. PInv /\ [Next]_archiveVars => PInv' /\ [Kept!Next]_snapshots
  BY PositiveNext
<1> QED
  BY <1>1, PositiveInit, PTL DEF Spec, RefinesRetention, Kept!Spec
=============================================================================
