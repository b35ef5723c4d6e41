------------------------- MODULE SnapshotSyncProofs -------------------------
(***************************************************************************)
(* What TLAPS proves about SnapshotSync, for any keys, values, writes and  *)
(* first contents of the receiver: complete snapshots are accepted and     *)
(* restored, the verifier and Restore agree, and what does not match is    *)
(* reported.                                                               *)
(***************************************************************************)
EXTENDS SnapshotSync, FiniteSetTheorems, WellFoundedInduction, TLAPS

-----------------------------------------------------------------------------
(* Numbers.                                                                *)

LEMMA NatMin ==
    ASSUME NEW S \in SUBSET Nat, S # {}
    PROVE  \E x \in S : \A y \in S : x <= y
<1>1. \E R : /\ IsWellFoundedOn(R, Nat)
             /\ \A x, y \in Nat : y < x => <<y, x>> \in R
  <2>1. IsWellFoundedOn(OpToRel(<, Nat), Nat)
    BY NatLessThanWellFounded
  <2>2. \A x, y \in Nat : y < x => <<y, x>> \in OpToRel(<, Nat)
    BY DEF OpToRel
  <2> QED
    BY <2>1, <2>2
<1>2. PICK R : /\ IsWellFoundedOn(R, Nat)
               /\ \A x, y \in Nat : y < x => <<y, x>> \in R
  BY <1>1
<1>3. PICK x \in S : \A y \in S : ~ (<<y, x>> \in R)
  BY <1>2, WFMin
<1>4. \A y \in S : ~ (y < x)
  BY <1>2, <1>3
<1>5. \A y \in S : x <= y
  BY <1>4
<1> QED
  BY <1>5

LEMMA MaxIsGreatest ==
    ASSUME NEW n \in Nat, NEW S \in SUBSET (1 .. n), S # {}
    PROVE  Max(S) \in S /\ \A y \in S : Max(S) >= y
<1> DEFINE D == {n - y : y \in S}
<1>1. D \in SUBSET Nat /\ D # {}
  <2>1. \A y \in S : n - y \in Nat
    OBVIOUS
  <2>2. D # {}
    OBVIOUS
  <2> QED
    BY <2>1, <2>2
<1>2. PICK d \in D : \A e \in D : d <= e
  BY <1>1, NatMin
<1>3. PICK x \in S : d = n - x
  OBVIOUS
<1>4. ASSUME NEW y \in S PROVE x >= y
  <2>1. d <= n - y
    BY <1>2
  <2> QED
    BY <1>3, <2>1
<1>5. \E z \in S : \A y \in S : z >= y
  BY <1>4
<1> QED
  BY <1>5 DEF Max

-----------------------------------------------------------------------------
(* Parts.                                                                  *)

\* A part as TypeOK has it: a number and entries, or nothing.
IsPart(part) ==
    part = <<>> \/ \E n \in Nat, entries \in Seq(Key \X Value) : part = <<n>> \o entries

LEMMA PartReads ==
    ASSUME NEW n \in Nat, NEW entries \in Seq(Key \X Value), NEW part,
           part = <<n>> \o entries
    PROVE  /\ part # <<>> /\ Head(part) = n /\ Tail(part) = entries
           /\ Len(part) \in Nat /\ Len(part) = 1 + Len(entries) /\ part[1] = n
           /\ \A i \in 2 .. Len(part) :
                i - 1 \in 1 .. Len(entries) /\ part[i] = entries[i - 1]
OBVIOUS

LEMMA PartBuilt ==
    ASSUME NEW n \in Nat, NEW entries \in Seq(Key \X Value)
    PROVE  <<n>> \o entries =
                [j \in 1 .. (1 + Len(entries)) |-> IF j = 1 THEN n ELSE entries[j - 1]]
OBVIOUS

\* What TypeOK says of a part.
LEMMA PartTyped ==
    ASSUME NEW part
    PROVE  IsPart(part) <=>
                (part # <<>> =>
                    /\ Head(part) \in Nat /\ Tail(part) \in Seq(Key \X Value)
                    /\ part = <<Head(part)>> \o Tail(part))
<1>1. ASSUME IsPart(part), part # <<>>
      PROVE  /\ Head(part) \in Nat /\ Tail(part) \in Seq(Key \X Value)
             /\ part = <<Head(part)>> \o Tail(part)
  BY <1>1, PartReads DEF IsPart
<1> QED
  BY <1>1 DEF IsPart

\* A part has entries for the keys it sets, and the last one is read.
LEMMA OverwrittenReads ==
    ASSUME NEW part, IsPart(part), NEW c, NEW k \in Key
    PROVE  \/ /\ \A i \in 2 .. Len(part) : part[i][1] # k
              /\ Overwritten(c, part)[k] = c[k]
           \/ \E i \in 2 .. Len(part) :
                /\ part[i] \in Key \X Value
                /\ part[i][1] = k /\ Overwritten(c, part)[k] = part[i][2]
<1> DEFINE at == {i \in 2 .. Len(part) : part[i][1] = k}
<1>1. Len(part) \in Nat /\ \A i \in 2 .. Len(part) : part[i] \in Key \X Value
  <2>1. CASE part = <<>>
    BY <2>1
  <2>2. ASSUME NEW n \in Nat, NEW entries \in Seq(Key \X Value), part = <<n>> \o entries
        PROVE  Len(part) \in Nat /\ \A i \in 2 .. Len(part) : part[i] \in Key \X Value
    BY <2>2, PartReads
  <2> QED
    BY <2>1, <2>2 DEF IsPart
<1>2. Overwritten(c, part)[k] = IF at = {} THEN c[k] ELSE part[Max(at)][2]
  BY DEF Overwritten
<1>3. CASE at = {}
  BY <1>2, <1>3
<1>4. CASE at # {}
  <2>1. Max(at) \in at
    <3>1. at \in SUBSET (1 .. Len(part))
      BY <1>1
    <3> HIDE DEF at
    <3> QED
      BY <1>1, <1>4, <3>1, MaxIsGreatest
  <2> HIDE DEF at
  <2>2. Overwritten(c, part)[k] = part[Max(at)][2]
    BY <1>2, <1>4
  <2> QED
    BY <1>1, <2>1, <2>2 DEF at
<1> QED
  BY <1>3, <1>4

\* A part makes a content of a content.
LEMMA OverwrittenTyped ==
    ASSUME NEW part, IsPart(part), NEW c \in Content
    PROVE  Overwritten(c, part) \in Content
<1>1. ASSUME NEW k \in Key PROVE Overwritten(c, part)[k] \in Value \cup {Unset}
  BY OverwrittenReads DEF Content
<1>2. Overwritten(c, part) = [k \in Key |-> Overwritten(c, part)[k]]
  BY DEF Overwritten
<1> QED
  BY <1>1, <1>2 DEF Content

LEMMA EmptyTyped == Empty \in Content
BY DEF Empty, Content

LEMMA DeserializedTyped ==
    ASSUME NEW part, IsPart(part), NEW c \in Content
    PROVE  Deserialized(c, part) \in Content
BY OverwrittenTyped, EmptyTyped DEF Deserialized

-----------------------------------------------------------------------------
(* Snapshots.                                                              *)

\* The parts serializeTrie makes have the entries in some order.
LEMMA PartOfContent ==
    ASSUME NEW c \in Content, NEW part \in serializeTrie(c)
    PROVE  \E n \in Nat, entries \in Seq(Key \X Value) :
                /\ part = <<n>> \o entries /\ n = Len(entries)
                /\ \A i \in 1 .. n : entries[i] \in Entries(c)
                /\ \A x \in Entries(c) : \E i \in 1 .. n : entries[i] = x
<1> DEFINE E == Entries(c)
           N == Cardinality(E)
<1>1. IsFiniteSet(E) /\ N \in Nat
  <2> DEFINE K == {x \in SampledKey : c[x] \notin {Unset, Zero}}
             g == [k \in K |-> <<k, c[k]>>]
  <2>1. IsFiniteSet(K)
    BY SyncAssumption, FS_Subset
  <2>2. g \in Surjection(K, E)
    BY DEF Surjection, Entries
  <2> QED
    BY <2>1, <2>2, FS_Surjection, FS_CardinalityType
<1>2. E \subseteq Key \X Value
  BY SyncAssumption DEF Entries, Content
<1>3. PICK f \in SetToSeqs(E) : part = <<Len(f)>> \o f
  BY DEF serializeTrie
<1>4. f \in [1 .. N -> E] /\ \A i, j \in 1 .. N : i # j => f[i] # f[j]
  BY <1>3 DEF SetToSeqs
<1> HIDE DEF E
<1>5. f \in Seq(Key \X Value) /\ Len(f) = N
  BY <1>1, <1>2, <1>4
<1>6. f \in Injection(1 .. N, E)
  BY <1>4 DEF Injection, IsInjective
<1>7. Cardinality(1 .. N) = N
  BY <1>1, FS_Interval
<1>8. f \in Surjection(1 .. N, E)
  BY <1>1, <1>6, <1>7, FS_Injection
<1>9. \A x \in E : \E i \in 1 .. N : f[i] = x
  BY <1>8 DEF Surjection
<1> QED
  BY <1>1, <1>3, <1>4, <1>5, <1>9 DEF E

\* Complete contents are what their snapshots make of an empty trie.
LEMMA CompleteRestored ==
    ASSUME NEW c \in Content, Complete(c), NEW part \in serializeTrie(c)
    PROVE  ~ Malformed(part) /\ Overwritten(Empty, part) = c
<1>1. PICK n \in Nat, entries \in Seq(Key \X Value) :
        /\ part = <<n>> \o entries /\ n = Len(entries)
        /\ \A i \in 1 .. n : entries[i] \in Entries(c)
        /\ \A x \in Entries(c) : \E i \in 1 .. n : entries[i] = x
  BY PartOfContent
<1>2. /\ part # <<>> /\ part[1] = n /\ Len(part) = 1 + n
      /\ \A i \in 2 .. Len(part) : i - 1 \in 1 .. n /\ part[i] = entries[i - 1]
  BY <1>1, PartReads
<1>3. IsPart(part)
  BY <1>1 DEF IsPart
<1>4. ASSUME NEW i \in 2 .. Len(part)
      PROVE  part[i][2] = c[part[i][1]]
  BY <1>1, <1>2 DEF Entries
<1>5. ASSUME NEW k \in Key, c[k] # Unset
      PROVE  \E i \in 2 .. Len(part) : part[i][1] = k
  <2>1. <<k, c[k]>> \in Entries(c)
    BY <1>5 DEF Complete, Entries
  <2>2. PICK j \in 1 .. n : entries[j] = <<k, c[k]>>
    BY <1>1, <2>1
  <2>3. j + 1 \in 2 .. Len(part) /\ part[j + 1] = entries[j]
    BY <1>2
  <2>4. part[j + 1][1] = k
    BY <2>2, <2>3
  <2> QED
    BY <2>3, <2>4
<1>6. ASSUME NEW k \in Key PROVE Overwritten(Empty, part)[k] = c[k]
  BY <1>3, <1>4, <1>5, OverwrittenReads DEF Empty
<1>7. /\ Overwritten(Empty, part) = [k \in Key |-> Overwritten(Empty, part)[k]]
      /\ c = [k \in Key |-> c[k]]
  BY DEF Overwritten, Content
<1>8. ~ Malformed(part)
  BY <1>2 DEF Malformed
<1> QED
  BY <1>6, <1>7, <1>8

-----------------------------------------------------------------------------
(* The invariant.                                                          *)

\* The receiver was given at most one piece of snapshot data, and it has a
\* commitment in both places and a part.
Offered ==
    /\ \A x, y \in offer : x = y
    /\ \A data \in offer :
        data = [meta |-> data.meta, proof |-> data.proof, part |-> data.part]

IInv == TypeOK /\ Offered

\* Data of the kind that IInv allows.
IsData(data) ==
    /\ data = [meta |-> data.meta, proof |-> data.proof, part |-> data.part]
    /\ data.meta \in served \cup {Garbled, TooShort}
    /\ data.proof \in served \cup {Garbled}
    /\ IsPart(data.part)

LEMMA Parts ==
    IInv <=>
        /\ source \in Content /\ target \in Content
        /\ served \subseteq Content
        /\ verifier \subseteq served \cup {Garbled}
        /\ \A x, y \in offer : x = y
        /\ \A data \in offer : IsData(data)
BY PartTyped DEF IInv, TypeOK, Offered, IsData

LEMMA PartsPrimed ==
    IInv' <=>
        /\ source' \in Content /\ target' \in Content
        /\ served' \subseteq Content
        /\ verifier' \subseteq served' \cup {Garbled}
        /\ \A x, y \in offer' : x = y
        /\ \A data \in offer' : IsData(data)'
BY PartTyped DEF IInv, TypeOK, Offered, IsData

\* Whatever happens to a part that was made of a content, it stays one.
LEMMA DamagedTyped ==
    ASSUME NEW c \in Content, NEW part \in serializeTrie(c), NEW bad \in DamagedPart(part)
    PROVE  IsPart(bad)
<1>1. PICK n \in Nat, entries \in Seq(Key \X Value) :
        part = <<n>> \o entries /\ n = Len(entries)
  BY PartOfContent
<1>2. /\ part # <<>> /\ part[1] = n /\ Len(part) = 1 + n /\ Tail(part) = entries
      /\ \A i \in 2 .. Len(part) : i - 1 \in 1 .. n /\ part[i] = entries[i - 1]
  BY <1>1, PartReads
<1> USE DEF IsPart
<1>3. CASE bad = <<>>
  BY <1>3
<1>4. ASSUME Len(part) > 1, bad = Front(part)
      PROVE  IsPart(bad)
  <2>1. SubSeq(entries, 1, n - 1) \in Seq(Key \X Value)
    BY <1>1, <1>2, <1>4
  <2>2. bad = <<n>> \o SubSeq(entries, 1, n - 1)
    BY <1>1, <1>2, <1>4 DEF Front
  <2> QED
    BY <2>1, <2>2
<1>5. ASSUME Len(part) > 1, bad = <<part[1] - 1>> \o SubSeq(part, 2, Len(part) - 1)
      PROVE  IsPart(bad)
  <2>1. n - 1 \in Nat /\ SubSeq(entries, 1, n - 1) \in Seq(Key \X Value)
    BY <1>1, <1>2, <1>5
  <2>2. SubSeq(part, 2, Len(part) - 1) = SubSeq(entries, 1, n - 1)
    BY <1>1, <1>2, <1>5
  <2> QED
    BY <1>2, <1>5, <2>1, <2>2
<1>6. ASSUME NEW i \in 2 .. Len(part), bad = <<part[1] + 1>> \o Tail(part) \o <<part[i]>>
      PROVE  IsPart(bad)
  <2>1. Append(entries, part[i]) \in Seq(Key \X Value) /\ n + 1 \in Nat
    BY <1>1, <1>2
  <2>2. bad = <<n + 1>> \o Append(entries, part[i])
    BY <1>1, <1>2, <1>6
  <2> QED
    BY <2>1, <2>2
<1>7. ASSUME NEW i \in 2 .. Len(part), NEW v \in Value,
             bad = [part EXCEPT ![i] = <<@[1], v>>]
      PROVE  IsPart(bad)
  <2> DEFINE other == [entries EXCEPT ![i - 1] = <<part[i][1], v>>]
  <2>1. part[i][1] \in Key
    BY <1>1, <1>2
  <2>2. other \in Seq(Key \X Value)
    BY <1>1, <1>2, <2>1
  <2>3. Len(other) = n /\ DOMAIN other = 1 .. n
        /\ \A j \in 1 .. n : other[j] = IF j = i - 1 THEN <<part[i][1], v>> ELSE entries[j]
    BY <1>1, <1>2
  <2> HIDE DEF other
  <2>4. DOMAIN part = 1 .. (1 + n) /\ part[1] = n
        /\ \A j \in 2 .. (1 + n) : part[j] = entries[j - 1]
    <3>1. part \in Seq(Nat \cup (Key \X Value))
      BY <1>1
    <3> QED
      BY <1>2, <3>1
  <2>5. bad = [j \in 1 .. (1 + n) |-> IF j = i THEN <<part[i][1], v>> ELSE part[j]]
    BY <1>7, <2>4, Zenon
  <2>6. ASSUME NEW j \in 1 .. (1 + n)
        PROVE  (IF j = i THEN <<part[i][1], v>> ELSE part[j]) =
                    (IF j = 1 THEN n ELSE other[j - 1])
    <3>1. n \in Nat /\ i \in 2 .. (1 + n) /\ (j # 1 => j - 1 \in 1 .. n /\ j \in 2 .. (1 + n))
      BY <1>1, <1>2
    <3>2. CASE j = 1
      BY <2>4, <3>1, <3>2
    <3>3. CASE j # 1
      <4>1. j - 1 \in 1 .. n /\ (j - 1 = i - 1 <=> j = i)
        BY <3>1, <3>3
      <4>2. other[j - 1] = IF j - 1 = i - 1 THEN <<part[i][1], v>> ELSE entries[j - 1]
        BY <2>3, <4>1
      <4>3. part[j] = entries[j - 1]
        BY <2>4, <3>1, <3>3
      <4> QED
        BY <3>3, <4>1, <4>2, <4>3
    <3> QED
      BY <3>2, <3>3
  <2>7. bad = [j \in 1 .. (1 + n) |-> IF j = 1 THEN n ELSE other[j - 1]]
    BY <2>5, <2>6, Zenon
  <2>8. bad = <<n>> \o other
    BY <1>1, <2>2, <2>3, <2>7, PartBuilt
  <2> QED
    BY <1>1, <2>2, <2>8
<1> QED
  <2>1. \/ bad = <<>>
        \/ Len(part) > 1
           /\ bad \in {Front(part), <<part[1] - 1>> \o SubSeq(part, 2, Len(part) - 1)}
        \/ \E i \in 2 .. Len(part) : bad = <<part[1] + 1>> \o Tail(part) \o <<part[i]>>
        \/ \E i \in 2 .. Len(part), v \in Value : bad = [part EXCEPT ![i] = <<@[1], v>>]
    BY DEF DamagedPart
  <2> QED
    BY <1>3, <1>4, <1>5, <1>6, <1>7, <2>1

-----------------------------------------------------------------------------
(* Steps.                                                                  *)

LEMMA SerializedTyped ==
    ASSUME NEW c \in Content, NEW part \in serializeTrie(c)
    PROVE  IsPart(part)
BY PartOfContent DEF IsPart

LEMMA SnapshotOfTyped ==
    ASSUME NEW c \in Content, NEW data \in SnapshotOf(c)
    PROVE  /\ data = [meta |-> c, proof |-> c, part |-> data.part]
           /\ data.part \in serializeTrie(c) /\ IsPart(data.part)
<1>1. PICK part \in serializeTrie(c) : data = [meta |-> c, proof |-> c, part |-> part]
  BY DEF SnapshotOf
<1> QED
  BY <1>1, SerializedTyped

LEMMA InitIInv == Init => IInv
BY SyncAssumption, EmptyTyped, Parts DEF Init

LEMMA NextIInv == IInv /\ [Next]_vars => IInv'
<1> SUFFICES ASSUME IInv, [Next]_vars PROVE IInv'
  OBVIOUS
<1>1. /\ source \in Content /\ target \in Content /\ served \subseteq Content
      /\ verifier \subseteq served \cup {Garbled}
      /\ \A x, y \in offer : x = y
      /\ \A data \in offer : IsData(data)
  BY Parts
<1>2. ASSUME NEW w \in Writes, Update(w[1], w[2]) PROVE IInv'
  <2>1. w[1] \in Key /\ w[2] \in Value
    BY SyncAssumption
  <2>2. source' \in Content
    BY <1>1, <1>2, <2>1 DEF Update, Content
  <2> QED
    BY <1>1, <1>2, <2>2, PartsPrimed DEF Update, IsData
<1>3. ASSUME served' = served \cup {source}, UNCHANGED <<source, verifier, target>>,
             NEW data, offer' = {data},
             data = [meta |-> data.meta, proof |-> data.proof, part |-> data.part],
             data.meta = source, data.proof = source,
             IsPart(data.part)
      PROVE  IInv'
  <2>1. IsData(data)'
    BY <1>3 DEF IsData
  <2> QED
    BY <1>1, <1>3, <2>1, PartsPrimed
<1>4. CASE CreateSnapshot
  <2>1. PICK data \in SnapshotOf(source) : offer' = {data}
    BY <1>4 DEF CreateSnapshot
  <2>2. /\ data = [meta |-> data.meta, proof |-> data.proof, part |-> data.part]
        /\ data.meta = source /\ data.proof = source /\ IsPart(data.part)
    BY <1>1, <2>1, SnapshotOfTyped
  <2> QED
    BY <1>3, <1>4, <2>1, <2>2 DEF CreateSnapshot
<1>5. CASE Damage
  <2>1. PICK data \in offer :
            /\ \E c \in served : data \in SnapshotOf(c)
            /\ \/ \E bad \in {TooShort, Garbled} : offer' = {[data EXCEPT !.meta = bad]}
               \/ offer' = {[data EXCEPT !.proof = Garbled]}
               \/ \E part \in DamagedPart(data.part) :
                    offer' = {[data EXCEPT !.part = part]}
            /\ UNCHANGED <<source, served, verifier, target>>
    BY <1>5 DEF Damage
  <2>2. PICK c \in served : data \in SnapshotOf(c)
    BY <2>1
  <2>3. /\ data = [meta |-> c, proof |-> c, part |-> data.part]
        /\ data.part \in serializeTrie(c) /\ IsPart(data.part)
    BY <1>1, <2>2, SnapshotOfTyped
  <2>4. ASSUME NEW d, offer' = {d}, IsData(d)
        PROVE  IInv'
    <3>1. IsData(d)'
      BY <2>1, <2>4 DEF IsData
    <3> QED
      BY <1>1, <2>1, <2>4, <3>1, PartsPrimed
  <2>5. ASSUME NEW bad \in {TooShort, Garbled}, offer' = {[data EXCEPT !.meta = bad]}
        PROVE  IInv'
    <3>1. [data EXCEPT !.meta = bad] = [meta |-> bad, proof |-> c, part |-> data.part]
      BY <2>3
    <3>2. IsData([meta |-> bad, proof |-> c, part |-> data.part])
      BY <2>2, <2>3 DEF IsData
    <3> QED
      BY <2>4, <2>5, <3>1, <3>2
  <2>6. ASSUME offer' = {[data EXCEPT !.proof = Garbled]}
        PROVE  IInv'
    <3>1. [data EXCEPT !.proof = Garbled] =
                [meta |-> c, proof |-> Garbled, part |-> data.part]
      BY <2>3
    <3>2. IsData([meta |-> c, proof |-> Garbled, part |-> data.part])
      BY <2>2, <2>3 DEF IsData
    <3> QED
      BY <2>4, <2>6, <3>1, <3>2
  <2>7. ASSUME NEW part \in DamagedPart(data.part), offer' = {[data EXCEPT !.part = part]}
        PROVE  IInv'
    <3>1. [data EXCEPT !.part = part] = [meta |-> c, proof |-> c, part |-> part]
      BY <2>3
    <3>2. IsPart(part)
      BY <1>1, <2>2, <2>3, DamagedTyped
    <3>3. IsData([meta |-> c, proof |-> c, part |-> part])
      BY <2>2, <3>2 DEF IsData
    <3> QED
      BY <2>4, <2>7, <3>1, <3>3
  <2> QED
    BY <2>1, <2>5, <2>6, <2>7
<1>6. CASE GetSnapshotVerifier
  <2>1. verifier' \subseteq served' \cup {Garbled}
    BY <1>1, <1>6 DEF GetSnapshotVerifier, IsData
  <2> QED
    BY <1>1, <1>6, <2>1, PartsPrimed DEF GetSnapshotVerifier, IsData
<1>7. CASE Restore
  <2>1. target' \in Content
    BY <1>1, <1>7, DeserializedTyped DEF Restore, IsData
  <2> QED
    BY <1>1, <1>7, <2>1, PartsPrimed DEF Restore, IsData
<1>8. CASE UNCHANGED vars
  BY <1>1, <1>8, PartsPrimed DEF vars, IsData
<1> QED
  BY <1>2, <1>4, <1>5, <1>6, <1>7, <1>8 DEF Next

LEMMA Invariance == Spec => []IInv
BY InitIInv, NextIInv, PTL DEF Spec

-----------------------------------------------------------------------------
(* What follows from it.                                                   *)

\* Contents, commitments and snapshot data are of their kinds, also when
\* they were damaged; a verifier expects what was served or Garbled.
THEOREM TypeCorrect == Spec => []TypeOK
<1>1. IInv => TypeOK
  BY DEF IInv
<1> QED
  BY <1>1, Invariance, PTL

\* Whole snapshots of complete contents are accepted and restored, in
\* whichever order serializeTrie met the entries.
THEOREM WholeSnapshotsCorrect == Spec => []WholeSnapshotsRestore
<1>1. IInv => WholeSnapshotsRestore
  <2> SUFFICES ASSUME IInv, NEW c \in served, Complete(c), NEW data \in SnapshotOf(c)
               PROVE  /\ VerifyRootProof(c, data)
                      /\ VerifyPart(c, 0, data.proof, data.part)
                      /\ Restores(target, data)
    BY DEF WholeSnapshotsRestore
  <2>1. c \in Content
    BY DEF IInv, TypeOK
  <2>2. data = [meta |-> c, proof |-> c, part |-> data.part]
        /\ data.part \in serializeTrie(c)
    BY <2>1, SnapshotOfTyped
  <2>3. data.meta = c /\ data.proof = c
    BY <2>2
  <2>4. ~ Malformed(data.part) /\ Overwritten(Empty, data.part) = c
    BY <2>1, <2>2, CompleteRestored
  <2>5. c # TooShort
    BY <2>1, SyncAssumption
  <2> QED
    BY <2>3, <2>4, <2>5 DEF VerifyRootProof, VerifyPart, Restores, Deserialized
<1> QED
  BY <1>1, Invariance, PTL

\* VerifyPart, which replays the part in a state of its own, and Restore,
\* which replays it in the state that is there, accept the same, but for what
\* only one of them looks at.
THEOREM VerifierCorrect == Spec => []VerifierAgrees
<1>1. IInv => VerifierAgrees
  <2> SUFFICES ASSUME IInv, NEW expected \in verifier, NEW data \in offer
               PROVE  /\ Accepts(expected, data) =>
                            /\ Deserialized(target, data.part) = expected
                            /\ Restores(target, data) <=> data.meta = expected
                      /\ Restores(target, data) =>
                            (Accepts(expected, data)
                                <=> expected = data.meta /\ data.proof = data.meta)
    BY DEF VerifierAgrees
  <2>1. expected # TooShort
    BY SyncAssumption DEF IInv, TypeOK
  <2>2. ~ Malformed(data.part) =>
            Deserialized(target, data.part) = Deserialized(Empty, data.part)
    BY DEF Deserialized
  <2> QED
    BY <2>1, <2>2 DEF Accepts, VerifyRootProof, VerifyPart, Restores
<1> QED
  BY <1>1, Invariance, PTL

\* A Restore that succeeds leaves a content that was served; one that
\* fails leaves the old content or that of the part.
THEOREM RestoreCorrect == Spec => RestoreIsServedOrReported
<1> DEFINE Right ==
        \A data \in offer :
            target' # target =>
                /\ Restores(target, data) => target' \in served
                /\ target' = Deserialized(Empty, data.part)
<1>1. IInv /\ [Next]_vars => [Right]_vars
  <2> SUFFICES ASSUME IInv, [Next]_vars, NEW data \in offer, target' # target
               PROVE  /\ Restores(target, data) => target' \in served
                      /\ target' = Deserialized(Empty, data.part)
    OBVIOUS
  <2>1. Restore
    BY DEF Next, vars, Update, CreateSnapshot, Damage, GetSnapshotVerifier
  <2>2. target' = Deserialized(target, data.part) /\ data.meta # TooShort
    BY <2>1 DEF Restore, IInv, Offered
  <2>3. target' = Deserialized(Empty, data.part)
    BY <2>2 DEF Deserialized
  <2>4. IsData(data) /\ target \in Content
    BY Parts
  <2>5. ASSUME Restores(target, data) PROVE target' \in served
    <3>1. target' = data.meta
      BY <2>2, <2>5 DEF Restores
    <3>2. target' \in Content
      BY <2>2, <2>4, DeserializedTyped DEF IsData
    <3> QED
      BY <2>2, <2>4, <3>1, <3>2, SyncAssumption DEF IsData
  <2> QED
    BY <2>3, <2>5
<1> QED
  BY <1>1, Invariance, PTL DEF Spec, RestoreIsServedOrReported
=============================================================================
