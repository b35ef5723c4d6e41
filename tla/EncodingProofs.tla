--------------------------- MODULE EncodingProofs ---------------------------
(***************************************************************************)
(* What TLAPS proves about the encodings of code and of leaves.  Codes of  *)
(* any length survive splitCode and merge, for every chunk size, and the   *)
(* byte in front of a chunk says how much of it is push data.  The vectors *)
(* of a leaf tell its content, for every width, limb and field order.      *)
(***************************************************************************)
EXTENDS CodeChunks, LeafLayout, FiniteSetTheorems, WellFoundedInduction, TLAPS

-----------------------------------------------------------------------------
(* Code chunks.                                                            *)

LEMMA Quotient ==
    ASSUME NEW n \in Nat
    PROVE  /\ n \div ChunkSize \in Nat
           /\ n % ChunkSize \in 0 .. ChunkSize - 1
           /\ n = ChunkSize * (n \div ChunkSize) + (n % ChunkSize)
BY ChunkAssumption

LEMMA Monotone ==
    ASSUME NEW m \in Nat, NEW n \in Nat, m <= n
    PROVE  ChunkSize * m <= ChunkSize * n
<1>1. PICK d \in Nat : n = m + d
  <2>1. n - m \in Nat /\ n = m + (n - m)
    OBVIOUS
  <2> QED
    BY <2>1
<1>2. ChunkSize \in Nat
  BY ChunkAssumption
<1>3. ChunkSize * n = ChunkSize * m + ChunkSize * d
  BY <1>1, <1>2
<1>4. ChunkSize * d \in Nat /\ ChunkSize * m \in Nat
  BY <1>1, <1>2
<1> QED
  BY <1>3, <1>4

\* There is a chunk for each byte, and the byte is in it.
LEMMA ByteInChunk ==
    ASSUME NEW c \in Seq(Byte), NEW p \in 1 .. Len(c)
    PROVE  LET q == (p - 1) \div ChunkSize
               r == (p - 1) % ChunkSize
           IN  /\ q \in Nat /\ q < NumChunks(c)
               /\ r + 1 \in 1 .. ChunkSize
               /\ ChunkBytes(c, q)[r + 1] = c[p]
<1> DEFINE q == (p - 1) \div ChunkSize
           r == (p - 1) % ChunkSize
           n == NumChunks(c)
           k == Len(c) + ChunkSize - 1
           s == k % ChunkSize
<1>1. ChunkSize \in Nat /\ ChunkSize > 0 /\ Len(c) \in Nat /\ p - 1 \in Nat /\ k \in Nat
  BY ChunkAssumption
<1>2. q \in Nat /\ r \in 0 .. ChunkSize - 1 /\ p - 1 = ChunkSize * q + r
  BY <1>1, Quotient
<1>3. n \in Nat /\ s \in 0 .. ChunkSize - 1 /\ k = ChunkSize * n + s
  BY <1>1, Quotient DEF NumChunks
<1>4. q < n
  <2>1. SUFFICES ASSUME n <= q PROVE FALSE
    BY <1>2, <1>3
  <2>2. ChunkSize * n <= ChunkSize * q
    BY <2>1, <1>2, <1>3, Monotone
  <2>3. ChunkSize * n \in Nat /\ ChunkSize * q \in Nat
    BY <1>1, <1>2, <1>3
  <2> HIDE DEF q, r, n, s
  <2> QED
    BY <1>1, <1>2, <1>3, <2>2, <2>3
<1>5. ChunkSize * q + (r + 1) = p /\ r + 1 \in 1 .. ChunkSize
  <2>1. ChunkSize * q \in Nat
    BY <1>1, <1>2
  <2> HIDE DEF q, r
  <2> QED
    BY <1>1, <1>2, <2>1
<1>6. ChunkBytes(c, q)[r + 1] = c[p]
  <2> HIDE DEF q, r
  <2> QED
    BY <1>5 DEF ChunkBytes
<1> QED
  BY <1>2, <1>4, <1>5, <1>6

LEMMA NumChunksType ==
    ASSUME NEW c \in Seq(Byte)
    PROVE  NumChunks(c) \in Nat
<1>1. Len(c) + ChunkSize - 1 \in Nat
  BY ChunkAssumption
<1> QED
  BY <1>1, Quotient DEF NumChunks


\* The prefix of a chunk counts some of its bytes.
LEMMA PrefixType ==
    ASSUME NEW c, NEW i \in Nat
    PROVE  Prefix(c, i) \in 0 .. ChunkSize
<1> DEFINE S == ChunkSize * i .. ChunkSize * (i + 1) - 1
           T == {j \in S : j < Scanned(c) /\ (ChunkSize * i .. j) \cap isCode(c) = {}}
<1>1. /\ ChunkSize \in Nat /\ ChunkSize > 0 /\ ChunkSize * i \in Nat
      /\ ChunkSize * (i + 1) = ChunkSize * i + ChunkSize
  BY ChunkAssumption
<1>2. IsFiniteSet(S) /\ Cardinality(S) = ChunkSize
  <2> DEFINE lo == ChunkSize * i
             hi == ChunkSize * (i + 1) - 1
  <2>1. lo \in Int /\ hi \in Int /\ ~ (lo > hi) /\ hi - lo + 1 = ChunkSize
    BY <1>1
  <2> HIDE DEF lo, hi
  <2>2. IsFiniteSet(lo .. hi) /\ Cardinality(lo .. hi) = ChunkSize
    BY <2>1, FS_Interval
  <2> QED
    BY <2>2 DEF lo, hi
<1>3. T \in SUBSET S
  OBVIOUS
<1> HIDE DEF S
<1>4. IsFiniteSet(T) /\ Cardinality(T) <= ChunkSize
  BY <1>2, <1>3, FS_Subset
<1>5. Cardinality(T) \in Nat
  BY <1>4, FS_CardinalityType
<1>6. Prefix(c, i) = Cardinality(T)
  BY DEF Prefix, S
<1> HIDE DEF T
<1> QED
  BY <1>1, <1>4, <1>5, <1>6

Chunk == [data : 0 .. ChunkSize, bytes : [1 .. ChunkSize -> Byte]]

\* The chunks of a code.
LEMMA SplitType ==
    ASSUME NEW c \in Seq(Byte)
    PROVE  /\ splitCode(c) \in Seq(Chunk)
           /\ Len(splitCode(c)) = NumChunks(c)
           /\ \A n \in 1 .. NumChunks(c) : splitCode(c)[n].bytes = ChunkBytes(c, n - 1)
<1>1. NumChunks(c) \in Nat
  BY NumChunksType
<1>2. ASSUME NEW n \in 1 .. NumChunks(c)
      PROVE  [data |-> Prefix(c, n - 1), bytes |-> ChunkBytes(c, n - 1)] \in Chunk
  <2>1. n - 1 \in Nat
    BY <1>1
  <2>2. Prefix(c, n - 1) \in 0 .. ChunkSize
    BY <2>1, PrefixType
  <2>3. ChunkBytes(c, n - 1) \in [1 .. ChunkSize -> Byte]
    <3>1. ASSUME NEW j \in 1 .. ChunkSize, ChunkSize * (n - 1) + j <= Len(c)
          PROVE  c[ChunkSize * (n - 1) + j] \in Byte
      <4>1. ChunkSize * (n - 1) \in Nat
        BY <2>1, ChunkAssumption
      <4>2. ChunkSize * (n - 1) + j \in 1 .. Len(c)
        BY <3>1, <4>1
      <4> QED
        BY <4>2
    <3>2. 0 \in Byte
      BY ChunkAssumption
    <3> QED
      BY <3>1, <3>2 DEF ChunkBytes
  <2> QED
    BY <2>2, <2>3 DEF Chunk
<1> QED
  BY <1>1, <1>2 DEF splitCode

\* merge of the chunks of c, and of any that follow, is c.
LEMMA MergeOfSplit ==
    ASSUME NEW c \in Seq(Byte), NEW chunks,
           Len(chunks) \in Nat, Len(chunks) >= NumChunks(c),
           \A n \in 1 .. NumChunks(c) : chunks[n] = splitCode(c)[n]
    PROVE  merge(chunks, Len(c)) = c
<1>1. ASSUME NEW p \in 1 .. Len(c)
      PROVE  merge(chunks, Len(c))[p] = c[p]
  <2> DEFINE q == (p - 1) \div ChunkSize
             r == (p - 1) % ChunkSize
  <2>1. q \in Nat /\ q < NumChunks(c) /\ ChunkBytes(c, q)[r + 1] = c[p]
    BY ByteInChunk
  <2>2. NumChunks(c) \in Nat
    BY NumChunksType
  <2>3. merge(chunks, Len(c))[p] = IF q < Len(chunks) THEN chunks[q + 1].bytes[r + 1] ELSE 0
    BY DEF merge
  <2> HIDE DEF q, r
  <2>4. q + 1 \in 1 .. NumChunks(c) /\ q < Len(chunks) /\ (q + 1) - 1 = q
    BY <2>1, <2>2
  <2>5. chunks[q + 1].bytes = ChunkBytes(c, q)
    BY <2>4, SplitType
  <2> QED
    BY <2>1, <2>3, <2>4, <2>5
<1>2. merge(chunks, Len(c)) = [p \in 1 .. Len(c) |-> merge(chunks, Len(c))[p]]
  BY DEF merge
<1>3. c = [p \in 1 .. Len(c) |-> c[p]]
  OBVIOUS
<1> QED
  BY <1>1, <1>2, <1>3

-----------------------------------------------------------------------------

\* The inductive invariant: code and scanner are sequences, one longer.
Typed ==
    /\ code \in Seq(Byte)
    /\ open \in Seq(Nat)
    /\ Len(open) = Len(code) + 1

LEMMA PushedType ==
    ASSUME NEW b \in Byte
    PROVE  Pushed(b) \in Nat
BY ChunkAssumption DEF Pushed

LEMMA AlwaysTyped == CodeSpec => []Typed
<1>1. CodeInit => Typed
  BY DEF CodeInit, Typed
<1>2. Typed /\ [CodeNext]_codeVars => Typed'
  <2> SUFFICES ASSUME Typed, [CodeNext]_codeVars PROVE Typed'
    OBVIOUS
  <2>1. CASE UNCHANGED codeVars
    BY <2>1 DEF codeVars, Typed
  <2>2. ASSUME NEW b \in Byte, Write(b) PROVE Typed'
    <3> DEFINE left == open[Len(open)]
               next == IF left > 0 THEN left - 1 ELSE Pushed(b)
    <3>1. Len(open) \in 1 .. Len(open)
      BY DEF Typed
    <3>2. left \in Nat
      BY <3>1 DEF Typed
    <3>3. next \in Nat
      BY <3>2, PushedType
    <3>4. code' = Append(code, b) /\ open' = Append(open, next)
      BY <2>2 DEF Write
    <3> HIDE DEF next
    <3> QED
      BY <3>3, <3>4 DEF Typed
  <2> QED
    BY <2>1, <2>2 DEF CodeNext
<1> QED
  BY <1>1, <1>2, PTL DEF CodeSpec

\* Chunks have the size they should have, and the count of push data in
\* front fits the chunk, for all codes and chunk sizes.
THEOREM TypeCorrect == CodeSpec => []CodeTypeOK
<1>1. Typed => CodeTypeOK
  <2> SUFFICES ASSUME Typed PROVE CodeTypeOK
    OBVIOUS
  <2>1. ASSUME NEW n \in DOMAIN splitCode(code)
        PROVE  /\ splitCode(code)[n].data \in 0 .. ChunkSize
               /\ splitCode(code)[n].bytes \in [1 .. ChunkSize -> Byte]
    <3>1. splitCode(code)[n] \in Chunk
      BY SplitType DEF Typed
    <3> QED
      BY <3>1 DEF Chunk
  <2> QED
    BY <2>1 DEF Typed, CodeTypeOK
<1> QED
  BY <1>1, AlwaysTyped, PTL

\* merge undoes splitCode, for codes of every length and whatever chunks
\* follow: nothing of a code is lost, and zeros at its end are not taken for
\* padding.
THEOREM MergeCorrect == CodeSpec => []MergeRestores
<1>1. Typed => MergeRestores
  <2> SUFFICES ASSUME Typed PROVE MergeRestores
    OBVIOUS
  <2> DEFINE s == splitCode(code)
             n == NumChunks(code)
  <2>1. s \in Seq(Chunk) /\ Len(s) = n /\ n \in Nat
    BY SplitType, NumChunksType DEF Typed
  <2>2. merge(s, Len(code)) = code
    <3>1. Len(s) \in Nat /\ Len(s) >= n
      BY <2>1
    <3> QED
      BY <3>1, MergeOfSplit DEF Typed
  <2>3. merge(s \o s, Len(code)) = code
    <3> DEFINE t == s \o s
    <3> HIDE DEF s, n
    <3>1. Len(t) \in Nat /\ Len(t) >= n /\ \A k \in 1 .. n : t[k] = s[k]
      BY <2>1
    <3> HIDE DEF t
    <3>2. merge(t, Len(code)) = code
      BY <3>1, MergeOfSplit DEF Typed, s, n
    <3> QED
      BY <3>2 DEF t
  <2> QED
    BY <2>2, <2>3 DEF MergeRestores
<1> QED
  BY <1>1, AlwaysTyped, PTL

-----------------------------------------------------------------------------
(* The walk over a code.                                                   *)

\* A non-empty set of naturals has a least element.
LEMMA NatMin ==
    ASSUME NEW S \in SUBSET Nat, S # {}
    PROVE  \E x \in S : \A y \in S : x <= y
<1>1. \E R : /\ IsWellFoundedOn(R, Nat)
             /\ \A x, y \in Nat : y < x => <<y, x>> \in R
  <2>1. IsWellFoundedOn(OpToRel(<, Nat), Nat)
    BY NatLessThanWellFounded
  <2>2. \A x, y \in Nat : y < x => <<y, x>> \in OpToRel(<, Nat)
    BY DEF OpToRel
  <2> QED
    BY <2>1, <2>2
<1>2. PICK R : /\ IsWellFoundedOn(R, Nat)
               /\ \A x, y \in Nat : y < x => <<y, x>> \in R
  BY <1>1
<1>3. PICK x \in S : \A y \in S : ~ (<<y, x>> \in R)
  BY <1>2, WFMin
<1>4. \A y \in S : ~ (y < x)
  BY <1>2, <1>3
<1>5. \A y \in S : x <= y
  BY <1>4
<1> QED
  BY <1>5

\* The bytes of push data after position i.
PushAt(bytes, i) == IF i < Len(bytes) THEN Pushed(bytes[i + 1]) ELSE 0

\* f is what Walk(bytes, from, n) reads its result from.
IsFound(bytes, n, f) ==
    f = [i \in 0 .. n + ChunkSize + 1 |->
            IF i >= n THEN {}
            ELSE {i} \cup f[i + 1 + (IF i < Len(bytes) THEN Pushed(bytes[i + 1]) ELSE 0)]]

LEMMA PushBound ==
    ASSUME NEW bytes \in Seq(Byte), NEW i \in Nat
    PROVE  PushAt(bytes, i) \in 0 .. ChunkSize + 1
<1>1. CASE i < Len(bytes)
  <2>1. bytes[i + 1] \in Byte
    BY <1>1
  <2>2. ASSUME NEW b \in Nat PROVE Pushed(b) \in 0 .. ChunkSize + 1
    <3>1. PUSH1 \in Nat /\ ChunkSize \in Nat /\ PUSH32 = PUSH1 + ChunkSize
      BY ChunkAssumption
    <3>2. CASE PUSH1 <= b /\ b <= PUSH32
      <4>1. b - PUSH1 + 1 \in 0 .. ChunkSize + 1
        BY <3>1, <3>2
      <4> QED
        BY <3>2, <4>1 DEF Pushed
    <3>3. CASE ~ (PUSH1 <= b /\ b <= PUSH32)
      BY <3>1, <3>3 DEF Pushed
    <3> QED
      BY <3>2, <3>3
  <2>3. bytes[i + 1] \in Nat
    BY <2>1, ChunkAssumption
  <2> QED
    BY <1>1, <2>2, <2>3 DEF PushAt
<1>2. CASE ~ (i < Len(bytes))
  BY <1>2, ChunkAssumption DEF PushAt
<1> QED
  BY <1>1, <1>2

\* There is such an f: the positions a walk from i meets are those in every
\* set that has i and, with a position, the next instruction's.
LEMMA FoundExists ==
    ASSUME NEW bytes \in Seq(Byte), NEW n \in Nat
    PROVE  \E f : IsFound(bytes, n, f)
<1> DEFINE N == n + ChunkSize + 1
           next(i) == i + 1 + PushAt(bytes, i)
           Closed(S) == \A k \in S : k < n => next(k) \in S
           f == [i \in 0 .. N |->
                    {j \in 0 .. n - 1 : \A S \in SUBSET Nat : i \in S /\ Closed(S) => j \in S}]
<1>1. /\ N \in Nat /\ ChunkSize \in Nat /\ \A i \in Nat : next(i) \in Nat /\ next(i) > i
      /\ \A i \in 0 .. n - 1 : next(i) \in 0 .. N
  <2>1. N \in Nat /\ ChunkSize \in Nat
    BY ChunkAssumption
  <2>2. ASSUME NEW i \in Nat
        PROVE  next(i) \in Nat /\ next(i) > i /\ next(i) <= i + 1 + ChunkSize + 1
    <3>1. PushAt(bytes, i) \in 0 .. ChunkSize + 1
      BY PushBound
    <3> QED
      BY <2>1, <3>1
  <2>3. ASSUME NEW i \in 0 .. n - 1 PROVE next(i) \in 0 .. N
    <3>1. i \in Nat
      OBVIOUS
    <3>2. next(i) \in Nat /\ next(i) <= i + 1 + ChunkSize + 1
      BY <2>2, <3>1
    <3> HIDE DEF next
    <3> QED
      BY <2>1, <3>2
  <2> QED
    BY <2>1, <2>2, <2>3
<1> HIDE DEF next, N
<1>2. ASSUME NEW i \in 0 .. N, i >= n PROVE f[i] = {}
  <2>1. i \in Nat /\ {i} \in SUBSET Nat
    BY <1>1
  <2>2. \A k \in {i} : k < n => next(k) \in {i}
    BY <2>1, <1>2
  <2>3. ASSUME NEW j \in f[i] PROVE FALSE
    <3>1. j \in {i} /\ j \in 0 .. n - 1
      BY <2>1, <2>2, <2>3
    <3> QED
      BY <3>1, <1>2
  <2> QED
    BY <2>3
<1>3. ASSUME NEW i \in 0 .. N, ~ (i >= n) PROVE f[i] = {i} \cup f[next(i)]
  <2>1. i \in 0 .. n - 1 /\ i \in Nat /\ next(i) \in 0 .. N /\ next(i) \in Nat
    BY <1>1, <1>3
  <2>2. i \in f[i]
    BY <2>1
  <2>3. ASSUME NEW j \in f[next(i)] PROVE j \in f[i]
    BY <2>1, <2>3
  <2>4. ASSUME NEW j \in f[i], j # i PROVE j \in f[next(i)]
    <3> SUFFICES ASSUME NEW S \in SUBSET Nat, next(i) \in S, Closed(S) PROVE j \in S
      BY <2>1, <2>4
    <3>1. S \cup {i} \in SUBSET Nat /\ Closed(S \cup {i})
      BY <2>1
    <3> QED
      BY <2>1, <2>4, <3>1
  <2> QED
    BY <2>2, <2>3, <2>4
<1>4. \E F : F = f
  OBVIOUS
<1>5. f = [i \in 0 .. N |-> IF i >= n THEN {} ELSE {i} \cup f[next(i)]]
  BY <1>2, <1>3, <1>4
<1> QED
  BY <1>5 DEF IsFound, next, PushAt, N

\* left[i] is the number of bytes at position i and after it that are push
\* data, for every position from 0 up to n.
Scans(left, bytes, n) ==
    /\ left \in [0 .. n -> 0 .. ChunkSize + 1]
    /\ \A i \in 0 .. n - 1 :
        left[i + 1] = IF left[i] > 0 THEN left[i] - 1 ELSE PushAt(bytes, i)

\* A walk that starts behind the push data at position i finds the positions
\* from i on that are not push data.
LEMMA WalkFinds ==
    ASSUME NEW bytes \in Seq(Byte), NEW n \in Nat, NEW left, Scans(left, bytes, n),
           NEW i \in 0 .. n
    PROVE  Walk(bytes, i + left[i], n) = {j \in i .. n - 1 : left[j] = 0}
<1>1. PICK f : IsFound(bytes, n, f) /\ \A m : Walk(bytes, m, n) = f[m]
  <2> DEFINE f == CHOOSE g : IsFound(bytes, n, g)
  <2>1. IsFound(bytes, n, f)
    BY FoundExists
  <2>2. \A m : Walk(bytes, m, n) = f[m]
    BY DEF Walk, IsFound
  <2> QED
    BY <2>1, <2>2
<1> DEFINE Code(k) == {j \in k .. n - 1 : left[j] = 0}
           Bad == {k \in 0 .. n : f[k + left[k]] # Code(k)}
           Left == {n - k : k \in Bad}
<1>2. /\ ChunkSize \in Nat
      /\ \A k \in 0 .. n : left[k] \in 0 .. ChunkSize + 1
      /\ \A k \in 0 .. n - 1 :
            left[k + 1] = IF left[k] > 0 THEN left[k] - 1 ELSE PushAt(bytes, k)
  BY ChunkAssumption DEF Scans
<1>3. \A k \in 0 .. n + ChunkSize + 1 :
        f[k] = IF k >= n THEN {} ELSE {k} \cup f[k + 1 + PushAt(bytes, k)]
  BY <1>1 DEF IsFound, PushAt
<1>4. SUFFICES ASSUME Bad # {} PROVE FALSE
  BY <1>1
<1>5. Left \in SUBSET Nat /\ Left # {}
  <2>1. \A k \in Bad : n - k \in Nat
    OBVIOUS
  <2> QED
    BY <1>4, <2>1
<1>6. PICK x \in Left : \A y \in Left : x <= y
  BY <1>5, NatMin
<1>7. PICK k \in Bad : x = n - k
  OBVIOUS
<1>8. k \in 0 .. n /\ f[k + left[k]] # Code(k)
  OBVIOUS
<1>9. k # n
  <2> SUFFICES ASSUME k = n PROVE FALSE
    OBVIOUS
  <2>1. n + left[n] \in 0 .. n + ChunkSize + 1 /\ n + left[n] >= n
    BY <1>2
  <2>2. f[n + left[n]] = {}
    BY <1>3, <2>1
  <2>3. Code(n) = {}
    OBVIOUS
  <2> QED
    BY <1>8, <2>2, <2>3
<1>10. k \in 0 .. n - 1 /\ k + 1 \in 0 .. n
  BY <1>8, <1>9
<1>11. f[(k + 1) + left[k + 1]] = Code(k + 1)
  <2> SUFFICES ASSUME f[(k + 1) + left[k + 1]] # Code(k + 1) PROVE FALSE
    OBVIOUS
  <2>1. n - (k + 1) \in Left
    BY <1>10
  <2>2. x <= n - (k + 1)
    BY <1>6, <2>1
  <2> QED
    BY <1>7, <1>10, <2>2
<1> HIDE DEF Bad, Left
<1>12. CASE left[k] > 0
  <2>1. (k + 1) + left[k + 1] = k + left[k]
    BY <1>2, <1>10, <1>12
  <2>2. Code(k) = Code(k + 1)
    BY <1>2, <1>10, <1>12
  <2> QED
    BY <1>8, <1>11, <2>1, <2>2
<1>13. CASE ~ (left[k] > 0)
  <2>1. left[k] = 0 /\ left[k + 1] = PushAt(bytes, k)
    BY <1>2, <1>10, <1>13
  <2>2. f[k] = {k} \cup f[k + 1 + PushAt(bytes, k)]
    <3>1. k \in 0 .. n + ChunkSize + 1 /\ ~ (k >= n)
      BY <1>2, <1>10
    <3> QED
      BY <1>3, <3>1
  <2>3. k + left[k] = k /\ k + 1 + PushAt(bytes, k) = (k + 1) + left[k + 1]
    BY <1>10, <2>1
  <2>4. Code(k) = {k} \cup Code(k + 1)
    BY <1>10, <2>1
  <2> QED
    BY <1>8, <1>11, <2>2, <2>3, <2>4
<1> QED
  BY <1>12, <1>13

\* Where push data lasts for several bytes, one less is left at each of them.
LEMMA RunsDown ==
    ASSUME NEW bytes, NEW n \in Nat, NEW left, Scans(left, bytes, n),
           NEW i \in 0 .. n, NEW k \in 0 .. n - i, k <= left[i]
    PROVE  left[i + k] = left[i] - k
<1> DEFINE Bad == {d \in 0 .. n - i : d <= left[i] /\ left[i + d] # left[i] - d}
<1>1. /\ ChunkSize \in Nat /\ i \in Nat /\ left[i] \in Nat
      /\ \A d \in 0 .. n - i : i + d \in 0 .. n
      /\ \A j \in 0 .. n - 1 : left[j] > 0 => left[j + 1] = left[j] - 1
  BY ChunkAssumption DEF Scans
<1>2. SUFFICES ASSUME Bad # {} PROVE FALSE
  BY <1>1
<1>3. Bad \in SUBSET Nat
  OBVIOUS
<1>4. PICK d \in Bad : \A y \in Bad : d <= y
  BY <1>2, <1>3, NatMin
<1>5. d \in 0 .. n - i /\ d <= left[i] /\ left[i + d] # left[i] - d
  OBVIOUS
<1>6. d # 0
  BY <1>1, <1>5
<1>7. d - 1 \in 0 .. n - i /\ d - 1 <= left[i] /\ ~ (d <= d - 1)
  BY <1>1, <1>5, <1>6
<1>8. left[i + (d - 1)] = left[i] - (d - 1)
  BY <1>4, <1>7
<1>9. i + (d - 1) \in 0 .. n - 1 /\ (i + (d - 1)) + 1 = i + d
  BY <1>1, <1>5, <1>6
<1>10. left[i] - (d - 1) > 0 /\ (left[i] - (d - 1)) - 1 = left[i] - d
  BY <1>1, <1>5, <1>6
<1>11. left[i + d] = left[i] - d
  BY <1>1, <1>8, <1>9, <1>10
<1> QED
  BY <1>5, <1>11

\* From the end of the bytes on, a walk finds nothing.
LEMMA WalkEnds ==
    ASSUME NEW bytes \in Seq(Byte), NEW n \in Nat
    PROVE  Walk(bytes, n, n) = {}
<1> DEFINE f == CHOOSE g : IsFound(bytes, n, g)
<1>1. IsFound(bytes, n, f)
  BY FoundExists
<1>2. Walk(bytes, n, n) = f[n]
  BY DEF Walk, IsFound
<1>3. n \in 0 .. n + ChunkSize + 1 /\ n >= n
  BY ChunkAssumption
<1> HIDE DEF f
<1> QED
  BY <1>1, <1>2, <1>3 DEF IsFound

\* The inductive invariant: the scanner counts the push data of the code.
ScanInv ==
    /\ code \in Seq(Byte)
    /\ open \in Seq(0 .. ChunkSize + 1)
    /\ Len(open) = Len(code) + 1
    /\ open[1] = 0
    /\ \A i \in 1 .. Len(code) :
        open[i + 1] = IF open[i] > 0 THEN open[i] - 1 ELSE Pushed(code[i])

LEMMA PushedBound ==
    ASSUME NEW b \in Byte
    PROVE  Pushed(b) \in 0 .. ChunkSize + 1
<1>1. <<b>> \in Seq(Byte) /\ 0 < Len(<<b>>) /\ <<b>>[0 + 1] = b
  OBVIOUS
<1>2. PushAt(<<b>>, 0) = Pushed(b)
  BY <1>1 DEF PushAt
<1> QED
  BY <1>1, <1>2, PushBound

LEMMA AlwaysScanned == CodeSpec => []ScanInv
<1>1. CodeInit => ScanInv
  BY ChunkAssumption DEF CodeInit, ScanInv
<1>2. ScanInv /\ [CodeNext]_codeVars => ScanInv'
  <2> SUFFICES ASSUME ScanInv, [CodeNext]_codeVars PROVE ScanInv'
    OBVIOUS
  <2>1. CASE UNCHANGED codeVars
    BY <2>1 DEF codeVars, ScanInv
  <2>2. ASSUME NEW b \in Byte, Write(b) PROVE ScanInv'
    <3> DEFINE left == open[Len(open)]
               next == IF left > 0 THEN left - 1 ELSE Pushed(b)
    <3>1. /\ Len(code) \in Nat /\ ChunkSize \in Nat
          /\ Len(open) = Len(code) + 1 /\ Len(open) \in 1 .. Len(open)
      BY ChunkAssumption DEF ScanInv
    <3>2. left \in 0 .. ChunkSize + 1
      BY <3>1 DEF ScanInv
    <3>3. next \in 0 .. ChunkSize + 1
      BY <3>1, <3>2, PushedBound
    <3>4. code' = Append(code, b) /\ open' = Append(open, next)
      BY <2>2 DEF Write
    <3>5. ASSUME NEW i \in 1 .. Len(code')
          PROVE  open'[i + 1] = IF open'[i] > 0 THEN open'[i] - 1 ELSE Pushed(code'[i])
      <4> HIDE DEF next
      <4>1. CASE i \in 1 .. Len(code)
        <5>1. i \in 1 .. Len(open) /\ i + 1 \in 1 .. Len(open)
          BY <3>1, <4>1
        <5>2. open'[i + 1] = open[i + 1] /\ open'[i] = open[i] /\ code'[i] = code[i]
          BY <3>3, <3>4, <4>1, <5>1 DEF ScanInv
        <5> QED
          BY <4>1, <5>2 DEF ScanInv
      <4>2. CASE i = Len(code) + 1
        <5>1. i = Len(open) /\ i + 1 = Len(open) + 1
          BY <3>1, <4>2
        <5>2. open'[i + 1] = next /\ open'[i] = left /\ code'[i] = b
          BY <3>1, <3>3, <3>4, <4>2, <5>1 DEF ScanInv
        <5> QED
          BY <5>2 DEF next
      <4> QED
        BY <3>1, <3>4, <4>1, <4>2 DEF ScanInv
    <3> HIDE DEF next
    <3>6. code' \in Seq(Byte) /\ open' \in Seq(0 .. ChunkSize + 1) /\ Len(open') = Len(code') + 1
      BY <3>3, <3>4 DEF ScanInv
    <3>7. open'[1] = 0
      BY <3>1, <3>3, <3>4 DEF ScanInv
    <3> QED
      BY <3>5, <3>6, <3>7 DEF ScanInv
  <2> QED
    BY <2>1, <2>2 DEF CodeNext
<1> QED
  BY <1>1, <1>2, PTL DEF CodeSpec

\* The push data left at a position, as far as splitCode looks: what a last
\* push lacks is taken to be there.
Left ==
    [k \in 0 .. Scanned(code) |->
        IF k <= Len(code) THEN open[k + 1]
        ELSE IF k - Len(code) < open[Len(code) + 1]
        THEN open[Len(code) + 1] - (k - Len(code)) ELSE 0]

LEMMA LeftScans ==
    ASSUME ScanInv
    PROVE  /\ Scanned(code) \in Nat
           /\ Scans(Left, code, Scanned(code))
           /\ Left[0] = 0
<1> DEFINE N == Scanned(code)
           L == Len(code)
           e == open[L + 1]
<1>1. /\ ChunkSize \in Nat /\ L \in Nat /\ N \in Nat /\ L <= N
      /\ e \in 0 .. ChunkSize + 1
      /\ \A k \in 0 .. L : open[k + 1] \in 0 .. ChunkSize + 1
  BY ChunkAssumption DEF ScanInv, Scanned
<1>2. Left = [k \in 0 .. N |-> IF k <= L THEN open[k + 1]
                               ELSE IF k - L < e THEN e - (k - L) ELSE 0]
  BY DEF Left
<1>3. ASSUME NEW i \in 0 .. N - 1
      PROVE  Left[i + 1] = IF Left[i] > 0 THEN Left[i] - 1 ELSE PushAt(code, i)
  <2>1. i \in 0 .. N /\ i + 1 \in 0 .. N
    BY <1>1
  <2>2. CASE i < L
    <3>1. i + 1 \in 1 .. L /\ i <= L /\ i + 1 <= L
      BY <1>1, <2>2
    <3>2. open[(i + 1) + 1] = IF open[i + 1] > 0 THEN open[i + 1] - 1 ELSE Pushed(code[i + 1])
      BY <3>1 DEF ScanInv
    <3>3. Left[i] = open[i + 1] /\ Left[i + 1] = open[(i + 1) + 1]
      BY <1>2, <2>1, <3>1
    <3>4. PushAt(code, i) = Pushed(code[i + 1])
      BY <2>2 DEF PushAt
    <3> QED
      BY <3>2, <3>3, <3>4
  <2>3. CASE ~ (i < L)
    <3>1. PushAt(code, i) = 0
      BY <2>3 DEF PushAt
    <3>2. Left[i] = IF i - L < e THEN e - (i - L) ELSE 0
      <4>1. CASE i = L
        <5>1. Left[i] = e /\ i - L = 0 /\ e - (i - L) = e
          BY <1>1, <1>2, <2>1, <4>1
        <5> HIDE DEF e, L, N
        <5> QED
          BY <1>1, <5>1
      <4>2. CASE i # L
        <5>1. ~ (i <= L)
          BY <1>1, <2>3, <4>2
        <5> QED
          BY <1>2, <2>1, <5>1
      <4> QED
        BY <4>1, <4>2
    <3>3. Left[i + 1] = IF (i + 1) - L < e THEN e - ((i + 1) - L) ELSE 0
      <4>1. ~ (i + 1 <= L)
        BY <1>1, <2>3
      <4> QED
        BY <1>2, <2>1, <4>1
    <3> HIDE DEF e, L, N
    <3> QED
      BY <1>1, <2>3, <3>1, <3>2, <3>3
  <2> QED
    BY <2>2, <2>3
<1>4. Left \in [0 .. N -> 0 .. ChunkSize + 1]
  <2> SUFFICES ASSUME NEW k \in 0 .. N PROVE Left[k] \in 0 .. ChunkSize + 1
    BY <1>2
  <2>1. CASE k <= L
    <3>1. Left[k] = open[k + 1] /\ k \in 0 .. L
      BY <1>1, <1>2, <2>1
    <3> QED
      BY <1>1, <3>1
  <2>2. CASE ~ (k <= L)
    <3>1. Left[k] = IF k - L < e THEN e - (k - L) ELSE 0
      BY <1>2, <2>2
    <3>2. k \in Nat /\ k > L
      BY <1>1, <2>2
    <3> HIDE DEF e, L, N
    <3> QED
      BY <1>1, <3>1, <3>2
  <2> QED
    BY <2>1, <2>2
<1>5. Left[0] = 0
  <2>1. 0 \in 0 .. N /\ 0 <= L
    BY <1>1
  <2> QED
    BY <1>2, <2>1 DEF ScanInv
<1> QED
  BY <1>1, <1>3, <1>4, <1>5 DEF Scans

\* isCode holds at the positions that are not push data.
LEMMA IsCode ==
    ASSUME ScanInv
    PROVE  isCode(code) = {j \in 0 .. Scanned(code) - 1 : Left[j] = 0}
<1>1. /\ code \in Seq(Byte) /\ Scanned(code) \in Nat
      /\ Scans(Left, code, Scanned(code)) /\ Left[0] = 0
  BY LeftScans DEF ScanInv
<1>2. 0 \in 0 .. Scanned(code) /\ 0 + Left[0] = 0
  BY <1>1
<1> HIDE DEF Left, Scanned
<1> QED
  BY <1>1, <1>2, WalkFinds DEF isCode

\* What splitCode looks at reaches to the end of the last chunk.
LEMMA ChunkScanned ==
    ASSUME ScanInv, NEW n \in DOMAIN splitCode(code)
    PROVE  /\ n - 1 \in Nat /\ n \in 1 .. NumChunks(code)
           /\ ChunkSize * (n - 1) \in 0 .. Len(code) - 1
           /\ ChunkSize * (n - 1) + ChunkSize \in 0 .. Scanned(code)
<1> DEFINE K == NumChunks(code)
           a == Len(code) + ChunkSize - 1
<1>1. ChunkSize \in Nat \ {0} /\ Len(code) \in Nat /\ a \in Nat
  BY ChunkAssumption DEF ScanInv
<1>2. K \in Nat /\ a % ChunkSize \in 0 .. ChunkSize - 1 /\ a = ChunkSize * K + (a % ChunkSize)
  BY <1>1, Quotient DEF NumChunks
<1>3. n \in 1 .. K /\ n - 1 \in Nat
  BY <1>2, SplitType DEF ScanInv
<1>4. ChunkSize * n <= ChunkSize * K
  BY <1>2, <1>3, Monotone
<1>5. ChunkSize * n = ChunkSize * (n - 1) + ChunkSize /\ ChunkSize * (n - 1) \in Nat
  BY <1>1, <1>3
<1>6. ChunkSize * K \in Nat
  BY <1>1, <1>2
<1>7. ChunkSize * (n - 1) < Len(code)
  BY <1>1, <1>2, <1>4, <1>5, <1>6
<1> QED
  BY <1>1, <1>3, <1>5, <1>7 DEF Scanned

\* The prefix of a chunk is the push data left at its first byte, and no more
\* than the chunk has room for.
LEMMA PrefixIsLeft ==
    ASSUME ScanInv, NEW n \in DOMAIN splitCode(code)
    PROVE  LET left == Left[ChunkSize * (n - 1)]
           IN  splitCode(code)[n].data = IF left < ChunkSize THEN left ELSE ChunkSize
<1> DEFINE first == ChunkSize * (n - 1)
           N == Scanned(code)
           left == Left[first]
           m == IF left < ChunkSize THEN left ELSE ChunkSize
           T == {j \in first .. ChunkSize * ((n - 1) + 1) - 1 :
                    j < N /\ (first .. j) \cap isCode(code) = {}}
<1>1. /\ ChunkSize \in Nat \ {0} /\ n - 1 \in Nat /\ N \in Nat
      /\ first \in Nat /\ first + ChunkSize <= N /\ first \in 0 .. N
      /\ ChunkSize * ((n - 1) + 1) = first + ChunkSize
  BY ChunkAssumption, ChunkScanned, LeftScans
<1>2. Scans(Left, code, N)
  BY LeftScans
<1>3. left \in Nat /\ m \in 0 .. ChunkSize /\ m <= left
  BY <1>1, <1>2 DEF Scans
<1>4. isCode(code) = {j \in 0 .. N - 1 : Left[j] = 0}
  BY IsCode
<1>5. splitCode(code)[n].data = Cardinality(T)
  BY DEF splitCode, Prefix
<1> HIDE DEF first, N, m
<1>6. T = first .. first + m - 1
  <2>1. ASSUME NEW j \in first .. first + m - 1 PROVE j \in T
    <3>1. ASSUME NEW x \in first .. j PROVE x \notin isCode(code)
      <4>1. x - first \in 0 .. N - first /\ x - first < left /\ first + (x - first) = x
        BY <1>1, <1>3
      <4>2. \A k \in 0 .. N - first : k <= left => Left[first + k] = left - k
        <5> HIDE DEF Left
        <5> QED
          BY <1>1, <1>2, RunsDown
      <4>3. Left[first + (x - first)] = left - (x - first)
        BY <1>3, <4>1, <4>2
      <4>4. Left[x] = left - (x - first)
        BY <4>1, <4>3
      <4>5. Left[x] # 0
        BY <1>3, <4>1, <4>4
      <4> QED
        BY <1>4, <4>5
    <3>2. j \in first .. ChunkSize * ((n - 1) + 1) - 1 /\ j < N
      BY <1>1, <1>3
    <3> QED
      BY <3>1, <3>2
  <2>2. ASSUME NEW j \in T, ~ (j \in first .. first + m - 1) PROVE FALSE
    <3>1. j \in Nat /\ first <= j /\ j < first + ChunkSize /\ j < N /\ first + m <= j
      BY <1>1, <1>3, <2>2
    <3>2. m < ChunkSize
      BY <1>1, <1>3, <3>1
    <3>3. m = left
      BY <1>1, <1>3, <3>2 DEF m
    <3>4. m \in 0 .. N - first /\ first + m \in 0 .. N - 1 /\ first + m \in first .. j
      BY <1>1, <1>3, <3>1
    <3>5. Left[first + m] = left - m
      BY <1>1, <1>2, <1>3, <3>4, RunsDown DEF N
    <3>6. first + m \in isCode(code)
      BY <1>3, <1>4, <3>3, <3>4, <3>5
    <3> QED
      BY <2>2, <3>4, <3>6
  <2>3. \A j \in T : j \in Int
    BY <1>1
  <2> QED
    BY <2>1, <2>2
<1>7. Cardinality(first .. first + m - 1) = m
  <2> DEFINE lo == first
             hi == first + m - 1
  <2>1. lo \in Int /\ hi \in Int /\ (IF lo > hi THEN 0 ELSE hi - lo + 1) = m
    BY <1>1, <1>3
  <2> HIDE DEF lo, hi
  <2>2. Cardinality(lo .. hi) = m
    BY <2>1, FS_Interval
  <2> QED
    BY <2>2 DEF lo, hi
<1> QED
  BY <1>5, <1>6, <1>7 DEF m, first

\* The count in front of every chunk is the number of its bytes, from the
\* first on, that are the data of an earlier push: for codes of every length,
\* pushes whose data spans two chunks, and code that ends within push data.
THEOREM PrefixCorrect == CodeSpec => []PrefixIsPushData
<1>1. ScanInv => PrefixIsPushData
  <2> SUFFICES ASSUME ScanInv, NEW n \in DOMAIN splitCode(code)
               PROVE  LET left == open[ChunkSize * (n - 1) + 1]
                      IN  splitCode(code)[n].data = IF left < ChunkSize THEN left ELSE ChunkSize
    BY DEF PrefixIsPushData
  <2> DEFINE first == ChunkSize * (n - 1)
  <2>1. first \in 0 .. Scanned(code) /\ first <= Len(code)
    <3>1. first \in 0 .. Len(code) - 1 /\ first + ChunkSize \in 0 .. Scanned(code)
      BY ChunkScanned
    <3>2. Len(code) \in Nat /\ ChunkSize \in Nat /\ Scanned(code) \in Nat
      BY ChunkAssumption DEF ScanInv, Scanned
    <3> HIDE DEF first
    <3> QED
      BY <3>1, <3>2
  <2>2. Left[first] = open[first + 1]
    BY <2>1 DEF Left
  <2> HIDE DEF Left, first
  <2> QED
    BY <2>2, PrefixIsLeft DEF first
<1> QED
  BY <1>1, AlwaysScanned, PTL

\* Whoever is given one chunk and nothing else finds the instructions that
\* the whole code has there, for all codes and chunk sizes.
THEOREM ChunksCorrect == CodeSpec => []ChunksStandAlone
<1>1. ScanInv => ChunksStandAlone
  <2> SUFFICES ASSUME ScanInv, NEW n \in DOMAIN splitCode(code)
               PROVE  LET chunk == splitCode(code)[n]
                          first == ChunkSize * (n - 1)
                          valid == {j \in 0 .. ChunkSize - 1 : first + j < Len(code)}
                      IN  Walk(chunk.bytes, chunk.data, ChunkSize) \cap valid
                              = {j \in valid : open[first + j + 1] = 0}
    BY DEF ChunksStandAlone
  <2> DEFINE first == ChunkSize * (n - 1)
             bytes == ChunkBytes(code, n - 1)
             left == [j \in 0 .. ChunkSize |-> Left[first + j]]
             Code == {j \in 0 .. ChunkSize - 1 : left[j] = 0}
  <2>1. /\ ChunkSize \in Nat \ {0} /\ n - 1 \in Nat /\ n \in 1 .. NumChunks(code)
        /\ first \in Nat /\ first < Len(code) /\ Len(code) \in Nat
        /\ first + ChunkSize <= Scanned(code) /\ Scanned(code) \in Nat
    <3>1. ChunkSize \in Nat \ {0} /\ Len(code) \in Nat
      BY ChunkAssumption DEF ScanInv
    <3>2. Scanned(code) \in Nat
      BY LeftScans
    <3>3. /\ n - 1 \in Nat /\ n \in 1 .. NumChunks(code)
          /\ first \in 0 .. Len(code) - 1 /\ first + ChunkSize \in 0 .. Scanned(code)
      BY ChunkScanned
    <3> HIDE DEF first
    <3> QED
      BY <3>1, <3>2, <3>3
  <2>2. Scans(Left, code, Scanned(code)) /\ code \in Seq(Byte)
    BY LeftScans DEF ScanInv
  <2>3. splitCode(code)[n].bytes = bytes /\ splitCode(code)[n] \in Chunk
    BY <2>1, <2>2, SplitType
  <2>4. bytes \in Seq(Byte) /\ Len(bytes) = ChunkSize
    <3> HIDE DEF bytes
    <3>1. bytes \in [1 .. ChunkSize -> Byte]
      BY <2>3 DEF Chunk
    <3> QED
      BY <2>1, <3>1
  <2>5. ASSUME NEW j \in 0 .. ChunkSize - 1
        PROVE  PushAt(bytes, j) = PushAt(code, first + j)
    <3>1. bytes[j + 1] = IF first + (j + 1) <= Len(code) THEN code[first + (j + 1)] ELSE 0
      BY <2>1 DEF ChunkBytes
    <3> HIDE DEF bytes, first
    <3>2. PushAt(bytes, j) = Pushed(bytes[j + 1])
      BY <2>4 DEF PushAt
    <3>3. CASE first + j < Len(code)
      <4>1. first + (j + 1) <= Len(code) /\ first + (j + 1) = (first + j) + 1
        BY <2>1, <3>3
      <4> QED
        BY <3>1, <3>2, <3>3, <4>1 DEF PushAt
    <3>4. CASE ~ (first + j < Len(code))
      <4>1. ~ (first + (j + 1) <= Len(code))
        BY <2>1, <3>4
      <4>2. Pushed(0) = 0
        BY ChunkAssumption DEF Pushed
      <4> QED
        BY <3>1, <3>2, <3>4, <4>1, <4>2 DEF PushAt
    <3> QED
      BY <3>3, <3>4
  <2>6. Scans(left, bytes, ChunkSize)
    <3> HIDE DEF bytes, first, Left
    <3>1. ASSUME NEW j \in 0 .. ChunkSize
          PROVE  left[j] = Left[first + j] /\ left[j] \in 0 .. ChunkSize + 1
      <4>1. first + j \in 0 .. Scanned(code)
        BY <2>1
      <4> QED
        BY <2>2, <4>1 DEF Scans
    <3>2. ASSUME NEW j \in 0 .. ChunkSize - 1
          PROVE  left[j + 1] = IF left[j] > 0 THEN left[j] - 1 ELSE PushAt(bytes, j)
      <4>1. /\ j \in 0 .. ChunkSize /\ j + 1 \in 0 .. ChunkSize
            /\ first + j \in 0 .. Scanned(code) - 1 /\ first + (j + 1) = (first + j) + 1
        BY <2>1
      <4>2. left[j] = Left[first + j] /\ left[j + 1] = Left[(first + j) + 1]
        BY <3>1, <4>1
      <4>3. Left[(first + j) + 1] =
                IF Left[first + j] > 0 THEN Left[first + j] - 1 ELSE PushAt(code, first + j)
        BY <2>2, <4>1 DEF Scans
      <4> HIDE DEF left
      <4> QED
        BY <2>5, <4>2, <4>3
    <3>3. left \in [0 .. ChunkSize -> 0 .. ChunkSize + 1]
      BY <3>1
    <3> HIDE DEF left
    <3> QED
      BY <3>2, <3>3 DEF Scans
  <2>7. Walk(bytes, left[0], ChunkSize) = Code
    <3> HIDE DEF bytes, left
    <3>1. 0 \in 0 .. ChunkSize /\ left[0] \in 0 .. ChunkSize + 1
      BY <2>1, <2>6 DEF Scans
    <3>2. Walk(bytes, 0 + left[0], ChunkSize) = Code
      BY <2>1, <2>4, <2>6, <3>1, WalkFinds
    <3>3. 0 + left[0] = left[0]
      BY <3>1
    <3> QED
      BY <3>2, <3>3
  <2>8. Walk(bytes, splitCode(code)[n].data, ChunkSize) = Code
    <3> DEFINE data == splitCode(code)[n].data
    <3>1. left[0] = Left[first] /\ left[0] \in 0 .. ChunkSize + 1
      BY <2>1, <2>6 DEF Scans
    <3>2. data = IF Left[first] < ChunkSize THEN Left[first] ELSE ChunkSize
      BY PrefixIsLeft
    <3> HIDE DEF left, data, bytes, first, Code, Left
    <3>3. CASE left[0] <= ChunkSize
      <4>1. data = left[0]
        BY <2>1, <3>1, <3>2, <3>3
      <4> QED
        BY <2>7, <4>1 DEF data
    <3>4. CASE ~ (left[0] <= ChunkSize)
      <4>1. data = ChunkSize
        BY <2>1, <3>1, <3>2, <3>4
      <4>2. ASSUME NEW k \in 0 .. ChunkSize - 1 PROVE left[k] # 0
        <5>1. k \in 0 .. ChunkSize - 0 /\ k <= left[0] /\ 0 + k = k /\ 0 \in 0 .. ChunkSize
          BY <2>1, <3>1, <3>4
        <5>2. left[0 + k] = left[0] - k
          <6>1. ChunkSize \in Nat /\ 0 \in 0 .. ChunkSize
            BY <2>1
          <6>2. \A d \in 0 .. ChunkSize - 0 : d <= left[0] => left[0 + d] = left[0] - d
            BY <2>6, <6>1, RunsDown
          <6> QED
            BY <5>1, <6>2
        <5>3. left[k] = left[0] - k
          BY <5>1, <5>2
        <5> QED
          BY <2>1, <3>1, <3>4, <5>3
      <4>3. Code = {}
        BY <4>2 DEF Code
      <4>4. Walk(bytes, ChunkSize, ChunkSize) = {}
        BY <2>1, <2>4, WalkEnds
      <4> QED
        BY <4>1, <4>3, <4>4 DEF data
    <3> QED
      BY <3>3, <3>4
  <2>9. ASSUME NEW j \in 0 .. ChunkSize - 1, first + j < Len(code)
        PROVE  left[j] = open[first + j + 1]
    <3>1. first + j \in 0 .. Scanned(code) /\ first + j <= Len(code) /\ j \in 0 .. ChunkSize
      BY <2>1, <2>9
    <3>2. left[j] = Left[first + j]
      BY <3>1
    <3>3. Left[first + j] = open[first + j + 1]
      BY <3>1 DEF Left
    <3> QED
      BY <3>2, <3>3
  <2> HIDE DEF left, bytes, first
  <2>10. Walk(bytes, splitCode(code)[n].data, ChunkSize)
                \cap {j \in 0 .. ChunkSize - 1 : first + j < Len(code)}
            = {j \in {k \in 0 .. ChunkSize - 1 : first + k < Len(code)} :
                    open[first + j + 1] = 0}
    BY <2>8, <2>9
  <2> QED
    BY <2>3, <2>10 DEF first
<1> QED
  BY <1>1, AlwaysScanned, PTL

-----------------------------------------------------------------------------
(* Leaves: positions.                                                      *)

\* A suffix is in one of two halves; within it, it has two positions.
LEMMA Placed ==
    ASSUME NEW i \in ValueIndex
    PROVE  /\ VectorOf(i) \in {0, 1}
           /\ VectorOf(i) = 0 => i < Half /\ LowerAt(i) = 2 * i /\ UpperAt(i) = 2 * i + 1
           /\ VectorOf(i) = 1 => /\ i >= Half
                                 /\ LowerAt(i) = 2 * (i - Half)
                                 /\ UpperAt(i) = 2 * (i - Half) + 1
<1>1. Half \in Nat /\ Half > 0 /\ i \in Nat /\ i < 2 * Half
  BY LayoutAssumption DEF ValueIndex, Width
<1>2. CASE i < Half
  <2>1. i \div Half = 0
    BY <1>1, <1>2
  <2>2. 2 * i \in Nat /\ 2 * i + 1 < 2 * Half
    BY <1>1, <1>2
  <2>3. (2 * i) % (2 * Half) = 2 * i /\ (2 * i + 1) % (2 * Half) = 2 * i + 1
    BY <1>1, <2>2
  <2> QED
    BY <1>2, <2>1, <2>3 DEF VectorOf, LowerAt, UpperAt, Width
<1>3. CASE i >= Half
  <2> DEFINE j == i - Half
  <2>1. j \in Nat /\ j < Half /\ i = Half + j
    BY <1>1, <1>3
  <2>2. i \div Half = 1
    BY <1>1, <2>1
  <2>3. 2 * i = 2 * Half + 2 * j /\ 2 * j \in Nat /\ 2 * j + 1 < 2 * Half
    BY <1>1, <2>1
  <2>4. /\ (2 * Half + 2 * j) % (2 * Half) = 2 * j
        /\ (2 * Half + 2 * j + 1) % (2 * Half) = 2 * j + 1
    <3> DEFINE w == 2 * Half
               m == 2 * j
    <3>1. w \in Nat /\ w > 0 /\ m \in Nat /\ m + 1 < w
      BY <1>1, <2>3
    <3> HIDE DEF w, m
    <3>2. (w + m) % w = m /\ (w + m + 1) % w = m + 1
      BY <3>1
    <3> QED
      BY <3>2 DEF w, m
  <2> QED
    BY <1>3, <2>2, <2>3, <2>4 DEF VectorOf, LowerAt, UpperAt, Width
<1> QED
  BY <1>1, <1>2, <1>3

\* No two suffixes share a position, and no upper limb that of a lower one.
LEMMA Apart ==
    ASSUME NEW i \in ValueIndex, NEW j \in ValueIndex, VectorOf(i) = VectorOf(j)
    PROVE  /\ LowerAt(i) \in Position /\ UpperAt(i) \in Position
           /\ LowerAt(i) = LowerAt(j) => i = j
           /\ UpperAt(i) = UpperAt(j) => i = j
           /\ LowerAt(i) # UpperAt(j)
<1>1. Half \in Nat /\ Half > 0 /\ i \in Nat /\ i < 2 * Half /\ j \in Nat /\ j < 2 * Half
  BY LayoutAssumption DEF ValueIndex, Width
<1>2. CASE VectorOf(i) = 0
  <2>1. /\ i < Half /\ LowerAt(i) = 2 * i /\ UpperAt(i) = 2 * i + 1
        /\ j < Half /\ LowerAt(j) = 2 * j /\ UpperAt(j) = 2 * j + 1
    BY <1>2, Placed
  <2>2. 2 * i \in 0 .. 2 * Half - 1 /\ 2 * i + 1 \in 0 .. 2 * Half - 1
    BY <1>1, <2>1
  <2>3. 2 * i # 2 * j + 1 /\ (2 * i = 2 * j => i = j) /\ (2 * i + 1 = 2 * j + 1 => i = j)
    BY <1>1
  <2> QED
    BY <2>1, <2>2, <2>3 DEF Position, Width
<1>3. CASE VectorOf(i) = 1
  <2>1. /\ i >= Half /\ LowerAt(i) = 2 * (i - Half) /\ UpperAt(i) = 2 * (i - Half) + 1
        /\ j >= Half /\ LowerAt(j) = 2 * (j - Half) /\ UpperAt(j) = 2 * (j - Half) + 1
    BY <1>3, Placed
  <2>2. /\ 2 * (i - Half) \in 0 .. 2 * Half - 1
        /\ 2 * (i - Half) + 1 \in 0 .. 2 * Half - 1
    BY <1>1, <2>1
  <2>3. /\ 2 * (i - Half) # 2 * (j - Half) + 1
        /\ 2 * (i - Half) = 2 * (j - Half) => i = j
        /\ 2 * (i - Half) + 1 = 2 * (j - Half) + 1 => i = j
    BY <1>1
  <2> QED
    BY <2>1, <2>2, <2>3 DEF Position, Width
<1> QED
  BY <1>2, <1>3, Placed

\* What a vector holds where a suffix is laid out.
LEMMA VectorHolds ==
    ASSUME NEW vals, NEW u, NEW i \in ValueIndex
    PROVE  /\ Vector(vals, u, VectorOf(i))[LowerAt(i)] = Lower(vals, u, i)
           /\ Vector(vals, u, VectorOf(i))[UpperAt(i)] = Upper(vals, i)
<1>1. LowerAt(i) \in Position /\ UpperAt(i) \in Position
  BY Apart
<1>2. (CHOOSE k \in ValueIndex : VectorOf(k) = VectorOf(i) /\ LowerAt(k) = LowerAt(i)) = i
  BY Apart
<1>3. (CHOOSE k \in ValueIndex : VectorOf(k) = VectorOf(i) /\ UpperAt(k) = UpperAt(i)) = i
  BY Apart
<1>4. ~ \E k \in ValueIndex : VectorOf(k) = VectorOf(i) /\ LowerAt(k) = UpperAt(i)
  BY Apart
<1>5. Vector(vals, u, VectorOf(i))[LowerAt(i)] = Lower(vals, u, i)
  BY <1>1, <1>2 DEF Vector
<1>6. Vector(vals, u, VectorOf(i))[UpperAt(i)] = Upper(vals, i)
  BY <1>1, <1>3, <1>4 DEF Vector
<1> QED
  BY <1>5, <1>6

-----------------------------------------------------------------------------
(* Limbs.                                                                  *)

\* A limb with or without the marker is below the field order, and can be
\* told apart from it.
LEMMA Limbs ==
    ASSUME NEW vals \in [ValueIndex -> Pair], NEW u, NEW i \in ValueIndex
    PROVE  /\ Lower(vals, u, i) = vals[i].lower + (IF i \in u THEN Limb ELSE 0)
           /\ Lower(vals, u, i) \in 0 .. FieldOrder - 1
           /\ Lower(vals, u, i) >= Limb <=> i \in u
           /\ Lower(vals, u, i) % Limb = vals[i].lower
           /\ Upper(vals, i) = vals[i].upper
           /\ Upper(vals, i) \in 0 .. FieldOrder - 1
<1> DEFINE n == vals[i].lower
           m == vals[i].upper
<1>1. n \in Nat /\ n < Limb /\ m \in Nat /\ m < Limb
  BY LayoutAssumption DEF Pair
<1>2. Limb \in Nat /\ Limb > 0 /\ FieldOrder \in Nat /\ 2 * Limb <= FieldOrder
  BY LayoutAssumption
<1> HIDE DEF n, m
<1>3. n % FieldOrder = n /\ m % FieldOrder = m
  BY <1>1, <1>2
<1>4. n \div Limb = 0 /\ (n + Limb) % Limb = n /\ n % Limb = n
  BY <1>1, <1>2
<1>5. SetBit128(n) = n + Limb
  BY <1>4 DEF SetBit128
<1>6. Lower(vals, u, i) = n + (IF i \in u THEN Limb ELSE 0) /\ Upper(vals, i) = m
  BY <1>3, <1>5, <1>1, <1>2 DEF Lower, Upper, FromLittleEndian, n, m
<1> QED
  BY <1>1, <1>2, <1>4, <1>6 DEF n, m

-----------------------------------------------------------------------------

\* The types that the content of the leaf needs.
LeafTypes == stem \in StemNumber /\ values \in [ValueIndex -> Pair] /\ used \subseteq ValueIndex

LEMMA LeafTyped == LeafSpec => []LeafTypes
<1>1. LeafInit => LeafTypes
  BY LayoutAssumption DEF LeafInit, LeafTypes, Pair
<1>2. LeafTypes /\ [LeafNext]_leafVars => LeafTypes'
  BY DEF LeafTypes, LeafNext, SetValue, leafVars
<1> QED
  BY <1>1, <1>2, PTL DEF LeafSpec

\* The commitment of a leaf determines its stem, its values and which of its
\* suffixes were ever set.
THEOREM LayoutIsInjective == LeafSpec => []VectorsTellLeaf
<1>1. LeafTypes => VectorsTellLeaf
  <2> SUFFICES ASSUME LeafTypes PROVE VectorsTellLeaf
    OBVIOUS
  <2>1. commit(stem, values, used).stem = stem
    <3>1. stem \in Nat /\ stem < FieldOrder /\ FieldOrder \in Nat
      BY LayoutAssumption DEF LeafTypes
    <3>2. stem % FieldOrder = stem
      BY <3>1
    <3> QED
      BY <3>2 DEF commit, FromLittleEndian
  <2>2. ASSUME NEW i \in ValueIndex
        PROVE  Decoded(commit(stem, values, used), i)
                 = [isUsed |-> i \in used, value |-> values[i]]
    <3>1. VectorOf(i) \in {0, 1}
      BY Placed
    <3>2. /\ commit(stem, values, used).c[VectorOf(i)][LowerAt(i)] = Lower(values, used, i)
          /\ commit(stem, values, used).c[VectorOf(i)][UpperAt(i)] = Upper(values, i)
      BY <3>1, VectorHolds DEF commit
    <3>3. /\ Lower(values, used, i) >= Limb <=> i \in used
          /\ Lower(values, used, i) % Limb = values[i].lower
          /\ Upper(values, i) = values[i].upper
      BY Limbs DEF LeafTypes
    <3>4. values[i] = [lower |-> values[i].lower, upper |-> values[i].upper]
      BY DEF LeafTypes, Pair
    <3>5. (Lower(values, used, i) >= Limb) = (i \in used)
      BY <3>3
    <3> QED
      BY <3>2, <3>3, <3>4, <3>5 DEF Decoded
  <2> QED
    BY <2>1, <2>2 DEF VectorsTellLeaf
<1> QED
  BY <1>1, LeafTyped, PTL

-----------------------------------------------------------------------------
(* Update.                                                                 *)

\* Adding the difference of two values to the old one yields the new one.
LEMMA Difference ==
    ASSUME NEW old \in 0 .. FieldOrder - 1, NEW new \in 0 .. FieldOrder - 1
    PROVE  (old + ((new - old) % FieldOrder)) % FieldOrder = new
<1>1. FieldOrder \in Nat /\ FieldOrder > 0 /\ old \in Int /\ new \in Int
  BY LayoutAssumption
<1>2. CASE new >= old
  <2>1. (new - old) % FieldOrder = new - old
    BY <1>1, <1>2
  <2>2. new % FieldOrder = new
    BY <1>1
  <2> QED
    BY <1>1, <2>1, <2>2
<1>3. CASE new < old
  <2>1. (new - old) % FieldOrder = new - old + FieldOrder
    BY <1>1, <1>3
  <2>2. (new + FieldOrder) % FieldOrder = new
    BY <1>1
  <2>3. old + (new - old + FieldOrder) = new + FieldOrder
    BY <1>1
  <2> QED
    BY <2>1, <2>2, <2>3
<1> QED
  BY <1>1, <1>2, <1>3

SameBut(vals, u, vals2, u2, i) ==
    \A k \in ValueIndex : k # i => vals2[k] = vals[k] /\ (k \in u2 <=> k \in u)

\* Two leaves that differ in suffix i only have the same vectors, but for
\* the positions of i.
LEMMA SameElsewhere ==
    ASSUME NEW vals, NEW u, NEW vals2, NEW u2, NEW i \in ValueIndex,
           SameBut(vals, u, vals2, u2, i),
           NEW c, NEW pos \in Position,
           ~ (VectorOf(i) = c /\ (LowerAt(i) = pos \/ UpperAt(i) = pos))
    PROVE  Vector(vals2, u2, c)[pos] = Vector(vals, u, c)[pos]
<1>1. ASSUME NEW k \in ValueIndex, k # i
      PROVE  Lower(vals2, u2, k) = Lower(vals, u, k) /\ Upper(vals2, k) = Upper(vals, k)
  BY <1>1 DEF Lower, Upper, SameBut
<1>2. CASE \E k \in ValueIndex : VectorOf(k) = c /\ LowerAt(k) = pos
  <2> DEFINE k == CHOOSE k \in ValueIndex : VectorOf(k) = c /\ LowerAt(k) = pos
  <2>1. k \in ValueIndex /\ VectorOf(k) = c /\ LowerAt(k) = pos
    BY <1>2
  <2>2. k # i
    BY <2>1
  <2>3. /\ Vector(vals2, u2, c)[pos] = Lower(vals2, u2, k)
        /\ Vector(vals, u, c)[pos] = Lower(vals, u, k)
    BY <1>2 DEF Vector
  <2> HIDE DEF k
  <2> QED
    BY <1>1, <2>1, <2>2, <2>3
<1>3. CASE /\ ~ \E k \in ValueIndex : VectorOf(k) = c /\ LowerAt(k) = pos
           /\ \E k \in ValueIndex : VectorOf(k) = c /\ UpperAt(k) = pos
  <2> DEFINE k == CHOOSE k \in ValueIndex : VectorOf(k) = c /\ UpperAt(k) = pos
  <2>1. k \in ValueIndex /\ VectorOf(k) = c /\ UpperAt(k) = pos
    BY <1>3
  <2>2. k # i
    BY <2>1
  <2>3. /\ Vector(vals2, u2, c)[pos] = Upper(vals2, k)
        /\ Vector(vals, u, c)[pos] = Upper(vals, k)
    BY <1>3 DEF Vector
  <2> HIDE DEF k
  <2> QED
    BY <1>1, <2>1, <2>2, <2>3
<1>4. CASE /\ ~ \E k \in ValueIndex : VectorOf(k) = c /\ LowerAt(k) = pos
           /\ ~ \E k \in ValueIndex : VectorOf(k) = c /\ UpperAt(k) = pos
  BY <1>4 DEF Vector
<1> QED
  BY <1>2, <1>3, <1>4

\* A vector is a function on the positions.
LEMMA VectorDomain ==
    ASSUME NEW vals, NEW u, NEW c
    PROVE  Vector(vals, u, c) = [pos \in Position |-> Vector(vals, u, c)[pos]]
BY DEF Vector

\* One write: the updates at its two positions give the new vector.
LEMMA WriteUpdates ==
    ASSUME LeafTypes, NEW i \in ValueIndex, NEW value \in Pair, NEW c \in {0, 1}
    PROVE  Updated(i, value, c) = Vector([values EXCEPT ![i] = value], used \cup {i}, c)
<1> DEFINE low == LowerAt(i)
           up == UpperAt(i)
           v == VectorOf(i)
           new == [values EXCEPT ![i] = value]
           u == used \cup {i}
           old == Vector(values, used, v)
           one == CommitmentUpdate(old, low, Lower(values, used, i), Lower(new, u, i))
           two == CommitmentUpdate(one, up, Upper(values, i), Upper(new, i))
<1>1. /\ low \in Position /\ up \in Position /\ low # up /\ v \in {0, 1}
  BY Apart, Placed
<1>2. values \in [ValueIndex -> Pair] /\ new \in [ValueIndex -> Pair]
  BY DEF LeafTypes
<1>3. SameBut(values, used, new, u, i)
  BY <1>2 DEF SameBut
<1>4. /\ Lower(values, used, i) \in 0 .. FieldOrder - 1
      /\ Lower(new, u, i) \in 0 .. FieldOrder - 1
      /\ Upper(values, i) \in 0 .. FieldOrder - 1
      /\ Upper(new, i) \in 0 .. FieldOrder - 1
  <2> HIDE DEF new, u
  <2> QED
    BY <1>2, Limbs
<1>5. Updated(i, value, c) = IF c = v THEN two ELSE Vector(values, used, c)
  BY DEF Updated
<1> HIDE DEF new, u
<1>7. /\ old[low] = Lower(values, used, i) /\ old[up] = Upper(values, i)
      /\ Vector(new, u, v)[low] = Lower(new, u, i)
      /\ Vector(new, u, v)[up] = Upper(new, i)
  BY VectorHolds
<1>8. old = [pos \in Position |-> old[pos]]
  BY VectorDomain
<1>9. ASSUME NEW pos \in Position, ~ (c = v /\ (low = pos \/ up = pos))
      PROVE  Vector(new, u, c)[pos] = Vector(values, used, c)[pos]
  <2>1. ~ (VectorOf(i) = c /\ (LowerAt(i) = pos \/ UpperAt(i) = pos))
    BY <1>9
  <2>2. \A vals, w, vals2, w2 :
            SameBut(vals, w, vals2, w2, i)
                => Vector(vals2, w2, c)[pos] = Vector(vals, w, c)[pos]
    BY <2>1, SameElsewhere
  <2> QED
    BY <1>3, <2>2
<1> HIDE DEF low, up, v, old
<1>10. one = [old EXCEPT ![low] = Lower(new, u, i)]
  <2>1. (old[low] + ((Lower(new, u, i) - Lower(values, used, i)) % FieldOrder))
            % FieldOrder = Lower(new, u, i)
    BY <1>4, <1>7, Difference
  <2> QED
    BY <2>1 DEF CommitmentUpdate
<1>11. two = [one EXCEPT ![up] = Upper(new, i)]
  <2>1. one[up] = Upper(values, i)
    BY <1>1, <1>7, <1>8, <1>10
  <2>2. (one[up] + ((Upper(new, i) - Upper(values, i)) % FieldOrder))
            % FieldOrder = Upper(new, i)
    BY <1>4, <2>1, Difference
  <2> HIDE DEF one
  <2> QED
    BY <2>2 DEF CommitmentUpdate
<1> HIDE DEF one, two
<1>12. CASE c = v
  <2>1. two = [pos \in Position |-> two[pos]]
    BY <1>8, <1>10, <1>11
  <2>2. ASSUME NEW pos \in Position
        PROVE  two[pos] = Vector(new, u, v)[pos]
    <3>1. CASE pos = low
      BY <1>1, <1>7, <1>8, <1>10, <1>11, <3>1
    <3>2. CASE pos = up
      BY <1>1, <1>7, <1>8, <1>10, <1>11, <3>2
    <3>3. CASE pos # low /\ pos # up
      <4>1. two[pos] = old[pos]
        BY <1>1, <1>8, <1>10, <1>11, <3>3
      <4>2. Vector(new, u, v)[pos] = Vector(values, used, v)[pos]
        BY <1>1, <1>9, <1>12, <3>3
      <4> QED
        BY <4>1, <4>2 DEF old
    <3> QED
      BY <3>1, <3>2, <3>3
  <2>3. Vector(new, u, v) = [pos \in Position |-> Vector(new, u, v)[pos]]
    BY VectorDomain
  <2> QED
    BY <1>5, <1>12, <2>1, <2>2, <2>3 DEF new, u
<1>13. CASE c # v
  <2>1. \A pos \in Position : Vector(new, u, c)[pos] = Vector(values, used, c)[pos]
    BY <1>9, <1>13
  <2>2. Vector(new, u, c) = Vector(values, used, c)
    BY <2>1, VectorDomain
  <2> QED
    BY <1>5, <1>13, <2>2 DEF new, u
<1> QED
  BY <1>12, <1>13

\* Commitment.Update, at the two positions of any write to any content of a
\* leaf, gives the vectors that leaf.commit computes from scratch.
THEOREM UpdateCorrect == LeafSpec => []UpdateIsCommit
<1>1. LeafTypes => UpdateIsCommit
  BY WriteUpdates DEF UpdateIsCommit
<1> QED
  BY <1>1, LeafTyped, PTL
=============================================================================
