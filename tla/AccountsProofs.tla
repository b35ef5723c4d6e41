--------------------------- MODULE AccountsProofs ---------------------------
(***************************************************************************)
(* Accounts implements Ledger: an update changes the fields it names,      *)
(* wherever they are kept, and no others.  The code of an account has its  *)
(* hash, and empty storage is told from storage.                           *)
(*                                                                         *)
(* The proof follows Apply.  Each of its five groups of writes is a lemma  *)
(* about what can be read afterwards, from which lemma AppliedReads adds   *)
(* up the whole.  The keys of different fields differ (KeysApart): this is *)
(* why each group leaves alone what it does not write.                     *)
(***************************************************************************)
EXTENDS Accounts, TLAPS

-----------------------------------------------------------------------------
(* The keys of Embedding.                                                  *)

LEMMA DivMod ==
    ASSUME NEW n \in Nat, NEW w \in Nat, w > 0
    PROVE  /\ n \div w \in Nat /\ n % w \in 0..(w - 1)
           /\ n = w * (n \div w) + (n % w)
OBVIOUS

\* A number is known from its quotient and its remainder.
LEMMA DivModUnique ==
    ASSUME NEW m \in Nat, NEW n \in Nat, NEW w \in Nat, w > 0,
           m \div w = n \div w, m % w = n % w
    PROVE  m = n
<1>1. m = w * (m \div w) + (m % w)
  BY DivMod
<1>2. n = w * (n \div w) + (n % w)
  BY DivMod
<1> QED
  BY <1>1, <1>2

LEMMA ModSmall ==
    ASSUME NEW n \in Nat, NEW w \in Nat, n < w
    PROVE  n % w = n /\ n \div w = 0
OBVIOUS

Width == verkleNodeWidth

\* The code chunks of an account have keys of their own.
LEMMA ChunkKeys ==
    ASSUME NEW a, NEW b, NEW m \in ChunkNumber, NEW n \in ChunkNumber,
           getCodeChunkKey(a, m) = getCodeChunkKey(b, n)
    PROVE  a = b /\ m = n
<1>1. /\ a = b
      /\ (codeOffset + m) \div Width = (codeOffset + n) \div Width
      /\ (codeOffset + m) % Width = (codeOffset + n) % Width
  BY DEF getCodeChunkKey, getTrieKey, Width
<1>2. /\ codeOffset + m \in Nat /\ codeOffset + n \in Nat
      /\ Width \in Nat /\ Width > 0 /\ m \in Nat /\ n \in Nat
  BY EmbeddingAssumption DEF Width
<1>3. codeOffset + m = codeOffset + n
  BY <1>1, <1>2, DivModUnique
<1> QED
  BY <1>1, <1>2, <1>3, EmbeddingAssumption

\* The three regions a key can lie in, and what is in them.
LEMMA SlotRegion ==
    ASSUME NEW a, NEW k \in Slot
    PROVE  LET key == getStorageKey(a, k) IN
           /\ key.address = a
           /\ k < codeOffset - headerStorageOffset =>
                /\ key.treeIndex = 0
                /\ key.subIndex = headerStorageOffset + k
                /\ key.subIndex >= 2 /\ key.subIndex < codeOffset
           /\ ~ (k < codeOffset - headerStorageOffset) =>
                /\ key.treeIndex = mainStorageOffset + k \div Width
                /\ key.treeIndex >= mainStorageOffset
                /\ key.subIndex = k % Width
<1>1. k \in Nat /\ Width \in Nat /\ Width > 0
  BY EmbeddingAssumption DEF Width
<1>2. k \div Width \in Nat
  BY <1>1, DivMod
<1>3. CASE k < codeOffset - headerStorageOffset
  <2>1. headerStorageOffset + k \in Nat /\ headerStorageOffset + k < Width
    BY <1>1, <1>3, EmbeddingAssumption DEF Width
  <2>2. (headerStorageOffset + k) % Width = headerStorageOffset + k
    BY <1>1, <2>1, ModSmall
  <2> QED
    BY <1>1, <1>3, <2>1, <2>2, EmbeddingAssumption
       DEF getStorageKey, getTrieKey, Width
<1>4. CASE ~ (k < codeOffset - headerStorageOffset)
  BY <1>1, <1>2, <1>4, EmbeddingAssumption DEF getStorageKey, getTrieKey, Width
<1> QED
  BY <1>3, <1>4

LEMMA ChunkRegion ==
    ASSUME NEW a, NEW n \in ChunkNumber
    PROVE  LET key == getCodeChunkKey(a, n) IN
           /\ key.address = a
           /\ key.treeIndex < mainStorageOffset
           /\ key.treeIndex = 0 => key.subIndex >= codeOffset
<1>1. codeOffset + n \in Nat /\ Width \in Nat /\ Width > 0 /\ n \in Nat
  BY EmbeddingAssumption DEF Width
<1>2. (codeOffset + n) \div Width = 0 => (codeOffset + n) % Width = codeOffset + n
  <2>1. codeOffset + n = Width * ((codeOffset + n) \div Width) + ((codeOffset + n) % Width)
    BY <1>1, DivMod
  <2>2. (codeOffset + n) % Width \in Nat
    BY <1>1, DivMod
  <2> QED
    BY <1>1, <2>1, <2>2
<1> QED
  BY <1>1, <1>2, EmbeddingAssumption DEF getCodeChunkKey, getTrieKey, Width

LEMMA SlotKeys ==
    ASSUME NEW a, NEW b, NEW j \in Slot, NEW k \in Slot,
           getStorageKey(a, j) = getStorageKey(b, k)
    PROVE  a = b /\ j = k
<1>1. a = b /\ j \in Nat /\ k \in Nat /\ Width \in Nat /\ Width > 0
  BY SlotRegion, EmbeddingAssumption DEF Width
<1>2. CASE j < codeOffset - headerStorageOffset
  <2>1. k < codeOffset - headerStorageOffset
    BY <1>1, <1>2, SlotRegion, EmbeddingAssumption
  <2> QED
    BY <1>1, <1>2, <2>1, SlotRegion, EmbeddingAssumption
<1>3. CASE ~ (j < codeOffset - headerStorageOffset)
  <2>1. ~ (k < codeOffset - headerStorageOffset)
    BY <1>1, <1>3, SlotRegion, EmbeddingAssumption
  <2>2. j \div Width \in Nat /\ k \div Width \in Nat
    BY <1>1, DivMod
  <2>3. /\ mainStorageOffset + j \div Width = mainStorageOffset + k \div Width
        /\ j % Width = k % Width
    BY <1>1, <1>3, <2>1, SlotRegion
  <2>4. j \div Width = k \div Width
    BY <2>2, <2>3, EmbeddingAssumption
  <2> QED
    BY <1>1, <2>3, <2>4, DivModUnique
<1> QED
  BY <1>2, <1>3

\* Two fields have the same key only if they are the same field: the basic
\* data, the code hash, the code chunks and the slots of all accounts are
\* apart, at the end of the header and across the nodes of the code.
THEOREM KeysApart ==
    /\ \A a, b \in Address :
        /\ getBasicDataKey(a) = getBasicDataKey(b) => a = b
        /\ getCodeHashKey(a) = getCodeHashKey(b) => a = b
        /\ getBasicDataKey(a) # getCodeHashKey(b)
    /\ \A a, b \in Address : \A m \in ChunkNumber :
        /\ getCodeChunkKey(a, m) # getBasicDataKey(b)
        /\ getCodeChunkKey(a, m) # getCodeHashKey(b)
        /\ \A n \in ChunkNumber :
            getCodeChunkKey(a, m) = getCodeChunkKey(b, n) => a = b /\ m = n
        /\ \A k \in Slot : getCodeChunkKey(a, m) # getStorageKey(b, k)
    /\ \A a, b \in Address : \A j \in Slot :
        /\ getStorageKey(a, j) # getBasicDataKey(b)
        /\ getStorageKey(a, j) # getCodeHashKey(b)
        /\ \A k \in Slot :
            getStorageKey(a, j) = getStorageKey(b, k) => a = b /\ j = k
<1>1. ASSUME NEW a \in Address, NEW b \in Address
      PROVE  /\ getBasicDataKey(a) = getBasicDataKey(b) => a = b
             /\ getCodeHashKey(a) = getCodeHashKey(b) => a = b
             /\ getBasicDataKey(a) # getCodeHashKey(b)
  BY DEF getBasicDataKey, getCodeHashKey, getTrieKey
<1>2. ASSUME NEW a, NEW b, NEW m \in ChunkNumber
      PROVE  /\ getCodeChunkKey(a, m) # getBasicDataKey(b)
             /\ getCodeChunkKey(a, m) # getCodeHashKey(b)
  <2> DEFINE key == getCodeChunkKey(a, m)
  <2>1. key.treeIndex = 0 => key.subIndex >= codeOffset
    BY ChunkRegion
  <2>2. codeOffset \in Nat /\ codeOffset >= 2
    BY EmbeddingAssumption
  <2>3. key = getBasicDataKey(b) => key.treeIndex = 0 /\ key.subIndex = 0
    BY DEF getBasicDataKey, getTrieKey
  <2>4. key = getCodeHashKey(b) => key.treeIndex = 0 /\ key.subIndex = 1
    BY DEF getCodeHashKey, getTrieKey
  <2> HIDE DEF key
  <2>5. key # getBasicDataKey(b) /\ key # getCodeHashKey(b)
    BY <2>1, <2>2, <2>3, <2>4
  <2> QED
    BY <2>5 DEF key
<1>3. ASSUME NEW a, NEW b, NEW j \in Slot
      PROVE  /\ getStorageKey(a, j) # getBasicDataKey(b)
             /\ getStorageKey(a, j) # getCodeHashKey(b)
  <2> DEFINE key == getStorageKey(a, j)
  <2>1. key.treeIndex = 0 => key.subIndex >= 2
    <3>1. j \in Nat
      BY EmbeddingAssumption
    <3> QED
      BY <3>1, SlotRegion, EmbeddingAssumption
  <2>2. key = getBasicDataKey(b) => key.treeIndex = 0 /\ key.subIndex = 0
    BY DEF getBasicDataKey, getTrieKey
  <2>3. key = getCodeHashKey(b) => key.treeIndex = 0 /\ key.subIndex = 1
    BY DEF getCodeHashKey, getTrieKey
  <2> HIDE DEF key
  <2>4. key # getBasicDataKey(b) /\ key # getCodeHashKey(b)
    BY <2>1, <2>2, <2>3
  <2> QED
    BY <2>4 DEF key
<1>4. ASSUME NEW a, NEW b, NEW m \in ChunkNumber, NEW k \in Slot
      PROVE  getCodeChunkKey(a, m) # getStorageKey(b, k)
  <2>1. SUFFICES ASSUME getCodeChunkKey(a, m) = getStorageKey(b, k) PROVE FALSE
    OBVIOUS
  <2> DEFINE key == getStorageKey(b, k)
  <2>2. /\ key.treeIndex < mainStorageOffset
        /\ key.treeIndex = 0 => key.subIndex >= codeOffset
    BY <2>1, ChunkRegion
  <2>3. k \in Nat
    BY EmbeddingAssumption
  <2>4. CASE k < codeOffset - headerStorageOffset
    <3>1. key.treeIndex = 0 /\ key.subIndex = headerStorageOffset + k
      BY <2>4, SlotRegion
    <3> QED
      BY <2>2, <2>3, <2>4, <3>1, EmbeddingAssumption
  <2>5. CASE ~ (k < codeOffset - headerStorageOffset)
    <3>1. key.treeIndex = mainStorageOffset + k \div Width
      BY <2>5, SlotRegion
    <3>2. k \div Width \in Nat
      BY <2>3, DivMod, EmbeddingAssumption DEF Width
    <3> QED
      BY <2>2, <3>1, <3>2, EmbeddingAssumption
  <2> QED
    BY <2>4, <2>5
<1> QED
  BY <1>1, <1>2, <1>3, <1>4, ChunkKeys, SlotKeys

-----------------------------------------------------------------------------
(* Reading cells.                                                          *)

Chunks == [1..ChunkLen -> Nat]

\* The bytes of the n-th chunk of account a.
Bytes(c, a, n) == BytesOf(Get(c, getCodeChunkKey(a, n)))

\* Cells that hold values of their kinds.
CellsOK(c) ==
    /\ DOMAIN c = TreeKey
    /\ \A a \in Address :
        /\ Basic(c, a) \in BasicData
        /\ \A n \in ChunkNumber : Bytes(c, a, n) \in Chunks
        /\ \A k \in Slot : GetStorage(c, a, k) \in Word

LEMMA Marks ==
    /\ Zero # Unset
    /\ Zero \notin BasicData /\ Unset \notin BasicData
    /\ Zero \notin Chunks /\ Unset \notin Chunks
    /\ EmptyCodeHash # Unset
    /\ \A code \in Code : Keccak256(code) # Unset
    /\ \A v \in Word : v # Unset
BY CellsAssumption DEF Chunks

LEMMA KeysInTree ==
    ASSUME NEW a \in Address
    PROVE  /\ getBasicDataKey(a) \in TreeKey
           /\ getCodeHashKey(a) \in TreeKey
           /\ \A n \in ChunkNumber : getCodeChunkKey(a, n) \in TreeKey
           /\ \A k \in Slot : getStorageKey(a, k) \in TreeKey
BY DEF TreeKey, KeysOf

LEMMA KeyAddress ==
    ASSUME NEW a
    PROVE  /\ getBasicDataKey(a).address = a
           /\ getCodeHashKey(a).address = a
           /\ \A n : getCodeChunkKey(a, n).address = a
BY DEF getBasicDataKey, getCodeHashKey, getCodeChunkKey, getTrieKey

LEMMA GetIsSet ==
    ASSUME NEW c, NEW k
    PROVE  Get(c, k) # Unset
BY Marks DEF Get

\* What was set is read, and the rest as before.
LEMMA PutReads ==
    ASSUME NEW c, NEW w, NEW k \in DOMAIN c
    PROVE  /\ DOMAIN Put(c, w) = DOMAIN c
           /\ k \in DOMAIN w /\ w[k] # Unset => Get(Put(c, w), k) = w[k]
           /\ k \notin DOMAIN w => Get(Put(c, w), k) = Get(c, k)
BY DEF Put, Get

\* Data survives being packed, and bytes being made a chunk.
LEMMA PackReads ==
    /\ \A d \in BasicData : Unpacked(Packed(d)) = d /\ Packed(d) # Unset
    /\ NoData \in BasicData
    /\ \A b \in Chunks : BytesOf(Chunk(b)) = b /\ Chunk(b) # Unset
    /\ ZeroChunk \in Chunks
<1>1. NoData \in BasicData
  BY DEF NoData, BasicData
<1>2. ZeroChunk \in Chunks
  BY DEF ZeroChunk, Chunks
<1>3. \A d \in BasicData : Unpacked(Packed(d)) = d /\ Packed(d) # Unset
  BY Marks DEF Unpacked, Packed
<1>4. \A b \in Chunks : BytesOf(Chunk(b)) = b /\ Chunk(b) # Unset
  BY Marks DEF BytesOf, Chunk
<1> QED
  BY <1>1, <1>2, <1>3, <1>4

-----------------------------------------------------------------------------
(* The five groups of writes.                                              *)

\* What can be read of account a is the same in the cells c and d, but for
\* the basic data and the code hash.
SameCode(c, d, a) == \A n \in ChunkNumber : Bytes(d, a, n) = Bytes(c, a, n)
SameStorage(c, d, a) == \A k \in Slot : GetStorage(d, a, k) = GetStorage(c, a, k)

\* Writes to no other cells than basic data and code hashes.
LEMMA HeaderPut ==
    ASSUME NEW c, DOMAIN c = TreeKey, NEW w,
           \A k \in DOMAIN w : \E b \in Address :
                k = getBasicDataKey(b) \/ k = getCodeHashKey(b),
           NEW a \in Address
    PROVE  /\ DOMAIN Put(c, w) = TreeKey
           /\ SameCode(c, Put(c, w), a)
           /\ SameStorage(c, Put(c, w), a)
<1>1. \A n \in ChunkNumber : /\ getCodeChunkKey(a, n) \in DOMAIN c
                             /\ getCodeChunkKey(a, n) \notin DOMAIN w
  BY KeysInTree, KeysApart
<1>2. \A k \in Slot : /\ getStorageKey(a, k) \in DOMAIN c
                      /\ getStorageKey(a, k) \notin DOMAIN w
  BY KeysInTree, KeysApart
<1>3. DOMAIN Put(c, w) = TreeKey
  BY DEF Put
<1>4. SameCode(c, Put(c, w), a)
  BY <1>1, PutReads DEF SameCode, Bytes
<1>5. SameStorage(c, Put(c, w), a)
  BY <1>2, PutReads DEF SameStorage, GetStorage
<1> QED
  BY <1>3, <1>4, <1>5

\* A created account reads as before, but for the code hash of a new one.
LEMMA CreatedReads ==
    ASSUME NEW c, DOMAIN c = TreeKey, NEW u \in Update, NEW a \in Address
    PROVE  LET d == Created(c, u) IN
           /\ DOMAIN d = TreeKey
           /\ Basic(d, a) = Basic(c, a)
           /\ GetCodeHash(d, a) =
                IF a \in u.created /\ Basic(c, a) = NoData
                THEN EmptyCodeHash ELSE GetCodeHash(c, a)
           /\ SameCode(c, d, a) /\ SameStorage(c, d, a)
<1> DEFINE new == {b \in u.created : Basic(c, b) = NoData}
           w == [k \in {getBasicDataKey(b) : b \in new}
                        \cup {getCodeHashKey(b) : b \in new} |->
                   IF k = getCodeHashKey(k.address) THEN EmptyCodeHash ELSE Get(c, k)]
<1>1. Created(c, u) = Put(c, w)
  BY DEF Created
<1>2. new \subseteq Address
  BY UpdateAssumption
<1>3. \A k \in DOMAIN w : \E b \in Address :
         k = getBasicDataKey(b) \/ k = getCodeHashKey(b)
  BY <1>2
<1>4. /\ DOMAIN Put(c, w) = TreeKey
      /\ SameCode(c, Put(c, w), a) /\ SameStorage(c, Put(c, w), a)
  <2> HIDE DEF w
  <2> QED
    BY <1>3, HeaderPut
<1>5. /\ getBasicDataKey(a) \in DOMAIN c /\ getCodeHashKey(a) \in DOMAIN c
  BY KeysInTree
<1>6. /\ getBasicDataKey(a) \in DOMAIN w <=> a \in new
      /\ getCodeHashKey(a) \in DOMAIN w <=> a \in new
  BY <1>2, KeysApart
<1>7. a \in new => /\ w[getBasicDataKey(a)] = Get(c, getBasicDataKey(a))
                   /\ w[getCodeHashKey(a)] = EmptyCodeHash
  BY <1>6, KeyAddress, KeysApart
<1>8. /\ Get(c, getBasicDataKey(a)) # Unset /\ EmptyCodeHash # Unset
  BY GetIsSet, Marks
<1> HIDE DEF w
<1>9. /\ Get(Put(c, w), getBasicDataKey(a)) = Get(c, getBasicDataKey(a))
      /\ Get(Put(c, w), getCodeHashKey(a)) =
            IF a \in new THEN EmptyCodeHash ELSE Get(c, getCodeHashKey(a))
  BY <1>5, <1>6, <1>7, <1>8, PutReads
<1> QED
  BY <1>1, <1>4, <1>9 DEF Basic, GetCodeHash

\* Writes to basic data: what each of the accounts A gets is data(a).
LEMMA BasicPut ==
    ASSUME NEW c, DOMAIN c = TreeKey, NEW A \in SUBSET Address, NEW w,
           DOMAIN w = {getBasicDataKey(b) : b \in A},
           NEW a \in Address
    PROVE  LET d == Put(c, w) IN
           /\ DOMAIN d = TreeKey
           /\ SameCode(c, d, a) /\ SameStorage(c, d, a)
           /\ GetCodeHash(d, a) = GetCodeHash(c, a)
           /\ a \notin A => Basic(d, a) = Basic(c, a)
           /\ \A data \in BasicData :
                a \in A /\ w[getBasicDataKey(a)] = Packed(data) => Basic(d, a) = data
<1>1. \A k \in DOMAIN w : \E b \in Address :
         k = getBasicDataKey(b) \/ k = getCodeHashKey(b)
  OBVIOUS
<1>2. /\ getBasicDataKey(a) \in DOMAIN c /\ getCodeHashKey(a) \in DOMAIN c
      /\ getBasicDataKey(a) \in DOMAIN w <=> a \in A
      /\ getCodeHashKey(a) \notin DOMAIN w
  BY KeysInTree, KeysApart
<1>3. GetCodeHash(Put(c, w), a) = GetCodeHash(c, a)
  BY <1>2, PutReads DEF GetCodeHash
<1>4. a \notin A => Basic(Put(c, w), a) = Basic(c, a)
  BY <1>2, PutReads DEF Basic
<1>5. ASSUME NEW data \in BasicData, a \in A, w[getBasicDataKey(a)] = Packed(data)
      PROVE  Basic(Put(c, w), a) = data
  <2>1. Get(Put(c, w), getBasicDataKey(a)) = Packed(data)
    BY <1>2, <1>5, PutReads, PackReads
  <2> QED
    BY <2>1, PackReads DEF Basic
<1>6. /\ DOMAIN Put(c, w) = TreeKey
      /\ SameCode(c, Put(c, w), a) /\ SameStorage(c, Put(c, w), a)
  BY <1>1, HeaderPut
<1> QED
  BY <1>3, <1>4, <1>5, <1>6

LEMMA NoncedReads ==
    ASSUME NEW c, CellsOK(c), NEW u \in Update, NEW a \in Address
    PROVE  LET d == Nonced(c, u) IN
           /\ DOMAIN d = TreeKey
           /\ Basic(d, a) = IF a \in DOMAIN u.nonces
                            THEN [Basic(c, a) EXCEPT !.nonce = u.nonces[a]]
                            ELSE Basic(c, a)
           /\ Basic(d, a) \in BasicData
           /\ GetCodeHash(d, a) = GetCodeHash(c, a)
           /\ SameCode(c, d, a) /\ SameStorage(c, d, a)
<1> DEFINE A == DOMAIN u.nonces
           w == [k \in {getBasicDataKey(b) : b \in A} |->
                   Packed([Basic(c, k.address) EXCEPT !.nonce = u.nonces[k.address]])]
           data == [Basic(c, a) EXCEPT !.nonce = u.nonces[a]]
<1>1. Nonced(c, u) = Put(c, w)
  BY DEF Nonced
<1>2. A \in SUBSET Address /\ DOMAIN c = TreeKey /\ Basic(c, a) \in BasicData
  BY UpdateAssumption DEF CellsOK
<1>3. a \in A => /\ w[getBasicDataKey(a)] = Packed(data)
                 /\ data \in BasicData
  <2>1. a \in A => w[getBasicDataKey(a)] = Packed(data)
    BY KeyAddress
  <2>2. a \in A => data \in BasicData
    BY <1>2, UpdateAssumption DEF BasicData
  <2> QED
    BY <2>1, <2>2
<1>4. DOMAIN w = {getBasicDataKey(b) : b \in A}
  OBVIOUS
<1> HIDE DEF A, w, data
<1>5. /\ DOMAIN Put(c, w) = TreeKey
      /\ SameCode(c, Put(c, w), a) /\ SameStorage(c, Put(c, w), a)
      /\ GetCodeHash(Put(c, w), a) = GetCodeHash(c, a)
      /\ a \notin A => Basic(Put(c, w), a) = Basic(c, a)
      /\ a \in A => Basic(Put(c, w), a) = data
  BY <1>2, <1>3, <1>4, BasicPut
<1> QED
  BY <1>1, <1>2, <1>3, <1>5 DEF A, data

LEMMA BalancedReads ==
    ASSUME NEW c, CellsOK(c), NEW u \in Update, NEW a \in Address
    PROVE  LET d == Balanced(c, u) IN
           /\ DOMAIN d = TreeKey
           /\ Basic(d, a) = IF a \in DOMAIN u.balances
                            THEN [Basic(c, a) EXCEPT !.balance = u.balances[a] % BalanceMod]
                            ELSE Basic(c, a)
           /\ Basic(d, a) \in BasicData
           /\ GetCodeHash(d, a) = GetCodeHash(c, a)
           /\ SameCode(c, d, a) /\ SameStorage(c, d, a)
<1> DEFINE A == DOMAIN u.balances
           w == [k \in {getBasicDataKey(b) : b \in A} |->
                   Packed([Basic(c, k.address) EXCEPT
                              !.balance = u.balances[k.address] % BalanceMod])]
           data == [Basic(c, a) EXCEPT !.balance = u.balances[a] % BalanceMod]
<1>1. Balanced(c, u) = Put(c, w)
  BY DEF Balanced
<1>2. A \in SUBSET Address /\ DOMAIN c = TreeKey /\ Basic(c, a) \in BasicData
  BY UpdateAssumption DEF CellsOK
<1>3. a \in A => /\ w[getBasicDataKey(a)] = Packed(data)
                 /\ data \in BasicData
  <2>1. a \in A => w[getBasicDataKey(a)] = Packed(data)
    BY KeyAddress
  <2>2. a \in A => u.balances[a] % BalanceMod \in Nat
    BY UpdateAssumption, CellsAssumption, DivMod
  <2>3. a \in A => data \in BasicData
    BY <1>2, <2>2 DEF BasicData
  <2> QED
    BY <2>1, <2>3
<1>4. DOMAIN w = {getBasicDataKey(b) : b \in A}
  OBVIOUS
<1> HIDE DEF A, w, data
<1>5. /\ DOMAIN Put(c, w) = TreeKey
      /\ SameCode(c, Put(c, w), a) /\ SameStorage(c, Put(c, w), a)
      /\ GetCodeHash(Put(c, w), a) = GetCodeHash(c, a)
      /\ a \notin A => Basic(Put(c, w), a) = Basic(c, a)
      /\ a \in A => Basic(Put(c, w), a) = data
  BY <1>2, <1>3, <1>4, BasicPut
<1> QED
  BY <1>1, <1>2, <1>3, <1>5 DEF A, data

\* A slot that is named has its new value, any other its old one.
LEMMA SlottedReads ==
    ASSUME NEW c, DOMAIN c = TreeKey, NEW u \in Update, NEW a \in Address
    PROVE  LET d == Slotted(c, u) IN
           /\ DOMAIN d = TreeKey
           /\ Basic(d, a) = Basic(c, a)
           /\ GetCodeHash(d, a) = GetCodeHash(c, a)
           /\ SameCode(c, d, a)
           /\ \A k \in Slot : GetStorage(d, a, k) =
                IF <<a, k>> \in DOMAIN u.slots THEN u.slots[<<a, k>>]
                                               ELSE GetStorage(c, a, k)
<1> DEFINE S == DOMAIN u.slots
           w == [k \in {getStorageKey(x[1], x[2]) : x \in S} |->
                   u.slots[CHOOSE x \in S : getStorageKey(x[1], x[2]) = k]]
<1>1. Slotted(c, u) = Put(c, w)
  BY DEF Slotted
<1>2. S \subseteq Address \X Slot /\ \A x \in S : u.slots[x] \in Word
  BY UpdateAssumption
<1>3. /\ getBasicDataKey(a) \in DOMAIN c /\ getBasicDataKey(a) \notin DOMAIN w
      /\ getCodeHashKey(a) \in DOMAIN c /\ getCodeHashKey(a) \notin DOMAIN w
      /\ \A n \in ChunkNumber : /\ getCodeChunkKey(a, n) \in DOMAIN c
                                /\ getCodeChunkKey(a, n) \notin DOMAIN w
  BY <1>2, KeysInTree, KeysApart
<1>4. ASSUME NEW k \in Slot
      PROVE  /\ getStorageKey(a, k) \in DOMAIN w <=> <<a, k>> \in S
             /\ <<a, k>> \in S => w[getStorageKey(a, k)] = u.slots[<<a, k>>]
  <2>1. \A x \in S : getStorageKey(x[1], x[2]) = getStorageKey(a, k) <=> x = <<a, k>>
    BY <1>2, KeysApart
  <2>2. getStorageKey(a, k) \in DOMAIN w <=> <<a, k>> \in S
    BY <2>1
  <2>3. ASSUME <<a, k>> \in S
        PROVE  w[getStorageKey(a, k)] = u.slots[<<a, k>>]
    <3>1. (CHOOSE x \in S : getStorageKey(x[1], x[2]) = getStorageKey(a, k)) = <<a, k>>
      BY <2>1, <2>3
    <3> QED
      BY <2>2, <2>3, <3>1
  <2> QED
    BY <2>2, <2>3
<1> HIDE DEF w
<1>5. /\ DOMAIN Put(c, w) = TreeKey
      /\ Basic(Put(c, w), a) = Basic(c, a)
      /\ GetCodeHash(Put(c, w), a) = GetCodeHash(c, a)
      /\ SameCode(c, Put(c, w), a)
  BY <1>3, PutReads DEF Basic, GetCodeHash, SameCode, Bytes
<1>6. ASSUME NEW k \in Slot
      PROVE  GetStorage(Put(c, w), a, k) =
                IF <<a, k>> \in S THEN u.slots[<<a, k>>] ELSE GetStorage(c, a, k)
  <2>1. getStorageKey(a, k) \in DOMAIN c
    BY KeysInTree
  <2>2. <<a, k>> \in S => u.slots[<<a, k>>] # Unset
    BY <1>2, Marks
  <2> QED
    BY <1>4, <2>1, <2>2, PutReads DEF GetStorage
<1> QED
  BY <1>1, <1>5, <1>6

\* The bytes of the n-th chunk of a code, with zeros behind its end.
Part(code, n) ==
    [j \in 1..ChunkLen |-> IF n * ChunkLen + j <= Len(code)
                           THEN code[n * ChunkLen + j] ELSE 0]

LEMMA PartIsChunk ==
    ASSUME NEW code \in Code, NEW n \in ChunkNumber
    PROVE  Part(code, n) \in Chunks /\ CodeChunk(code, n) = Chunk(Part(code, n))
<1>1. code \in Seq(Nat) /\ n \in Nat /\ ChunkLen \in Nat
  BY CellsAssumption, EmbeddingAssumption
<1>2. n * ChunkLen \in Nat
  BY <1>1
<1>3. ASSUME NEW j \in 1..ChunkLen, n * ChunkLen + j <= Len(code)
      PROVE  code[n * ChunkLen + j] \in Nat
  <2> DEFINE i == n * ChunkLen + j
  <2>1. i \in 1..Len(code)
    BY <1>1, <1>2, <1>3
  <2> QED
    BY <1>1, <2>1
<1> QED
  BY <1>3 DEF Part, Chunks, CodeChunk

\* An account whose code is named has its size, its hash and its chunks.
LEMMA CodedReads ==
    ASSUME NEW c, CellsOK(c), NEW u \in Update, NEW a \in Address
    PROVE  LET d == Coded(c, u) IN
           /\ DOMAIN d = TreeKey
           /\ SameStorage(c, d, a)
           /\ a \notin DOMAIN u.codes =>
                /\ Basic(d, a) = Basic(c, a)
                /\ GetCodeHash(d, a) = GetCodeHash(c, a)
                /\ SameCode(c, d, a)
           /\ a \in DOMAIN u.codes =>
                /\ Basic(d, a) = [Basic(c, a) EXCEPT !.codeSize = Len(u.codes[a])]
                /\ GetCodeHash(d, a) = Keccak256(u.codes[a])
                /\ \A n \in ChunkNumber : Bytes(d, a, n) =
                    IF n \in ChunksOf(u.codes[a]) THEN Part(u.codes[a], n)
                                                  ELSE Bytes(c, a, n)
           /\ Basic(d, a) \in BasicData
<1> DEFINE A == DOMAIN u.codes
           K == {getBasicDataKey(b) : b \in A} \cup {getCodeHashKey(b) : b \in A}
                  \cup UNION {{getCodeChunkKey(b, n) : n \in ChunksOf(u.codes[b])} : b \in A}
           value(k) == LET code == u.codes[k.address] IN
                IF k = getBasicDataKey(k.address)
                THEN Packed([Basic(c, k.address) EXCEPT !.codeSize = Len(code)])
                ELSE IF k = getCodeHashKey(k.address) THEN Keccak256(code)
                ELSE CodeChunk(code, CHOOSE n \in ChunksOf(code) :
                                        getCodeChunkKey(k.address, n) = k)
           w == [k \in K |-> value(k)]
<1>1. Coded(c, u) = Put(c, w)
  BY DEF Coded
<1>2. /\ A \subseteq Address /\ \A b \in A : u.codes[b] \in Code
      /\ DOMAIN c = TreeKey /\ Basic(c, a) \in BasicData
  BY UpdateAssumption DEF CellsOK
<1>3. \A b : ChunksOf(u.codes[b]) \subseteq ChunkNumber
  BY DEF ChunksOf
<1>4. /\ getBasicDataKey(a) \in K <=> a \in A
      /\ getCodeHashKey(a) \in K <=> a \in A
  BY <1>2, <1>3, KeysApart
<1>5. \A k \in Slot : getStorageKey(a, k) \notin K
  BY <1>2, <1>3, KeysApart
<1>6. \A n \in ChunkNumber :
        getCodeChunkKey(a, n) \in K <=> a \in A /\ n \in ChunksOf(u.codes[a])
  BY <1>2, <1>3, KeysApart
<1> HIDE DEF K, value
<1>7. \A k \in TreeKey : /\ k \in K /\ value(k) # Unset => Get(Put(c, w), k) = value(k)
                         /\ k \notin K => Get(Put(c, w), k) = Get(c, k)
  <2>1. DOMAIN w = K /\ \A k \in K : w[k] = value(k)
    OBVIOUS
  <2> HIDE DEF w
  <2> QED
    BY <1>2, <2>1, PutReads
<1>8. DOMAIN Put(c, w) = TreeKey
  BY <1>2 DEF Put
<1> HIDE DEF w
<1>9. SameStorage(c, Put(c, w), a)
  BY <1>5, <1>7, KeysInTree DEF SameStorage, GetStorage
<1>10. ASSUME a \notin A
       PROVE  /\ Basic(Put(c, w), a) = Basic(c, a)
              /\ GetCodeHash(Put(c, w), a) = GetCodeHash(c, a)
              /\ SameCode(c, Put(c, w), a)
  BY <1>4, <1>6, <1>7, <1>10, KeysInTree DEF Basic, GetCodeHash, SameCode, Bytes
<1>11. ASSUME a \in A
       PROVE  /\ Basic(Put(c, w), a) = [Basic(c, a) EXCEPT !.codeSize = Len(u.codes[a])]
              /\ Basic(Put(c, w), a) \in BasicData
              /\ GetCodeHash(Put(c, w), a) = Keccak256(u.codes[a])
              /\ \A n \in ChunkNumber : Bytes(Put(c, w), a, n) =
                    IF n \in ChunksOf(u.codes[a]) THEN Part(u.codes[a], n)
                                                  ELSE Bytes(c, a, n)
  <2> DEFINE code == u.codes[a]
             data == [Basic(c, a) EXCEPT !.codeSize = Len(code)]
  <2>1. code \in Code /\ code \in Seq(Nat)
    BY <1>2, <1>11, CellsAssumption
  <2>2. data \in BasicData
    BY <1>2, <2>1 DEF BasicData
  <2>3. value(getBasicDataKey(a)) = Packed(data)
    BY KeyAddress DEF value
  <2>4. Basic(Put(c, w), a) = data
    <3> HIDE DEF data
    <3>1. Packed(data) # Unset /\ Unpacked(Packed(data)) = data
      BY <2>2, PackReads
    <3>2. Get(Put(c, w), getBasicDataKey(a)) = Packed(data)
      BY <1>4, <1>7, <1>11, <2>3, <3>1, KeysInTree
    <3> QED
      BY <3>1, <3>2 DEF Basic
  <2>5. GetCodeHash(Put(c, w), a) = Keccak256(code)
    <3>1. value(getCodeHashKey(a)) = Keccak256(code)
      BY KeyAddress, KeysApart DEF value
    <3>2. Keccak256(code) # Unset
      BY <2>1, Marks
    <3> QED
      BY <1>4, <1>7, <1>11, <3>1, <3>2, KeysInTree DEF GetCodeHash
  <2>6. ASSUME NEW n \in ChunkNumber
        PROVE  Bytes(Put(c, w), a, n) = IF n \in ChunksOf(code) THEN Part(code, n)
                                                                ELSE Bytes(c, a, n)
    <3> DEFINE k == getCodeChunkKey(a, n)
    <3>1. k \in TreeKey /\ k.address = a
      BY KeysInTree, KeyAddress
    <3>2. CASE n \notin ChunksOf(code)
      BY <1>6, <1>7, <3>1, <3>2 DEF Bytes
    <3>3. CASE n \in ChunksOf(code)
      <4>1. \A m \in ChunksOf(code) : getCodeChunkKey(a, m) = k <=> m = n
        BY <1>3, KeysApart
      <4>2. (CHOOSE m \in ChunksOf(code) : getCodeChunkKey(a, m) = k) = n
        BY <3>3, <4>1
      <4>3. k # getBasicDataKey(a) /\ k # getCodeHashKey(a)
        BY KeysApart
      <4>4. value(k) = CodeChunk(code, n)
        BY <3>1, <4>2, <4>3 DEF value
      <4>5. /\ value(k) = Chunk(Part(code, n)) /\ value(k) # Unset
            /\ BytesOf(Chunk(Part(code, n))) = Part(code, n)
        BY <2>1, <4>4, PartIsChunk, PackReads
      <4>6. k \in K
        BY <1>6, <1>11, <3>3
      <4>7. Get(Put(c, w), k) = Chunk(Part(code, n))
        BY <1>7, <3>1, <4>5, <4>6
      <4> QED
        BY <3>3, <4>5, <4>7 DEF Bytes
    <3> QED
      BY <3>2, <3>3
  <2> QED
    BY <2>2, <2>4, <2>5, <2>6
<1> QED
  BY <1>1, <1>2, <1>8, <1>9, <1>10, <1>11

-----------------------------------------------------------------------------
(* The whole of Apply.                                                     *)

\* The basic data of account a after update u, where it was b.
NewBasic(b, u, a) ==
    [codeSize |-> IF a \in DOMAIN u.codes THEN Len(u.codes[a]) ELSE b.codeSize,
     nonce    |-> IF a \in DOMAIN u.nonces THEN u.nonces[a] ELSE b.nonce,
     balance  |-> IF a \in DOMAIN u.balances THEN u.balances[a] % BalanceMod
                                             ELSE b.balance]

LEMMA AppliedReads ==
    ASSUME NEW c, CellsOK(c), NEW u \in Update, NEW a \in Address
    PROVE  LET d == Applied(c, u) IN
           /\ DOMAIN d = TreeKey
           /\ Basic(d, a) = NewBasic(Basic(c, a), u, a)
           /\ Basic(d, a) \in BasicData
           /\ GetCodeHash(d, a) =
                IF a \in DOMAIN u.codes THEN Keccak256(u.codes[a])
                ELSE IF a \in u.created /\ Basic(c, a) = NoData THEN EmptyCodeHash
                ELSE GetCodeHash(c, a)
           /\ \A n \in ChunkNumber : Bytes(d, a, n) =
                IF a \in DOMAIN u.codes /\ n \in ChunksOf(u.codes[a])
                THEN Part(u.codes[a], n) ELSE Bytes(c, a, n)
           /\ \A k \in Slot : GetStorage(d, a, k) =
                IF <<a, k>> \in DOMAIN u.slots THEN u.slots[<<a, k>>]
                                               ELSE GetStorage(c, a, k)
<1> DEFINE c1 == Created(c, u)
           c2 == Nonced(c1, u)
           c3 == Balanced(c2, u)
           c4 == Slotted(c3, u)
           c5 == Coded(c4, u)
<1>0. Applied(c, u) = c5
  BY DEF Applied
<1>1. DOMAIN c = TreeKey
  BY DEF CellsOK
<1> HIDE DEF c1, c2, c3, c4, c5
<1>2. ASSUME NEW b \in Address
      PROVE  /\ DOMAIN c1 = TreeKey
             /\ Basic(c1, b) = Basic(c, b)
             /\ GetCodeHash(c1, b) = IF b \in u.created /\ Basic(c, b) = NoData
                                     THEN EmptyCodeHash ELSE GetCodeHash(c, b)
             /\ SameCode(c, c1, b) /\ SameStorage(c, c1, b)
  BY <1>1, CreatedReads DEF c1
<1>3. CellsOK(c1)
  BY <1>2 DEF CellsOK, SameCode, SameStorage
<1>4. ASSUME NEW b \in Address
      PROVE  /\ DOMAIN c2 = TreeKey
             /\ Basic(c2, b) = IF b \in DOMAIN u.nonces
                               THEN [Basic(c1, b) EXCEPT !.nonce = u.nonces[b]]
                               ELSE Basic(c1, b)
             /\ Basic(c2, b) \in BasicData
             /\ GetCodeHash(c2, b) = GetCodeHash(c1, b)
             /\ SameCode(c1, c2, b) /\ SameStorage(c1, c2, b)
  BY <1>3, NoncedReads DEF c2
<1>5. CellsOK(c2)
  BY <1>3, <1>4 DEF CellsOK, SameCode, SameStorage
<1>6. ASSUME NEW b \in Address
      PROVE  /\ DOMAIN c3 = TreeKey
             /\ Basic(c3, b) = IF b \in DOMAIN u.balances
                               THEN [Basic(c2, b) EXCEPT !.balance = u.balances[b] % BalanceMod]
                               ELSE Basic(c2, b)
             /\ Basic(c3, b) \in BasicData
             /\ GetCodeHash(c3, b) = GetCodeHash(c2, b)
             /\ SameCode(c2, c3, b) /\ SameStorage(c2, c3, b)
  BY <1>5, BalancedReads DEF c3
<1>7. CellsOK(c3)
  BY <1>5, <1>6 DEF CellsOK, SameCode, SameStorage
<1>8. ASSUME NEW b \in Address
      PROVE  /\ DOMAIN c4 = TreeKey
             /\ Basic(c4, b) = Basic(c3, b)
             /\ GetCodeHash(c4, b) = GetCodeHash(c3, b)
             /\ SameCode(c3, c4, b)
             /\ \A k \in Slot : GetStorage(c4, b, k) =
                    IF <<b, k>> \in DOMAIN u.slots THEN u.slots[<<b, k>>]
                                                   ELSE GetStorage(c3, b, k)
  BY <1>7, SlottedReads DEF c4, CellsOK
<1>9. CellsOK(c4)
  <2>1. \A x \in DOMAIN u.slots : u.slots[x] \in Word
    BY UpdateAssumption
  <2> QED
    BY <1>7, <1>8, <2>1 DEF CellsOK, SameCode
<1>10. /\ DOMAIN c5 = TreeKey
       /\ SameStorage(c4, c5, a)
       /\ a \notin DOMAIN u.codes =>
            /\ Basic(c5, a) = Basic(c4, a)
            /\ GetCodeHash(c5, a) = GetCodeHash(c4, a)
            /\ SameCode(c4, c5, a)
       /\ a \in DOMAIN u.codes =>
            /\ Basic(c5, a) = [Basic(c4, a) EXCEPT !.codeSize = Len(u.codes[a])]
            /\ GetCodeHash(c5, a) = Keccak256(u.codes[a])
            /\ \A n \in ChunkNumber : Bytes(c5, a, n) =
                IF n \in ChunksOf(u.codes[a]) THEN Part(u.codes[a], n)
                                              ELSE Bytes(c4, a, n)
       /\ Basic(c5, a) \in BasicData
  BY <1>9, CodedReads DEF c5
<1>11. Basic(c5, a) = NewBasic(Basic(c, a), u, a)
  <2>1. Basic(c, a) \in BasicData
    BY DEF CellsOK
  <2>2. Basic(c3, a) = [codeSize |-> Basic(c, a).codeSize,
                        nonce    |-> IF a \in DOMAIN u.nonces THEN u.nonces[a]
                                     ELSE Basic(c, a).nonce,
                        balance  |-> IF a \in DOMAIN u.balances
                                     THEN u.balances[a] % BalanceMod
                                     ELSE Basic(c, a).balance]
    <3>1. Basic(c2, a) = [codeSize |-> Basic(c, a).codeSize,
                          nonce    |-> IF a \in DOMAIN u.nonces THEN u.nonces[a]
                                       ELSE Basic(c, a).nonce,
                          balance  |-> Basic(c, a).balance]
      BY <1>2, <1>4, <2>1 DEF BasicData
    <3> QED
      BY <1>6, <3>1
  <2>3. Basic(c4, a) = Basic(c3, a)
    BY <1>8
  <2>4. CASE a \in DOMAIN u.codes
    <3>1. Basic(c5, a) = [Basic(c4, a) EXCEPT !.codeSize = Len(u.codes[a])]
      BY <1>10, <2>4
    <3> QED
      BY <2>2, <2>3, <2>4, <3>1 DEF NewBasic
  <2>5. CASE a \notin DOMAIN u.codes
    <3>1. Basic(c5, a) = Basic(c4, a)
      BY <1>10, <2>5
    <3> QED
      BY <2>2, <2>3, <2>5, <3>1 DEF NewBasic
  <2> QED
    BY <2>4, <2>5
<1>12. GetCodeHash(c5, a) =
        IF a \in DOMAIN u.codes THEN Keccak256(u.codes[a])
        ELSE IF a \in u.created /\ Basic(c, a) = NoData THEN EmptyCodeHash
        ELSE GetCodeHash(c, a)
  BY <1>2, <1>4, <1>6, <1>8, <1>10
<1>13. \A n \in ChunkNumber : Bytes(c5, a, n) =
        IF a \in DOMAIN u.codes /\ n \in ChunksOf(u.codes[a])
        THEN Part(u.codes[a], n) ELSE Bytes(c, a, n)
  BY <1>2, <1>4, <1>6, <1>8, <1>10 DEF SameCode
<1>14. \A k \in Slot : GetStorage(c5, a, k) =
        IF <<a, k>> \in DOMAIN u.slots THEN u.slots[<<a, k>>]
                                       ELSE GetStorage(c, a, k)
  BY <1>2, <1>4, <1>6, <1>8, <1>10 DEF SameStorage
<1> QED
  BY <1>0, <1>10, <1>11, <1>12, <1>13, <1>14

LEMMA AppliedOK ==
    ASSUME NEW c, CellsOK(c), NEW u \in Update
    PROVE  CellsOK(Applied(c, u))
<1> DEFINE d == Applied(c, u)
<1>1. ASSUME NEW a \in Address
      PROVE  /\ Basic(d, a) \in BasicData
             /\ \A n \in ChunkNumber : Bytes(d, a, n) \in Chunks
             /\ \A k \in Slot : GetStorage(d, a, k) \in Word
  <2>1. a \in DOMAIN u.codes => \A n \in ChunkNumber : Part(u.codes[a], n) \in Chunks
    BY UpdateAssumption, PartIsChunk
  <2>2. \A x \in DOMAIN u.slots : u.slots[x] \in Word
    BY UpdateAssumption
  <2> HIDE DEF d
  <2>3. /\ \A n \in ChunkNumber : Bytes(c, a, n) \in Chunks
        /\ \A k \in Slot : GetStorage(c, a, k) \in Word
    BY DEF CellsOK
  <2>4. \A n \in ChunkNumber : Bytes(d, a, n) =
            IF a \in DOMAIN u.codes /\ n \in ChunksOf(u.codes[a])
            THEN Part(u.codes[a], n) ELSE Bytes(c, a, n)
    BY AppliedReads DEF d
  <2>5. \A k \in Slot : GetStorage(d, a, k) =
            IF <<a, k>> \in DOMAIN u.slots THEN u.slots[<<a, k>>]
                                           ELSE GetStorage(c, a, k)
    BY AppliedReads DEF d
  <2>6. Basic(d, a) \in BasicData
    BY AppliedReads DEF d
  <2> QED
    BY <2>1, <2>2, <2>3, <2>4, <2>5, <2>6
<1>2. DOMAIN d = TreeKey
  <2>1. \A x, w : DOMAIN Put(x, w) = DOMAIN x
    BY DEF Put
  <2>2. \A x : /\ DOMAIN Created(x, u) = DOMAIN x /\ DOMAIN Nonced(x, u) = DOMAIN x
              /\ DOMAIN Balanced(x, u) = DOMAIN x /\ DOMAIN Slotted(x, u) = DOMAIN x
    BY <2>1 DEF Created, Nonced, Balanced, Slotted
  <2>3. \A x : DOMAIN Coded(x, u) = DOMAIN x
    BY <2>1 DEF Coded
  <2>4. DOMAIN d = DOMAIN c
    BY <2>2, <2>3 DEF Applied
  <2> QED
    BY <2>4 DEF CellsOK
<1> QED
  BY <1>1, <1>2 DEF CellsOK

-----------------------------------------------------------------------------
(* Code.                                                                   *)

\* The size and the chunks of account a are those of a code.
HasCode(c, a, code) ==
    /\ GetCodeSize(c, a) = Len(code)
    /\ \A n \in ChunksOf(code) : Bytes(c, a, n) = Part(code, n)

\* GetCode returns it: every byte up to the size is in a chunk that is read
\* and that was written for this code.
LEMMA CodeIsRead ==
    ASSUME NEW c, NEW a \in Address, NEW code \in Code \cup {<<>>},
           HasCode(c, a, code)
    PROVE  GetCode(c, a) = code
<1> DEFINE L == ChunkLen
           size == Len(code)
           ByteAt(n, i) == IF n < ChunksRead(size)
                           THEN BytesOf(Get(c, getCodeChunkKey(a, n)))[i] ELSE 0
<1>1. /\ code \in Seq(Nat) /\ size \in Nat
      /\ L \in Nat /\ L > 0
  <2>1. CASE code \in Code
    BY <2>1, CellsAssumption
  <2>2. CASE code = <<>>
    BY <2>2, CellsAssumption
  <2> QED
    BY <2>1, <2>2
<1>2. GetCode(c, a) = [j \in 1..size |-> ByteAt((j - 1) \div L, ((j - 1) % L) + 1)]
  <2>1. GetCodeSize(c, a) = size
    BY DEF HasCode
  <2> QED
    BY <2>1 DEF GetCode
<1>3. ASSUME NEW j \in 1..size
      PROVE  ByteAt((j - 1) \div L, ((j - 1) % L) + 1) = code[j]
  <2> DEFINE n == (j - 1) \div L
             i == ((j - 1) % L) + 1
  <2>1. /\ j - 1 \in Nat /\ n \in Nat /\ i \in 1..L
        /\ j - 1 = L * n + (i - 1)
    BY <1>1, DivMod
  <2>2. /\ size \div L \in Nat /\ size % L \in 0..(L - 1)
        /\ size = L * (size \div L) + (size % L)
    BY <1>1, DivMod
  <2> HIDE DEF n, i, L
  <2>3. n * L \in Nat /\ n * L = L * n /\ n * L + i = j
    BY <1>1, <2>1
  <2>4. n * L < size
    BY <1>1, <2>1, <2>3
  <2>5. n <= size \div L
    <3>1. SUFFICES ASSUME n >= size \div L + 1 PROVE FALSE
      BY <2>1, <2>2
    <3>2. L * n >= L * (size \div L + 1)
      <4> DEFINE q == size \div L + 1
                 m == n - q
      <4>1. q \in Nat /\ m \in Nat /\ n = q + m
        BY <2>1, <2>2, <3>1
      <4> HIDE DEF q, m
      <4>2. L * (q + m) = L * q + L * m /\ L * m \in Nat /\ L * q \in Nat
        BY <1>1, <4>1
      <4>3. L * n >= L * q
        BY <4>1, <4>2
      <4> QED
        BY <4>3 DEF q
    <3>3. L * (size \div L + 1) = L * (size \div L) + L
      BY <1>1, <2>2
    <3>4. L * (size \div L) \in Nat
      BY <1>1, <2>2
    <3> QED
      BY <1>1, <2>2, <2>3, <2>4, <3>2, <3>3, <3>4
  <2>6. n < ChunksRead(size)
    BY <2>1, <2>2, <2>5 DEF ChunksRead, L
  <2>7. n \in ChunksOf(code)
    <3>1. code \in Code
      BY <1>1, <2>4, <2>3
    <3>2. n \in ChunkNumber
      BY <2>1, <2>2, <2>5, <3>1, CellsAssumption DEF L
    <3> QED
      BY <2>4, <3>2 DEF ChunksOf, L
  <2>8. BytesOf(Get(c, getCodeChunkKey(a, n))) = Part(code, n)
    BY <2>7 DEF HasCode, Bytes
  <2>9. Part(code, n)[i] = code[n * L + i]
    BY <1>1, <2>1, <2>3 DEF Part, L
  <2> QED
    BY <2>3, <2>6, <2>8, <2>9 DEF n, i
<1>4. code = [j \in 1..size |-> code[j]]
  BY <1>1
<1> HIDE DEF ByteAt
<1> QED
  BY <1>2, <1>3, <1>4

\* Some code fits what an account has, with its hash or with none.
CodeInv(c) ==
    \A a \in Address : \E code \in Code \cup {<<>>} :
        /\ HasCode(c, a, code)
        /\ \/ GetCodeHash(c, a) = Keccak256(code)
           \/ GetCodeHash(c, a) = Zero /\ code = <<>>

LEMMA AppliedCode ==
    ASSUME NEW c, CellsOK(c), CodeInv(c), NEW u \in Update
    PROVE  CodeInv(Applied(c, u))
<1> DEFINE d == Applied(c, u)
<1> SUFFICES ASSUME NEW a \in Address
             PROVE  \E code \in Code \cup {<<>>} :
                        /\ HasCode(d, a, code)
                        /\ \/ GetCodeHash(d, a) = Keccak256(code)
                           \/ GetCodeHash(d, a) = Zero /\ code = <<>>
  BY DEF CodeInv
<1>1. /\ Basic(d, a) = NewBasic(Basic(c, a), u, a)
      /\ GetCodeHash(d, a) =
            IF a \in DOMAIN u.codes THEN Keccak256(u.codes[a])
            ELSE IF a \in u.created /\ Basic(c, a) = NoData THEN EmptyCodeHash
            ELSE GetCodeHash(c, a)
      /\ \A n \in ChunkNumber : Bytes(d, a, n) =
            IF a \in DOMAIN u.codes /\ n \in ChunksOf(u.codes[a])
            THEN Part(u.codes[a], n) ELSE Bytes(c, a, n)
  BY AppliedReads
<1> HIDE DEF d
<1>2. \A code : ChunksOf(code) \subseteq ChunkNumber
  BY DEF ChunksOf
<1>3. CASE a \in DOMAIN u.codes
  <2>1. u.codes[a] \in Code
    BY <1>3, UpdateAssumption
  <2>2. HasCode(d, a, u.codes[a])
    BY <1>1, <1>2, <1>3 DEF HasCode, GetCodeSize, NewBasic
  <2> QED
    BY <1>1, <1>3, <2>1, <2>2
<1>4. CASE a \notin DOMAIN u.codes
  <2>1. PICK code \in Code \cup {<<>>} :
            /\ HasCode(c, a, code)
            /\ \/ GetCodeHash(c, a) = Keccak256(code)
               \/ GetCodeHash(c, a) = Zero /\ code = <<>>
    BY DEF CodeInv
  <2>2. HasCode(d, a, code)
    BY <1>1, <1>2, <1>4, <2>1 DEF HasCode, GetCodeSize, NewBasic
  <2>3. ASSUME Basic(c, a) = NoData
        PROVE  code = <<>>
    <3>1. code \in Seq(Nat) /\ Len(code) = 0
      BY <2>1, <2>3, CellsAssumption DEF HasCode, GetCodeSize, NoData
    <3> QED
      BY <3>1
  <2> QED
    BY <1>1, <1>4, <2>1, <2>2, <2>3 DEF EmptyCodeHash
<1> QED
  BY <1>3, <1>4

-----------------------------------------------------------------------------
(* The inductive invariant.                                                *)

\* Every slot that is not zero is tracked.
TrackedInv ==
    /\ writtenSlots \subseteq Address \X Slot
    /\ \A a \in Address : \A k \in Slot :
        GetStorage(cells, a, k) # Zero => <<a, k>> \in writtenSlots

IInv == CellsOK(cells) /\ CodeInv(cells) /\ TrackedInv

LEMMA InitReads ==
    ASSUME Init, NEW a \in Address
    PROVE  /\ DOMAIN cells = TreeKey
           /\ Basic(cells, a) = NoData
           /\ GetCodeHash(cells, a) = Zero
           /\ \A n \in ChunkNumber : Bytes(cells, a, n) = ZeroChunk
           /\ \A k \in Slot : GetStorage(cells, a, k) = Zero
<1>1. \A k \in TreeKey : Get(cells, k) = Zero
  BY DEF Init, Get
<1> QED
  BY <1>1, KeysInTree
     DEF Init, Basic, Unpacked, GetCodeHash, Bytes, BytesOf, GetStorage

LEMMA InitIInv == Init => IInv
<1> SUFFICES ASSUME Init PROVE IInv
  OBVIOUS
<1>1. CellsOK(cells)
  <2>1. DOMAIN cells = TreeKey
    BY DEF Init
  <2>2. Zero \in Word
    BY CellsAssumption
  <2> QED
    BY <2>1, <2>2, InitReads, PackReads DEF CellsOK
<1>2. CodeInv(cells)
  <2> SUFFICES ASSUME NEW a \in Address
               PROVE  HasCode(cells, a, <<>>) /\ GetCodeHash(cells, a) = Zero
    BY DEF CodeInv
  <2>1. GetCodeSize(cells, a) = 0 /\ GetCodeHash(cells, a) = Zero
    BY InitReads DEF GetCodeSize, NoData
  <2>2. ChunksOf(<<>>) = {}
    <3>1. \A n \in ChunkNumber : n * ChunkLen \in Nat
      BY CellsAssumption, EmbeddingAssumption
    <3>2. Len(<<>>) = 0
      OBVIOUS
    <3> QED
      BY <3>1, <3>2 DEF ChunksOf
  <2>3. Len(<<>>) = 0
    OBVIOUS
  <2> QED
    BY <2>1, <2>2, <2>3 DEF HasCode
<1>3. TrackedInv
  BY InitReads DEF TrackedInv, Init
<1> QED
  BY <1>1, <1>2, <1>3 DEF IInv

LEMMA NextIInv == IInv /\ [Next]_stateVars => IInv'
<1> SUFFICES ASSUME IInv, [Next]_stateVars PROVE IInv'
  OBVIOUS
<1>1. CASE Next
  <2>1. PICK u \in Update : Apply(u)
    BY <1>1 DEF Next
  <2>2. /\ cells' = Applied(cells, u)
        /\ writtenSlots' = writtenSlots \cup DOMAIN u.slots
    BY <2>1 DEF Apply, Tracked
  <2>3. CellsOK(cells')
    BY <2>2, AppliedOK DEF IInv
  <2>4. CodeInv(cells')
    BY <2>2, AppliedCode DEF IInv
  <2>5. writtenSlots' \subseteq Address \X Slot
    BY <2>2, UpdateAssumption DEF IInv, TrackedInv
  <2>6. ASSUME NEW a \in Address, NEW k \in Slot, GetStorage(cells', a, k) # Zero
        PROVE  <<a, k>> \in writtenSlots'
    <3>1. <<a, k>> \notin DOMAIN u.slots =>
            GetStorage(cells', a, k) = GetStorage(cells, a, k)
      BY <2>2, AppliedReads DEF IInv
    <3> QED
      BY <2>2, <2>6, <3>1 DEF IInv, TrackedInv
  <2> QED
    BY <2>3, <2>4, <2>5, <2>6 DEF IInv, TrackedInv
<1>2. CASE UNCHANGED stateVars
  BY <1>2 DEF IInv, TrackedInv, stateVars
<1> QED
  BY <1>1, <1>2

THEOREM InvariantCorrect == Spec => []IInv
BY InitIInv, NextIInv, PTL DEF Spec

-----------------------------------------------------------------------------
(* What follows from it.                                                   *)

\* The code hash in cells that Accounts can reach is that of the code.
LEMMA CodeHashOf ==
    ASSUME NEW c, CodeInv(c), NEW a \in Address
    PROVE  \/ GetCodeHash(c, a) = Keccak256(GetCode(c, a))
           \/ GetCodeHash(c, a) = Zero /\ GetCode(c, a) = <<>>
<1>1. PICK code \in Code \cup {<<>>} :
        /\ HasCode(c, a, code)
        /\ \/ GetCodeHash(c, a) = Keccak256(code)
           \/ GetCodeHash(c, a) = Zero /\ code = <<>>
  BY DEF CodeInv
<1> QED
  BY <1>1, CodeIsRead

LEMMA CodeHashFollows == CodeInv(cells) => CodeMatchesHash
BY CodeHashOf DEF CodeMatchesHash

LEMMA TypesFollow == IInv => TypeOK
<1> SUFFICES ASSUME IInv PROVE TypeOK
  OBVIOUS
<1>1. ASSUME NEW a \in Address
      PROVE  GetCodeHash(cells, a) \in
                {Keccak256(code) : code \in Code \cup {<<>>}} \cup {Zero}
  BY DEF IInv, CodeInv
<1> QED
  BY <1>1 DEF IInv, CellsOK, TrackedInv, TypeOK

LEMMA StorageFollows == TrackedInv => EmptyStorageExact
<1> SUFFICES ASSUME TrackedInv, NEW a \in Address
             PROVE  HasEmptyStorage(cells, writtenSlots, a)
                        <=> \A k \in Slot : GetStorage(cells, a, k) = Zero
  BY DEF EmptyStorageExact
<1>1. ASSUME \A k \in Slot : GetStorage(cells, a, k) = Zero
      PROVE  HasEmptyStorage(cells, writtenSlots, a)
  BY <1>1 DEF HasEmptyStorage, TrackedInv
<1>2. ASSUME HasEmptyStorage(cells, writtenSlots, a), NEW k \in Slot
      PROVE  GetStorage(cells, a, k) = Zero
  <2>1. <<a, k>>[1] = a /\ <<a, k>>[2] = k
    OBVIOUS
  <2> QED
    BY <1>2, <2>1 DEF HasEmptyStorage, TrackedInv
<1> QED
  BY <1>1, <1>2

\* Every cell holds a value of its kind, for any updates, accounts, slots
\* and codes: Apply's reading, patching and writing of the shared cell of
\* nonce, balance and code size never mixes it up.
THEOREM TypeCorrect == Spec => []TypeOK
BY InvariantCorrect, TypesFollow, PTL

\* GetCode and GetCodeHash never part, for codes of any length, also where
\* GetCode reads a chunk too many and older chunks stay in the trie.
THEOREM CodeHashCorrect == Spec => []CodeMatchesHash
<1>1. IInv => CodeMatchesHash
  BY CodeHashFollows DEF IInv
<1> QED
  BY <1>1, InvariantCorrect, PTL

\* HasEmptyStorage is right about every account of a state that only Apply
\* has changed.
THEOREM EmptyStorageCorrect == Spec => []EmptyStorageExact
<1>1. IInv => EmptyStorageExact
  BY StorageFollows DEF IInv
<1> QED
  BY <1>1, InvariantCorrect, PTL

-----------------------------------------------------------------------------
(* Accounts implements Ledger.                                             *)

\* What can be read of the accounts in the cells c.
View(c) ==
    [a \in Address |->
        [nonce   |-> GetNonce(c, a),
         balance |-> GetBalance(c, a),
         code    |-> GetCode(c, a),
         slots   |-> [k \in Slot |-> GetStorage(c, a, k)]]]

\* The code of an account whose code is not named is read as before: its
\* size and its chunks are.
LEMMA CodeRead ==
    ASSUME NEW c, CellsOK(c), CodeInv(c), NEW u \in Update, NEW a \in Address
    PROVE  GetCode(Applied(c, u), a) =
                IF a \in DOMAIN u.codes THEN u.codes[a] ELSE GetCode(c, a)
<1> DEFINE d == Applied(c, u)
<1>1. /\ Basic(d, a) = NewBasic(Basic(c, a), u, a)
      /\ \A n \in ChunkNumber : Bytes(d, a, n) =
            IF a \in DOMAIN u.codes /\ n \in ChunksOf(u.codes[a])
            THEN Part(u.codes[a], n) ELSE Bytes(c, a, n)
  BY AppliedReads
<1> HIDE DEF d
<1>2. \A code : ChunksOf(code) \subseteq ChunkNumber
  BY DEF ChunksOf
<1>3. CASE a \in DOMAIN u.codes
  <2>1. u.codes[a] \in Code
    BY <1>3, UpdateAssumption
  <2>2. HasCode(d, a, u.codes[a])
    BY <1>1, <1>2, <1>3 DEF HasCode, GetCodeSize, NewBasic
  <2> QED
    BY <1>3, <2>1, <2>2, CodeIsRead DEF d
<1>4. CASE a \notin DOMAIN u.codes
  <2>1. PICK code \in Code \cup {<<>>} : HasCode(c, a, code)
    BY DEF CodeInv
  <2>2. HasCode(d, a, code)
    BY <1>1, <1>2, <1>4, <2>1 DEF HasCode, GetCodeSize, NewBasic
  <2> QED
    BY <1>4, <2>1, <2>2, CodeIsRead DEF d
<1> QED
  BY <1>3, <1>4

\* Apply changes the view as Ledger does for the update as it can be stored,
\* if this deletes no account.
LEMMA ApplyIsLedgerStep ==
    ASSUME IInv, NEW u \in Update, Apply(u), u.deleted = {}
    PROVE  Accts!Apply(Storable(u))
<1> DEFINE v == Storable(u)
           old == View(cells)
           new == View(cells')
<1>1. AccountsView = old /\ AccountsView' = new
  BY DEF AccountsView, View
<1>2. /\ v.nonces = u.nonces /\ v.codes = u.codes /\ v.slots = u.slots
      /\ v.balances = [a \in DOMAIN u.balances |-> u.balances[a] % BalanceMod]
      /\ v.deleted = {}
  BY UpdateAssumption DEF Storable
<1>3. cells' = Applied(cells, u) /\ CellsOK(cells) /\ CodeInv(cells)
  BY DEF Apply, IInv
<1> HIDE DEF v
<1>4. ASSUME NEW a \in Address
      PROVE  /\ GetNonce(cells', a) = Accts!NewOr(v.nonces, a, GetNonce(cells, a))
             /\ GetBalance(cells', a) = Accts!NewOr(v.balances, a, GetBalance(cells, a))
             /\ GetCode(cells', a) = Accts!NewOr(v.codes, a, GetCode(cells, a))
             /\ \A k \in Slot : GetStorage(cells', a, k) =
                    Accts!NewOr(v.slots, <<a, k>>, GetStorage(cells, a, k))
  <2>1. Basic(cells', a) = NewBasic(Basic(cells, a), u, a)
    BY <1>3, AppliedReads
  <2>2. /\ GetNonce(cells', a) = Accts!NewOr(v.nonces, a, GetNonce(cells, a))
        /\ GetBalance(cells', a) = Accts!NewOr(v.balances, a, GetBalance(cells, a))
    BY <1>2, <2>1 DEF GetNonce, GetBalance, NewBasic, Accts!NewOr
  <2>3. GetCode(cells', a) = Accts!NewOr(v.codes, a, GetCode(cells, a))
    BY <1>2, <1>3, CodeRead DEF Accts!NewOr
  <2>4. \A k \in Slot : GetStorage(cells', a, k) =
            Accts!NewOr(v.slots, <<a, k>>, GetStorage(cells, a, k))
    BY <1>2, <1>3, AppliedReads DEF Accts!NewOr
  <2> QED
    BY <2>2, <2>3, <2>4
<1>5. new = [a \in Address |->
            [nonce   |-> Accts!NewOr(v.nonces, a, old[a].nonce),
             balance |-> Accts!NewOr(v.balances, a, old[a].balance),
             code    |-> Accts!NewOr(v.codes, a, old[a].code),
             slots   |-> [k \in Slot |->
                            Accts!NewOr(v.slots, <<a, k>>, old[a].slots[k])]]]
  <2>1. ASSUME NEW a \in Address
        PROVE  new[a] =
            [nonce   |-> Accts!NewOr(v.nonces, a, old[a].nonce),
             balance |-> Accts!NewOr(v.balances, a, old[a].balance),
             code    |-> Accts!NewOr(v.codes, a, old[a].code),
             slots   |-> [k \in Slot |->
                            Accts!NewOr(v.slots, <<a, k>>, old[a].slots[k])]]
    <3>1. old[a] = [nonce   |-> GetNonce(cells, a), balance |-> GetBalance(cells, a),
                    code    |-> GetCode(cells, a),
                    slots   |-> [k \in Slot |-> GetStorage(cells, a, k)]]
      BY DEF View
    <3>2. new[a] = [nonce   |-> GetNonce(cells', a), balance |-> GetBalance(cells', a),
                    code    |-> GetCode(cells', a),
                    slots   |-> [k \in Slot |-> GetStorage(cells', a, k)]]
      BY DEF View
    <3>3. [k \in Slot |-> GetStorage(cells', a, k)]
            = [k \in Slot |-> Accts!NewOr(v.slots, <<a, k>>, old[a].slots[k])]
      BY <1>4, <3>1
    <3> HIDE DEF old, new
    <3>4. /\ old[a].nonce = GetNonce(cells, a) /\ old[a].balance = GetBalance(cells, a)
          /\ old[a].code = GetCode(cells, a)
      BY <3>1
    <3> QED
      BY <1>4, <3>2, <3>3, <3>4
  <2> QED
    BY <2>1 DEF View
<1> HIDE DEF old, new
<1>6. Accts!Apply(v)
  <2>1. \A a : a \notin v.deleted
    BY <1>2
  <2>2. \A a : (IF a \in v.deleted THEN Accts!NewAccount ELSE AccountsView[a]) = old[a]
    BY <1>1, <2>1
  <2> QED
    BY <1>1, <1>5, <2>2 DEF Accts!Apply
<1> QED
  BY <1>6 DEF v

\* Whatever updates come, the accounts read as those of a ledger in which
\* every field is kept apart, as long as no update deletes an account.  Of
\* balances the part below BalanceMod is kept.
THEOREM AccountsImplementLedger ==
    (\A u \in Update : u.deleted = {}) => (Spec => RefinesLedger)
<1> SUFFICES ASSUME \A u \in Update : u.deleted = {} PROVE Spec => RefinesLedger
  OBVIOUS
<1>1. Init => Accts!Init
  <2> SUFFICES ASSUME Init PROVE Accts!Init
    OBVIOUS
  <2>1. ASSUME NEW a \in Address
        PROVE  /\ GetNonce(cells, a) = 0 /\ GetBalance(cells, a) = 0
               /\ GetCode(cells, a) = <<>>
               /\ \A k \in Slot : GetStorage(cells, a, k) = Zero
    <3>1. Basic(cells, a) = NoData /\ \A k \in Slot : GetStorage(cells, a, k) = Zero
      BY InitReads
    <3>2. GetCodeSize(cells, a) = 0
      BY <3>1 DEF GetCodeSize, NoData
    <3>3. GetCode(cells, a) = <<>>
      BY <3>2 DEF GetCode
    <3> QED
      BY <3>1, <3>3 DEF GetNonce, GetBalance, NoData
  <2> QED
    BY <2>1 DEF Accts!Init, Accts!NewAccount, AccountsView
<1>2. IInv /\ [Next]_stateVars => [Accts!Next]_AccountsView
  <2> SUFFICES ASSUME IInv, [Next]_stateVars PROVE [Accts!Next]_AccountsView
    OBVIOUS
  <2>1. CASE Next
    <3>1. PICK u \in Update : Apply(u)
      BY <2>1 DEF Next
    <3>2. Accts!Apply(Storable(u))
      BY <3>1, ApplyIsLedgerStep
    <3> QED
      BY <3>2 DEF Accts!Next
  <2>2. CASE UNCHANGED stateVars
    <3>1. cells' = cells
      BY <2>2 DEF stateVars
    <3> QED
      BY <3>1 DEF AccountsView
  <2> QED
    BY <2>1, <2>2
<1>3. IInv => [\A u \in Update : Apply(u) => Accts!Apply(Storable(u))]_stateVars
  BY ApplyIsLedgerStep
<1> QED
  BY <1>1, <1>2, <1>3, InvariantCorrect, PTL DEF Spec, RefinesLedger, Accts!Spec
=============================================================================
