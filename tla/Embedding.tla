------------------------------ MODULE Embedding ------------------------------
(***************************************************************************)
(* Where the fields of an account live in the trie: memory/embedding.go.   *)
(*                                                                         *)
(* A key is 31 bytes of the Pedersen hash of (address, treeIndex) and the  *)
(* byte subIndex.  The hash is taken to be free of collisions, so a key is *)
(* the triple itself.  The arithmetic is that of the code: 256-bit words,  *)
(* none of whose operations wraps for the indices that occur.              *)
(***************************************************************************)
EXTENDS Naturals

CONSTANTS
    Address,               \* the accounts in use
    Slot,                  \* the storage keys in use, as numbers
    ChunkNumber,           \* the numbers of code chunks in use
    verkleNodeWidth,       \* 256
    headerStorageOffset,   \* 64, the first sub-index of the first slots
    codeOffset,            \* 128, the sub-index of the first code chunk
    mainStorageOffset      \* 2^240, the first tree index of the other slots

ASSUME EmbeddingAssumption ==
    /\ Slot \subseteq Nat
    /\ ChunkNumber \subseteq Nat
    /\ verkleNodeWidth \in Nat /\ headerStorageOffset \in Nat
    /\ codeOffset \in Nat /\ mainStorageOffset \in Nat \ {0}
    /\ 2 <= headerStorageOffset
    /\ headerStorageOffset <= codeOffset
    /\ codeOffset <= verkleNodeWidth
    /\ \A c \in ChunkNumber :
        (codeOffset + c) \div verkleNodeWidth < mainStorageOffset

getTrieKey(a, tree, sub) == [address |-> a, treeIndex |-> tree, subIndex |-> sub]

\* Code size, nonce and balance.
getBasicDataKey(a) == getTrieKey(a, 0, 0)

getCodeHashKey(a) == getTrieKey(a, 0, 1)

\* Code chunks follow the header storage and run on into the next nodes.
getCodeChunkKey(a, n) ==
    getTrieKey(a, (codeOffset + n) \div verkleNodeWidth,
                  (codeOffset + n) % verkleNodeWidth)

\* Variant of getStorageKey without the offset of the header slots.
getStorageKeyNoOffset(a, k) ==
    IF k < codeOffset - headerStorageOffset
    THEN getTrieKey(a, 0, k % verkleNodeWidth)
    ELSE getTrieKey(a, mainStorageOffset + k \div verkleNodeWidth,
                       k % verkleNodeWidth)

\* The first slots live in the account's header node, the others far out.
getStorageKey(a, k) ==
    IF k < codeOffset - headerStorageOffset
    THEN getTrieKey(a, 0, (headerStorageOffset + k) % verkleNodeWidth)
    ELSE getTrieKey(a, mainStorageOffset + k \div verkleNodeWidth,
                       k % verkleNodeWidth)

\* The keys an account can occupy.
KeysOf(a) ==
    {getBasicDataKey(a), getCodeHashKey(a)}
        \cup {getCodeChunkKey(a, n) : n \in ChunkNumber}
        \cup {getStorageKey(a, k) : k \in Slot}

TreeKey == UNION {KeysOf(a) : a \in Address}
=============================================================================
