---------------------------- MODULE AccountCells ----------------------------
(***************************************************************************)
(* How the accounts of a State in memory/state.go are spread over cells:   *)
(* what Apply writes for an update, and how the getters read it back.      *)
(*                                                                         *)
(* The trie is the map KVStore that module Trie implements, from the keys  *)
(* of Embedding to 32-byte values.  The operators take this map, c, as a   *)
(* parameter, since there can be several states.  A value is abstracted to *)
(* what it holds: a record for basic data, a tuple of bytes for a chunk of *)
(* code (memory/code.go), the code it was computed from for a hash, which  *)
(* is taken to be free of collisions.  Zero is 32 zero bytes, whatever     *)
(* they stand for, and what the trie returns for a key that was never set. *)
(* The first byte of a chunk, which counts push data, is left out: code is *)
(* made of other instructions.                                             *)
(***************************************************************************)
EXTENDS Embedding, Sequences

CONSTANTS
    Word,         \* the values of slots, Zero among them
    Zero,
    Unset,        \* marks a cell that was never set
    BalanceMod,   \* 2^128: a balance is stored in 16 bytes
    ChunkLen,     \* 31, the bytes of code in a chunk
    Code,         \* the codes in use, sequences of numbers
    Update        \* the updates in use

BasicData == [codeSize : Nat, nonce : Nat, balance : Nat]

NoData == [codeSize |-> 0, nonce |-> 0, balance |-> 0]

Keccak256(code) == <<"hash", code>>

EmptyCodeHash == Keccak256(<<>>)

ASSUME CellsAssumption ==
    /\ Zero \in Word
    /\ Unset \notin Word
    /\ BalanceMod \in Nat \ {0}
    /\ ChunkLen \in Nat \ {0}
    /\ Code \subseteq Seq(Nat)
    /\ \A code \in Code :
        /\ Keccak256(code) \notin {Zero, Unset}
        /\ 0..(Len(code) \div ChunkLen) \subseteq ChunkNumber
    /\ EmptyCodeHash \notin {Zero, Unset}
    /\ {Zero, Unset} \cap BasicData = {}
    /\ {Zero, Unset} \cap [1..ChunkLen -> Nat] = {}

\* An update is a record of the fields that change, as maps from accounts
\* (slots: from pairs of account and slot) to values.  It names a field at
\* most once.
ASSUME UpdateAssumption ==
    \A u \in Update :
        /\ DOMAIN u = {"created", "nonces", "balances", "slots", "codes", "deleted"}
        /\ u.created \subseteq Address
        /\ DOMAIN u.nonces \subseteq Address
        /\ \A a \in DOMAIN u.nonces : u.nonces[a] \in Nat
        /\ DOMAIN u.balances \subseteq Address
        /\ \A a \in DOMAIN u.balances : u.balances[a] \in Nat
        /\ DOMAIN u.slots \subseteq Address \X Slot
        /\ \A x \in DOMAIN u.slots : u.slots[x] \in Word
        /\ DOMAIN u.codes \subseteq Address
        /\ \A a \in DOMAIN u.codes : u.codes[a] \in Code

-----------------------------------------------------------------------------
(* The getters.                                                            *)

\* Trie.Get
Get(c, k) == IF c[k] = Unset THEN Zero ELSE c[k]

\* The fields of a basic-data value, and the value made of fields.
Unpacked(v) == IF v = Zero THEN NoData ELSE v
Packed(d) == IF d = NoData THEN Zero ELSE d

Basic(c, a) == Unpacked(Get(c, getBasicDataKey(a)))

Exists(c, a) == Basic(c, a).nonce # 0 \/ Basic(c, a).balance # 0

GetBalance(c, a) == Basic(c, a).balance
GetNonce(c, a) == Basic(c, a).nonce
GetCodeSize(c, a) == Basic(c, a).codeSize
GetCodeHash(c, a) == Get(c, getCodeHashKey(a))
GetStorage(c, a, k) == Get(c, getStorageKey(a, k))

\* The bytes of a chunk, and the chunk made of bytes.
ZeroChunk == [j \in 1..ChunkLen |-> 0]
BytesOf(v) == IF v = Zero THEN ZeroChunk ELSE v
Chunk(bytes) == IF bytes = ZeroChunk THEN Zero ELSE bytes

\* How many chunks GetCode reads for a code of the given size.
ChunksRead(size) == size \div ChunkLen + 1

\* GetCode: merge lines the chunks up, pads with zeros where there are too
\* few of them and cuts the result to size.
GetCode(c, a) ==
    LET size == GetCodeSize(c, a)
        ByteAt(n, i) == IF n < ChunksRead(size)
                        THEN BytesOf(Get(c, getCodeChunkKey(a, n)))[i]
                        ELSE 0
    IN  [j \in 1..size |->
            ByteAt((j - 1) \div ChunkLen, ((j - 1) % ChunkLen) + 1)]

\* HasEmptyStorage, for a trie c and the slots w that are tracked.
HasEmptyStorage(c, w, a) ==
    \A x \in w : x[1] = a => GetStorage(c, a, x[2]) = Zero

-----------------------------------------------------------------------------
(* Apply, one group of fields after the other.  The deleted accounts of an *)
(* update are not looked at: they keep what they have.                     *)

\* The cells c after the values w were set.
Put(c, w) == [k \in DOMAIN c |-> IF k \in DOMAIN w THEN w[k] ELSE c[k]]

\* Variant of Created that resets every account it is given.
CreatedAgain(c, u) ==
    Put(c, [k \in {getBasicDataKey(a) : a \in u.created}
                \cup {getCodeHashKey(a) : a \in u.created} |->
        IF k = getCodeHashKey(k.address) THEN EmptyCodeHash ELSE Get(c, k)])

\* Accounts without code, nonce and balance get the hash of the empty code;
\* setting their basic data to what it was marks it as used.
Created(c, u) ==
    LET new == {a \in u.created : Basic(c, a) = NoData} IN
    Put(c, [k \in {getBasicDataKey(a) : a \in new}
                \cup {getCodeHashKey(a) : a \in new} |->
        IF k = getCodeHashKey(k.address) THEN EmptyCodeHash ELSE Get(c, k)])

Nonced(c, u) ==
    Put(c, [k \in {getBasicDataKey(a) : a \in DOMAIN u.nonces} |->
        Packed([Basic(c, k.address) EXCEPT !.nonce = u.nonces[k.address]])])

\* Variant of Balanced that starts from an empty basic-data value.
BalancedAfresh(c, u) ==
    Put(c, [k \in {getBasicDataKey(a) : a \in DOMAIN u.balances} |->
        Packed([NoData EXCEPT !.balance = u.balances[k.address]])])

\* The low 16 of the 32 bytes of a balance are kept.
Balanced(c, u) ==
    Put(c, [k \in {getBasicDataKey(a) : a \in DOMAIN u.balances} |->
        Packed([Basic(c, k.address) EXCEPT
                    !.balance = u.balances[k.address] % BalanceMod])])

Slotted(c, u) ==
    Put(c, [k \in {getStorageKey(x[1], x[2]) : x \in DOMAIN u.slots} |->
        u.slots[CHOOSE x \in DOMAIN u.slots : getStorageKey(x[1], x[2]) = k]])

\* splitCode: the numbers of the chunks of a code, and the n-th one.
ChunksOf(code) == {n \in ChunkNumber : n * ChunkLen < Len(code)}
CodeChunk(code, n) ==
    Chunk([j \in 1..ChunkLen |-> IF n * ChunkLen + j <= Len(code)
                                 THEN code[n * ChunkLen + j] ELSE 0])

\* Size and hash of the code, then its chunks.  Chunks of a longer code
\* that the account had before stay where they are.
Coded(c, u) ==
    LET A == DOMAIN u.codes IN
    Put(c, [k \in {getBasicDataKey(a) : a \in A}
                \cup {getCodeHashKey(a) : a \in A}
                \cup UNION {{getCodeChunkKey(a, n) : n \in ChunksOf(u.codes[a])} : a \in A} |->
        LET code == u.codes[k.address] IN
        IF k = getBasicDataKey(k.address)
        THEN Packed([Basic(c, k.address) EXCEPT !.codeSize = Len(code)])
        ELSE IF k = getCodeHashKey(k.address) THEN Keccak256(code)
        ELSE CodeChunk(code, CHOOSE n \in ChunksOf(code) :
                                getCodeChunkKey(k.address, n) = k)])

Applied(c, u) == Coded(Slotted(Balanced(Nonced(Created(c, u), u), u), u), u)

\* Variant of Tracked that makes a new map for every update.
TrackedAfresh(w, u) == DOMAIN u.slots

\* The slots that are tracked after update u.
Tracked(w, u) == w \cup DOMAIN u.slots
=============================================================================
