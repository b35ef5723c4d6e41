----------------------------- MODULE CodeChunks -----------------------------
(***************************************************************************)
(* The chunks of a contract's code: splitCode and merge in memory/code.go. *)
(*                                                                         *)
(* The state machine writes a code byte by byte and scans it as it goes,   *)
(* the way an interpreter does; splitCode is given what is there by then.  *)
(* Positions start at 0, as in the code: the byte at position i is         *)
(* code[i + 1].                                                            *)
(***************************************************************************)
EXTENDS Integers, Sequences, FiniteSets

CONSTANTS
    Byte,        \* the bytes in use, 0 among them
    PUSH1,       \* the instruction that pushes one byte
    PUSH32,      \* the one that pushes most
    ChunkSize,   \* bytes of code in a chunk, 31
    MaxLen       \* bound: the length of the code

\* The longest push has one byte of data more than a chunk has room for.
ASSUME ChunkAssumption ==
    /\ Byte \subseteq Nat /\ 0 \in Byte
    /\ PUSH1 \in Nat \ {0}
    /\ ChunkSize \in Nat \ {0}
    /\ PUSH32 = PUSH1 + ChunkSize
    /\ MaxLen \in Nat

VARIABLES
    code,    \* the code so far
    open     \* scanner: at each position, the bytes of push data still to come

codeVars == <<code, open>>

-----------------------------------------------------------------------------

\* The bytes of data that follow an instruction.
Pushed(b) == IF PUSH1 <= b /\ b <= PUSH32 THEN b - PUSH1 + 1 ELSE 0

\* Variant of Walk in which a push whose data is not all there has none.
WalkComplete(bytes, from, n) ==
    LET found[i \in 0 .. n + ChunkSize + 1] ==
            IF i >= n THEN {}
            ELSE {i} \cup
                 found[i + 1 +
                       (IF i < Len(bytes) /\ i + Pushed(bytes[i + 1]) < Len(bytes)
                        THEN Pushed(bytes[i + 1]) ELSE 0)]
    IN  found[from]

\* The positions of instructions that a walk finds which starts at from and
\* stops at n; beyond the bytes there is an instruction at each.
Walk(bytes, from, n) ==
    LET found[i \in 0 .. n + ChunkSize + 1] ==
            IF i >= n THEN {}
            ELSE {i} \cup
                 found[i + 1 + (IF i < Len(bytes) THEN Pushed(bytes[i + 1]) ELSE 0)]
    IN  found[from]

\* Variant of Scanned that ends with the code.
ScannedNoMore(c) == Len(c)

\* The length of isCode: the data of a last push may be missing, and is
\* counted as if it was there as far as the last chunk goes.
Scanned(c) == Len(c) + (ChunkSize - 1)

isCode(c) == Walk(c, 0, Scanned(c))

\* Variant of Prefix that counts beyond the chunk.
PrefixBeyond(c, i) ==
    Cardinality({j \in ChunkSize * i .. Scanned(c) - 1 :
                    (ChunkSize * i .. j) \cap isCode(c) = {}})

\* The first byte of chunk i: how many of its bytes, from the first on, are
\* not code.
Prefix(c, i) ==
    Cardinality({j \in ChunkSize * i .. ChunkSize * (i + 1) - 1 :
                    j < Scanned(c) /\ (ChunkSize * i .. j) \cap isCode(c) = {}})

\* Variant of NumChunks that leaves out a chunk that is not full.
NumChunksFull(c) == Len(c) \div ChunkSize

NumChunks(c) == (Len(c) + ChunkSize - 1) \div ChunkSize

\* Chunk i holds the bytes from ChunkSize * i on, and zeros after the last.
ChunkBytes(c, i) ==
    [j \in 1 .. ChunkSize |->
        IF ChunkSize * i + j <= Len(c) THEN c[ChunkSize * i + j] ELSE 0]

splitCode(c) ==
    [n \in 1 .. NumChunks(c) |->
        [data |-> Prefix(c, n - 1), bytes |-> ChunkBytes(c, n - 1)]]

\* The first n bytes of the chunks; zeros where there are too few chunks.
merge(chunks, n) ==
    [p \in 1 .. n |->
        IF (p - 1) \div ChunkSize < Len(chunks)
        THEN chunks[((p - 1) \div ChunkSize) + 1].bytes[((p - 1) % ChunkSize) + 1]
        ELSE 0]

-----------------------------------------------------------------------------

CodeInit ==
    /\ code = <<>>
    /\ open = <<0>>

Write(b) ==
    /\ Len(code) < MaxLen
    /\ code' = Append(code, b)
    /\ LET left == open[Len(open)] IN
       open' = Append(open, IF left > 0 THEN left - 1 ELSE Pushed(b))

CodeNext == \E b \in Byte : Write(b)

CodeSpec == CodeInit /\ [][CodeNext]_codeVars

-----------------------------------------------------------------------------
(* Properties.                                                             *)

\* Types; chunks are as long as they should be, and a prefix fits them.
CodeTypeOK ==
    /\ code \in Seq(Byte)
    /\ Len(open) = Len(code) + 1
    /\ \A n \in DOMAIN splitCode(code) :
        /\ splitCode(code)[n].data \in 0 .. ChunkSize
        /\ splitCode(code)[n].bytes \in [1 .. ChunkSize -> Byte]

\* The prefix of every chunk is the number of its first bytes that are data
\* of a push in an earlier chunk, or the one before that; also if the code
\* ends within the data, as code after a contract's last instruction may.
PrefixIsPushData ==
    \A n \in DOMAIN splitCode(code) :
        LET left == open[ChunkSize * (n - 1) + 1]
        IN  splitCode(code)[n].data = IF left < ChunkSize THEN left ELSE ChunkSize

\* An interpreter that is given one chunk, and nothing else, finds the
\* instructions in it that the whole code has there: nothing that is data is
\* executed and no instruction is taken for data.
ChunksStandAlone ==
    \A n \in DOMAIN splitCode(code) :
        LET chunk == splitCode(code)[n]
            first == ChunkSize * (n - 1)
            valid == {j \in 0 .. ChunkSize - 1 : first + j < Len(code)}
        IN  Walk(chunk.bytes, chunk.data, ChunkSize) \cap valid
                = {j \in valid : open[first + j + 1] = 0}

\* merge undoes splitCode, also if the code ends with zeros, and if chunks
\* follow that are not part of the code, here its own once more.
MergeRestores ==
    /\ merge(splitCode(code), Len(code)) = code
    /\ merge(splitCode(code) \o splitCode(code), Len(code)) = code
=============================================================================
