----------------------------- MODULE LeafLayout -----------------------------
(***************************************************************************)
(* How the content of a leaf is laid out in the vectors it commits to:     *)
(* leaf.commit in memory/trie/nodes.go, on commit/value.go and             *)
(* commit/commit.go.                                                       *)
(*                                                                         *)
(* The state is the content of one leaf, which writes of its own stem      *)
(* change: what module Trie does with leaves is left out.                  *)
(*                                                                         *)
(* Values are numbers below FieldOrder.  A stored value of 32 bytes is a   *)
(* pair of limbs of 16 bytes.  Pedersen commitments are binding and        *)
(* additive, so a commitment is the vector itself, added position by       *)
(* position.                                                               *)
(***************************************************************************)
EXTENDS Integers

CONSTANTS
    Half,         \* 128: half of the suffixes, and of a vector's positions
    Limb,         \* 2^128
    FieldOrder,   \* the order of the scalar field, more than 2^252
    StemNumber    \* the stems in use, as little-endian numbers below 2^248

ASSUME LayoutAssumption ==
    /\ Half \in Nat \ {0}
    /\ Limb \in Nat \ {0}
    /\ FieldOrder \in Nat /\ 2 * Limb <= FieldOrder
    /\ StemNumber \subseteq 0 .. FieldOrder - 1

VARIABLES
    stem,      \* leaf.stem
    values,    \* leaf.values: suffix -> [lower, upper]
    used       \* leaf.used

leafVars == <<stem, values, used>>

Width == 2 * Half
ValueIndex == 0 .. Width - 1
Position == 0 .. Width - 1
Pair == [lower : 0 .. Limb - 1, upper : 0 .. Limb - 1]

-----------------------------------------------------------------------------

\* NewValueFromLittleEndianBytes, with the bytes as a number.
FromLittleEndian(n) == n % FieldOrder

\* Variant of SetBit128 that takes the last bit of the limb.
SetBit127(v) == IF (v \div (Limb \div 2)) % 2 = 1 THEN v ELSE v + Limb \div 2

SetBit128(v) == IF (v \div Limb) % 2 = 1 THEN v ELSE v + Limb

Lower(vals, u, i) ==
    LET lower == FromLittleEndian(vals[i].lower)
    IN  IF i \in u THEN SetBit128(lower) ELSE lower

Upper(vals, i) == FromLittleEndian(vals[i].upper)

\* Where the limbs of suffix i go: which of the vectors, and where in it.
VectorOf(i) == i \div Half

LowerAt(i) == (2 * i) % Width
UpperAt(i) == (2 * i + 1) % Width

\* Vector c of a leaf; positions nothing is put at hold 0.
Vector(vals, u, c) ==
    [pos \in Position |->
        IF \E i \in ValueIndex : VectorOf(i) = c /\ LowerAt(i) = pos
        THEN Lower(vals, u, CHOOSE i \in ValueIndex : VectorOf(i) = c /\ LowerAt(i) = pos)
        ELSE IF \E i \in ValueIndex : VectorOf(i) = c /\ UpperAt(i) = pos
        THEN Upper(vals, CHOOSE i \in ValueIndex : VectorOf(i) = c /\ UpperAt(i) = pos)
        ELSE 0]

\* The commitment of a leaf: Commit([1, stem, C1, C2]).
commit(s, vals, u) ==
    [marker |-> 1, stem |-> FromLittleEndian(s),
     c |-> [c \in {0, 1} |-> Vector(vals, u, c)]]

\* Variant of CommitmentUpdate that does not take the old value away.
CommitmentAdd(c, pos, old, new) ==
    [c EXCEPT ![pos] = (@ + new) % FieldOrder]

\* Commitment.Update: the vector that is zero but for the difference at one
\* position is added.
CommitmentUpdate(c, pos, old, new) ==
    [c EXCEPT ![pos] = (@ + ((new - old) % FieldOrder)) % FieldOrder]

-----------------------------------------------------------------------------

\* newLeaf
LeafInit ==
    /\ stem \in StemNumber
    /\ values = [i \in ValueIndex |-> [lower |-> 0, upper |-> 0]]
    /\ used = {}

\* leaf.set of the leaf's own stem.
SetValue(i, value) ==
    /\ values' = [values EXCEPT ![i] = value]
    /\ used' = used \cup {i}
    /\ UNCHANGED stem

LeafNext == \E i \in ValueIndex, value \in Pair : SetValue(i, value)

LeafSpec == LeafInit /\ [][LeafNext]_leafVars

-----------------------------------------------------------------------------
(* Properties.                                                             *)

\* What the vectors say of suffix i.
Decoded(com, i) ==
    LET lower == com.c[VectorOf(i)][LowerAt(i)]
        upper == com.c[VectorOf(i)][UpperAt(i)]
    IN  [isUsed |-> lower >= Limb,
         value  |-> [lower |-> lower % Limb, upper |-> upper]]

\* The vectors tell the leaf: its stem, each value and, apart from that,
\* which suffixes have been set.  No two suffixes share a position, no limb
\* is reduced, and the marker never runs into the value.  So two leaves with
\* the same commitment have the same content, which is what module Trie
\* represents a leaf's commitment by.
VectorsTellLeaf ==
    /\ commit(stem, values, used).stem = stem
    /\ \A i \in ValueIndex :
        Decoded(commit(stem, values, used), i)
            = [isUsed |-> i \in used, value |-> values[i]]

\* Vector c of the leaf after value i was set, made from the vector before
\* with Commitment.Update.
Updated(i, value, c) ==
    LET new == [values EXCEPT ![i] = value] IN
    IF c = VectorOf(i)
    THEN CommitmentUpdate(
            CommitmentUpdate(Vector(values, used, c), LowerAt(i),
                Lower(values, used, i), Lower(new, used \cup {i}, i)),
            UpperAt(i), Upper(values, i), Upper(new, i))
    ELSE Vector(values, used, c)

\* Commitment.Update, which leaf.commit does without, agrees with Commit: what
\* it makes of the vectors of a leaf, for the two positions that a write
\* changes, is what committing to the leaf afresh gives, also where a value
\* was set before or the difference is negative.
UpdateIsCommit ==
    \A i \in ValueIndex, value \in Pair, c \in {0, 1} :
        Updated(i, value, c)
            = Vector([values EXCEPT ![i] = value], used \cup {i}, c)
=============================================================================
