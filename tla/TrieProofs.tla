----------------------------- MODULE TrieProofs -----------------------------
(***************************************************************************)
(* What TLAPS proves about Trie for every set of stems, suffixes and       *)
(* values: the invariants below, that the trie is a KVStore, that its root *)
(* commitment depends on nothing but the content, and that a call takes a  *)
(* bounded number of steps and is never stuck.                             *)
(***************************************************************************)
EXTENDS Trie, FiniteSetTheorems, WellFoundedInduction, TLAPS

\* A suffix whose bit is not set has never been written.
ZeroInv ==
    \A p \in DOMAIN leaf : \A x \in Suffix \ leaf[p].used :
        leaf[p].values[x] = Zero

\* The inductive invariant.
IInv ==
    /\ TypeOK
    /\ ShapeInv
    /\ DepthInBounds
    /\ DescentInv
    /\ CacheFresh
    /\ ZeroInv

-----------------------------------------------------------------------------
(* Paths.                                                                  *)

\* A prefix of n bytes has length n.
LEMMA PrefixLen ==
    ASSUME NEW s, NEW n \in Nat
    PROVE  Len(Prefix(s, n)) = n
BY DEF Prefix

\* A path is a sequence of Len(p) bytes.
LEMMA PathLen ==
    ASSUME NEW p \in Path
    PROVE  /\ Len(p) \in 0..StemLen
           /\ p \in [1..Len(p) -> Byte]
           /\ p \in Seq(Byte)
<1>1. PICK n \in 0..StemLen : p \in [1..n -> Byte]
  BY DEF Path
<1>2. n \in Nat
  BY <1>1, TrieAssumption
<1>3. Len(p) = n /\ p \in Seq(Byte)
  BY <1>1, <1>2
<1> QED
  BY <1>1, <1>3

LEMMA PrefixPath ==
    ASSUME NEW s \in Stem, NEW n \in 0..StemLen
    PROVE  /\ Prefix(s, n) \in [1..n -> Byte]
           /\ Prefix(s, n) \in Path
           /\ Prefix(s, n) \in Seq(Byte)
<1>1. s \in [1..StemLen -> Byte]
  BY TrieAssumption
<1>2. Prefix(s, n) \in [1..n -> Byte]
  BY <1>1, TrieAssumption DEF Prefix
<1> QED
  BY <1>2, TrieAssumption DEF Path

LEMMA PrefixOfPrefix ==
    ASSUME NEW s, NEW n \in Nat, NEW m \in 0..n
    PROVE  Prefix(Prefix(s, n), m) = Prefix(s, m)
BY DEF Prefix

LEMMA AppendPrefix ==
    ASSUME NEW s \in Stem, NEW n \in 0..(StemLen - 1)
    PROVE  /\ s[n + 1] \in Byte
           /\ Append(Prefix(s, n), s[n + 1]) = Prefix(s, n + 1)
<1>1. s \in [1..StemLen -> Byte] /\ n \in Nat /\ n + 1 \in 1..StemLen
  BY TrieAssumption
<1>2. s[n + 1] \in Byte
  BY <1>1
<1>3. Prefix(s, n) \in Seq(Byte) /\ Len(Prefix(s, n)) = n
  BY <1>1, PrefixPath, PrefixLen, TrieAssumption
<1>4. Append(Prefix(s, n), s[n + 1])
        = [i \in 1..(n + 1) |-> IF i = n + 1 THEN s[n + 1] ELSE Prefix(s, n)[i]]
  BY <1>1, <1>2, <1>3
<1>5. \A i \in 1..n : Prefix(s, n)[i] = s[i]
  BY DEF Prefix
<1> QED
  BY <1>1, <1>2, <1>4, <1>5 DEF Prefix

LEMMA ChildPrefix ==
    ASSUME NEW p \in Path, NEW b \in Byte, NEW s \in Stem,
           NEW n \in 0..StemLen, Append(p, b) = Prefix(s, n)
    PROVE  n >= 1 /\ p = Prefix(s, n - 1) /\ b = s[n] /\ Len(p) = n - 1
<1>1. p \in Seq(Byte) /\ Len(p) \in Nat /\ n \in Nat
  BY PathLen, TrieAssumption
<1>2. Len(Append(p, b)) = Len(p) + 1
  BY <1>1
<1>3. Len(p) + 1 = n
  BY <1>1, <1>2, PrefixLen
<1>4. ASSUME NEW i \in 1..Len(p) PROVE p[i] = s[i]
  <2>1. Append(p, b)[i] = p[i]
    BY <1>1
  <2>2. Prefix(s, n)[i] = s[i]
    BY <1>1, <1>3 DEF Prefix
  <2> QED
    BY <2>1, <2>2
<1>5. b = s[n]
  <2>1. Append(p, b)[n] = b
    BY <1>1, <1>3
  <2>2. Prefix(s, n)[n] = s[n]
    BY <1>1, <1>3 DEF Prefix
  <2> QED
    BY <2>1, <2>2
<1>6. p = [i \in 1..Len(p) |-> p[i]]
  BY PathLen
<1>7. p = Prefix(s, n - 1)
  BY <1>1, <1>3, <1>4, <1>6 DEF Prefix
<1> QED
  BY <1>1, <1>3, <1>5, <1>7
-----------------------------------------------------------------------------
(* The inductive invariant holds initially and every action preserves it.  *)

\* What is known of the call in progress while it is a Set.
LEMMA SetFacts ==
    ASSUME TypeOK, call.op = "set"
    PROVE  /\ call.key \in Key
           /\ call.key.stem \in Stem
           /\ call.key.suffix \in Suffix
           /\ call.value \in Value
           /\ call.depth \in 0..StemLen
           /\ call.depth \in Nat
           /\ DOMAIN call = {"op", "key", "value", "depth"}
           /\ call = [op |-> "set", key |-> call.key, value |-> call.value,
                                    depth |-> call.depth]
           /\ At \in Path
           /\ Len(At) = call.depth
<1>1. call \in [op : {"set"}, key : Key, value : Value, depth : 0..StemLen]
  BY DEF TypeOK, Call, Idle
<1>2. call.key \in Key /\ call.key.stem \in Stem /\ call.depth \in 0..StemLen
  BY <1>1 DEF Key
<1>3. call.depth \in Nat
  BY <1>2, TrieAssumption
<1>4. At \in Path /\ Len(At) = call.depth
  BY <1>2, <1>3, PrefixPath, PrefixLen DEF At
<1> QED
  BY <1>1, <1>2, <1>3, <1>4 DEF Key

LEMMA InitInv == Init => IInv
<1> SUFFICES ASSUME Init PROVE IInv
  OBVIOUS
<1>1. inner = {} /\ DOMAIN leaf = {} /\ DOMAIN com = {} /\ call = Idle
  BY DEF Init
<1> QED
  BY <1>1 DEF IInv, TypeOK, ShapeInv, DepthInBounds, DescentInv, CacheFresh,
              ZeroInv, Node, Call, Idle

\* The vector of an inner node is the same when its children and their
\* commitments are.
LEMMA SameTerm ==
    ASSUME NEW p, ChildBytes(p)' = ChildBytes(p),
           \A b \in ChildBytes(p) : com'[Append(p, b)] = com[Append(p, b)]
    PROVE  InnerTerm(p)' = InnerTerm(p)
BY DEF InnerTerm

LEMMA SetInv ==
    ASSUME IInv, NEW k \in Key, NEW v \in Value, Set(k, v)
    PROVE  IInv'
<1> USE DEF Set
<1>1. k.stem \in Stem /\ Root \in Path /\ Len(Root) = 0
  BY TrieAssumption DEF Key, Path, Root
<1>2. At' = Root /\ call'.op = "set" /\ call'.depth = 0 /\ call'.key = k
  BY DEF At, Prefix, Root
<1>3. Node' = Node \cup {Root} /\ Root \notin DOMAIN leaf
  BY DEF Node, IInv, ShapeInv
<1>4. TypeOK'
  <2>1. call' \in Call
    BY TrieAssumption DEF Call
  <2> QED
    BY <1>1, <1>3, <2>1 DEF IInv, TypeOK
<1>5. ShapeInv'
  BY <1>1, <1>3 DEF IInv, ShapeInv
<1>6. DepthInBounds'
  <2>1. \A p \in inner' : Len(p) < StemLen
    BY <1>1, TrieAssumption DEF IInv, DepthInBounds
  <2>2. At' \notin DOMAIN leaf'
    BY <1>2, <1>3
  <2> QED
    BY <2>1, <2>2 DEF DepthInBounds
<1>7. DescentInv'
  BY <1>2, <1>3 DEF DescentInv
<1>8. CacheFresh'
  <2>1. ASSUME NEW p \in Path PROVE ChildBytes(p)' = ChildBytes(p)
    <3>1. \A b \in Byte : Append(p, b) # Root
      BY PathLen, <1>1 DEF Root
    <3> QED
      BY <1>3, <3>1 DEF ChildBytes
  <2>2. \A p \in DOMAIN com : p \in inner' => p \in inner
    BY <1>3 DEF IInv, TypeOK, Node
  <2>3. \A p \in inner : InnerTerm(p)' = InnerTerm(p)
    BY <2>1, SameTerm DEF IInv, TypeOK
  <2>4. \A p \in DOMAIN leaf : LeafTerm(leaf[p])' = LeafTerm(leaf[p])
    BY DEF LeafTerm
  <2>5. \A p \in inner : ChildBytes(p)' = ChildBytes(p)
    BY <2>1 DEF IInv, TypeOK
  <2> QED
    BY <2>2, <2>3, <2>4, <2>5 DEF IInv, CacheFresh
<1>9. ZeroInv'
  BY DEF IInv, ZeroInv
<1> QED
  BY <1>4, <1>5, <1>6, <1>7, <1>8, <1>9 DEF IInv

\* The next node of a descent: its path, and whose child it is.
LEMMA NextFacts ==
    ASSUME TypeOK, call.op = "set", call.depth < StemLen,
           NEW q, q = Prefix(call.key.stem, call.depth + 1)
    PROVE  /\ q \in Path /\ Len(q) = call.depth + 1
           /\ \A n \in 0..call.depth : Prefix(q, n) = Prefix(call.key.stem, n)
           /\ Prefix(q, call.depth) = At
           /\ \A p \in Path, b \in Byte : Append(p, b) = q => p = At
<1>1. call.key.stem \in Stem /\ call.depth \in Nat /\ call.depth + 1 \in 0..StemLen
  BY SetFacts, TrieAssumption
<1>2. q \in Path /\ Len(q) = call.depth + 1
  BY <1>1, PrefixPath, PrefixLen
<1>3. \A n \in 0..call.depth : Prefix(q, n) = Prefix(call.key.stem, n)
  BY <1>1, PrefixOfPrefix
<1>4. Prefix(q, call.depth) = At
  BY <1>1, <1>3 DEF At
<1>5. ASSUME NEW p \in Path, NEW b \in Byte, Append(p, b) = q PROVE p = At
  BY <1>1, <1>5, ChildPrefix DEF At
<1> QED
  BY <1>2, <1>3, <1>4, <1>5

\* No clean inner node has the node on which set runs as a child.
LEMMA CleanAbove ==
    ASSUME IInv, call.op = "set",
           NEW p \in Path, p \in DOMAIN com, NEW b \in Byte
    PROVE  Append(p, b) # At
<1>1. SUFFICES ASSUME Append(p, b) = At PROVE FALSE
  OBVIOUS
<1>2. call.key.stem \in Stem /\ call.depth \in 0..StemLen /\ call.depth \in Nat
  BY SetFacts DEF IInv
<1>3. call.depth >= 1 /\ p = Prefix(call.key.stem, call.depth - 1)
  BY <1>1, <1>2, ChildPrefix DEF At
<1> QED
  BY <1>2, <1>3 DEF IInv, DescentInv

LEMMA InnerSetInv == ASSUME IInv, InnerSet PROVE IInv'
<1> DEFINE next == Prefix(call.key.stem, call.depth + 1)
           d == call.depth
<1>1. /\ call.op = "set" /\ At \in inner /\ inner' = inner
      /\ call' = [call EXCEPT !.depth = @ + 1]
      /\ com' = Dirtied(At)
      /\ leaf' = [p \in DOMAIN leaf \cup ({next} \ Node) |->
                    IF p \in DOMAIN leaf THEN leaf[p]
                                         ELSE newLeaf(call.key.stem)]
  BY DEF InnerSet
<1>2. /\ call.key \in Key /\ call.key.stem \in Stem /\ d \in Nat
      /\ At \in Path /\ Len(At) = d /\ d < StemLen
  BY <1>1, SetFacts DEF IInv, DepthInBounds
<1>3. /\ next \in Path /\ Len(next) = d + 1
      /\ \A n \in 0..d : Prefix(next, n) = Prefix(call.key.stem, n)
      /\ \A p \in Path, b \in Byte : Append(p, b) = next => p = At
  BY <1>1, <1>2, NextFacts DEF IInv
<1>4. /\ call'.op = "set" /\ call'.key = call.key /\ call'.depth = d + 1
      /\ call' \in Call /\ At' = next
  <2>1. call' = [op |-> "set", key |-> call.key, value |-> call.value, depth |-> d + 1]
    BY <1>1, SetFacts DEF IInv
  <2>2. d + 1 \in 0..StemLen
    BY <1>2, TrieAssumption
  <2> QED
    BY <1>1, <2>1, <2>2, SetFacts DEF IInv, Call, At
<1>5. Node' = Node \cup {next} /\ DOMAIN leaf' = DOMAIN leaf \cup ({next} \ Node)
  BY <1>1 DEF Node
<1>6. DOMAIN com' = DOMAIN com \ {At} /\ \A p \in DOMAIN com' : com'[p] = com[p]
  BY <1>1 DEF Dirtied, Restrict
<1>7. \A p \in DOMAIN leaf : leaf'[p] = leaf[p]
  BY <1>1
<1>8. \A p \in DOMAIN leaf' \ DOMAIN leaf :
        p = next /\ next \notin Node /\ leaf'[p] = newLeaf(call.key.stem)
  BY <1>1
<1>10. TypeOK'
  <2>1. newLeaf(call.key.stem) \in LeafNode
    BY <1>2, TrieAssumption DEF newLeaf, LeafNode
  <2>2. \A p \in DOMAIN leaf' : leaf'[p] \in LeafNode
    BY <1>7, <1>8, <2>1 DEF IInv, TypeOK
  <2> QED
    BY <1>1, <1>3, <1>4, <1>5, <1>6, <2>2 DEF IInv, TypeOK
<1>11. ShapeInv'
  <2>1. inner' \cap DOMAIN leaf' = {} /\ Root \notin DOMAIN leaf'
    BY <1>1, <1>2, <1>3, <1>5 DEF IInv, ShapeInv, Node, Root
  <2>2. ASSUME NEW p \in DOMAIN leaf' PROVE p = Prefix(leaf'[p].stem, Len(p))
    <3>1. CASE p \in DOMAIN leaf
      BY <1>7, <3>1 DEF IInv, ShapeInv
    <3>2. CASE p \notin DOMAIN leaf
      BY <1>3, <1>8, <3>2 DEF newLeaf
    <3> QED
      BY <3>1, <3>2
  <2>3. \A n \in 0..(Len(next) - 1) : Prefix(next, n) \in inner
    <3>1. \A n \in 0..d : Prefix(call.key.stem, n) \in inner
      BY <1>1, <1>2 DEF IInv, DescentInv, At
    <3> QED
      BY <1>2, <1>3, <3>1
  <2>4. \A p \in Node' : \A n \in 0..(Len(p) - 1) : Prefix(p, n) \in inner'
    BY <1>1, <1>5, <2>3 DEF IInv, ShapeInv
  <2> QED
    BY <2>1, <2>2, <2>4 DEF ShapeInv
<1>12. DepthInBounds'
  <2>1. ASSUME next \in DOMAIN leaf', d + 1 >= StemLen
        PROVE  leaf'[next].stem = call.key.stem
    <3>1. d + 1 = StemLen
      BY <1>2, <2>1, TrieAssumption
    <3>2. next = Prefix(leaf'[next].stem, StemLen)
      BY <1>3, <1>11, <2>1, <3>1 DEF ShapeInv
    <3>3. leaf'[next].stem \in Stem
      BY <1>10, <2>1 DEF TypeOK, LeafNode
    <3>4. \A s \in Stem : Prefix(s, StemLen) = s
      BY TrieAssumption DEF Prefix
    <3> QED
      BY <1>2, <3>1, <3>2, <3>3, <3>4
  <2> QED
    BY <1>1, <1>2, <1>4, <2>1, TrieAssumption DEF IInv, DepthInBounds
<1>13. DescentInv'
  <2>1. ASSUME NEW n \in 0..d PROVE Prefix(call.key.stem, n) \in inner' \ DOMAIN com'
    <3>1. CASE n = d
      BY <1>1, <1>6, <3>1 DEF At
    <3>2. CASE n # d
      BY <1>1, <1>2, <1>6, <3>2 DEF IInv, DescentInv
    <3> QED
      BY <3>1, <3>2
  <2> QED
    BY <1>2, <1>4, <1>5, <2>1 DEF DescentInv
<1>14. CacheFresh'
  <2>1. \A p \in DOMAIN com' : p \in DOMAIN com /\ p \in Node /\ p # At
    BY <1>6 DEF IInv, TypeOK
  <2>2. ASSUME NEW p \in DOMAIN com' \cap DOMAIN leaf' PROVE com'[p] = LeafTerm(leaf'[p])
    <3>1. p \in DOMAIN leaf
      BY <1>5, <2>1
    <3> QED
      BY <1>6, <1>7, <2>1, <3>1 DEF IInv, CacheFresh
  <2>3. ASSUME NEW p \in DOMAIN com' \cap inner'
        PROVE  /\ \A b \in ChildBytes(p)' : Append(p, b) \in DOMAIN com'
               /\ com'[p] = InnerTerm(p)'
    <3>1. p \in inner /\ p \in Path /\ p \in DOMAIN com /\ p # At
      BY <1>1, <2>1 DEF IInv, TypeOK
    <3>2. ChildBytes(p)' = ChildBytes(p)
      BY <1>3, <1>5, <3>1 DEF ChildBytes
    <3>3. \A b \in ChildBytes(p) : Append(p, b) \in DOMAIN com
      BY <3>1 DEF IInv, CacheFresh
    <3>4. \A b \in ChildBytes(p) : Append(p, b) # At
      BY <1>1, <3>1, CleanAbove DEF ChildBytes
    <3>5. \A b \in ChildBytes(p) :
            Append(p, b) \in DOMAIN com' /\ com'[Append(p, b)] = com[Append(p, b)]
      BY <1>6, <3>3, <3>4
    <3> QED
      BY <1>6, <3>1, <3>2, <3>5, SameTerm DEF IInv, CacheFresh
  <2> QED
    BY <2>2, <2>3 DEF CacheFresh
<1>15. ZeroInv'
  BY <1>7, <1>8 DEF IInv, ZeroInv, newLeaf
<1> QED
  BY <1>10, <1>11, <1>12, <1>13, <1>14, <1>15 DEF IInv

LEMMA LeafSetInv == ASSUME IInv, LeafSet PROVE IInv'
<1>1. /\ call.op = "set" /\ At \in DOMAIN leaf
      /\ leaf' = [leaf EXCEPT ![At] = Written(@, call.key.suffix, call.value)]
      /\ com' = Dirtied(At) /\ call' = Idle /\ inner' = inner
  BY DEF LeafSet
<1>2. /\ call.key.suffix \in Suffix /\ call.value \in Value /\ At \in Path
  BY <1>1, SetFacts DEF IInv
<1>3. DOMAIN leaf' = DOMAIN leaf /\ Node' = Node
  BY <1>1 DEF Node
<1>4. DOMAIN com' = DOMAIN com \ {At} /\ \A p \in DOMAIN com' : com'[p] = com[p]
  BY <1>1 DEF Dirtied, Restrict
<1>5. \A p \in DOMAIN leaf \ {At} : leaf'[p] = leaf[p]
  BY <1>1
<1>6. /\ leaf[At] \in LeafNode
      /\ leaf'[At] = Written(leaf[At], call.key.suffix, call.value)
  BY <1>1 DEF IInv, TypeOK
<1>7. /\ leaf'[At].stem = leaf[At].stem
      /\ leaf'[At].used = leaf[At].used \cup {call.key.suffix}
      /\ leaf'[At].values = [leaf[At].values EXCEPT ![call.key.suffix] = call.value]
      /\ leaf'[At] \in LeafNode
  <2>1. /\ leaf[At] = [stem |-> leaf[At].stem, values |-> leaf[At].values,
                      used |-> leaf[At].used]
        /\ leaf[At].stem \in Stem /\ leaf[At].values \in [Suffix -> Value]
        /\ leaf[At].used \in SUBSET Suffix
    BY <1>6 DEF LeafNode
  <2>2. leaf'[At] = [stem   |-> leaf[At].stem,
                     values |-> [leaf[At].values EXCEPT ![call.key.suffix] = call.value],
                     used   |-> leaf[At].used \cup {call.key.suffix}]
    BY <1>6, <2>1 DEF Written
  <2>3. /\ [leaf[At].values EXCEPT ![call.key.suffix] = call.value] \in [Suffix -> Value]
        /\ leaf[At].used \cup {call.key.suffix} \in SUBSET Suffix
    BY <1>2, <2>1
  <2> QED
    BY <2>1, <2>2, <2>3 DEF LeafNode
<1>8. \A p \in DOMAIN leaf : leaf'[p].stem = leaf[p].stem
  BY <1>5, <1>7
<1>9. call' = Idle /\ call'.op # "set"
  BY <1>1 DEF Idle
<1>10. TypeOK'
  BY <1>1, <1>3, <1>4, <1>5, <1>7 DEF IInv, TypeOK, Call
<1>11. ShapeInv'
  BY <1>1, <1>3, <1>8 DEF IInv, ShapeInv
<1>12. DepthInBounds'
  BY <1>1, <1>9 DEF IInv, DepthInBounds
<1>13. DescentInv'
  BY <1>9 DEF DescentInv
<1>14. CacheFresh'
  <2>1. \A p \in DOMAIN com' \cap DOMAIN leaf' : com'[p] = LeafTerm(leaf'[p])
    BY <1>3, <1>4, <1>5 DEF IInv, CacheFresh
  <2>2. ASSUME NEW p \in DOMAIN com' \cap inner'
        PROVE  /\ \A b \in ChildBytes(p)' : Append(p, b) \in DOMAIN com'
               /\ com'[p] = InnerTerm(p)'
    <3>1. p \in inner /\ p \in Path /\ p \in DOMAIN com
      BY <1>1, <1>4 DEF IInv, TypeOK
    <3>2. ChildBytes(p)' = ChildBytes(p)
      BY <1>3 DEF ChildBytes
    <3>3. \A b \in ChildBytes(p) :
            Append(p, b) \in DOMAIN com' /\ com'[Append(p, b)] = com[Append(p, b)]
      BY <1>1, <1>4, <3>1, CleanAbove DEF IInv, CacheFresh, ChildBytes
    <3> QED
      BY <1>4, <3>1, <3>2, <3>3, SameTerm DEF IInv, CacheFresh
  <2> QED
    BY <2>1, <2>2 DEF CacheFresh
<1>15. ZeroInv'
  <2>1. ASSUME NEW x \in Suffix \ leaf'[At].used PROVE leaf'[At].values[x] = Zero
    BY <1>1, <1>6, <1>7, <2>1 DEF IInv, ZeroInv, LeafNode
  <2> QED
    BY <1>3, <1>5, <2>1 DEF IInv, ZeroInv
<1> QED
  BY <1>10, <1>11, <1>12, <1>13, <1>14, <1>15 DEF IInv

\* Where a split puts the leaf: below At, on a path nothing else is on.
LEMMA SplitFacts ==
    ASSUME IInv, LeafSplit
    PROVE  /\ SplitPath(At) \in Path \ Node
           /\ Len(SplitPath(At)) = call.depth + 1
           /\ SplitPath(At) = Prefix(leaf[At].stem, Len(SplitPath(At)))
           /\ call.depth < StemLen
           /\ \A n \in 0..call.depth :
                Prefix(SplitPath(At), n) = Prefix(At, n)
           /\ \A p \in Path, b \in Byte : Append(p, b) = SplitPath(At) => p = At
<1> DEFINE s == leaf[At].stem
           q == SplitPath(At)
           d == call.depth
<1>1. /\ call.op = "set" /\ At \in DOMAIN leaf /\ d < StemLen
      /\ At \notin inner
  BY DEF LeafSplit, IInv, DepthInBounds, ShapeInv
<1>2. s \in Stem /\ d \in Nat /\ d + 1 \in 0..StemLen /\ At \in Path /\ Len(At) = d
  <2>1. leaf[At] \in LeafNode
    BY <1>1 DEF IInv, TypeOK
  <2> QED
    BY <1>1, <2>1, SetFacts, TrieAssumption DEF IInv, LeafNode
<1>3. q = Prefix(s, d + 1) /\ q \in Path /\ Len(q) = d + 1
  BY <1>2, PrefixPath, PrefixLen DEF SplitPath
<1>4. At = Prefix(s, d)
  BY <1>1, <1>2 DEF IInv, ShapeInv
<1>5. \A n \in 0..d : Prefix(q, n) = Prefix(s, n) /\ Prefix(At, n) = Prefix(s, n)
  BY <1>2, <1>3, <1>4, PrefixOfPrefix
<1>6. q \notin Node
  <2>1. Prefix(q, d) = At
    BY <1>2, <1>4, <1>5
  <2> QED
    BY <1>1, <1>2, <1>3, <2>1 DEF IInv, ShapeInv
<1>7. \A p \in Path, b \in Byte : Append(p, b) = q => p = At
  BY <1>2, <1>3, <1>4, ChildPrefix
<1> QED
  BY <1>1, <1>3, <1>5, <1>6, <1>7

LEMMA LeafSplitInv == ASSUME IInv, LeafSplit PROVE IInv'
<1> DEFINE q == SplitPath(At)
           d == call.depth
<1>1. /\ call.op = "set" /\ At \in DOMAIN leaf /\ leaf[At].stem # call.key.stem
      /\ inner' = inner \cup {At} /\ call' = call
      /\ leaf' = Moved(leaf, At, q) /\ com' = Moved(com, At, q)
  BY DEF LeafSplit
<1>2. /\ call.key.stem \in Stem /\ d \in Nat /\ d < StemLen /\ At \in Path /\ Len(At) = d
      /\ At' = At /\ At \notin inner /\ At # Root
  BY <1>1, SetFacts, SplitFacts DEF IInv, At, ShapeInv
<1>3. /\ q \in Path /\ q \notin Node /\ Len(q) = d + 1
      /\ q = Prefix(leaf[At].stem, Len(q))
      /\ \A n \in 0..d : Prefix(q, n) = Prefix(At, n)
      /\ \A p \in Path, b \in Byte : Append(p, b) = q => p = At
  BY SplitFacts
<1>4. /\ DOMAIN leaf' = (DOMAIN leaf \ {At}) \cup {q}
      /\ leaf'[q] = leaf[At]
      /\ \A p \in DOMAIN leaf \ {At} : leaf'[p] = leaf[p]
  BY <1>1, <1>3 DEF Moved, Node
<1>5. Node' = Node \cup {q}
  BY <1>1, <1>4 DEF Node
<1>6. /\ At \notin DOMAIN com'
      /\ DOMAIN com' \subseteq (DOMAIN com \ {At}) \cup {q}
      /\ DOMAIN com \ {At} \subseteq DOMAIN com'
      /\ \A p \in DOMAIN com \ {At} : com'[p] = com[p]
      /\ q \in DOMAIN com' => At \in DOMAIN com /\ com'[q] = com[At]
  <2>1. q # At /\ q \notin DOMAIN com
    BY <1>1, <1>3 DEF IInv, TypeOK, Node
  <2> QED
    BY <1>1, <2>1 DEF Moved
<1>7. Prefix(At, d) = At
  BY <1>2, PrefixOfPrefix, TrieAssumption DEF At
<1>8. \A n \in 0..(d - 1) : Prefix(At, n) \in inner
  BY <1>1, <1>2 DEF IInv, ShapeInv, Node
<1>10. TypeOK'
  BY <1>1, <1>2, <1>3, <1>4, <1>5, <1>6 DEF IInv, TypeOK
<1>11. ShapeInv'
  <2>1. inner' \cap DOMAIN leaf' = {} /\ Root \notin DOMAIN leaf'
    BY <1>1, <1>2, <1>3, <1>4 DEF IInv, ShapeInv, Node, Root
  <2>2. \A p \in DOMAIN leaf' : p = Prefix(leaf'[p].stem, Len(p))
    BY <1>3, <1>4 DEF IInv, ShapeInv
  <2>3. \A n \in 0..d : Prefix(q, n) \in inner'
    BY <1>1, <1>2, <1>3, <1>7, <1>8
  <2>4. \A n \in 0..(Len(q) - 1) : Prefix(q, n) \in inner'
    BY <1>2, <1>3, <2>3
  <2>5. \A p \in Node : \A n \in 0..(Len(p) - 1) : Prefix(p, n) \in inner'
    BY <1>1 DEF IInv, ShapeInv
  <2> QED
    BY <1>5, <2>1, <2>2, <2>4, <2>5 DEF ShapeInv
<1>12. DepthInBounds'
  BY <1>1, <1>2, <1>4, <1>3 DEF IInv, DepthInBounds, Node
<1>13. DescentInv'
  <2>1. \A n \in 0..(d - 1) : Prefix(call.key.stem, n) # q
    BY <1>1, <1>3 DEF IInv, DescentInv, Node
  <2> QED
    BY <1>1, <1>2, <1>5, <1>6, <2>1 DEF IInv, DescentInv
<1>14. CacheFresh'
  <2>1. ASSUME NEW p \in DOMAIN com' \cap DOMAIN leaf' PROVE com'[p] = LeafTerm(leaf'[p])
    <3>1. CASE p = q
      BY <1>1, <1>4, <1>6, <3>1 DEF IInv, CacheFresh
    <3>2. CASE p # q
      BY <1>4, <1>6, <3>2 DEF IInv, CacheFresh
    <3> QED
      BY <3>1, <3>2
  <2>2. ASSUME NEW p \in DOMAIN com' \cap inner'
        PROVE  /\ \A b \in ChildBytes(p)' : Append(p, b) \in DOMAIN com'
               /\ com'[p] = InnerTerm(p)'
    <3>1. p \in inner /\ p \in Path /\ p \in DOMAIN com /\ p # At
      BY <1>1, <1>3, <1>6 DEF IInv, TypeOK, Node
    <3>2. ChildBytes(p)' = ChildBytes(p)
      BY <1>3, <1>5, <3>1 DEF ChildBytes
    <3>3. \A b \in ChildBytes(p) :
            Append(p, b) \in DOMAIN com' /\ com'[Append(p, b)] = com[Append(p, b)]
      BY <1>1, <1>6, <3>1, CleanAbove DEF IInv, CacheFresh, ChildBytes
    <3> QED
      BY <1>6, <3>1, <3>2, <3>3, SameTerm DEF IInv, CacheFresh
  <2> QED
    BY <2>1, <2>2 DEF CacheFresh
<1>15. ZeroInv'
  BY <1>1, <1>4 DEF IInv, ZeroInv
<1> QED
  BY <1>10, <1>11, <1>12, <1>13, <1>14, <1>15 DEF IInv

\* A commit step changes no node and no path.
LEMMA CommitStep ==
    ASSUME IInv, UNCHANGED <<inner, leaf>>, call' \in Call, call'.op # "set",
           DOMAIN com' \subseteq Node, CacheFresh'
    PROVE  IInv'
<1>1. Node' = Node
  BY DEF Node
<1>2. TypeOK' /\ ShapeInv'
  BY <1>1 DEF IInv, TypeOK, ShapeInv
<1>3. DepthInBounds' /\ DescentInv' /\ ZeroInv'
  BY DEF IInv, DepthInBounds, DescentInv, ZeroInv
<1> QED
  BY <1>2, <1>3 DEF IInv

\* An action that leaves nodes and cache alone leaves the cache fresh.
LEMMA SameCache ==
    ASSUME CacheFresh, UNCHANGED <<inner, leaf, com>>
    PROVE  CacheFresh'
BY DEF CacheFresh, ChildBytes, InnerTerm, LeafTerm, Node

LEMMA CommitInv == ASSUME IInv, Commit PROVE IInv'
<1>1. call'.op # "set" /\ call' \in Call
  BY DEF Commit, Call
<1>2. UNCHANGED <<inner, leaf, com>>
  BY DEF Commit
<1> QED
  BY <1>1, <1>2, SameCache, CommitStep DEF IInv, TypeOK

LEMMA CommitReturnInv == ASSUME IInv, CommitReturn PROVE IInv'
<1>1. call'.op # "set" /\ call' \in Call
  BY DEF CommitReturn, Call, Idle
<1>2. UNCHANGED <<inner, leaf, com>>
  BY DEF CommitReturn
<1> QED
  BY <1>1, <1>2, SameCache, CommitStep DEF IInv, TypeOK

LEMMA CommitLeafInv ==
    ASSUME IInv, NEW p \in DOMAIN leaf, CommitLeaf(p)
    PROVE  IInv'
<1>1. /\ p \notin DOMAIN com /\ UNCHANGED <<inner, leaf, call>>
      /\ call.op = "commit" /\ p \in Node
      /\ com' = Cached(p, LeafTerm(leaf[p]))
  BY DEF CommitLeaf, Node
<1>2. /\ DOMAIN com' = DOMAIN com \cup {p} /\ com'[p] = LeafTerm(leaf[p])
      /\ \A r \in DOMAIN com : com'[r] = com[r]
  BY <1>1 DEF Cached
<1>3. CacheFresh'
  <2>1. \A r \in DOMAIN com' \cap DOMAIN leaf' : com'[r] = LeafTerm(leaf'[r])
    BY <1>1, <1>2 DEF IInv, CacheFresh
  <2>2. ASSUME NEW r \in DOMAIN com' \cap inner'
        PROVE  /\ \A b \in ChildBytes(r)' : Append(r, b) \in DOMAIN com'
               /\ com'[r] = InnerTerm(r)'
    <3>1. r \in inner /\ r \in DOMAIN com
      BY <1>1, <1>2 DEF IInv, ShapeInv
    <3>2. ChildBytes(r)' = ChildBytes(r)
      BY <1>1 DEF ChildBytes, Node
    <3> QED
      BY <1>2, <3>1, <3>2, SameTerm DEF IInv, CacheFresh
  <2> QED
    BY <2>1, <2>2 DEF CacheFresh
<1> QED
  BY <1>1, <1>2, <1>3, CommitStep DEF IInv, TypeOK

LEMMA CommitInnerInv ==
    ASSUME IInv, NEW p \in inner, CommitInner(p)
    PROVE  IInv'
<1>1. /\ p \notin DOMAIN com /\ UNCHANGED <<inner, leaf, call>>
      /\ call.op = "commit" /\ p \in Node
      /\ com' = Cached(p, InnerTerm(p))
      /\ \A b \in ChildBytes(p) : Append(p, b) \in DOMAIN com
  BY DEF CommitInner, Node
<1>2. /\ DOMAIN com' = DOMAIN com \cup {p} /\ com'[p] = InnerTerm(p)
      /\ \A r \in DOMAIN com : com'[r] = com[r]
  BY <1>1 DEF Cached
<1>3. CacheFresh'
  <2>1. \A r \in DOMAIN com' \cap DOMAIN leaf' : com'[r] = LeafTerm(leaf'[r])
    BY <1>1, <1>2 DEF IInv, CacheFresh, ShapeInv
  <2>2. ASSUME NEW r \in DOMAIN com' \cap inner'
        PROVE  /\ \A b \in ChildBytes(r)' : Append(r, b) \in DOMAIN com'
               /\ com'[r] = InnerTerm(r)'
    <3>1. ChildBytes(r)' = ChildBytes(r)
      BY <1>1 DEF ChildBytes, Node
    <3>2. \A b \in ChildBytes(r) : Append(r, b) \in DOMAIN com
      BY <1>1, <1>2 DEF IInv, CacheFresh
    <3>3. InnerTerm(r)' = InnerTerm(r)
      BY <1>2, <3>1, <3>2, SameTerm
    <3> QED
      BY <1>1, <1>2, <3>1, <3>2, <3>3 DEF IInv, CacheFresh
  <2> QED
    BY <2>1, <2>2 DEF CacheFresh
<1> QED
  BY <1>1, <1>2, <1>3, CommitStep DEF IInv, TypeOK

LEMMA StutterInv == ASSUME IInv, UNCHANGED vars PROVE IInv'
<1>1. UNCHANGED <<inner, leaf, com>> /\ call' = call
  BY DEF vars
<1>2. TypeOK' /\ ShapeInv'
  BY <1>1 DEF IInv, TypeOK, ShapeInv, Node
<1>3. DepthInBounds' /\ DescentInv'
  BY <1>1 DEF IInv, DepthInBounds, DescentInv, Node, At
<1>4. CacheFresh' /\ ZeroInv'
  BY <1>1, SameCache DEF IInv, ZeroInv
<1> QED
  BY <1>2, <1>3, <1>4 DEF IInv

LEMMA NextInv == IInv /\ [Next]_vars => IInv'
<1> SUFFICES ASSUME IInv, [Next]_vars PROVE IInv'
  OBVIOUS
<1>1. CASE \E k \in Key, v \in Value : Set(k, v)
  BY <1>1, SetInv
<1>2. CASE Commit
  BY <1>2, CommitInv
<1>3. CASE InnerSet
  BY <1>3, InnerSetInv
<1>4. CASE LeafSet
  BY <1>4, LeafSetInv
<1>5. CASE LeafSplit
  BY <1>5, LeafSplitInv
<1>6. CASE \E p \in DOMAIN leaf : CommitLeaf(p)
  BY <1>6, CommitLeafInv
<1>7. CASE \E p \in inner : CommitInner(p)
  BY <1>7, CommitInnerInv
<1>8. CASE CommitReturn
  BY <1>8, CommitReturnInv
<1>9. CASE UNCHANGED vars
  BY <1>9, StutterInv
<1> QED
  BY <1>1, <1>2, <1>3, <1>4, <1>5, <1>6, <1>7, <1>8, <1>9 DEF Next, Step

LEMMA Invariance == Spec => []IInv
BY InitInv, NextInv, PTL DEF Spec

-----------------------------------------------------------------------------
(* The invariants that TLC checks on small instances.                      *)

\* Every state is well typed: paths fit, only allocated nodes are clean.
THEOREM TypeCorrect == Spec => []TypeOK
BY Invariance, PTL DEF IInv

\* inner.set and leaf.set keep the shape of a trie, split after split.
THEOREM ShapeCorrect == Spec => []ShapeInv
BY Invariance, PTL DEF IInv

\* set and get never index a stem past its end: the recursion of leaf.set
\* into a fresh inner node stops at the first byte the two stems differ in.
THEOREM DepthCorrect == Spec => []DepthInBounds
BY Invariance, PTL DEF IInv

\* A write invalidates every commitment above it, and does so first.
THEOREM DescentCorrect == Spec => []DescentInv
BY Invariance, PTL DEF IInv

\* Trie.Commit never serves a commitment that recomputation would not give.
THEOREM CacheCorrect == Spec => []CacheFresh
BY Invariance, PTL DEF IInv

\* The stems around do not disappear, nor does what makes a path a fork.
LEMMA StemsKept ==
    ASSUME IInv, [Next]_vars
    PROVE  StemsAround \subseteq StemsAround'
<1>1. CASE \E k \in Key, v \in Value : Set(k, v)
  BY <1>1 DEF Set, StemsAround, Idle
<1>2. CASE InnerSet
  <2>1. call'.op = "set" /\ call'.key = call.key
    BY <1>2, SetFacts DEF InnerSet, IInv
  <2>2. \A p \in DOMAIN leaf : p \in DOMAIN leaf' /\ leaf'[p] = leaf[p]
    BY <1>2 DEF InnerSet
  <2> QED
    BY <2>1, <2>2 DEF StemsAround
<1>3. CASE LeafSet
  <2>1. At \in DOMAIN leaf /\ leaf[At].stem = call.key.stem /\ leaf[At] \in LeafNode
    BY <1>3 DEF LeafSet, IInv, TypeOK
  <2>2. leaf'[At].stem = leaf[At].stem
    BY <1>3, <2>1 DEF LeafSet, Written, LeafNode
  <2>3. \A p \in DOMAIN leaf : p \in DOMAIN leaf' /\ leaf'[p].stem = leaf[p].stem
    BY <1>3, <2>2 DEF LeafSet
  <2> QED
    BY <2>1, <2>3 DEF StemsAround
<1>4. CASE LeafSplit
  <2>1. \A p \in DOMAIN leaf : \E q \in DOMAIN leaf' : leaf'[q] = leaf[p]
    BY <1>4, SplitFacts DEF LeafSplit, Moved, Node
  <2> QED
    BY <1>4, <2>1 DEF LeafSplit, StemsAround
<1>5. CASE UNCHANGED leaf /\ (call.op # "set" \/ UNCHANGED call)
  BY <1>5 DEF StemsAround
<1> QED
  BY <1>1, <1>2, <1>3, <1>4, <1>5
     DEF Next, Step, Commit, CommitLeaf, CommitInner, CommitReturn, vars, Idle

\* A split makes an inner node only where two stems share the path, so the
\* shape of the trie is a function of its stems.
THEOREM CanonicalCorrect == Spec => []CanonicalShape
<1>1. Init => CanonicalShape
  BY DEF Init, CanonicalShape
<1>2. IInv /\ CanonicalShape /\ [Next]_vars => CanonicalShape'
  <2> SUFFICES ASSUME IInv, CanonicalShape, [Next]_vars PROVE CanonicalShape'
    OBVIOUS
  <2>1. StemsAround \subseteq StemsAround'
    BY StemsKept
  <2>2. CASE inner' \subseteq inner \cup {Root}
    BY <2>1, <2>2 DEF CanonicalShape
  <2>3. CASE LeafSplit
    <3>1. /\ inner' = inner \cup {At} /\ At \in DOMAIN leaf
          /\ call.op = "set" /\ leaf[At].stem # call.key.stem
      BY <2>3 DEF LeafSplit
    <3>2. leaf[At].stem \in StemsAround /\ call.key.stem \in StemsAround
      BY <3>1 DEF StemsAround
    <3>3. At = Prefix(leaf[At].stem, Len(At)) /\ At = Prefix(call.key.stem, Len(At))
      BY <3>1, SetFacts DEF IInv, ShapeInv, At
    <3> QED
      BY <2>1, <3>1, <3>2, <3>3 DEF CanonicalShape
  <2> QED
    BY <2>2, <2>3 DEF Next, Step, Set, InnerSet, LeafSet, Commit, CommitLeaf,
          CommitInner, CommitReturn, vars
<1> QED
  BY <1>1, <1>2, Invariance, PTL DEF Spec

-----------------------------------------------------------------------------
(* What can be read.                                                       *)

\* A descent towards the stem of a leaf ends at that leaf.
LEMMA FindLeaf ==
    ASSUME IInv, NEW p \in DOMAIN leaf
    PROVE  Find(leaf[p].stem) = p
<1> DEFINE s == leaf[p].stem
           Ends(d) == /\ Prefix(s, d) \notin inner
                      /\ \A e \in 0..(d - 1) : Prefix(s, e) \in inner
<1>1. /\ p \in Path /\ Len(p) \in 0..StemLen /\ StemLen \in Nat
      /\ p = Prefix(s, Len(p)) /\ p \notin inner
      /\ \A n \in 0..(Len(p) - 1) : Prefix(p, n) \in inner
  BY PathLen, TrieAssumption DEF IInv, TypeOK, ShapeInv, Node
<1>2. Ends(Len(p))
  BY <1>1, PrefixOfPrefix
<1>3. ASSUME NEW d \in 0..StemLen, Ends(d) PROVE d = Len(p)
  BY <1>1, <1>2, <1>3
<1>4. Descent(s) = (CHOOSE d \in 0..StemLen : Ends(d))
  BY DEF Descent
<1>5. Descent(s) = Len(p)
  BY <1>1, <1>2, <1>3, <1>4
<1> QED
  BY <1>1, <1>5 DEF Find

\* StoreView in terms of the leaves, without the descent.
ViewFacts ==
    /\ \A p, q \in DOMAIN leaf : leaf[p].stem = leaf[q].stem => p = q
    /\ \A k \in Key :
        /\ \A p \in DOMAIN leaf : leaf[p].stem = k.stem =>
            StoreView[k] = IF k.suffix \in leaf[p].used
                           THEN leaf[p].values[k.suffix] ELSE Unset
        /\ (\A p \in DOMAIN leaf : leaf[p].stem # k.stem) => StoreView[k] = Unset

LEMMA View == IInv => ViewFacts
<1> SUFFICES ASSUME IInv PROVE ViewFacts
  OBVIOUS
<1>1. \A p \in DOMAIN leaf : Find(leaf[p].stem) = p
  BY FindLeaf
<1>2. \A k \in Key : StoreView[k] = IF isUsed(k) THEN Get(k) ELSE Unset
  BY DEF StoreView
<1> QED
  BY <1>1, <1>2 DEF ViewFacts, isUsed, Get, Holds

\* The same after a step.
LEMMA ViewNext == IInv' => ViewFacts'
BY View, PTL

\* What was never set reads as zero, whichever leaf the descent reaches.
THEOREM UnsetReads == Spec => []UnsetReadsZero
<1>1. IInv => UnsetReadsZero
  BY DEF IInv, ZeroInv, UnsetReadsZero, isUsed, Get, Holds, Key
<1> QED
  BY <1>1, Invariance, PTL

LEMMA SameStems ==
    ASSUME ViewFacts, ViewFacts', leaf' = leaf
    PROVE  StoreView' = StoreView
<1>1. ASSUME NEW k \in Key PROVE StoreView'[k] = StoreView[k]
  <2>1. CASE \E p \in DOMAIN leaf : leaf[p].stem = k.stem
    BY <2>1 DEF ViewFacts
  <2>2. CASE \A p \in DOMAIN leaf : leaf[p].stem # k.stem
    BY <2>2 DEF ViewFacts
  <2> QED
    BY <2>1, <2>2
<1> QED
  BY <1>1 DEF StoreView

\* A leaf that set has just allocated reads like no leaf.
LEMMA InnerSetView ==
    ASSUME ViewFacts, ViewFacts', InnerSet
    PROVE  StoreView' = StoreView
<1>1. /\ DOMAIN leaf \subseteq DOMAIN leaf'
      /\ \A p \in DOMAIN leaf : leaf'[p] = leaf[p]
      /\ \A p \in DOMAIN leaf' \ DOMAIN leaf : leaf'[p] = newLeaf(call.key.stem)
  BY DEF InnerSet
<1>2. ASSUME NEW k \in Key PROVE StoreView'[k] = StoreView[k]
  <2>1. CASE \E p \in DOMAIN leaf : leaf[p].stem = k.stem
    BY <1>1, <2>1 DEF ViewFacts
  <2>2. CASE \A p \in DOMAIN leaf : leaf[p].stem # k.stem
    <3>1. StoreView[k] = Unset
      BY <2>2 DEF ViewFacts
    <3>2. CASE \E p \in DOMAIN leaf' : leaf'[p].stem = k.stem
      <4>1. PICK p \in DOMAIN leaf' : leaf'[p].stem = k.stem
        BY <3>2
      <4>2. leaf'[p].used = {}
        BY <1>1, <2>2, <4>1 DEF newLeaf
      <4> QED
        BY <3>1, <4>1, <4>2 DEF ViewFacts
    <3>3. CASE \A p \in DOMAIN leaf' : leaf'[p].stem # k.stem
      BY <3>1, <3>3 DEF ViewFacts
    <3> QED
      BY <3>2, <3>3
  <2> QED
    BY <2>1, <2>2
<1> QED
  BY <1>2 DEF StoreView

\* A split moves a leaf and changes none.
LEMMA LeafSplitView ==
    ASSUME IInv, ViewFacts, ViewFacts', LeafSplit
    PROVE  StoreView' = StoreView
<1> DEFINE q == SplitPath(At)
<1>1. /\ DOMAIN leaf' = (DOMAIN leaf \ {At}) \cup {q}
      /\ At \in DOMAIN leaf /\ leaf'[q] = leaf[At]
      /\ \A p \in DOMAIN leaf \ {At} : leaf'[p] = leaf[p]
  BY SplitFacts DEF LeafSplit, Moved, Node
<1>2. ASSUME NEW k \in Key PROVE StoreView'[k] = StoreView[k]
  <2>1. CASE \E p \in DOMAIN leaf : leaf[p].stem = k.stem
    <3>1. PICK p \in DOMAIN leaf : leaf[p].stem = k.stem
      BY <2>1
    <3>2. PICK r \in DOMAIN leaf' : leaf'[r] = leaf[p]
      BY <1>1
    <3> QED
      BY <3>1, <3>2 DEF ViewFacts
  <2>2. CASE \A p \in DOMAIN leaf : leaf[p].stem # k.stem
    <3>1. \A r \in DOMAIN leaf' : leaf'[r].stem # k.stem
      BY <1>1, <2>2
    <3> QED
      BY <2>2, <3>1 DEF ViewFacts
  <2> QED
    BY <2>1, <2>2
<1> QED
  BY <1>2 DEF StoreView

\* The write of leaf.set is the Set of the abstract map.
LEMMA LeafSetView ==
    ASSUME IInv, ViewFacts, ViewFacts', LeafSet
    PROVE  KV!Set(call.key, call.value)
<1> DEFINE x == call.key.suffix
<1>1. /\ call.key \in Key /\ x \in Suffix /\ call.value \in Value
      /\ At \in DOMAIN leaf /\ leaf[At].stem = call.key.stem
      /\ leaf[At] \in LeafNode
  BY SetFacts DEF LeafSet, IInv, TypeOK
<1>2. /\ DOMAIN leaf' = DOMAIN leaf
      /\ \A p \in DOMAIN leaf \ {At} : leaf'[p] = leaf[p]
      /\ leaf'[At] = Written(leaf[At], x, call.value)
  BY <1>1 DEF LeafSet
<1>3. /\ leaf'[At].stem = call.key.stem
      /\ leaf'[At].used = leaf[At].used \cup {x}
      /\ leaf'[At].values[x] = call.value
      /\ \A y \in Suffix \ {x} : leaf'[At].values[y] = leaf[At].values[y]
  BY <1>1, <1>2 DEF Written, LeafNode
<1>4. StoreView'[call.key] = call.value
  BY <1>1, <1>2, <1>3 DEF ViewFacts
<1>5. ASSUME NEW k \in Key, k # call.key PROVE StoreView'[k] = StoreView[k]
  <2>1. CASE k.stem = call.key.stem
    <3>1. k.suffix \in Suffix /\ k.suffix # x
      BY <1>1, <1>5, <2>1 DEF Key
    <3>2. k.suffix \in leaf'[At].used <=> k.suffix \in leaf[At].used
      BY <1>3, <3>1
    <3> QED
      BY <1>1, <1>2, <1>3, <2>1, <3>1, <3>2 DEF ViewFacts
  <2>2. CASE k.stem # call.key.stem
    <3>1. CASE \E p \in DOMAIN leaf : leaf[p].stem = k.stem
      <4>1. PICK p \in DOMAIN leaf : leaf[p].stem = k.stem
        BY <3>1
      <4>2. leaf'[p] = leaf[p]
        BY <1>1, <1>2, <2>2, <4>1
      <4> QED
        BY <1>2, <4>1, <4>2 DEF ViewFacts
    <3>2. CASE \A p \in DOMAIN leaf : leaf[p].stem # k.stem
      <4>1. \A p \in DOMAIN leaf' : leaf'[p].stem # k.stem
        BY <1>1, <1>2, <1>3, <2>2, <3>2
      <4> QED
        BY <3>2, <4>1 DEF ViewFacts
    <3> QED
      BY <3>1, <3>2
  <2> QED
    BY <2>1, <2>2
<1>6. DOMAIN StoreView = Key /\ DOMAIN StoreView' = Key
  BY DEF StoreView
<1>7. StoreView' = [StoreView EXCEPT ![call.key] = call.value]
  <2> DEFINE f == [StoreView EXCEPT ![call.key] = call.value]
  <2>1. \A k \in Key : StoreView'[k] = f[k]
    BY <1>1, <1>4, <1>5, <1>6
  <2>2. StoreView' = [k \in Key |-> StoreView'[k]] /\ f = [k \in Key |-> f[k]]
    BY <1>6 DEF StoreView
  <2> QED
    BY <2>1, <2>2
<1> QED
  BY <1>7 DEF KV!Set

LEMMA StepView ==
    IInv /\ ViewFacts /\ ViewFacts' /\ [Next]_vars => [KV!Next]_StoreView
<1> SUFFICES ASSUME IInv, ViewFacts, ViewFacts', [Next]_vars
             PROVE  [KV!Next]_StoreView
  OBVIOUS
<1>1. CASE leaf' = leaf
  BY <1>1, SameStems
<1>2. CASE InnerSet
  BY <1>2, InnerSetView
<1>3. CASE LeafSet
  <2>1. call.key \in Key /\ call.value \in Value
    BY <1>3, SetFacts DEF LeafSet, IInv
  <2> QED
    BY <1>3, <2>1, LeafSetView DEF KV!Next
<1>4. CASE LeafSplit
  BY <1>4, LeafSplitView
<1> QED
  BY <1>1, <1>2, <1>3, <1>4 DEF Next, Step, Set, Commit, CommitLeaf,
        CommitInner, CommitReturn, vars

LEMMA InitView == Init => KV!Init
<1> SUFFICES ASSUME Init PROVE StoreView = [k \in Key |-> Unset]
  BY DEF KV!Init
<1>1. DOMAIN leaf = {}
  BY DEF Init
<1>2. \A k \in Key : ~ isUsed(k)
  BY <1>1 DEF isUsed, Holds
<1> QED
  BY <1>2 DEF StoreView

\* The trie implements the map: a Set changes the value of its key at the
\* step that writes the leaf, and no other step changes any value.
THEOREM TrieImplementsMap == Spec => RefinesKVStore
<1>1. Spec => []IInv /\ []ViewFacts
  BY Invariance, View, PTL
<1> QED
  BY <1>1, InitView, StepView, PTL DEF Spec, RefinesKVStore, KV!Spec

-----------------------------------------------------------------------------
(* The commitment of a content.                                           *)

\* A leaf without values is one that a set is about to write.
FilledInv ==
    \A p \in DOMAIN leaf : leaf[p].used = {} =>
        call.op = "set" /\ leaf[p].stem = call.key.stem

LEMMA FilledNext ==
    ASSUME IInv, IInv', FilledInv, [Next]_vars
    PROVE  FilledInv'
<1>1. CASE \E k \in Key, v \in Value : Set(k, v)
  BY <1>1 DEF Set, FilledInv, Idle
<1>2. CASE InnerSet
  <2>1. call'.op = "set" /\ call'.key = call.key
    BY <1>2, SetFacts DEF InnerSet, IInv
  <2>2. \A p \in DOMAIN leaf' :
            leaf'[p] = IF p \in DOMAIN leaf THEN leaf[p] ELSE newLeaf(call.key.stem)
    BY <1>2 DEF InnerSet
  <2>3. newLeaf(call.key.stem).stem = call.key.stem
    BY DEF newLeaf
  <2> QED
    BY <2>1, <2>2, <2>3 DEF FilledInv
<1>3. CASE LeafSet
  <2>1. /\ At \in DOMAIN leaf /\ leaf[At].stem = call.key.stem /\ leaf[At] \in LeafNode
        /\ leaf' = [leaf EXCEPT ![At] = Written(@, call.key.suffix, call.value)]
    BY <1>3 DEF LeafSet, IInv, TypeOK
  <2>2. leaf'[At].used # {}
    BY <2>1 DEF Written, LeafNode
  <2>3. \A p \in DOMAIN leaf \ {At} : leaf'[p] = leaf[p] /\ leaf[p].stem # call.key.stem
    BY <2>1, View DEF ViewFacts
  <2> QED
    BY <2>1, <2>2, <2>3 DEF FilledInv
<1>4. CASE LeafSplit
  <2>1. \A q \in DOMAIN leaf' : \E p \in DOMAIN leaf : leaf'[q] = leaf[p]
    BY <1>4, SplitFacts DEF LeafSplit, Moved, Node
  <2> QED
    BY <1>4, <2>1 DEF LeafSplit, FilledInv
<1>5. CASE UNCHANGED leaf /\ (call.op # "set" \/ UNCHANGED call)
  BY <1>5 DEF FilledInv
<1> QED
  BY <1>1, <1>2, <1>3, <1>4, <1>5
     DEF Next, Step, Commit, CommitLeaf, CommitInner, CommitReturn, vars, Idle

LEMMA FilledInvariance == Spec => []FilledInv
<1>1. Init => FilledInv
  BY DEF Init, FilledInv
<1>2. IInv /\ IInv' /\ FilledInv /\ [Next]_vars => FilledInv'
  BY FilledNext
<1> QED
  BY <1>1, <1>2, Invariance, PTL DEF Spec

\* A non-empty set of naturals has a least element.
LEMMA NatMin ==
    ASSUME NEW S \in SUBSET Nat, S # {}
    PROVE  \E x \in S : \A y \in S : x <= y
<1>1. \E R : /\ IsWellFoundedOn(R, Nat)
             /\ \A x, y \in Nat : y < x => <<y, x>> \in R
  <2>1. IsWellFoundedOn(OpToRel(<, Nat), Nat)
    BY NatLessThanWellFounded
  <2>2. \A x, y \in Nat : y < x => <<y, x>> \in OpToRel(<, Nat)
    BY DEF OpToRel
  <2> QED
    BY <2>1, <2>2
<1>2. PICK R : /\ IsWellFoundedOn(R, Nat)
               /\ \A x, y \in Nat : y < x => <<y, x>> \in R
  BY <1>1
<1>3. PICK x \in S : \A y \in S : ~ (<<y, x>> \in R)
  BY <1>2, WFMin
<1>4. \A y \in S : ~ (y < x)
  BY <1>2, <1>3
<1>5. \A y \in S : x <= y
  BY <1>4
<1> QED
  BY <1>5

\* f is what CanonicalTerm(st) is defined to be.
IsTerm(st, f) ==
    f = [p \in Path |->
            IF p # Root /\ \E s \in Stem : StemsAt(st, p) = {s}
            THEN CanonicalLeaf(st, CHOOSE s \in Stem : StemsAt(st, p) = {s})
            ELSE <<"inner", [b \in {s[Len(p) + 1] : s \in StemsAt(st, p)} |->
                                f[Append(p, b)]]>>]

\* There is one such f: a path has finitely many bytes left to a stem.
LEMMA TermIsUnique ==
    ASSUME NEW st, NEW f, NEW g, IsTerm(st, f), IsTerm(st, g)
    PROVE  f = g
<1> DEFINE Bad == {p \in Path : f[p] # g[p]}
           Left == {StemLen - Len(p) : p \in Bad}
           Heads(p) == {s[Len(p) + 1] : s \in StemsAt(st, p)}
<1> USE DEF IsTerm
<1>1. SUFFICES ASSUME Bad # {} PROVE FALSE
  <2>1. DOMAIN f = Path /\ DOMAIN g = Path
    OBVIOUS
  <2>2. f = [p \in Path |-> f[p]] /\ g = [p \in Path |-> g[p]]
    OBVIOUS
  <2> QED
    BY <2>1, <2>2, <1>1
<1>2. \A p \in Path : Len(p) \in 0..StemLen /\ StemLen - Len(p) \in Nat
  BY PathLen, TrieAssumption
<1>3. Left \in SUBSET Nat /\ Left # {}
  BY <1>1, <1>2
<1>4. PICK n \in Left : \A m \in Left : n <= m
  BY <1>3, NatMin
<1>5. PICK p \in Bad : n = StemLen - Len(p)
  OBVIOUS
<1>6. p \in Path /\ f[p] # g[p]
  OBVIOUS
<1>7. \A q \in Path : Len(q) > Len(p) => f[q] = g[q]
  <2> SUFFICES ASSUME NEW q \in Path, Len(q) > Len(p), f[q] # g[q] PROVE FALSE
    OBVIOUS
  <2>1. n <= StemLen - Len(q)
    BY <1>4
  <2>2. Len(p) \in Nat /\ Len(q) \in Nat /\ StemLen \in Nat
    BY <1>2, <1>6, TrieAssumption
  <2> QED
    BY <1>5, <2>1, <2>2
<1> HIDE DEF Bad, Left
<1>8. ASSUME NEW b \in Heads(p), p = Root \/ ~ \E s \in Stem : StemsAt(st, p) = {s}
      PROVE  f[Append(p, b)] = g[Append(p, b)]
  <2>1. PICK s \in StemsAt(st, p) : b = s[Len(p) + 1]
    OBVIOUS
  <2>2. s \in Stem /\ p = Prefix(s, Len(p)) /\ StemsAt(st, p) \subseteq Stem
        /\ \A t \in StemsAt(st, p) : p = Prefix(t, Len(p))
    BY <2>1 DEF StemsAt
  <2>3. Len(p) # StemLen
    <3> SUFFICES ASSUME Len(p) = StemLen PROVE FALSE
      OBVIOUS
    <3>1. \A t \in Stem : Prefix(t, StemLen) = t
      BY TrieAssumption DEF Prefix
    <3>2. StemsAt(st, p) = {s}
      BY <2>1, <2>2, <3>1
    <3>3. p # Root
      BY TrieAssumption DEF Root
    <3> QED
      BY <1>8, <2>2, <3>2, <3>3
  <2>4. Len(p) \in 0..(StemLen - 1)
    BY <1>2, <1>6, <2>3, TrieAssumption
  <2>5. Append(p, b) = Prefix(s, Len(p) + 1)
    BY <2>1, <2>2, <2>4, AppendPrefix
  <2>6. Append(p, b) \in Path /\ Len(Append(p, b)) = Len(p) + 1
    BY <2>2, <2>4, <2>5, PrefixPath, PrefixLen, TrieAssumption
  <2>7. Len(Append(p, b)) > Len(p)
    BY <2>4, <2>6, TrieAssumption
  <2> QED
    BY <1>7, <2>6, <2>7
<1>9. CASE p # Root /\ \E s \in Stem : StemsAt(st, p) = {s}
  BY <1>6, <1>9
<1>10. CASE ~ (p # Root /\ \E s \in Stem : StemsAt(st, p) = {s})
  <2>1. f[p] = <<"inner", [b \in Heads(p) |-> f[Append(p, b)]]>>
    BY <1>6, <1>10
  <2>2. g[p] = <<"inner", [b \in Heads(p) |-> g[Append(p, b)]]>>
    BY <1>6, <1>10
  <2>3. \A b \in Heads(p) : f[Append(p, b)] = g[Append(p, b)]
    BY <1>8, <1>10
  <2> HIDE DEF Heads
  <2>4. [b \in Heads(p) |-> f[Append(p, b)]] = [b \in Heads(p) |-> g[Append(p, b)]]
    BY <2>3
  <2> QED
    BY <1>6, <2>1, <2>2, <2>4
<1> QED
  BY <1>9, <1>10

LEMMA TermIs ==
    ASSUME NEW st, NEW f, IsTerm(st, f)
    PROVE  CanonicalTerm(st) = f
<1>1. CanonicalTerm(st) = CHOOSE g : IsTerm(st, g)
  BY DEF CanonicalTerm, IsTerm
<1>2. IsTerm(st, CanonicalTerm(st))
  BY <1>1
<1> QED
  BY <1>2, TermIsUnique

\* What is known of the trie while no set is running.
Settled == IInv /\ FilledInv /\ CanonicalShape /\ call.op # "set"

LEMMA StemsOfLeaves ==
    ASSUME Settled, NEW p, NEW s
    PROVE  s \in StemsAt(StoreView, p) <=>
                p = Prefix(s, Len(p)) /\ \E q \in DOMAIN leaf : leaf[q].stem = s
<1>1. ViewFacts /\ \A q \in DOMAIN leaf : leaf[q] \in LeafNode
  BY View DEF Settled, IInv, TypeOK
<1>2. ASSUME NEW q \in DOMAIN leaf
      PROVE  \E x \in Suffix : StoreView[[stem |-> leaf[q].stem, suffix |-> x]] # Unset
  <2>1. PICK x \in leaf[q].used : TRUE
    BY DEF Settled, FilledInv
  <2> DEFINE k == [stem |-> leaf[q].stem, suffix |-> x]
  <2>2. x \in Suffix /\ leaf[q].values[x] \in Value /\ leaf[q].stem \in Stem
    BY <1>1 DEF LeafNode
  <2>3. k \in Key /\ k.stem = leaf[q].stem /\ k.suffix = x
    BY <2>2 DEF Key
  <2> HIDE DEF k
  <2>4. StoreView[k] = leaf[q].values[x]
    BY <1>1, <2>1, <2>3 DEF ViewFacts
  <2> QED
    BY <2>2, <2>4, TrieAssumption DEF k
<1>3. ASSUME NEW x \in Suffix, s \in Stem, StoreView[[stem |-> s, suffix |-> x]] # Unset
      PROVE  \E q \in DOMAIN leaf : leaf[q].stem = s
  <2> DEFINE k == [stem |-> s, suffix |-> x]
  <2>1. k \in Key /\ k.stem = s
    BY <1>3 DEF Key
  <2> QED
    BY <1>1, <1>3, <2>1 DEF ViewFacts
<1>4. \A q \in DOMAIN leaf : leaf[q].stem \in Stem
  BY <1>1 DEF LeafNode
<1> QED
  BY <1>2, <1>3, <1>4 DEF StemsAt

\* The vector of a leaf is the canonical one of its stem.
LEMMA LeafIsCanonical ==
    ASSUME Settled, NEW q \in DOMAIN leaf
    PROVE  CanonicalLeaf(StoreView, leaf[q].stem) = LeafTerm(leaf[q])
<1> DEFINE s == leaf[q].stem
           at(x) == StoreView[[stem |-> s, suffix |-> x]]
<1>1. ViewFacts /\ leaf[q] \in LeafNode
  BY View DEF Settled, IInv, TypeOK
<1>2. ASSUME NEW x \in Suffix
      PROVE  (IF at(x) = Unset THEN <<Zero, FALSE>> ELSE <<at(x), TRUE>>)
                = <<leaf[q].values[x], x \in leaf[q].used>>
  <2> DEFINE k == [stem |-> s, suffix |-> x]
  <2>1. k \in Key /\ k.stem = s /\ k.suffix = x
    BY <1>1 DEF Key, LeafNode
  <2>2. StoreView[k] = IF x \in leaf[q].used THEN leaf[q].values[x] ELSE Unset
    BY <1>1, <2>1 DEF ViewFacts
  <2>3. leaf[q].values[x] # Unset /\ (x \notin leaf[q].used => leaf[q].values[x] = Zero)
    BY <1>1, TrieAssumption DEF LeafNode, Settled, IInv, ZeroInv
  <2>4. at(x) = StoreView[k]
    OBVIOUS
  <2> HIDE DEF k, s, at
  <2>5. CASE x \in leaf[q].used
    <3>1. (x \in leaf[q].used) = TRUE
      BY <2>5
    <3> QED
      BY <2>2, <2>3, <2>4, <2>5, <3>1
  <2>6. CASE x \notin leaf[q].used
    <3>1. (x \in leaf[q].used) = FALSE
      BY <2>6
    <3> QED
      BY <2>2, <2>3, <2>4, <2>6, <3>1
  <2> QED
    BY <2>5, <2>6
<1> QED
  BY <1>2, Zenon DEF CanonicalLeaf, LeafTerm

\* A leaf is the only one below its path.
LEMMA LeafIsAlone ==
    ASSUME IInv, NEW q \in DOMAIN leaf, NEW r \in DOMAIN leaf,
           NEW p \in Path, p \notin inner,
           p = Prefix(leaf[q].stem, Len(p)), p = Prefix(leaf[r].stem, Len(p))
    PROVE  q = r
<1>1. ASSUME NEW m \in DOMAIN leaf, p = Prefix(leaf[m].stem, Len(p))
      PROVE  Len(m) <= Len(p) /\ m = Prefix(p, Len(m))
  <2>1. /\ m \in Path /\ Len(m) \in Nat /\ Len(p) \in Nat
        /\ m = Prefix(leaf[m].stem, Len(m))
        /\ \A n \in 0..(Len(m) - 1) : Prefix(m, n) \in inner
    BY PathLen, TrieAssumption DEF IInv, TypeOK, ShapeInv, Node
  <2>2. Len(m) <= Len(p)
    <3> SUFFICES ASSUME Len(m) > Len(p) PROVE FALSE
      BY <2>1
    <3>1. Prefix(m, Len(p)) = p
      BY <1>1, <2>1, PrefixOfPrefix
    <3> QED
      BY <2>1, <3>1
  <2> QED
    BY <1>1, <2>1, <2>2, PrefixOfPrefix
<1>2. /\ Len(q) \in Nat /\ Len(r) \in Nat /\ Len(p) \in Nat
      /\ Len(q) <= Len(p) /\ q = Prefix(p, Len(q))
      /\ Len(r) <= Len(p) /\ r = Prefix(p, Len(r))
  BY <1>1, PathLen, TrieAssumption DEF IInv, TypeOK
<1>3. ASSUME NEW m \in DOMAIN leaf, NEW n \in DOMAIN leaf, Len(m) \in Nat, Len(n) \in Nat,
             m = Prefix(p, Len(m)), n = Prefix(p, Len(n))
      PROVE  ~ (Len(m) < Len(n))
  <2> SUFFICES ASSUME Len(m) < Len(n) PROVE FALSE
    OBVIOUS
  <2>1. Prefix(n, Len(m)) = m
    BY <1>3, PrefixOfPrefix
  <2>2. Len(m) \in 0..(Len(n) - 1)
    BY <1>3
  <2> QED
    BY <2>1, <2>2 DEF IInv, ShapeInv, Node
<1> QED
  BY <1>2, <1>3

\* Two stems that share a path part below an inner node.
LEMMA ForkIsInner ==
    ASSUME Settled, NEW p \in Path, NEW s \in StemsAt(StoreView, p),
           NEW t \in StemsAt(StoreView, p), s # t
    PROVE  p \in inner
<1>1. PICK q \in DOMAIN leaf : leaf[q].stem = s
  BY StemsOfLeaves
<1>2. PICK r \in DOMAIN leaf : leaf[r].stem = t
  BY StemsOfLeaves
<1>3. p = Prefix(s, Len(p)) /\ p = Prefix(t, Len(p))
  BY StemsOfLeaves
<1> QED
  BY <1>1, <1>2, <1>3, LeafIsAlone DEF Settled

\* An inner node other than the root is such a fork.
LEMMA InnerIsFork ==
    ASSUME Settled, NEW p \in inner \ {Root}
    PROVE  \E s, t \in StemsAt(StoreView, p) : s # t
<1>1. PICK s \in StemsAround, t \in StemsAround :
        s # t /\ p = Prefix(s, Len(p)) /\ p = Prefix(t, Len(p))
  BY DEF Settled, CanonicalShape
<1>2. StemsAround = {leaf[q].stem : q \in DOMAIN leaf}
  BY DEF Settled, StemsAround
<1>3. s \in StemsAt(StoreView, p) /\ t \in StemsAt(StoreView, p)
  BY <1>1, <1>2, StemsOfLeaves
<1> QED
  BY <1>1, <1>3

\* The children of an inner node are those that have a stem below them.
LEMMA ChildrenOfStems ==
    ASSUME Settled, NEW p \in inner
    PROVE  ChildBytes(p) = {s[Len(p) + 1] : s \in StemsAt(StoreView, p)}
<1>1. p \in Path /\ Len(p) \in Nat /\ Len(p) < StemLen
  BY PathLen, TrieAssumption DEF Settled, IInv, TypeOK, DepthInBounds
<1>2. ASSUME NEW s \in StemsAt(StoreView, p)
      PROVE  s[Len(p) + 1] \in ChildBytes(p)
  <2>1. PICK q \in DOMAIN leaf : leaf[q].stem = s
    BY StemsOfLeaves
  <2>2. /\ q \in Path /\ Len(q) \in 0..StemLen /\ q = Prefix(s, Len(q)) /\ s \in Stem
        /\ q \notin inner /\ \A n \in 0..(Len(q) - 1) : Prefix(q, n) \in inner
    BY <2>1, PathLen DEF Settled, IInv, TypeOK, ShapeInv, Node, LeafNode
  <2>3. p = Prefix(s, Len(p)) /\ \A n \in 0..(Len(p) - 1) : Prefix(p, n) \in inner
    BY StemsOfLeaves DEF Settled, IInv, ShapeInv, Node
  <2>4. Len(q) > Len(p)
    <3>1. CASE Len(q) = Len(p)
      BY <2>2, <2>3, <3>1
    <3>2. CASE Len(q) < Len(p)
      <4>1. Prefix(p, Len(q)) = q
        BY <1>1, <2>2, <2>3, <3>2, PrefixOfPrefix
      <4> QED
        BY <1>1, <2>2, <2>3, <3>2, <4>1
    <3> QED
      BY <1>1, <2>2, <3>1, <3>2, TrieAssumption
  <2>5. Prefix(s, Len(p) + 1) \in Node
    <3>1. CASE Len(q) = Len(p) + 1
      BY <2>2, <3>1 DEF Node
    <3>2. CASE Len(q) > Len(p) + 1
      <4>1. Prefix(q, Len(p) + 1) = Prefix(s, Len(p) + 1)
        BY <1>1, <2>2, <3>2, PrefixOfPrefix, TrieAssumption
      <4> QED
        BY <1>1, <2>2, <3>2, <4>1, TrieAssumption DEF Node
    <3> QED
      BY <1>1, <2>2, <2>4, <3>1, <3>2, TrieAssumption
  <2>6. s[Len(p) + 1] \in Byte /\ Append(p, s[Len(p) + 1]) = Prefix(s, Len(p) + 1)
    <3>1. Len(p) \in 0..(StemLen - 1)
      BY <1>1, TrieAssumption
    <3> QED
      BY <2>2, <2>3, <3>1, AppendPrefix
  <2> QED
    BY <2>5, <2>6 DEF ChildBytes
<1>3. ASSUME NEW b \in ChildBytes(p)
      PROVE  \E s \in StemsAt(StoreView, p) : b = s[Len(p) + 1]
  <2> DEFINE c == Append(p, b)
  <2>1. b \in Byte /\ c \in Node /\ c \in Path /\ Len(c) \in 0..StemLen
    BY PathLen DEF ChildBytes, Settled, IInv, TypeOK, Node
  <2>2. \E s \in StemsAt(StoreView, c) : TRUE
    <3>1. CASE c \in DOMAIN leaf
      <4>1. leaf[c].stem \in StemsAt(StoreView, c)
        BY <3>1, StemsOfLeaves DEF Settled, IInv, ShapeInv
      <4> QED
        BY <4>1
    <3>2. CASE c \in inner
      <4>1. c # Root
        BY <1>1, PathLen DEF Root
      <4> QED
        BY <3>2, <4>1, InnerIsFork
    <3> QED
      BY <2>1, <3>1, <3>2 DEF Node
  <2>3. PICK s \in StemsAt(StoreView, c) : TRUE
    BY <2>2
  <2>4. s \in Stem /\ c = Prefix(s, Len(c))
    BY <2>3 DEF StemsAt
  <2>5. p = Prefix(s, Len(c) - 1) /\ b = s[Len(c)] /\ Len(p) = Len(c) - 1
    BY <1>1, <2>1, <2>4, ChildPrefix
  <2>6. s \in StemsAt(StoreView, p)
    BY <2>3, <2>5 DEF StemsAt
  <2>7. Len(c) = Len(p) + 1
    BY <1>1, <2>1, <2>5, TrieAssumption
  <2> QED
    BY <2>5, <2>6, <2>7
<1> QED
  BY <1>2, <1>3

\* When the root is clean, so is every node.
LEMMA AllClean ==
    ASSUME Settled, Root \in DOMAIN com, NEW p \in Node
    PROVE  p \in DOMAIN com
<1> DEFINE Dirty == {n \in 0..Len(p) : Prefix(p, n) \notin DOMAIN com}
<1>1. /\ p \in Path /\ Len(p) \in 0..StemLen /\ Len(p) \in Nat
      /\ p \in [1..Len(p) -> Byte] /\ Prefix(p, Len(p)) = p
      /\ \A n \in 0..(Len(p) - 1) : Prefix(p, n) \in inner
  BY PathLen, TrieAssumption DEF Settled, IInv, TypeOK, ShapeInv, Node, Prefix
<1>2. SUFFICES ASSUME p \notin DOMAIN com PROVE FALSE
  OBVIOUS
<1>3. Dirty \in SUBSET Nat /\ Dirty # {}
  BY <1>1, <1>2
<1>4. PICK n \in Dirty : \A m \in Dirty : n <= m
  BY <1>3, NatMin
<1>5. Prefix(p, 0) = Root
  BY DEF Prefix, Root
<1>6. n \in 0..Len(p) /\ n # 0 /\ Prefix(p, n) \notin DOMAIN com /\ n - 1 \in 0..(Len(p) - 1)
  BY <1>1, <1>4, <1>5
<1>7. Prefix(p, n - 1) \in DOMAIN com
  <2>1. n - 1 \notin Dirty
    BY <1>1, <1>4, <1>6
  <2> QED
    BY <1>1, <1>6, <2>1
<1> HIDE DEF Dirty
<1>8. Prefix(p, n - 1) \in inner /\ Prefix(p, n) \in Node
  BY <1>1, <1>6 DEF Node
<1>9. p[n] \in Byte /\ Append(Prefix(p, n - 1), p[n]) = Prefix(p, n)
  <2>1. n \in 1..Len(p) /\ p[n] \in Byte
    BY <1>1, <1>6
  <2>2. Prefix(p, n - 1) \in [1..(n - 1) -> Byte]
    BY <1>1, <1>6 DEF Prefix
  <2>3. Prefix(p, n - 1) \in Seq(Byte) /\ Len(Prefix(p, n - 1)) = n - 1
    BY <1>1, <1>6, <2>2
  <2>4. Append(Prefix(p, n - 1), p[n])
            = [i \in 1..n |-> IF i = n THEN p[n] ELSE Prefix(p, n - 1)[i]]
    BY <1>1, <1>6, <2>1, <2>3
  <2>5. \A i \in 1..n : (IF i = n THEN p[n] ELSE Prefix(p, n - 1)[i]) = p[i]
    BY <1>1, <1>6 DEF Prefix
  <2>6. Prefix(p, n) = [i \in 1..n |-> p[i]]
    BY DEF Prefix
  <2> QED
    BY <2>1, <2>4, <2>5, <2>6
<1>10. p[n] \in ChildBytes(Prefix(p, n - 1))
  BY <1>8, <1>9 DEF ChildBytes
<1> QED
  BY <1>6, <1>7, <1>8, <1>9, <1>10 DEF Settled, IInv, CacheFresh

\* The cached commitments of the inner nodes, and beside them those of the
\* leaves: what CanonicalTerm computes on a clean trie.
CleanTerm ==
    [p \in Path |->
        IF p \in inner THEN com[p]
        ELSE IF \E s \in Stem : StemsAt(StoreView, p) = {s}
        THEN CanonicalLeaf(StoreView, CHOOSE s \in Stem : StemsAt(StoreView, p) = {s})
        ELSE <<"inner", [b \in {} |-> b]>>]

\* The cached commitment of a child is the term of its path.
LEMMA ChildTerm ==
    ASSUME Settled, Root \in DOMAIN com, NEW c \in Node
    PROVE  com[c] = CleanTerm[c]
<1>1. c \in Path /\ c \in DOMAIN com
  BY AllClean DEF Settled, IInv, TypeOK, Node
<1>2. CASE c \in inner
  BY <1>1, <1>2 DEF CleanTerm
<1>3. CASE c \in DOMAIN leaf
  <2>1. c \notin inner /\ c = Prefix(leaf[c].stem, Len(c)) /\ leaf[c].stem \in Stem
    BY <1>3 DEF Settled, IInv, ShapeInv, TypeOK, LeafNode
  <2>2. \A s \in StemsAt(StoreView, c) : s = leaf[c].stem
    <3> SUFFICES ASSUME NEW s \in StemsAt(StoreView, c) PROVE s = leaf[c].stem
      OBVIOUS
    <3>1. PICK r \in DOMAIN leaf : leaf[r].stem = s
      BY StemsOfLeaves
    <3>2. c = Prefix(leaf[r].stem, Len(c))
      BY <3>1, StemsOfLeaves
    <3> QED
      BY <1>1, <1>3, <2>1, <3>1, <3>2, LeafIsAlone DEF Settled
  <2>3. leaf[c].stem \in StemsAt(StoreView, c)
    BY <1>3, <2>1, StemsOfLeaves
  <2>4. StemsAt(StoreView, c) = {leaf[c].stem}
    BY <2>2, <2>3
  <2>5. (CHOOSE s \in Stem : StemsAt(StoreView, c) = {s}) = leaf[c].stem
    BY <2>1, <2>4
  <2>6. CleanTerm[c] = CanonicalLeaf(StoreView, leaf[c].stem)
    BY <1>1, <2>1, <2>4, <2>5 DEF CleanTerm
  <2> QED
    BY <1>1, <1>3, <2>6, LeafIsCanonical DEF Settled, IInv, CacheFresh
<1> QED
  BY <1>2, <1>3 DEF Node

LEMMA CleanTermIsTerm ==
    ASSUME Settled, Root \in DOMAIN com, Root \in inner
    PROVE  IsTerm(StoreView, CleanTerm)
<1> DEFINE Heads(p) == {s[Len(p) + 1] : s \in StemsAt(StoreView, p)}
           Single(p) == \E s \in Stem : StemsAt(StoreView, p) = {s}
           Leaf(p) == CanonicalLeaf(StoreView, CHOOSE s \in Stem : StemsAt(StoreView, p) = {s})
           Term(p) == IF p # Root /\ Single(p) THEN Leaf(p)
                      ELSE <<"inner", [b \in Heads(p) |-> CleanTerm[Append(p, b)]]>>
<1>1. ASSUME NEW p \in Path PROVE CleanTerm[p] = Term(p)
  <2>1. CleanTerm[p] = IF p \in inner THEN com[p] ELSE
                       IF Single(p) THEN Leaf(p) ELSE <<"inner", [b \in {} |-> b]>>
    BY DEF CleanTerm
  <2>2. CASE p \in inner
    <3>1. ~ (p # Root /\ Single(p))
      BY <2>2, InnerIsFork
    <3>2. p \in DOMAIN com /\ com[p] = InnerTerm(p)
      BY <2>2, AllClean DEF Settled, IInv, CacheFresh, Node
    <3>3. ChildBytes(p) = Heads(p)
      BY <2>2, ChildrenOfStems
    <3>4. \A b \in ChildBytes(p) : com[Append(p, b)] = CleanTerm[Append(p, b)]
      BY ChildTerm DEF ChildBytes
    <3> HIDE DEF Heads, Single, Leaf
    <3>5. com[p] = <<"inner", [b \in Heads(p) |-> CleanTerm[Append(p, b)]]>>
      BY <3>2, <3>3, <3>4 DEF InnerTerm
    <3> QED
      BY <2>1, <2>2, <3>1, <3>5
  <2>3. CASE p \notin inner /\ Single(p)
    BY <2>1, <2>3
  <2>4. CASE p \notin inner /\ ~ Single(p)
    <3>1. StemsAt(StoreView, p) = {}
      <4> SUFFICES ASSUME NEW s \in StemsAt(StoreView, p) PROVE FALSE
        OBVIOUS
      <4>1. s \in Stem
        BY DEF StemsAt
      <4> QED
        BY <2>4, <4>1, ForkIsInner
    <3>2. Heads(p) = {}
      BY <3>1
    <3> HIDE DEF Heads, Single, Leaf
    <3>3. [b \in Heads(p) |-> CleanTerm[Append(p, b)]] = [b \in {} |-> b]
      BY <3>2
    <3> QED
      BY <2>1, <2>4, <3>3
  <2> QED
    BY <2>2, <2>3, <2>4
<1>2. CleanTerm = [p \in Path |-> CleanTerm[p]]
  BY DEF CleanTerm
<1> HIDE DEF Term
<1>3. CleanTerm = [p \in Path |-> Term(p)]
  BY <1>1, <1>2
<1> QED
  BY <1>3 DEF Term, IsTerm

\* Trie.Commit returns the commitment that the definition of a Verkle trie
\* gives of the content alone, whatever the writes and commits before it.
THEOREM CommitCorrect == Spec => []CommitIsCanonical
<1>1. IInv /\ FilledInv /\ CanonicalShape => CommitIsCanonical
  <2> SUFFICES ASSUME IInv, FilledInv, CanonicalShape, call = Idle, Root \in DOMAIN com
               PROVE  com[Root] = CanonicalTerm(StoreView)[Root]
    BY DEF CommitIsCanonical
  <2>1. Settled
    BY DEF Settled, Idle
  <2>2. Root \in inner /\ Root \in Path
    BY DEF IInv, TypeOK, ShapeInv, Node
  <2>3. CanonicalTerm(StoreView) = CleanTerm
    BY <2>1, <2>2, CleanTermIsTerm, TermIs
  <2> QED
    BY <2>2, <2>3 DEF CleanTerm
<1> QED
  BY <1>1, Invariance, FilledInvariance, CanonicalCorrect, PTL

-----------------------------------------------------------------------------
(* Calls end.  That a step which can be taken is taken in the end is for   *)
(* the fairness of Spec; here is why the steps of a call come to an end,   *)
(* and why there is always one until it does.                              *)

\* A trie has finitely many nodes, and a root while a call runs.
FiniteInv ==
    /\ IsFiniteSet(inner) /\ IsFiniteSet(DOMAIN leaf)
    /\ call # Idle => Root \in inner

LEMMA FiniteNext ==
    ASSUME FiniteInv, [Next]_vars
    PROVE  FiniteInv'
<1>1. CASE \E k \in Key, v \in Value : Set(k, v)
  <2>1. inner' = inner \cup {Root} /\ leaf' = leaf
    BY <1>1 DEF Set
  <2> QED
    BY <2>1, FS_AddElement DEF FiniteInv
<1>2. CASE InnerSet
  <2> DEFINE next == Prefix(call.key.stem, call.depth + 1)
             fresh == {next} \ Node
  <2>1. inner' = inner /\ DOMAIN leaf' = DOMAIN leaf \cup fresh /\ call # Idle
    BY <1>2 DEF InnerSet, Idle
  <2>2. fresh = {} \/ fresh = {next}
    OBVIOUS
  <2>3. IsFiniteSet(DOMAIN leaf \cup {next})
    BY FS_AddElement DEF FiniteInv
  <2>4. DOMAIN leaf \cup {} = DOMAIN leaf
    OBVIOUS
  <2> HIDE DEF next, fresh
  <2>5. IsFiniteSet(DOMAIN leaf')
    BY <2>1, <2>2, <2>3, <2>4 DEF FiniteInv
  <2> QED
    BY <2>1, <2>5 DEF FiniteInv
<1>3. CASE LeafSet
  <2>1. inner' = inner /\ DOMAIN leaf' = DOMAIN leaf /\ call # Idle
    BY <1>3 DEF LeafSet, Idle
  <2> QED
    BY <2>1 DEF FiniteInv
<1>4. CASE LeafSplit
  <2>1. /\ inner' = inner \cup {At} /\ call # Idle
        /\ DOMAIN leaf' = (DOMAIN leaf \ {At}) \cup {SplitPath(At)}
    BY <1>4 DEF LeafSplit, Moved, Idle
  <2>2. IsFiniteSet(inner')
    BY <2>1, FS_AddElement DEF FiniteInv
  <2>3. IsFiniteSet(DOMAIN leaf \ {At})
    BY FS_RemoveElement DEF FiniteInv
  <2>4. IsFiniteSet(DOMAIN leaf')
    BY <2>1, <2>3, FS_AddElement
  <2> QED
    BY <2>1, <2>2, <2>4 DEF FiniteInv
<1>5. CASE Commit \/ CommitReturn
  BY <1>5 DEF Commit, CommitReturn, FiniteInv, Idle
<1>6. CASE \E p \in DOMAIN leaf : CommitLeaf(p)
  BY <1>6 DEF CommitLeaf, FiniteInv
<1>7. CASE \E p \in inner : CommitInner(p)
  BY <1>7 DEF CommitInner, FiniteInv
<1>8. CASE UNCHANGED vars
  BY <1>8 DEF vars, FiniteInv
<1> QED
  BY <1>1, <1>2, <1>3, <1>4, <1>5, <1>6, <1>7, <1>8 DEF Next, Step

LEMMA FiniteInvariance == Spec => []FiniteInv
<1>1. Init => FiniteInv
  <2>1. Init => inner = {} /\ DOMAIN leaf = {} /\ call = Idle
    BY DEF Init
  <2> QED
    BY <2>1, FS_EmptySet DEF FiniteInv
<1>2. FiniteInv /\ [Next]_vars => FiniteInv'
  BY FiniteNext
<1> QED
  BY <1>1, <1>2, PTL DEF Spec

\* What a call has still to do, at most: a set, two steps for each byte of
\* the stem below, the split and the step down; a commit, one for each node
\* that is not clean, and the return.
Work ==
    IF call.op = "set"
    THEN 2 * (StemLen - call.depth) + (IF At \in inner THEN 0 ELSE 1)
    ELSE IF call.op = "commit" THEN 1 + Cardinality(Node \ DOMAIN com) ELSE 0

LEMMA WorkType ==
    ASSUME TypeOK, FiniteInv
    PROVE  /\ Work \in Nat
           /\ IsFiniteSet(Node \ DOMAIN com) /\ Cardinality(Node \ DOMAIN com) \in Nat
<1>1. IsFiniteSet(Node \ DOMAIN com)
  BY FS_Union, FS_Difference DEF FiniteInv, Node
<1>2. Cardinality(Node \ DOMAIN com) \in Nat
  BY <1>1, FS_CardinalityType
<1>3. CASE call.op = "set"
  <2>1. call.depth \in 0 .. StemLen
    BY <1>3, SetFacts
  <2>2. StemLen - call.depth \in Nat
    BY <2>1, TrieAssumption
  <2> QED
    BY <1>1, <1>2, <1>3, <2>2 DEF Work
<1>4. CASE call.op # "set"
  BY <1>1, <1>2, <1>4 DEF Work
<1> QED
  BY <1>3, <1>4

\* A node becomes clean.
LEMMA OneClean ==
    ASSUME TypeOK, FiniteInv, NEW p \in Node \ DOMAIN com, NEW c, com' = Cached(p, c),
           call.op = "commit", UNCHANGED <<inner, leaf, call>>
    PROVE  Work' < Work
<1> DEFINE dirty == Node \ DOMAIN com
<1>1. IsFiniteSet(dirty) /\ Cardinality(dirty) \in Nat
  BY WorkType
<1>2. (Node \ DOMAIN com)' = dirty \ {p}
  BY DEF Cached, Node
<1>3. Cardinality(dirty \ {p}) = Cardinality(dirty) - 1
  BY <1>1, FS_RemoveElement
<1>4. Work' = 1 + Cardinality(dirty \ {p}) /\ Work = 1 + Cardinality(dirty)
  BY <1>2 DEF Work
<1> QED
  BY <1>1, <1>3, <1>4

LEMMA StepWorks ==
    ASSUME IInv, FiniteInv, Step
    PROVE  Work' < Work
<1>1. TypeOK /\ ShapeInv /\ StemLen \in Nat
  BY TrieAssumption DEF IInv
<1>2. ASSUME call.op = "set" PROVE call.depth \in 0 .. StemLen
  BY <1>1, <1>2, SetFacts
<1>3. CASE InnerSet
  <2>1. /\ call.op = "set" /\ At \in inner /\ call' = [call EXCEPT !.depth = @ + 1]
    BY <1>3 DEF InnerSet
  <2>2. call'.op = "set" /\ call'.depth = call.depth + 1
    BY <1>1, <2>1 DEF TypeOK, Call, Idle
  <2>3. Work = 2 * (StemLen - call.depth)
    BY <1>1, <1>2, <2>1 DEF Work
  <2>4. Work' \in {2 * (StemLen - (call.depth + 1)), 2 * (StemLen - (call.depth + 1)) + 1}
    <3>1. Work' = 2 * (StemLen - call'.depth) + (IF At' \in inner' THEN 0 ELSE 1)
      BY <2>2 DEF Work
    <3> QED
      BY <1>1, <1>2, <2>1, <2>2, <3>1
  <2> QED
    BY <1>1, <1>2, <2>1, <2>3, <2>4
<1>4. CASE LeafSet
  <2>1. call.op = "set" /\ At \in DOMAIN leaf /\ call' = Idle
    BY <1>4 DEF LeafSet
  <2>2. At \notin inner
    BY <1>1, <2>1 DEF ShapeInv
  <2>3. Work = 2 * (StemLen - call.depth) + 1
    BY <2>1, <2>2 DEF Work
  <2>4. Work' = 0
    BY <2>1 DEF Work, Idle
  <2> QED
    BY <1>1, <1>2, <2>1, <2>3, <2>4
<1>5. CASE LeafSplit
  <2>1. /\ call.op = "set" /\ At \in DOMAIN leaf /\ call' = call /\ inner' = inner \cup {At}
    BY <1>5 DEF LeafSplit
  <2>2. At \notin inner
    BY <1>1, <2>1 DEF ShapeInv
  <2>3. At' = At /\ At' \in inner'
    BY <2>1 DEF At
  <2>4. Work = 2 * (StemLen - call.depth) + 1
    BY <2>1, <2>2 DEF Work
  <2>5. Work' = 2 * (StemLen - call.depth) + 0
    BY <2>1, <2>3 DEF Work
  <2> QED
    BY <1>1, <1>2, <2>1, <2>4, <2>5
<1>6. CASE \E p \in DOMAIN leaf : CommitLeaf(p)
  BY <1>1, <1>6, OneClean DEF CommitLeaf, Node
<1>7. CASE \E p \in inner : CommitInner(p)
  BY <1>1, <1>7, OneClean DEF CommitInner, Node
<1>8. CASE CommitReturn
  <2>1. Work = 1 + Cardinality(Node \ DOMAIN com)
    BY <1>8 DEF CommitReturn, Work
  <2>2. Work' = 0
    BY <1>8 DEF CommitReturn, Work, Idle
  <2> QED
    BY <1>1, <2>1, <2>2, WorkType
<1> QED
  BY <1>3, <1>4, <1>5, <1>6, <1>7, <1>8 DEF Step

\* set and commit are bounded: every step of a call leaves less to do, so
\* that neither the recursion of leaf.set into the inner node it has made
\* nor that of commit into the children goes on for ever.
THEOREM CallsAreBounded == Spec => [](Work \in Nat) /\ [][Step => Work' < Work]_vars
<1>1. IInv /\ FiniteInv => Work \in Nat
  BY WorkType DEF IInv
<1>2. IInv /\ FiniteInv /\ [Next]_vars => [Step => Work' < Work]_vars
  BY StepWorks
<1> QED
  BY <1>1, <1>2, Invariance, FiniteInvariance, PTL DEF Spec

\* Where the call stands there is something to do: a node to run set on, a
\* node whose children are clean, or a root that is.
CanGoOn ==
    \/ call.op = "set" /\ At \in Node
    \/ call.op = "commit" /\
        \/ Root \in DOMAIN com
        \/ \E p \in DOMAIN leaf \ DOMAIN com : Reached(p)
        \/ \E p \in inner \ DOMAIN com :
            Reached(p) /\ \A b \in ChildBytes(p) : Append(p, b) \in DOMAIN com

\* The deepest of the nodes a commit has reached and not done can be done.
LEMMA CommitGoesOn ==
    ASSUME IInv, FiniteInv, call.op = "commit", Root \notin DOMAIN com
    PROVE  CanGoOn
<1> DEFINE Open == {p \in Node \ DOMAIN com : Reached(p)}
           Depths == {StemLen - Len(p) : p \in Open}
<1>1. \A p \in Node : p \in Path /\ Len(p) \in Nat /\ StemLen - Len(p) \in Nat
  BY PathLen, TrieAssumption DEF IInv, TypeOK, Node
<1>2. Root \in Open
  <2>1. Root \in Node /\ Reached(Root)
    BY DEF FiniteInv, Idle, Node, Reached, Root
  <2> QED
    BY <2>1
<1>3. Depths \in SUBSET Nat /\ Depths # {}
  BY <1>1, <1>2
<1>4. PICK d \in Depths : \A e \in Depths : d <= e
  BY <1>3, NatMin
<1>5. PICK p \in Open : d = StemLen - Len(p)
  OBVIOUS
<1>6. p \in Node \ DOMAIN com /\ Reached(p)
  OBVIOUS
<1>7. CASE p \in DOMAIN leaf
  BY <1>6, <1>7 DEF CanGoOn
<1>8. CASE p \in inner
  <2> SUFFICES ASSUME NEW b \in ChildBytes(p), Append(p, b) \notin DOMAIN com PROVE FALSE
    BY <1>6, <1>8 DEF CanGoOn
  <2> DEFINE q == Append(p, b)
  <2>1. p \in Seq(Byte) /\ b \in Byte /\ q \in Node /\ Len(p) \in Nat
    BY <1>1, <1>6, PathLen DEF ChildBytes
  <2>2. Len(q) = Len(p) + 1
    BY <2>1
  <2>3. Reached(q)
    <3> SUFFICES ASSUME NEW n \in 0 .. (Len(q) - 1) PROVE Prefix(q, n) \notin DOMAIN com
      BY DEF Reached
    <3>1. n \in 0 .. Len(p)
      BY <2>1, <2>2
    <3>2. Prefix(q, n) = Prefix(p, n)
      BY <2>1, <3>1 DEF Prefix
    <3>3. CASE n = Len(p)
      <4>1. Prefix(p, Len(p)) = p
        BY <2>1 DEF Prefix
      <4> QED
        BY <1>6, <3>2, <3>3, <4>1
    <3>4. CASE n # Len(p)
      BY <1>6, <2>1, <3>1, <3>2, <3>4 DEF Reached
    <3> QED
      BY <3>3, <3>4
  <2>4. StemLen - Len(q) \in Depths
    BY <2>1, <2>3
  <2>5. d <= StemLen - Len(q)
    BY <1>4, <2>4
  <2> QED
    BY <1>1, <1>5, <1>6, <2>1, <2>2, <2>5, TrieAssumption
<1> QED
  BY <1>6, <1>7, <1>8 DEF Node

\* No call is ever stuck: until it returns, one of its steps can be taken.
THEOREM CallsGoOn == Spec => [](call # Idle => CanGoOn)
<1>1. IInv /\ FiniteInv => (call # Idle => CanGoOn)
  <2> SUFFICES ASSUME IInv, FiniteInv, call # Idle PROVE CanGoOn
    OBVIOUS
  <2>1. call.op = "set" \/ call.op = "commit"
    BY DEF IInv, TypeOK, Call
  <2>2. CASE call.op = "set"
    BY <2>2 DEF IInv, DescentInv, CanGoOn
  <2>3. CASE call.op = "commit"
    <3>1. CASE Root \in DOMAIN com
      BY <2>3, <3>1 DEF CanGoOn
    <3> QED
      BY <2>3, <3>1, CommitGoesOn
  <2> QED
    BY <2>1, <2>2, <2>3
<1> QED
  BY <1>1, Invariance, FiniteInvariance, PTL
=============================================================================
