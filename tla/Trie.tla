-------------------------------- MODULE Trie --------------------------------
(***************************************************************************)
(* The in-memory Verkle trie: memory/trie/trie.go and memory/trie/nodes.go. *)
(*                                                                         *)
(* A node is identified by its path, the sequence of key bytes that leads  *)
(* to it from the root.  An inner node is just a member of the set inner:  *)
(* its children are the nodes one byte further.  A leaf keeps its stem,    *)
(* its values and the bitmap of used suffixes.                             *)
(*                                                                         *)
(* The pair (commitment, commitmentClean) of a node is one entry of com:   *)
(* DOMAIN com is the set of nodes whose commitmentClean flag is true, and  *)
(* com[p] the cached commitment, which the code never reads otherwise.  A  *)
(* Pedersen commitment is taken to be binding, so it is represented by the *)
(* vector it commits to.                                                   *)
(*                                                                         *)
(* The recursive calls set(key, depth, value) and commit() run one frame   *)
(* per step; call holds the one in progress.  The code is sequential: no   *)
(* call starts before the previous one returned.                           *)
(***************************************************************************)
EXTENDS Naturals, Sequences, Functions

CONSTANTS
    Byte,      \* what one position of a stem can hold (0..255)
    StemLen,   \* the number of bytes of a stem (31)
    Stem,      \* the stems in use
    Suffix,    \* the last byte of a key, the index into a leaf (0..255)
    Value,     \* the values that can be stored
    Zero,      \* the all-zero value
    Unset      \* marks a key that was never set

ASSUME TrieAssumption ==
    /\ StemLen \in Nat \ {0}
    /\ Stem \subseteq [1..StemLen -> Byte]
    /\ Zero \in Value
    /\ Unset \notin Value

VARIABLES
    inner,   \* the paths of the inner nodes; trie.root is nil while it is empty
    leaf,    \* path -> leaf node
    com,     \* path -> cached commitment, for the nodes that are clean
    call     \* the call in progress

vars == <<inner, leaf, com, call>>

Key == [stem : Stem, suffix : Suffix]

\* The path made of the first n bytes of a stem.
Prefix(s, n) == [i \in 1..n |-> s[i]]

Root == <<>>

Node == inner \cup DOMAIN leaf

Idle == [op |-> "idle"]

-----------------------------------------------------------------------------
(* Reading: Trie.Get, inner.get, leaf.get.                                 *)

\* The depth at which a descent towards stem s leaves the inner nodes.
Descent(s) ==
    CHOOSE d \in 0..StemLen :
        /\ Prefix(s, d) \notin inner
        /\ \A e \in 0..(d - 1) : Prefix(s, e) \in inner

Find(s) == Prefix(s, Descent(s))

\* leaf.get compares the stem of the leaf it reached with the key's.
Holds(s) == Find(s) \in DOMAIN leaf /\ leaf[Find(s)].stem = s

\* Variant of Get that takes the leaf it reached for the key's leaf.
GetUnchecked(k) ==
    IF Find(k.stem) \in DOMAIN leaf
    THEN leaf[Find(k.stem)].values[k.suffix] ELSE Zero

\* Trie.Get: a key without a leaf reads as the zero value.
Get(k) == IF Holds(k.stem) THEN leaf[Find(k.stem)].values[k.suffix] ELSE Zero

\* Whether key k was ever set: leaf.isUsed on the leaf that holds it.
isUsed(k) == Holds(k.stem) /\ k.suffix \in leaf[Find(k.stem)].used

\* The content of the trie as a map: what KVStore calls store.
StoreView == [k \in Key |-> IF isUsed(k) THEN Get(k) ELSE Unset]

-----------------------------------------------------------------------------
(* Writing: Trie.Set, inner.set, leaf.set.                                 *)

newLeaf(s) == [stem |-> s, values |-> [x \in Suffix |-> Zero], used |-> {}]

Init ==
    /\ inner = {}
    /\ leaf = [p \in {} |-> newLeaf(p)]
    /\ com = [p \in {} |-> p]
    /\ call = Idle

\* The path of the node whose set method is running.
At == Prefix(call.key.stem, call.depth)

\* Trie.Set creates the root, an inner node, on the first call.
Set(k, v) ==
    /\ call = Idle
    /\ inner' = inner \cup {Root}
    /\ call' = [op |-> "set", key |-> k, value |-> v, depth |-> 0]
    /\ UNCHANGED <<leaf, com>>

\* Variant of Dirtied that forgets commitmentClean = false.
DirtiedNot(p) == com

\* The cache without the commitment of node p: commitmentClean = false.
Dirtied(p) == Restrict(com, DOMAIN com \ {p})

\* Variant of InnerSet that passes depth on unchanged.
InnerSetStuck ==
    /\ call.op = "set"
    /\ At \in inner
    /\ com' = Dirtied(At)
    /\ UNCHANGED <<inner, leaf, call>>

\* Variant of InnerSet that hangs an inner node where there is no child.
InnerSetChain ==
    /\ call.op = "set"
    /\ At \in inner
    /\ LET next == Prefix(call.key.stem, call.depth + 1) IN
        inner' = inner \cup ({next} \ Node)
    /\ com' = Dirtied(At)
    /\ call' = [call EXCEPT !.depth = @ + 1]
    /\ UNCHANGED leaf

\* inner.set: invalidate, create a leaf where there is no child, recurse.
InnerSet ==
    /\ call.op = "set"
    /\ At \in inner
    /\ LET next == Prefix(call.key.stem, call.depth + 1) IN
        leaf' = [p \in DOMAIN leaf \cup ({next} \ Node) |->
                    IF p \in DOMAIN leaf THEN leaf[p]
                                         ELSE newLeaf(call.key.stem)]
    /\ com' = Dirtied(At)
    /\ call' = [call EXCEPT !.depth = @ + 1]
    /\ UNCHANGED inner

\* Variant of Written that sets the bit after the suffix's.
WrittenNextBit(l, x, v) ==
    [l EXCEPT !.values = [@ EXCEPT ![x] = v], !.used = @ \cup {x + 1}]

\* The leaf l after values[x] = v and the x-th bit of used was set.
Written(l, x, v) ==
    [l EXCEPT !.values = [@ EXCEPT ![x] = v], !.used = @ \cup {x}]

\* leaf.set on the leaf with the key's stem: the write itself.
LeafSet ==
    /\ call.op = "set"
    /\ At \in DOMAIN leaf
    /\ leaf[At].stem = call.key.stem
    /\ leaf' = [leaf EXCEPT ![At] = Written(@, call.key.suffix, call.value)]
    /\ com' = Dirtied(At)
    /\ call' = Idle
    /\ UNCHANGED inner

\* Where leaf.set puts the leaf at path p when it splits it.
SplitPath(p) == Prefix(leaf[p].stem, call.depth + 1)

\* Variant of Moved: the fresh inner node does not adopt the entry.
MovedNowhere(f, p, q) == Restrict(f, DOMAIN f \ {p})

\* A map over paths after the entry of p, if there is one, moved to q.
Moved(f, p, q) ==
    IF p \in DOMAIN f
    THEN [r \in (DOMAIN f \ {p}) \cup {q} |-> IF r = q THEN f[p] ELSE f[r]]
    ELSE f

\* leaf.set on a leaf with another stem: a fresh inner node takes the
\* leaf's place, adopts it one byte further, and runs set itself.  The leaf
\* takes its cached commitment along.
LeafSplit ==
    /\ call.op = "set"
    /\ At \in DOMAIN leaf
    /\ leaf[At].stem # call.key.stem
    /\ inner' = inner \cup {At}
    /\ leaf' = Moved(leaf, At, SplitPath(At))
    /\ com' = Moved(com, At, SplitPath(At))
    /\ UNCHANGED call

-----------------------------------------------------------------------------
(* Committing: Trie.Commit, inner.commit, leaf.commit.                     *)
(*                                                                         *)
(* The code commits the children of a node by index.  Here siblings are    *)
(* committed in any order, and a node may become clean in between: what a  *)
(* commit leaves behind does not depend on it.  The two halves of a leaf   *)
(* (C1, C2) and the two limbs of a value are the layout of one vector.     *)

\* Variant of LeafTerm that marks the values that are not zero.
LeafTermNonZero(l) ==
    <<"leaf", l.stem, [x \in Suffix |-> <<l.values[x], l.values[x] # Zero>>]>>

\* The vector a leaf commits to: its stem, and each value with its marker.
LeafTerm(l) ==
    <<"leaf", l.stem, [x \in Suffix |-> <<l.values[x], x \in l.used>>]>>

ChildBytes(p) == {b \in Byte : Append(p, b) \in Node}

\* The vector an inner node commits to: the commitment of each child, zero
\* (here: no entry) where there is none.
InnerTerm(p) == <<"inner", [b \in ChildBytes(p) |-> com[Append(p, b)]]>>

\* commit() only descends into the children of nodes that are not clean.
Reached(p) == \A n \in 0..(Len(p) - 1) : Prefix(p, n) \notin DOMAIN com

\* Trie.Commit; on a nil root it returns the identity and changes nothing.
Commit ==
    /\ call = Idle
    /\ Root \in inner
    /\ call' = [op |-> "commit"]
    /\ UNCHANGED <<inner, leaf, com>>

\* The cache after commitment = c, commitmentClean = true on node p.
Cached(p, c) == [q \in DOMAIN com \cup {p} |-> IF q = p THEN c ELSE com[q]]

\* leaf.commit on a leaf that is not clean.
CommitLeaf(p) ==
    /\ call.op = "commit"
    /\ p \in DOMAIN leaf \ DOMAIN com
    /\ Reached(p)
    /\ com' = Cached(p, LeafTerm(leaf[p]))
    /\ UNCHANGED <<inner, leaf, call>>

\* inner.commit on a node that is not clean, after its children's commits.
CommitInner(p) ==
    /\ call.op = "commit"
    /\ p \in inner \ DOMAIN com
    /\ Reached(p)
    /\ \A b \in ChildBytes(p) : Append(p, b) \in DOMAIN com
    /\ com' = Cached(p, InnerTerm(p))
    /\ UNCHANGED <<inner, leaf, call>>

\* The root was clean, or has become it: Trie.Commit returns com[Root].
CommitReturn ==
    /\ call.op = "commit"
    /\ Root \in DOMAIN com
    /\ call' = Idle
    /\ UNCHANGED <<inner, leaf, com>>

-----------------------------------------------------------------------------

\* One step of the call in progress.
Step ==
    \/ InnerSet
    \/ LeafSet
    \/ LeafSplit
    \/ \E p \in DOMAIN leaf : CommitLeaf(p)
    \/ \E p \in inner : CommitInner(p)
    \/ CommitReturn

Next == (\E k \in Key, v \in Value : Set(k, v)) \/ Commit \/ Step

\* A call that was started runs to its end.
Spec == Init /\ [][Next]_vars /\ WF_vars(Step)

-----------------------------------------------------------------------------
(* Properties.                                                             *)

Path == UNION {[1..n -> Byte] : n \in 0..StemLen}

LeafNode == [stem : Stem, values : [Suffix -> Value], used : SUBSET Suffix]

Call ==
    {Idle, [op |-> "commit"]} \cup
    [op : {"set"}, key : Key, value : Value, depth : 0..StemLen]

\* Types: nodes sit at paths of at most StemLen bytes, only allocated nodes
\* have a cached commitment.
TypeOK ==
    /\ inner \subseteq Path
    /\ DOMAIN leaf \subseteq Path
    /\ \A p \in DOMAIN leaf : leaf[p] \in LeafNode
    /\ DOMAIN com \subseteq Node
    /\ call \in Call

\* The shape of the trie: a path holds one node; the path of a leaf is a
\* prefix of its stem; every node hangs off inner nodes up to the root.
\* Together these say that a stem has one leaf and that descents find it.
ShapeInv ==
    /\ inner \cap DOMAIN leaf = {}
    /\ Root \notin DOMAIN leaf
    /\ \A p \in DOMAIN leaf : p = Prefix(leaf[p].stem, Len(p))
    /\ \A p \in Node : \A n \in 0..(Len(p) - 1) : Prefix(p, n) \in inner

\* nodes.go indexes key[depth] and l.stem[depth] without a bounds check.  A
\* descent ends before it runs out of stem bytes: no inner node is as deep
\* as a stem is long, and a leaf that has to be split is not either.
DepthInBounds ==
    /\ \A p \in inner : Len(p) < StemLen
    /\ call.op = "set" /\ At \in DOMAIN leaf =>
            leaf[At].stem = call.key.stem \/ call.depth < StemLen

\* While a set descends, it runs on a node, and the inner nodes it came
\* through have no valid commitment any more: the commitments above a write
\* are invalid before the write happens.
DescentInv ==
    call.op = "set" =>
        /\ At \in Node
        /\ \A n \in 0..(call.depth - 1) :
                Prefix(call.key.stem, n) \in inner \ DOMAIN com

\* The stems the trie holds, with the one that is being inserted.
StemsAround ==
    {leaf[p].stem : p \in DOMAIN leaf} \cup
    (IF call.op = "set" THEN {call.key.stem} ELSE {})

\* Whatever the order of the writes, inner nodes other than the root sit
\* exactly where two stems share a path: there is no chain of inner nodes
\* left over from a split, so equal contents have equal shapes.
CanonicalShape ==
    \A p \in inner \ {Root} :
        \E s, t \in StemsAround :
            s # t /\ p = Prefix(s, Len(p)) /\ p = Prefix(t, Len(p))

\* A cached commitment that will be served is the one recomputation would
\* give: below a clean node everything is clean, and its commitment is that
\* of the values, or of the children, it has now.
CacheFresh ==
    /\ \A p \in DOMAIN com \cap DOMAIN leaf : com[p] = LeafTerm(leaf[p])
    /\ \A p \in DOMAIN com \cap inner :
        /\ \A b \in ChildBytes(p) : Append(p, b) \in DOMAIN com
        /\ com[p] = InnerTerm(p)

\* The stems below path p of which a key is set in the content st.
StemsAt(st, p) ==
    {s \in Stem :
        /\ p = Prefix(s, Len(p))
        /\ \E x \in Suffix : st[[stem |-> s, suffix |-> x]] # Unset}

CanonicalLeaf(st, s) ==
    <<"leaf", s,
      [x \in Suffix |->
        IF st[[stem |-> s, suffix |-> x]] = Unset
        THEN <<Zero, FALSE>> ELSE <<st[[stem |-> s, suffix |-> x]], TRUE>>]>>

\* For each path the commitment of what st holds below it, as the definition
\* of a Verkle trie gives it from the content alone: that of a leaf where a
\* single stem is left below the root, else that of an inner node.
CanonicalTerm(st) ==
    LET term[p \in Path] ==
            IF p # Root /\ \E s \in Stem : StemsAt(st, p) = {s}
            THEN CanonicalLeaf(st, CHOOSE s \in Stem : StemsAt(st, p) = {s})
            ELSE <<"inner", [b \in {s[Len(p) + 1] : s \in StemsAt(st, p)} |->
                                term[Append(p, b)]]>>
    IN  term

\* Trie.Commit returns a function of the content: the order of the writes,
\* the splits on the way and the commits in between leave no trace in it.
CommitIsCanonical ==
    call = Idle /\ Root \in DOMAIN com => com[Root] = CanonicalTerm(StoreView)[Root]

\* trie.go: "All keys that have not been set will return the zero value",
\* those included whose descent ends at the leaf of another stem.
UnsetReadsZero == \A k \in Key : isUsed(k) \/ Get(k) = Zero

\* Every call returns: the recursion of set and commit is bounded.
CallsReturn == call # Idle ~> call = Idle

\* The trie is the map it promises to be: only the last step of a Set
\* changes what can be read, and only for the key that is set.
KV == INSTANCE KVStore WITH store <- StoreView

RefinesKVStore == KV!Spec
=============================================================================
