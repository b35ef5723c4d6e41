---------------------------- MODULE SnapshotSync ----------------------------
(***************************************************************************)
(* A state that is copied to another node: CreateSnapshot on one side,     *)
(* GetSnapshotVerifier and Restore on the other (memory/state.go).         *)
(*                                                                         *)
(* The receiver is given snapshot data, backend.SnapshotData, by whatever  *)
(* transports it: what arrives may be cut short, may have been changed, or *)
(* may be of another block than the one before.                            *)
(*                                                                         *)
(* A trie is the map from keys to values of KVStore, and a commitment is   *)
(* this map.  Snapshot data has a commitment in its metadata and in its    *)
(* proof, and one part: a sequence of the number of entries and the        *)
(* entries; what is shorter than the number alone is the empty sequence.   *)
(* There is no part but part 0 that anybody asks for.                      *)
(***************************************************************************)
EXTENDS Naturals, FiniteSets, SequencesExt

CONSTANTS
    Key,          \* the keys in use
    SampledKey,   \* those that serializeTrie looks at
    Value,        \* the values that are stored, Zero among them
    Zero,
    Unset,        \* marks a key that was never set
    Writes,       \* the <<key, value>> that the sending side sets
    Before,       \* the contents the receiving side may have at first
    Garbled,      \* a commitment of nothing
    TooShort,     \* metadata of less than 32 bytes
    MaxServed     \* bound: how many contents a snapshot is taken of

Content == [Key -> Value \cup {Unset}]

ASSUME SyncAssumption ==
    /\ SampledKey \subseteq Key /\ IsFiniteSet(SampledKey)
    /\ Zero \in Value /\ Unset \notin Value
    /\ Writes \subseteq Key \X Value
    /\ Before \subseteq Content
    /\ Garbled \notin Content /\ TooShort \notin Content
    /\ Garbled # TooShort
    /\ MaxServed \in Nat

VARIABLES
    source,      \* the trie of the sending state
    served,      \* history: the contents snapshots were taken of
    offer,       \* the snapshot data the receiver was given last, as a set
    verifier,    \* vtSnapshotVerifier.expectedCommitment, as a set
    target       \* the trie of the receiving state

vars == <<source, served, offer, verifier, target>>

Empty == [k \in Key |-> Unset]

-----------------------------------------------------------------------------
(* Snapshot data.                                                          *)

\* The entries of the sampled keys whose values are not zero.
Entries(c) ==
    {<<k, c[k]>> : k \in {x \in SampledKey : c[x] \notin {Unset, Zero}}}

\* What serializeTrie can make of c: it iterates over a Go map, so the
\* entries come in any order.
serializeTrie(c) ==
    {<<Len(entries)>> \o entries : entries \in SetToSeqs(Entries(c))}

\* Whether deserializeTrie reports an error, which it does before it
\* touches the trie.
Malformed(part) == part = <<>> \/ Len(part) # 1 + part[1]

\* The content c after the entries of the part are set in it one after the
\* other: of those with the same key the last one counts.
Overwritten(c, part) ==
    [k \in Key |->
        LET at == {i \in 2 .. Len(part) : part[i][1] = k} IN
        IF at = {} THEN c[k] ELSE part[Max(at)][2]]

\* Variant of Deserialized that sets the entries on top of the old trie.
DeserializedOnTop(c, part) == IF Malformed(part) THEN c ELSE Overwritten(c, part)

\* The trie c after deserializeTrie: it is replaced by an empty one, in
\* which the entries are set.
Deserialized(c, part) == IF Malformed(part) THEN c ELSE Overwritten(Empty, part)

\* The snapshots CreateSnapshot can make of c.
SnapshotOf(c) ==
    {[meta |-> c, proof |-> c, part |-> part] : part \in serializeTrie(c)}

-----------------------------------------------------------------------------
(* Verifier and receiver.                                                  *)

VerifyRootProof(expected, data) == data.proof = expected

\* Variant of VerifyPart that trusts the proof.
VerifyPartByProof(expected, n, proof, part) ==
    n = 0 /\ proof = expected /\ ~ Malformed(part)

\* VerifyPart replays the part in a state of its own.
VerifyPart(expected, n, proof, part) ==
    /\ n = 0
    /\ proof = expected
    /\ ~ Malformed(part)
    /\ Deserialized(Empty, part) = expected

\* Variant of Restores that does not compare commitments.
RestoresUnchecked(c, data) == data.meta # TooShort /\ ~ Malformed(data.part)

\* Whether Restore of the data succeeds on a state with the trie c.
Restores(c, data) ==
    /\ data.meta # TooShort
    /\ ~ Malformed(data.part)
    /\ Deserialized(c, data.part) = data.meta

-----------------------------------------------------------------------------

Init ==
    /\ source = Empty
    /\ served = {}
    /\ offer = {}
    /\ verifier = {}
    /\ target \in Before

\* The sending state moves on.
Update(k, v) ==
    /\ source' = [source EXCEPT ![k] = v]
    /\ UNCHANGED <<served, offer, verifier, target>>

\* A snapshot arrives as CreateSnapshot made it.
CreateSnapshot ==
    /\ source \in served \/ Cardinality(served) < MaxServed
    /\ served' = served \cup {source}
    /\ \E data \in SnapshotOf(source) : offer' = {data}
    /\ UNCHANGED <<source, verifier, target>>

\* What can have happened to a part: it was cut off, an entry was lost and
\* the number adapted, one was repeated, one has another value.
DamagedPart(part) ==
    {<<>>}
        \cup (IF Len(part) > 1
              THEN {Front(part), <<part[1] - 1>> \o SubSeq(part, 2, Len(part) - 1)}
              ELSE {})
        \cup {<<part[1] + 1>> \o Tail(part) \o <<part[i]>> : i \in 2 .. Len(part)}
        \cup {[part EXCEPT ![i] = <<@[1], v>>] : i \in 2 .. Len(part), v \in Value}

\* Snapshot data is damaged, once and in one place.
Damage ==
    \E data \in offer :
        /\ \E c \in served : data \in SnapshotOf(c)
        /\ \/ \E bad \in {TooShort, Garbled} : offer' = {[data EXCEPT !.meta = bad]}
           \/ offer' = {[data EXCEPT !.proof = Garbled]}
           \/ \E part \in DamagedPart(data.part) : offer' = {[data EXCEPT !.part = part]}
        /\ UNCHANGED <<source, served, verifier, target>>

\* Variant of GetSnapshotVerifier that does not look at the length.
GetSnapshotVerifierUnchecked ==
    \E data \in offer :
        /\ verifier' = {data.meta}
        /\ UNCHANGED <<source, served, offer, target>>

\* It fails if the metadata is too short.
GetSnapshotVerifier ==
    \E data \in offer :
        /\ data.meta # TooShort
        /\ verifier' = {data.meta}
        /\ UNCHANGED <<source, served, offer, target>>

\* The trie is replaced before commitments are compared, so it also is if
\* Restore reports an error.
Restore ==
    \E data \in offer :
        /\ data.meta # TooShort
        /\ target' = Deserialized(target, data.part)
        /\ UNCHANGED <<source, served, offer, verifier>>

Next ==
    \/ \E w \in Writes : Update(w[1], w[2])
    \/ CreateSnapshot
    \/ Damage
    \/ GetSnapshotVerifier
    \/ Restore

Spec == Init /\ [][Next]_vars

-----------------------------------------------------------------------------
(* Properties.                                                             *)

\* Types; what a verifier expects is a commitment that was served, or one
\* that was damaged on the way.
TypeOK ==
    /\ source \in Content /\ target \in Content
    /\ served \subseteq Content
    /\ verifier \subseteq served \cup {Garbled}
    /\ \A data \in offer :
        /\ data.meta \in served \cup {Garbled, TooShort}
        /\ data.proof \in served \cup {Garbled}
        /\ data.part # <<>> =>
            /\ Head(data.part) \in Nat /\ Tail(data.part) \in Seq(Key \X Value)
            /\ data.part = <<Head(data.part)>> \o Tail(data.part)

\* Contents that a snapshot holds all of.
Complete(c) == \A k \in Key : c[k] # Unset => k \in SampledKey /\ c[k] # Zero

\* A snapshot of a complete content, as it was made, is accepted by its own
\* verifier and can be restored, whatever the receiving state holds by then:
\* its first content, another snapshot, or what is left of one that did not
\* match; and in whichever order the entries were written.
WholeSnapshotsRestore ==
    \A c \in {x \in served : Complete(x)} : \A data \in SnapshotOf(c) :
        /\ VerifyRootProof(c, data)
        /\ VerifyPart(c, 0, data.proof, data.part)
        /\ Restores(target, data)

\* Whether a verifier that expects this commitment accepts the data.
Accepts(expected, data) ==
    /\ VerifyRootProof(expected, data)
    /\ VerifyPart(expected, 0, data.proof, data.part)

\* The verifier and Restore agree, though the one replays the part in a state
\* of its own and looks at the proof, and the other replays it in the state
\* that is there and looks at the metadata, and though the verifier may have
\* been made for other data.  What it accepts leaves the expected content,
\* and Restore succeeds with it unless the metadata was damaged; what Restore
\* succeeds with is accepted by the verifier of this content, unless the
\* proof was damaged.
VerifierAgrees ==
    \A expected \in verifier, data \in offer :
        /\ Accepts(expected, data) =>
            /\ Deserialized(target, data.part) = expected
            /\ Restores(target, data) <=> data.meta = expected
        /\ Restores(target, data) =>
            (Accepts(expected, data) <=> expected = data.meta /\ data.proof = data.meta)

\* If Restore succeeds the state has the content that was served with this
\* commitment; if it fails the state has either its old content or what the
\* part says, never a mixture of the two.
RestoreIsServedOrReported ==
    [][\A data \in offer :
        target' # target =>
            /\ Restores(target, data) => target' \in served
            /\ target' = Deserialized(Empty, data.part)]_vars
=============================================================================
