# Verkle trie: TLA+ models and proofs

This directory holds TLA+ models of the Verkle-trie chain state in
`memory/`, `commit/` and `geth/`, TLC runs that check them on small
instances, and proofs, checked by TLAPS, of their main properties for every
instance. Paths below are relative to the repository.

## 1. The system

A `State` (`memory/state.go`) tracks accounts (nonce, balance, code, storage
slots). It is driven by `Apply(block, update)`, one call per block, and read by
getters. Beneath it, and around it:

| Component | State it keeps | Operations |
|---|---|---|
| Verkle trie (`memory/trie`) | inner nodes, leaves with a bitmap of used suffixes, a cached commitment and a clean flag per node | `Get`, `Set`, `Commit` |
| Embedding (`memory/embedding.go`) | none | four functions from account fields to 32-byte keys |
| Code chunks (`memory/code.go`) | none | `splitCode`, `merge` |
| Accounts (`memory/state.go`) | the trie, and the set of written slots | `Apply`, `Exists`, `GetNonce`, `GetBalance`, `GetCode`, `GetCodeSize`, `GetCodeHash`, `GetStorage`, `HasEmptyStorage`, `GetHash` |
| Block archive (`vtArchive`) | block → snapshot, highest block, block to prune next | `addBlock`, `pruneOldest`, `getBlock`, `getBlockHeight` |
| Snapshots, restore, archived states | snapshots (commitment and serialized samples), states made from them | `CreateSnapshot`, `Restore`, `GetArchiveState`, `GetSnapshotVerifier` |
| Witness proofs (`vtWitnessProof`) | an immutable record | `Extract` and accessors |
| Export, footprint, `Check`, `Flush`, `Close` | none | output, estimates, no-ops |
| Geth adapter (`geth/state.go`) | go-ethereum's trie, a map of codes, a node source | setters behind `update.ApplyTo`, `Apply` with a commit to the source |
| Node sources (`geth/*_source.go`) | path → node | `Node`, `set`, `Flush`, `Close` |
| Commitments (`commit/`) | none | Pedersen commitments, values, openings |

Interaction is by synchronous calls only: `Apply` reads and writes the trie
through keys made by the embedding, then takes a snapshot (which commits the
trie and samples it) and adds it to the archive. `GetArchiveState` builds a new
`State` from an archived snapshot; that state shares the archive of the state it
came from. The adapter under `geth/` stands beside all this: it has the same
interface, on go-ethereum's trie and a node source that may fail. There are no
goroutines, locks or timers in the source, and nothing survives the process
except the nodes the adapter writes and what was exported.

What is hard here is therefore not concurrency but:

- **history dependence**: which nodes a trie has, and which of them are clean,
  depends on all earlier writes and commits, and must not show in its hash;
- **caches and second records**: clean flags next to values, `writtenSlots`
  next to the trie, `oldestBlock` and `maxBlock` next to the map of snapshots;
- **sharing**: three fields in one cell, fields of several kinds in one node,
  one archive behind several states;
- **boundaries**: block 0, the end of a stem, the 64th slot, a code whose
  length is a multiple of 31, push data that runs over a chunk, the marker bit
  above a limb;
- **records that outlive what they were made of**: snapshots, witness proofs and
  what is extracted from them;
- **failure in the middle**: `Restore` replaces the trie before it verifies it;
  the adapter writes nodes one by one, its setters can fail between two nodes,
  its process can end anywhere, and callers try again.

`PROJECT.json` lists these hazards with their lines, and the properties that
would catch each.

What makes each component correct:

- trie: it is a map; a write changes one key; the hash depends on the content
  alone; cached commitments are never stale; every call returns, in bounds;
- embedding: no two fields share a key;
- accounts: an update clears the accounts it deletes, changes the fields it names
  and no others; code and code hash agree; empty storage is detected exactly;
- archive: it holds the newest blocks, no more than its size, and its height is
  archived;
- archived states: a block is served exactly as it was left, or not at all;
- snapshots from elsewhere: the verifier and `Restore` accept the same data, and
  only data that was served;
- witness proofs: each answer is true of the state with the root it names, and
  covers all it was asked for;
- code chunks: the count in front of a chunk is that of a scan of the whole code,
  and `merge` undoes `splitCode`;
- leaf layout: the vectors of a leaf tell its content, and updating a commitment
  comes to computing it afresh;
- adapter: a node that is not in memory is on the source as the root commits to
  it; the getters change with its setters only; an `Apply` that succeeds is
  complete and durable, whatever failed before.

## 2. Modules

| Module | Role |
|---|---|
| `KVStore` | abstract: a map that tells keys set to zero from keys never set |
| `Trie` | `trie.go`, `nodes.go`: one action per frame of `set` and `commit` |
| `LeafLayout` | the vectors of a leaf, values and `Commitment.Update` |
| `Embedding` | the key functions |
| `CodeChunks` | `splitCode` and `merge`, byte by byte |
| `Ledger` | abstract: accounts as records, deleted and updated field by field |
| `AccountCells` | what `Apply` writes and the getters read, as operators on a content of the trie |
| `Accounts` | one state under `Apply`; it implements `Ledger` but for deletion |
| `Retention` | abstract: keep the `MaxSize` newest blocks |
| `Archive` | `vtArchive`: one action `addBlock`, with its pruning |
| `VTState` | several states with one archive: `Apply`, `GetArchiveState`, `CreateSnapshot`, `Restore`; composes `AccountCells` and `Archive` |
| `SnapshotSync` | a state copied to another node: snapshots, damaged or not, verifier, `Restore` |
| `Witness` | a state, the proofs made of it and extracted from them, and what they answer |
| `GethState` | the adapter: setters, `Apply` on a node source that may fail, new starts; its getters implement `Ledger` |
| `TrieProofs`, `AccountsProofs`, `ArchiveProofs`, `VTStateProofs`, `SnapshotSyncProofs`, `WitnessProofs`, `GethStateProofs` | theorems about the module of that name; `AccountsProofs` begins with those about `Embedding`, `VTStateProofs` ends with the composition with `Archive` |
| `EncodingProofs` | theorems about `CodeChunks` and `LeafLayout` |
| `MC*` | instances for TLC; `MCAccounts` has those of `CodeChunks` and `LeafLayout` too |

The layers fit together by refinement: `Accounts` and `VTState` take the content
of a trie to be a map from keys to values, with a mark for "never set"; this is
the map `KVStore`, which `Trie` is proved to implement. `VTState` uses the
`addBlock` of `Archive` as it is, and is proved to use it as `Archive` allows;
`Witness` extends `Accounts` by the proofs made of its states. `Ledger` is what
both `Accounts`, on cells, and `GethState`, on nodes, are measured against.

Definitions named `...` *variant of* another are plausible mistakes. No
specification uses them; they are there to be put in the place of the original,
to see that a property notices (`mutants` in `PROJECT.json`).

### Trie

A node is its path. `inner` is the set of paths of inner nodes, `leaf` maps
paths to leaves (`stem`, `values`, `used`), and `com` maps the paths of *clean*
nodes to their cached commitments: `DOMAIN com` is the flag `commitmentClean`,
and the code never looks at a commitment whose flag is false. `call` is the
frame that runs: `Set` starts one and creates the root; `InnerSet`, `LeafSet`
and `LeafSplit` are the bodies of `inner.set` and the two branches of
`leaf.set`; `Commit`, `CommitLeaf`, `CommitInner` and `CommitReturn` are the
frames of a commit. In the code a split runs the fresh inner node's `set` at the
same depth, which is the next `InnerSet` here.

Abstractions: a commitment is represented by the vector it commits to, that is,
Pedersen commitments are taken to be binding; siblings are committed in any
order instead of by index; the layout of a leaf's vector (C1, C2, two limbs per
value, bit 128 as marker) is one vector of values with their markers, which
`LeafLayout` justifies: the real vectors tell these values and markers.

`CanonicalTerm` is the reference for what `Commit` returns: the commitment of a
content, defined for each path from the stems below it alone, without writes,
splits or caches. It is a recursive function, so that it can be reasoned about.

### Archive

The four variables are the four fields. `addBlock` stores the snapshot, updates
`maxBlock` (`Highest`) and `oldestBlock` (`Oldest`, where 0 stands for "not
set", as in the code) and prunes once if there are too many. Block numbers
arrive in any order, as nothing in `Apply` orders them.

### Embedding and accounts

A key is the triple of address, tree index and sub-index it is computed from:
the hash is taken to be free of collisions. `AccountCells` follows `Apply` one
group of fields after the other (`Created`, `Nonced`, `Balanced`, `Slotted`,
`Coded`), each on the cells the previous one left. A cell holds what its 32
bytes stand for; `Zero` is 32 zero bytes, whatever they stand for, since the
code compares values with zero. Kept: the truncation of balances to 16 bytes,
the chunk that `GetCode` reads beyond the end, chunks of older code that stay.
Deleted accounts are in the updates and nothing looks at them, here as in the
code; `Ledger` clears them, as the project's README has it, so `Accounts` implements
it for updates that delete nobody, and for no others (run `deleted_accounts`).
The byte of a chunk that counts push data is left to `CodeChunks`.

### Code chunks and leaf layout

`CodeChunks` writes a code byte by byte and scans it as an interpreter would;
`open` is what a scan of the whole code expects at each position. `splitCode` is
the function of the source, with its count clipped to the chunk. `LeafLayout`
sets values of a leaf in any order; `Vector` and `commit` are what `leaf.commit`
builds of them. `Commitment.Update` is an operation of `commit/` that the leaf
does without: `UpdateIsCommit` is about this operation, at the positions a write
of the leaf would change. The specifications are `CodeSpec` and `LeafSpec`. Byte
strings are numbers there; field elements are numbers modulo `FieldOrder`;
commitments are additive and binding, hence represented by their vectors.

### States

A handle is a variable that holds a `*State`. `Main` holds the live one;
`GetArchiveState` fills the others. Every operation is possible on each handle,
since nothing makes archived states read-only. A snapshot is the commitment (the
content itself) with the entries `serializeTrie` finds: sampled keys whose
values are not zero. `Restore` replaces the trie, then compares. `left` is a
history variable, which no action reads: the content that the last `Apply` of
each block left behind.

### Snapshots from elsewhere

`SnapshotSync` has a sending and a receiving state. `offer` is the snapshot data
the receiver was given last: as `CreateSnapshot` made it, or damaged once in one
place (`Damage`: metadata, proof, or the part: cut off, an entry lost, repeated or
changed). Entries come in any order, as they come out of a Go map. `verifier`
may be of other data than the offer; `VerifierAgrees` compares what it accepts with
what `Restore` accepts, with the metadata and the proof as they arrived. `Restore` replaces the trie and then
compares, as in the source. Of entries that name the same key the last one wins
(`Overwritten`), as when they are set one after the other. Transport is not in `src/`: the damage is what the
checks in the code are there to notice.

### Witness proofs

The state and its `Apply` are those of `Accounts`. `proofs` are the records
callers keep while `cells` moves on. A question names a
root hash and an account; where the code returns a zero value and `false`, the
answer is `Unknown`. The bytes of keys and of addresses in ranges are compared as
numbers. All accessors are there, also the three that return elements; the order
and the encoding of elements are left out.

### Geth adapter

go-ethereum's trie is a library and is modelled from how `geth/` uses it: one
root and one node per stem in use; a node is in memory, absent, or `Hashed`, that
is, known by its commitment only and read from the source by its path when it
is needed, without comparing what is read; `Commit` returns all nodes in memory;
the zero root hash is that of the empty trie, which is not read. `source` and
`sourceRoot` are the node source, `codes` is the map in the process. `call` is
the running `Apply`: its setters, one action each (`SetNonce`, `SetBalance`,
`CreateAccount`, `SetStorage`, `SetCode`; `DeleteAccount` always fails), in an
order that is left open; then `Commit`, one `WriteNode` per node in the order of
a Go map, and `Recreate`, the `NewVerkleTrie` that drops all nodes. Each call of
the source may fail, up to `MaxFaults` times; `SetCodeFails` is the failure
between its two nodes. `Reopen` is a new process on the same source at any
moment. `last` and `torn` are history variables. `persistent` tells the two
kinds of state apart.

Of the library are left out: inner nodes, which come and go as stems split; that
it cuts a balance to 16 bytes; and the first 64 slots of an account, which are in
the node of the account, so that setting one of them makes the account. The slot
in use here is another one. An update is a set of setter calls, one at most for a
field of an account.

## 3. Runs

"Violation" runs check one statement of the repository that the code
contradicts.

| Run | cfg | Distinct states | Checks |
|---|---|---|---|
| `trie` | `MCTrie` | 209 000 | types, indices in bounds, absent keys read zero, caches fresh at every step, commitment = function of the content, refinement of `KVStore`, every call returns |
| `archive` | `MCArchive` | 233 | height archived, refinement of `Retention` |
| `archive_chain` (violation) | `MCArchiveHeight` | | height archived, for a chain from block 0 |
| `accounts` | `MCAccounts` | 25 000 | accounts: types, code = hash, empty storage, refinement of `Ledger`; code chunks: types, the count is the scan's, a chunk can be read alone, `merge` restores; leaf layout: vectors tell the leaf, update = commit |
| `deleted_accounts` (violation) | `MCAccountsDelete` | | refinement of `Ledger`, for updates that delete an account |
| `states` | `MCVTState` | 43 000 | archive matches history, when a block is restorable, views are block states |
| `cleared_slot` (violation) | `MCVTZero` | | archived blocks are served |
| `archived_empty_storage` (violation) | `MCVTStorage` | | empty storage is exact on archived states |
| `snapshot_sync` | `MCSnapshotSync` | 13 000 | types, whole snapshots restore, verifier and `Restore` agree, a restored state was served or an error reported |
| `witness` | `MCWitness` | 33 000 | types, answers and elements are true of their root, what is known is known of accounts with nonce or balance, denials of ranges are right, elements tell the proof but for its root |
| `unproven_zero` (violation) | `MCWitnessZero` | | a range that is confirmed to be zero is zero |
| `geth` | `MCGethState` | 323 000 | source backs root, code = hash, retries complete, success is durable, getters change as `Ledger` says with each setter and never else, every `Apply` returns |

`PROJECT.json` names a mutant for each property: a change of the model as a
plausible bug would make it, with which the same run fails.

**Bounds.**

- `trie`: stems of 3 bytes over two byte values. Three stems, two of which part
  in the last byte only, have a split at every depth, a second split of the same
  leaf, a leaf that moves while clean, and a sibling that is untouched by a
  write; two suffixes let a leaf hold a used and an unused value. All
  interleavings of commits and writes are explored without a bound on their
  number, because the state space is finite.
- `archive`: three of six block numbers, which fill, prune, arrive late and
  repeat. `archive_chain` counts up from 0 with an archive of two.
- `accounts`: nodes 5 wide with a header of two slots put a slot, a chunk and the
  account data in one node and the next ones outside it; chunks of two bytes with
  codes of 0 to 3 bytes end in the middle and at the end of a chunk, and one is
  all zeros; one balance does not fit. Values are two: the properties only tell
  equal from different and zero from not zero. `deleted_accounts` has two updates,
  one of which deletes the account the other makes.
- `accounts`, code chunks: all codes of up to 7 bytes over four bytes, with chunks
  of 3 and pushes of up to 4: data ends within its chunk, runs over a whole further
  chunk, over the end of the code. As in the code, a push holds one byte more
  than a chunk.
- `accounts`, leaf layout: all contents of a leaf with four suffixes and limbs of
  one bit, in a field just large enough for the marker (2 * Limb <= FieldOrder).
  The three instances have no state in common; one at a time takes steps.
- `states`: two handles, two blocks, an archive of one block, a sampled and an
  unsampled account suffice for an archived state to outlive the block it came
  from, to be updated, and to be restored into the live one.
- `snapshot_sync`: two sampled keys and one that is not, two served contents: one
  of them is damaged or replaced by the other while the verifier has the first.
- `witness`: two accounts, two slots and two proofs, made and extracted in any
  order while the state moves on: two proofs of different roots, of different
  accounts, and one extracted from the other. One of the accounts has code and
  storage before it has a balance.
- `geth`: one account with a code that fits the account's node and one that does
  not; two faults, so that a second attempt can fail as well; four updates, one
  of which can never succeed. Reopening and the number of updates are unbounded.

**Fairness.** Two modules have liveness properties. In `Trie`, `CallsReturn`
assumes `WF_vars(Step)`, in `GethState`, `ApplyReturns` does: a Go call that was
started runs on until it returns. Nothing is assumed of callers, who may never
call again, nor of the source, which may fail or not.

**Deadlock** is checked in all runs but those of `MCAccounts`, whose codes reach
their bound `MaxLen`. The systems themselves never stop: a caller can always call
again.

## 4. What the runs found

1. **Block 0 breaks the archive** (`memory/state.go:145`, run `archive_chain`).
   `oldestBlock == 0` means "not set yet" but 0 is a block. A chain from block 0
   drops block 1 at the first prune, keeps block 0, and then drops each new block
   on arrival: with the default size the archive is frozen after 1001 blocks, and
   `GetArchiveBlockHeight` reports blocks that are not there. Without block 0 the
   archive is exactly right, as proved below.
2. **Deleted accounts stay** (`memory/state.go:284`, run `deleted_accounts`).
   `Apply` never looks at the `DeletedAccounts` of an update and reports success,
   while `README.md:60` lists "Account creation and deletion" as working.
3. **A key set to zero makes snapshots useless** (`memory/state.go:717`, run
   `cleared_slot`). Zero values are not serialized, but used keys enter the
   commitment, so the comparison in `Restore` fails. Clearing one slot, or
   creating an account without nonce and balance, is enough.
4. **Archived states report empty storage** (`memory/state.go:448`, run
   `archived_empty_storage`), since nothing fills their `writtenSlots`.
5. **Ranges are confirmed to be zero unseen** (`memory/state.go:981`, run
   `unproven_zero`). `AllStatesZero` answers "true" for a range of slots if those
   the proof contains are zero, also if it contains none; the comment at line 969
   speaks of all slots in the range, the one at 980 of those that were not checked,
   above an answer that is not "unknown". `DenialsAreRight` has what can be relied
   on: "false" is right.

Also met, without a violation run of their own:

- Accounts outside the samples are not in a snapshot (`memory/state.go:692`), so
  that blocks after them cannot be restored. `RestorableExactly` says exactly
  which blocks can, and `ViewIsBlockState` that one that is served is right:
  neither this nor finding 3 ever leads to wrong data.
- `IsValid` rejects proofs of the empty state (`memory/state.go:866`);
  `KnownIfFunded` includes that such a proof has nothing to tell.
- Of an account with code but neither nonce nor balance, `GetCodeHash` of a proof
  answers that the hash is unknown, while `GetAccountElements` gives 32 zero bytes
  as known (`memory/state.go:893`). `AnswersMatchRoot` says so.
- The adapter's `Exists` looks at the low 64 bits of the balance
  (`geth/state.go:123`).
- When the adapter's `Apply` fails, the setters that had run stay in its trie and
  go out with the next commit. `RetryCompletes` shows this to be right for callers
  who repeat the update. Until they do, an account whose `SetCode` failed half way
  has the hash of a code that `GetCode` does not return (`geth/state.go:108`).
- `NewStateWithSource` starts from an empty trie and never reads the nodes an
  earlier process left (`geth/state.go:50`): they are dead weight, but, by
  `SourceBacksRoot`, never mistaken for nodes of the new trie.
- Tests in `memory/state_test.go:164-167` and `275-317` still expect errors from
  `HasEmptyStorage`, `GetArchiveState`, `CreateWitnessProof`, `Export`,
  `GetProof`, `CreateSnapshot`, `Restore` and `GetSnapshotVerifier`, which are
  implemented by now.

## 5. Proofs

TLAPS checks these for every value of the constants, from the assumptions named
in the modules (`TrieAssumption`, `ArchiveAssumption`, `EmbeddingAssumption`,
`CellsAssumption`, `UpdateAssumption`, `VTStateAssumption`, `ChunkAssumption`,
`LayoutAssumption`, `SyncAssumption`, `WitnessAssumption`, `GethAssumption`), which
TLC evaluates on the runs.

| Theorem | States |
|---|---|
| `TrieProofs!TypeCorrect`, `ShapeCorrect`, `DepthCorrect`, `DescentCorrect`, `CacheCorrect` | the invariants of `Trie` |
| `TrieProofs!CanonicalCorrect` | inner nodes only where two stems share a path |
| `TrieProofs!UnsetReads` | absent keys read zero |
| `TrieProofs!TrieImplementsMap` | `Trie` implements `KVStore` |
| `TrieProofs!CommitCorrect` | `Commit` returns the commitment of the content, `CanonicalTerm` |
| `TrieProofs!CallsAreBounded`, `CallsGoOn` | each step of `set` and `commit` leaves less to do, and there is one until the call returns |
| `EncodingProofs!LayoutIsInjective`, `UpdateCorrect` | vectors tell a leaf; `Update` yields what `commit` computes |
| `AccountsProofs!KeysApart` | fields have keys of their own |
| `EncodingProofs!TypeCorrect`, `MergeCorrect` | counts fit their chunks; `merge` undoes `splitCode` |
| `EncodingProofs!PrefixCorrect`, `ChunksCorrect` | the count is the push data that is left; a chunk can be read alone |
| `AccountsProofs!TypeCorrect`, `CodeHashCorrect`, `EmptyStorageCorrect` | the invariants of `Accounts` |
| `AccountsProofs!AccountsImplementLedger` | `Accounts` implements `Ledger`, if no update deletes an account |
| `ArchiveProofs!TypeCorrect`, `ArchiveIsBounded` | types and bound, for all block numbers |
| `ArchiveProofs!HeightCorrect`, `OldestCorrect`, `ArchiveImplementsRetention` | height, oldest block and retention, if block 0 is never archived |
| `VTStateProofs!TypeCorrect`, `ArchiveCorrect`, `RestorableCorrect`, `ViewCorrect` | the properties of `VTState` |
| `VTStateProofs!SharedArchive` | the archive that the handles share is an `Archive` |
| `VTStateProofs!SharedBounded`, `SharedHeight`, `SharedKeepsNewest` | so it is bounded and, without block 0, reports its height and keeps the newest blocks, whichever handles apply |
| `SnapshotSyncProofs!TypeCorrect`, `WholeSnapshotsCorrect`, `VerifierCorrect`, `RestoreCorrect` | the properties of `SnapshotSync` |
| `WitnessProofs!WitnessTypeCorrect`, `AnswersCorrect`, `KnownCorrect`, `DenialsCorrect`, `ElementsCorrect` | the properties of `Witness` |
| `GethStateProofs!TypeCorrect`, `SourceCorrect`, `CodeHashCorrect`, `DurableCorrect`, `RetryCorrect` | the safety properties of `GethState` |
| `GethStateProofs!GettersImplementLedger` | a setter of the running `Apply` that returns is the step of `Ledger` with what it names; a state that is opened again is initial; nothing else changes the getters |
| `GethStateProofs!ApplyIsBounded`, `ApplyGoesOn` | each step of an `Apply` leaves less to do; no node is ever missing, and there is a step until the `Apply` returns |

Some invariants are proved and not among the properties of a run, since the
others rest on them: `ShapeInv`, `DescentInv` and `CanonicalShape` of `Trie`,
`Bounded`, `OldestIsMin` and `TypeOK` of `Archive`, `TypeOK` of `VTState`.

**Trie.** The inductive invariant `IInv` is the conjunction of types, shape,
bounds, descent, cache and `ZeroInv`. None of them is inductive alone: a split is
in bounds because the path of a leaf is a prefix of its stem (`ShapeInv`), so
that the two stems agree up to the depth and must differ after it; a cache stays
fresh through a write because the commitments above it are gone already
(`DescentInv`); an absent key reads zero because a leaf's unused values are zero
(`ZeroInv`). The refinement maps a leaf's write to one step of the map and every
other step to a stutter: a split leaves each stem with the leaf it had.

That the root commitment is canonical goes by paths. The recursive
`CanonicalTerm` has one value only: take a longest path on which two such
functions differ (`TermIsUnique`). Between calls a leaf has values (`FilledInv`)
and stands where its stem is alone; an inner node stands where stems share a path
(`CanonicalShape`); where the root is clean every node is (`AllClean`). So the
cached commitments solve the equations of `CanonicalTerm` (`CleanTermIsTerm`), and
are its values.

Where an induction over paths or positions is needed, the proofs take a least
counterexample instead (`NatMin`, from `WellFoundedInduction`).

**Code.** `ScanInv` says that `open` counts the push data of the code so far.
`isCode` is a walk that jumps over push data from instruction to instruction; a
walk and a scan that start together find the same positions (`WalkFinds`). Hence
the bytes of a chunk before its first instruction are what the scan has left
there, capped at the chunk (`PrefixIsLeft`), and a walk over the chunk alone that
starts behind them finds what the walk over the whole code finds.

**Leaf layout.** Limbs are less than the field order, also with the marker, so a
vector's entry tells its limb and its marker; the two positions of a suffix are
its own. `UpdateCorrect` adds the reduced difference at each of them.

**Accounts.** From `KeysApart`, each group of fields of `Apply` is shown to change
the cells of its own fields (`...Reads` lemmas). The invariant adds to the types
that the chunks of an account are those of its code as far as its size goes,
whatever older code left behind them, and that the slots that are tracked are
all that are not zero.

**Archive.** `Bounded` needs that `oldestBlock` names a stored block, even where
it is not the oldest, and is inductive with the types. With `0 \notin Block` it
is strengthened to `oldestBlock` = least block, and the set that is kept is shown
to be the newest by counting.

**States.** The invariant adds to the types that every content is a total map
and that each snapshot is the one of the history. That a snapshot round-trips
just when everything is sampled and not zero is a lemma about `serializeTrie`
and `deserializeTrie` (`RoundTrip`).

**Shared archive.** `VTState` seen with each snapshot replaced by 0 is a run of
`Archive`: `Apply` through any handle is one `addBlock`, all else a stutter. So the
theorems of `ArchiveProofs` hold for the archive behind the handles, by
instantiation of that module. `ArchiveMatchesHistory` says what the snapshots are.

**Snapshots from elsewhere.** The types say what damage leaves of the data on
offer: commitments that were served or are garbled, and a part whose entries have
keys and values. With `Offered`, that there is at most one piece of data, they are
inductive. The properties are then about one such offer: the commitment of a complete part is the content it was made of
(`CompleteRestored`), and what was set last wins (`OverwrittenReads`).

**Witness proofs.** The invariant (`Told`) is that each proof holds what the getters
tell of the trie it names, and no data of an account without nonce and balance;
`Extract` keeps a part of it. That `GetElements`,
which leaves out whether the account exists, still tells it, is so because the
data of an account that does not exist is zero. For the code hash `AnswersCorrect`
rests on the invariant of `Accounts` holding of every trie a proof was made of.

**Adapter.** A commit writes only to the paths of nodes in memory, so it never
disturbs a node that is not (`SourceBacksRoot`). That all nodes may be dropped
after it rests on `CommitInv`: without an error so far, what is not on the list
of nodes to write is on the source. What is read at a stem then only changes by
a setter that names it (`OneFieldStep`, `FieldsAreApply`), which gives the
refinement (`ReturnsIsApply`); `AttemptInv` says how far attempts at an update have
come, `HealedInv` that no code they have set is torn, and together they give
`RetryCompletes`.

**Termination.** Liveness under fairness is out of the prover's reach, but not the
reason why calls return. `Work` bounds the steps that are left: twice the depth
that is left for a set, the nodes that are not clean for a commit; the setters,
then the nodes to write, for an `Apply`. It is a natural number because the trie
and an update are finite, and every step lowers it. `CanGoOn` says in terms of the
state when a step can be taken: each of its disjuncts is where
an action has its guard true.
For a commit the deepest node that is reached and not clean can be done next. For
the adapter it needs `SourceBacksRoot`: no setter finds a node missing.

**Assumptions.** `GethAssumption` lists the operations that the fields of an update
become, gives each field one value, and has updates finite, as a Go slice is.
Through the instances nothing more is assumed: `VTStateAssumption` has what
`ArchiveAssumption` needs.

**Model-checked only.** `CallsReturn` and `ApplyReturns`: that a step which can be
taken is taken follows from the fairness, which the provers cannot handle.
`archive_chain`, `deleted_accounts`, `cleared_slot`, `archived_empty_storage` and
`unproven_zero` check statements that the code contradicts. All other properties of the runs are proved.

## 6. Not modelled

- Curve arithmetic in `commit/` (`Commit`, `Compress`, `Hash`, `IsValid`): it is
  a library's. Commitments are taken to be binding and additive.
- Openings (`commit/proof.go`): `Open` and `Verify` pass their arguments to the
  inner product argument of a library, keep no state and are not used in `src/`.
- `Export`: it writes the commitment and the entries that `CreateSnapshot` has,
  changes no state, and nothing in `src/` reads what it writes.
- `GetMemoryFootprint`, `Check`, `Flush`, `Close`: estimates and no-ops.
- Operations of the adapter that only report that they are not supported.
- Generated mocks, the benchmark.

## 7. Plan

Done, in the order of importance: the trie, the archive, the embedding, accounts,
states with archive and snapshots; then code chunks, snapshots from elsewhere,
witness proofs, the adapter, the layout of leaves; and proofs of all safety
properties of the runs. Left:

1. A composition of `VTState` and `SnapshotSync`: an archive that is served to a
   node which goes on applying blocks.
2. The link between `Trie` and `AccountCells` as a theorem: a sequence of sets by
   `Apply` is one step of the cells, by way of `KVStore`.
