------------------------------ MODULE Witness ------------------------------
(***************************************************************************)
(* Witness proofs: CreateWitnessProof and vtWitnessProof in                *)
(* memory/state.go.                                                        *)
(*                                                                         *)
(* A state moves on under Apply while callers keep the proofs they made of *)
(* it, derive smaller ones with Extract and ask all of them questions that *)
(* name a root hash.  A root hash is represented by the content of the     *)
(* trie it commits to; that of the empty trie is 32 zero bytes.            *)
(***************************************************************************)
EXTENDS Accounts, FiniteSets

CONSTANTS
    Unknown,     \* the answer of a proof that does not have one
    MaxProofs    \* bound: how many proofs are kept

\* Addresses and slots are compared byte by byte, that is, as numbers.
ASSUME WitnessAssumption ==
    Address \subseteq Nat /\ MaxProofs \in Nat /\ Unknown \notin BOOLEAN

VARIABLE
    proofs    \* the proofs that callers keep

witnessVars == <<stateVars, proofs>>

NoCells == [k \in TreeKey |-> Unset]

-----------------------------------------------------------------------------
(* The record.                                                             *)

\* Variant of getAccountInfo that overlooks accounts without a nonce.
getAccountInfoByNonce(c, a) ==
    [balance |-> GetBalance(c, a), nonce |-> GetNonce(c, a),
     codeHash |-> GetCodeHash(c, a), exists |-> GetNonce(c, a) # 0]

getAccountInfo(c, a) ==
    [balance |-> GetBalance(c, a), nonce |-> GetNonce(c, a),
     codeHash |-> GetCodeHash(c, a), exists |-> Exists(c, a)]

NoInfo == [balance |-> 0, nonce |-> 0, codeHash |-> Zero, exists |-> FALSE]

\* Variant of WitnessProof that does not ask whether the account exists.
WitnessProofFilled(c, a, K) ==
    [rootHash |-> c, address |-> a,
     info     |-> getAccountInfo(c, a),
     storage  |-> [k \in K |-> GetStorage(c, a, k)]]

\* The proof that CreateWitnessProof makes of a state with the trie c, for
\* account a and its slots K.
WitnessProof(c, a, K) ==
    LET info == getAccountInfo(c, a) IN
    [rootHash |-> c, address |-> a,
     info     |-> IF info.exists THEN info ELSE NoInfo,
     storage  |-> [k \in K |-> GetStorage(c, a, k)]]

\* Whether proof p is about account a of the state with this root hash.
About(p, root, a) == root = p.rootHash /\ a = p.address

\* Variant of Extracted that takes the slots it does not know for zero.
ExtractedPadded(p, K) ==
    [p EXCEPT !.storage = [k \in K |-> IF k \in DOMAIN @ THEN @[k] ELSE Zero]]

\* The proof that Extract returns, and whether it has all the slots K.
Extracted(p, K) == [p EXCEPT !.storage = [k \in K \cap DOMAIN @ |-> @[k]]]
AllKeysPresent(p, K) == K \subseteq DOMAIN p.storage

IsValid(p) == p.rootHash # NoCells

\* Variant of GetElements whose account element has no room for the balance.
GetElementsNoBalance(p) ==
    {<<p.info.nonce, p.info.codeHash, p.address>>}
        \cup {<<k, p.storage[k]>> : k \in DOMAIN p.storage}

\* The account data and the slots; their order is left out.
GetElements(p) ==
    {<<p.info.balance, p.info.nonce, p.info.codeHash, p.address>>}
        \cup {<<k, p.storage[k]>> : k \in DOMAIN p.storage}

\* The same one by one, for a root and an account.  Whether the account
\* exists is not looked at.
GetAccountElements(p, root, a) ==
    IF About(p, root, a)
    THEN [balance |-> p.info.balance, nonce |-> p.info.nonce,
          codeHash |-> p.info.codeHash, storageRoot |-> p.rootHash]
    ELSE Unknown
GetStorageElements(p, root, a, k) ==
    IF About(p, root, a) /\ k \in DOMAIN p.storage
    THEN <<k, p.storage[k]>>
    ELSE Unknown

-----------------------------------------------------------------------------
(* The questions.  Where the code returns a zero value and false, the      *)
(* answer is Unknown.                                                      *)

Knows(p, root, a) == About(p, root, a) /\ p.info.exists

ProvenBalance(p, root, a) == IF Knows(p, root, a) THEN p.info.balance ELSE Unknown
ProvenNonce(p, root, a) == IF Knows(p, root, a) THEN p.info.nonce ELSE Unknown
ProvenCodeHash(p, root, a) == IF Knows(p, root, a) THEN p.info.codeHash ELSE Unknown
ProvenState(p, root, a, k) ==
    IF About(p, root, a) /\ k \in DOMAIN p.storage THEN p.storage[k] ELSE Unknown

\* TRUE if the slots of the range that the proof has are zero.
AllStatesZero(p, root, a, from, to) ==
    IF About(p, root, a)
    THEN \A k \in DOMAIN p.storage \cap (from .. to) : p.storage[k] = Zero
    ELSE Unknown

\* Variant of AllAddressesEmpty that does not look at the range.
AllAddressesEmptyAnywhere(p, root, from, to) ==
    IF root = p.rootHash /\ p.info.exists THEN FALSE ELSE Unknown

\* FALSE if the account of the proof is in the range and not empty; one
\* proof cannot tell that all accounts are.
AllAddressesEmpty(p, root, from, to) ==
    IF /\ root = p.rootHash
       /\ p.address \in from .. to
       /\ p.info.exists
       /\ p.info.balance # 0 \/ p.info.nonce # 0 \/ p.info.codeHash # Zero
    THEN FALSE
    ELSE Unknown

-----------------------------------------------------------------------------

WitnessInit == Init /\ proofs = {}

Keep(p) ==
    /\ Cardinality(proofs) < MaxProofs
    /\ proofs' = proofs \cup {p}
    /\ UNCHANGED stateVars

CreateWitnessProof(a, K) == Keep(WitnessProof(cells, a, K))

\* Extract succeeds on the proof's own root and account; the part that is
\* known is returned even if some slots are not.
Extract(p, K) == Keep(Extracted(p, K))

\* The state moves on, or somebody makes a proof.
WitnessNext ==
    \/ Next /\ UNCHANGED proofs
    \/ \E a \in Address, K \in SUBSET Slot : CreateWitnessProof(a, K)
    \/ \E p \in proofs, K \in SUBSET Slot : Extract(p, K)

WitnessSpec == WitnessInit /\ [][WitnessNext]_witnessVars

-----------------------------------------------------------------------------
(* Properties.                                                             *)

\* Types: a proof is about one account of a state that was there, and has no
\* data of an account that does not exist.
WitnessTypeOK ==
    \A p \in proofs :
        /\ DOMAIN p.rootHash = TreeKey
        /\ p.address \in Address
        /\ p.info.balance \in Nat /\ p.info.nonce \in Nat /\ p.info.exists \in BOOLEAN
        /\ ~ p.info.exists => p.info = NoInfo
        /\ DOMAIN p.storage \subseteq Slot
        /\ \A k \in DOMAIN p.storage : p.storage[k] \in Word

\* The root hashes there are: those of the proofs, and of the state as it
\* is by now.
Roots == {cells} \cup {p.rootHash : p \in proofs}

\* What a getter of a proof answers when it is asked for a root and an account
\* is so in the state with this root: however far the state has moved on,
\* whatever other proofs there are, and also if the proof was extracted from
\* others.  Its code hash is the hash of the code that GetCode returns in that
\* state; only an account without code can have none.
\* The elements of an account say the same of its balance, nonce and slots.
\* Of the code hash they do so if the account exists; for an account that has
\* neither nonce nor balance they give the zero hash, known and all, although
\* the account may have code.
AnswersMatchRoot ==
    \A p \in proofs, r \in Roots, a \in Address :
        /\ ProvenBalance(p, r, a) \in {GetBalance(r, a), Unknown}
        /\ ProvenNonce(p, r, a) \in {GetNonce(r, a), Unknown}
        /\ ProvenCodeHash(p, r, a) \in {GetCodeHash(r, a), Unknown}
        /\ ProvenCodeHash(p, r, a) \in
                {Keccak256(GetCode(r, a)), Unknown}
                    \cup {x \in {Zero} : GetCode(r, a) = <<>>}
        /\ \A k \in Slot :
            /\ ProvenState(p, r, a, k) \in {GetStorage(r, a, k), Unknown}
            /\ GetStorageElements(p, r, a, k) \in {<<k, GetStorage(r, a, k)>>, Unknown}
        /\ GetAccountElements(p, r, a) \in
                {[balance |-> GetBalance(r, a), nonce |-> GetNonce(r, a),
                  codeHash |-> IF Exists(r, a) THEN GetCodeHash(r, a) ELSE Zero,
                  storageRoot |-> r], Unknown}

\* The getters know the data of the proof's account, all of it or none: just
\* if the account has a nonce or a balance in the state of the proof.  Of one
\* that has only code or storage the code hash is unknown, although it is
\* set.  A proof that IsValid rejects has nothing to tell: it is right, but
\* of a state without any account.
KnownIfFunded ==
    \A p \in proofs :
        /\ Knows(p, p.rootHash, p.address) <=>
                \/ GetNonce(p.rootHash, p.address) # 0
                \/ GetBalance(p.rootHash, p.address) # 0
        /\ ~ IsValid(p) =>
            /\ ~ p.info.exists
            /\ \A k \in DOMAIN p.storage : p.storage[k] = Zero

\* If a proof denies that a range is empty, it is right, in the state with
\* the root it is asked about: AllAddressesEmpty, that an account in the
\* range is not empty; AllStatesZero, that a slot in the range is not zero.
DenialsAreRight ==
    \A p \in proofs, r \in Roots, from, to \in Address \cup Slot :
        /\ AllAddressesEmpty(p, r, from, to) = FALSE =>
            \E a \in Address \cap (from .. to) : Exists(r, a)
        /\ \A a \in Address :
            AllStatesZero(p, r, a, from, to) = FALSE =>
                \E k \in Slot \cap (from .. to) : GetStorage(r, a, k) # Zero

\* README.md: "Range queries for empty accounts and storage", and in the code:
\* "Check all storage slots in the range".  If AllStatesZero confirms, all
\* slots in the range are zero in the state with the root.
AllStatesZeroHolds ==
    \A p \in proofs, r \in Roots, a \in Address, from, to \in Slot :
        AllStatesZero(p, r, a, from, to) = TRUE =>
            \A k \in Slot \cap (from .. to) : GetStorage(r, a, k) = Zero

\* The elements that GetElements writes out tell a proof but for its root
\* hash: the account, its data and the slots, and also whether the account
\* is there, for which they have no field.
ElementsTellAnswers ==
    \A p, q \in proofs : GetElements(p) = GetElements(q) =>
        /\ p.address = q.address
        /\ p.info = q.info
        /\ p.storage = q.storage
=============================================================================
