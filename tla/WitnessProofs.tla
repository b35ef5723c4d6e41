---------------------------- MODULE WitnessProofs ----------------------------
(***************************************************************************)
(* What TLAPS proves about Witness, for any accounts, slots and updates:   *)
(* what the getters and elements of a proof say is so in the state with    *)
(* the root that is asked for, and of which accounts they know the data.   *)
(*                                                                         *)
(* Each proof holds what the getters told of the trie it names (Told), and *)
(* Extract keeps a part of that.                                           *)
(***************************************************************************)
EXTENDS Witness, AccountsProofs

\* Proof p tells of its account what the trie it names holds.
Told(p) ==
    LET info == getAccountInfo(p.rootHash, p.address) IN
    /\ DOMAIN p = {"rootHash", "address", "info", "storage"}
    /\ p.address \in Address
    /\ p.info = IF info.exists THEN info ELSE NoInfo
    /\ DOMAIN p.storage \subseteq Slot
    /\ p.storage = [k \in DOMAIN p.storage |-> GetStorage(p.rootHash, p.address, k)]

\* The state is one that Accounts can reach, and so was the one of each proof.
ProofsInv ==
    /\ IInv
    /\ \A p \in proofs :
        /\ Told(p)
        /\ CellsOK(p.rootHash)
        /\ CodeInv(p.rootHash)

LEMMA CreatedIsTold ==
    ASSUME NEW c, NEW a \in Address, NEW K \in SUBSET Slot
    PROVE  Told(WitnessProof(c, a, K))
BY DEF Told, WitnessProof

LEMMA ExtractedIsTold ==
    ASSUME NEW p, Told(p), NEW K
    PROVE  Told(Extracted(p, K))
<1> DEFINE q == Extracted(p, K)
<1>1. /\ q.rootHash = p.rootHash /\ q.address = p.address /\ q.info = p.info
      /\ DOMAIN q = {"rootHash", "address", "info", "storage"}
      /\ q.storage = [k \in K \cap DOMAIN p.storage |-> p.storage[k]]
  BY DEF Told, Extracted
<1>2. \A k \in DOMAIN p.storage : p.storage[k] = GetStorage(p.rootHash, p.address, k)
  BY DEF Told
<1>3. DOMAIN q.storage = K \cap DOMAIN p.storage
  BY <1>1
<1>4. \A k \in DOMAIN q.storage : q.storage[k] = GetStorage(q.rootHash, q.address, k)
  BY <1>1, <1>2, <1>3
<1> HIDE DEF q
<1>5. q.storage = [k \in DOMAIN q.storage |-> GetStorage(q.rootHash, q.address, k)]
  BY <1>1, <1>3, <1>4
<1>6. Told(q)
  BY <1>1, <1>3, <1>5 DEF Told
<1> QED
  BY <1>6 DEF q

\* What an account's record in a proof tells.
LEMMA InfoTold ==
    ASSUME NEW p, Told(p)
    PROVE  /\ p.info.exists <=> Exists(p.rootHash, p.address)
           /\ p.info.exists =>
                /\ p.info.balance = GetBalance(p.rootHash, p.address)
                /\ p.info.nonce = GetNonce(p.rootHash, p.address)
                /\ p.info.codeHash = GetCodeHash(p.rootHash, p.address)
BY DEF Told, getAccountInfo, NoInfo

LEMMA SlotTold ==
    ASSUME NEW p, Told(p), NEW k \in DOMAIN p.storage
    PROVE  p.storage[k] = GetStorage(p.rootHash, p.address, k)
BY DEF Told

LEMMA ProofsNext == ProofsInv /\ [WitnessNext]_witnessVars => ProofsInv'
<1> SUFFICES ASSUME ProofsInv, [WitnessNext]_witnessVars PROVE ProofsInv'
  OBVIOUS
<1>1. CASE Next /\ UNCHANGED proofs
  BY <1>1, NextIInv DEF ProofsInv
<1>2. ASSUME NEW p, Told(p), CellsOK(p.rootHash), CodeInv(p.rootHash), Keep(p)
      PROVE  ProofsInv'
  <2>1. IInv'
    BY <1>2, NextIInv DEF Keep, ProofsInv
  <2> QED
    BY <1>2, <2>1 DEF Keep, ProofsInv
<1>3. ASSUME NEW a \in Address, NEW K \in SUBSET Slot, CreateWitnessProof(a, K)
      PROVE  ProofsInv'
  <2>1. WitnessProof(cells, a, K).rootHash = cells
    BY DEF WitnessProof
  <2> QED
    BY <1>2, <1>3, <2>1, CreatedIsTold DEF CreateWitnessProof, ProofsInv, IInv
<1>4. ASSUME NEW p \in proofs, NEW K \in SUBSET Slot, Extract(p, K)
      PROVE  ProofsInv'
  <2>1. Extracted(p, K).rootHash = p.rootHash
    BY DEF ProofsInv, Told, Extracted
  <2> QED
    BY <1>2, <1>4, <2>1, ExtractedIsTold DEF Extract, ProofsInv
<1>5. CASE UNCHANGED witnessVars
  <2>1. IInv'
    BY <1>5, NextIInv DEF witnessVars, ProofsInv
  <2> QED
    BY <1>5, <2>1 DEF witnessVars, ProofsInv
<1> QED
  BY <1>1, <1>3, <1>4, <1>5 DEF WitnessNext

\* Every proof a caller holds tells what the trie with its root holds.
THEOREM ProofsCorrect == WitnessSpec => []ProofsInv
<1>1. WitnessInit => ProofsInv
  BY InitIInv DEF WitnessInit, ProofsInv
<1> QED
  BY <1>1, ProofsNext, PTL DEF WitnessSpec

\* A proof is a record of values of their kinds, and has no data of an account
\* that does not exist.
THEOREM WitnessTypeCorrect == WitnessSpec => []WitnessTypeOK
<1>1. ProofsInv => WitnessTypeOK
  <2> SUFFICES ASSUME ProofsInv, NEW p \in proofs
               PROVE  /\ DOMAIN p.rootHash = TreeKey
                      /\ p.address \in Address
                      /\ p.info.balance \in Nat /\ p.info.nonce \in Nat
                      /\ p.info.exists \in BOOLEAN
                      /\ ~ p.info.exists => p.info = NoInfo
                      /\ DOMAIN p.storage \subseteq Slot
                      /\ \A k \in DOMAIN p.storage : p.storage[k] \in Word
    BY DEF WitnessTypeOK
  <2>1. Told(p) /\ CellsOK(p.rootHash) /\ p.address \in Address
    BY DEF ProofsInv, Told
  <2>2. Basic(p.rootHash, p.address) \in BasicData
    BY <2>1 DEF CellsOK
  <2>3. p.info.balance \in Nat /\ p.info.nonce \in Nat /\ p.info.exists \in BOOLEAN
    <3> DEFINE info == getAccountInfo(p.rootHash, p.address)
    <3>1. info.balance \in Nat /\ info.nonce \in Nat /\ info.exists \in BOOLEAN
      BY <2>2 DEF getAccountInfo, GetBalance, GetNonce, Exists, BasicData
    <3>2. NoInfo.balance \in Nat /\ NoInfo.nonce \in Nat /\ NoInfo.exists \in BOOLEAN
      BY DEF NoInfo
    <3>3. p.info = info \/ p.info = NoInfo
      BY <2>1 DEF Told
    <3> HIDE DEF info
    <3> QED
      BY <3>1, <3>2, <3>3
  <2>4. ASSUME NEW k \in DOMAIN p.storage PROVE p.storage[k] \in Word
    BY <2>1, SlotTold DEF CellsOK, Told
  <2>5. ~ p.info.exists => p.info = NoInfo
    BY <2>1 DEF Told
  <2> QED
    BY <2>1, <2>3, <2>4, <2>5 DEF CellsOK, Told
<1> QED
  BY <1>1, ProofsCorrect, PTL

\* What the getters and the elements of a proof tell is so in the state with
\* the root that is asked for, the code hash among the elements excepted:
\* vtWitnessProof compares the root and the account first.
THEOREM AnswersCorrect == WitnessSpec => []AnswersMatchRoot
<1>1. ProofsInv => AnswersMatchRoot
  <2> SUFFICES ASSUME ProofsInv, NEW p \in proofs, NEW r \in Roots, NEW a \in Address
               PROVE  /\ ProvenBalance(p, r, a) \in {GetBalance(r, a), Unknown}
                      /\ ProvenNonce(p, r, a) \in {GetNonce(r, a), Unknown}
                      /\ ProvenCodeHash(p, r, a) \in {GetCodeHash(r, a), Unknown}
                      /\ ProvenCodeHash(p, r, a) \in
                            {Keccak256(GetCode(r, a)), Unknown}
                                \cup {x \in {Zero} : GetCode(r, a) = <<>>}
                      /\ \A k \in Slot :
                            /\ ProvenState(p, r, a, k) \in {GetStorage(r, a, k), Unknown}
                            /\ GetStorageElements(p, r, a, k) \in
                                    {<<k, GetStorage(r, a, k)>>, Unknown}
                      /\ GetAccountElements(p, r, a) \in
                            {[balance |-> GetBalance(r, a), nonce |-> GetNonce(r, a),
                              codeHash |-> IF Exists(r, a) THEN GetCodeHash(r, a) ELSE Zero,
                              storageRoot |-> r], Unknown}
    BY DEF AnswersMatchRoot
  <2>1. Told(p) /\ CodeInv(p.rootHash)
    BY DEF ProofsInv
  <2>2. \/ ProvenCodeHash(p, r, a) = Unknown
        \/ ProvenCodeHash(p, r, a) = GetCodeHash(r, a) /\ r = p.rootHash
    BY <2>1, InfoTold DEF ProvenCodeHash, Knows, About
  <2>3. ProvenCodeHash(p, r, a) \in
            {Keccak256(GetCode(r, a)), Unknown} \cup {x \in {Zero} : GetCode(r, a) = <<>>}
    BY <2>1, <2>2, CodeHashOf
  <2>4. ProvenCodeHash(p, r, a) \in {GetCodeHash(r, a), Unknown}
    BY <2>2
  <2>5. ASSUME NEW k \in Slot
        PROVE  /\ ProvenState(p, r, a, k) \in {GetStorage(r, a, k), Unknown}
               /\ GetStorageElements(p, r, a, k) \in {<<k, GetStorage(r, a, k)>>, Unknown}
    BY <2>1, SlotTold DEF ProvenState, GetStorageElements, About
  <2>6. ASSUME r = p.rootHash, a = p.address
        PROVE  /\ p.info.balance = GetBalance(r, a)
               /\ p.info.nonce = GetNonce(r, a)
               /\ p.info.codeHash = IF Exists(r, a) THEN GetCodeHash(r, a) ELSE Zero
    <3>1. CASE Exists(r, a)
      BY <2>1, <2>6, <3>1, InfoTold
    <3>2. CASE ~ Exists(r, a)
      <4>1. GetNonce(r, a) = 0 /\ GetBalance(r, a) = 0
        BY <3>2 DEF Exists, GetNonce, GetBalance
      <4>2. p.info = NoInfo
        BY <2>1, <2>6, <3>2, InfoTold DEF Told, getAccountInfo
      <4> QED
        BY <3>2, <4>1, <4>2 DEF NoInfo
    <3> QED
      BY <3>1, <3>2
  <2>7. GetAccountElements(p, r, a) \in
            {[balance |-> GetBalance(r, a), nonce |-> GetNonce(r, a),
              codeHash |-> IF Exists(r, a) THEN GetCodeHash(r, a) ELSE Zero,
              storageRoot |-> r], Unknown}
    BY <2>6 DEF GetAccountElements, About
  <2> QED
    BY <2>1, <2>3, <2>4, <2>5, <2>7, InfoTold
       DEF ProvenBalance, ProvenNonce, Knows, About
<1> QED
  BY <1>1, ProofsCorrect, PTL

\* What the getters tell of the empty trie.
LEMMA EmptyTrie ==
    ASSUME NEW a \in Address
    PROVE  /\ ~ Exists(NoCells, a)
           /\ \A k \in Slot : GetStorage(NoCells, a, k) = Zero
<1>1. ASSUME NEW k \in TreeKey PROVE Get(NoCells, k) = Zero
  BY <1>1 DEF NoCells, Get
<1>2. getBasicDataKey(a) \in TreeKey /\ \A k \in Slot : getStorageKey(a, k) \in TreeKey
  BY DEF TreeKey, KeysOf
<1>3. Basic(NoCells, a) = NoData
  BY <1>1, <1>2 DEF Basic, Unpacked
<1> QED
  BY <1>1, <1>2, <1>3 DEF Exists, NoData, GetStorage

\* The getters of a proof know the data of its account just if that has a
\* nonce or a balance; a proof that IsValid rejects has nothing to tell.
THEOREM KnownCorrect == WitnessSpec => []KnownIfFunded
<1>1. ProofsInv => KnownIfFunded
  <2> SUFFICES ASSUME ProofsInv, NEW p \in proofs
               PROVE  /\ Knows(p, p.rootHash, p.address) <=>
                            \/ GetNonce(p.rootHash, p.address) # 0
                            \/ GetBalance(p.rootHash, p.address) # 0
                      /\ ~ IsValid(p) =>
                            /\ ~ p.info.exists
                            /\ \A k \in DOMAIN p.storage : p.storage[k] = Zero
    BY DEF KnownIfFunded
  <2>1. Told(p)
    BY DEF ProofsInv
  <2>2. Knows(p, p.rootHash, p.address) <=>
            \/ GetNonce(p.rootHash, p.address) # 0
            \/ GetBalance(p.rootHash, p.address) # 0
    BY <2>1, InfoTold DEF Knows, About, Exists, GetNonce, GetBalance
  <2>3. ASSUME ~ IsValid(p)
        PROVE  ~ p.info.exists /\ \A k \in DOMAIN p.storage : p.storage[k] = Zero
    <3>1. p.rootHash = NoCells /\ p.address \in Address /\ DOMAIN p.storage \subseteq Slot
      BY <2>1, <2>3 DEF IsValid, Told
    <3> QED
      BY <2>1, <3>1, InfoTold, SlotTold, EmptyTrie
  <2> QED
    BY <2>2, <2>3
<1> QED
  BY <1>1, ProofsCorrect, PTL

\* A proof that denies a range to be empty is right in the state with the root
\* that it is asked about.
THEOREM DenialsCorrect == WitnessSpec => []DenialsAreRight
<1>1. ProofsInv => DenialsAreRight
  <2> SUFFICES ASSUME ProofsInv, NEW p \in proofs, NEW r \in Roots,
                      NEW from \in Address \cup Slot, NEW to \in Address \cup Slot
               PROVE  /\ AllAddressesEmpty(p, r, from, to) = FALSE =>
                            \E a \in Address \cap (from .. to) : Exists(r, a)
                      /\ \A a \in Address :
                            AllStatesZero(p, r, a, from, to) = FALSE =>
                                \E k \in Slot \cap (from .. to) : GetStorage(r, a, k) # Zero
    BY DEF DenialsAreRight
  <2>1. Told(p) /\ p.address \in Address /\ DOMAIN p.storage \subseteq Slot
    BY DEF ProofsInv, Told
  <2>2. Unknown # FALSE
    BY WitnessAssumption
  <2>3. ASSUME AllAddressesEmpty(p, r, from, to) = FALSE
        PROVE  \E a \in Address \cap (from .. to) : Exists(r, a)
    <3>1. r = p.rootHash /\ p.address \in from .. to /\ p.info.exists
      BY <2>2, <2>3 DEF AllAddressesEmpty
    <3> QED
      BY <2>1, <3>1, InfoTold
  <2>4. ASSUME NEW a \in Address, AllStatesZero(p, r, a, from, to) = FALSE
        PROVE  \E k \in Slot \cap (from .. to) : GetStorage(r, a, k) # Zero
    <3>1. /\ r = p.rootHash /\ a = p.address
          /\ ~ \A k \in DOMAIN p.storage \cap (from .. to) : p.storage[k] = Zero
      BY <2>2, <2>4 DEF AllStatesZero, About
    <3>2. PICK k \in DOMAIN p.storage \cap (from .. to) : p.storage[k] # Zero
      BY <3>1
    <3> QED
      BY <2>1, <3>1, <3>2, SlotTold
  <2> QED
    BY <2>3, <2>4
<1> QED
  BY <1>1, ProofsCorrect, PTL

\* Two proofs that GetElements writes out alike have the same account, data
\* and slots.
THEOREM ElementsCorrect == WitnessSpec => []ElementsTellAnswers
<1>1. ProofsInv => ElementsTellAnswers
  <2> SUFFICES ASSUME ProofsInv, NEW p \in proofs, NEW q \in proofs,
                      GetElements(p) = GetElements(q)
               PROVE  p.address = q.address /\ p.info = q.info /\ p.storage = q.storage
    BY DEF ElementsTellAnswers
  <2>1. Told(p) /\ Told(q)
    BY DEF ProofsInv
  <2>2. ASSUME NEW x, NEW y, GetElements(x) = GetElements(y)
        PROVE  /\ x.info.balance = y.info.balance /\ x.info.nonce = y.info.nonce
               /\ x.info.codeHash = y.info.codeHash /\ x.address = y.address
               /\ \A k \in DOMAIN x.storage : k \in DOMAIN y.storage
                                              /\ x.storage[k] = y.storage[k]
    <3>1. <<x.info.balance, x.info.nonce, x.info.codeHash, x.address>> \in GetElements(y)
      BY <2>2 DEF GetElements
    <3>2. \A k \in DOMAIN x.storage : <<k, x.storage[k]>> \in GetElements(y)
      BY <2>2 DEF GetElements
    <3> QED
      BY <3>1, <3>2 DEF GetElements
  <2>3. p.address = q.address
    BY <2>2
  <2>4. p.storage = q.storage
    <3>1. DOMAIN p.storage = DOMAIN q.storage
          /\ \A k \in DOMAIN p.storage : p.storage[k] = q.storage[k]
      <4>1. GetElements(q) = GetElements(p)
        OBVIOUS
      <4>2. \A k \in DOMAIN p.storage : k \in DOMAIN q.storage /\ p.storage[k] = q.storage[k]
        BY <2>2
      <4>3. \A k \in DOMAIN q.storage : k \in DOMAIN p.storage
        BY <2>2, <4>1
      <4> QED
        BY <4>2, <4>3
    <3>2. /\ p.storage = [k \in DOMAIN p.storage |-> p.storage[k]]
          /\ q.storage = [k \in DOMAIN q.storage |-> q.storage[k]]
      BY <2>1 DEF Told
    <3> QED
      BY <3>1, <3>2
  <2>5. p.info = q.info
    <3>1. ASSUME NEW x, Told(x)
          PROVE  \/ /\ x.info.nonce # 0 \/ x.info.balance # 0
                    /\ x.info = [balance |-> x.info.balance, nonce |-> x.info.nonce,
                                 codeHash |-> x.info.codeHash, exists |-> TRUE]
                 \/ x.info = NoInfo
      <4> DEFINE info == getAccountInfo(x.rootHash, x.address)
      <4>1. info = [balance |-> info.balance, nonce |-> info.nonce,
                    codeHash |-> info.codeHash,
                    exists |-> info.nonce # 0 \/ info.balance # 0]
        BY DEF getAccountInfo, Exists, GetNonce, GetBalance
      <4>2. x.info = IF info.exists THEN info ELSE NoInfo
        BY <3>1 DEF Told
      <4> HIDE DEF info
      <4>3. CASE info.nonce # 0 \/ info.balance # 0
        <5>1. info = [balance |-> info.balance, nonce |-> info.nonce,
                      codeHash |-> info.codeHash, exists |-> TRUE]
          BY <4>1, <4>3
        <5>2. info.exists
          BY <5>1
        <5> QED
          BY <4>2, <4>3, <5>1, <5>2
      <4>4. CASE ~ (info.nonce # 0 \/ info.balance # 0)
        <5>1. (info.nonce # 0 \/ info.balance # 0) = FALSE
          BY <4>4
        <5>2. info = [balance |-> info.balance, nonce |-> info.nonce,
                      codeHash |-> info.codeHash, exists |-> FALSE]
          BY <4>1, <5>1, Zenon
        <5>3. ~ info.exists
          BY <5>2
        <5> QED
          BY <4>2, <5>3
      <4> QED
        BY <4>3, <4>4
    <3>2. NoInfo.nonce = 0 /\ NoInfo.balance = 0
      BY DEF NoInfo
    <3>3. \/ p.info = NoInfo /\ q.info = NoInfo
          \/ p.info # NoInfo /\ q.info # NoInfo
      <4>1. p.info.nonce = q.info.nonce /\ p.info.balance = q.info.balance
        BY <2>2
      <4>2. \/ p.info.nonce # 0 \/ p.info.balance # 0
            \/ p.info = NoInfo
        BY <2>1, <3>1
      <4>3. \/ q.info.nonce # 0 \/ q.info.balance # 0
            \/ q.info = NoInfo
        BY <2>1, <3>1
      <4> QED
        BY <3>2, <4>1, <4>2, <4>3
    <3>4. p.info # NoInfo /\ q.info # NoInfo =>
            /\ p.info = [balance |-> p.info.balance, nonce |-> p.info.nonce,
                         codeHash |-> p.info.codeHash, exists |-> TRUE]
            /\ q.info = [balance |-> q.info.balance, nonce |-> q.info.nonce,
                         codeHash |-> q.info.codeHash, exists |-> TRUE]
      BY <2>1, <3>1
    <3> QED
      BY <2>2, <3>3, <3>4
  <2> QED
    BY <2>3, <2>4, <2>5
<1> QED
  BY <1>1, ProofsCorrect, PTL
=============================================================================
