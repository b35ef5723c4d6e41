------------------------------ MODULE GethState ------------------------------
(***************************************************************************)
(* The adapter to go-ethereum's Verkle trie, geth/state.go, with the       *)
(* sources its nodes are stored in, geth/node_source.go and                *)
(* geth/memory_source.go.                                                  *)
(*                                                                         *)
(* go-ethereum's trie is modelled from how it is used: a tree of one root  *)
(* and one node for each stem in use.  A node is in memory or only its     *)
(* commitment is; then it is read from the source when it is needed, by    *)
(* its path, and what is read is not compared with the commitment.  A      *)
(* commitment is what it commits to.  Sources are an interface: its calls  *)
(* may fail, as those of the source that the tests inject errors with.     *)
(*                                                                         *)
(* Of the library are left out: inner nodes, which come and go as stems    *)
(* split; that a balance is cut to 16 bytes; and the slots in the node of  *)
(* an account, its first 64.  Setting one of these makes the node, so that *)
(* GetAccount finds an account there; the slot in use here is another one. *)
(***************************************************************************)
EXTENDS Naturals, Sequences, FiniteSets

CONSTANTS
    Address,     \* the accounts in use
    Code,        \* the codes in use, sequences of bytes
    LongCode,    \* those with chunks that are not in the node of the account
    Zero,        \* a storage value that was never set
    Absent,      \* no such node
    Hashed,      \* a node that is not in memory
    Update,      \* the updates in use, each a set of setter calls
    MaxFaults    \* bound: how many calls of the source fail

Stem == Address \X {"account", "code", "storage"}

Root == <<>>

\* A setter call has the fields op, a and v.  An update has one at most for a
\* field of an account.
Call == UNION Update

\* The fields of an account.
AccountData == [nonce : Nat, balance : Nat, hash : Seq(Nat), size : Nat]

ASSUME GethAssumption ==
    /\ LongCode \subseteq Code /\ Code \subseteq Seq(Nat)
    /\ Absent # Hashed
    /\ {Absent, Hashed} \cap (AccountData \cup Code) = {}
    /\ \A s \in Call :
        /\ s.a \in Address
        /\ s.op \in {"create", "delete", "nonce", "balance", "code", "storage"}
        /\ s.op \in {"nonce", "balance"} => s.v \in Nat
        /\ s.op = "code" => s.v \in Code
        /\ s.op = "storage" => s.v \notin {Absent, Hashed}
    /\ \A u \in Update :
        /\ IsFiniteSet(u)
        /\ \A s, t \in u : s.op = t.op /\ s.a = t.a => s = t
    /\ MaxFaults \in Nat

VARIABLES
    persistent,   \* whether NewStateWithSource made the state, or NewState
    memory,       \* the nodes of verkleState.verkle
    committed,    \* what the root was read from the source with
    source,       \* NodeSource: the nodes at the paths of stems
    sourceRoot,   \* the node at the empty path, or Absent
    codes,        \* verkleState.codes, or Absent
    call,         \* the Apply that runs: phase, what it still has to do, errors
    last,         \* history: the last update, the state it found, how it ended
    torn,         \* history: the accounts whose last SetCode failed half way
    faults        \* how many calls have failed

trie == <<memory, committed>>
disk == <<source, sourceRoot>>
vars == <<persistent, trie, disk, codes, call, last, torn, faults>>

NoNodes == [p \in Stem |-> Absent]
Idle == [phase |-> "idle", todo |-> {}, failed |-> FALSE]

-----------------------------------------------------------------------------
(* The trie.                                                               *)

\* What is read at a stem, if the source does not fail.
Read(p) == IF memory[p] = Hashed THEN source[p] ELSE memory[p]

\* What the root hash says of a stem.
Committed(p) == IF memory[p] = Hashed THEN committed[p] ELSE memory[p]

\* The nodes in memory once that of a stem has been used.
Loaded(p) == [memory EXCEPT ![p] = Read(p)]

\* A node that is needed is there.
Available(p) == memory[p] = Hashed => source[p] # Absent

\* A call of the source fails.
Fault == faults < MaxFaults /\ faults' = faults + 1

\* Reading a node fails: the source does, or has no such node.
LoadFails(p) ==
    /\ memory[p] = Hashed
    /\ Fault \/ (source[p] = Absent /\ UNCHANGED faults)

\* types.NewEmptyStateAccount.  The hash of a code is the code, that of no
\* code is that of the empty code.
EmptyAccount == [nonce |-> 0, balance |-> 0, hash |-> <<>>, size |-> 0]

Account(node) == IF node = Absent THEN EmptyAccount ELSE node

-----------------------------------------------------------------------------
(* Getters, as they answer if no call of the source fails.                 *)

getAccount(a) == Account(Read(<<a, "account">>))
GetNonce(a) == getAccount(a).nonce
GetBalance(a) == getAccount(a).balance
GetCodeHash(a) == getAccount(a).hash
GetStorage(a) == LET value == Read(<<a, "storage">>)
                 IN  IF value = Absent THEN Zero ELSE value
GetCode(a) == IF codes[a] = Absent THEN <<>> ELSE codes[a]
GetCodeSize(a) == Len(GetCode(a))

-----------------------------------------------------------------------------

Init ==
    /\ persistent \in BOOLEAN
    /\ memory = NoNodes /\ committed = NoNodes
    /\ source = NoNodes /\ sourceRoot = Absent
    /\ codes = [a \in Address |-> Absent]
    /\ call = Idle
    /\ last = [update |-> {}, base |-> <<>>, outcome |-> "none"]
    /\ torn = {}
    /\ faults = 0

\* Variant of Return that keeps the errors for the next Apply.
ReturnWithErrors(outcome) ==
    /\ call' = [call EXCEPT !.phase = "idle", !.todo = {}]
    /\ last' = [last EXCEPT !.outcome = outcome]

\* Apply returns.
Return(outcome) ==
    /\ call' = Idle
    /\ last' = [last EXCEPT !.outcome = outcome]

\* The accounts, as the getters tell them.
View ==
    [a \in Address |->
        [nonce |-> GetNonce(a), balance |-> GetBalance(a),
         code |-> GetCode(a), slots |-> [k \in {0} |-> GetStorage(a)]]]

\* Apply begins with update.ApplyTo.  If it is the update that has just
\* failed, this is another attempt at it.
Begin(u) ==
    /\ call.phase = "idle"
    /\ call' = [phase |-> "update", todo |-> u, failed |-> FALSE]
    /\ last' = [update  |-> u,
                base    |-> IF last.outcome = "error" /\ last.update = u
                            THEN last.base ELSE View,
                outcome |-> "running"]
    /\ UNCHANGED <<persistent, trie, disk, codes, torn, faults>>

-----------------------------------------------------------------------------
(* The setters.  The order in which ApplyTo calls them is left open.       *)

Done(s) ==
    /\ call' = [call EXCEPT !.todo = @ \ {s}]
    /\ UNCHANGED <<persistent, committed, disk, last, faults>>

\* The node of account a is written again, with one field changed by the
\* caller; the size it gets is that of the code in the map.
UpdateAccount(a, account, size) ==
    /\ Available(<<a, "account">>)
    /\ memory' = [memory EXCEPT ![<<a, "account">>] = [account EXCEPT !.size = size]]

SetNonce(s) ==
    /\ s.op = "nonce"
    /\ UpdateAccount(s.a, [getAccount(s.a) EXCEPT !.nonce = s.v], GetCodeSize(s.a))
    /\ UNCHANGED <<codes, torn>>
    /\ Done(s)

SetBalance(s) ==
    /\ s.op = "balance"
    /\ UpdateAccount(s.a, [getAccount(s.a) EXCEPT !.balance = s.v], GetCodeSize(s.a))
    /\ UNCHANGED <<codes, torn>>
    /\ Done(s)

\* Variant of CreateAccount that empties an account that is there.
CreateAccountAfresh(s) ==
    /\ s.op = "create"
    /\ UpdateAccount(s.a, EmptyAccount, 0)
    /\ UNCHANGED <<codes, torn>>
    /\ Done(s)

\* An account that is there is left as it is.
CreateAccount(s) ==
    /\ s.op = "create"
    /\ IF Read(<<s.a, "account">>) = Absent
       THEN UpdateAccount(s.a, EmptyAccount, 0)
       ELSE memory' = Loaded(<<s.a, "account">>)
    /\ Available(<<s.a, "account">>)
    /\ UNCHANGED <<codes, torn>>
    /\ Done(s)

SetStorage(s) ==
    /\ s.op = "storage"
    /\ Available(<<s.a, "storage">>)
    /\ memory' = [memory EXCEPT ![<<s.a, "storage">>] = s.v]
    /\ UNCHANGED <<codes, torn>>
    /\ Done(s)

\* The account with the hash and the length of code c, then the chunks c.
AccountOfCode(a, c) == [getAccount(a) EXCEPT !.hash = c, !.size = Len(c)]
WithCode(a, c) ==
    [memory EXCEPT ![<<a, "account">>] = AccountOfCode(a, c),
                   ![<<a, "code">>] = IF c \in LongCode THEN c ELSE @]

\* Variant of SetCode that leaves the map to the next start.
SetCodeNoMap(s) ==
    /\ s.op = "code"
    /\ Available(<<s.a, "account">>)
    /\ memory' = WithCode(s.a, s.v)
    /\ UNCHANGED <<codes, torn>>
    /\ Done(s)

SetCode(s) ==
    /\ s.op = "code"
    /\ Available(<<s.a, "account">>)
    /\ s.v \in LongCode => Available(<<s.a, "code">>)
    /\ memory' = WithCode(s.a, s.v)
    /\ codes' = [codes EXCEPT ![s.a] = s.v]
    /\ torn' = torn \ {s.a}
    /\ Done(s)

\* The chunks cannot be written when the hash and the length have been.
SetCodeFails(s) ==
    /\ s.op = "code"
    /\ Available(<<s.a, "account">>)
    /\ s.v \in LongCode /\ LoadFails(<<s.a, "code">>)
    /\ memory' = [memory EXCEPT ![<<s.a, "account">>] = AccountOfCode(s.a, s.v)]
    /\ torn' = torn \cup {s.a}
    /\ Return("error")
    /\ UNCHANGED <<persistent, committed, disk, codes>>

\* A setter fails that has changed nothing; DeleteAccount always does.
SetterFails(s) ==
    /\ \/ s.op = "delete" /\ UNCHANGED faults
       \/ s.op = "storage" /\ LoadFails(<<s.a, "storage">>)
       \/ s.op \notin {"delete", "storage"} /\ LoadFails(<<s.a, "account">>)
    /\ Return("error")
    /\ UNCHANGED <<persistent, trie, disk, codes, torn>>

ApplyTo ==
    /\ call.phase = "update"
    /\ \E s \in call.todo :
        \/ SetNonce(s) \/ SetBalance(s) \/ CreateAccount(s) \/ SetStorage(s)
        \/ SetCode(s) \/ SetCodeFails(s) \/ SetterFails(s)

-----------------------------------------------------------------------------
(* The rest of persistentVerkleState.Apply.                                *)

\* Variant of NodeSet with the nodes of the update only.
NodeSetOfUpdate ==
    {Root} \cup {p \in Stem :
        memory[p] \notin {Hashed, Absent} /\ \E s \in last.update : s.a = p[1]
        /\ (s.op = "storage" <=> p[2] = "storage")}

\* The nodes that VerkleTrie.Commit returns: all that are in memory.
NodeSet == {Root} \cup {p \in Stem : memory[p] \notin {Hashed, Absent}}

\* The setters are through.  A verkleState has nothing else to do.
Commit ==
    /\ call.phase = "update" /\ call.todo = {}
    /\ IF persistent
       THEN /\ call' = [phase |-> "commit", todo |-> NodeSet, failed |-> FALSE]
            /\ UNCHANGED last
       ELSE Return("ok")
    /\ UNCHANGED <<persistent, trie, disk, codes, torn, faults>>

\* An error is kept for later; the other nodes are written nevertheless.
WriteFails(p) ==
    /\ Fault
    /\ call' = [call EXCEPT !.todo = @ \ {p}, !.failed = TRUE]
    /\ UNCHANGED disk

\* NodeSource.set, for one node after the other, in the order of a Go map.
WriteNode(p) ==
    /\ \/ /\ IF p = Root
             THEN sourceRoot' = [q \in Stem |-> Committed(q)] /\ UNCHANGED source
             ELSE source' = [source EXCEPT ![p] = memory[p]] /\ UNCHANGED sourceRoot
          /\ call' = [call EXCEPT !.todo = @ \ {p}]
          /\ UNCHANGED faults
       \/ WriteFails(p)
    /\ UNCHANGED <<persistent, trie, codes, last, torn>>

Write == call.phase = "commit" /\ \E p \in call.todo : WriteNode(p)

\* Variant of Recreate that forgets errors.
RecreateAnyway ==
    /\ call.phase = "commit" /\ call.todo = {}
    /\ memory' = [p \in Stem |-> IF Committed(p) = Absent THEN Absent ELSE Hashed]
    /\ committed' = [p \in Stem |-> Committed(p)]
    /\ Return(IF call.failed THEN "error" ELSE "ok")
    /\ UNCHANGED <<persistent, disk, codes, torn, faults>>

\* Variant of Recreate that writes again after an error, which it keeps.
RecreateOrWriteAgain ==
    /\ call.phase = "commit" /\ call.todo = {}
    /\ IF call.failed
       THEN call' = [call EXCEPT !.todo = NodeSet] /\ UNCHANGED <<trie, last>>
       ELSE /\ memory' = [p \in Stem |-> IF sourceRoot[p] = Absent THEN Absent ELSE Hashed]
            /\ committed' = sourceRoot
            /\ Return("ok")
    /\ UNCHANGED <<persistent, disk, codes, torn, faults>>

\* NewVerkleTrie reads the root from the source and drops all other nodes.
\* If a node was not written, or the root is not read, the trie stays as it
\* is, with all its nodes.  That of an empty trie is not read.
Recreate ==
    /\ call.phase = "commit" /\ call.todo = {}
    /\ \/ /\ ~ call.failed
          /\ memory' = [p \in Stem |-> IF sourceRoot[p] = Absent THEN Absent ELSE Hashed]
          /\ committed' = sourceRoot
          /\ Return("ok")
          /\ UNCHANGED faults
       \/ /\ call.failed
          /\ Return("error")
          /\ UNCHANGED <<trie, faults>>
       \/ /\ ~ call.failed
          /\ \E p \in Stem : sourceRoot[p] # Absent
          /\ Fault
          /\ Return("error")
          /\ UNCHANGED trie
    /\ UNCHANGED <<persistent, disk, codes, torn>>

-----------------------------------------------------------------------------

\* A getter uses the node of a stem; it is in memory from then on.
Get(p) ==
    /\ call.phase = "idle"
    /\ memory[p] = Hashed /\ Available(p)
    /\ memory' = Loaded(p)
    /\ UNCHANGED <<persistent, committed, disk, codes, call, last, torn, faults>>

\* Variant of Reopen that reads the root that is there.
ReopenFromSource ==
    /\ persistent
    /\ memory' = [p \in Stem |-> IF sourceRoot = Absent \/ sourceRoot[p] = Absent
                                 THEN Absent ELSE Hashed]
    /\ committed' = IF sourceRoot = Absent THEN NoNodes ELSE sourceRoot
    /\ codes' = [a \in Address |-> Absent]
    /\ call' = Idle
    /\ last' = [last EXCEPT !.outcome = "none"]
    /\ torn' = {}
    /\ UNCHANGED <<persistent, disk, faults>>

\* The process ends, in whatever it does, and NewStateWithSource is called
\* with the source that is left.  It starts with the root hash of the empty
\* trie, so no node of the source is read.
Reopen ==
    /\ persistent
    /\ memory' = NoNodes /\ committed' = NoNodes
    /\ codes' = [a \in Address |-> Absent]
    /\ call' = Idle
    /\ last' = [last EXCEPT !.outcome = "none"]
    /\ torn' = {}
    /\ UNCHANGED <<persistent, disk, faults>>

Step == ApplyTo \/ Commit \/ Write \/ Recreate

Next ==
    \/ \E u \in Update : Begin(u)
    \/ Step
    \/ \E p \in Stem : Get(p)
    \/ Reopen

\* The goroutine that called Apply goes on.
Fairness == WF_vars(Step)

Spec == Init /\ [][Next]_vars /\ Fairness

-----------------------------------------------------------------------------
(* Properties.                                                             *)

\* Types; while Apply runs its setters or commits, nothing is pending that
\* is not part of the update or of the trie.
TypeOK ==
    /\ persistent \in BOOLEAN
    /\ DOMAIN memory = Stem /\ DOMAIN committed = Stem /\ DOMAIN source = Stem
    /\ codes \in [Address -> Code \cup {Absent}]
    /\ call.phase \in {"idle", "update", "commit"}
    /\ call.phase = "idle" => call = Idle
    /\ call.phase = "update" => call.todo \subseteq last.update
    /\ call.phase = "commit" => call.todo \subseteq NodeSet
    /\ torn \subseteq Address
    /\ faults \in 0 .. MaxFaults

\* A node that is not in memory is on the source with just the content that
\* the root commits to, though a commit writes node by node, in any order,
\* writes may fail and the source may be left by a process that ended in the
\* middle of one.  So the values that are read are those of the root hash.
SourceBacksRoot ==
    \A p \in Stem : memory[p] = Hashed =>
        /\ committed[p] # Absent
        /\ source[p] = committed[p]

\* The hash and the length of an account's code are those of the code in the
\* map, unless a SetCode of the account failed between its two steps.
CodeMatchesHash ==
    \A a \in Address \ torn :
        /\ getAccount(a).hash = GetCode(a)
        /\ getAccount(a).size = GetCodeSize(a)

\* The value that update u gives to a field of account a, or the old one.
NewOr(u, op, a, old) ==
    IF \E s \in u : s.op = op /\ s.a = a
    THEN (CHOOSE s \in u : s.op = op /\ s.a = a).v
    ELSE old

\* An Apply that succeeds has done all of its update and nothing else, also
\* if earlier attempts at the same update failed after some of its setters
\* or some of its writes: the state is the one before the first attempt with
\* the update applied.  Accounts whose code it sets have the hash and the
\* size of this code, even if an earlier SetCode failed half way.
RetryCompletes ==
    last.outcome = "ok" =>
        /\ View = [a \in Address |->
            LET old == last.base[a] IN
            [nonce   |-> NewOr(last.update, "nonce", a, old.nonce),
             balance |-> NewOr(last.update, "balance", a, old.balance),
             code    |-> NewOr(last.update, "code", a, old.code),
             slots   |-> [k \in {0} |-> NewOr(last.update, "storage", a, old.slots[0])]]]
        /\ \A s \in last.update : s.op = "code" =>
            GetCodeHash(s.a) = s.v /\ getAccount(s.a).size = Len(s.v)

\* An Apply that succeeds has brought every node of the trie to the source,
\* those too that an earlier Apply failed to write.
SuccessIsDurable ==
    [][persistent /\ last.outcome = "running" /\ last'.outcome = "ok" =>
        /\ \A p \in Stem : Read(p) # Absent => source'[p] = Read(p)
        /\ sourceRoot' = [p \in Stem |-> Committed(p)]]_vars

\* A setter call as an update of the Ledger.
Single(s) ==
    LET only(op) == [x \in {y \in {s.a} : s.op = op} |-> s.v] IN
    [nonces |-> only("nonce"), balances |-> only("balance"), codes |-> only("code"),
     slots |-> [x \in {<<s.a, 0>> : t \in {y \in {s} : y.op = "storage"}} |-> s.v],
     deleted |-> {x \in {s.a} : s.op = "delete"}]

Accts == INSTANCE Ledger WITH
    Slot <- {0}, ZeroWord <- Zero, NoCode <- <<>>,
    Update <- {Single(s) : s \in Call}, accounts <- View

\* In this step setter s of the running Apply returns, without an error.
Returns(s) ==
    /\ call.phase = "update" /\ s \in call.todo
    /\ call' = [call EXCEPT !.todo = @ \ {s}]

\* When a setter of the running Apply returns, what the getters tell has
\* changed by what this call names and by nothing else, also if nodes had to
\* be read back for it.  Otherwise it only changes with the process: not by a
\* setter that fails, half of a SetCode included, by a commit, by dropping
\* nodes from memory or by reading them.  A state that is opened again is an
\* empty one, whatever the source holds.
RefinesLedger ==
    /\ Accts!Init
    /\ [][/\ \A s \in call.todo : Returns(s) => Accts!Apply(Single(s))
          /\ Reopen => Accts!Init'
          /\ View' # View => Reopen \/ \E s \in call.todo : Returns(s)]_vars

\* Every Apply returns, whatever fails.
ApplyReturns == call.phase # "idle" ~> call.phase = "idle"
=============================================================================
