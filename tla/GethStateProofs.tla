--------------------------- MODULE GethStateProofs ---------------------------
(***************************************************************************)
(* What TLAPS proves about GethState, for any accounts, codes and updates: *)
(* the nodes that are not in memory are on the source as the root commits  *)
(* to them, whatever fails and wherever the process ends; an Apply that    *)
(* succeeds is durable and has done its whole update, also after attempts  *)
(* that failed; code and code hash agree; the getters tell what the Ledger *)
(* tells; an Apply takes a bounded number of steps and, while the source   *)
(* answers, is never stuck.                                                *)
(*                                                                         *)
(* The argument goes by nodes.  In memory a node is either kept, or        *)
(* replaced by one that is not Hashed (MemoryStep).  A commit writes to    *)
(* the paths of nodes in memory only, so that it does not disturb those    *)
(* that are not; and when it drops all nodes without an error, each one    *)
(* was written before (CommitInv).                                         *)
(*                                                                         *)
(* What is read at a stem only changes when a setter writes it (Quiet,     *)
(* OneFieldStep); that gives the refinement of the Ledger, and, with what  *)
(* attempts at an update have done so far (AttemptInv), that an attempt    *)
(* that succeeds has done all of it.                                       *)
(***************************************************************************)
EXTENDS GethState, FiniteSetTheorems, TLAPS

Words == {s.v : s \in {t \in Call : t.op = "storage"}}

\* What can be at a stem.
Content(p) ==
    IF p[2] = "account" THEN AccountData ELSE IF p[2] = "code" THEN Code ELSE Words

NodesInv ==
    /\ DOMAIN memory = Stem /\ DOMAIN committed = Stem /\ DOMAIN source = Stem
    /\ \A p \in Stem :
        /\ memory[p] \in Content(p) \cup {Absent, Hashed}
        /\ committed[p] \in Content(p) \cup {Absent}
        /\ source[p] \in Content(p) \cup {Absent}

CallInv ==
    /\ persistent \in BOOLEAN
    /\ DOMAIN call = {"phase", "todo", "failed"} /\ call.failed \in BOOLEAN
    /\ DOMAIN last = {"update", "base", "outcome"}
    /\ call.phase \in {"idle", "update", "commit"}
    /\ call.phase = "idle" => call = Idle
    /\ call.phase = "update" => call.todo \subseteq last.update /\ last.update \in Update
    /\ call.phase = "commit" => persistent /\ call.todo \subseteq NodeSet
    /\ codes \in [Address -> Code \cup {Absent}]
    /\ torn \subseteq Address
    /\ faults \in 0 .. MaxFaults

\* What a commit without an error has written by now.
CommitInv ==
    call.phase = "commit" /\ call.failed = FALSE =>
        /\ \A p \in Stem : memory[p] \notin {Hashed, Absent} /\ p \notin call.todo
                => source[p] = memory[p]
        /\ Root \notin call.todo => sourceRoot = [q \in Stem |-> Committed(q)]

IInv == NodesInv /\ CallInv /\ SourceBacksRoot /\ CommitInv

-----------------------------------------------------------------------------
(* Nodes.                                                                  *)

LEMMA Stems ==
    /\ \A a \in Address : /\ <<a, "account">> \in Stem /\ <<a, "code">> \in Stem
                          /\ <<a, "storage">> \in Stem
                          /\ Content(<<a, "account">>) = AccountData
                          /\ Content(<<a, "code">>) = Code
                          /\ Content(<<a, "storage">>) = Words
    /\ Root \notin Stem
BY DEF Stem, Content, Root

LEMMA NoMarks ==
    \A p \in Stem : Absent \notin Content(p) /\ Hashed \notin Content(p)
BY GethAssumption DEF Content, Words

\* What is read is a node of its stem, or none.
LEMMA ReadTyped ==
    ASSUME NodesInv, NEW p \in Stem
    PROVE  Read(p) \in Content(p) \cup {Absent}
BY GethAssumption DEF NodesInv, Read

LEMMA AccountTyped ==
    ASSUME NodesInv, NEW a \in Address
    PROVE  getAccount(a) \in AccountData
<1>1. Read(<<a, "account">>) \in AccountData \cup {Absent}
  BY ReadTyped, Stems
<1>2. EmptyAccount \in AccountData
  BY DEF EmptyAccount, AccountData
<1> QED
  BY <1>1, <1>2 DEF getAccount, Account

\* The nodes in memory change, if at all, to nodes that are there.
MemoryKept ==
    /\ DOMAIN memory' = Stem
    /\ \A p \in Stem : memory'[p] = memory[p] \/ memory'[p] \in Content(p)
    /\ UNCHANGED <<committed, source>>

LEMMA MemoryStep ==
    ASSUME NodesInv, SourceBacksRoot, MemoryKept
    PROVE  NodesInv' /\ SourceBacksRoot'
<1>1. NodesInv'
  BY DEF NodesInv, MemoryKept
<1>2. SourceBacksRoot'
  BY NoMarks DEF MemoryKept, SourceBacksRoot
<1> QED
  BY <1>1, <1>2

\* One node is replaced.
LEMMA OneNode ==
    ASSUME NodesInv, NEW p \in Stem, NEW n \in Content(p),
           memory' = [memory EXCEPT ![p] = n], UNCHANGED <<committed, source>>
    PROVE  MemoryKept
BY DEF NodesInv, MemoryKept

LEMMA CodeLength ==
    ASSUME CallInv, NEW a \in Address
    PROVE  GetCode(a) \in Seq(Nat) /\ GetCodeSize(a) \in Nat
<1>1. codes[a] \in Code \cup {Absent}
  BY DEF CallInv
<1>2. GetCode(a) \in Seq(Nat)
  <2>1. CASE codes[a] = Absent
    <3>1. GetCode(a) = <<>>
      BY <2>1 DEF GetCode
    <3> QED
      BY <3>1
  <2>2. CASE codes[a] # Absent
    BY <1>1, <2>2, GethAssumption DEF GetCode
  <2> QED
    BY <2>1, <2>2
<1> QED
  BY <1>2 DEF GetCodeSize

-----------------------------------------------------------------------------
(* The setters.                                                            *)

\* The part of the invariant a setter can disturb beside the nodes.
LEMMA SetterCall ==
    ASSUME CallInv, call.phase = "update", NEW s \in call.todo, Done(s),
           codes' \in [Address -> Code \cup {Absent}], torn' \subseteq Address
    PROVE  CallInv' /\ CommitInv'
<1>1. call' = [call EXCEPT !.todo = @ \ {s}]
  BY DEF Done
<1>2. call'.phase = "update" /\ call'.todo \subseteq call.todo
      /\ DOMAIN call' = {"phase", "todo", "failed"} /\ call'.failed \in BOOLEAN
  BY <1>1 DEF CallInv
<1> QED
  BY <1>2 DEF CallInv, CommitInv, Done

LEMMA ReturnCall ==
    ASSUME CallInv, NEW o, Return(o), UNCHANGED persistent,
           codes' \in [Address -> Code \cup {Absent}], torn' \subseteq Address,
           faults' \in 0 .. MaxFaults
    PROVE  CallInv' /\ CommitInv'
<1>1. /\ call'.phase = "idle" /\ call' = Idle
      /\ DOMAIN call' = {"phase", "todo", "failed"} /\ call'.failed \in BOOLEAN
      /\ DOMAIN last' = {"update", "base", "outcome"}
  BY DEF Return, Idle, CallInv
<1> QED
  BY <1>1 DEF CallInv, CommitInv

LEMMA CallTyped ==
    ASSUME CallInv, call.phase = "update", NEW s \in call.todo
    PROVE  /\ s \in Call /\ s.a \in Address
           /\ s.op \in {"nonce", "balance"} => s.v \in Nat
           /\ s.op = "code" => s.v \in Code
           /\ s.op = "storage" => s.v \in Words
<1>1. s \in Call
  BY DEF CallInv, Call
<1> QED
  BY <1>1, GethAssumption DEF Words

\* A setter that is through with its node keeps the invariant.
LEMMA SetterInv ==
    ASSUME IInv, call.phase = "update", NEW s \in call.todo, Done(s), MemoryKept,
           codes' \in [Address -> Code \cup {Absent}], torn' \subseteq Address
    PROVE  IInv'
<1>1. NodesInv' /\ SourceBacksRoot'
  BY MemoryStep DEF IInv
<1>2. CallInv' /\ CommitInv'
  BY SetterCall DEF IInv
<1> QED
  BY <1>1, <1>2 DEF IInv

\* UpdateAccount writes a node that can be there.
LEMMA AccountKept ==
    ASSUME NodesInv, NEW a \in Address, NEW d \in AccountData, NEW n \in Nat,
           UpdateAccount(a, d, n), UNCHANGED <<committed, source>>
    PROVE  MemoryKept
<1>1. [d EXCEPT !.size = n] \in Content(<<a, "account">>)
  BY Stems DEF AccountData
<1> QED
  BY <1>1, Stems, OneNode DEF UpdateAccount

LEMMA SetNonceInv ==
    ASSUME IInv, call.phase = "update", NEW s \in call.todo, SetNonce(s)
    PROVE  IInv'
<1>1. s.a \in Address /\ s.v \in Nat
  BY CallTyped DEF IInv, SetNonce
<1>2. [getAccount(s.a) EXCEPT !.nonce = s.v] \in AccountData
  BY <1>1, AccountTyped DEF AccountData, IInv
<1>3. GetCodeSize(s.a) \in Nat
  BY <1>1, CodeLength DEF IInv
<1>4. MemoryKept
  BY <1>1, <1>2, <1>3, AccountKept DEF IInv, SetNonce, Done, disk
<1> QED
  BY <1>4, SetterInv DEF IInv, CallInv, SetNonce

LEMMA SetBalanceInv ==
    ASSUME IInv, call.phase = "update", NEW s \in call.todo, SetBalance(s)
    PROVE  IInv'
<1>1. s.a \in Address /\ s.v \in Nat
  BY CallTyped DEF IInv, SetBalance
<1>2. [getAccount(s.a) EXCEPT !.balance = s.v] \in AccountData
  BY <1>1, AccountTyped DEF AccountData, IInv
<1>3. GetCodeSize(s.a) \in Nat
  BY <1>1, CodeLength DEF IInv
<1>4. MemoryKept
  BY <1>1, <1>2, <1>3, AccountKept DEF IInv, SetBalance, Done, disk
<1> QED
  BY <1>4, SetterInv DEF IInv, CallInv, SetBalance

\* A node that is there is read back as it is.
LEMMA LoadedKept ==
    ASSUME NodesInv, NEW p \in Stem, Available(p), memory[p] # Absent,
           memory' = Loaded(p), UNCHANGED <<committed, source>>
    PROVE  MemoryKept
<1>1. Read(p) \in Content(p)
  BY DEF NodesInv, Available, Read
<1> QED
  BY <1>1, OneNode DEF Loaded

LEMMA CreateAccountInv ==
    ASSUME IInv, call.phase = "update", NEW s \in call.todo, CreateAccount(s)
    PROVE  IInv'
<1>1. s.a \in Address /\ <<s.a, "account">> \in Stem
  BY CallTyped, Stems DEF IInv
<1>2. UNCHANGED <<committed, source>>
  BY DEF CreateAccount, Done, disk
<1>3. MemoryKept
  <2>1. CASE Read(<<s.a, "account">>) = Absent
    <3>1. EmptyAccount \in AccountData
      BY DEF EmptyAccount, AccountData
    <3>2. UpdateAccount(s.a, EmptyAccount, 0)
      BY <2>1 DEF CreateAccount
    <3> QED
      BY <1>1, <1>2, <3>1, <3>2, AccountKept DEF IInv
  <2>2. CASE Read(<<s.a, "account">>) # Absent
    <3>1. memory[<<s.a, "account">>] # Absent
      BY <2>2, GethAssumption DEF Read
    <3>2. memory' = Loaded(<<s.a, "account">>) /\ Available(<<s.a, "account">>)
      BY <2>2 DEF CreateAccount
    <3> QED
      BY <1>1, <1>2, <3>1, <3>2, LoadedKept DEF IInv
  <2> QED
    BY <2>1, <2>2
<1> QED
  BY <1>3, SetterInv DEF IInv, CallInv, CreateAccount

LEMMA SetStorageInv ==
    ASSUME IInv, call.phase = "update", NEW s \in call.todo, SetStorage(s)
    PROVE  IInv'
<1>1. s.a \in Address /\ s.v \in Content(<<s.a, "storage">>)
      /\ <<s.a, "storage">> \in Stem
  BY CallTyped, Stems DEF IInv, SetStorage
<1>2. MemoryKept
  BY <1>1, OneNode DEF IInv, SetStorage, Done, disk
<1> QED
  BY <1>2, SetterInv DEF IInv, CallInv, SetStorage

LEMMA CodeAccountTyped ==
    ASSUME NodesInv, NEW a \in Address, NEW c \in Code
    PROVE  AccountOfCode(a, c) \in Content(<<a, "account">>)
<1>1. c \in Seq(Nat) /\ Len(c) \in Nat
  BY GethAssumption
<1> QED
  BY <1>1, AccountTyped, Stems DEF AccountOfCode, AccountData

LEMMA WithCodeKept ==
    ASSUME NodesInv, NEW a \in Address, NEW c \in Code, memory' = WithCode(a, c),
           UNCHANGED <<committed, source>>
    PROVE  MemoryKept
<1> DEFINE acct == <<a, "account">>
           code == <<a, "code">>
<1>1. acct \in Stem /\ code \in Stem /\ acct # code /\ c \in Content(code)
  BY Stems
<1>2. AccountOfCode(a, c) \in Content(acct)
  BY CodeAccountTyped
<1>3. DOMAIN memory = Stem
  BY DEF NodesInv
<1>4. memory' = [memory EXCEPT ![acct] = AccountOfCode(a, c),
                               ![code] = IF c \in LongCode THEN c ELSE @]
  BY DEF WithCode
<1> HIDE DEF acct, code
<1>5. DOMAIN memory' = Stem
  BY <1>3, <1>4
<1>6. ASSUME NEW p \in Stem PROVE memory'[p] = memory[p] \/ memory'[p] \in Content(p)
  BY <1>1, <1>2, <1>3, <1>4
<1> QED
  BY <1>5, <1>6 DEF MemoryKept

LEMMA SetCodeInv ==
    ASSUME IInv, call.phase = "update", NEW s \in call.todo, SetCode(s)
    PROVE  IInv'
<1>1. s.a \in Address /\ s.v \in Code
  BY CallTyped DEF IInv, SetCode
<1>2. MemoryKept
  BY <1>1, WithCodeKept DEF IInv, SetCode, Done, disk
<1>3. codes' \in [Address -> Code \cup {Absent}] /\ torn' \subseteq Address
  BY <1>1 DEF IInv, CallInv, SetCode
<1> QED
  BY <1>2, <1>3, SetterInv DEF SetCode

\* Apply returns, with an error or none.
LEMMA ReturnInv ==
    ASSUME IInv, NEW o, Return(o), MemoryKept, UNCHANGED <<persistent, codes>>,
           torn' \subseteq Address, faults' \in 0 .. MaxFaults
    PROVE  IInv'
<1>1. NodesInv' /\ SourceBacksRoot'
  BY MemoryStep DEF IInv
<1>2. codes' \in [Address -> Code \cup {Absent}]
  BY DEF IInv, CallInv
<1>3. CallInv' /\ CommitInv'
  BY <1>2, ReturnCall DEF IInv
<1> QED
  BY <1>1, <1>3 DEF IInv

LEMMA MemorySame ==
    ASSUME NodesInv, UNCHANGED <<memory, committed, source>>
    PROVE  MemoryKept
BY DEF NodesInv, MemoryKept

LEMMA FaultsCount ==
    ASSUME CallInv, Fault \/ UNCHANGED faults
    PROVE  faults' \in 0 .. MaxFaults
BY GethAssumption DEF CallInv, Fault

LEMMA SetCodeFailsInv ==
    ASSUME IInv, call.phase = "update", NEW s \in call.todo, SetCodeFails(s)
    PROVE  IInv'
<1>1. s.a \in Address /\ s.v \in Code
  BY CallTyped DEF IInv, SetCodeFails
<1>2. AccountOfCode(s.a, s.v) \in Content(<<s.a, "account">>)
  BY <1>1, CodeAccountTyped DEF IInv
<1>3. MemoryKept
  BY <1>1, <1>2, Stems, OneNode DEF IInv, SetCodeFails, disk
<1>4. torn' \subseteq Address
  BY <1>1 DEF IInv, CallInv, SetCodeFails
<1>5. faults' \in 0 .. MaxFaults
  BY FaultsCount DEF IInv, SetCodeFails, LoadFails
<1> QED
  BY <1>3, <1>4, <1>5, ReturnInv DEF SetCodeFails

LEMMA SetterFailsInv ==
    ASSUME IInv, NEW s, SetterFails(s)
    PROVE  IInv'
<1>1. MemoryKept
  BY MemorySame DEF IInv, SetterFails, trie, disk
<1>2. torn' \subseteq Address
  BY DEF IInv, CallInv, SetterFails
<1>3. faults' \in 0 .. MaxFaults
  BY FaultsCount DEF IInv, SetterFails, LoadFails
<1> QED
  BY <1>1, <1>2, <1>3, ReturnInv DEF SetterFails

LEMMA ApplyToInv ==
    ASSUME IInv, ApplyTo
    PROVE  IInv'
BY SetNonceInv, SetBalanceInv, CreateAccountInv, SetStorageInv, SetCodeInv,
   SetCodeFailsInv, SetterFailsInv DEF ApplyTo

-----------------------------------------------------------------------------
(* The commit.                                                             *)

LEMMA BeginInv ==
    ASSUME IInv, NEW u \in Update, Begin(u)
    PROVE  IInv'
<1>1. MemoryKept
  BY MemorySame DEF IInv, Begin, trie, disk
<1>2. NodesInv' /\ SourceBacksRoot'
  BY <1>1, MemoryStep DEF IInv
<1>3. /\ call'.phase = "update" /\ call'.todo = u
      /\ DOMAIN call' = {"phase", "todo", "failed"} /\ call'.failed \in BOOLEAN
      /\ DOMAIN last' = {"update", "base", "outcome"} /\ last'.update = u
  BY DEF Begin
<1>4. UNCHANGED <<persistent, codes, torn, faults>>
  BY DEF Begin
<1>5. CallInv'
  BY <1>3, <1>4 DEF IInv, CallInv
<1>6. CommitInv'
  BY <1>3 DEF CommitInv
<1> QED
  BY <1>2, <1>5, <1>6 DEF IInv

LEMMA CommitStepInv ==
    ASSUME IInv, Commit
    PROVE  IInv'
<1>1. MemoryKept /\ UNCHANGED <<memory, persistent, codes, torn, faults>>
  BY MemorySame DEF IInv, Commit, trie, disk
<1>2. CASE persistent
  <2>1. NodesInv' /\ SourceBacksRoot'
    BY <1>1, MemoryStep DEF IInv
  <2>2. /\ call'.phase = "commit" /\ call'.todo = NodeSet
        /\ DOMAIN call' = {"phase", "todo", "failed"} /\ call'.failed \in BOOLEAN
        /\ UNCHANGED last
    <3>1. call' = [phase |-> "commit", todo |-> NodeSet, failed |-> FALSE]
          /\ UNCHANGED last
      BY <1>2 DEF Commit
    <3> QED
      BY <3>1
  <2>3. NodeSet' = NodeSet
    BY <1>1 DEF NodeSet
  <2>4. CallInv'
    BY <1>1, <1>2, <2>2, <2>3 DEF IInv, CallInv
  <2>5. CommitInv'
    BY <2>2, <2>3 DEF CommitInv, NodeSet
  <2> QED
    BY <2>1, <2>4, <2>5 DEF IInv
<1>3. CASE ~ persistent
  <2>1. Return("ok")
    BY <1>3 DEF Commit
  <2> QED
    BY <1>1, <2>1, ReturnInv DEF IInv, CallInv
<1> QED
  BY <1>2, <1>3

\* One node is brought to the source.  It is one that is in memory.
LEMMA WriteInv ==
    ASSUME IInv, Write
    PROVE  IInv'
<1>1. call.phase = "commit"
  BY DEF Write
<1>2. PICK p \in call.todo : WriteNode(p)
  BY DEF Write
<1>3. p \in NodeSet
  BY <1>1 DEF IInv, CallInv
<1>4. UNCHANGED <<persistent, memory, committed, codes, last, torn>>
  BY <1>2 DEF WriteNode, trie
<1>5. NodeSet' = NodeSet
  BY <1>4 DEF NodeSet
<1>6. \A q \in Stem : Committed(q)' = Committed(q)
  BY <1>4 DEF Committed
<1>7. CASE WriteFails(p)
  <2>1. /\ call'.phase = "commit" /\ call'.failed = TRUE
        /\ call'.todo \subseteq call.todo
        /\ DOMAIN call' = {"phase", "todo", "failed"} /\ call'.failed \in BOOLEAN
    BY <1>1, <1>7 DEF IInv, CallInv, WriteFails
  <2>2. UNCHANGED source /\ faults' \in 0 .. MaxFaults
    BY <1>7, FaultsCount DEF IInv, WriteFails, disk
  <2>3. NodesInv' /\ SourceBacksRoot'
    BY <1>4, <2>2, MemorySame, MemoryStep DEF IInv
  <2>4. CallInv'
    BY <1>1, <1>4, <1>5, <2>1, <2>2 DEF IInv, CallInv
  <2>5. CommitInv'
    BY <2>1 DEF CommitInv
  <2> QED
    BY <2>3, <2>4, <2>5 DEF IInv
<1>8. CASE ~ WriteFails(p)
  <2>1. /\ call' = [call EXCEPT !.todo = @ \ {p}]
        /\ UNCHANGED faults
        /\ IF p = Root
           THEN sourceRoot' = [q \in Stem |-> Committed(q)] /\ UNCHANGED source
           ELSE source' = [source EXCEPT ![p] = memory[p]] /\ UNCHANGED sourceRoot
    BY <1>2, <1>8 DEF WriteNode
  <2>2. /\ call'.phase = "commit" /\ call'.failed = call.failed
        /\ call'.todo = call.todo \ {p}
        /\ DOMAIN call' = {"phase", "todo", "failed"} /\ call'.failed \in BOOLEAN
    BY <1>1, <2>1 DEF IInv, CallInv
  <2>3. CallInv'
    BY <1>1, <1>4, <1>5, <2>1, <2>2 DEF IInv, CallInv
  <2>4. CASE p = Root
    <3>1. UNCHANGED source /\ sourceRoot' = [q \in Stem |-> Committed(q)]
      BY <2>1, <2>4
    <3>2. NodesInv' /\ SourceBacksRoot'
      BY <1>4, <3>1, MemorySame, MemoryStep DEF IInv
    <3>3. sourceRoot' = [q \in Stem |-> Committed(q)']
      BY <3>1, <1>6
    <3>4. \A q \in Stem : q # p
      BY <2>4, Stems
    <3>5. CommitInv'
      BY <1>4, <2>2, <3>1, <3>3, <3>4, <1>1 DEF IInv, CommitInv
    <3> QED
      BY <2>3, <3>2, <3>5 DEF IInv
  <2>5. CASE p # Root
    <3>1. p \in Stem /\ memory[p] \notin {Hashed, Absent}
      BY <1>3, <2>5 DEF NodeSet
    <3>2. source' = [source EXCEPT ![p] = memory[p]] /\ UNCHANGED sourceRoot
      BY <2>1, <2>5
    <3>3. /\ DOMAIN source' = Stem /\ source'[p] = memory[p]
          /\ \A q \in Stem \ {p} : source'[q] = source[q]
      BY <3>1, <3>2 DEF IInv, NodesInv
    <3>4. NodesInv'
      BY <1>4, <3>1, <3>3 DEF IInv, NodesInv
    <3>5. SourceBacksRoot'
      BY <1>4, <3>1, <3>3 DEF IInv, SourceBacksRoot
    <3>6. CommitInv'
      <4>1. \A q \in Stem : memory'[q] \notin {Hashed, Absent} /\ q \notin call'.todo
                /\ call'.failed = FALSE => source'[q] = memory'[q]
        BY <1>1, <1>4, <2>2, <3>1, <3>3 DEF IInv, CommitInv
      <4>2. Root \notin call'.todo /\ call'.failed = FALSE
                => sourceRoot' = [q \in Stem |-> Committed(q)']
        <5>1. [q \in Stem |-> Committed(q)'] = [q \in Stem |-> Committed(q)]
          BY <1>6
        <5> QED
          BY <1>1, <2>2, <2>5, <3>2, <5>1 DEF IInv, CommitInv
      <4> QED
        BY <4>1, <4>2 DEF CommitInv
    <3> QED
      BY <2>3, <3>4, <3>5, <3>6 DEF IInv
  <2> QED
    BY <2>4, <2>5
<1> QED
  BY <1>7, <1>8

\* After a commit without an error, all nodes were written: each of those
\* that are dropped now is on the source.
LEMMA WrittenWhole ==
    ASSUME IInv, call.phase = "commit", call.todo = {}, ~ call.failed
    PROVE  /\ sourceRoot = [q \in Stem |-> Committed(q)]
           /\ \A p \in Stem : Committed(p) # Absent => source[p] = Committed(p)
<1>1. sourceRoot = [q \in Stem |-> Committed(q)]
  BY DEF IInv, CallInv, CommitInv
<1>2. ASSUME NEW p \in Stem, Committed(p) # Absent
      PROVE  source[p] = Committed(p)
  BY <1>2 DEF CallInv, IInv, CommitInv, SourceBacksRoot, Committed
<1> QED
  BY <1>1, <1>2

LEMMA CommittedTyped ==
    ASSUME NodesInv, NEW p \in Stem
    PROVE  Committed(p) \in Content(p) \cup {Absent}
BY DEF NodesInv, Committed

LEMMA RecreateInv ==
    ASSUME IInv, Recreate
    PROVE  IInv'
<1>1. call.phase = "commit" /\ call.todo = {}
      /\ UNCHANGED <<persistent, disk, codes, torn>>
  BY DEF Recreate
<1>2. torn' \subseteq Address /\ codes' \in [Address -> Code \cup {Absent}]
  BY <1>1 DEF IInv, CallInv
<1>3. CASE UNCHANGED trie
  <2>1. MemoryKept
    BY <1>1, <1>3, MemorySame DEF IInv, trie, disk
  <2>2. \E o : Return(o)
    BY DEF Recreate
  <2>3. faults' \in 0 .. MaxFaults
    BY FaultsCount DEF IInv, Recreate
  <2> QED
    BY <1>1, <1>2, <2>1, <2>2, <2>3, ReturnInv
<1>4. CASE /\ ~ call.failed
           /\ memory' = [p \in Stem |-> IF sourceRoot[p] = Absent THEN Absent ELSE Hashed]
           /\ committed' = sourceRoot
           /\ Return("ok")
           /\ UNCHANGED faults
  <2>1. /\ sourceRoot = [q \in Stem |-> Committed(q)]
        /\ \A p \in Stem : Committed(p) # Absent => source[p] = Committed(p)
    BY <1>1, <1>4, WrittenWhole
  <2>2. UNCHANGED source
    BY <1>1 DEF disk
  <2>3. NodesInv'
    BY <1>4, <2>1, <2>2, CommittedTyped DEF IInv, NodesInv
  <2>4. SourceBacksRoot'
    BY <1>4, <2>1, <2>2, GethAssumption DEF SourceBacksRoot
  <2>5. CallInv' /\ CommitInv'
    BY <1>1, <1>2, <1>4, ReturnCall DEF IInv, CallInv
  <2> QED
    BY <2>3, <2>4, <2>5 DEF IInv
<1> QED
  BY <1>3, <1>4 DEF Recreate

LEMMA GetInv ==
    ASSUME IInv, NEW p \in Stem, Get(p)
    PROVE  IInv'
<1>1. MemoryKept
  BY GethAssumption, LoadedKept DEF IInv, Get, disk
<1>2. NodesInv' /\ SourceBacksRoot'
  BY <1>1, MemoryStep DEF IInv
<1>3. call.phase = "idle" /\ UNCHANGED <<persistent, codes, call, last, torn, faults>>
  BY DEF Get
<1> QED
  BY <1>2, <1>3 DEF IInv, CallInv, CommitInv

LEMMA ReopenInv ==
    ASSUME IInv, Reopen
    PROVE  IInv'
<1>1. /\ memory' = NoNodes /\ committed' = NoNodes
      /\ UNCHANGED <<persistent, source, faults>>
      /\ codes' = [a \in Address |-> Absent] /\ torn' = {}
      /\ call' = Idle /\ last' = [last EXCEPT !.outcome = "none"]
  BY DEF Reopen, disk
<1>2. NodesInv'
  BY <1>1 DEF IInv, NodesInv, NoNodes
<1>3. SourceBacksRoot'
  BY <1>1, GethAssumption DEF SourceBacksRoot, NoNodes
<1>4. /\ call'.phase = "idle" /\ call'.failed \in BOOLEAN
      /\ DOMAIN call' = {"phase", "todo", "failed"}
      /\ DOMAIN last' = {"update", "base", "outcome"}
  BY <1>1 DEF Idle, IInv, CallInv
<1>5. CallInv' /\ CommitInv'
  BY <1>1, <1>4 DEF IInv, CallInv, CommitInv
<1> QED
  BY <1>2, <1>3, <1>5 DEF IInv

LEMMA InitIInv ==
    ASSUME Init
    PROVE  IInv
<1>1. NodesInv
  BY DEF Init, NodesInv, NoNodes
<1>2. SourceBacksRoot
  BY GethAssumption DEF Init, SourceBacksRoot, NoNodes
<1>3. /\ call.phase = "idle" /\ call.failed \in BOOLEAN
      /\ DOMAIN call = {"phase", "todo", "failed"}
      /\ DOMAIN last = {"update", "base", "outcome"}
  BY DEF Init, Idle
<1>4. CallInv /\ CommitInv
  BY <1>3, GethAssumption DEF Init, CallInv, CommitInv
<1> QED
  BY <1>1, <1>2, <1>4 DEF IInv

LEMMA NextIInv ==
    ASSUME IInv, Next
    PROVE  IInv'
BY BeginInv, ApplyToInv, CommitStepInv, WriteInv, RecreateInv, GetInv, ReopenInv
   DEF Next, Step

LEMMA StutterIInv ==
    ASSUME IInv, UNCHANGED vars
    PROVE  IInv'
<1>1. MemoryKept
  BY MemorySame DEF IInv, vars, trie, disk
<1>2. NodesInv' /\ SourceBacksRoot'
  BY <1>1, MemoryStep DEF IInv
<1>3. NodeSet' = NodeSet /\ \A q \in Stem : Committed(q)' = Committed(q)
  BY DEF vars, trie, NodeSet, Committed
<1>4. [q \in Stem |-> Committed(q)'] = [q \in Stem |-> Committed(q)]
  BY <1>3
<1>5. CallInv'
  BY <1>3 DEF IInv, CallInv, vars
<1>6. CommitInv'
  BY <1>4 DEF IInv, CommitInv, vars, trie, disk
<1> QED
  BY <1>2, <1>5, <1>6 DEF IInv

-----------------------------------------------------------------------------
(* The theorems.                                                           *)

\* The invariant holds in every behaviour: whichever calls of the source
\* fail, and wherever in an Apply the process ends.
THEOREM InvariantCorrect == Spec => []IInv
<1>1. Init => IInv
  BY InitIInv
<1>2. IInv /\ [Next]_vars => IInv'
  BY NextIInv, StutterIInv
<1> QED
  BY <1>1, <1>2, PTL DEF Spec

\* A node that is not in memory is on the source with the content the root
\* commits to, so persistentVerkleState never reads what it did not write.
THEOREM SourceCorrect == Spec => []SourceBacksRoot
<1>1. IInv => SourceBacksRoot
  BY DEF IInv
<1> QED
  BY <1>1, InvariantCorrect, PTL

\* The types of the adapter's state.
THEOREM TypeCorrect == Spec => []TypeOK
<1>1. IInv => TypeOK
  BY DEF IInv, NodesInv, CallInv, TypeOK
<1> QED
  BY <1>1, InvariantCorrect, PTL

-----------------------------------------------------------------------------
(* An Apply that succeeds.                                                 *)

\* Only the last step of an Apply tells that it has succeeded.
LEMMA SettersRun ==
    ASSUME IInv, ApplyTo, last.outcome = "running"
    PROVE  last'.outcome # "ok"
<1>1. PICK s \in call.todo :
        \/ SetNonce(s) \/ SetBalance(s) \/ CreateAccount(s) \/ SetStorage(s)
        \/ SetCode(s) \/ SetCodeFails(s) \/ SetterFails(s)
  BY DEF ApplyTo
<1>2. CASE Done(s)
  BY <1>2 DEF Done
<1>3. CASE Return("error")
  BY <1>3 DEF Return, IInv, CallInv
<1> QED
  BY <1>1, <1>2, <1>3
     DEF SetNonce, SetBalance, CreateAccount, SetStorage, SetCode, SetCodeFails, SetterFails

LEMMA OnlyRecreateSucceeds ==
    ASSUME IInv, [Next]_vars, persistent, last.outcome = "running", last'.outcome = "ok"
    PROVE  Recreate /\ call.failed = FALSE
<1>1. ASSUME NEW u \in Update, Begin(u) PROVE FALSE
  <2>1. last'.outcome = "running"
    BY <1>1 DEF Begin
  <2> QED
    BY <2>1
<1>2. ~ ApplyTo
  BY SettersRun
<1>3. ~ Commit
  BY DEF Commit
<1>4. ~ Write
  BY DEF Write, WriteNode
<1>5. ~ (\E p \in Stem : Get(p))
  BY DEF Get
<1>6. ~ Reopen
  BY DEF Reopen, IInv, CallInv
<1>7. last' # last
  OBVIOUS
<1>8. Recreate
  BY <1>1, <1>2, <1>3, <1>4, <1>5, <1>6, <1>7 DEF Next, Step, vars
<1>9. call.failed = FALSE
  <2>1. CASE call.failed = TRUE
    <3>1. Return("error")
      BY <1>8, <2>1 DEF Recreate
    <3> QED
      BY <3>1 DEF Return, IInv, CallInv
  <2> QED
    BY <2>1 DEF IInv, CallInv
<1> QED
  BY <1>8, <1>9

\* When Apply of a persistentVerkleState returns no error, every node of the
\* trie and its root are on the source, those included that an earlier Apply
\* failed to write.
THEOREM DurableCorrect == Spec => SuccessIsDurable
<1> DEFINE Durable ==
      persistent /\ last.outcome = "running" /\ last'.outcome = "ok" =>
        /\ \A p \in Stem : Read(p) # Absent => source'[p] = Read(p)
        /\ sourceRoot' = [p \in Stem |-> Committed(p)]
<1>1. ASSUME IInv, [Next]_vars PROVE Durable
  <2>1. SUFFICES ASSUME persistent, last.outcome = "running", last'.outcome = "ok"
                 PROVE  /\ \A p \in Stem : Read(p) # Absent => source'[p] = Read(p)
                        /\ sourceRoot' = [p \in Stem |-> Committed(p)]
    OBVIOUS
  <2>2. Recreate /\ call.failed = FALSE
    BY <1>1, <2>1, OnlyRecreateSucceeds
  <2>3. call.phase = "commit" /\ call.todo = {} /\ UNCHANGED <<source, sourceRoot>>
    BY <2>2 DEF Recreate, disk
  <2>4. /\ sourceRoot = [q \in Stem |-> Committed(q)]
        /\ \A p \in Stem : Committed(p) # Absent => source[p] = Committed(p)
    BY <1>1, <2>2, <2>3, WrittenWhole
  <2>5. \A p \in Stem : Read(p) # Absent => source[p] = Read(p)
    BY <1>1, <2>4 DEF IInv, SourceBacksRoot, Read, Committed
  <2> QED
    BY <2>3, <2>4, <2>5
<1>2. IInv /\ [Next]_vars => [Durable]_vars
  BY <1>1
<1> QED
  BY <1>2, InvariantCorrect, PTL DEF Spec, SuccessIsDurable

-----------------------------------------------------------------------------
(* What the getters tell.                                                  *)

\* The step does not show.
Quiet == (\A p \in Stem : Read(p)' = Read(p)) /\ UNCHANGED <<codes, torn>>

LEMMA CommitIsQuiet ==
    ASSUME IInv, Write
    PROVE  Quiet
<1>1. PICK p \in call.todo : WriteNode(p)
  BY DEF Write
<1>2. p \in NodeSet
  BY DEF IInv, CallInv, Write
<1>3. UNCHANGED <<memory, codes, torn>>
  BY <1>1 DEF WriteNode, trie
<1>4. ASSUME NEW q \in Stem, memory[q] = Hashed PROVE source'[q] = source[q]
  <2>1. CASE UNCHANGED source
    BY <2>1
  <2>2. CASE p # Root /\ source' = [source EXCEPT ![p] = memory[p]]
    <3>1. p # q
      BY <1>2, <1>4, <2>2 DEF NodeSet
    <3> QED
      BY <2>2, <3>1, <1>4 DEF IInv, NodesInv
  <2> QED
    BY <1>1, <2>1, <2>2 DEF WriteNode, WriteFails, disk
<1> QED
  BY <1>3, <1>4 DEF Quiet, Read

LEMMA RecreateIsQuiet ==
    ASSUME IInv, Recreate
    PROVE  Quiet
<1>1. UNCHANGED <<source, codes, torn>> /\ call.phase = "commit" /\ call.todo = {}
  BY DEF Recreate, disk
<1>2. CASE UNCHANGED trie
  BY <1>1, <1>2 DEF trie, Quiet, Read
<1>3. CASE /\ ~ call.failed
           /\ memory' = [p \in Stem |-> IF sourceRoot[p] = Absent THEN Absent ELSE Hashed]
  <2>1. /\ sourceRoot = [q \in Stem |-> Committed(q)]
        /\ \A p \in Stem : Committed(p) # Absent => source[p] = Committed(p)
    BY <1>1, <1>3, WrittenWhole
  <2>2. ASSUME NEW p \in Stem PROVE Read(p) = Committed(p)
    BY DEF IInv, SourceBacksRoot, Read, Committed
  <2>3. ASSUME NEW p \in Stem PROVE Read(p)' = Committed(p)
    BY <1>1, <1>3, <2>1, GethAssumption DEF Read
  <2> QED
    BY <1>1, <2>2, <2>3 DEF Quiet
<1> QED
  BY <1>2, <1>3 DEF Recreate

LEMMA GetIsQuiet ==
    ASSUME IInv, NEW p \in Stem, Get(p)
    PROVE  Quiet
<1>1. memory' = [memory EXCEPT ![p] = source[p]] /\ UNCHANGED <<source, codes, torn>>
      /\ memory[p] = Hashed
  BY DEF Get, Loaded, Read, disk
<1>2. source[p] # Hashed
  BY NoMarks, GethAssumption DEF IInv, NodesInv
<1> QED
  BY <1>1, <1>2 DEF Quiet, Read, IInv, NodesInv

LEMMA StillIsQuiet ==
    ASSUME UNCHANGED <<trie, disk, codes, torn>>
    PROVE  Quiet
BY DEF Quiet, Read, trie, disk

\* What a step is: a setter, the end of the process, or one that does not
\* show.
LEMMA StepKinds ==
    ASSUME IInv, [Next]_vars
    PROVE  \/ Quiet
           \/ Reopen
           \/ /\ call.phase = "update"
              /\ \E s \in call.todo :
                    \/ SetNonce(s) \/ SetBalance(s) \/ CreateAccount(s)
                    \/ SetStorage(s) \/ SetCode(s) \/ SetCodeFails(s)
<1>1. ASSUME NEW u \in Update, Begin(u) PROVE Quiet
  BY <1>1, StillIsQuiet DEF Begin
<1>2. CASE Commit
  BY <1>2, StillIsQuiet DEF Commit
<1>3. ASSUME NEW s, SetterFails(s) PROVE Quiet
  BY <1>3, StillIsQuiet DEF SetterFails
<1>4. CASE UNCHANGED vars
  BY <1>4, StillIsQuiet DEF vars
<1> QED
  BY <1>1, <1>2, <1>3, <1>4, CommitIsQuiet, RecreateIsQuiet, GetIsQuiet
     DEF Next, Step, ApplyTo

\* How a node is read after it, or another one, was replaced.
LEMMA ReadAfter ==
    ASSUME NodesInv, NEW p \in Stem, NEW n \in Content(p),
           memory' = [memory EXCEPT ![p] = n], UNCHANGED source
    PROVE  \A q \in Stem : Read(q)' = IF q = p THEN n ELSE Read(q)
BY NoMarks DEF NodesInv, Read

\* How an account reads after UpdateAccount.
LEMMA AccountAfter ==
    ASSUME NodesInv, NEW a \in Address, NEW d \in AccountData, NEW n \in Nat,
           UpdateAccount(a, d, n), UNCHANGED <<committed, source>>
    PROVE  /\ \A b \in Address : getAccount(b)' =
                IF b = a THEN [d EXCEPT !.size = n] ELSE getAccount(b)
           /\ \A b \in Address : Read(<<b, "storage">>)' = Read(<<b, "storage">>)
<1>1. [d EXCEPT !.size = n] \in Content(<<a, "account">>)
  BY Stems DEF AccountData
<1>2. \A q \in Stem : Read(q)' = IF q = <<a, "account">> THEN [d EXCEPT !.size = n]
                                 ELSE Read(q)
  BY <1>1, Stems, ReadAfter DEF UpdateAccount
<1>3. [d EXCEPT !.size = n] # Absent
  BY <1>1, NoMarks, Stems
<1> QED
  BY <1>2, <1>3, Stems DEF getAccount, Account

LEMMA SetNonceAfter ==
    ASSUME IInv, call.phase = "update", NEW s \in call.todo, SetNonce(s)
    PROVE  /\ \A b \in Address : getAccount(b)' =
                IF b = s.a
                THEN [[getAccount(b) EXCEPT !.nonce = s.v] EXCEPT !.size = GetCodeSize(b)]
                ELSE getAccount(b)
           /\ \A b \in Address : Read(<<b, "storage">>)' = Read(<<b, "storage">>)
<1> DEFINE d == [getAccount(s.a) EXCEPT !.nonce = s.v]
           n == GetCodeSize(s.a)
<1>1. s.a \in Address /\ s.v \in Nat
  BY CallTyped DEF IInv, SetNonce
<1>2. d \in AccountData
  BY <1>1, AccountTyped DEF AccountData, IInv
<1>3. n \in Nat
  BY <1>1, CodeLength DEF IInv
<1>4. UpdateAccount(s.a, d, n) /\ UNCHANGED <<committed, source>>
  BY DEF SetNonce, Done, disk
<1>5. /\ \A b \in Address : getAccount(b)' =
            IF b = s.a THEN [d EXCEPT !.size = n] ELSE getAccount(b)
      /\ \A b \in Address : Read(<<b, "storage">>)' = Read(<<b, "storage">>)
  <2> HIDE DEF d, n
  <2> QED
    BY <1>1, <1>2, <1>3, <1>4, AccountAfter DEF IInv
<1>6. ASSUME NEW b \in Address
      PROVE  getAccount(b)' =
                IF b = s.a
                THEN [[getAccount(b) EXCEPT !.nonce = s.v] EXCEPT !.size = GetCodeSize(b)]
                ELSE getAccount(b)
  BY <1>5
<1> QED
  BY <1>5, <1>6

LEMMA SetBalanceAfter ==
    ASSUME IInv, call.phase = "update", NEW s \in call.todo, SetBalance(s)
    PROVE  /\ \A b \in Address : getAccount(b)' =
                IF b = s.a
                THEN [[getAccount(b) EXCEPT !.balance = s.v] EXCEPT !.size = GetCodeSize(b)]
                ELSE getAccount(b)
           /\ \A b \in Address : Read(<<b, "storage">>)' = Read(<<b, "storage">>)
<1> DEFINE d == [getAccount(s.a) EXCEPT !.balance = s.v]
           n == GetCodeSize(s.a)
<1>1. s.a \in Address /\ s.v \in Nat
  BY CallTyped DEF IInv, SetBalance
<1>2. d \in AccountData
  BY <1>1, AccountTyped DEF AccountData, IInv
<1>3. n \in Nat
  BY <1>1, CodeLength DEF IInv
<1>4. UpdateAccount(s.a, d, n) /\ UNCHANGED <<committed, source>>
  BY DEF SetBalance, Done, disk
<1>5. /\ \A b \in Address : getAccount(b)' =
            IF b = s.a THEN [d EXCEPT !.size = n] ELSE getAccount(b)
      /\ \A b \in Address : Read(<<b, "storage">>)' = Read(<<b, "storage">>)
  <2> HIDE DEF d, n
  <2> QED
    BY <1>1, <1>2, <1>3, <1>4, AccountAfter DEF IInv
<1>6. ASSUME NEW b \in Address
      PROVE  getAccount(b)' =
                IF b = s.a
                THEN [[getAccount(b) EXCEPT !.balance = s.v] EXCEPT !.size = GetCodeSize(b)]
                ELSE getAccount(b)
  BY <1>5
<1> QED
  BY <1>5, <1>6

\* An account that is created reads as before.
LEMMA CreateAccountAfter ==
    ASSUME IInv, call.phase = "update", NEW s \in call.todo, CreateAccount(s)
    PROVE  /\ \A b \in Address : getAccount(b)' = getAccount(b)
           /\ \A b \in Address : Read(<<b, "storage">>)' = Read(<<b, "storage">>)
<1> DEFINE p == <<s.a, "account">>
<1>1. s.a \in Address /\ p \in Stem
  BY CallTyped, Stems DEF IInv
<1>2. UNCHANGED <<committed, source>>
  BY DEF CreateAccount, Done, disk
<1>3. CASE Read(p) = Absent
  <2>1. EmptyAccount \in AccountData /\ [EmptyAccount EXCEPT !.size = 0] = EmptyAccount
    BY DEF EmptyAccount, AccountData
  <2>2. UpdateAccount(s.a, EmptyAccount, 0)
    BY <1>3 DEF CreateAccount
  <2>3. getAccount(s.a) = EmptyAccount
    BY <1>3 DEF getAccount, Account
  <2> QED
    BY <1>1, <1>2, <2>1, <2>2, <2>3, AccountAfter DEF IInv
<1>4. CASE Read(p) # Absent
  <2>1. memory' = Loaded(p) /\ Available(p)
    BY <1>4 DEF CreateAccount
  <2>2. Read(p) \in Content(p)
    BY <1>1, <1>4, ReadTyped DEF IInv
  <2>3. \A q \in Stem : Read(q)' = Read(q)
    BY <1>1, <1>2, <2>1, <2>2, ReadAfter DEF IInv, Loaded
  <2> QED
    BY <2>3, Stems DEF getAccount, Account
<1> QED
  BY <1>3, <1>4

LEMMA SetStorageAfter ==
    ASSUME IInv, call.phase = "update", NEW s \in call.todo, SetStorage(s)
    PROVE  /\ \A b \in Address : getAccount(b)' = getAccount(b)
           /\ \A b \in Address : Read(<<b, "storage">>)' =
                IF b = s.a THEN s.v ELSE Read(<<b, "storage">>)
           /\ s.v # Absent
<1>1. s.a \in Address /\ s.v \in Content(<<s.a, "storage">>)
      /\ <<s.a, "storage">> \in Stem
  BY CallTyped, Stems DEF IInv, SetStorage
<1>2. \A q \in Stem : Read(q)' = IF q = <<s.a, "storage">> THEN s.v ELSE Read(q)
  BY <1>1, ReadAfter DEF IInv, SetStorage, Done, disk
<1>3. s.v # Absent
  BY <1>1, NoMarks
<1> QED
  BY <1>2, <1>3, Stems DEF getAccount, Account

LEMMA CodeAccountAfter ==
    ASSUME NodesInv, NEW a \in Address, NEW c \in Code, UNCHANGED source,
           \/ memory' = [memory EXCEPT ![<<a, "account">>] = AccountOfCode(a, c)]
           \/ memory' = WithCode(a, c)
    PROVE  /\ \A b \in Address : getAccount(b)' =
                IF b = a THEN AccountOfCode(b, c) ELSE getAccount(b)
           /\ \A b \in Address : Read(<<b, "storage">>)' = Read(<<b, "storage">>)
<1> DEFINE acct == <<a, "account">>
           code == <<a, "code">>
<1>1. AccountOfCode(a, c) \in Content(acct)
  BY CodeAccountTyped
<1>2. acct \in Stem /\ DOMAIN memory = Stem
  BY Stems DEF NodesInv
<1>3. \A q \in Stem : q # code => Read(q)' = IF q = acct THEN AccountOfCode(a, c) ELSE Read(q)
  <2>1. \A q \in Stem : q # code =>
            memory'[q] = IF q = acct THEN AccountOfCode(a, c) ELSE memory[q]
    BY <1>2 DEF WithCode
  <2> QED
    BY <1>1, <1>2, <2>1, NoMarks DEF Read
<1>4. AccountOfCode(a, c) # Absent
  BY <1>1, <1>2, NoMarks
<1> QED
  BY <1>3, <1>4, Stems DEF getAccount, Account

-----------------------------------------------------------------------------
(* Code and code hash.                                                     *)

LEMMA CodesStep ==
    ASSUME IInv, [Next]_vars, CodeMatchesHash
    PROVE  CodeMatchesHash'
<1>1. CASE Quiet
  BY <1>1, Stems DEF Quiet, CodeMatchesHash, getAccount, Account, GetCode, GetCodeSize
<1>2. CASE Reopen
  <2>1. ASSUME NEW a \in Address
        PROVE  getAccount(a)' = EmptyAccount /\ GetCode(a)' = <<>>
    BY <1>2, Stems, GethAssumption
       DEF Reopen, NoNodes, getAccount, Account, Read, GetCode
  <2>2. EmptyAccount.hash = <<>> /\ EmptyAccount.size = 0
    BY DEF EmptyAccount
  <2> QED
    BY <2>1, <2>2 DEF CodeMatchesHash, GetCodeSize
<1>3. ASSUME call.phase = "update", NEW s \in call.todo, SetNonce(s)
      PROVE  CodeMatchesHash'
  <2>1. UNCHANGED <<codes, torn>>
    BY <1>3 DEF SetNonce
  <2>2. \A b \in Address : getAccount(b) \in AccountData
    BY AccountTyped DEF IInv
  <2>3. ASSUME NEW b \in Address
        PROVE  /\ getAccount(b)'.hash = getAccount(b).hash
               /\ getAccount(b)'.size \in {getAccount(b).size, GetCodeSize(b)}
    BY <1>3, <2>2, SetNonceAfter DEF AccountData
  <2>4. \A b \in Address : GetCode(b)' = GetCode(b) /\ GetCodeSize(b)' = GetCodeSize(b)
    BY <2>1 DEF GetCode, GetCodeSize
  <2> QED
    BY <2>1, <2>3, <2>4 DEF CodeMatchesHash
<1>4. ASSUME call.phase = "update", NEW s \in call.todo, SetBalance(s)
      PROVE  CodeMatchesHash'
  <2>1. UNCHANGED <<codes, torn>>
    BY <1>4 DEF SetBalance
  <2>2. \A b \in Address : getAccount(b) \in AccountData
    BY AccountTyped DEF IInv
  <2>3. ASSUME NEW b \in Address
        PROVE  /\ getAccount(b)'.hash = getAccount(b).hash
               /\ getAccount(b)'.size \in {getAccount(b).size, GetCodeSize(b)}
    BY <1>4, <2>2, SetBalanceAfter DEF AccountData
  <2>4. \A b \in Address : GetCode(b)' = GetCode(b) /\ GetCodeSize(b)' = GetCodeSize(b)
    BY <2>1 DEF GetCode, GetCodeSize
  <2> QED
    BY <2>1, <2>3, <2>4 DEF CodeMatchesHash
<1>5. ASSUME call.phase = "update", NEW s \in call.todo, CreateAccount(s)
      PROVE  CodeMatchesHash'
  BY <1>5, CreateAccountAfter DEF CreateAccount, CodeMatchesHash, GetCode, GetCodeSize
<1>6. ASSUME call.phase = "update", NEW s \in call.todo, SetStorage(s)
      PROVE  CodeMatchesHash'
  BY <1>6, SetStorageAfter DEF SetStorage, CodeMatchesHash, GetCode, GetCodeSize
<1>7. ASSUME call.phase = "update", NEW s \in call.todo, SetCode(s)
      PROVE  CodeMatchesHash'
  <2>1. s.a \in Address /\ s.v \in Code /\ s.v # Absent
    BY <1>7, CallTyped, GethAssumption DEF IInv, SetCode
  <2>2. /\ codes' = [codes EXCEPT ![s.a] = s.v] /\ DOMAIN codes = Address
        /\ torn' = torn \ {s.a} /\ memory' = WithCode(s.a, s.v) /\ UNCHANGED source
    BY <1>7 DEF IInv, CallInv, SetCode, Done, disk
  <2>3. \A b \in Address : getAccount(b)' =
            IF b = s.a THEN AccountOfCode(b, s.v) ELSE getAccount(b)
    BY <2>1, <2>2, CodeAccountAfter DEF IInv
  <2>4. getAccount(s.a) \in AccountData
    BY <2>1, AccountTyped DEF IInv
  <2>5. AccountOfCode(s.a, s.v).hash = s.v /\ AccountOfCode(s.a, s.v).size = Len(s.v)
    BY <2>4 DEF AccountOfCode, AccountData
  <2>6. ASSUME NEW b \in Address \ torn'
        PROVE  getAccount(b)'.hash = GetCode(b)' /\ getAccount(b)'.size = GetCodeSize(b)'
    <3>1. CASE b = s.a
      BY <2>1, <2>2, <2>3, <2>5, <3>1 DEF GetCode, GetCodeSize
    <3>2. CASE b # s.a
      BY <2>2, <2>3, <2>6, <3>2 DEF CodeMatchesHash, GetCode, GetCodeSize
    <3> QED
      BY <3>1, <3>2
  <2> QED
    BY <2>6 DEF CodeMatchesHash
<1>8. ASSUME call.phase = "update", NEW s \in call.todo, SetCodeFails(s)
      PROVE  CodeMatchesHash'
  <2>1. s.a \in Address /\ s.v \in Code
    BY <1>8, CallTyped DEF IInv, SetCodeFails
  <2>2. \A b \in Address \ {s.a} : getAccount(b)' = getAccount(b)
    BY <1>8, <2>1, CodeAccountAfter DEF IInv, SetCodeFails, disk
  <2>3. torn' = torn \cup {s.a} /\ UNCHANGED codes
    BY <1>8 DEF SetCodeFails
  <2> QED
    BY <2>2, <2>3 DEF CodeMatchesHash, GetCode, GetCodeSize
<1> QED
  BY <1>1, <1>2, <1>3, <1>4, <1>5, <1>6, <1>7, <1>8, StepKinds

\* The hash and the size in the tree are those of the code in the map, unless
\* a SetCode failed between writing the one and the other.
THEOREM CodeHashCorrect == Spec => []CodeMatchesHash
<1>1. Init => CodeMatchesHash
  <2>1. ASSUME Init, NEW a \in Address
        PROVE  getAccount(a) = EmptyAccount /\ GetCode(a) = <<>>
    BY <2>1, Stems, GethAssumption
       DEF Init, NoNodes, getAccount, Account, Read, GetCode
  <2>2. EmptyAccount.hash = <<>> /\ EmptyAccount.size = 0
    BY DEF EmptyAccount
  <2> QED
    BY <2>1, <2>2 DEF CodeMatchesHash, GetCodeSize
<1>2. IInv /\ CodeMatchesHash /\ [Next]_vars => CodeMatchesHash'
  BY CodesStep
<1> QED
  BY <1>1, <1>2, InvariantCorrect, PTL DEF Spec

-----------------------------------------------------------------------------
(* Each step changes what one getter tells of one account, or nothing.     *)

Ops == {"nonce", "balance", "code", "storage"}

Field(op, a) ==
    IF op = "nonce" THEN GetNonce(a)
    ELSE IF op = "balance" THEN GetBalance(a)
    ELSE IF op = "code" THEN GetCode(a) ELSE GetStorage(a)

Same == \A op \in Ops, a \in Address : Field(op, a)' = Field(op, a)

Sets(s) ==
    /\ s \in Call /\ s.op \in Ops
    /\ \A op \in Ops, a \in Address :
        Field(op, a)' = IF op = s.op /\ a = s.a THEN s.v ELSE Field(op, a)

LEMMA QuietIsSame == Quiet => Same
<1>1. ASSUME Quiet, NEW a \in Address
      PROVE  getAccount(a)' = getAccount(a) /\ GetStorage(a)' = GetStorage(a)
             /\ GetCode(a)' = GetCode(a)
  BY <1>1, Stems DEF Quiet, getAccount, Account, GetStorage, GetCode
<1> QED
  BY <1>1 DEF Same, Field, GetNonce, GetBalance

LEMMA NonceOnly ==
    ASSUME IInv, call.phase = "update", NEW s \in call.todo, SetNonce(s)
    PROVE  Sets(s)
<1>1. s \in Call /\ s.op = "nonce" /\ UNCHANGED codes
  BY CallTyped DEF IInv, SetNonce
<1>2. ASSUME NEW a \in Address
      PROVE  /\ GetNonce(a)' = IF a = s.a THEN s.v ELSE GetNonce(a)
             /\ GetBalance(a)' = GetBalance(a)
             /\ GetStorage(a)' = GetStorage(a)
             /\ GetCode(a)' = GetCode(a)
  <2>1. getAccount(a) \in AccountData
    BY AccountTyped DEF IInv
  <2> QED
    BY <1>1, <2>1, SetNonceAfter
       DEF AccountData, GetNonce, GetBalance, GetStorage, GetCode
<1> QED
  BY <1>1, <1>2 DEF Sets, Ops, Field

LEMMA BalanceOnly ==
    ASSUME IInv, call.phase = "update", NEW s \in call.todo, SetBalance(s)
    PROVE  Sets(s)
<1>1. s \in Call /\ s.op = "balance" /\ UNCHANGED codes
  BY CallTyped DEF IInv, SetBalance
<1>2. ASSUME NEW a \in Address
      PROVE  /\ GetNonce(a)' = GetNonce(a)
             /\ GetBalance(a)' = IF a = s.a THEN s.v ELSE GetBalance(a)
             /\ GetStorage(a)' = GetStorage(a)
             /\ GetCode(a)' = GetCode(a)
  <2>1. getAccount(a) \in AccountData
    BY AccountTyped DEF IInv
  <2> QED
    BY <1>1, <2>1, SetBalanceAfter
       DEF AccountData, GetNonce, GetBalance, GetStorage, GetCode
<1> QED
  BY <1>1, <1>2 DEF Sets, Ops, Field

LEMMA StorageOnly ==
    ASSUME IInv, call.phase = "update", NEW s \in call.todo, SetStorage(s)
    PROVE  Sets(s)
<1>1. s \in Call /\ s.op = "storage" /\ UNCHANGED codes
  BY CallTyped DEF IInv, SetStorage
<1>2. ASSUME NEW a \in Address
      PROVE  /\ GetNonce(a)' = GetNonce(a) /\ GetBalance(a)' = GetBalance(a)
             /\ GetStorage(a)' = IF a = s.a THEN s.v ELSE GetStorage(a)
             /\ GetCode(a)' = GetCode(a)
  BY <1>1, SetStorageAfter DEF GetNonce, GetBalance, GetStorage, GetCode
<1> QED
  BY <1>1, <1>2 DEF Sets, Ops, Field

LEMMA CodeOnly ==
    ASSUME IInv, call.phase = "update", NEW s \in call.todo, SetCode(s)
    PROVE  Sets(s)
<1>1. /\ s \in Call /\ s.op = "code" /\ s.a \in Address
      /\ s.v \in Code /\ s.v # Absent
  BY CallTyped, GethAssumption DEF IInv, SetCode
<1>2. /\ codes' = [codes EXCEPT ![s.a] = s.v] /\ DOMAIN codes = Address
      /\ memory' = WithCode(s.a, s.v) /\ UNCHANGED source
  BY DEF IInv, CallInv, SetCode, Done, disk
<1>3. /\ \A b \in Address : getAccount(b)' =
            IF b = s.a THEN AccountOfCode(b, s.v) ELSE getAccount(b)
      /\ \A b \in Address : Read(<<b, "storage">>)' = Read(<<b, "storage">>)
  BY <1>1, <1>2, CodeAccountAfter DEF IInv
<1>4. ASSUME NEW a \in Address
      PROVE  /\ GetNonce(a)' = GetNonce(a) /\ GetBalance(a)' = GetBalance(a)
             /\ GetStorage(a)' = GetStorage(a)
             /\ GetCode(a)' = IF a = s.a THEN s.v ELSE GetCode(a)
  <2>1. getAccount(a) \in AccountData
    BY AccountTyped DEF IInv
  <2>2. /\ AccountOfCode(a, s.v).nonce = getAccount(a).nonce
        /\ AccountOfCode(a, s.v).balance = getAccount(a).balance
    BY <2>1 DEF AccountData, AccountOfCode
  <2>3. GetNonce(a)' = GetNonce(a) /\ GetBalance(a)' = GetBalance(a)
    BY <1>3, <2>2 DEF GetNonce, GetBalance
  <2>4. GetStorage(a)' = GetStorage(a)
    BY <1>3 DEF GetStorage
  <2>5. GetCode(a)' = IF a = s.a THEN s.v ELSE GetCode(a)
    BY <1>1, <1>2 DEF GetCode
  <2> QED
    BY <2>3, <2>4, <2>5
<1> QED
  BY <1>1, <1>4 DEF Sets, Ops, Field

LEMMA CreateIsSame ==
    ASSUME IInv, call.phase = "update", NEW s \in call.todo, CreateAccount(s)
    PROVE  Same
<1>1. UNCHANGED codes
  BY DEF CreateAccount
<1> QED
  BY <1>1, CreateAccountAfter
     DEF Same, Field, GetNonce, GetBalance, GetStorage, GetCode

\* Half of a SetCode does not show either: the code is told from the map.
LEMMA HalfCodeIsSame ==
    ASSUME IInv, call.phase = "update", NEW s \in call.todo, SetCodeFails(s)
    PROVE  Same
<1>1. s.a \in Address /\ s.v \in Code
  BY CallTyped DEF IInv, SetCodeFails
<1>2. /\ memory' = [memory EXCEPT ![<<s.a, "account">>] = AccountOfCode(s.a, s.v)]
      /\ UNCHANGED <<source, codes>>
  BY DEF SetCodeFails, disk
<1>3. /\ \A b \in Address : getAccount(b)' =
            IF b = s.a THEN AccountOfCode(b, s.v) ELSE getAccount(b)
      /\ \A b \in Address : Read(<<b, "storage">>)' = Read(<<b, "storage">>)
  BY <1>1, <1>2, CodeAccountAfter DEF IInv
<1>4. ASSUME NEW a \in Address
      PROVE  GetNonce(a)' = GetNonce(a) /\ GetBalance(a)' = GetBalance(a)
  <2>1. getAccount(a) \in AccountData
    BY AccountTyped DEF IInv
  <2>2. /\ AccountOfCode(a, s.v).nonce = getAccount(a).nonce
        /\ AccountOfCode(a, s.v).balance = getAccount(a).balance
    BY <2>1 DEF AccountData, AccountOfCode
  <2> QED
    BY <1>3, <2>2 DEF GetNonce, GetBalance
<1> QED
  BY <1>2, <1>3, <1>4 DEF Same, Field, GetStorage, GetCode

LEMMA OneFieldStep ==
    ASSUME IInv, [Next]_vars
    PROVE  \/ Same
           \/ Reopen
           \/ call.phase = "update" /\ \E s \in call.todo : Sets(s) /\ Done(s)
BY StepKinds, QuietIsSame, NonceOnly, BalanceOnly, StorageOnly, CodeOnly,
   CreateIsSame, HalfCodeIsSame
   DEF SetNonce, SetBalance, SetStorage, SetCode

-----------------------------------------------------------------------------
(* The refinement.                                                         *)

LEMMA ViewFields ==
    /\ View = [a \in Address |->
            [nonce |-> Field("nonce", a), balance |-> Field("balance", a),
             code |-> Field("code", a), slots |-> [k \in {0} |-> Field("storage", a)]]]
    /\ DOMAIN View = Address
    /\ \A a \in Address :
        /\ View[a].nonce = Field("nonce", a) /\ View[a].balance = Field("balance", a)
        /\ View[a].code = Field("code", a) /\ View[a].slots[0] = Field("storage", a)
BY DEF View, Field

\* The one field that Single(s) names; none if it creates an account.
LEMMA SingleField ==
    ASSUME NEW s, s.op \in Ops \cup {"create"}, NEW a, NEW old
    PROVE  /\ Accts!NewOr(Single(s).nonces, a, old) =
                IF s.op = "nonce" /\ a = s.a THEN s.v ELSE old
           /\ Accts!NewOr(Single(s).balances, a, old) =
                IF s.op = "balance" /\ a = s.a THEN s.v ELSE old
           /\ Accts!NewOr(Single(s).codes, a, old) =
                IF s.op = "code" /\ a = s.a THEN s.v ELSE old
           /\ Accts!NewOr(Single(s).slots, <<a, 0>>, old) =
                IF s.op = "storage" /\ a = s.a THEN s.v ELSE old
           /\ Single(s).deleted = {}
BY DEF Single, Ops, Accts!NewOr

LEMMA ViewSame == Same => View' = View
BY DEF Same, Ops, View, Field

\* What the getters tell of the fields is what Single(s) makes of them.
LEMMA FieldsAreApply ==
    ASSUME NEW s, s.op \in Ops \cup {"create"},
           \A op \in Ops, a \in Address :
                Field(op, a)' = IF op = s.op /\ a = s.a THEN s.v ELSE Field(op, a)
    PROVE  Accts!Apply(Single(s))
<1>1. ASSUME NEW a \in Address
      PROVE  /\ GetNonce(a)' = Accts!NewOr(Single(s).nonces, a, View[a].nonce)
             /\ GetBalance(a)' = Accts!NewOr(Single(s).balances, a, View[a].balance)
             /\ GetCode(a)' = Accts!NewOr(Single(s).codes, a, View[a].code)
             /\ GetStorage(a)' = Accts!NewOr(Single(s).slots, <<a, 0>>, View[a].slots[0])
  <2>1. /\ Field("nonce", a)' = IF s.op = "nonce" /\ a = s.a THEN s.v ELSE View[a].nonce
        /\ Field("balance", a)' = IF s.op = "balance" /\ a = s.a THEN s.v ELSE View[a].balance
        /\ Field("code", a)' = IF s.op = "code" /\ a = s.a THEN s.v ELSE View[a].code
        /\ Field("storage", a)' =
                IF s.op = "storage" /\ a = s.a THEN s.v ELSE View[a].slots[0]
    BY ViewFields DEF Ops
  <2> QED
    BY <2>1, SingleField DEF Field
<1>2. ASSUME NEW a \in Address
      PROVE  [k \in {0} |-> GetStorage(a)]' =
             [k \in {0} |-> Accts!NewOr(Single(s).slots, <<a, k>>, View[a].slots[k])]
  BY <1>1
<1>3. ASSUME NEW a \in Address
      PROVE  [nonce |-> GetNonce(a), balance |-> GetBalance(a), code |-> GetCode(a),
              slots |-> [k \in {0} |-> GetStorage(a)]]' =
             LET old == IF a \in Single(s).deleted THEN Accts!NewAccount ELSE View[a] IN
             [nonce   |-> Accts!NewOr(Single(s).nonces, a, old.nonce),
              balance |-> Accts!NewOr(Single(s).balances, a, old.balance),
              code    |-> Accts!NewOr(Single(s).codes, a, old.code),
              slots   |-> [k \in {0} |-> Accts!NewOr(Single(s).slots, <<a, k>>, old.slots[k])]]
  <2>1. a \notin Single(s).deleted
    BY SingleField
  <2> QED
    BY <1>1, <1>2, <2>1
<1> QED
  BY <1>3 DEF Accts!Apply, View

\* A step in which setter s returns is one of the setters that change the
\* fields that Single(s) names; no other step takes one call off the list.
LEMMA ReturnsIsApply ==
    ASSUME IInv, [Next]_vars, NEW s \in call.todo, Returns(s)
    PROVE  Accts!Apply(Single(s))
<1>1. /\ DOMAIN call = {"phase", "todo", "failed"} /\ call.phase = "update"
      /\ call'.phase = "update" /\ call'.todo = call.todo \ {s}
      /\ call'.todo # call.todo
  BY DEF IInv, CallInv, Returns
<1>2. PICK t \in call.todo :
        \/ SetNonce(t) \/ SetBalance(t) \/ CreateAccount(t) \/ SetStorage(t)
        \/ SetCode(t) \/ SetCodeFails(t) \/ SetterFails(t)
  <2>1. call' # Idle /\ call' # call
    BY <1>1 DEF Idle
  <2>2. ~ Reopen /\ ~ UNCHANGED vars
    BY <2>1 DEF Reopen, vars
  <2>3. ~ Commit /\ ~ Write /\ ~ Recreate
    BY <1>1 DEF Commit, Write, Recreate
  <2>4. \A p \in Stem : ~ Get(p)
    BY <1>1 DEF Get
  <2>5. \A u \in Update : ~ Begin(u)
    BY <1>1 DEF Begin
  <2> QED
    BY <2>2, <2>3, <2>4, <2>5 DEF Next, Step, ApplyTo
<1>3. ~ SetCodeFails(t) /\ ~ SetterFails(t)
  BY <1>1 DEF SetCodeFails, SetterFails, Return, Idle
<1>4. ASSUME Done(t) PROVE t = s
  BY <1>1, <1>4 DEF Done
<1>5. ASSUME Sets(s) PROVE Accts!Apply(Single(s))
  BY <1>5, FieldsAreApply DEF Sets
<1>6. CASE CreateAccount(t)
  <2>1. t = s /\ s.op = "create" /\ Same
    BY <1>1, <1>4, <1>6, CreateIsSame DEF CreateAccount
  <2>2. \A op \in Ops : op # s.op
    BY <2>1 DEF Ops
  <2>3. \A op \in Ops, a \in Address :
            Field(op, a)' = IF op = s.op /\ a = s.a THEN s.v ELSE Field(op, a)
    BY <2>1, <2>2 DEF Same
  <2> QED
    BY <2>1, <2>3, FieldsAreApply
<1>7. CASE SetNonce(t)
  BY <1>1, <1>4, <1>5, <1>7, NonceOnly DEF SetNonce
<1>8. CASE SetBalance(t)
  BY <1>1, <1>4, <1>5, <1>8, BalanceOnly DEF SetBalance
<1>9. CASE SetStorage(t)
  BY <1>1, <1>4, <1>5, <1>9, StorageOnly DEF SetStorage
<1>10. CASE SetCode(t)
  BY <1>1, <1>4, <1>5, <1>10, CodeOnly DEF SetCode
<1> QED
  BY <1>2, <1>3, <1>6, <1>7, <1>8, <1>9, <1>10

LEMMA ReopenIsInit ==
    ASSUME Reopen
    PROVE  Accts!Init'
<1>1. ASSUME NEW a \in Address
      PROVE  /\ getAccount(a)' = EmptyAccount /\ GetStorage(a)' = Zero
             /\ GetCode(a)' = <<>>
  BY Stems, GethAssumption
     DEF Reopen, NoNodes, getAccount, Account, Read, GetCode, GetStorage
<1>2. EmptyAccount.nonce = 0 /\ EmptyAccount.balance = 0
  BY DEF EmptyAccount
<1> QED
  BY <1>1, <1>2 DEF Accts!Init, Accts!NewAccount, View, GetNonce, GetBalance

\* Seen through the getters, each setter of the running Apply that returns is
\* a step of the Ledger with what its call names; a state that is opened again
\* is an initial one, and no other step changes anything.
THEOREM GettersImplementLedger == Spec => RefinesLedger
<1>1. Init => Accts!Init
  <2>1. ASSUME Init, NEW a \in Address
        PROVE  /\ getAccount(a) = EmptyAccount /\ GetStorage(a) = Zero
               /\ GetCode(a) = <<>>
    BY <2>1, Stems, GethAssumption
       DEF Init, NoNodes, getAccount, Account, Read, GetCode, GetStorage
  <2>2. EmptyAccount.nonce = 0 /\ EmptyAccount.balance = 0
    BY DEF EmptyAccount
  <2> QED
    BY <2>1, <2>2 DEF Accts!Init, Accts!NewAccount, View, GetNonce, GetBalance
<1> DEFINE Right ==
        /\ \A s \in call.todo : Returns(s) => Accts!Apply(Single(s))
        /\ Reopen => Accts!Init'
        /\ View' # View => Reopen \/ \E s \in call.todo : Returns(s)
<1>2. IInv /\ [Next]_vars => [Right]_vars
  <2> SUFFICES ASSUME IInv, [Next]_vars PROVE Right
    OBVIOUS
  <2>1. ASSUME View' # View
        PROVE  Reopen \/ \E s \in call.todo : Returns(s)
    BY <2>1, OneFieldStep, ViewSame DEF Done, Returns
  <2> QED
    BY <2>1, ReturnsIsApply, ReopenIsInit
<1> QED
  BY <1>1, <1>2, InvariantCorrect, PTL DEF Spec, RefinesLedger

-----------------------------------------------------------------------------
(* Attempts at an update.                                                  *)

\* A field in the state the first attempt found, and when it is done.
Base(op, a) ==
    LET old == last.base[a] IN
    IF op = "nonce" THEN old.nonce
    ELSE IF op = "balance" THEN old.balance
    ELSE IF op = "code" THEN old.code ELSE old.slots[0]

Target(op, a) == NewOr(last.update, op, a, Base(op, a))

\* While attempts go on, each field is as it was or as it shall be; those
\* whose setters have returned are as they shall be.
AttemptInv ==
    /\ last.outcome \in {"none", "running", "error", "ok"}
    /\ call.phase = "idle" <=> last.outcome # "running"
    /\ last.outcome \in {"running", "error"} =>
        /\ last.update \in Update
        /\ \A op \in Ops, a \in Address : Field(op, a) \in {Base(op, a), Target(op, a)}
    /\ last.outcome = "running" =>
        \A s \in last.update : s.op \in Ops /\ (call.phase = "commit" \/ s \notin call.todo)
            => Field(s.op, s.a) = s.v
    /\ last.outcome = "ok" =>
        \A op \in Ops, a \in Address : Field(op, a) = Target(op, a)

\* The target of a field that the update names.
LEMMA NamedTarget ==
    ASSUME last.update \in Update, NEW s \in last.update
    PROVE  Target(s.op, s.a) = s.v
<1>1. \A t \in last.update : t.op = s.op /\ t.a = s.a => t = s
  BY GethAssumption
<1> QED
  BY <1>1 DEF Target, NewOr

LEMMA UnnamedTarget ==
    ASSUME NEW op, NEW a, \A s \in last.update : ~ (s.op = op /\ s.a = a)
    PROVE  Target(op, a) = Base(op, a)
BY DEF Target, NewOr

\* A step that leaves the fields and the last update as they are.
LEMMA AttemptStill ==
    ASSUME AttemptInv, Same, UNCHANGED last, call'.phase = call.phase,
           \A s \in last.update : s.op \in Ops /\ s \in call.todo => s \in call'.todo
    PROVE  AttemptInv'
<1>1. \A op \in Ops, a \in Address : Base(op, a)' = Base(op, a) /\ Target(op, a)' = Target(op, a)
  BY DEF Base, Target, NewOr
<1>2. last.update \in Update => \A s \in last.update : s.a \in Address
  BY GethAssumption DEF Call
<1> QED
  BY <1>1, <1>2 DEF AttemptInv, Same

\* A step that ends an attempt with an error.
LEMMA AttemptFails ==
    ASSUME AttemptInv, CallInv, Same, Return("error"), call.phase # "idle"
    PROVE  AttemptInv'
<1>1. /\ last'.update = last.update /\ last'.base = last.base
      /\ last'.outcome = "error" /\ call'.phase = "idle"
  BY DEF Return, Idle, CallInv
<1>2. \A op \in Ops, a \in Address : Base(op, a)' = Base(op, a) /\ Target(op, a)' = Target(op, a)
  BY <1>1 DEF Base, Target, NewOr
<1> QED
  BY <1>1, <1>2 DEF AttemptInv, Same

\* A step that ends an attempt when all setters have returned.
LEMMA AttemptSucceeds ==
    ASSUME AttemptInv, CallInv, Same, Return("ok"), call.phase # "idle",
           call.phase = "commit" \/ call.todo = {}
    PROVE  AttemptInv'
<1>1. /\ last'.update = last.update /\ last'.base = last.base
      /\ last'.outcome = "ok" /\ call'.phase = "idle"
  BY DEF Return, Idle, CallInv
<1>2. \A op \in Ops, a \in Address : Base(op, a)' = Base(op, a) /\ Target(op, a)' = Target(op, a)
  BY <1>1 DEF Base, Target, NewOr
<1>3. ASSUME NEW op \in Ops, NEW a \in Address
      PROVE  Field(op, a) = Target(op, a)
  <2>1. CASE \E s \in last.update : s.op = op /\ s.a = a
    <3>1. PICK s \in last.update : s.op = op /\ s.a = a
      BY <2>1
    <3>2. Field(s.op, s.a) = s.v
      BY <3>1 DEF AttemptInv
    <3>3. Target(s.op, s.a) = s.v
      BY NamedTarget DEF AttemptInv
    <3> QED
      BY <3>1, <3>2, <3>3
  <2>2. CASE \A s \in last.update : ~ (s.op = op /\ s.a = a)
    BY <2>2, UnnamedTarget DEF AttemptInv
  <2> QED
    BY <2>1, <2>2
<1> QED
  BY <1>1, <1>2, <1>3 DEF AttemptInv, Same

LEMMA AttemptSets ==
    ASSUME AttemptInv, CallInv, call.phase = "update", NEW s \in call.todo,
           Sets(s), Done(s)
    PROVE  AttemptInv'
<1>1. /\ UNCHANGED last /\ call'.phase = "update" /\ call'.todo = call.todo \ {s}
      /\ last.outcome = "running" /\ last.update \in Update /\ s \in last.update
  BY DEF Done, CallInv, AttemptInv
<1>2. \A op \in Ops, a \in Address : Base(op, a)' = Base(op, a) /\ Target(op, a)' = Target(op, a)
  BY <1>1 DEF Base, Target, NewOr
<1>3. Target(s.op, s.a) = s.v
  BY <1>1, NamedTarget
<1>4. ASSUME NEW op \in Ops, NEW a \in Address
      PROVE  Field(op, a)' \in {Base(op, a), Target(op, a)}
  BY <1>1, <1>3 DEF Sets, AttemptInv
<1>5. ASSUME NEW t \in last.update, t.op \in Ops, t \notin call'.todo
      PROVE  Field(t.op, t.a)' = t.v
  <2>1. t.a \in Address
    BY <1>1, GethAssumption DEF Call
  <2>2. t.op = s.op /\ t.a = s.a => t = s
    BY <1>1, GethAssumption
  <2>3. CASE t = s
    BY <1>5, <2>1, <2>3 DEF Sets
  <2>4. CASE t # s
    <3>1. Field(t.op, t.a) = t.v
      BY <1>1, <1>5, <2>4 DEF AttemptInv
    <3> QED
      BY <1>5, <2>1, <2>2, <2>4, <3>1 DEF Sets
  <2> QED
    BY <2>3, <2>4
<1> QED
  BY <1>1, <1>2, <1>4, <1>5 DEF AttemptInv

LEMMA AttemptBegins ==
    ASSUME AttemptInv, CallInv, NEW u \in Update, Begin(u)
    PROVE  AttemptInv'
<1>1. /\ last'.update = u /\ last'.outcome = "running"
      /\ last'.base = IF last.outcome = "error" /\ last.update = u THEN last.base ELSE View
      /\ call'.phase = "update" /\ call'.todo = u
  BY DEF Begin
<1>2. Same
  BY StillIsQuiet, QuietIsSame DEF Begin
<1>3. ASSUME NEW op \in Ops, NEW a \in Address
      PROVE  Field(op, a) \in {Base(op, a)', Target(op, a)'}
  <2>1. CASE last.outcome = "error" /\ last.update = u
    <3>1. Base(op, a)' = Base(op, a) /\ Target(op, a)' = Target(op, a)
      BY <1>1, <2>1 DEF Base, Target, NewOr
    <3> QED
      BY <2>1, <3>1 DEF AttemptInv
  <2>2. CASE ~ (last.outcome = "error" /\ last.update = u)
    <3>1. last'.base = View
      BY <1>1, <2>2
    <3>2. Base(op, a)' = Field(op, a)
      BY <3>1, ViewFields DEF Base, Ops
    <3> QED
      BY <3>2
  <2> QED
    BY <2>1, <2>2
<1> QED
  BY <1>1, <1>2, <1>3 DEF AttemptInv, Same

LEMMA AttemptStep ==
    ASSUME IInv, AttemptInv, [Next]_vars
    PROVE  AttemptInv'
<1>1. ASSUME NEW u \in Update, Begin(u) PROVE AttemptInv'
  BY <1>1, AttemptBegins DEF IInv
<1>2. CASE Reopen
  <2>1. last'.outcome = "none" /\ call'.phase = "idle"
    BY <1>2 DEF Reopen, Idle, IInv, CallInv
  <2> QED
    BY <2>1 DEF AttemptInv
<1>3. CASE ApplyTo
  <2>1. PICK s \in call.todo :
          \/ SetNonce(s) \/ SetBalance(s) \/ CreateAccount(s) \/ SetStorage(s)
          \/ SetCode(s) \/ SetCodeFails(s) \/ SetterFails(s)
    BY <1>3 DEF ApplyTo
  <2>2. call.phase = "update"
    BY <1>3 DEF ApplyTo
  <2>3. CASE SetNonce(s) \/ SetBalance(s) \/ SetStorage(s) \/ SetCode(s)
    <3>1. Sets(s) /\ Done(s)
      BY <2>2, <2>3, NonceOnly, BalanceOnly, StorageOnly, CodeOnly
         DEF SetNonce, SetBalance, SetStorage, SetCode
    <3> QED
      BY <2>2, <3>1, AttemptSets DEF IInv
  <2>4. CASE CreateAccount(s)
    <3>1. Same
      BY <2>2, <2>4, CreateIsSame
    <3>2. /\ UNCHANGED last /\ s.op = "create"
          /\ call'.phase = call.phase /\ call'.todo = call.todo \ {s}
      BY <2>4 DEF CreateAccount, Done, IInv, CallInv
    <3>3. s.op \notin Ops
      BY <3>2 DEF Ops
    <3> QED
      BY <3>1, <3>2, <3>3, AttemptStill
  <2>5. CASE SetCodeFails(s) \/ SetterFails(s)
    <3>1. Return("error")
      BY <2>5 DEF SetCodeFails, SetterFails
    <3>2. Same
      BY <2>2, <2>5, HalfCodeIsSame, StillIsQuiet, QuietIsSame DEF SetterFails
    <3> QED
      BY <2>2, <3>1, <3>2, AttemptFails DEF IInv
  <2> QED
    BY <2>1, <2>3, <2>4, <2>5
<1>4. CASE Commit
  <2>1. Same /\ call.phase = "update" /\ call.todo = {}
    BY <1>4, StillIsQuiet, QuietIsSame DEF Commit
  <2>2. CASE ~ persistent
    BY <1>4, <2>1, <2>2, AttemptSucceeds DEF Commit, IInv
  <2>3. CASE persistent
    <3>1. call'.phase = "commit" /\ UNCHANGED last
      BY <1>4, <2>3 DEF Commit
    <3>2. \A op \in Ops, a \in Address :
            Base(op, a)' = Base(op, a) /\ Target(op, a)' = Target(op, a)
      BY <3>1 DEF Base, Target, NewOr
    <3>3. last.outcome = "running" /\ last.update \in Update
          /\ \A s \in last.update : s.a \in Address
      BY <2>1, GethAssumption DEF AttemptInv, Call
    <3> QED
      BY <2>1, <3>1, <3>2, <3>3 DEF AttemptInv, Same
  <2> QED
    BY <2>2, <2>3
<1>5. CASE Write
  <2>1. Same
    BY <1>5, CommitIsQuiet, QuietIsSame
  <2>2. call.phase = "commit" /\ call'.phase = "commit" /\ UNCHANGED last
    BY <1>5 DEF Write, WriteNode, WriteFails, IInv, CallInv
  <2>3. \A op \in Ops, a \in Address :
          Base(op, a)' = Base(op, a) /\ Target(op, a)' = Target(op, a)
    BY <2>2 DEF Base, Target, NewOr
  <2>4. last.outcome = "running" /\ last.update \in Update
        /\ \A s \in last.update : s.a \in Address
    BY <2>2, GethAssumption DEF AttemptInv, Call
  <2> QED
    BY <2>1, <2>2, <2>3, <2>4 DEF AttemptInv, Same
<1>6. CASE Recreate
  <2>1. Same /\ call.phase = "commit"
    BY <1>6, RecreateIsQuiet, QuietIsSame DEF Recreate
  <2>2. Return("ok") \/ Return("error")
    BY <1>6 DEF Recreate
  <2> QED
    BY <2>1, <2>2, AttemptSucceeds, AttemptFails DEF IInv
<1>7. ASSUME NEW p \in Stem, Get(p) PROVE AttemptInv'
  <2>1. Same
    BY <1>7, GetIsQuiet, QuietIsSame
  <2>2. UNCHANGED <<call, last>>
    BY <1>7 DEF Get
  <2> QED
    BY <2>1, <2>2, AttemptStill
<1>8. CASE UNCHANGED vars
  <2>1. Same /\ UNCHANGED <<call, last>>
    BY <1>8, StillIsQuiet, QuietIsSame DEF vars
  <2> QED
    BY <2>1, AttemptStill
<1> QED
  BY <1>1, <1>2, <1>3, <1>4, <1>5, <1>6, <1>7, <1>8 DEF Next, Step

\* While an attempt goes on, the accounts whose SetCode failed half way are
\* not among those whose SetCode has returned.
HealedInv ==
    /\ last.outcome # "none" => last.update \in Update
    /\ \A s \in last.update : s.op = "code" /\ s.a \in torn =>
        \/ last.outcome \in {"none", "error"}
        \/ call.phase = "update" /\ s \in call.todo

LEMMA HealedStep == CallInv /\ AttemptInv /\ HealedInv /\ [Next]_vars => HealedInv'
<1> SUFFICES ASSUME CallInv, AttemptInv, HealedInv, [Next]_vars PROVE HealedInv'
  OBVIOUS
<1>1. ASSUME Return("error"), call.phase # "idle" PROVE HealedInv'
  BY <1>1 DEF Return, CallInv, AttemptInv, HealedInv
<1>2. ASSUME Return("ok"), UNCHANGED torn, call.phase # "idle",
             call.phase = "commit" \/ call.todo = {}
      PROVE  HealedInv'
  BY <1>2 DEF Return, CallInv, AttemptInv, HealedInv
<1>3. ASSUME NEW u \in Update, Begin(u) PROVE HealedInv'
  BY <1>3 DEF Begin, HealedInv
<1>4. CASE ApplyTo
  <2>1. PICK t \in call.todo :
            \/ SetNonce(t) \/ SetBalance(t) \/ CreateAccount(t) \/ SetStorage(t)
            \/ SetCode(t) \/ SetCodeFails(t) \/ SetterFails(t)
    BY <1>4 DEF ApplyTo
  <2>2. ASSUME t.op # "code", UNCHANGED torn, Done(t)
        PROVE  HealedInv'
    BY <1>4, <2>2 DEF ApplyTo, Done, CallInv, HealedInv
  <2>3. CASE SetCode(t)
    BY <1>4, <2>3 DEF ApplyTo, SetCode, Done, CallInv, HealedInv
  <2>4. CASE SetCodeFails(t) \/ SetterFails(t)
    BY <1>1, <1>4, <2>4 DEF ApplyTo, SetCodeFails, SetterFails
  <2> QED
    BY <2>1, <2>2, <2>3, <2>4 DEF SetNonce, SetBalance, CreateAccount, SetStorage
<1>5. CASE Commit
  <2>1. CASE persistent
    BY <1>5, <2>1 DEF Commit, AttemptInv, HealedInv
  <2>2. CASE ~ persistent
    BY <1>2, <1>5, <2>2 DEF Commit
  <2> QED
    BY <2>1, <2>2
<1>6. CASE Write
  BY <1>6 DEF Write, WriteNode, HealedInv
<1>7. CASE Recreate
  BY <1>1, <1>2, <1>7 DEF Recreate
<1>8. ASSUME NEW p \in Stem, Get(p) PROVE HealedInv'
  BY <1>8 DEF Get, HealedInv
<1>9. CASE Reopen
  BY <1>9 DEF Reopen, HealedInv
<1>10. CASE UNCHANGED vars
  BY <1>10 DEF vars, HealedInv
<1> QED
  BY <1>3, <1>4, <1>5, <1>6, <1>7, <1>8, <1>9, <1>10 DEF Next, Step

\* An Apply that succeeds leaves the state the first attempt found with the
\* whole update applied, hash and size of codes included.
THEOREM RetryCorrect == Spec => []RetryCompletes
<1>1. Init => AttemptInv /\ HealedInv
  BY DEF Init, Idle, AttemptInv, HealedInv
<1>2. IInv /\ AttemptInv /\ [Next]_vars => AttemptInv'
  BY AttemptStep
<1>3. IInv /\ AttemptInv /\ HealedInv /\ [Next]_vars => HealedInv'
  BY HealedStep DEF IInv
<1>4. IInv /\ AttemptInv /\ HealedInv /\ CodeMatchesHash => RetryCompletes
  <2> SUFFICES ASSUME IInv, AttemptInv, HealedInv, CodeMatchesHash, last.outcome = "ok"
               PROVE  /\ \A a \in Address :
                            /\ GetNonce(a) = NewOr(last.update, "nonce", a, last.base[a].nonce)
                            /\ GetBalance(a) = NewOr(last.update, "balance", a, last.base[a].balance)
                            /\ GetCode(a) = NewOr(last.update, "code", a, last.base[a].code)
                            /\ GetStorage(a) = NewOr(last.update, "storage", a, last.base[a].slots[0])
                      /\ \A s \in last.update : s.op = "code" =>
                            GetCodeHash(s.a) = s.v /\ getAccount(s.a).size = Len(s.v)
    BY DEF RetryCompletes, View
  <2>1. \A op \in Ops, a \in Address : Field(op, a) = Target(op, a)
    BY DEF AttemptInv
  <2>2. last.update \in Update
    BY DEF HealedInv
  <2>3. ASSUME NEW s \in last.update, s.op = "code"
        PROVE  GetCodeHash(s.a) = s.v /\ getAccount(s.a).size = Len(s.v)
    <3>1. s.a \in Address
      BY <2>2, GethAssumption DEF Call
    <3>2. s.a \notin torn
      BY <2>3 DEF AttemptInv, HealedInv
    <3>3. GetCode(s.a) = s.v
      BY <2>1, <2>2, <2>3, <3>1, NamedTarget DEF Ops, Field
    <3> QED
      BY <3>1, <3>2, <3>3 DEF CodeMatchesHash, GetCodeHash, GetCodeSize
  <2> QED
    BY <2>1, <2>3 DEF Ops, Field, Target, Base
<1> QED
  BY <1>1, <1>2, <1>3, <1>4, InvariantCorrect, CodeHashCorrect, PTL DEF Spec

-----------------------------------------------------------------------------
(* Apply ends.  That a step which can be taken is taken in the end is for  *)
(* the fairness of Spec; here is why the steps of an Apply come to an end, *)
(* and why there is always one until it does.                              *)

\* The nodes that the next commit writes.
InMemory == {p \in Stem : memory[p] \notin {Hashed, Absent}}

FiniteInv == IsFiniteSet(InMemory) /\ IsFiniteSet(call.todo)

\* The stems of an account.
Of(a) == {<<a, "account">>, <<a, "code">>, <<a, "storage">>}

\* A setter uses the nodes of its account.
LEMMA SetterIsLocal ==
    ASSUME NodesInv, NEW s,
           \/ SetNonce(s) \/ SetBalance(s) \/ CreateAccount(s) \/ SetStorage(s)
           \/ SetCode(s) \/ SetCodeFails(s) \/ SetterFails(s)
    PROVE  \A p \in Stem \ Of(s.a) : memory'[p] = memory[p]
<1>1. CASE SetNonce(s)
  BY <1>1 DEF SetNonce, UpdateAccount, NodesInv, Of
<1>2. CASE SetBalance(s)
  BY <1>2 DEF SetBalance, UpdateAccount, NodesInv, Of
<1>3. CASE CreateAccount(s)
  BY <1>3 DEF CreateAccount, UpdateAccount, Loaded, NodesInv, Of
<1>4. CASE SetStorage(s)
  BY <1>4 DEF SetStorage, NodesInv, Of
<1>5. CASE SetCode(s)
  BY <1>5 DEF SetCode, WithCode, NodesInv, Of
<1>6. CASE SetCodeFails(s)
  BY <1>6 DEF SetCodeFails, NodesInv, Of
<1>7. CASE SetterFails(s)
  BY <1>7 DEF SetterFails, trie
<1> QED
  BY <1>1, <1>2, <1>3, <1>4, <1>5, <1>6, <1>7

LEMMA ThreeMore ==
    ASSUME NEW S, IsFiniteSet(S), NEW T, NEW x, NEW y, NEW z, T \subseteq S \cup {x, y, z}
    PROVE  /\ IsFiniteSet(T) /\ Cardinality(T) \in Nat /\ Cardinality(S) \in Nat
           /\ Cardinality(T) <= Cardinality(S) + 3
<1> DEFINE S1 == S \cup {x}
           S2 == S1 \cup {y}
           S3 == S2 \cup {z}
<1>1. IsFiniteSet(S1) /\ Cardinality(S1) \in {Cardinality(S), Cardinality(S) + 1}
  BY FS_AddElement
<1>2. IsFiniteSet(S2) /\ Cardinality(S2) \in {Cardinality(S1), Cardinality(S1) + 1}
  <2> HIDE DEF S1
  <2> QED
    BY <1>1, FS_AddElement
<1>3. IsFiniteSet(S3) /\ Cardinality(S3) \in {Cardinality(S2), Cardinality(S2) + 1}
  <2> HIDE DEF S2
  <2> QED
    BY <1>2, FS_AddElement
<1>4. T \in SUBSET S3
  OBVIOUS
<1> HIDE DEF S1, S2, S3
<1>5. IsFiniteSet(T) /\ Cardinality(T) <= Cardinality(S3)
  BY <1>3, <1>4, FS_Subset
<1>6. Cardinality(S) \in Nat /\ Cardinality(T) \in Nat
  BY <1>5, FS_CardinalityType
<1> QED
  BY <1>1, <1>2, <1>3, <1>5, <1>6

\* What an Apply has still to do, at most.  Each setter brings three nodes
\* at most into memory, which the commit writes then; after it the nodes are
\* dropped.
Work ==
    IF call.phase = "update" THEN 4 * Cardinality(call.todo) + Cardinality(InMemory) + 3
    ELSE IF call.phase = "commit" THEN Cardinality(call.todo) + 1 ELSE 0

LEMMA WorkType ==
    ASSUME FiniteInv
    PROVE  Work \in Nat /\ Cardinality(call.todo) \in Nat /\ Cardinality(InMemory) \in Nat
<1>1. Cardinality(call.todo) \in Nat /\ Cardinality(InMemory) \in Nat
  BY FS_CardinalityType DEF FiniteInv
<1> QED
  BY <1>1 DEF Work

\* An Apply that returns has nothing left to do.
LEMMA ReturnEnds ==
    ASSUME NEW o, Return(o)
    PROVE  call'.todo = {} /\ IsFiniteSet(call'.todo) /\ Work' = 0
<1>1. call' = Idle
  BY DEF Return
<1> QED
  BY <1>1, FS_EmptySet DEF Idle, Work

LEMMA SetterWorks ==
    ASSUME IInv, FiniteInv, ApplyTo
    PROVE  FiniteInv' /\ Work' < Work
<1>1. /\ call.phase = "update"
      /\ Work = 4 * Cardinality(call.todo) + Cardinality(InMemory) + 3
  BY DEF ApplyTo, Work
<1>2. PICK s \in call.todo :
        \/ SetNonce(s) \/ SetBalance(s) \/ CreateAccount(s) \/ SetStorage(s)
        \/ SetCode(s) \/ SetCodeFails(s) \/ SetterFails(s)
  BY DEF ApplyTo
<1>3. \A p \in Stem \ Of(s.a) : memory'[p] = memory[p]
  BY <1>2, SetterIsLocal DEF IInv
<1>4. InMemory' \subseteq InMemory \cup Of(s.a)
  BY <1>3 DEF InMemory
<1>5. /\ IsFiniteSet(InMemory') /\ Cardinality(InMemory') \in Nat
      /\ Cardinality(InMemory') <= Cardinality(InMemory) + 3
  <2> HIDE DEF InMemory
  <2> QED
    BY <1>4, ThreeMore DEF FiniteInv, Of
<1>6. CASE Done(s)
  <2>1. call' = [call EXCEPT !.todo = @ \ {s}]
    BY <1>6 DEF Done
  <2>2. call'.todo = call.todo \ {s} /\ call'.phase = "update"
    BY <1>1, <2>1 DEF IInv, CallInv
  <2>3. IsFiniteSet(call.todo \ {s}) /\ Cardinality(call.todo \ {s}) = Cardinality(call.todo) - 1
    BY FS_RemoveElement DEF FiniteInv
  <2>4. Work' = 4 * (Cardinality(call.todo) - 1) + Cardinality(InMemory') + 3
    BY <2>2, <2>3 DEF Work
  <2>5. Work' < Work
    <3> HIDE DEF InMemory
    <3> QED
      BY <1>1, <1>5, <2>4, WorkType
  <2> QED
    BY <1>5, <2>2, <2>3, <2>5 DEF FiniteInv
<1>7. CASE Return("error")
  <2>1. IsFiniteSet(call'.todo) /\ Work' = 0
    BY <1>7, ReturnEnds
  <2>2. Work' < Work
    <3> HIDE DEF InMemory
    <3> QED
      BY <1>1, <2>1, WorkType
  <2> QED
    BY <1>5, <2>1, <2>2 DEF FiniteInv
<1> QED
  BY <1>2, <1>6, <1>7
     DEF SetNonce, SetBalance, CreateAccount, SetStorage, SetCode, SetCodeFails, SetterFails

LEMMA CommitWorks ==
    ASSUME IInv, FiniteInv, Commit
    PROVE  FiniteInv' /\ Work' < Work
<1>1. /\ call.phase = "update" /\ call.todo = {} /\ UNCHANGED memory
      /\ Work = 4 * Cardinality(call.todo) + Cardinality(InMemory) + 3
  BY DEF Commit, trie, Work
<1>2. InMemory' = InMemory
  BY <1>1 DEF InMemory
<1>3. CASE persistent
  <2>1. call' = [phase |-> "commit", todo |-> NodeSet, failed |-> FALSE]
    BY <1>3 DEF Commit
  <2>2. NodeSet = InMemory \cup {Root}
    BY DEF NodeSet, InMemory
  <2>3. /\ IsFiniteSet(InMemory \cup {Root})
        /\ Cardinality(InMemory \cup {Root}) \in {Cardinality(InMemory), Cardinality(InMemory) + 1}
    <3> HIDE DEF InMemory
    <3> QED
      BY FS_AddElement DEF FiniteInv
  <2>4. Work' = Cardinality(InMemory \cup {Root}) + 1
    BY <2>1, <2>2 DEF Work
  <2>5. Work' < Work
    <3> HIDE DEF InMemory
    <3> QED
      BY <1>1, <2>3, <2>4, WorkType
  <2> QED
    BY <1>2, <2>1, <2>2, <2>3, <2>5 DEF FiniteInv
<1>4. CASE ~ persistent
  <2>1. IsFiniteSet(call'.todo) /\ Work' = 0
    BY <1>4, ReturnEnds DEF Commit
  <2>2. Work' < Work
    <3> HIDE DEF InMemory
    <3> QED
      BY <1>1, <2>1, WorkType
  <2> QED
    BY <1>2, <2>1, <2>2 DEF FiniteInv
<1> QED
  BY <1>3, <1>4

LEMMA WriteWorks ==
    ASSUME IInv, FiniteInv, Write
    PROVE  FiniteInv' /\ Work' < Work
<1>1. PICK p \in call.todo : WriteNode(p)
  BY DEF Write
<1>2. call.phase = "commit" /\ UNCHANGED memory
  BY <1>1 DEF Write, WriteNode, trie
<1>3. InMemory' = InMemory
  BY <1>2 DEF InMemory
<1>4. call'.todo = call.todo \ {p} /\ call'.phase = "commit"
  BY <1>1, <1>2 DEF WriteNode, WriteFails, IInv, CallInv
<1>5. IsFiniteSet(call.todo \ {p}) /\ Cardinality(call.todo \ {p}) = Cardinality(call.todo) - 1
  BY FS_RemoveElement DEF FiniteInv
<1>6. Work = Cardinality(call.todo) + 1 /\ Work' = (Cardinality(call.todo) - 1) + 1
  BY <1>2, <1>4, <1>5 DEF Work
<1>7. Work' < Work
  BY <1>6, WorkType
<1> QED
  BY <1>3, <1>4, <1>5, <1>7 DEF FiniteInv

LEMMA RecreateWorks ==
    ASSUME IInv, FiniteInv, Recreate
    PROVE  FiniteInv' /\ Work' < Work
<1>1. call.phase = "commit" /\ Work = Cardinality(call.todo) + 1
  BY DEF Recreate, Work
<1>2. IsFiniteSet(call'.todo) /\ Work' = 0
  BY ReturnEnds DEF Recreate
<1>3. InMemory' = {} \/ InMemory' = InMemory
  <2>1. CASE memory' = [p \in Stem |-> IF sourceRoot[p] = Absent THEN Absent ELSE Hashed]
    BY <2>1 DEF InMemory
  <2>2. CASE memory' = memory
    BY <2>2 DEF InMemory
  <2> QED
    BY <2>1, <2>2 DEF Recreate, trie
<1>4. IsFiniteSet(InMemory')
  BY <1>3, FS_EmptySet DEF FiniteInv
<1>5. Work' < Work
  BY <1>1, <1>2, WorkType
<1> QED
  BY <1>2, <1>4, <1>5 DEF FiniteInv

LEMMA OtherFinite ==
    ASSUME IInv, FiniteInv,
           \/ \E u \in Update : Begin(u)
           \/ \E p \in Stem : Get(p)
           \/ Reopen
           \/ UNCHANGED vars
    PROVE  FiniteInv'
<1>1. ASSUME NEW u \in Update, Begin(u) PROVE FiniteInv'
  <2>1. call'.todo = u /\ InMemory' = InMemory
    BY <1>1 DEF Begin, trie, InMemory
  <2> QED
    BY <2>1, GethAssumption DEF FiniteInv
<1>2. ASSUME NEW p \in Stem, Get(p) PROVE FiniteInv'
  <2>1. InMemory' \subseteq InMemory \cup {p} /\ call' = call
    BY <1>2 DEF Get, Loaded, IInv, NodesInv, InMemory
  <2>2. IsFiniteSet(InMemory')
    <3> HIDE DEF InMemory
    <3>1. IsFiniteSet(InMemory \cup {p})
      BY FS_AddElement DEF FiniteInv
    <3> QED
      BY <2>1, <3>1, FS_Subset
  <2> QED
    BY <2>1, <2>2 DEF FiniteInv
<1>3. CASE Reopen
  <2>1. InMemory' = {} /\ call'.todo = {}
    BY <1>3 DEF Reopen, NoNodes, Idle, InMemory
  <2> QED
    BY <2>1, FS_EmptySet DEF FiniteInv
<1>4. CASE UNCHANGED vars
  BY <1>4 DEF vars, trie, InMemory, FiniteInv
<1> QED
  BY <1>1, <1>2, <1>3, <1>4

LEMMA FiniteInvariance == Spec => []FiniteInv
<1>1. Init => FiniteInv
  <2>1. Init => InMemory = {} /\ call.todo = {}
    BY DEF Init, NoNodes, Idle, InMemory
  <2> QED
    BY <2>1, FS_EmptySet DEF FiniteInv
<1>2. IInv /\ FiniteInv /\ [Next]_vars => FiniteInv'
  BY SetterWorks, CommitWorks, WriteWorks, RecreateWorks, OtherFinite DEF Next, Step
<1> QED
  BY <1>1, <1>2, InvariantCorrect, PTL DEF Spec

\* Apply is bounded, whatever fails: each of its steps leaves less to do.
\* Errors of the source do not make it start over, and no write is repeated.
THEOREM ApplyIsBounded == Spec => [](Work \in Nat) /\ [][Step => Work' < Work]_vars
<1>1. FiniteInv => Work \in Nat
  BY WorkType
<1>2. IInv /\ FiniteInv /\ [Next]_vars => [Step => Work' < Work]_vars
  BY SetterWorks, CommitWorks, WriteWorks, RecreateWorks DEF Step
<1> QED
  BY <1>1, <1>2, InvariantCorrect, FiniteInvariance, PTL DEF Spec

\* Where an Apply stands there is something to do without a failure of the
\* source: a setter whose nodes are all there, or one that always fails; a
\* commit; a write; or the new trie.
CanGoOn ==
    \/ /\ call.phase = "update"
       /\ \/ call.todo = {}
          \/ \E s \in call.todo :
                \/ s.op = "delete"
                \/ /\ s.op \in {"create", "nonce", "balance", "code", "storage"}
                   /\ \A p \in Of(s.a) : Available(p)
    \/ call.phase = "commit" /\ (call.todo = {} \/ \E p \in call.todo : p \in NodeSet)

\* No Apply is ever stuck.  In particular no setter finds a node missing on
\* the source, in whatever state earlier failures and ends of processes have
\* left it: an Apply whose calls of the source succeed gets through.
THEOREM ApplyGoesOn ==
    Spec => [](/\ \A p \in Stem : Available(p)
               /\ call.phase # "idle" => CanGoOn)
<1>1. IInv => \A p \in Stem : Available(p)
  BY DEF IInv, SourceBacksRoot, Available
<1>2. IInv => (call.phase # "idle" => CanGoOn)
  <2> SUFFICES ASSUME IInv, call.phase # "idle" PROVE CanGoOn
    OBVIOUS
  <2>1. CASE call.phase = "update"
    <3> SUFFICES ASSUME NEW s \in call.todo
                 PROVE  \/ s.op = "delete"
                        \/ /\ s.op \in {"create", "nonce", "balance", "code", "storage"}
                           /\ \A p \in Of(s.a) : Available(p)
      BY <2>1 DEF CanGoOn
    <3>1. s \in Call /\ s.a \in Address
      BY <2>1, CallTyped DEF IInv
    <3>2. \A p \in Of(s.a) : Available(p)
      BY <1>1, <3>1, Stems DEF Of
    <3> QED
      BY <3>1, <3>2, GethAssumption
  <2>2. CASE call.phase = "commit"
    BY <2>2 DEF IInv, CallInv, CanGoOn
  <2> QED
    BY <2>1, <2>2 DEF IInv, CallInv
<1> QED
  BY <1>1, <1>2, InvariantCorrect, PTL
=============================================================================
