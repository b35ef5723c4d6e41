------------------------------ MODULE Accounts ------------------------------
(***************************************************************************)
(* The accounts of one State in memory/state.go: newState, then one Apply  *)
(* after the other, read back with the getters.  What Apply does with the  *)
(* archive is in module VTState.                                           *)
(***************************************************************************)
EXTENDS AccountCells

VARIABLES
    cells,          \* State.trie: key -> value, or Unset
    writtenSlots    \* State.writtenSlots: the <<address, slot>> written

stateVars == <<cells, writtenSlots>>

-----------------------------------------------------------------------------

\* newState
Init ==
    /\ cells = [k \in TreeKey |-> Unset]
    /\ writtenSlots = {}

Apply(u) ==
    /\ cells' = Applied(cells, u)
    /\ writtenSlots' = Tracked(writtenSlots, u)

Next == \E u \in Update : Apply(u)

Spec == Init /\ [][Next]_stateVars

-----------------------------------------------------------------------------
(* Properties.                                                             *)

\* Types, cell by cell.
TypeOK ==
    /\ DOMAIN cells = TreeKey
    /\ \A a \in Address :
        /\ Basic(cells, a) \in BasicData
        /\ GetCodeHash(cells, a) \in
                {Keccak256(code) : code \in Code \cup {<<>>}} \cup {Zero}
        /\ \A k \in Slot : GetStorage(cells, a, k) \in Word
    /\ writtenSlots \subseteq Address \X Slot

\* The code hash and the code never part, though they are set one by one
\* and in three kinds of cells: a hash that is set is that of the code that
\* GetCode assembles, and an account with code has its hash.
CodeMatchesHash ==
    \A a \in Address :
        \/ GetCodeHash(cells, a) = Keccak256(GetCode(cells, a))
        \/ GetCodeHash(cells, a) = Zero /\ GetCode(cells, a) = <<>>

\* HasEmptyStorage tells whether an account has a slot that is not zero:
\* a state that only Apply has changed tracks every slot that is written.
EmptyStorageExact ==
    \A a \in Address :
        HasEmptyStorage(cells, writtenSlots, a)
            <=> \A k \in Slot : GetStorage(cells, a, k) = Zero

\* What can be read of the accounts.
AccountsView ==
    [a \in Address |->
        [nonce   |-> GetNonce(cells, a),
         balance |-> GetBalance(cells, a),
         code    |-> GetCode(cells, a),
         slots   |-> [k \in Slot |-> GetStorage(cells, a, k)]]]

\* An update as the cells can hold it.
Storable(u) == [u EXCEPT !.balances = [a \in DOMAIN @ |-> @[a] % BalanceMod]]

\* Apply changes exactly the fields an update names, in spite of the cells
\* that are shared by fields and the keys that are computed.  Of a balance
\* the part that fits is kept, whatever else is in the cell.
\* README.md: "Account creation and deletion": the accounts an update deletes
\* are cleared.  This Apply does not do; it implements the Ledger for updates
\* that delete no account, and for no others.
Accts == INSTANCE Ledger WITH
            accounts <- AccountsView, ZeroWord <- Zero, NoCode <- <<>>,
            Update <- {Storable(u) : u \in Update}

RefinesLedger ==
    /\ Accts!Spec
    /\ [][\A u \in Update : Apply(u) => Accts!Apply(Storable(u))]_stateVars
=============================================================================
