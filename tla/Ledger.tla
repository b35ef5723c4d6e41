------------------------------- MODULE Ledger -------------------------------
(***************************************************************************)
(* What a chain state promises about its accounts, wherever their fields   *)
(* are stored: an update clears the accounts it deletes, changes the       *)
(* fields it names and no others.                                          *)
(***************************************************************************)
EXTENDS Naturals

CONSTANTS
    Address,    \* the accounts in use
    Slot,       \* the storage keys in use
    ZeroWord,   \* the value of a slot that was never written
    NoCode,     \* the code of an account without code
    Update      \* the updates in use

VARIABLE accounts   \* address -> [nonce, balance, code, slots]

NewAccount ==
    [nonce |-> 0, balance |-> 0, code |-> NoCode,
     slots |-> [k \in Slot |-> ZeroWord]]

Init == accounts = [a \in Address |-> NewAccount]

\* The value update f gives to x, or the old one.
NewOr(f, x, old) == IF x \in DOMAIN f THEN f[x] ELSE old

Apply(u) ==
    accounts' = [a \in Address |->
        LET old == IF a \in u.deleted THEN NewAccount ELSE accounts[a] IN
        [nonce   |-> NewOr(u.nonces, a, old.nonce),
         balance |-> NewOr(u.balances, a, old.balance),
         code    |-> NewOr(u.codes, a, old.code),
         slots   |-> [k \in Slot |-> NewOr(u.slots, <<a, k>>, old.slots[k])]]]

Next == \E u \in Update : Apply(u)

Spec == Init /\ [][Next]_accounts
=============================================================================
