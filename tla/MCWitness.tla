------------------------------ MODULE MCWitness ------------------------------
(***************************************************************************)
(* Small instances of Witness: two accounts, two header slots.             *)
(***************************************************************************)
EXTENDS Witness, TLC

CONSTANT w

None == [x \in {} |-> x]

Blank == [created |-> {}, nonces |-> None, balances |-> None,
          slots |-> None, codes |-> None, deleted |-> {}]

MCCode == {<<>>, <<1>>}

\* Accounts that get a balance, or code and storage before they have one;
\* slots that are set and cleared.
MCUpdate ==
    {[Blank EXCEPT !.balances = 1 :> 1],
     [Blank EXCEPT !.codes = 1 :> <<1>>, !.slots = <<1, 1>> :> w],
     [Blank EXCEPT !.slots = (<<1, 0>> :> w) @@ (<<1, 1>> :> Zero)],
     [Blank EXCEPT !.nonces = 2 :> 1]}
=============================================================================
