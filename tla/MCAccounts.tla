------------------------------ MODULE MCAccounts ------------------------------
(***************************************************************************)
(* Small instances of Accounts.  A node is 5 wide: sub-index 0 is the      *)
(* basic data, 1 the code hash, 2 and 3 the header slots 0 and 1, 4 the    *)
(* first chunk of code; the second chunk is in the next node.  Slot 2 is   *)
(* the first one outside the header.  The codes end in the middle and at   *)
(* the end of a chunk, and one of them has a chunk of zeros.  One balance  *)
(* is too large for its bytes.                                             *)
(*                                                                         *)
(* Beside them, one of CodeChunks and one of LeafLayout, of what Accounts  *)
(* abstracts from in code chunks and values: chunks of 3 bytes and pushes  *)
(* of 1 to 4; a leaf of four suffixes and limbs of one bit.  The three     *)
(* have no state in common, and one at a time takes steps.                 *)
(***************************************************************************)
EXTENDS Accounts, CodeChunks, LeafLayout, TLC

MCCode == {<<>>, <<1>>, <<0, 0>>, <<1, 1, 1>>}
MCSlot == {1, 2}

None == [x \in {} |-> x]

Blank == [created |-> {}, nonces |-> None, balances |-> None,
          slots |-> None, codes |-> None, deleted |-> {}]

\* Updates of one field of account a.
Single(a) ==
    {[Blank EXCEPT !.nonces = a :> n] : n \in {0, 1}} \cup
    {[Blank EXCEPT !.balances = a :> b] : b \in {0, 1, BalanceMod + 1}} \cup
    {[Blank EXCEPT !.slots = <<a, k>> :> v] : k \in MCSlot, v \in Word} \cup
    {[Blank EXCEPT !.codes = a :> c] : c \in MCCode} \cup
    {[Blank EXCEPT !.created = {a}]}

\* Updates of all the fields of account a.
Whole(a) ==
    {[created |-> {a}, nonces |-> a :> 1, balances |-> a :> 1,
      slots |-> [x \in {a} \X MCSlot |-> v], codes |-> a :> c, deleted |-> {}] :
        v \in Word, c \in {<<>>, <<1, 1, 1>>}}

\* One account gets everything, another one is touched next to it.
MCUpdate(a, b) ==
    Single(a) \cup Whole(a) \cup
    {[Blank EXCEPT !.created = {a, b}], [Blank EXCEPT !.nonces = b :> 1],
     [Blank EXCEPT !.codes = b :> <<1>>]}

CONSTANTS a1, a2
MCUpdates == MCUpdate(a1, a2)

\* An account is made, and deleted while another one is touched.
Deletions == {[Blank EXCEPT !.nonces = a1 :> 1],
              [Blank EXCEPT !.deleted = {a1}, !.nonces = a2 :> 1]}

MCInit == Init /\ CodeInit /\ LeafInit

MCNext ==
    \/ Next /\ code = <<>> /\ used = {} /\ UNCHANGED <<codeVars, leafVars>>
    \/ CodeNext /\ writtenSlots = {} /\ used = {}
        /\ cells = [k \in TreeKey |-> Unset] /\ UNCHANGED <<stateVars, leafVars>>
    \/ LeafNext /\ writtenSlots = {} /\ code = <<>>
        /\ cells = [k \in TreeKey |-> Unset] /\ UNCHANGED <<stateVars, codeVars>>

MCSpec == MCInit /\ [][MCNext]_<<stateVars, codeVars, leafVars>>
=============================================================================
