------------------------------ MODULE MCVTState ------------------------------
(***************************************************************************)
(* Small instances of VTState.  Sub-indexes are as in MCAccounts; of the   *)
(* accounts a1 and a2 only a1 is sampled.                                  *)
(***************************************************************************)
EXTENDS VTState, TLC

CONSTANTS a1, a2, w

None == [x \in {} |-> x]

Blank == [created |-> {}, nonces |-> None, balances |-> None,
          slots |-> None, codes |-> None, deleted |-> {}]

Nonce(a) == [Blank EXCEPT !.nonces = a :> 1]
Slots(a, k, v) == [Blank EXCEPT !.slots = <<a, k>> :> v]
Codes(a, code) == [Blank EXCEPT !.codes = a :> code]

MCCode == {<<>>, <<1>>}

\* A contract with a slot, the slot cleared, an account outside the samples.
MCUpdate == {[Codes(a1, <<1>>) EXCEPT !.slots = <<a1, 0>> :> w],
             Slots(a1, 0, Zero), Nonce(a2)}

\* Only what is sampled: one account, its first slots, short codes.
SampledUpdate == {[Nonce(a1) EXCEPT !.created = {a1}], Slots(a1, 0, w), Slots(a1, 0, Zero)}
=============================================================================
