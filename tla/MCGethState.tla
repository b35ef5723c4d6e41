----------------------------- MODULE MCGethState -----------------------------
(***************************************************************************)
(* Small instances of GethState: one account, with a code that fits the    *)
(* node of the account and one that does not.                              *)
(***************************************************************************)
EXTENDS GethState, TLC

CONSTANT w

MCCode == {<<1>>, <<1, 2>>}
MCLong == {<<1, 2>>}

Setter(op, v) == [op |-> op, v |-> v, a |-> 1]

MCUpdate ==
    {{Setter("create", 0), Setter("nonce", 1), Setter("storage", w)},
     {Setter("code", <<1>>)},
     {Setter("code", <<1, 2>>), Setter("balance", 2)},
     {Setter("storage", Zero), Setter("delete", 0)}}
=============================================================================
