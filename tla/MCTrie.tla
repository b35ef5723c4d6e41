------------------------------- MODULE MCTrie -------------------------------
(***************************************************************************)
(* A small instance of Trie: three stems, two of which part in the last    *)
(* byte only, so that a leaf is split at every depth below the root while  *)
(* another one hangs beside it.                                            *)
(***************************************************************************)
EXTENDS Trie

MCByte == {0, 1}
MCStem == {<<0, 0, 0>>, <<0, 0, 1>>, <<1, 0, 0>>}
MCSuffix == {0, 1}
=============================================================================
