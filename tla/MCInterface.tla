---------------------------- MODULE MCInterface ----------------------------
(* Two handles and three descriptors; two lists of channels.      *)
EXTENDS Interface, TLC

AnswersMC == {<<1, 2>>, <<2, 3, 4>>}
Symmetry == Permutations(Handles)
=============================================================================
