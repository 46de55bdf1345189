----------------------------- MODULE MCWpaCtrl ------------------------------
(* Two handles of one process, three requests, two datagrams per socket.    *)
EXTENDS WpaCtrl, TLC

HandleSymmetry == Permutations(Handles)
=============================================================================
