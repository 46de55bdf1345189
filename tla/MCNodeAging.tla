---------------------------- MODULE MCNodeAging -----------------------------
(***************************************************************************)
(* A small instance of NodeAging: a clock of a few ticks, so that it wraps *)
(* between any two readings, and two nodes of different age.               *)
(***************************************************************************)
EXTENDS NodeAging, TLC

CONSTANTS a, b
NodeDef == {a, b}
Alike == Permutations(NodeDef)
=============================================================================
