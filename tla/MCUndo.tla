------------------------------- MODULE MCUndo -------------------------------
(* Undo on small instances; the .cfg files give the constants their values. *)
EXTENDS Undo, TLC

Symmetry == Permutations(Pages)
=============================================================================
