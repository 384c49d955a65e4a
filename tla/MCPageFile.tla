----------------------------- MODULE MCPageFile -----------------------------
(* PageFile on small instances; the .cfg files give the constants values. *)
EXTENDS PageFile, TLC
=============================================================================
