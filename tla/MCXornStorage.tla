---------------------------- MODULE MCXornStorage ----------------------------
(* Xorn storage on small instances; the .cfg files give the constants. *)
EXTENDS XornStorage, TLC

CONSTANT MaxKept  \* bound on the objects that exist in all revisions together

Symmetry == Permutations(Revs) \cup Permutations(Data)

Small == Cardinality({p \in Revs \X Objects :
           p[1] \in DOMAIN live /\ p[2] \in DOMAIN live[p[1]].obstates}) <= MaxKept

\* Addresses are only compared with each other: of an obstate it matters what
\* it is and who points to it.  No action depends on how the last call
\* returned, and none follows an exception.
View ==
  LET users(a) == {p \in (DOMAIN live) \X Objects :
                     /\ p[2] \in DOMAIN live[p[1]].obstates
                     /\ live[p[1]].obstates[p[2]] = a}
  IN <<[r \in DOMAIN live |-> <<live[r].is_transient, live[r].children, live[r].parent>>],
       {<<heap[a], users(a)>> : a \in DOMAIN heap},
       next_object_id>>
=============================================================================
