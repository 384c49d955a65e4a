---------------------------- MODULE MCHierarchy ----------------------------
(* Hierarchy on small instances; the .cfg files give the constants values. *)
EXTENDS Hierarchy, TLC

CONSTANTS fp, fa, fb, sym

C(source) == [symbol |-> sym, source |-> source]

\* A design in which p has the sources of its components, a and b those of theirs.
Design(ofp, ofa, ofb) == (fp :> ofp) @@ (fa :> ofa) @@ (fb :> ofb) @@ (sym :> <<>>)

To(f) == <<C(<< <<f>> >>)>>

\* Two components with the same source, of which one has a second source, which
\* is not drawn yet, and a circle
Undrawn == Design(To(fb) \o <<C(<< <<fb>>, <<fa>> >>)>>, NONE, To(fp))

OnlyUndrawn == {Undrawn}

SameLowercase == [f \in Files |-> f]
WithB == {To(fb)}
=============================================================================
