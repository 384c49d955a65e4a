-------------------------------- MODULE Lists --------------------------------
(***************************************************************************)
(* Lists as the storage library and the netlister use them: a loop that     *)
(* copies some elements (a list comprehension in Python, the use of         *)
(* std::vector in manipulate.cc), a loop that appends what is not there     *)
(* yet, and remove().                                                       *)
(*                                                                         *)
(* They are recursive functions rather than SelectSeq and FoldLeft, whose   *)
(* parameters are operators, so that module Lists_proofs can say what they  *)
(* do for any list.                                                         *)
(***************************************************************************)
EXTENDS Integers, Sequences, SequencesExt

IsList(s) == s \in Seq(ToSet(s))

\* The elements of s that are in S, in their order.
Filtered(s, S) ==
  LET kept[n \in 0 .. Len(s)] ==
        IF n = 0 THEN <<>>
        ELSE IF s[n] \in S THEN Append(kept[n - 1], s[n]) ELSE kept[n - 1]
  IN kept[Len(s)]

(* Operators marked as faulty variants are not used: each is a plausible bug
   in the operator that follows it, and some property tells the two apart.  *)

\* faulty variant: what is there already is added again
Added(l, x) == Append(l, x)

AddedOnce(l, x) == IF x \in ToSet(l) THEN l ELSE Append(l, x)

\* The elements of s appended to l, each that is not there yet.
AddedAll(l, s) ==
  LET added[n \in 0 .. Len(s)] ==
        IF n = 0 THEN l ELSE AddedOnce(added[n - 1], s[n])
  IN added[Len(s)]

\* l without the element x.
Removing(l, x) == Filtered(l, ToSet(l) \ {x})
=============================================================================
