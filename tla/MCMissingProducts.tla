-------------------------- MODULE MCMissingProducts --------------------------
(***************************************************************************)
(* Bounds of the run of MissingProducts: a watch sold in two variants, and *)
(* two products of one listing each, which bears the name of its product.  *)
(***************************************************************************)
EXTENDS MissingProducts, TLC

CONSTANTS watch, phone, tablet, w1, w2

ThreeProducts == {watch, phone, tablet}
FourListings == {w1, w2, phone, tablet}
TwoVariants == w1 :> watch @@ w2 :> watch @@ phone :> phone @@ tablet :> tablet

\* The variants of the watch are interchangeable, and so are the others.
ProductSymmetry ==
  {s @@ t : s \in Permutations({w1, w2}), t \in Permutations({phone, tablet})}
=============================================================================
