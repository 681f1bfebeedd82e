------------------------- MODULE MCVariantNesting --------------------------
(***************************************************************************)
(* Model-checking instance of VariantNesting: two root variants of        *)
(* variant<tag, int, recursive_wrapper<Node>>, two values and four heap    *)
(* addresses: a value assignment holds one Node in its argument while the  *)
(* copy allocates another, so four cells allow a chain of three nested     *)
(* Nodes under one root, or a tree under each root.                        *)
(***************************************************************************)
EXTENDS VariantNesting, TLC

\* The roots are interchangeable.  Addresses are not taken as symmetric:
\* operator new picks one with CHOOSE.
Symmetry == Permutations(Roots)
=============================================================================
