----------------------------- MODULE MCVariant ------------------------------
(***************************************************************************)
(* Model-checking instance of Variant: three object locations, three      *)
(* alternatives of which the last is a recursive_wrapper (as in           *)
(* variant<tag, bool, int, recursive_wrapper<vector<...>>>), two values   *)
(* and two heap addresses.                                                *)
(***************************************************************************)
EXTENDS Variant, TLC

\* Locations and addresses are interchangeable; values are not (DefaultVal
\* is distinguished), so they are left out of the symmetry.
Symmetry == Permutations(Obj) \cup Permutations(Addr)
=============================================================================
