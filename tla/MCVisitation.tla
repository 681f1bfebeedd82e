---------------------------- MODULE MCVisitation ----------------------------
(* The instance of Visitation checked by TLC: variant<tag, bool, int,     *)
(* recursive_wrapper<int>>, so that get<int> matches an inline and a      *)
(* boxed alternative.                                                     *)
EXTENDS Visitation

MCTypeOf == (0 :> "bool") @@ (1 :> "int") @@ (2 :> "int")
=============================================================================
