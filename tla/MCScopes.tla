------------------------------ MODULE MCScopes ------------------------------
(* Two names, one of which names the function, in two texts.  Nothing tells *)
(* one name from another.                                                   *)
EXTENDS Scopes

Names == Permutations(Name)
=============================================================================
