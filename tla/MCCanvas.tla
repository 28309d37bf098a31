------------------------------- MODULE MCCanvas -------------------------------
(* TLC instance of Canvas: ids of a kind are alike. *)
EXTENDS Canvas, TLC

Symmetry == Permutations(Shapes) \union Permutations(Connectors) \union Permutations(Texts)
===============================================================================
