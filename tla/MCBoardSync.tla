----------------------------- MODULE MCBoardSync -----------------------------
(* TLC instance of BoardSync: objects and browsers of a role are alike. *)
EXTENDS BoardSync, TLC

Symmetry == Permutations(Editors) \union Permutations(Joiners) \union Permutations(Objects)
==============================================================================
