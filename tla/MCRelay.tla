------------------------------- MODULE MCRelay -------------------------------
(* TLC instance of Relay and of the HubBinding under it. *)
EXTENDS Relay, TLC

\* Neither connections nor nodes are told apart by anything the code does.
Symmetry == Permutations(Clients) \union Permutations(Nodes)
=============================================================================
