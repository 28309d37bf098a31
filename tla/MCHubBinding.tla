---------------------------- MODULE MCHubBinding ----------------------------
(* TLC instance of HubBinding; no symmetry, for the liveness property. *)
EXTENDS HubBinding, TLC
=============================================================================
