------------------------------- MODULE MCLobby -------------------------------
(* TLC instance of Lobby and the control plane under it, with the answers on the wire. *)
EXTENDS Contract
=============================================================================
