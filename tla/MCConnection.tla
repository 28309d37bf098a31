---------------------------- MODULE MCConnection ----------------------------
(* TLC instance of Connection: a replay longer than the channel. *)
EXTENDS Connection
=============================================================================
