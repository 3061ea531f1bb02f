------------------------------ MODULE MCConnection ------------------------------
(* Connection for TLC. *)
EXTENDS Connection
=============================================================================
