---------------------------- MODULE MCConnection ----------------------------
(* Connection with the bounds given in the configurations.                 *)
EXTENDS Connection
=============================================================================
