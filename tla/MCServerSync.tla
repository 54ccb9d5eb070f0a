---------------------------- MODULE MCServerSync ----------------------------
(* Small instances of ServerSync for TLC.  Clients are not made symmetric: *)
(* every run has a liveness property.                                      *)
EXTENDS ServerSync, TLC
=============================================================================
