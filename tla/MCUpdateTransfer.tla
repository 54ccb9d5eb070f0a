-------------------------- MODULE MCUpdateTransfer --------------------------
(* Small instances of UpdateTransfer for TLC.                              *)
EXTENDS UpdateTransfer

(* An empty file, one of two portions and a half, one of two whole ones.   *)
MixedSizes == <<0, 5, 4>>

(* A file of exactly one portion.                                          *)
EvenSizes == <<2>>
=============================================================================
