----------------------------- MODULE MCCritters -----------------------------
(* A small instance of Critters for TLC.                                   *)
EXTENDS Critters

CONSTANTS guard, dog, player, town, cellar

(* The three stand on one map, the others are attached to the guard.       *)
AtFirst == [c \in {guard, dog, player} |-> town]
OnGuard == [c \in {guard, dog, player} |-> IF c = guard THEN Nowhere ELSE guard]
=============================================================================
