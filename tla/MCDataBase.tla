----------------------------- MODULE MCDataBase -----------------------------
(* A small instance of DataBase for TLC.                                   *)
EXTENDS DataBase

CONSTANTS a, b, k1, k2, v1

(* A record is inserted with one key and updated in the other: the pending *)
(* changes, a batch and the storage may each hold a part of it.            *)
FirstKeyOnly == {[Empty EXCEPT ![k1] = v1]}
SecondKey == {<<k2, v1>>}
=============================================================================
