------------------------------ MODULE MCItems ------------------------------
(* A small instance of Items for TLC.                                      *)
EXTENDS Items

CONSTANTS purse, spare, change, bag, chest, hero, ground

CoinItems == {purse, spare, change}
BagItems == {bag, chest}

(* The hero has a purse and a bag with a spare one; the chest is empty.    *)
AtFirst == [i \in CoinItems \cup BagItems |->
              CASE i \in {purse, bag} -> hero [] i = spare -> bag [] i = chest -> ground [] OTHER -> Nowhere]
=============================================================================
