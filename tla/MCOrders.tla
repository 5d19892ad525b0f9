------------------------------- MODULE MCOrders -------------------------------
(* Three callers that run one chain of builder calls.  A price of the     *)
(* chain is a number or is none; those of the bracket can be put in any order.   *)
EXTENDS Orders, TLC

CONSTANTS c1, c2, c3

ThreeCallers == {c1, c2, c3}
NumbersAndZero == {0, 2, NaN}
ThreePrices == {1, 2, 3, NaN}
Symmetric == Permutations(ThreeCallers)
===============================================================================
