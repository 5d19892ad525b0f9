------------------------------ MODULE MCRouting ------------------------------
(* Two calls, each any of the API, whose request and order ids are apart or the *)
(* same.                                                                        *)
EXTENDS Routing, TLC

CONSTANTS c1, c2

TwoCallers == {c1, c2}
AnyCall == [c \in TwoCallers |-> Apis]
Symmetric == Permutations(TwoCallers)
===============================================================================
