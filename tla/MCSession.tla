------------------------------ MODULE MCSession ------------------------------
(* Two calls, of either kind, over one connection of either transport.         *)
EXTENDS Session

CONSTANTS c1, c2

TwoCalls == {c1, c2}
OneCall == {c1}
===============================================================================
