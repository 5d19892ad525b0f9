---------------------------- MODULE MCAsyncSocket ----------------------------
(* A small instance of AsyncSocket: two writes, the first socket and the one *)
(* a reconnect opens, one close.                                             *)
EXTENDS AsyncSocket, TLC

CONSTANTS w1, w2, s1, s2, c1

MCWrite == {w1, w2}
OneSocketMore == {s1, s2}
MCCloser == {c1}
=============================================================================
