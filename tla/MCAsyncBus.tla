----------------------------- MODULE MCAsyncBus -----------------------------
(* A small instance of AsyncBus.                                            *)
EXTENDS AsyncBus, TLC

CONSTANTS h1, h2, i1, e1, p1, none

MCHandle2 == {h1, h2}
MCId == {i1}
MCExecutionId == {e1}
MCCaller == {p1}
=============================================================================
