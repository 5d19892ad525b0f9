------------------------------ MODULE MCSyncBus ------------------------------
(* A small instance of SyncBus: one call and two disconnects.               *)
EXTENDS SyncBus, TLC

CONSTANTS h1, i1, p1, p2, none

MCHandle1 == {h1}
MCId == {i1}
TwoCallers == {p1, p2}
=============================================================================
