------------------------------ MODULE MCEngine ------------------------------
(***************************************************************************)
(* Small instances of Engine for TLC: two queries and the barrier of       *)
(* waitForEngineIdle(), submitted by one thread.                           *)
(***************************************************************************)
EXTENDS Engine

CONSTANTS j1, j2, b, p, w1

MCRequests == {"START", "STEP_INTO", "STOP"}

=============================================================================
