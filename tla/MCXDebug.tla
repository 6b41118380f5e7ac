------------------------------- MODULE MCXDebug -------------------------------
(***************************************************************************)
(* The jobs of a session: two queries, and no barrier.                     *)
(***************************************************************************)
EXTENDS XDebug

CONSTANTS q1, q2

NoBarriers == {}
=============================================================================
