---------------------------- MODULE MCPowerPort -----------------------------
(***************************************************************************)
(* Small instances of PowerPort.                                           *)
(***************************************************************************)
EXTENDS PowerPort

CONSTANTS t1, t2, w1, p1, p2
=============================================================================
