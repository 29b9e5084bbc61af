----------------------------- MODULE MCRequests -----------------------------
(***************************************************************************)
(* A client that keeps reading and one that need not, and a controller.    *)
(***************************************************************************)
EXTENDS Requests, TLC

CONSTANTS c1, c2, k1

\* Five commands and one more request are the least for a full circle through
\* the queue; two responses to a client are the least it can keep waiting.
MC_Ops        == (c1 :> {"set", "state"}) @@ (c2 :> {"other"})
MC_MaxRequest == (c1 :> 5) @@ (c2 :> 2)
=============================================================================
