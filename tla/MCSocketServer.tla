--------------------------- MODULE MCSocketServer ---------------------------
(***************************************************************************)
(* A small instance of SocketServer.  Its run checks liveness, so it may   *)
(* not use symmetry; the liveness properties are checked for one number    *)
(* and one thread, numbers and threads being interchangeable.              *)
(***************************************************************************)
EXTENDS SocketServer

CONSTANTS f1, f2, c1, c2, c3, t1, t2

\* A queued accept message gets its handler, for one number.
AcceptedServedOne == AcceptedServed(f1)

\* A thread that has posted its exit is joined, for one id.
ThreadJoinedOne == ThreadJoined(t1)
=============================================================================
