---------------------------- MODULE MCController ----------------------------
(***************************************************************************)
(* Small instances of Controller.                                          *)
(***************************************************************************)
EXTENDS Controller

CONSTANTS f1, f2, f3, c1, c2, l1, l2, i1
=============================================================================
