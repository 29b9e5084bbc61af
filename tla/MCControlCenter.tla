-------------------------- MODULE MCControlCenter --------------------------
(***************************************************************************)
(* Small instances of ControlCenter.  Descriptors, connections and ids are *)
(* interchangeable, so the safety runs use symmetry, and the liveness run, *)
(* which may not, checks its properties for one id, number and connection. *)
(***************************************************************************)
EXTENDS ControlCenter

CONSTANTS f1, f2, c1, c2, i1, i2

Sym == Permutations(FD) \cup Permutations(Conn) \cup Permutations(Id)

\* The row of a closed descriptor is removed, for one id and one number.
DeadRowRemovedOne == DeadRowRemoved(i1, f1)

\* A bound controller that falls silent is dropped, for one id and connection.
SilentDroppedOne == SilentDropped(i1, c1)
=============================================================================
