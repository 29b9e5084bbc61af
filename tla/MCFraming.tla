----------------------------- MODULE MCFraming ------------------------------
(***************************************************************************)
(* Headers of two octets, so that a segment can end inside one.            *)
(***************************************************************************)
EXTENDS Framing
=============================================================================
