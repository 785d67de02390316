------------------------------ MODULE MCStream ------------------------------
(***************************************************************************)
(* Stream on small instances; the .cfg files give the bounds.  Bytes are   *)
(* numbers in the order of sending, so there is no symmetry to exploit.    *)
(***************************************************************************)
EXTENDS Stream
=============================================================================
