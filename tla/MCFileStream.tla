---------------------------- MODULE MCFileStream ----------------------------
(* FileStream for a short file and a few initializations. *)
EXTENDS FileStream
=============================================================================
