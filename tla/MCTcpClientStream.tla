-------------------------- MODULE MCTcpClientStream --------------------------
(***************************************************************************)
(* TcpClientStream for a few attempts on one stream object.  Calls are     *)
(* numbered in order, so there is no symmetry to exploit.                  *)
(***************************************************************************)
EXTENDS TcpClientStream
=============================================================================
