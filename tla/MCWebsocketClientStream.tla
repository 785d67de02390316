----------------------- MODULE MCWebsocketClientStream -----------------------
(***************************************************************************)
(* WebsocketClientStream for a few attempts on one stream object.  Calls   *)
(* are numbered in order, so there is no symmetry to exploit.              *)
(***************************************************************************)
EXTENDS WebsocketClientStream
=============================================================================
