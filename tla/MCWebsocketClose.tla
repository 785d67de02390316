--------------------------- MODULE MCWebsocketClose ---------------------------
(* WebsocketClose for a few messages. *)
EXTENDS WebsocketClose
=============================================================================
