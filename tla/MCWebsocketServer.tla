-------------------------- MODULE MCWebsocketServer --------------------------
(* WebsocketServer for a few clients on a host with one or two families. *)
EXTENDS WebsocketServer
=============================================================================
