---------------------------- MODULE MCLocalSession ----------------------------
(* LocalSession for a few connections and bytes. *)
EXTENDS LocalSession
=============================================================================
