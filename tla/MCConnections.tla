---------------------------- MODULE MCConnections ----------------------------
(* Three clients, of which the server can have two at a time. *)
EXTENDS Connections

=============================================================================
