---------------------------- MODULE MCConnection ----------------------------
(* Connection.tla as it stands: its constants are all in the configuration. *)
EXTENDS Connection
=============================================================================
