---------------------------- MODULE MCPriority ----------------------------
(* Priority.tla as it stands: its constants are all in the configuration.  *)
EXTENDS Priority
=============================================================================
