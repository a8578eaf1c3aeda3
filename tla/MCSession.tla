----------------------------- MODULE MCSession -----------------------------
(* Session.tla as it stands: its constants are all in the configurations.  *)
EXTENDS Session
=============================================================================
