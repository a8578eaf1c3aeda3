----------------------------- MODULE MCTransfer -----------------------------
(* Transfer.tla with its buffers cut down to a few characters.             *)
EXTENDS Transfer
=============================================================================
