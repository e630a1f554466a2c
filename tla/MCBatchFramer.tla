---------------------------- MODULE MCBatchFramer ----------------------------
(* Model values for checking BatchFramer with TLC. *)
EXTENDS BatchFramer
=============================================================================
