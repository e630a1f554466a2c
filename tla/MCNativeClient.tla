--------------------------- MODULE MCNativeClient ---------------------------
(* An instance of NativeClient for TLC. *)
EXTENDS NativeClient
=============================================================================
