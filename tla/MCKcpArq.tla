------------------------------ MODULE MCKcpArq ------------------------------
(* The instances of KcpArq that TLC checks. *)
EXTENDS KcpArq
=============================================================================
