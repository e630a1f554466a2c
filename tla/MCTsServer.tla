----------------------------- MODULE MCTsServer -----------------------------
(* Model-checking instances of TsServer. *)
EXTENDS TsServer, TLC

CONSTANTS c1, c2

Opt(tls, allow, authorize, verifier, emit) ==
  [tls |-> tls, allow |-> allow, authorize |-> authorize, verifier |-> verifier, emit |-> emit]

\* No hooks with every verifier, once over TLS, and both hooks with the slowest.
AllOptions ==
  {Opt(FALSE, FALSE, FALSE, "none", FALSE), Opt(FALSE, FALSE, FALSE, "sync", TRUE),
   Opt(TRUE, FALSE, FALSE, "none", FALSE),
   Opt(FALSE, FALSE, FALSE, "async", FALSE), Opt(FALSE, TRUE, TRUE, "async", FALSE)}
SyncOptions == {Opt(FALSE, FALSE, FALSE, "sync", FALSE)}

\* One peer talks, the other one comes and goes.
OneTalks == c1 :> 2 @@ c2 :> 0
=============================================================================
