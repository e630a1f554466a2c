----------------------------- MODULE MCTsClient -----------------------------
(* Model-checking instances of TsClient. *)
EXTENDS TsClient

Opt(framing, limiter, proto, nic, timeout, beat) ==
  [framed |-> framing # "none", flow |-> framing = "flow", limiter |-> limiter, proto |-> proto,
   nic |-> nic, timeout |-> timeout, beat |-> beat]

\* The default transport, a raw one with a rate limit, and a framed one
\* without a flow controller; each with some of the other options.
AllOptions ==
  {Opt("flow", FALSE, TRUE, FALSE, FALSE, FALSE), Opt("none", TRUE, TRUE, FALSE, FALSE, FALSE),
   Opt("plain", TRUE, FALSE, TRUE, TRUE, TRUE)}
=============================================================================
