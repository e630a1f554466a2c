--------------------------- MODULE MCNativeServer ---------------------------
(* Instances of NativeServer for TLC. *)
EXTENDS NativeServer

CONSTANTS c1

Opt(framed, hs, verify, limit) ==
  [framed |-> framed, hs |-> hs, verify |-> verify, limit |-> limit]

\* Framed without a handshake and with a limit on what may be queued, and
\* with a handshake and a verifier.
Plain == {Opt(TRUE, FALSE, FALSE, TRUE)}
AllOptions == Plain \cup {Opt(TRUE, TRUE, TRUE, FALSE)}

\* A handshake and a message; no handshake; an oversized frame.
AllScripts == {<<"hs", "data">>, <<"data">>, <<"huge">>}
=============================================================================
