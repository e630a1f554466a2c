------------------------------ MODULE TsServer ------------------------------
(***************************************************************************)
(* The life of the connections of a QWormholeServer (server/index.ts):     *)
(* admission through the max-clients check and the two awaited hooks, the  *)
(* handshake of a peer's first frames with its synchronous or asynchronous *)
(* verifier, the events the application sees, and close().                 *)
(*                                                                         *)
(* JavaScript runs to completion: an action is what happens between two    *)
(* suspensions, except that the frames of one 'data' event are one action  *)
(* each, during which nothing else may run (cur # None).  A frame is       *)
(* abstracted to what handleHandshake finds out about it.  The hooks, the  *)
(* verifier and the peers are the environment.                             *)
(***************************************************************************)
EXTENDS Integers, Sequences, FiniteSets

CONSTANTS
  Conns,       \* the connections that ever arrive
  None,        \* no connection
  MaxClients,  \* options.maxClients; 0 when there is no limit
  Versioned,   \* options.protocolVersion is given: a handshake is expected
  Options,     \* the other options a server may be built with (below)
  Kinds,       \* the kinds of frames that peers send
  MaxFrames    \* bound: MaxFrames[c] frames are sent by the peer of c

ASSUME ServerAssumption ==
  /\ IsFiniteSet(Conns) /\ None \notin Conns
  /\ MaxClients \in Nat /\ Versioned \in BOOLEAN
  /\ MaxFrames \in [Conns -> Nat]
  \* allow, authorize: the hooks allowConnection and onAuthorizeConnection
  \* are given; verifier: what verifyHandshake is; emit: emitHandshakeMessages;
  \* tls: tls.enabled, the server is a tls.Server.
  /\ Options \subseteq [tls : BOOLEAN, allow : BOOLEAN, authorize : BOOLEAN,
                        verifier : {"none", "sync", "async"}, emit : BOOLEAN]
  \* text: not JSON; schema: JSON that is no handshake payload; version,
  \* pin, sig: a handshake of another version, with another TLS fingerprint,
  \* with a signature that does not verify; good: none of these.
  /\ Kinds \subseteq {"text", "schema", "version", "pin", "sig", "good"}

VARIABLES
  options,   \* the options of this server, fixed when it is built
  phase,     \* phase[c]: where handleConnection(c) is; "tls": not called yet
  sock,      \* sock[c]: "closing" is destroyed, its 'close' event to come
  failed,    \* failed[c]: the socket was destroyed with an error
  wire,      \* wire[c]: frames the peer has sent and the server has not read
  frames,    \* frames[c]: how many the peer has sent
  cur,       \* the connection whose 'data' event is being handled
  chunk,     \* the frames of that event that are still to be decoded
  clients,   \* the keys of the clients map
  pendingHs, \* pendingHs[c]: connection.handshakePending
  attached,  \* attached[c]: connection.handshake is set
  verifying, \* verifying[c]: verifier promises that have not settled
  shown,     \* shown[c]: connection.handshakeMessageDelivered
  server,    \* "listening", "closing" (close() awaits) or "closed"
  alive,     \* no uncaught exception or unhandled rejection so far
  heard,     \* heard[c]: whether the 'message' events came from a verified peer
  goodbyes,  \* goodbyes[c]: the hadError of the 'clientClosed' events
  first,     \* history: the kind of the first frame handled
  rejected,  \* history: connections that handleHandshake has dropped
  refusals   \* history: connections the verifier has refused or thrown on

sockVars == <<sock, failed>>
hsVars == <<pendingHs, attached, verifying, shown>>
appVars == <<heard, goodbyes, first, rejected, refusals>>
vars == <<options, phase, sockVars, wire, frames, cur, chunk, clients, hsVars, server, alive, appVars>>

Phases == {"none", "tls", "allow", "authorize", "open", "refused"}
Waiting == {"allow", "authorize"}
Handshakes == {"version", "pin", "sig", "good"}
Idle == alive /\ cur = None
-----------------------------------------------------------------------------
(* socket.destroy(err): nothing happens on a socket that is already gone.   *)
Destroyed(S, err) ==
  /\ sock' = [c \in Conns |-> IF c \in S /\ sock[c] = "open" THEN "closing" ELSE sock[c]]
  /\ failed' = [c \in Conns |-> IF c \in S /\ sock[c] = "open" THEN err ELSE failed[c]]

Full == MaxClients > 0 /\ Cardinality(clients) >= MaxClients

(* handleConnection goes on to the hook of phase p, or past both of them:   *)
(* the connection is registered and its handlers are attached, whatever has *)
(* become of the socket and of the server in the meantime.                  *)
GoOn(c, p) ==
  /\ phase' = [phase EXCEPT ![c] = p]
  /\ IF p = "open"
     THEN clients' = clients \cup {c} /\ pendingHs' = [pendingHs EXCEPT ![c] = Versioned]
     ELSE UNCHANGED <<clients, pendingHs>>

AfterAllow == IF options.authorize THEN "authorize" ELSE "open"
FirstPhase == IF options.allow THEN "allow" ELSE AfterAllow

(* handleConnection up to its first await. *)
HandleConnection(c) ==
  IF Full
  THEN /\ phase' = [phase EXCEPT ![c] = "refused"]
       /\ sock' = [sock EXCEPT ![c] = "closing"]
       /\ UNCHANGED <<clients, pendingHs>>
  ELSE /\ GoOn(c, FirstPhase)
       /\ sock' = [sock EXCEPT ![c] = "open"]

(* A peer connects.  With TLS the server knows nothing of it until the TLS  *)
(* handshake is over, but close() has to wait for it.                       *)
Connect(c) ==
  /\ Idle /\ server = "listening" /\ phase[c] = "none"
  /\ IF options.tls
     THEN /\ phase' = [phase EXCEPT ![c] = "tls"]
          /\ sock' = [sock EXCEPT ![c] = "open"]
          /\ UNCHANGED <<clients, pendingHs>>
     ELSE HandleConnection(c)
  /\ UNCHANGED <<options, failed, wire, frames, cur, chunk, attached, verifying, shown, server, alive, appVars>>

(* The 'secureConnection' event, which close() does not prevent. *)
Secured(c) ==
  /\ Idle /\ phase[c] = "tls" /\ sock[c] = "open"
  /\ HandleConnection(c)
  /\ UNCHANGED <<options, failed, wire, frames, cur, chunk, attached, verifying, shown, server, alive, appVars>>

(* The TLS handshake fails or times out: node destroys the socket. *)
TlsFails(c) ==
  /\ Idle /\ phase[c] = "tls" /\ sock[c] = "open"
  /\ Destroyed({c}, TRUE)
  /\ UNCHANGED <<options, phase, wire, frames, cur, chunk, clients, hsVars, server, alive, appVars>>

(* The awaited hook of phase p answers; nobody handles its rejection. *)
HookAnswers(c, p, next, answer) ==
  /\ Idle /\ phase[c] = p
  /\ \/ /\ answer = "yes" /\ GoOn(c, next)
        /\ UNCHANGED <<sockVars, alive>>
     \/ /\ answer = "no"
        /\ phase' = [phase EXCEPT ![c] = "refused"]
        /\ Destroyed({c}, FALSE)
        /\ UNCHANGED <<clients, pendingHs, alive>>
     \/ /\ answer = "throws" /\ alive' = FALSE
        /\ UNCHANGED <<phase, sockVars, clients, pendingHs>>
  /\ UNCHANGED <<options, wire, frames, cur, chunk, attached, verifying, shown, server, appVars>>

AllowAnswers(c, answer) == HookAnswers(c, "allow", AfterAllow, answer)
AuthorizeAnswers(c, answer) == HookAnswers(c, "authorize", "open", answer)
-----------------------------------------------------------------------------
(* Peers.  A FIN is noticed once everything before it has been read. *)

PeerSends(c, k) ==
  /\ Idle /\ sock[c] = "open" /\ frames[c] < MaxFrames[c]
  /\ wire' = [wire EXCEPT ![c] = Append(@, k)]
  /\ frames' = [frames EXCEPT ![c] = @ + 1]
  /\ UNCHANGED <<options, phase, sockVars, cur, chunk, clients, hsVars, server, alive, appVars>>

PeerEnds(c) ==
  /\ Idle /\ sock[c] = "open" /\ wire[c] = <<>>
  /\ Destroyed({c}, FALSE)
  /\ UNCHANGED <<options, phase, wire, frames, cur, chunk, clients, hsVars, server, alive, appVars>>

\* Mutant: the handlers wait for the handshake.
HandlersOnLate(c) == phase[c] = "open" /\ attached[c]

\* The handlers of 'data', 'close', 'timeout' and 'error' are attached last.
HandlersOn(c) == phase[c] = "open"

(* The connection breaks.  An 'error' event that nobody listens to is       *)
(* thrown; during the TLS handshake node listens.                           *)
PeerResets(c) ==
  /\ Idle /\ sock[c] = "open"
  /\ Destroyed({c}, TRUE)
  /\ wire' = [wire EXCEPT ![c] = <<>>]
  /\ alive' = (phase[c] = "tls" \/ HandlersOn(c))
  /\ UNCHANGED <<options, phase, frames, cur, chunk, clients, hsVars, server, appVars>>

(* The application destroys a connection, or a write overruns the limit on  *)
(* buffered bytes and destroys it with an error.                            *)
LocalDestroy(c, err) ==
  /\ Idle /\ phase[c] = "open" /\ sock[c] = "open"
  /\ Destroyed({c}, err)
  /\ UNCHANGED <<options, phase, wire, frames, cur, chunk, clients, hsVars, server, alive, appVars>>

\* Mutant: the map keeps the connection.
UnregisteredNot(c) == clients

Unregistered(c) == clients \ {c}

(* The socket's 'close' event; without handlers nobody notices. *)
CloseEvent(c) ==
  /\ Idle /\ sock[c] = "closing"
  /\ sock' = [sock EXCEPT ![c] = "closed"]
  /\ IF HandlersOn(c)
     THEN /\ clients' = Unregistered(c)
          /\ goodbyes' = [goodbyes EXCEPT ![c] = Append(@, failed[c])]
     ELSE UNCHANGED <<clients, goodbyes>>
  /\ UNCHANGED <<options, phase, failed, wire, frames, cur, chunk, hsVars, server, alive,
                 heard, first, rejected, refusals>>
-----------------------------------------------------------------------------
(* What handleHandshake makes of a frame: it drops the connection (with or  *)
(* without an error), attaches the handshake or leaves it to a promise; and *)
(* it returns whether the frame is dealt with.                              *)

Outcome(act, err, handled) == [act |-> act, err |-> err, handled |-> handled]
Accept == Outcome("attach", FALSE, TRUE)
Thrown == Outcome("reject", FALSE, FALSE)

Verification(k) ==
  IF options.verifier = "async" THEN {Outcome("wait", FALSE, FALSE)}
  ELSE IF options.verifier = "sync"
  THEN {Accept, Outcome("refuse", TRUE, FALSE), Outcome("refuse", FALSE, FALSE)}
  ELSE {IF k = "sig" THEN Outcome("reject", TRUE, FALSE) ELSE Accept}

Outcomes(k) ==
  IF k = "text" THEN {Thrown}
  ELSE IF k \in {"schema", "version"} THEN {Outcome("reject", TRUE, TRUE)}
  ELSE IF k = "pin" THEN {Outcome("reject", TRUE, FALSE)}
  ELSE Verification(k)

\* Mutant: the map keeps the rejected connection.
DropKeep(c, err) ==
  /\ Destroyed({c}, err) /\ UNCHANGED clients
  /\ goodbyes' = [goodbyes EXCEPT ![c] = Append(@, TRUE)]
  /\ pendingHs' = [pendingHs EXCEPT ![c] = FALSE]
  /\ rejected' = rejected \cup {c}

\* Mutant: the socket of the rejected connection stays open.
DropSoft(c, err) ==
  /\ clients' = Unregistered(c) /\ UNCHANGED sockVars
  /\ goodbyes' = [goodbyes EXCEPT ![c] = Append(@, TRUE)]
  /\ pendingHs' = [pendingHs EXCEPT ![c] = FALSE]
  /\ rejected' = rejected \cup {c}

(* A rejection: out of the map, socket destroyed, the application told. *)
Drop(c, err) ==
  /\ clients' = Unregistered(c) /\ Destroyed({c}, err)
  /\ goodbyes' = [goodbyes EXCEPT ![c] = Append(@, TRUE)]
  /\ pendingHs' = [pendingHs EXCEPT ![c] = FALSE]
  /\ rejected' = rejected \cup {c}

\* Mutant: the handshake stays pending.
AttachPending(c) ==
  /\ attached' = [attached EXCEPT ![c] = TRUE]
  /\ UNCHANGED <<pendingHs, clients, sockVars, goodbyes, rejected>>

Attach(c) ==
  /\ attached' = [attached EXCEPT ![c] = TRUE]
  /\ pendingHs' = [pendingHs EXCEPT ![c] = FALSE]
  /\ UNCHANGED <<clients, sockVars, goodbyes, rejected>>

(* A 'data' event: the decoder cuts the chunk into frames and handles them  *)
(* all, even when one of them makes the server drop the connection.         *)
DataEvent(c, n) ==
  /\ Idle /\ phase[c] = "open" /\ sock[c] = "open"
  /\ cur' = c
  /\ chunk' = SubSeq(wire[c], 1, n)
  /\ wire' = [wire EXCEPT ![c] = SubSeq(@, n + 1, Len(@))]
  /\ UNCHANGED <<options, phase, sockVars, frames, clients, hsVars, server, alive, appVars>>

\* The application hears a frame of c; handled: handleHandshake dealt with it.
Hears(c, k, handled) ==
  IF handled THEN options.emit ELSE ~(options.emit /\ shown[c] /\ k \in Handshakes)

\* Mutant: the event never ends.
BusyAfterAlways == cur

\* The connection whose event goes on after the frame at hand.
BusyAfter == IF Len(chunk) = 1 THEN None ELSE cur

Pass == Outcome("pass", FALSE, FALSE)

(* The state changes of handleHandshake with outcome o. *)
Handle(c, o) ==
  \/ /\ o.act \in {"reject", "refuse"}
     /\ Drop(c, o.err)
     /\ UNCHANGED <<attached, verifying>>
  \/ /\ o.act = "attach"
     /\ Attach(c)
     /\ UNCHANGED verifying
  \/ /\ o.act = "wait"
     /\ verifying' = [verifying EXCEPT ![c] = @ + 1]
     /\ UNCHANGED <<clients, sockVars, goodbyes, pendingHs, attached, rejected>>
  \/ /\ o.act = "pass"
     /\ UNCHANGED <<clients, sockVars, goodbyes, pendingHs, attached, verifying, rejected>>

(* The 'message' handler of the decoder, for frame k of connection c. *)
Receive(c, k, o) ==
  /\ o \in IF pendingHs[c] THEN Outcomes(k) ELSE {Pass}
  /\ Handle(c, o)
  /\ first' = [first EXCEPT ![c] = IF @ = "none" THEN k ELSE @]
  /\ refusals' = IF o.act = "refuse" THEN refusals \cup {c} ELSE refusals
  /\ shown' = [shown EXCEPT ![c] = @ \/ (o.handled /\ options.emit)]
  /\ heard' = IF Hears(c, k, o.handled) THEN [heard EXCEPT ![c] = @ \cup {attached'[c]}] ELSE heard

Frame ==
  /\ alive /\ cur # None
  /\ \E o \in (UNION {Outcomes(k) : k \in Kinds}) \cup {Pass} : Receive(cur, Head(chunk), o)
  /\ chunk' = Tail(chunk)
  /\ cur' = BusyAfter
  /\ UNCHANGED <<options, phase, wire, frames, server, alive>>

(* The verifier's promise settles, whatever has become of the connection. *)
VerdictArrives(c, ok) ==
  /\ Idle /\ verifying[c] > 0
  /\ verifying' = [verifying EXCEPT ![c] = @ - 1]
  /\ IF ok THEN Attach(c) /\ UNCHANGED refusals
     ELSE Drop(c, TRUE) /\ refusals' = refusals \cup {c} /\ UNCHANGED attached
  /\ UNCHANGED <<options, phase, wire, frames, cur, chunk, shown, server, alive, heard, first>>
-----------------------------------------------------------------------------
\* Mutant: the connections are only ended, and a peer need not end too.
DestroyAllNot == UNCHANGED sockVars

DestroyAll == Destroyed(clients, FALSE)

\* Mutant: the map is left to the close events.
CloseKeeping ==
  /\ Idle /\ server = "listening"
  /\ server' = "closing"
  /\ DestroyAll
  /\ UNCHANGED <<options, phase, wire, frames, cur, chunk, clients, hsVars, alive, appVars>>

(* close(): it destroys the registered connections and awaits the server's  *)
(* 'close' event, which comes once no socket is left.                       *)
Close ==
  /\ Idle /\ server = "listening"
  /\ server' = "closing"
  /\ DestroyAll
  /\ clients' = {}
  /\ UNCHANGED <<options, phase, wire, frames, cur, chunk, hsVars, alive, appVars>>

ServerCloses ==
  /\ Idle /\ server = "closing"
  /\ \A c \in Conns : sock[c] # "open"
  /\ server' = "closed"
  /\ UNCHANGED <<options, phase, sockVars, wire, frames, cur, chunk, clients, hsVars, alive, appVars>>

Init ==
  /\ options \in Options
  /\ phase = [c \in Conns |-> "none"] /\ sock = [c \in Conns |-> "none"]
  /\ failed = [c \in Conns |-> FALSE]
  /\ wire = [c \in Conns |-> <<>>] /\ frames = [c \in Conns |-> 0]
  /\ cur = None /\ chunk = <<>> /\ clients = {}
  /\ pendingHs = [c \in Conns |-> FALSE] /\ attached = [c \in Conns |-> FALSE]
  /\ verifying = [c \in Conns |-> 0] /\ shown = [c \in Conns |-> FALSE]
  /\ server = "listening" /\ alive = TRUE
  /\ heard = [c \in Conns |-> {}] /\ goodbyes = [c \in Conns |-> <<>>]
  /\ first = [c \in Conns |-> "none"] /\ rejected = {} /\ refusals = {}

Next ==
  \/ \E c \in Conns :
       \/ Connect(c) \/ Secured(c) \/ TlsFails(c)
       \/ \E answer \in {"yes", "no", "throws"} : AllowAnswers(c, answer) \/ AuthorizeAnswers(c, answer)
       \/ \E k \in Kinds : PeerSends(c, k)
       \/ PeerEnds(c) \/ PeerResets(c) \/ CloseEvent(c)
       \/ \E err \in BOOLEAN : LocalDestroy(c, err)
       \/ \E n \in 1 .. Len(wire[c]) : DataEvent(c, n)
       \/ \E ok \in BOOLEAN : VerdictArrives(c, ok)
  \/ Frame \/ Close \/ ServerCloses

Spec == Init /\ [][Next]_vars

(* The event loop turns, the hooks answer and a TLS handshake ends, if only *)
(* by node's timeout.  Peers promise nothing.                               *)
FairSpec ==
  /\ Spec
  /\ WF_vars(Frame) /\ WF_vars(ServerCloses)
  /\ \A c \in Conns :
       /\ WF_vars(CloseEvent(c)) /\ WF_vars(Secured(c) \/ TlsFails(c))
       /\ WF_vars(\E answer \in {"yes", "no"} : AllowAnswers(c, answer) \/ AuthorizeAnswers(c, answer))
       /\ WF_vars(\E ok \in BOOLEAN : VerdictArrives(c, ok))
-----------------------------------------------------------------------------
(* Every variable has its type; a chunk is held exactly by a 'data' event.  *)
TypeOK ==
  /\ options \in Options
  /\ phase \in [Conns -> Phases]
  /\ sock \in [Conns -> {"none", "open", "closing", "closed"}]
  /\ failed \in [Conns -> BOOLEAN]
  /\ wire \in [Conns -> Seq(Kinds)] /\ frames \in [Conns -> Nat]
  /\ cur \in Conns \cup {None} /\ chunk \in Seq(Kinds)
  /\ (cur = None) <=> (chunk = <<>>)
  /\ clients \subseteq Conns
  /\ pendingHs \in [Conns -> BOOLEAN] /\ attached \in [Conns -> BOOLEAN]
  /\ verifying \in [Conns -> Nat] /\ shown \in [Conns -> BOOLEAN]
  /\ server \in {"listening", "closing", "closed"} /\ alive \in BOOLEAN
  /\ heard \in [Conns -> SUBSET BOOLEAN] /\ goodbyes \in [Conns -> Seq(BOOLEAN)]
  /\ first \in [Conns -> Kinds \cup {"none"}]
  /\ rejected \subseteq Conns /\ refusals \subseteq Conns

\* No hook is awaited: handleConnection runs to its end at once.
Prompt == ~options.allow /\ ~options.authorize
\* handleHandshake knows its verdict when it returns.
Decided == options.verifier # "async"

(* Without awaited hooks an entry of the clients map is removed by the time *)
(* its socket's 'close' event is over: no entry stands for a socket that is *)
(* gone, and without TLS none is left when close() has resolved.            *)
RegisteredIsLive ==
  Prompt => /\ \A c \in clients : sock[c] # "closed"
            /\ server = "closed" /\ ~options.tls => clients = {}

(* Without awaited hooks a connection the application was given is taken    *)
(* leave of: once its socket is closed, 'clientClosed' has been emitted.    *)
DeparturesAnnounced ==
  Prompt => \A c \in Conns : phase[c] = "open" /\ sock[c] = "closed" => goodbyes[c] # <<>>

(* Without awaited hooks no socket error escapes the 'error' event.         *)
NothingUncaught == Prompt => alive

(* After 'clientClosed' the connection is not in the map: getConnection and *)
(* broadcast never find a connection the application was told is gone.      *)
GoodbyeIsFinal == \A c \in Conns : goodbyes[c] # <<>> => c \notin clients

(* Where a handshake is expected, the application is given no frame of a    *)
(* peer whose handshake has not been verified.                              *)
OnlyVerifiedAreHeard == Versioned => \A c \in Conns : FALSE \notin heard[c]

(* Where a handshake is expected and decided at once, a frame of an         *)
(* unverified peer is given to the application only when that peer's socket *)
(* has already been destroyed.                                              *)
UnverifiedAreDropped ==
  Versioned /\ Decided => \A c \in Conns : FALSE \in heard[c] => sock[c] # "open"

(* Where the verdict is known at once, a peer whose first frame is a good   *)
(* handshake that the verifier has not refused is never dropped for what it *)
(* sends next.                                                              *)
KeptUnlessRefused ==
  Decided => \A c \in Conns : first[c] = "good" /\ c \notin refusals => c \notin rejected

(* Without awaited hooks close() resolves, whatever peers and a pending     *)
(* verifier do, unless a connection has been secured after close() cleared  *)
(* the map: that one is registered, and close() waits until its peer goes.  *)
CloseCompletes ==
  (Prompt /\ server = "closing") ~> (server = "closed" \/ (options.tls /\ clients # {}))
=============================================================================
