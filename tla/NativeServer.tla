---------------------------- MODULE NativeServer ----------------------------
(***************************************************************************)
(* The native server: LwsServerWrapper (c/qwormhole_lws.cpp) with its      *)
(* wrapper NativeQWormholeServer (src/core/native-server.ts).              *)
(*                                                                         *)
(* Two threads.  The service thread runs lws_service and the callbacks of  *)
(* libwebsockets; the JavaScript thread runs the API, and the events the   *)
(* service thread has queued with the thread-safe function.  They share    *)
(* the connection maps and queues under one std::mutex, which is not       *)
(* recursive.  Each critical section is one step here; the mutex is held   *)
(* between steps only when the JavaScript thread locks it a second time.   *)
(***************************************************************************)
EXTENDS Integers, Sequences, FiniteSets, SequencesExt, LwsRaw

CONSTANTS
  Conns,            \* connections that may be accepted, each with its own id
  Options,          \* option records, see OptionsAssumption
  MsgLen,           \* bytes of a queued payload
  MaxBackpressure,  \* max_backpressure_bytes
  MaxWrites,        \* ResolveServerMaxWritesPerWritable
  Scripts,          \* what a peer may send: sequences of "hs", "data", "huge"
  Reentrant,        \* may a listener call the server (subset of BOOLEAN)?
  MaxPosts,         \* bound: payloads queued for one connection
  MaxListens        \* bound: calls of listen()

\* framed: length_prefixed; hs: protocol_version is set; verify: the wrapper
\* has a verifyHandshake; limit: the application set maxBackpressureBytes.
ASSUME OptionsAssumption ==
  Options \subseteq [framed : BOOLEAN, hs : BOOLEAN, verify : BOOLEAN, limit : BOOLEAN]
ASSUME ConnsAssumption == IsFiniteSet(Conns)
ASSUME BoundsAssumption ==
  /\ MsgLen \in Nat \ {0} /\ MaxBackpressure \in Nat /\ MaxWrites \in Nat \ {0}
  /\ MaxPosts \in Nat /\ MaxListens \in Nat
  /\ \A s \in Scripts : s \in Seq({"hs", "data", "huge"})
  /\ Reentrant \subseteq BOOLEAN

VARIABLES
  opt,          \* the options of this server
  context,      \* context_ exists, and the service thread
  js,           \* the JavaScript thread: "free", "stopping" (in join()), "hung"
  listens,      \* calls of listen() so far
  connections,  \* the ids in connections_ and connections_by_id_
  conn,         \* ClientConnection of each id
  skt,          \* libwebsockets' side of each socket, and what the OS took
  svc,          \* where the service thread is
  events,       \* calls queued with the thread-safe function
  wrap,         \* NativeConnectionState of each id
  peer,         \* each peer: "none", "up", "fin", "rst", "cut" (by close())
  sent,         \* frames each peer has sent
  \* History: payloads queued for the connections that are open; what the
  \* application was told of each.
  posted, told

vars == <<opt, context, js, listens, connections, conn, skt, svc,
          events, wrap, peer, sent, posted, told>>
native == <<opt, context, listens>>
history == <<posted, told>>

NewConnection ==
  [send_queue |-> <<>>, queued_bytes |-> 0, backpressured |-> FALSE,
   closing |-> FALSE, writable_scheduled |-> FALSE,
   rx |-> 0, rx_frames |-> 0]

NewSocket == [out |-> <<>>, pollout |-> FALSE, wire |-> <<>>]

NoState == [state |-> "none", backpressured |-> FALSE, pending |-> <<>>,
            verifying |-> FALSE]

Polling == [at |-> "poll"]

Init ==
  /\ opt \in Options
  /\ context = FALSE /\ js = "free" /\ listens = 0
  /\ connections = {}
  /\ conn = [c \in Conns |-> NewConnection]
  /\ skt = [c \in Conns |-> NewSocket]
  /\ svc = Polling
  /\ events = <<>>
  /\ wrap = [c \in Conns |-> NoState]
  /\ peer = [c \in Conns |-> "none"]
  /\ sent = [c \in Conns |-> <<>>]
  /\ posted = [c \in Conns |-> 0]
  /\ told = [c \in Conns |-> <<>>]
-----------------------------------------------------------------------------
(* Events.  f is the frame of a message, 0 for the others.                 *)

Event(e, c, f) == [e |-> e, c |-> c, f |-> f]
Told(e, f) == [e |-> e, f |-> f]

\* Events whose callback locks mutex_ and holds it while the listener runs.
Locked == {"connection", "message", "backpressure", "drain"}

\* Events that change nothing the application's order of events is about.
Flow == {"backpressure", "drain"}
-----------------------------------------------------------------------------
(* API calls of the JavaScript thread.                                     *)

\* The i-th payload queued for a connection, as bytes.
Payload(i) == [u \in 1 .. MsgLen |-> <<i, u>>]

\* ScheduleWritableLocked, which asks for a writable callback unless one is
\* thought to be on its way.
Scheduled(k) == [k EXCEPT !.writable_scheduled = TRUE]
Requested(s, k) == IF k.writable_scheduled THEN s ELSE [s EXCEPT !.pollout = TRUE]

QueuedFirst(c) ==
  LET bytes == conn[c].queued_bytes + MsgLen
  IN [conn[c] EXCEPT !.send_queue = <<Payload(posted[c] + 1)>> \o @,
                     !.queued_bytes = bytes,
                     !.backpressured = @ \/ bytes >= MaxBackpressure]

QueuedAbove(c) ==
  LET bytes == conn[c].queued_bytes + MsgLen
  IN [conn[c] EXCEPT !.send_queue = Append(@, Payload(posted[c] + 1)),
                     !.queued_bytes = bytes,
                     !.backpressured = @ \/ bytes > MaxBackpressure]

\* What one queued payload does to a connection, and the event it may cause.
Queued(c) ==
  LET bytes == conn[c].queued_bytes + MsgLen
  IN [conn[c] EXCEPT !.send_queue = Append(@, Payload(posted[c] + 1)),
                     !.queued_bytes = bytes,
                     !.backpressured = @ \/ bytes >= MaxBackpressure]
Overflows(c) == ~conn[c].backpressured /\ Queued(c).backpressured

Post(cs) ==
  /\ \A c \in cs : posted[c] < MaxPosts
  /\ conn' = [c \in Conns |-> IF c \in cs THEN Scheduled(Queued(c)) ELSE conn[c]]
  /\ skt' = [c \in Conns |-> IF c \in cs THEN Requested(skt[c], conn[c]) ELSE skt[c]]
  /\ posted' = [c \in Conns |-> IF c \in cs THEN posted[c] + 1 ELSE posted[c]]
  /\ \E order \in SetToSeqs({c \in cs : Overflows(c)}) :
       events' = events \o [i \in DOMAIN order |-> Event("backpressure", order[i], 0)]

Hears(c, e) == \E i \in DOMAIN told[c] : told[c][i].e = e
Knows(c) == Hears(c, "connection")

\* connection.send(), for a connection the application was told of.  One that
\* is backpressured rejects; one that is gone resolves and sends nothing.
SendTo(c) ==
  /\ js = "free"
  /\ Knows(c)
  /\ ~(wrap[c].backpressured /\ opt.limit)
  /\ c \in connections
  /\ Post({c})
  /\ UNCHANGED <<native, js, connections, svc, wrap, peer, sent, told>>

\* broadcast(): to every connection, announced or not, closing or not.
Broadcast ==
  /\ js = "free"
  /\ connections # {}
  /\ Post(connections)
  /\ UNCHANGED <<native, js, connections, svc, wrap, peer, sent, told>>

Closing(c) ==
  /\ conn' = [conn EXCEPT ![c] = Scheduled([@ EXCEPT !.closing = TRUE])]
  /\ skt' = [skt EXCEPT ![c] = Requested(@, conn[c])]

\* connection.end() and connection.destroy().
CloseConnection(c) ==
  /\ js = "free"
  /\ Knows(c)
  /\ c \in connections /\ ~conn[c].closing
  /\ Closing(c)
  /\ UNCHANGED <<native, js, connections, svc, events, wrap, peer, sent, history>>

Listen ==
  /\ js = "free"
  /\ ~context
  /\ listens < MaxListens
  /\ listens' = listens + 1
  /\ context' = TRUE
  /\ UNCHANGED <<opt, js, connections, conn, skt, svc, events, wrap, peer, sent, history>>

\* The objects of closed connections are freed.
Forget(cs) ==
  /\ conn' = [c \in Conns |-> IF c \in cs THEN NewConnection ELSE conn[c]]
  /\ skt' = [c \in Conns |-> IF c \in cs THEN NewSocket ELSE skt[c]]
  /\ sent' = [c \in Conns |-> IF c \in cs THEN <<>> ELSE sent[c]]
  /\ posted' = [c \in Conns |-> IF c \in cs THEN 0 ELSE posted[c]]

\* close() and shutdown(): Stop sets closing_ and waits for the service thread,
StopBegins ==
  /\ js = "free"
  /\ context
  /\ js' = "stopping"
  /\ UNCHANGED <<native, connections, conn, skt, svc, events, wrap, peer, sent, history>>

\* empties the maps, and only then destroys the context: the RAW_CLOSE of each
\* socket finds no connection, and no clientClosed is emitted.
StopEnds ==
  /\ js = "stopping"
  /\ svc = Polling
  /\ js' = "free"
  /\ context' = FALSE
  /\ connections' = {}
  /\ peer' = [c \in Conns |-> IF c \in connections THEN "cut" ELSE peer[c]]
  /\ Forget(connections)
  /\ UNCHANGED <<opt, listens, svc, events, wrap, told>>
-----------------------------------------------------------------------------
(* Events as the JavaScript thread runs them: the callback of the thread-   *)
(* safe function, then NativeQWormholeServer.routeNativeEvent.              *)

RoutedClosed(ev) ==
  IF ev.e = "clientClosed" THEN [wrap[ev.c] EXCEPT !.state = "closed"]
  ELSE IF ev.e = "connection" THEN [NoState EXCEPT !.state = "accepted"]
  ELSE wrap[ev.c]

RoutedNoDrain(ev) ==
  LET w == wrap[ev.c]
  IN CASE ev.e = "connection" ->
            [NoState EXCEPT !.state = IF opt.verify THEN "pending" ELSE "accepted",
                            !.verifying = opt.verify]
       [] ev.e = "message" ->
            IF w.state = "pending" THEN [w EXCEPT !.pending = Append(@, ev.f)] ELSE w
       [] ev.e = "backpressure" ->
            IF w.state = "none" THEN w ELSE [w EXCEPT !.backpressured = TRUE]
       [] ev.e = "drain" -> w
       [] ev.e = "clientClosed" -> [w EXCEPT !.state = "none", !.backpressured = FALSE]

\* NativeConnectionState after an event.  A deleted state lives on for the
\* verifier that is still awaited.
Routed(ev) ==
  LET w == wrap[ev.c]
  IN CASE ev.e = "connection" ->
            [NoState EXCEPT !.state = IF opt.verify THEN "pending" ELSE "accepted",
                            !.verifying = opt.verify]
       [] ev.e = "message" ->
            IF w.state = "pending" THEN [w EXCEPT !.pending = Append(@, ev.f)] ELSE w
       [] ev.e \in Flow ->
            IF w.state = "none" THEN w ELSE [w EXCEPT !.backpressured = ev.e = "backpressure"]
       [] ev.e = "clientClosed" -> [w EXCEPT !.state = "none", !.backpressured = FALSE]

\* Does the application hear of it?
Heard(ev) ==
  \/ ev.e = "connection" /\ ~opt.verify
  \/ ev.e = "message" /\ wrap[ev.c].state = "accepted"
  \/ ev.e \in Flow /\ wrap[ev.c].state # "none"
  \/ ev.e = "clientClosed"

\* The next event.  One of a connection that is gone by now is dropped, except
\* clientClosed.  A listener that runs under the lock and calls the server
\* (again) waits for the mutex its own thread holds; so does a verifier that
\* throws before it returns a promise, whose catch calls closeConnection.
Deliver(again) ==
  /\ js = "free"
  /\ events # <<>>
  /\ LET ev == Head(events)
         live == ev.e \notin Locked \/ ev.c \in connections
         heard == live /\ Heard(ev)
     IN /\ again => ev.e \in Locked /\ (heard \/ (live /\ ev.e = "connection"))
        /\ wrap' = [wrap EXCEPT ![ev.c] = IF live THEN Routed(ev) ELSE @]
        /\ told' = [told EXCEPT ![ev.c] =
                        IF heard /\ ev.e \notin Flow THEN Append(@, Told(ev.e, ev.f)) ELSE @]
  /\ events' = Tail(events)
  /\ js' = IF again THEN "hung" ELSE "free"
  /\ UNCHANGED <<native, connections, conn, skt, svc, peer, sent, posted>>

AcceptForgets(c) ==
  /\ js = "free"
  /\ wrap[c].verifying
  /\ wrap' = [wrap EXCEPT ![c].verifying = FALSE, ![c].pending = <<>>,
                          ![c].state = IF @ = "pending" THEN "accepted" ELSE @]
  /\ told' = [told EXCEPT ![c] = Append(@, Told("connection", 0))]
  /\ UNCHANGED <<native, js, connections, conn, skt, svc, events, peer, sent, posted>>

\* The awaited verifier answers yes: acceptConnection.
Accept(c) ==
  /\ js = "free"
  /\ wrap[c].verifying
  /\ wrap' = [wrap EXCEPT ![c].verifying = FALSE, ![c].pending = <<>>,
                          ![c].state = IF @ = "pending" THEN "accepted" ELSE @]
  /\ told' = [told EXCEPT ![c] =
       Append(@, Told("connection", 0))
         \o [i \in DOMAIN wrap[c].pending |-> Told("message", wrap[c].pending[i])]]
  /\ UNCHANGED <<native, js, connections, conn, skt, svc, events, peer, sent, posted>>

\* It answers no, or its promise is rejected: rejectConnection.
Reject(c) ==
  /\ js = "free"
  /\ wrap[c].verifying
  /\ wrap' = [wrap EXCEPT ![c].verifying = FALSE]
  /\ IF c \in connections THEN Closing(c) ELSE UNCHANGED <<conn, skt>>
  /\ UNCHANGED <<native, js, connections, svc, events, peer, sent, history>>
-----------------------------------------------------------------------------
(* The service thread.  Unlocked steps need only the thread, the others the *)
(* mutex too.                                                               *)

CanLock == context /\ js # "hung"
KillingOf(c) == [at |-> "kill", c |-> c]
EmittingOf(c, e) == [at |-> "emit", c |-> c, e |-> e]

\* LWS_CALLBACK_RAW_ADOPT: the connection is known before it is announced.
Adopt(c) ==
  /\ CanLock /\ svc = Polling
  /\ peer[c] = "none"
  /\ peer' = [peer EXCEPT ![c] = "up"]
  /\ connections' = connections \cup {c}
  /\ svc' = IF opt.hs THEN Polling ELSE EmittingOf(c, "connection")
  /\ UNCHANGED <<native, js, conn, skt, events, wrap, sent, history>>

\* EmitConnection of an adopted connection and EmitDrain, both after the mutex
\* was released.
Emit ==
  /\ context /\ svc.at = "emit"
  /\ svc' = Polling
  /\ events' = Append(events, Event(svc.e, svc.c, 0))
  /\ UNCHANGED <<native, js, connections, conn, skt, wrap, peer, sent, history>>

\* Frames are two bytes: a header and a body.
FrameLen == 2

\* Frames that make ProcessBufferedFrames give up once n bytes have come: an
\* oversized header, or a first frame that is not the handshake it must be.
Refused(c, n) ==
  {i \in DOMAIN sent[c] :
     \/ sent[c][i] = "huge" /\ n >= FrameLen * (i - 1) + 1
     \/ i = 1 /\ opt.hs /\ sent[c][1] # "hs" /\ n >= FrameLen}

\* Frames it takes from the first n bytes: complete ones before any of these.
Taken(c, n) ==
  {i \in DOMAIN sent[c] :
     /\ conn[c].rx_frames < i /\ FrameLen * i <= n
     /\ \A j \in Refused(c, n) : i < j}

FrameEvent(c, i) == IF i = 1 /\ opt.hs THEN Event("connection", c, 0) ELSE Event("message", c, i)

ProcessBufferedFrames(c, n) ==
  [i \in 1 .. Cardinality(Taken(c, n)) |-> FrameEvent(c, conn[c].rx_frames + i)]

\* LWS_CALLBACK_RAW_RX with n more bytes.  It forgets that a writable callback
\* was asked for.  Without framing every chunk is a message: rx_frames numbers
\* what was passed on, frames or chunks.
Receive(c, n) ==
  LET total == conn[c].rx + n
      new == IF conn[c].closing THEN <<>>
             ELSE IF opt.framed THEN ProcessBufferedFrames(c, total)
             ELSE <<Event("message", c, conn[c].rx_frames + 1)>>
  IN /\ conn' = [conn EXCEPT ![c].writable_scheduled = FALSE,
                             ![c].rx = total,
                             ![c].rx_frames = @ + Len(new)]
     /\ events' = events \o new
     /\ svc' = IF conn[c].closing \/ (opt.framed /\ Refused(c, total) # {})
                 THEN KillingOf(c) ELSE svc

Read(c) ==
  /\ CanLock /\ svc = Polling
  /\ c \in connections
  /\ peer[c] \in {"up", "fin"}
  /\ skt[c].out = <<>>
  /\ \E n \in 1 .. FrameLen * Len(sent[c]) - conn[c].rx : Receive(c, n)
  /\ UNCHANGED <<native, js, connections, skt, wrap, peer, sent, posted, told>>

\* libwebsockets reads the end of the stream, or an error.
ReadEnd(c) ==
  /\ context /\ svc = Polling
  /\ c \in connections
  /\ \/ peer[c] = "rst"
     \/ peer[c] = "fin" /\ skt[c].out = <<>> /\ conn[c].rx = FrameLen * Len(sent[c])
  /\ svc' = KillingOf(c)
  /\ UNCHANGED <<native, js, connections, conn, skt, events, wrap, peer, sent, history>>

\* POLLOUT while libwebsockets holds bytes: it sends some of these itself, and
\* always asks for another callback.
Flush(c) ==
  /\ context /\ svc = Polling
  /\ c \in connections
  /\ skt[c].pollout /\ skt[c].out # <<>> /\ peer[c] # "rst"
  /\ \E k \in Takes(Head(skt[c].out)) \ {0} :
       LET r == IssueRaw(skt[c].out, <<>>, k)
       IN skt' = [skt EXCEPT ![c].out = r.out, ![c].wire = @ \o r.sent]
  /\ UNCHANGED <<native, js, connections, conn, svc, events, wrap, peer, sent, history>>

\* POLLOUT otherwise: one shot, and LWS_CALLBACK_RAW_WRITEABLE begins.
Writeable(c) ==
  /\ CanLock /\ svc = Polling
  /\ c \in connections
  /\ skt[c].pollout /\ skt[c].out = <<>> /\ peer[c] # "rst"
  /\ skt' = [skt EXCEPT ![c].pollout = FALSE]
  /\ svc' = IF conn[c].closing THEN KillingOf(c) ELSE [at |-> "write", c |-> c, n |-> 0]
  /\ UNCHANGED <<native, js, connections, conn, events, wrap, peer, sent, history>>

\* One turn of its loop: take a payload under the lock, write it without.
WriteNext ==
  /\ CanLock /\ svc.at = "write"
  /\ LET c == svc.c
         queue == conn[c].send_queue
     IN IF svc.n = MaxWrites \/ queue = <<>>
          THEN svc' = [at |-> "end", c |-> c] /\ UNCHANGED <<conn, skt>>
          ELSE /\ conn' = [conn EXCEPT ![c].send_queue = Tail(@)]
               /\ IF peer[c] = "rst"
                    THEN svc' = KillingOf(c) /\ UNCHANGED skt
                    ELSE \E k \in Takes(FirstOf(skt[c].out, Head(queue))) :
                           LET r == IssueRaw(skt[c].out, Head(queue), k)
                           IN /\ skt' = [skt EXCEPT ![c] =
                                   [out |-> r.out, pollout |-> @.pollout \/ r.again,
                                    wire |-> @.wire \o r.sent]]
                              /\ svc' = [at |-> "account", c |-> c, n |-> svc.n,
                                         next |-> Head(queue), written |-> r.ret]
  /\ UNCHANGED <<native, js, connections, events, wrap, peer, sent, history>>

\* The answer is booked; a payload that seems cut is put back for the rest.
WriteAccount ==
  /\ CanLock /\ svc.at = "account"
  /\ LET c == svc.c
         len == Len(svc.next)
         done == IF svc.written < len THEN svc.written ELSE len
         cut == done < len
     IN /\ conn' = [conn EXCEPT ![c].queued_bytes = IF @ >= done THEN @ - done ELSE 0,
                                ![c].writable_scheduled = @ \/ cut,
                                ![c].send_queue =
                                  IF cut THEN <<SubSeq(svc.next, done + 1, len)>> \o @ ELSE @]
        /\ skt' = [skt EXCEPT ![c].pollout = @ \/ cut]
        /\ svc' = IF cut THEN [at |-> "end", c |-> c]
                         ELSE [at |-> "write", c |-> c, n |-> svc.n + 1]
  /\ UNCHANGED <<native, js, connections, events, wrap, peer, sent, history>>

\* After the loop: ask again, or end the backpressure, of which EmitDrain tells
\* later.  writable_scheduled stays as it is.
WriteEnd ==
  /\ CanLock /\ svc.at = "end"
  /\ LET c == svc.c
         more == conn[c].send_queue # <<>>
     IN /\ conn' = [conn EXCEPT ![c].writable_scheduled = @ \/ more,
                                ![c].backpressured = @ /\ more]
        /\ skt' = [skt EXCEPT ![c].pollout = @ \/ more]
        /\ svc' = IF ~more /\ conn[c].backpressured
                    THEN EmittingOf(c, "drain") ELSE Polling
  /\ UNCHANGED <<native, js, connections, events, wrap, peer, sent, history>>

RawCloseIfAsked ==
  /\ CanLock /\ svc.at = "kill"
  /\ svc' = Polling
  /\ connections' = connections \ {svc.c}
  /\ events' = IF conn[svc.c].closing THEN Append(events, Event("clientClosed", svc.c, 0))
                                     ELSE events
  /\ peer' = [peer EXCEPT ![svc.c] = "gone"]
  /\ Forget({svc.c})
  /\ UNCHANGED <<native, js, wrap, told>>

\* The socket is closed, with what libwebsockets still held, and
\* LWS_CALLBACK_RAW_CLOSE forgets the connection.
RawClose ==
  /\ CanLock /\ svc.at = "kill"
  /\ svc' = Polling
  /\ connections' = connections \ {svc.c}
  /\ events' = Append(events, Event("clientClosed", svc.c, 0))
  /\ peer' = [peer EXCEPT ![svc.c] = "gone"]
  /\ Forget({svc.c})
  /\ UNCHANGED <<native, js, wrap, told>>

-----------------------------------------------------------------------------
(* Peers.                                                                   *)

PeerSends(c) ==
  /\ peer[c] = "up"
  /\ \E s \in Scripts : /\ IsStrictPrefix(sent[c], s)
                        /\ sent' = [sent EXCEPT ![c] = Append(@, s[Len(@) + 1])]
  /\ UNCHANGED <<native, js, connections, conn, skt, svc, events, wrap, peer, history>>

PeerLeaves(c) ==
  /\ peer[c] = "up"
  /\ \E how \in {"fin", "rst"} : peer' = [peer EXCEPT ![c] = how]
  /\ UNCHANGED <<native, js, connections, conn, skt, svc, events, wrap, sent, history>>
-----------------------------------------------------------------------------
Api == Broadcast \/ Listen \/ StopBegins \/ \E c \in Conns : SendTo(c) \/ CloseConnection(c)

Service ==
  \/ \E c \in Conns : Adopt(c) \/ Read(c) \/ ReadEnd(c) \/ Flush(c) \/ Writeable(c)
  \/ WriteNext \/ WriteAccount \/ WriteEnd \/ RawClose \/ Emit

EventLoop ==
  \/ StopEnds
  \/ \E again \in Reentrant : Deliver(again)
  \/ \E c \in Conns : Accept(c) \/ Reject(c)

Next ==
  \/ Api \/ Service \/ EventLoop
  \/ \E c \in Conns : PeerSends(c) \/ PeerLeaves(c)

Spec == Init /\ [][Next]_vars

\* The service thread serves what is ready, the event loop runs what is queued
\* and sees join() return.  Nobody has to call the API, and no peer has to act.
FairSpec == Spec /\ WF_vars(Service) /\ WF_vars(EventLoop)
-----------------------------------------------------------------------------
(* Properties.                                                              *)

Bytes == (1 .. MaxPosts) \X (1 .. MsgLen)

ServicePoints ==
  {Polling} \cup [at : {"kill", "end"}, c : Conns]
    \cup [at : {"emit"}, c : Conns, e : {"connection", "drain"}]
    \cup [at : {"write"}, c : Conns, n : 0 .. MaxWrites]
    \cup [at : {"account"}, c : Conns, n : 0 .. MaxWrites, next : Seq(Bytes), written : Nat]

TypeOK ==
  /\ opt \in Options
  /\ context \in BOOLEAN
  /\ js \in {"free", "stopping", "hung"} /\ listens \in 0 .. MaxListens
  /\ connections \subseteq Conns
  /\ conn \in [Conns -> [send_queue : Seq(Seq(Bytes)), queued_bytes : Nat,
                         backpressured : BOOLEAN, closing : BOOLEAN,
                         writable_scheduled : BOOLEAN, rx : Nat, rx_frames : Nat]]
  /\ skt \in [Conns -> [out : Seq(Seq(Bytes)), pollout : BOOLEAN, wire : Seq(Bytes)]]
  /\ svc \in ServicePoints
  /\ events \in Seq([e : Locked \cup {"clientClosed"}, c : Conns, f : Nat])
  /\ wrap \in [Conns -> [state : {"none", "pending", "accepted"}, backpressured : BOOLEAN,
                         pending : Seq(Nat), verifying : BOOLEAN]]
  /\ peer \in [Conns -> {"none", "up", "fin", "rst", "cut", "gone"}]
  /\ sent \in [Conns -> Seq({"hs", "data", "huge"})]
  /\ posted \in [Conns -> 0 .. MaxPosts]
  /\ told \in [Conns -> Seq([e : {"connection", "message", "clientClosed"}, f : Nat])]

\* The place of a byte in the stream of all payloads queued for a connection.
Place(byte) == (byte[1] - 1) * MsgLen + byte[2]

\* What goes out to a peer has no gap and no payload overtakes another: a byte
\* the OS takes is one it had before or the next new one, whatever it refused
\* in between.  (That nothing goes out twice is more than the code provides.)
NoGapOnWire ==
  \A c \in Conns : \A p \in DOMAIN skt[c].wire :
    Place(skt[c].wire[p]) = 1
      \/ \E q \in 1 .. p - 1 : Place(skt[c].wire[q]) + 1 = Place(skt[c].wire[p])

\* The stream a peer gets is the payloads queued for it, each once: what
\* lws_write's contract ("at least the number of bytes requested") and the
\* bookkeeping of a cut write are there for.
WireIntact ==
  \A c \in Conns : \A p \in DOMAIN skt[c].wire : Place(skt[c].wire[p]) = p

\* Bytes queued for a connection and not yet handed to libwebsockets.
Held(list) == UNION {{i} \X DOMAIN list[i] : i \in DOMAIN list}
Outstanding(c) ==
  Cardinality(Held(conn[c].send_queue))
    + IF svc.at = "account" /\ svc.c = c THEN Len(svc.next) ELSE 0

Serviced(c) == svc.at # "poll" /\ svc.c = c

\* The backpressure flag is true to the queue, though two threads count its
\* bytes: it is set while too much is queued, and while it is set there is
\* something left to write, so that the drain that ends it can come.
BackpressureTrue ==
  \A c \in connections : ~(svc.at = "kill" /\ svc.c = c) =>
    /\ Outstanding(c) > 0 /\ Outstanding(c) >= MaxBackpressure => conn[c].backpressured
    /\ conn[c].backpressured => Outstanding(c) > 0 \/ Serviced(c)

PendingFor(c) ==
  \/ \E i \in DOMAIN events : events[i].c = c
  \/ svc.at = "emit" /\ svc.c = c

\* Once its events have run, the wrapper knows exactly the connections that are
\* open and announced, those close() cut off excepted, and it holds back sends
\* only while the native side does: a drain and a new backpressure that cross
\* each other between the threads never leave it waiting for a drain that will
\* not come.  (They may leave it sending: the drain is emitted after the lock
\* is released and overtaken by the backpressure that follows it.)
MirrorInSync ==
  \A c \in Conns : ~PendingFor(c) /\ peer[c] # "cut" =>
    /\ wrap[c].state # "none" <=>
         c \in connections /\ (opt.hs => opt.framed /\ conn[c].rx_frames > 0)
    /\ wrap[c].backpressured => conn[c].backpressured

Once(c, e) == \A i, j \in DOMAIN told[c] : told[c][i].e = e /\ told[c][j].e = e => i = j
Before(c, e1, e2) ==
  \E i, j \in DOMAIN told[c] : i < j /\ told[c][i].e = e1 /\ told[c][j].e = e2

\* The messages of s, at the places in at, are from + 1 .. to, in order.
Numbered(s, at, from, to) ==
  /\ \A i \in at : s[i].f \in from + 1 .. to
  /\ \A n \in from + 1 .. to : \E i \in at : s[i].f = n
  /\ \A i, j \in at : i < j => s[i].f < s[j].f

InTold(c) == {i \in DOMAIN told[c] : told[c][i].e = "message"}
InEvents(c) == {i \in DOMAIN events : events[i].e = "message" /\ events[i].c = c}

\* The application hears of a connection at most once, of its messages only
\* after it, of its end once and last: unless a verifier answers after the end,
\* which announces a client that has left.  Nothing a connected peer sent is
\* lost or reordered between the threads: all that the service thread passed on,
\* behind the handshake if there is one, is what the application heard, what
\* waits for the verifier and what is queued, in this order.
HeardInOrder ==
  \A c \in Conns :
    /\ Once(c, "connection") /\ Once(c, "clientClosed")
    /\ ~Before(c, "message", "connection")
    /\ Hears(c, "message") => Knows(c)
    /\ ~opt.verify => ~Before(c, "clientClosed", "connection")
                      /\ ~Before(c, "clientClosed", "message")
    /\ c \in connections /\ (opt.hs => opt.framed) =>
         LET first   == IF opt.hs /\ conn[c].rx_frames > 0 THEN 1 ELSE 0
             waiting == wrap[c].pending
         IN \E h \in first .. conn[c].rx_frames :
              /\ h + Len(waiting) <= conn[c].rx_frames
              /\ Numbered(told[c], InTold(c), first, h)
              /\ \A i \in DOMAIN waiting : waiting[i] = h + i
              /\ Numbered(events, InEvents(c), h + Len(waiting), conn[c].rx_frames)

\* A peer that leaves is reported, if the server goes on and the JavaScript
\* thread does not hang.
CloseReported ==
  \A c \in Conns :
    (peer[c] \in {"fin", "rst"} /\ c \in connections)
      ~> (Hears(c, "clientClosed") \/ js = "hung" \/ peer[c] = "cut")

\* A payload queued for a connection that stays reaches the socket ("broadcasts
\* to connected clients", as the smoke test says).
QueuedIsWritten ==
  \A c \in Conns :
    (posted[c] = MaxPosts /\ c \in connections)
      ~> (<<MaxPosts, MsgLen>> \in ToSet(skt[c].wire)
            \/ c \notin connections \/ js = "hung")

\* The JavaScript thread never waits for itself: a listener may answer on the
\* connection it was called for, as the README's echo server does.
NeverHangs == js # "hung"
=============================================================================
