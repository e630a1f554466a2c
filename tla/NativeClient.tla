---------------------------- MODULE NativeClient ----------------------------
(***************************************************************************)
(* The native client: LwsClientWrapper (c/qwormhole_lws.cpp), used either  *)
(* by NativeSocketAdapter (src/core/native-socket.ts), which is one        *)
(* socket's life, or bare, as NativeTcpClient, which may connect again.    *)
(*                                                                         *)
(* The service thread runs lws_service and the callbacks until closing_ is *)
(* set; the JavaScript thread runs the API, timers and the queued events.  *)
(* A step is what one thread does between two points where the other can   *)
(* see or change what they share.                                          *)
(***************************************************************************)
EXTENDS Integers, Sequences, SequencesExt, LwsRaw

CONSTANTS
  Owners,       \* subset of {"adapter", "bare"}
  MsgLen,       \* bytes of a queued payload
  MaxWrites,    \* ResolveClientMaxWritesPerWritable
  MaxConnects,  \* bound: calls of connect()
  MaxSends,     \* bound: payloads queued on one connection
  MaxChunks,    \* bound: chunks a peer sends on one connection
  MaxTraffic    \* bound: payloads and chunks together, on one connection

ASSUME OwnersAssumption == Owners \subseteq {"adapter", "bare"}
ASSUME BoundsAssumption ==
  /\ MsgLen \in Nat \ {0} /\ MaxWrites \in Nat \ {0}
  /\ MaxConnects \in Nat /\ MaxSends \in Nat /\ MaxChunks \in Nat /\ MaxTraffic \in Nat

VARIABLES
  owner,
  context,             \* context_ # nullptr
  thread,              \* service_thread_: "none", "running", "ended"
  wsi,                 \* wsi_: "null", "connecting", "up", "freed"
  flags,               \* closing_, connected_, writable_scheduled_, tsfn_ready_
  send_queue, recv_queue,
  skt,                 \* libwebsockets' side of the socket, what the OS took
  svc,                 \* where the service thread is
  js,                  \* the JavaScript thread: "free", "sending", "joining", "crashed"
  events,              \* calls queued with the thread-safe function
  adapter,             \* NativeSocketAdapter
  peer,                \* "up", "fin", "rst"
  \* History, of the latest connection: calls of connect(), payloads queued,
  \* chunks sent by the peer and read; what the owner heard; the promise of
  \* the adapter's connect().
  connects, posted, sent, arrived, heard, promise

vars == <<owner, context, thread, wsi, flags, send_queue, recv_queue, skt, svc, js,
          events, adapter, peer, connects, posted, sent, arrived, heard, promise>>
line == <<owner, connects, peer, sent>>

Polling == [at |-> "poll"]
NewSocket == [out |-> <<>>, pollout |-> TRUE, wire |-> <<>>]

Init ==
  /\ owner \in Owners
  /\ context = FALSE /\ thread = "none" /\ wsi = "null"
  /\ flags = [closing |-> FALSE, connected |-> FALSE, writable_scheduled |-> FALSE,
              tsfn_ready |-> owner = "adapter"]
  /\ send_queue = <<>> /\ recv_queue = <<>>
  /\ skt = NewSocket
  /\ svc = Polling /\ js = "free"
  /\ events = <<>>
  /\ adapter = [destroyed |-> FALSE, connected |-> FALSE, pendingConnect |-> FALSE,
                connectTimer |-> FALSE]
  /\ peer = "up"
  /\ connects = 0 /\ posted = 0 /\ sent = 0 /\ arrived = 0
  /\ heard = <<>> /\ promise = "none"
-----------------------------------------------------------------------------
(* Events.  f is the chunk of a 'data' event, 0 for the others.            *)

Event(e, f) == [e |-> e, f |-> f]
Close == Event("close", 0)

\* EmitEvent: nothing without a handler.
Emitted(new) == IF flags.tsfn_ready THEN events \o new ELSE events

EndOfRenamed(w) == IF w = "up" THEN <<Event("end", 0), Close>> ELSE <<Event("error", 0), Close>>

\* What libwebsockets tells of a connection that ends: RAW_CLOSE and
\* WSI_DESTROY, or a connection error, which falls through to the 'close' of
\* the first, and WSI_DESTROY.
EndOf(w) == IF w = "up" THEN <<Close, Close>> ELSE <<Event("error", 0), Close, Close>>
-----------------------------------------------------------------------------
(* API calls of the JavaScript thread.                                     *)

\* connect(), as far as libwebsockets gets at once: the socket is connecting
\* and its first writable event is the end of that.  writable_scheduled_ keeps
\* the value the last connection left.
Connect ==
  /\ js = "free"
  /\ connects < MaxConnects
  /\ owner = "adapter" => connects = 0 /\ ~adapter.destroyed
  /\ ~context /\ thread = "none"
  /\ context' = TRUE /\ thread' = "running" /\ wsi' = "connecting"
  /\ flags' = [flags EXCEPT !.closing = FALSE, !.connected = FALSE]
  /\ skt' = NewSocket
  /\ connects' = connects + 1
  /\ peer' = "up" /\ posted' = 0 /\ sent' = 0 /\ arrived' = 0
  /\ IF owner = "adapter"
       THEN /\ adapter' = [adapter EXCEPT !.pendingConnect = TRUE, !.connectTimer = TRUE]
            /\ promise' = "pending"
       ELSE UNCHANGED <<adapter, promise>>
  /\ UNCHANGED <<owner, send_queue, recv_queue, svc, js, events, heard>>

\* connect() when libwebsockets refuses at once: WSI_DESTROY is called, the
\* context is destroyed and an exception rejects the promise; pendingConnect
\* stays.
ConnectThrows ==
  /\ js = "free"
  /\ connects < MaxConnects
  /\ owner = "adapter" => connects = 0 /\ ~adapter.destroyed
  /\ ~context /\ thread = "none"
  /\ flags' = [flags EXCEPT !.closing = TRUE, !.connected = FALSE]
  /\ events' = Emitted(<<Close>>)
  /\ connects' = connects + 1
  /\ IF owner = "adapter"
       THEN adapter' = [adapter EXCEPT !.pendingConnect = TRUE] /\ promise' = "rejected"
       ELSE UNCHANGED <<adapter, promise>>
  /\ UNCHANGED <<owner, context, thread, wsi, send_queue, recv_queue, skt, svc, js,
                 peer, posted, sent, arrived, heard>>

\* write() and writev(): send() and sendMany() of n payloads check, and queue,
Send(n) ==
  /\ js = "free"
  /\ owner = "adapter" => ~adapter.destroyed
  /\ context /\ ~flags.closing
  /\ posted + n <= MaxSends /\ posted + n + sent <= MaxTraffic
  /\ posted' = posted + n
  /\ send_queue' = send_queue
       \o [i \in 1 .. n |-> [u \in 1 .. MsgLen |-> <<posted + i, u>>]]
  /\ js' = "sending"
  /\ UNCHANGED <<line, context, thread, wsi, flags, recv_queue, skt, svc, events,
                 adapter, arrived, heard, promise>>

\* and then, under the lock again, ask for a writable callback.  The service
\* thread may have freed the connection in between: a read of freed memory,
\* which does nothing or ends the process.
SendWakes ==
  /\ js = "sending"
  /\ IF flags.writable_scheduled
       THEN js' = "free" /\ UNCHANGED <<flags, skt>>
       ELSE /\ flags' = [flags EXCEPT !.writable_scheduled = TRUE]
            /\ IF wsi = "freed"
                 THEN js' \in {"free", "crashed"} /\ UNCHANGED skt
                 ELSE js' = "free" /\ skt' = [skt EXCEPT !.pollout = TRUE]
  /\ UNCHANGED <<line, context, thread, wsi, send_queue, recv_queue, svc, events,
                 adapter, posted, arrived, heard, promise>>

\* recv() of an owner that polls.
Recv ==
  /\ js = "free" /\ owner = "bare"
  /\ recv_queue # <<>>
  /\ recv_queue' = Tail(recv_queue)
  /\ UNCHANGED <<line, context, thread, wsi, flags, send_queue, skt, svc, js, events,
                 adapter, posted, arrived, heard, promise>>

\* setEventHandler() of an owner that connects again: close() has released it.
SetEventHandler ==
  /\ js = "free" /\ owner = "bare"
  /\ ~context /\ ~flags.tsfn_ready
  /\ flags' = [flags EXCEPT !.tsfn_ready = TRUE]
  /\ UNCHANGED <<line, context, thread, wsi, send_queue, recv_queue, skt, svc, js, events,
                 adapter, posted, arrived, heard, promise>>

\* close() begins: closing_ is set and the service thread is joined.
Stop ==
  /\ js = "free"
  /\ flags' = [flags EXCEPT !.closing = TRUE]
  /\ js' = "joining"

\* destroy() and end() of the adapter, close() of the bare client.
Destroy ==
  /\ owner = "adapter" => ~adapter.destroyed
  /\ Stop
  /\ adapter' = [adapter EXCEPT !.destroyed = TRUE, !.connectTimer = FALSE]
  /\ UNCHANGED <<line, context, thread, wsi, send_queue, recv_queue, skt, svc, events,
                 posted, arrived, heard, promise>>

\* The connect timer fires before the connection is known to be up: the promise
\* is rejected, 'error' emitted, and destroy() called.
ConnectTimeout ==
  /\ adapter.connectTimer /\ ~adapter.connected
  /\ Stop
  /\ adapter' = [adapter EXCEPT !.destroyed = TRUE, !.connectTimer = FALSE,
                                !.pendingConnect = FALSE]
  /\ promise' = IF adapter.pendingConnect THEN "rejected" ELSE promise
  /\ heard' = Append(heard, Event("error", 0))
  /\ UNCHANGED <<line, context, thread, wsi, send_queue, recv_queue, skt, svc, events,
                 posted, arrived>>

\* The rest of close(), and of destroy(): the thread is joined, the context
\* destroyed (which ends a connection that is still there), the queues cleared
\* and the handler released; 'close' is emitted.
StopEnds ==
  /\ js = "joining" /\ thread # "running"
  /\ js' = "free"
  /\ context' = FALSE /\ thread' = "none" /\ wsi' = "null"
  /\ events' = IF wsi \in {"connecting", "up"} THEN Emitted(EndOf(wsi)) ELSE events
  /\ send_queue' = <<>> /\ recv_queue' = <<>>
  /\ flags' = [flags EXCEPT !.tsfn_ready = FALSE, !.connected = FALSE]
  /\ heard' = IF owner = "adapter" THEN Append(heard, Close) ELSE heard
  /\ UNCHANGED <<line, skt, svc, adapter, posted, arrived, promise>>

HandleConnectOnly(ev) ==
  LET settles == adapter.pendingConnect /\ ev.e = "connect"
  IN /\ promise' = IF settles /\ promise = "pending" THEN "resolved" ELSE promise
     /\ adapter' = [adapter EXCEPT
          !.connected = ev.e = "connect" \/ (@ /\ ev.e # "close"),
          !.pendingConnect = @ /\ ~settles,
          !.connectTimer = @ /\ ~settles /\ ev.e # "close"]
     /\ heard' = Append(heard, ev)

\* The event handler of the adapter.  The first event but 'data' settles the
\* promise, except a 'close' after destroy().  What was queued before destroy()
\* is passed on after it.
Handle(ev) ==
  LET settles == adapter.pendingConnect /\ ev.e # "data"
                   /\ (ev.e = "close" => ~adapter.destroyed)
  IN /\ promise' = IF settles /\ promise = "pending"
                     THEN IF ev.e = "connect" THEN "resolved" ELSE "rejected"
                     ELSE promise
     /\ adapter' = [adapter EXCEPT
          !.connected = ev.e = "connect" \/ (@ /\ ev.e # "close"),
          !.pendingConnect = @ /\ ~settles,
          !.connectTimer = @ /\ ~settles /\ ev.e # "close"]
     /\ heard' = Append(heard, ev)

Deliver ==
  /\ js = "free" /\ events # <<>>
  /\ IF owner = "adapter" THEN Handle(Head(events)) ELSE UNCHANGED <<adapter, promise, heard>>
  /\ events' = Tail(events)
  /\ UNCHANGED <<line, context, thread, wsi, flags, send_queue, recv_queue, skt, svc, js,
                 posted, arrived>>

\* On 'connect', refreshTlsInfo() reads the connection, which the service
\* thread may have freed by now: that does nothing, or ends the process here.
RefreshTlsInfo ==
  /\ js = "free" /\ owner = "adapter"
  /\ events # <<>> /\ Head(events).e = "connect" /\ wsi = "freed"
  /\ js' = "crashed"
  /\ UNCHANGED <<line, context, thread, wsi, flags, send_queue, recv_queue, skt, svc, events,
                 adapter, posted, arrived, heard, promise>>
-----------------------------------------------------------------------------
(* The service thread.                                                      *)

Serving == thread = "running" /\ svc = Polling /\ ~flags.closing /\ js # "crashed"
Inside(at) == thread = "running" /\ svc.at = at /\ js # "crashed"

EndsQuietly ==
  /\ wsi' = "freed"
  /\ flags' = [flags EXCEPT !.closing = TRUE, !.connected = FALSE]
  /\ UNCHANGED <<line, context, thread, send_queue, recv_queue, skt, svc, js, events,
                 adapter, posted, arrived, heard, promise>>

\* A connection ends: its callbacks set closing_ and emit, then it is freed.
Ends ==
  /\ wsi' = "freed"
  /\ flags' = [flags EXCEPT !.closing = TRUE, !.connected = FALSE]
  /\ events' = Emitted(EndOf(wsi))
  /\ UNCHANGED <<line, context, thread, send_queue, recv_queue, skt, svc, js, adapter,
                 posted, arrived, heard, promise>>

\* LWS_CALLBACK_RAW_CONNECTED.
Connected ==
  /\ Serving /\ wsi = "connecting"
  /\ wsi' = "up"
  /\ flags' = [flags EXCEPT !.connected = TRUE, !.writable_scheduled = TRUE]
  /\ skt' = [skt EXCEPT !.pollout = @ \/ ~flags.writable_scheduled]
  /\ events' = Emitted(<<Event("connect", 0)>>)
  /\ UNCHANGED <<line, context, thread, send_queue, recv_queue, svc, js, adapter,
                 posted, arrived, heard, promise>>

\* LWS_CALLBACK_CLIENT_CONNECTION_ERROR.
ConnectionError == Serving /\ wsi = "connecting" /\ Ends

ReadIfDrained ==
  /\ Serving /\ wsi = "up"
  /\ peer # "rst" /\ skt.out = <<>> /\ arrived < sent
  /\ LET chunk == arrived + 1
     IN /\ arrived' = chunk
        /\ recv_queue' = Append(recv_queue, chunk)
        /\ events' = IF recv_queue = <<>> THEN Emitted(<<Event("data", chunk)>>) ELSE events
  /\ UNCHANGED <<line, context, thread, wsi, flags, send_queue, skt, svc, js, adapter,
                 posted, heard, promise>>

\* LWS_CALLBACK_RAW_RX: a chunk is queued for recv() and emitted.
Read ==
  /\ Serving /\ wsi = "up"
  /\ peer # "rst" /\ skt.out = <<>> /\ arrived < sent
  /\ LET chunk == arrived + 1
     IN /\ arrived' = chunk
        /\ recv_queue' = Append(recv_queue, chunk)
        /\ events' = Emitted(<<Event("data", chunk)>>)
  /\ UNCHANGED <<line, context, thread, wsi, flags, send_queue, skt, svc, js, adapter,
                 posted, heard, promise>>

\* The end of the stream, or an error of the socket: LWS_CALLBACK_RAW_CLOSE.
ReadEnd ==
  /\ Serving /\ wsi = "up"
  /\ peer = "rst" \/ (peer = "fin" /\ skt.out = <<>> /\ arrived = sent)
  /\ Ends

\* POLLOUT while libwebsockets holds bytes.
Flush ==
  /\ Serving /\ wsi = "up"
  /\ skt.pollout /\ skt.out # <<>> /\ peer # "rst"
  /\ \E k \in Takes(Head(skt.out)) \ {0} :
       LET r == IssueRaw(skt.out, <<>>, k)
       IN skt' = [skt EXCEPT !.out = r.out, !.wire = @ \o r.sent]
  /\ UNCHANGED <<line, context, thread, wsi, flags, send_queue, recv_queue, svc, js, events,
                 adapter, posted, arrived, heard, promise>>

\* POLLOUT otherwise: one shot, and LWS_CALLBACK_RAW_WRITEABLE,
Writeable ==
  /\ Serving /\ wsi = "up"
  /\ skt.pollout /\ skt.out = <<>>
  /\ skt' = [skt EXCEPT !.pollout = FALSE]
  /\ svc' = [at |-> "reset"]
  /\ UNCHANGED <<line, context, thread, wsi, flags, send_queue, recv_queue, js, events,
                 adapter, posted, arrived, heard, promise>>

WriteKeepsFlag ==
  /\ Inside("reset")
  /\ svc' = [at |-> "write", n |-> 0]
  /\ UNCHANGED <<line, context, thread, wsi, flags, send_queue, recv_queue, skt, js, events,
                 adapter, posted, arrived, heard, promise>>

\* which first forgets that it was asked for.
WriteReset ==
  /\ Inside("reset")
  /\ flags' = [flags EXCEPT !.writable_scheduled = FALSE]
  /\ svc' = [at |-> "write", n |-> 0]
  /\ UNCHANGED <<line, context, thread, wsi, send_queue, recv_queue, skt, js, events,
                 adapter, posted, arrived, heard, promise>>

\* One turn of its loop: take a payload under the lock, write it without.  An
\* error stops the client, but ends no connection.
WriteNext ==
  /\ Inside("write")
  /\ IF svc.n = MaxWrites \/ send_queue = <<>>
       THEN svc' = [at |-> "end"] /\ UNCHANGED <<flags, send_queue, skt, events>>
       ELSE /\ send_queue' = Tail(send_queue)
            /\ IF peer = "rst"
                 THEN /\ flags' = [flags EXCEPT !.closing = TRUE]
                      /\ events' = Emitted(<<Event("error", 0)>>)
                      /\ svc' = [at |-> "end"]
                      /\ UNCHANGED skt
                 ELSE /\ \E k \in Takes(FirstOf(skt.out, Head(send_queue))) :
                           LET r == IssueRaw(skt.out, Head(send_queue), k)
                           IN /\ skt' = [out |-> r.out, pollout |-> skt.pollout \/ r.again,
                                         wire |-> skt.wire \o r.sent]
                              /\ svc' = [at |-> "account", n |-> svc.n,
                                         next |-> Head(send_queue), written |-> r.ret]
                      /\ UNCHANGED <<flags, events>>
  /\ UNCHANGED <<line, context, thread, wsi, recv_queue, js,
                 adapter, posted, arrived, heard, promise>>

\* ScheduleWritableLocked, for a connection that lives.
Schedule ==
  /\ flags' = [flags EXCEPT !.writable_scheduled = TRUE]
  /\ skt' = [skt EXCEPT !.pollout = @ \/ ~flags.writable_scheduled]

\* A payload that seems cut is put back for the rest.
WriteAccount ==
  /\ Inside("account")
  /\ IF svc.written < Len(svc.next)
       THEN /\ send_queue' = <<SubSeq(svc.next, svc.written + 1, Len(svc.next))>> \o send_queue
            /\ svc' = [at |-> "end"]
            /\ Schedule
       ELSE /\ svc' = [at |-> "write", n |-> svc.n + 1]
            /\ UNCHANGED <<send_queue, flags, skt>>
  /\ UNCHANGED <<line, context, thread, wsi, recv_queue, js, events,
                 adapter, posted, arrived, heard, promise>>

\* The callback ends by asking for the next, with or without payloads.
WriteEnd ==
  /\ Inside("end")
  /\ svc' = Polling
  /\ Schedule
  /\ UNCHANGED <<line, context, thread, wsi, send_queue, recv_queue, js, events,
                 adapter, posted, arrived, heard, promise>>

\* ServiceLoop finds closing_ set.
LoopEnds ==
  /\ Inside("poll") /\ flags.closing
  /\ thread' = "ended"
  /\ flags' = [flags EXCEPT !.connected = FALSE]
  /\ UNCHANGED <<line, context, wsi, send_queue, recv_queue, skt, svc, js, events,
                 adapter, posted, arrived, heard, promise>>
-----------------------------------------------------------------------------
(* The peer, once it has accepted.                                          *)

PeerSends ==
  /\ wsi = "up" /\ peer = "up"
  /\ sent < MaxChunks /\ posted + sent < MaxTraffic
  /\ sent' = sent + 1
  /\ UNCHANGED <<owner, context, thread, wsi, flags, send_queue, recv_queue, skt, svc, js,
                 events, adapter, peer, connects, posted, arrived, heard, promise>>

PeerLeaves ==
  /\ wsi = "up" /\ peer = "up"
  /\ peer' \in {"fin", "rst"}
  /\ UNCHANGED <<owner, context, thread, wsi, flags, send_queue, recv_queue, skt, svc, js,
                 events, adapter, connects, posted, sent, arrived, heard, promise>>
-----------------------------------------------------------------------------
Api ==
  \/ Connect \/ ConnectThrows \/ Recv \/ SetEventHandler \/ Destroy
  \/ \E n \in 1 .. MaxSends : Send(n)

Answered == Connected \/ ConnectionError
Writing == Flush \/ Writeable \/ WriteReset \/ WriteNext \/ WriteAccount \/ WriteEnd
EventLoop == SendWakes \/ StopEnds \/ Deliver \/ RefreshTlsInfo

Next ==
  \/ Api \/ EventLoop \/ ConnectTimeout
  \/ Answered \/ Read \/ ReadEnd \/ Writing \/ LoopEnds
  \/ PeerSends \/ PeerLeaves

Spec == Init /\ [][Next]_vars

\* The event loop turns and the connect timer fires; the service thread goes
\* on, and reads before it writes, so a readable socket is not starved by the
\* writable callbacks that never stop.  A connection attempt succeeds or fails,
\* a peer that keeps the connection reads.
FairSpec ==
  /\ Spec
  /\ WF_vars(EventLoop) /\ WF_vars(ConnectTimeout)
  /\ WF_vars(Answered) /\ WF_vars(Writing) /\ WF_vars(LoopEnds)
  /\ SF_vars(Read) /\ SF_vars(ReadEnd)
-----------------------------------------------------------------------------
(* Properties.                                                              *)

Bytes == (1 .. MaxSends) \X (1 .. MsgLen)
Events == [e : {"connect", "data", "close", "error"}, f : Nat]

TypeOK ==
  /\ owner \in Owners
  /\ context \in BOOLEAN /\ thread \in {"none", "running", "ended"}
  /\ wsi \in {"null", "connecting", "up", "freed"}
  /\ flags \in [closing : BOOLEAN, connected : BOOLEAN, writable_scheduled : BOOLEAN,
                tsfn_ready : BOOLEAN]
  /\ send_queue \in Seq(Seq(Bytes)) /\ recv_queue \in Seq(Nat)
  /\ skt \in [out : Seq(Seq(Bytes)), pollout : BOOLEAN, wire : Seq(Bytes)]
  /\ svc \in {Polling} \cup [at : {"reset", "end"}] \cup [at : {"write"}, n : 0 .. MaxWrites]
           \cup [at : {"account"}, n : 0 .. MaxWrites, next : Seq(Bytes), written : Nat]
  /\ js \in {"free", "sending", "joining", "crashed"}
  /\ events \in Seq(Events) /\ heard \in Seq(Events)
  /\ adapter \in [destroyed : BOOLEAN, connected : BOOLEAN, pendingConnect : BOOLEAN,
                  connectTimer : BOOLEAN]
  /\ peer \in {"up", "fin", "rst"}
  /\ connects \in 0 .. MaxConnects /\ posted \in 0 .. MaxSends /\ sent \in 0 .. MaxChunks
  /\ arrived \in 0 .. MaxChunks
  /\ promise \in {"none", "pending", "resolved", "rejected"}

\* The 'data' events of s are those of the chunks from + 1 .. to, in order.
Chunks(s, from, to) ==
  /\ \A i \in DOMAIN s : s[i].e = "data" => s[i].f \in from + 1 .. to
  /\ \A n \in from + 1 .. to : \E i \in DOMAIN s : s[i] = Event("data", n)
  /\ \A i, j \in DOMAIN s : i < j /\ s[i].e = "data" /\ s[j].e = "data" => s[i].f < s[j].f

Heard(e) == \E i \in DOMAIN heard : heard[i].e = e

\* What the adapter's owner hears is what happened, in order: every chunk the
\* service thread read is heard once or still queued, behind the 'connect';
\* and unless the owner destroyed the socket, nothing but 'close' and 'error'
\* comes after a 'close', however many of these there are.
HeardInOrder ==
  owner = "adapter" =>
    /\ \E h \in 0 .. arrived : Chunks(heard, 0, h) /\ Chunks(events, h, arrived)
    /\ Heard("data") => Heard("connect")
    /\ \A i, j \in DOMAIN heard :
         i < j /\ heard[i].e = "close" /\ heard[j].e \in {"connect", "data"}
           => adapter.destroyed

\* The promise of connect() settles, however the attempt, the connect timer,
\* destroy() and the events of the service thread interleave: a 'close' after
\* destroy() does not settle it, but destroying the context ends an attempt
\* with an 'error' before that 'close', and a connection has its 'connect'.
ConnectSettles ==
  (promise = "pending") ~> (promise # "pending" \/ js = "crashed")

\* What is queued on a connection is written, unless the connection ends: no
\* wake-up is lost between the threads, not even after a reconnect, which finds
\* writable_scheduled_ still set.
SentIsWritten ==
  (posted = MaxSends)
    ~> (<<MaxSends, MsgLen>> \in ToSet(skt.wire)
          \/ flags.closing \/ posted # MaxSends \/ js = "crashed")

\* The adapter's owner hears of a connection that its peer ended: by a 'close',
\* or by the 'error' of a write, after which no 'close' comes.
EndHeard ==
  (owner = "adapter" /\ wsi = "up" /\ peer # "up")
    ~> (Heard("close") \/ Heard("error") \/ js = "crashed")
=============================================================================
