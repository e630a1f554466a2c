# QWormhole in TLA+

TLA+ models of the protocol and connection code of QWormhole, TLC runs that
check them on small instances, and TLAPS proofs of what matters most for every
value of the constants. `PROJECT.json` lists the components, the runs with
their properties and mutants, the source lines behind every definition, the
hazards of the code and the disagreements found. Paths below are relative to
`src/` of the repository unless they name a file of this directory.

To check a run: `tlc -config KcpSafety.cfg MCKcpArq`; to check proofs:
`tlapm KcpArqProofs.tla`, and likewise each module whose name ends in `Proofs`.

## 1. The system

QWormhole moves framed messages between processes. Its own logic is the
TypeScript under `src/` and a native addon, `c/qwormhole_lws.cpp`; the
libraries under `libsocket` and `libwebsockets` are third-party code.

| Component | State it keeps | Operations | Talks to | What makes it correct |
|---|---|---|---|---|
| KCP transport (`transports/kcp`) | per end: send window, pending segments, congestion window, receive buffer, next expected number | connect, send, ping, data/ack/ping handlers, retransmission sweep, expiry, close | UDP, the stream multiplexer | in-order, once-only delivery; an ack never covers an undelivered segment; windows hold; what is queued arrives |
| TypeScript server (`server/index.ts`) | clients map, per connection: handshake state, queue, framer | accept with hooks, handshake, send, close | net sockets, framing, verifier, application | no dead entries, every departure announced, only verified peers are heard, close() ends |
| TypeScript client (`client/index.ts`) | socket and tokens, timers, attempts, queue, drain state | connect, disconnect, send, heartbeat, reconnect, socket events | net sockets, queue, limiter, framer, listeners | one 'close' per socket, a closed client stays closed, a lost one reconnects, messages in order and not lost |
| Batch framer (`core/batch-framer.ts`) | ring of slots, batch and its slot indices, drain flag, flush timer, flushes in flight | encodeToBatch, flushBatch, attach/detach, drain | the server's or client's socket, flow controller | order, no loss, bytes of a queued frame stay, no slot leaks, what is encoded is written |
| Flow controller (`core/flow-controller.ts`) | flush in flight, forced-flush flag, token bucket, adaptive sizes | enqueue, flush, tuning | batch framer | flushes coalesce without being lost |
| Priority queue, token bucket (`core/qos.ts`) | queue, tokens | enqueue, dequeueMany, reserve | client, server | stable priority order, rate bound |
| Native server (`c/qwormhole_lws.cpp` LwsServerWrapper, `core/native-server.ts`) | connection maps, send queues, byte counts and flags under one mutex; the wrapper's own map | listen, sendTo, broadcast, closeConnection, close; the service thread's adopt, receive, writable and close callbacks | libwebsockets, the thread-safe function, the verifier | bytes go out in order, backpressure ends with a drain, events in order, the two maps agree, every end is reported, no hang |
| Native client (LwsClientWrapper, `core/native-socket.ts`, `core/NativeTCPClient.ts`) | context, thread, wsi, queues and flags; the adapter's pending connect and timers | connect, send, sendMany, recv, close; callbacks of the service thread | libwebsockets, the thread-safe function | no lost wake-up, connect() settles, data in order, the end is heard |
| Stream multiplexer (`transports/mux`) | map of streams | createStream, receiveRaw, close | KCP | frames reach the stream they name |
| Sharded servers (`sharding`) | workers, routing | start, route, worker exit | child processes | every connection is owned by one worker |
| QUIC transport (`transports/quic`) | handles, poll timers, framer with a flush handler | connect, poll, send, close | native binding, batch framer | no loss when a write is short |
| Sessions, tunnel, registry; RPC; node runtime | maps of sessions, pending requests, peers | open/close, request/response, gossip | client, server | a request is answered once or times out |

Left out for good, with the reason in `PROJECT.json`: handshake hashes and
policies, coherence, schema and telemetry code (numeric, no protocol state),
factories, thin wrappers of platform APIs, scaffolding that nothing uses,
benches, scripts and the vendored libraries.

The hard behaviours: the network loses, repeats and reorders (KCP); state read
before an `await` and used after it (server hooks, the verifier, the client's
drain, flushBatch); the several events that each end a socket, with listeners
that call back into the client; retransmission, reconnect and connect timers
racing late answers; a session that one end forgets; exceptions in the middle
of a handler; ring, window and attempt limits; in the native code two threads,
a mutex, short writes and events that cross from one thread to the other.
Section 8 and "hazards" in `PROJECT.json` name the lines.

## 2. Modules

| Module | Contents |
|---|---|
| `KcpArq` | both ends of the KCP transport and UDP between them |
| `ReliableChannel` | what that transport promises, without packets |
| `KcpArqProofs` | invariants of `KcpArq` and its refinement of `ReliableChannel` |
| `KcpEchoProofs` | the windows and the server-to-client direction of `KcpArq`, on `KcpArqProofs` |
| `TsServer`, `TsServerProofs` | life of a server's connections, and proofs |
| `TsClient`, `TsClientProofs` | life of a client, its reconnects and its send queue, and proofs |
| `BatchFramer`, `BatchFramerProofs` | the outgoing half of the batch framer over a socket, and proofs |
| `LwsRaw` | what `lws_write` of libwebsockets does when the OS takes part of a payload |
| `NativeServer`, `NativeServerProofs` | the native server and its wrapper, on `LwsRaw`, and proofs |
| `NativeClient`, `NativeClientProofs` | the native client and its socket adapter, on `LwsRaw`, and proofs |
| `SharedLemmas` | facts about numbers and sequences that several proofs cite |
| `MCKcpArq`, `MCTsServer`, `MCTsClient`, `MCBatchFramer`, `MCNativeServer`, `MCNativeClient` | option sets and other values for TLC |

The modules are separate: `TsClient` abstracts the framer and the flow
controller to whether they make its drain wait, and `BatchFramer` takes its
owner to be any sequence of encodeToBatch, flushBatch, attach and detach calls.
The two native modules compose the addon, its TypeScript wrapper and the part of
libwebsockets between them.

**KcpArq.** Variables are functions of the end, `"cli"` (a KcpSession) or
`"srv"` (the SessionState of a KcpServer), and keep the names of the fields.
`ClientSend` is send() with the drain it ends in; `ReceiveData`, `ReceiveAck`
and `ReceivePing` are the packet handlers; `Sweep` is the interval handler with
any set of overdue segments; `ServerExpire` is the removal after 30 s of
silence; `DataThrows` is the receive loop cut short by an exception of the
multiplexer, after which the process may die or survive. Time and RTT
arithmetic are abstracted to "any transmitted segment may be overdue". The
server's echo of every payload is in the code and in the model. A KcpServer
keeps an independent session per remote endpoint, so one is modelled.

**TsServer.** `phase[c]` is where handleConnection is suspended. With TLS it has
not been called yet (`"tls"`): the socket is accepted and in no map until
'secureConnection' (`Secured`), which may come after close(). A frame is
what handleHandshake would find out about it (not JSON, wrong version, bad
pin, bad signature, good, ...). The frames of one 'data' event are one action
each, with nothing else in between (`cur # None`), because the decoder keeps
going synchronously after a frame has led to the connection being dropped.

**TsClient.** The client object is a record and its methods are operators on
it, so that a listener (`React`) can call connect() or disconnect() in the
middle of a method: at 'connect', 'ready', 'close' and 'error', and at
'reconnecting', which is emitted before the reconnect timer is set (`late` is
the timer set behind a disconnect() made there). Sockets are numbered by the code's own tokens. drainQueue
is a small program with a `pc`; microtasks run before timers and I/O (`Turn`).

**BatchFramer.** A buffer is `[slot, id]`, a slot remembers whose bytes it
holds. Each flushBatch call that has reached its first await is a record of
`flights`, with its remaining buffers, the slots it will release and whether it
waits for 'drain'. Detaching from an open socket leaves such a wait behind
(`"orphaned"`); it may end at any later time, when it still touches the framer
(`OrphanSettles`). `timed` is whether flushIntervalMs is positive, which
setBatchTiming may change at any time together with the batch size; without it
no timer is set. `Flush` is the synchronous part,
`WriteChunk` one writev, `Resume` and `Reject` what follows the await. Frames
have one length, so the two caps of a flush are one number, which may be tuned
at any time and in the 'flush' listener. `KernelTakes` takes one buffer at a
time, which includes every completion Node can report.

**LwsRaw, NativeServer.** `IssueRaw` is lws_issue_raw: bytes the OS refuses are
kept by libwebsockets, and a later write while some are kept is appended whole,
sends from the first kept segment and answers with that count. `skt[c]` is
libwebsockets' socket: kept segments, whether POLLOUT is asked for, and what
the OS took. `svc` is where the service thread is in a callback; each critical
section of the mutex is one action, and what is emitted after unlocking, where
the other thread can tell the difference, is another: WRITEABLE is `Writeable`,
`WriteNext` (which takes a payload and writes it), `WriteAccount`, `WriteEnd`
and, for the drain, `Emit`. A chunk is any number of bytes of what the peer has
sent; a frame is two bytes, header and body.
`Deliver` runs one queued event: the callback, which drops the event when its
connection is gone, then the wrapper's handler; `again` is a listener that calls
the server on its own stack while the callback holds the mutex, or a verifier
that throws at once, after which the wrapper closes the connection there. close() joins
the thread and clears the maps before the context is destroyed, so the closing
callbacks find nothing.

**NativeClient.** One module for two owners: the adapter, whose connect() is
called once, and a bare NativeTcpClient, which may close and connect again.
`Send` and `SendWakes` are the two critical sections of send(). A connection
that ends emits what libwebsockets' callbacks make of it (`EndOf`). `StopEnds`
is the rest of close() after join(). `RefreshTlsInfo` is what the adapter reads
of the connection on 'connect', when it may be gone. A read of freed memory does nothing or
ends the process. One pass of lws_service is one event, a read or a write.

## 3. Runs

| Run | Distinct states | What it shows |
|---|---|---|
| `kcp_safety` | 694 000 | order in both directions, acknowledgement, nothing stranded and the refinement, with one- and two-segment frames, an expiry, exceptions, and a fourth segment with the wire number of the first (`WireMod = 3`); order and refinement except where an expiry has made that number ambiguous (`NoAlias`) |
| `kcp_liveness` | 15 000 | what a connected client queues is delivered, over a network that loses packets, and windows hold |
| `kcp_fragments` | violation | a frame of two segments is never delivered |
| `server_life` | 112 000 | map, announcements, handshake gate and close(), for every kind of verifier and over TLS |
| `server_unverified` | violation | frames of an unverified peer reach the application |
| `client_life` | 333 000 | one 'close' per socket, StaysDown, KeepsTrying, order, the first connection sends, a lost one reconnects |
| `framer_flush` | 59 000 | order, intact pending frames, no slot leak, no loss; what a timer or a flush has taken up is written |
| `native_server` | 619 000 | bytes without gaps, true backpressure, events in order, wrapper and native side agree, ends are reported |
| `native_client` | 125 000 | connect() settles, data in order, what is sent is written, the end is heard |
| `native_wire` | violation | after a short write, bytes of the next payload go out twice |
| `native_push` | violation | the second payload to a silent peer is never written |
| `native_echo` | violation | a listener that answers deadlocks the JavaScript thread |

Every property of a passing run has a mutant: a plausible bug in a mapped
definition, defined right before it, under which TLC finds it violated.

Bounds, and why they are enough:

- KCP: windows of 2, four segments (in `kcp_liveness` a send window of 3 and three
  segments). A hole, a buffered segment behind it and one outside the window
  exist at once; a number on the wire stands for two segments; the sweep halves a window that can be
  halved; acks overtake each other. `Repeats = {TRUE}` keeps every packet for
  ever, so that any packet may arrive late, again, or (since nothing forces a
  delivery) never; `{FALSE}`, used for liveness, delivers a packet once and has
  `Lose`. `MaxCwnd` saturates the window at `SndWnd`, where it no longer
  limits anything. `MaxEcho` bounds the echoes, of which every retransmission
  makes more; without a bound there is no end to them.
- Server: two connections and a limit of one. `OneTalks` lets one peer send two
  frames (the second behind any first) while the other comes and goes: frames
  of two connections meet only in the clients map. `AllOptions` has no hooks
  with each kind of verifier, TLS, and both hooks with an asynchronous verifier.
- Client: two sockets that overlap, two messages, one heartbeat, one reconnect
  attempt, a batch size of 2, so that one batch is full and one is not.
  `Reactions` are what listeners may call. The invariants also hold with three
  sockets and one message, a run too long to keep.
- Framer: four frames, a ring of 3, batches of up to 3, caps of 1 and 2, and two
  buffers to the high-water mark: cuts, remainders, a full ring, overlapping
  flights and a second socket all happen. The properties also hold with five
  frames (404 000 states), and with four slots, caps to 3 and a high-water mark
  of 3.
- Native server: one connection (two are beyond TLC, and connections share only
  the thread, the mutex and the event queue; the proofs take any number), one listen(), two payloads of two
  bytes of which the OS takes 0 to 2 at a time, so that a payload is cut, kept,
  and met by the next; backpressure from two bytes, so that it comes, drains
  and comes again, and the events cross; two writes per callback. Peers send a
  handshake and a message, no handshake, or an oversized frame. Options: plain
  with a limit, and handshake with a verifier. The same properties also hold
  without framing, for one payload, and unframed with a handshake; these runs
  are not kept.
- Native client: two connections of the bare client, two payloads or chunks in
  all per connection (`MaxTraffic`), sent one by one or together. With
  `MaxTraffic = 4`, 850 000 states, the properties hold too.

Deadlock is not checked except for the framer: processes stop, and the bounds
are used up.

## 4. Fairness

- KCP: the sweep's interval goes on firing, and every unacknowledged segment
  outlives its RTO, which the code caps at MAX_RTO_MS (weak fairness of a sweep
  with that segment overdue). UDP is fair-lossy: a packet that is sent for ever
  is received (strong fairness of its receipt).
- Server: the event loop turns; hooks and verifiers answer; a TLS
  handshake succeeds, fails or times out. Peers promise
  nothing: none has to send, end or read.
- Client: running functions go on, microtasks run before timers, timers fire,
  a connection attempt succeeds or fails (weak fairness of their disjunction,
  never of the failure alone), a peer that keeps the connection reads.
- Framer: a timer that is set fires, some promise that can settle does, the
  kernel takes what an open socket buffers and 'drain' follows (weak fairness of
  each of the three). Nobody has to call flushBatch, so EventuallyWritten starts
  where a timer is set or a flush is in flight.
- Native server: the service thread serves what is ready and the event loop
  runs what is queued (weak fairness of each thread as a whole). A verifier has
  to answer only when the event loop has nothing else to do; no peer has to act.
- Native client: the event loop turns, the connect timer fires, an attempt
  succeeds or fails, the service thread goes on. Reading is strongly fair: the
  client asks for writable callbacks without end, and libwebsockets handles
  POLLIN before POLLOUT in each pass.

## 5. Proofs

`KcpArqProofs`, from the assumptions of `KcpArq` and `NoWrap` (the numbers in
use fit the wire, 2^32 in the code; `kcp_safety`, where they do not, is what TLC
has to say about the rest). Under `NoWrap` no number is ambiguous, so order and
refinement hold after an expiry too. `PowersAssumption` states that powers of
two are positive naturals, which the provers have no rule for; TLC evaluates it.

- `Invariance`: the inductive invariant. InOrderDelivery and AckedWasDelivered
  are not inductive: they depend on what is in the network and the buffers. So
  `IInv` says what each of these means: a data packet to the server carries the
  segment whose number it bears (`DataTrue`), an ack to the client covers only
  delivered segments (`AcksTrue`), a buffered segment is the one its number
  says and lies in the window (`BufferTrue`), the client's sndUna is true and
  nothing pends below it (`DeliveredTrue`), with numbering and bounds. It is
  shown for each action in a lemma of its own.
- `TypeCorrect`, `DeliveryInOrder`, `AcksAreTrue`: its consequences.
- `Refinement`: `KcpArq` implements `ReliableChannel`, with the queued
  segments as offered, the server mux's sequence as got, sndUna - 1 as
  confirmed. Each action is one abstract step or a stutter.

`TsServerProofs`, for any finite set of connections, options and frame bounds.
`IInv` has what holds for all options (`Lives`: only a registered connection
has a handshake, a verifier, an event), what holds when no hook is awaited
(`PromptInv`: an open socket whose handleConnection has been called is
registered and has its handlers, hence the map and the announcements) and what holds when the verdict is known
at once (`DecidedInv`: a pending handshake has seen no frame, a rejected peer's
socket is gone). From it: `ServerTypes`, `MapIsLive`, `DeparturesKnown`,
`FinalGoodbye`, `UnverifiedGate`, `GoodIsKept`. One conclusion is stated only
there and in no run: NothingUncaught.

`KcpEchoProofs`, on the same assumptions. `FlightInv` bounds the segments in
flight by the window: a drain sends at most what the smaller of the windows
leaves free, which is an argument about the cardinality of the union of what is
in flight and what is sent (`WindowsHold`). `EchoInv` says for the echoes what
`IInv` says for the client's segments, as long as no session has expired: a new
session numbers its echoes from 1 again, so that packets of the old one no
longer mean anything, and the property excludes them (`EchoesInOrder`).
`NobodyStranded` follows from `IInv` and `EchoInv`.

`TsClientProofs`, for all options, reactions of listeners, batch sizes and
numbers of attempts. The client's methods call each other and the listeners, so
there are two invariants: `Base` holds also in the middle of handleClose, where
listeners run and may connect or disconnect, and `Full` between methods (each
'close' was announced for a socket of its own, a client that was told to stop
has no timer but one that a scheduleReconnect already under way has set behind a
'reconnecting' listener's disconnect(), the current socket is tracked, a lost one is wanted back). A lemma
for each method says what it makes of `Base`. `QueueInv` is about the send
queue: it is sorted by priority, and what is out, in the batch and in the queue
are each in order and each ahead of the next. From these: `ClientTypes`,
`ClosedOnce`, `DownStaysDown`, `NeverForgotten`, `FramerIsCurrent`,
`OrderOfSends`.

`BatchFramerProofs`, for any ring, batch size and caps. A slot is in use exactly
while somebody owes its release, so the invariant says of the framer, and of the
framer in the middle of a flush, which slots it still has to release
(`Owing(fr, S)`), with no slot owed twice; of the batch and of each piece cut
off it, that its frames are in sequence and its bytes intact (`Single`,
`InSequence`, `Intact`, `Listed`, `Ready`). From it: `FramerTypes`,
`WrittenInOrder`, `QueuedIsIntact`, `NoSlotLeaks`, and `NoFrameLost` with
enableWritev on (off, all but the first frame of a batch are dropped, section 8).

`NativeClientProofs`, for both owners. `Story` joins what the owner has heard
with what is queued for it on the thread-safe function, and says that this
sequence is one the connection could have; the adapter connects once, and its
handler stays until destroy() has ended. From it: `ClientTypes` and
`OwnerHearsInOrder`.

`NativeServerProofs`, for any finite set of connections, options, scripts of
peers and bounds, in two layers.

- `Safe`: a connection is open exactly while it has a peer, and only such a one
  is served (`Alive`); queued_bytes counts the queue and the payload whose
  write is not yet booked, and the flag follows the count (`CountInv`); the
  wire, libwebsockets' buffer, the payload being booked and the queue form one
  chain in which each piece starts at the latest right behind the one before
  (`WireInv`: overlaps, which the code has, are allowed, gaps are not). From it:
  `ServerTypes`, `WireHasNoGap`, `BackpressureHolds`.
- `Talk`, on top of it, about the events on their way from the service thread to
  the wrapper: what the wrapper's state will be once they have run, with a drain
  queued or coming for each queued backpressure (`MirrorInv`); what has been
  told and what of a connection's story is still to be told (`ToldInv`); the
  messages of a peer divided into those told, those waiting for the verifier
  and those queued (`MessageInv`). From it: `MirrorHolds`, `HeardInOrderHolds`.

Every invariant and every action property of the passing runs is stated by one
of these theorems. Only model-checked: the liveness properties
(QueuedIsDelivered, CloseCompletes, FirstConnectionSends, ReconnectsWhenIdle,
EventuallyWritten, CloseReported, ConnectSettles, SentIsWritten, EndHeard),
since fairness and ENABLED are outside the prover's reach, and KCP numbers that
outgrow the wire, which `NoWrap` excludes.

## 6. What the models leave out

- KCP: RTT estimation, metrics, several remote endpoints at once, the content
  of mux frames (only whether decoding throws).
- Server: write() and drainConnectionQueue, telemetry, trust snapshots; the
  idle timeout, which only half-closes a socket; of TLS all but when, or whether,
  a connection is secured.
- Client: sockets from socketFactory, requireConnectedForSend, the idle
  timeout, inbound data, hadError of a 'close' event.
- Framer: flushHandler, transports with a writev method, attachSocket while
  another socket is attached, reset() (called by tests only), push(),
  statistics, the unhandled rejection a failed `void flushBatch()` ends in.
- Native: TLS (of it only the client's read of the connection at 'connect'), the
  contents of a handshake (only whether it is accepted), a listener that throws
  after the connection was accepted,
  'listening', 'error' and 'close' events of the server, binding selection;
  lws_service failing, which it does not do in practice; more than one
  connection in the runs (the module and the proofs have any number); the
  adapter's polling mode over the libsocket backend (`c/qwormhole.cpp`), which
  has neither isConnected nor setEventHandler. The adapter's idle timeout
  is a 'timeout' event and destroy(), which `Destroy` covers. The two threads'
  unlocked update of a poll flag has no outcome but those of either order.

**Not modelled**, and why (each is in "components"). The server's write() and
drainConnectionQueue, the flow controller, the multiplexer's streams, sharding,
QUIC, RPC, sessions and the node runtime have state worth a model and are next
in the plan. Hashes, coherence and telemetry are arithmetic without protocol
state; factories, the WebSocket wrapper and browser adapters hand calls on;
`kcp-arq.ts` and its neighbours are used by nothing. More than nine tenths of
the C and C++ lines of the repository are libwebsockets and libsocket with their
examples, tests and data. They are third-party code; of libwebsockets the
functions the addon stands on are modelled (`LwsRaw`, and the callbacks' order),
the rest is never reached by this program, so the share of C lines the map
covers stays small however complete the models of QWormhole are.

## 7. Disagreements found

1. `kcp_fragments`: send() cuts a long frame into segments, and the receiver
   decodes each by itself, which throws before the number advances
   (`transports/kcp/kcp-session.ts:112`, "Sends mux frames reliably").
2. `server_unverified`: after a failed handshake the frame, and the rest of its
   chunk, are emitted as messages (`server/index.ts:361`).
3. `native_wire`: while libwebsockets holds the rest of a payload, lws_write
   answers with bytes of that one; the callback takes this for a cut write and
   queues the tail of a payload that libwebsockets has kept whole
   (`c/qwormhole_lws.cpp:2799`; the client does the same at 1588). lws-write.h
   promises "at least the number of bytes requested to send".
4. `native_push`: writable_scheduled is reset when something is received, never
   when the callback has run, so what follows a first payload to a silent peer
   stays queued (`c/qwormhole_lws.cpp:2639`, "broadcasts to connected clients").
5. `native_echo`: listeners run under the mutex that sendTo and broadcast lock
   (`c/qwormhole_lws.cpp:2379`; the README's echo server answers in 'message').

## 8. Known limits of the passing properties

A property that excludes a case says so in its comment; these are the cases,
all of which the code has.

- KCP: after an expiry the new server session waits for segment 1, so a client
  that is past it is never heard again; its old acks push the new session's
  sndUna ahead (NoneStranded). Once numbers have wrapped around the wire, a new
  session takes a later segment for the first one (InOrderDelivery).
- Server with an awaited hook: a socket that closes meanwhile is registered for
  ever, close() waits for a socket no map knows, an early socket error or a
  rejected hook is uncaught. With an asynchronous verifier, a message sent
  right behind a good handshake drops the peer. clientClosed may come twice.
  maxClients is compared before the hooks and not after them, so connections
  that arrive while one is pending are all admitted (`server/index.ts:366`;
  `types.ts:312` says "rejected immediately"). Without hooks the comparison and
  the insertion are one step, of which no property is stated.
- Server with TLS: a socket that is still in its TLS handshake when close() is
  called is in no map, is not destroyed, and is registered when it is secured;
  close() then waits until its peer goes (CloseCompletes, RegisteredIsLive).
- Client: handleClose of an older socket forgets a newer one, which lives on;
  a wait for 'drain' or a flush that is rejected leaves the drain dead, and
  nothing is sent on later connections; ready can precede the handshake, and
  messages too; connect() may never settle after disconnect(); one connect()
  clears another's timer; a missing interface ends reconnecting. A 'reconnecting'
  listener that calls disconnect() is too early to cancel the timer set behind
  it (`client/index.ts:414`), so the closed client connects again (StaysDown). With a message
  queued and no socket, drainQueue starts over in microtasks for ever
  (`client/index.ts:620`), so ReconnectsWhenIdle excepts a client with anything
  queued.
- Framer: a buffer allocated because the ring was full shifts the slot indices
  of a batch that is cut, so a queued frame can be overwritten; a 'flush'
  listener that lowers the cap reorders; a frame older than the socket waits
  for a newer one; with flushIntervalMs 0 a frame below the batch size waits for
  the next flushBatch; the late drain of a flush whose socket was detached
  clears the draining flag of the socket attached since; a flush without a socket drops its frames; with
  enableWritev off all but the first frame of a batch are dropped. Slots are
  released when write() has answered (`batch-framer.ts:418`), so a frame that
  Node still buffers can be overwritten once the ring wraps.
- Native server: close() emits no clientClosed and leaves the wrapper's entries;
  a late verifier announces a 'connection' after its 'clientClosed'; messages
  of a connection that closed before their event ran are dropped; unframed with
  a protocol version, the handshake is never read; broadcast reaches connections
  that are not announced; a drain can be overtaken by the backpressure that
  follows it, after which the wrapper sends although it should not; what
  libwebsockets still holds is lost on close; a verifier that throws at once
  makes the wrapper close the connection under the mutex, which hangs.
- Native client: refreshTlsInfo at 'connect' reads a connection that the service
  thread may have freed; events queued before destroy() follow its 'close'; up to three 'close' events; a
  failed write is an 'error' without 'close'; after the peer's end nobody calls
  destroy(), so thread, context and handler stay; writable callbacks never
  stop; recv_queue_ grows when nobody calls recv(); send()'s second critical
  section may use a freed connection.

## 9. Plan

Done: 1. KCP with its abstraction and proofs. 2. The server's connections with
proofs. 3. The client. 4. The batch framer. 5. The native client and server.
Every safety property of these is proved as well as checked (section 5).

Next, in this order (closely related questions share a run):

6. `ServerSend`: write(), drainConnectionQueue, the priority queue and the
   token bucket, then composed with `FlowController` (coalesced flushes) over
   the abstract channel that `BatchFramer` is meant to be; the priority queue
   against a reference definition. Its hazards are listed: write() restarts a
   drain once and awaits it nowhere, so what is queued while the second drain
   ends waits for the next send; a socket that closes without an error settles
   neither event drainConnectionQueue waits for.
7. `ShardedServer`: workers that start, exit and are routed to.
8. `MuxStreams` over `ReliableChannel`; `Rpc` over the same.
9. `QuicTransport`: polling, short writes and the framer's flush handler.
10. Sessions, tunnel, registry, node runtime.

Proofs to add: those of the modules above, each with its module. For `KcpArq`,
the theorems without `NoWrap`: a packet's number then stands for a class of
segments, and only a bound on how long the network keeps a packet tells them
apart. For `TsServer` with an awaited hook, what is left of the invariants in
the states section 8 describes.
