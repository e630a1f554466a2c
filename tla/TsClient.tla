------------------------------ MODULE TsClient ------------------------------
(***************************************************************************)
(* A QWormholeClient (client/index.ts) over a Node socket: connect(),      *)
(* disconnect(), the handling of 'error' and 'close', the reconnect and    *)
(* connect timers, the handshake that precedes "ready", and the send queue *)
(* with its one asynchronous drain.                                        *)
(*                                                                         *)
(* The client object is the record c; its methods are operators on c, so   *)
(* that a listener of the application may call the client back in the      *)
(* middle of a method.  An action is what JavaScript runs between two      *)
(* suspensions, except that drainQueue is one action per item, during      *)
(* which nothing else may run (pc = "run").  Messages are numbered; the    *)
(* framer, the flow controller and the token bucket are abstracted to      *)
(* whether they make the drain wait.                                       *)
(***************************************************************************)
EXTENDS Integers, Sequences, SequencesExt

CONSTANTS
  Options,      \* the options a client may be built with (below)
  Reactions,    \* what the application's listeners may call
  MaxAttempts,  \* reconnect.maxAttempts
  BatchSize,    \* DRAIN_BATCH_SIZE
  MaxSockets,   \* bound: sockets the client creates
  MaxSends,     \* bound: messages the application sends
  MaxPings      \* bound: heartbeats

ASSUME ClientAssumption ==
  \* framed: length-prefixed framing; flow: a flow controller; limiter: a rate
  \* limit; proto: a protocol version; nic: an interface name; timeout: a
  \* connect timeout; beat: a heartbeat.
  /\ Options \subseteq [framed : BOOLEAN, flow : BOOLEAN, limiter : BOOLEAN, proto : BOOLEAN,
                        nic : BOOLEAN, timeout : BOOLEAN, beat : BOOLEAN]
  /\ \A o \in Options : o.flow => o.framed
  /\ Reactions \subseteq {"none", "connect", "disconnect"}
  /\ MaxAttempts \in Nat /\ BatchSize \in Nat \ {0}
  /\ MaxSockets \in Nat /\ MaxSends \in Nat /\ MaxPings \in Nat

VARIABLES
  opts,    \* the options of this client
  c,       \* the client and its sockets (Client below)
  queue,   \* the priority queue
  batch,   \* drainQueue's batch: what is still to be handed over
  pc,      \* where drainQueue is; it is running unless this is "idle"
  waitsOn, \* the socket whose 'drain' event drainQueue awaits
  out,     \* what has been written to a socket or given to the framer
  sends,   \* messages of the application that send() has accepted
  pings    \* heartbeats so far

sendVars == <<queue, batch, pc, waitsOn, out, sends, pings>>
vars == <<opts, c, sendVars>>

Tokens == 1..MaxSockets
None == 0
Client == [
  sock : {None} \cup Tokens,     \* this.socket
  made : 0..MaxSockets,          \* socketTokenCounter and currentSocketToken
  sk : [Tokens -> {"none", "connecting", "open", "destroyed", "closed"}],
  settled : 0..MaxSockets,       \* settledCloseToken
  byUser : BOOLEAN,              \* closedByUser
  micro : SUBSET Tokens,         \* sockets whose microtask of disconnect() is to run
  timer : BOOLEAN,               \* reconnectTimer is set
  late : BOOLEAN,                \* history: by a scheduleReconnect that was overtaken
  attempts : 0..MaxAttempts,     \* reconnectAttempts
  connectTimer : {None} \cup Tokens,
  armed : SUBSET Tokens,         \* connect timers that will fire
  beating : BOOLEAN,             \* heartbeatTimer is set
  att : {None} \cup Tokens,      \* the socket of the outbound framer
  conn : [Tokens -> {"none", "pending", "ready", "failed"}],    \* promises of connect()
  hello : [Tokens -> {"none", "drain", "sent", "rejected"}],    \* what the handshake awaits
  goodbyes : [Tokens -> 0..2],   \* 'close' events of each socket, counted up to two
  gaveUp : BOOLEAN ]             \* history: nobody will try to connect again

Alive(cl, s) == s # None /\ cl.sk[s] \in {"connecting", "open"}
Up(cl) == Alive(cl, cl.sock)
Draining == pc # "idle"

\* JavaScript is busy, or microtasks are waiting: no timer and no I/O event.
Sync == pc = "run"
Micro == c.micro # {} \/ pc = "tick" \/ \E t \in Tokens : c.hello[t] \in {"sent", "rejected"}
Turn == ~Sync /\ ~Micro
-----------------------------------------------------------------------------
(* The methods of the client. *)

ClearConnectTimer(cl) == [cl EXCEPT !.armed = @ \ {cl.connectTimer}, !.connectTimer = None]
ClearReconnectTimer(cl) == [cl EXCEPT !.timer = FALSE, !.late = FALSE]

(* connect() on a client that is not up: the interface is looked for and    *)
(* found or not, and a socket with a new token becomes this.socket.         *)
Connecting(cl, found) ==
  LET t == cl.made + 1
      asked == [ClearReconnectTimer(cl) EXCEPT !.byUser = FALSE]
  IN IF ~found THEN [asked EXCEPT !.gaveUp = TRUE]
     ELSE [asked EXCEPT !.gaveUp = FALSE, !.made = t, !.sock = t, !.sk[t] = "connecting",
             !.conn[t] = "pending",
             !.armed = IF opts.timeout THEN @ \cup {t} ELSE @,
             !.connectTimer = IF opts.timeout THEN t ELSE @]

CanConnect(cl, found) == (Up(cl) \/ ~found \/ cl.made < MaxSockets) /\ (found \/ opts.nic)
Connect(cl, found) == IF Up(cl) THEN cl ELSE Connecting(cl, found)

\* The first part of handleClose, up to the 'close' event, and what it does
\* behind that event in any case.
Announce(cl, t) ==
  [cl EXCEPT !.settled = t, !.att = None, !.goodbyes[t] = IF @ < 2 THEN @ + 1 ELSE @]
Gone(cl) == [cl EXCEPT !.beating = FALSE, !.sock = None]

(* disconnect(): without a socket it closes at once, else in a microtask.    *)
Left(cl) == [ClearReconnectTimer(cl) EXCEPT !.byUser = TRUE, !.beating = FALSE, !.att = None]
Unannounced(cl) == cl.sock = None /\ cl.made > cl.settled
Disconnect(cl) ==
  IF cl.sock # None
  THEN [Left(cl) EXCEPT !.sock = None, !.sk[cl.sock] = IF Up(cl) THEN "destroyed" ELSE @,
                        !.micro = @ \cup {cl.made}]
  ELSE IF Unannounced(cl) THEN Gone(Announce(Left(cl), cl.made))
  ELSE Left(cl)

\* A listener of the application calls the client back.
React(cl, r) ==
  IF r = "connect" THEN Connect(cl, TRUE) ELSE IF r = "disconnect" THEN Disconnect(cl) ELSE cl
CanReact(r) == r # "connect" \/ c.made < MaxSockets
\* At most one of its listeners reacts to an event.
OneOf(r, q) == (r = "none" \/ q = "none") /\ CanReact(r) /\ CanReact(q)

\* Mutant: one attempt too many.
ScheduleReconnectOver(cl, q) ==
  IF cl.byUser \/ cl.timer THEN cl
  ELSE IF cl.attempts > MaxAttempts THEN [cl EXCEPT !.gaveUp = TRUE]
  ELSE [React([cl EXCEPT !.attempts = @ + 1], q) EXCEPT !.timer = TRUE, !.late = q = "disconnect"]

\* Mutant: reconnects although the application has closed the client.
ScheduleReconnectAlways(cl, q) ==
  IF cl.timer THEN cl
  ELSE IF cl.attempts >= MaxAttempts THEN [cl EXCEPT !.gaveUp = TRUE]
  ELSE [React([cl EXCEPT !.attempts = @ + 1], q) EXCEPT !.timer = TRUE, !.late = q = "disconnect"]

(* scheduleReconnect.  The timer is set behind the 'reconnecting' event,     *)
(* whatever its listeners have called (q), disconnect() too.                 *)
ScheduleReconnect(cl, q) ==
  IF cl.byUser \/ cl.timer THEN cl
  ELSE IF cl.attempts >= MaxAttempts THEN [cl EXCEPT !.gaveUp = TRUE]
  ELSE [React([cl EXCEPT !.attempts = @ + 1], q) EXCEPT !.timer = TRUE, !.late = q = "disconnect"]

\* The part of handleClose behind the 'close' event.
AfterClose(cl, q) ==
  IF cl.byUser THEN ClearReconnectTimer(Gone(cl)) ELSE ScheduleReconnect(Gone(cl), q)

\* Mutant: a socket that has already been announced is announced again.
HandleCloseAgain(cl, t, r, q) ==
  IF t < cl.settled THEN cl ELSE AfterClose(React(Announce(cl, t), r), q)

\* Mutant: the framer keeps the socket.
HandleCloseAttached(cl, t, r, q) ==
  IF t <= cl.settled THEN cl ELSE [AfterClose(React(Announce(cl, t), r), q) EXCEPT !.att = cl.att]

\* Mutant: closedByUser is read before the listeners have run.
HandleCloseStale(cl, t, r, q) ==
  IF t <= cl.settled THEN cl
  ELSE LET told == React(Announce(cl, t), r)
       IN [AfterClose([told EXCEPT !.byUser = cl.byUser], q) EXCEPT !.byUser = told.byUser]

(* handleClose, whose 'close' and 'reconnecting' listeners call r and q.     *)
HandleClose(cl, t, r, q) ==
  IF t <= cl.settled THEN cl ELSE AfterClose(React(Announce(cl, t), r), q)

\* finalizeReady, whose 'connect' and 'ready' listeners call r, and the
\* rejection of the handshake.
Ready(cl, t, r) ==
  IF cl.conn[t] # "pending" THEN cl
  ELSE LET told == React([ClearConnectTimer(cl) EXCEPT !.conn[t] = "ready", !.attempts = 0], r)
       IN [told EXCEPT !.beating = @ \/ opts.beat]
Failed(cl, t) ==
  IF cl.conn[t] # "pending" THEN cl ELSE [ClearConnectTimer(cl) EXCEPT !.conn[t] = "failed"]
-----------------------------------------------------------------------------
(* Items: priority 0 the application, -100 a handshake, 100 a heartbeat.    *)
Item(p, n) == [prio |-> p, id |-> n]

\* Mutant: ahead of the items of the same priority.
EnqueueFirst(q, it) ==
  LET behind == {i \in DOMAIN q : q[i].prio >= it.prio} \cup {Len(q) + 1}
  IN InsertAt(q, CHOOSE i \in behind : \A j \in behind : i <= j, it)

\* The queue is sorted; the binary search finds the first item to come behind.
Enqueue(q, it) ==
  LET behind == {i \in DOMAIN q : q[i].prio > it.prio} \cup {Len(q) + 1}
  IN InsertAt(q, CHOOSE i \in behind : \A j \in behind : i <= j, it)

\* enqueueSend and enqueueSendAsync, once they have seen a live socket.
Enqueued(it) ==
  /\ queue' = Enqueue(queue, it)
  /\ pc' = IF Draining THEN pc ELSE "run"
  /\ UNCHANGED <<batch, waitsOn, out>>

(* The application. *)

UserConnect(found) ==
  /\ ~Sync /\ ~Up(c) /\ CanConnect(c, found)
  /\ c' = Connect(c, found)
  /\ UNCHANGED <<opts, sendVars>>

UserDisconnect(r, q) ==
  /\ ~Sync /\ OneOf(r, q)
  /\ c' = IF Unannounced(c) THEN HandleClose(Left(c), c.made, r, q) ELSE Disconnect(c)
  /\ UNCHANGED <<opts, sendVars>>

\* send() on a client that is not up is ignored.
UserSend ==
  /\ ~Sync /\ Up(c) /\ sends < MaxSends
  /\ sends' = sends + 1
  /\ Enqueued(Item(0, sends + 1))
  /\ UNCHANGED <<opts, c, pings>>

HeartbeatFires ==
  /\ Turn /\ c.beating /\ Up(c) /\ pings < MaxPings
  /\ pings' = pings + 1
  /\ Enqueued(Item(100, pings + 1))
  /\ UNCHANGED <<opts, c, sends>>
-----------------------------------------------------------------------------
(* Timers and microtasks. *)

ReconnectFires(found) ==
  /\ Turn /\ c.timer /\ CanConnect(c, found)
  /\ c' = Connect(ClearReconnectTimer(c), found)
  /\ UNCHANGED <<opts, sendVars>>

ConnectTimeout(t) ==
  /\ Turn /\ t \in c.armed
  /\ c' = [c EXCEPT !.armed = @ \ {t},
             !.conn[t] = IF @ = "pending" THEN "failed" ELSE @,
             !.sk[t] = IF c.conn[t] = "pending" /\ Alive(c, t) THEN "destroyed" ELSE @]
  /\ UNCHANGED <<opts, sendVars>>

\* The microtask of disconnect().
Microtask(t, r, q) ==
  /\ ~Sync /\ t \in c.micro /\ OneOf(r, q)
  /\ c' = HandleClose([c EXCEPT !.micro = @ \ {t}], t, r, q)
  /\ UNCHANGED <<opts, sendVars>>

\* enqueueHandshake() has resolved or rejected.
HandshakeSettles(t, r) ==
  /\ ~Sync /\ c.hello[t] \in {"sent", "rejected"} /\ CanReact(r)
  /\ LET known == [c EXCEPT !.hello[t] = "none"]
     IN c' = IF c.hello[t] = "sent" THEN Ready(known, t, r) ELSE Failed(known, t)
  /\ UNCHANGED <<opts, sendVars>>
-----------------------------------------------------------------------------
(* Events of the sockets. *)

\* onConnect: whatever this.socket is by now is attached and greeted.
SocketConnects(t, r) ==
  /\ Turn /\ c.sk[t] = "connecting" /\ CanReact(r)
  /\ LET open == [c EXCEPT !.sk[t] = "open"]
         on == IF c.sock # None /\ opts.framed THEN [open EXCEPT !.att = c.sock] ELSE open
     IN \/ /\ ~opts.proto
           /\ c' = Ready(on, t, r)
           /\ UNCHANGED sendVars
        \/ /\ opts.proto /\ Up(c)
           /\ c' = [on EXCEPT !.hello[t] = IF Draining THEN "sent" ELSE "drain"]
           /\ Enqueued(Item(-100, t))
           /\ UNCHANGED <<sends, pings>>
        \/ /\ opts.proto /\ ~Up(c)
           /\ c' = [on EXCEPT !.hello[t] = "sent"]
           /\ UNCHANGED sendVars
  /\ UNCHANGED opts

\* drainQueue rejects: draining stays set, and whoever awaits it is told.
Rejected(cl) == [cl EXCEPT !.hello = [t \in Tokens |-> IF @[t] = "drain" THEN "rejected" ELSE @[t]]]

(* A socket fails: 'error' comes at once, 'close' later.  The listeners of    *)
(* 'error', 'close' and 'reconnecting' call e, r and q.                       *)
SocketFails(t, e, r, q) ==
  /\ Turn /\ Alive(c, t)
  /\ OneOf(e, r) /\ OneOf(e, q) /\ OneOf(r, q)
  /\ LET told == React([c EXCEPT !.sk[t] = "destroyed"], e)
         shut == HandleClose(told, t, r, q)
         done == ScheduleReconnect(Failed(shut, t), q)
         lost == pc = "drain" /\ waitsOn = t
     IN /\ c' = IF lost THEN Rejected(done) ELSE done
        /\ pc' = IF lost THEN "dead" ELSE pc
  /\ UNCHANGED <<opts, queue, batch, waitsOn, out, sends, pings>>

\* The peer ends the connection.
PeerEnds(t) ==
  /\ Turn /\ c.sk[t] = "open"
  /\ c' = [c EXCEPT !.sk[t] = "destroyed"]
  /\ UNCHANGED <<opts, sendVars>>

\* The 'close' event of a socket that never had a handle precedes microtasks.
CloseEvent(t, r, q) ==
  /\ ~Sync /\ c.sk[t] = "destroyed" /\ OneOf(r, q)
  /\ c' = HandleClose([c EXCEPT !.sk[t] = "closed"], t, r, q)
  /\ UNCHANGED <<opts, sendVars>>
-----------------------------------------------------------------------------
(* drainQueue. *)

\* The head of the batch is handed over.  After a delay nobody looks whether
\* there is still a socket.
HandOver ==
  /\ batch' = Tail(batch)
  /\ IF opts.framed
     THEN /\ out' = Append(out, Head(batch))
          /\ pc' \in {"run"} \cup IF opts.flow /\ Alive(c, c.att) THEN {"pending"} ELSE {}
          /\ UNCHANGED <<c, waitsOn>>
     ELSE \/ /\ Up(c)
             /\ out' = Append(out, Head(batch))
             /\ pc' \in {"run", "drain"} /\ waitsOn' = c.sock
             /\ UNCHANGED c
          \/ /\ ~Up(c) /\ c.sock # None   \* a destroyed socket never drains
             /\ pc' = "drain" /\ waitsOn' = c.sock
             /\ UNCHANGED <<c, out>>
          \/ /\ c.sock = None             \* TypeError
             /\ pc' = "dead" /\ c' = Rejected(c)
             /\ UNCHANGED <<out, waitsOn>>

\* One item of the batch, which the token bucket may delay.
DrainItem ==
  /\ Sync /\ batch # <<>> /\ Up(c)
  /\ \/ HandOver
     \/ /\ opts.limiter /\ pc' = "delay"
        /\ UNCHANGED <<c, batch, waitsOn, out>>
  /\ UNCHANGED <<opts, queue, sends, pings>>

Delayed ==
  /\ Turn /\ pc = "delay"
  /\ HandOver
  /\ UNCHANGED <<opts, queue, sends, pings>>

\* Without a socket the rest of the batch is dropped.
DrainBreaks ==
  /\ Sync /\ batch # <<>> /\ ~Up(c)
  /\ batch' = <<>>
  /\ UNCHANGED <<opts, c, queue, pc, waitsOn, out, sends, pings>>

Refill ==
  /\ Sync /\ batch = <<>> /\ queue # <<>> /\ Up(c)
  /\ LET n == IF Len(queue) < BatchSize THEN Len(queue) ELSE BatchSize
     IN batch' = SubSeq(queue, 1, n) /\ queue' = SubSeq(queue, n + 1, Len(queue))
  /\ UNCHANGED <<opts, c, pc, waitsOn, out, sends, pings>>

\* Mutant: what was enqueued in the meantime waits for the next send().
FinishOnce ==
  /\ c' = [c EXCEPT !.hello = [t \in Tokens |-> IF @[t] = "drain" THEN "sent" ELSE @[t]]]
  /\ pc' = "idle"

\* Mutant: it starts over also when nothing is queued.
FinishNever ==
  /\ c' = [c EXCEPT !.hello = [t \in Tokens |-> IF @[t] = "drain" THEN "sent" ELSE @[t]]]
  /\ pc' \in IF opts.flow \/ Up(c) THEN {"run"} ELSE {"idle", "dead"}

(* The end of drainQueue, which starts over when the queue is not empty.     *)
(* With neither a socket nor an await in between, that recursion overflows   *)
(* the stack, before or after the callee has set draining.                   *)
Finish ==
  /\ c' = [c EXCEPT !.hello = [t \in Tokens |-> IF @[t] = "drain" THEN "sent" ELSE @[t]]]
  /\ pc' \in IF queue = <<>> THEN {"idle"}
             ELSE IF opts.flow \/ Up(c) THEN {"run"} ELSE {"idle", "dead"}

\* The loop ends; the flow controller's flush is awaited, be it for a tick.
LoopEnds ==
  /\ Sync /\ batch = <<>> /\ (queue = <<>> \/ ~Up(c))
  /\ IF opts.flow
     THEN /\ pc' \in {"tick"} \cup IF Alive(c, c.att) THEN {"flush"} ELSE {}
          /\ waitsOn' = c.att
          /\ UNCHANGED c
     ELSE Finish /\ UNCHANGED waitsOn
  /\ UNCHANGED <<opts, queue, batch, out, sends, pings>>

\* enqueue()'s flush settles; drainQueue catches its rejection.
PendingSettles ==
  /\ pc = "pending" /\ pc' = "run"
  /\ UNCHANGED <<opts, c, queue, batch, waitsOn, out, sends, pings>>

\* flushPending settles; nobody catches its rejection.
FlushSettles ==
  /\ pc \in {"tick", "flush"}
  /\ \/ Finish
     \/ /\ pc = "flush" /\ ~Alive(c, waitsOn)
        /\ pc' = "dead" /\ c' = Rejected(c)
  /\ UNCHANGED <<opts, queue, batch, waitsOn, out, sends, pings>>

\* The 'drain' event of the socket, unless it is lost first.
SocketDrains ==
  /\ Turn /\ pc = "drain" /\ c.sk[waitsOn] = "open"
  /\ pc' = "run"
  /\ UNCHANGED <<opts, c, queue, batch, waitsOn, out, sends, pings>>
-----------------------------------------------------------------------------
Init ==
  /\ opts \in Options
  /\ c = [sock |-> None, made |-> 0, sk |-> [t \in Tokens |-> "none"], settled |-> 0,
          byUser |-> FALSE, micro |-> {}, timer |-> FALSE, late |-> FALSE, attempts |-> 0, connectTimer |-> None,
          armed |-> {}, beating |-> FALSE, att |-> None,
          conn |-> [t \in Tokens |-> "none"], hello |-> [t \in Tokens |-> "none"],
          goodbyes |-> [t \in Tokens |-> 0], gaveUp |-> FALSE]
  /\ queue = <<>> /\ batch = <<>> /\ pc = "idle" /\ waitsOn = None
  /\ out = <<>> /\ sends = 0 /\ pings = 0

User == UserSend \/ (\E r, q \in Reactions : UserDisconnect(r, q))
        \/ \E found \in BOOLEAN : UserConnect(found)
Drain == DrainItem \/ DrainBreaks \/ Refill \/ LoopEnds
Awaited == Delayed \/ PendingSettles \/ FlushSettles \/ SocketDrains
Timers == HeartbeatFires \/ (\E found \in BOOLEAN : ReconnectFires(found))
          \/ \E t \in Tokens : ConnectTimeout(t)
Microtasks(t) == \E r, q \in Reactions : HandshakeSettles(t, r) \/ Microtask(t, r, q)
Connects(t) == \E r \in Reactions : SocketConnects(t, r)
Breaks(t) == \E e, r, q \in Reactions : SocketFails(t, e, r, q)
Closes(t) == \E r, q \in Reactions : CloseEvent(t, r, q)
\* A connection attempt comes to an end.
Answered(t) == Connects(t) \/ (c.sk[t] = "connecting" /\ Breaks(t))
Next ==
  \/ User \/ Drain \/ Awaited \/ Timers
  \/ \E t \in Tokens : Microtasks(t) \/ Connects(t) \/ Breaks(t) \/ PeerEnds(t) \/ Closes(t)

Spec == Init /\ [][Next]_vars

(* The event loop turns: a running function goes on, microtasks run, timers *)
(* fire, closed sockets say so.  A connection attempt succeeds or fails, and *)
(* a peer that keeps the connection reads.                                   *)
FairSpec ==
  /\ Spec /\ WF_vars(Drain) /\ WF_vars(Delayed) /\ WF_vars(PendingSettles)
  /\ WF_vars(FlushSettles) /\ WF_vars(SocketDrains)
  /\ WF_vars(\E found \in BOOLEAN : ReconnectFires(found))
  /\ \A t \in Tokens : /\ WF_vars(Microtasks(t)) /\ WF_vars(Answered(t))
                       /\ WF_vars(Closes(t))
-----------------------------------------------------------------------------
(* Properties. *)

ItemType == [prio : {-100, 0, 100}, id : Nat]

(* Every field and every variable keeps its type; in particular, the         *)
(* reconnect attempts never exceed reconnect.maxAttempts.                    *)
TypeOK ==
  /\ opts \in Options /\ c \in Client
  /\ queue \in Seq(ItemType) /\ batch \in Seq(ItemType) /\ out \in Seq(ItemType)
  /\ pc \in {"idle", "run", "delay", "pending", "drain", "tick", "flush", "dead"}
  /\ waitsOn \in {None} \cup Tokens
  /\ sends \in 0..MaxSends /\ pings \in 0..MaxPings

(* The end of a socket is announced at most once, although an 'error' event, *)
(* the 'close' event and the microtask of disconnect() all announce it, in   *)
(* any order and with listeners that call the client back.                   *)
CloseOnce == \A t \in Tokens : c.goodbyes[t] <= 1

(* A client that the application has closed stays closed: no socket is       *)
(* current, none is attached to the framer and no reconnect is scheduled,    *)
(* until connect() is called; unless a listener of 'reconnecting' has called *)
(* disconnect(): scheduleReconnect sets the timer all the same.              *)
StaysDown == c.byUser => c.sock = None /\ c.att = None /\ (c.timer => c.late)

(* A client that should be connected is never forgotten: it has a reconnect  *)
(* timer or a socket whose end will still be handled, unless the attempts    *)
(* are used up or the last connect() found no interface.                     *)
KeepsTrying ==
  c.made > 0 /\ ~c.byUser /\ ~c.gaveUp =>
    c.timer \/ (c.sock # None /\ c.sk[c.sock] # "closed" /\ c.sock > c.settled)

(* A socket that the framer can still write to is the client's current one,  *)
(* also when connections overlap: what is sent goes to one peer only.        *)
AttachedIsCurrent == Alive(c, c.att) => c.att = c.sock

(* Messages are handed over in the order in which they were sent and never   *)
(* twice, across drains, reconnects and lost batches; so are heartbeats.     *)
SentInOrder ==
  \A i, j \in DOMAIN out :
    i < j /\ out[i].prio = out[j].prio /\ out[i].prio >= 0 => out[i].id < out[j].id

(* On the first connection every accepted message is handed over, unless the *)
(* connection is lost: the drain that is running, or the one that follows    *)
(* it, takes what is enqueued while it waits.                                *)
FirstConnectionSends ==
  \A n \in 1..MaxSends :
    (sends >= n /\ c.made = 1 /\ Up(c)) ~>
      (\E i \in DOMAIN out : out[i] = Item(0, n)) \/ c.made # 1 \/ ~Up(c)

(* A scheduled reconnect takes place, however the drain, the heartbeat, the  *)
(* events of older sockets and the listeners interleave; unless a message is *)
(* queued meanwhile, which drainQueue without a socket goes round and round  *)
(* for, in microtasks that keep every timer from firing.                     *)
ReconnectsWhenIdle ==
  (c.timer /\ c.made < MaxSockets)
    ~> (~c.timer \/ c.made = MaxSockets \/ queue # <<>> \/ batch # <<>>)
=============================================================================
