------------------------------- MODULE KcpArq -------------------------------
(***************************************************************************)
(* The KCP transport: a KcpSession (the client, transports/kcp/            *)
(* kcp-session.ts) and the SessionState that KcpServer (kcp-server.ts)     *)
(* keeps for it, over UDP.  Each end is an ARQ sender and an ARQ receiver: *)
(* cumulative acks, a send window, a retransmission sweep on a timer and a *)
(* receive buffer that hands segments to a MuxSession in order.  The       *)
(* server echoes the payload of every data packet it receives.             *)
(*                                                                         *)
(* Time is abstracted: any transmitted segment may be overdue when a sweep *)
(* runs, any silence may be long enough for a ping or for the server to    *)
(* expire the session.  A client segment's payload is its sequence number; *)
(* an echo's payload is the payload it echoes.  A session the server does  *)
(* not have yet is a session in its initial state.                         *)
(***************************************************************************)
EXTENDS Integers, Sequences, FiniteSets

CONSTANTS
  SndWnd,        \* cfg.sndWnd
  RcvWnd,        \* cfg.rcvWnd
  InitCwnd,      \* initial congestion window (32 in the code)
  InitSsthresh,  \* initial slow-start threshold (256 in the code)
  WireMod,       \* sequence numbers are written modulo this (2^32)
  Repeats,       \* whether UDP keeps a packet it has delivered (below)
  FragCounts,    \* numbers of segments the frames given to send() are cut to
  MaxSeq,        \* bound: segments the client queues
  MaxEcho,       \* bound: echoes the server queues per session
  MaxCwnd,       \* bound: cwnd saturates here
  MaxExpiries    \* bound: times the server forgets the session

ASSUME WindowsAssumption ==
  /\ SndWnd \in Nat \ {0} /\ RcvWnd \in Nat \ {0}
  /\ InitCwnd \in Nat \ {0} /\ InitSsthresh \in Nat
  /\ WireMod \in Nat \ {0}
ASSUME FramesAssumption == FragCounts \subseteq Nat \ {0}
ASSUME NetworkAssumption == Repeats \subseteq BOOLEAN
ASSUME BoundsAssumption ==
  /\ MaxSeq \in Nat /\ MaxEcho \in Nat /\ MaxExpiries \in Nat
  /\ MaxCwnd \in Nat /\ MaxCwnd >= InitCwnd /\ MaxCwnd >= 2
\* Arithmetic the provers have no rule for: the powers Backoff divides by.
ASSUME PowersAssumption == \A n \in 0 .. MaxSeq + MaxEcho : 2^n \in Nat \ {0}

VARIABLES
  up,        \* up[e]: the process of end e runs and its socket is open
  timers,    \* the client has called connect(): its intervals are running
  sndNxt,    \* sndNxt[e]: next sequence number to assign (nextSeq / sndNxt)
  sndUna,    \* sndUna[e]: lowest unacknowledged sequence number
  pending,   \* pending[e]: the keys of the pending map
  sent,      \* sent[e]: the pending segments that have been transmitted
  cwnd,      \* cwnd[e]: congestion window
  ssthresh,  \* ssthresh[e]: slow-start threshold
  rcvNxt,    \* rcvNxt[e]: next sequence number expected
  recvBuf,   \* recvBuf[e]: sequence number -> payload, buffered out of order
  dlv,       \* dlv[e]: payloads the end's mux has received, in order
  echo,      \* payloads of the server's segments: segment s carries echo[s]
  decodes,   \* payloads that MuxFramer.decode accepts
  net,       \* packets in flight
  expiries,  \* times the server has expired the session
  everDlv    \* history: payloads received by the mux of any server session

sndVars == <<sndNxt, sndUna, pending, sent, cwnd, ssthresh>>
rcvVars == <<rcvNxt, recvBuf, dlv>>
vars == <<up, timers, sndVars, rcvVars, echo, decodes, net, expiries, everDlv>>

Ends == {"cli", "srv"}
Peer(e) == IF e = "cli" THEN "srv" ELSE "cli"

Min2(a, b) == IF a <= b THEN a ELSE b
Max2(a, b) == IF a >= b THEN a ELSE b
-----------------------------------------------------------------------------
(* Packets.  The wire header holds 32-bit unsigned numbers. *)

Wire(n) == n % WireMod

Data(to, seq, pay) == [to |-> to, type |-> "data", seq |-> Wire(seq), pay |-> pay]
\* Mutant: acknowledges the segment the receiver is waiting for.
AckExpected(to, ack) == [to |-> to, type |-> "ack", ack |-> Wire(ack + 1)]
Ack(to, ack) == [to |-> to, type |-> "ack", ack |-> Wire(ack)]
Ping(to) == [to |-> to, type |-> "ping"]

\* Mutant: a retransmission carries the newest echo.
PayloadNewest(e, s, echoes) == IF e = "cli" THEN s ELSE echoes[Len(echoes)]

\* The payload that end e's segment s carries, given the server's echoes.
Payload(e, s, echoes) == IF e = "cli" THEN s ELSE echoes[s]

DataPackets(e, segs, echoes) ==
  {Data(Peer(e), s, Payload(e, s, echoes)) : s \in segs}

-----------------------------------------------------------------------------
(* The send window. *)

InFlight(una, snt) == {s \in snt : s >= una}

\* drainSendWindow: the never transmitted segments it transmits, lowest first.
Burst(una, pend, snt, cw) ==
  LET budget == Max2(0, Min2(SndWnd, cw) - Cardinality(InFlight(una, snt)))
      fresh  == {s \in pend \ snt : s >= una}
  IN  {s \in fresh : Cardinality({t \in fresh : t < s}) < budget}

\* Mutant: no lower limit.
BackoffToZero(cw, n) == cw \div 2^n

\* n timeouts in one sweep: each halves the window, never below 2.
Backoff(cw, n) == Max2(2, cw \div 2^n)

\* AIMD growth of a KcpSession for n newly acknowledged segments.
SessionGrowth(cw, thresh, n) ==
  IF n = 0 THEN cw
  ELSE IF cw < thresh THEN cw + n
  ELSE cw + Max2(1, n \div Max2(1, cw))

\* KcpServer grows the window by one on every ack, a repeated one too.
ServerGrowth(cw) == cw + 1

AckGrowth(e, cw, thresh, n) ==
  Min2(MaxCwnd, IF e = "cli" THEN SessionGrowth(cw, thresh, n) ELSE ServerGrowth(cw))

\* End e queues the segments `new` and drains its window into the network.
QueueAndDrain(e, new, echoes, network) ==
  LET pend  == pending[e] \cup new
      burst == Burst(sndUna[e], pend, sent[e], cwnd[e])
  IN  /\ sndNxt' = [sndNxt EXCEPT ![e] = @ + Cardinality(new)]
      /\ pending' = [pending EXCEPT ![e] = pend]
      /\ sent' = [sent EXCEPT ![e] = @ \cup burst]
      /\ net' = network \cup DataPackets(e, burst, echoes)
      /\ UNCHANGED <<sndUna, cwnd, ssthresh>>

-----------------------------------------------------------------------------
Init ==
  /\ up = [e \in Ends |-> TRUE] /\ timers = FALSE
  /\ sndNxt = [e \in Ends |-> 1] /\ sndUna = [e \in Ends |-> 1]
  /\ pending = [e \in Ends |-> {}] /\ sent = [e \in Ends |-> {}]
  /\ cwnd = [e \in Ends |-> InitCwnd]
  /\ ssthresh = [e \in Ends |-> InitSsthresh]
  /\ rcvNxt = [e \in Ends |-> 1]
  /\ recvBuf = [e \in Ends |-> <<>>] /\ dlv = [e \in Ends |-> <<>>]
  /\ echo = <<>> /\ decodes = {} /\ net = {}
  /\ expiries = 0 /\ everDlv = {}

(* KcpSession.connect: start the keepalive and the retransmission sweep. *)
ClientConnect ==
  /\ up["cli"] /\ ~timers
  /\ timers' = TRUE
  /\ UNCHANGED <<up, sndVars, rcvVars, echo, decodes, net, expiries, everDlv>>

(* KcpSession.send of a frame cut to k segments.  The first of several      *)
(* announces more bytes than it holds, so it never decodes; the later ones  *)
(* are bytes from the middle of the frame, which may or may not.            *)
ClientSend(k, ok) ==
  LET new == sndNxt["cli"] .. sndNxt["cli"] + k - 1 IN
  /\ up["cli"] /\ sndNxt["cli"] + k - 1 <= MaxSeq
  /\ ok \subseteq new
  /\ sndNxt["cli"] \in ok <=> k = 1
  /\ decodes' = decodes \cup ok
  /\ QueueAndDrain("cli", new, echo, net)
  /\ UNCHANGED <<up, timers, rcvVars, echo, expiries, everDlv>>

(* The keepalive interval finds no activity. *)
ClientPing ==
  /\ up["cli"] /\ timers
  /\ net' = net \cup {Ping("srv")}
  /\ UNCHANGED <<up, timers, sndVars, rcvVars, echo, decodes, expiries, everDlv>>

(* KcpSession.close and KcpServer.stop. *)
Close(e) ==
  /\ up[e]
  /\ up' = [up EXCEPT ![e] = FALSE]
  /\ timers' = (timers /\ e = "srv")
  /\ UNCHANGED <<sndVars, rcvVars, echo, decodes, net, expiries, everDlv>>

-----------------------------------------------------------------------------
(* Receiving a data packet. *)

\* Mutants: each end of the receive window off by one.
InWindowOver(nxt, seq) == seq >= nxt /\ seq <= nxt + RcvWnd
InWindowStrict(nxt, seq) == seq > nxt /\ seq < nxt + RcvWnd

InWindow(nxt, seq) == seq >= nxt /\ seq < nxt + RcvWnd

Put(buf, seq, pay) ==
  [s \in DOMAIN buf \cup {seq} |-> IF s = seq THEN pay ELSE buf[s]]

Drop(buf, segs) == [s \in DOMAIN buf \ segs |-> buf[s]]

\* The receive loop started at nxt hands nxt .. n - 1 to the mux and stops at
\* n: n is missing, or it is there and the mux rejects it.
StopsAt(buf, nxt, n) ==
  /\ n \in nxt .. nxt + RcvWnd
  /\ \A s \in nxt .. n - 1 : s \in DOMAIN buf /\ buf[s] \in decodes
  /\ ~ (n \in DOMAIN buf /\ buf[n] \in decodes)

\* The payloads of segments nxt .. n - 1.
Run(buf, nxt, n) == [i \in 1 .. n - nxt |-> buf[nxt + i - 1]]

\* UDP loses, repeats and reorders.  With Repeats = {TRUE} a packet once sent
\* may arrive at any time, any number of times or never; with FALSE in Repeats
\* it can also leave the network, so that it must be sent again to arrive.
After(p, again) == IF again THEN net ELSE net \ {p}

\* Mutant: files the packet under the expected number instead of its own.
BufferedAsNext(e, p) ==
  IF InWindow(rcvNxt[e], p.seq) THEN Put(recvBuf[e], rcvNxt[e], p.pay) ELSE recvBuf[e]

\* The receive buffer of e once p is in it.
Buffered(e, p) ==
  IF InWindow(rcvNxt[e], p.seq) THEN Put(recvBuf[e], p.seq, p.pay) ELSE recvBuf[e]

\* End e buffers the data packet p and runs the receive loop up to n.
Accept(e, p, n) ==
  LET buf == Buffered(e, p)
      got == Run(buf, rcvNxt[e], n)
  IN  /\ up[e] /\ p \in net /\ p.to = e /\ p.type = "data"
      /\ StopsAt(buf, rcvNxt[e], n)
      /\ rcvNxt' = [rcvNxt EXCEPT ![e] = n]
      /\ recvBuf' = [recvBuf EXCEPT ![e] = Drop(buf, rcvNxt[e] .. n)]
      /\ dlv' = [dlv EXCEPT ![e] = @ \o got]
      /\ everDlv' = everDlv \cup
                     IF e = "srv" THEN {got[i] : i \in DOMAIN got} ELSE {}

(* KcpSession.handleIncoming of a data packet: buffer, deliver, always ack. *)
ClientData(p, n, again) ==
  /\ Accept("cli", p, n)
  /\ n \notin DOMAIN Buffered("cli", p)
  /\ net' = After(p, again) \cup {Ack("srv", n - 1)}
  /\ UNCHANGED <<up, timers, sndVars, echo, decodes, expiries>>

(* KcpServer.handlePacket of a data packet: the same, then queue an echo of *)
(* the packet, a repeated one too, and drain.                               *)
ServerData(p, n, again) ==
  LET new == IF Len(echo) < MaxEcho THEN {sndNxt["srv"]} ELSE {} IN
  /\ Accept("srv", p, n)
  /\ n \notin DOMAIN Buffered("srv", p)
  /\ echo' = IF new = {} THEN echo ELSE Append(echo, p.pay)
  /\ QueueAndDrain("srv", new, echo', After(p, again) \cup {Ack("cli", n - 1)})
  /\ UNCHANGED <<up, timers, decodes, expiries>>

(* The mux rejects segment n: receiveRaw throws out of the handler before   *)
(* rcvNxt += 1, the ack and the echo.  The segment has left recvBuf.  The   *)
(* exception is uncaught: the process ends, unless the host catches it.     *)
DataThrows(e, p, n, again, survives) ==
  /\ Accept(e, p, n)
  /\ n \in DOMAIN Buffered(e, p)
  /\ net' = After(p, again)
  /\ up' = [up EXCEPT ![e] = survives]
  /\ timers' = (timers /\ (survives \/ e = "srv"))
  /\ UNCHANGED <<sndVars, echo, decodes, expiries>>

(* An ack: forget what it covers and grow the window.  Nothing is sent: the *)
(* room it makes is used by the next send or the next sweep.                *)
ReceiveAck(e, p, again) ==
  LET acked == {s \in pending[e] : s <= p.ack} IN
  /\ up[e] /\ p \in net /\ p.to = e /\ p.type = "ack"
  /\ pending' = [pending EXCEPT ![e] = @ \ acked]
  /\ sent' = [sent EXCEPT ![e] = @ \ acked]
  /\ sndUna' = [sndUna EXCEPT ![e] = Max2(@, p.ack + 1)]
  /\ cwnd' = [cwnd EXCEPT ![e] = AckGrowth(e, @, ssthresh[e], Cardinality(acked))]
  /\ net' = After(p, again)
  /\ UNCHANGED <<up, timers, sndNxt, ssthresh, rcvVars, echo, decodes, expiries, everDlv>>

(* A ping is answered with the cumulative ack. *)
ReceivePing(p, again) ==
  /\ up["srv"] /\ p \in net /\ p.type = "ping"
  /\ net' = After(p, again) \cup {Ack("cli", rcvNxt["srv"] - 1)}
  /\ UNCHANGED <<up, timers, sndVars, rcvVars, echo, decodes, expiries, everDlv>>

(* The retransmission sweep of a KcpSession, KcpServer.tick of a session:   *)
(* drain, then transmit again every overdue segment, backing off for each.  *)
Sweep(e, overdue) ==
  LET burst == Burst(sndUna[e], pending[e], sent[e], cwnd[e])
      n     == Cardinality(overdue)
      cw    == Backoff(cwnd[e], n)
  IN  /\ up[e] /\ (e = "srv" \/ timers)
      /\ overdue \subseteq InFlight(sndUna[e], sent[e])
      /\ sent' = [sent EXCEPT ![e] = @ \cup burst]
      /\ net' = net \cup DataPackets(e, burst \cup overdue, echo)
      /\ cwnd' = IF n = 0 THEN cwnd ELSE [cwnd EXCEPT ![e] = cw]
      /\ ssthresh' = IF n = 0 THEN ssthresh ELSE [ssthresh EXCEPT ![e] = cw]
      /\ UNCHANGED <<up, timers, sndNxt, sndUna, pending, rcvVars, echo, decodes,
                     expiries, everDlv>>

(* KcpServer.tick finds the session idle for 30 s and deletes it.  The next *)
(* packet starts a new one, with a new mux.                                 *)
ServerExpire ==
  /\ up["srv"] /\ expiries < MaxExpiries
  /\ expiries' = expiries + 1
  /\ sndNxt' = [sndNxt EXCEPT !["srv"] = 1]
  /\ sndUna' = [sndUna EXCEPT !["srv"] = 1]
  /\ pending' = [pending EXCEPT !["srv"] = {}]
  /\ sent' = [sent EXCEPT !["srv"] = {}]
  /\ cwnd' = [cwnd EXCEPT !["srv"] = InitCwnd]
  /\ ssthresh' = [ssthresh EXCEPT !["srv"] = InitSsthresh]
  /\ rcvNxt' = [rcvNxt EXCEPT !["srv"] = 1]
  /\ recvBuf' = [recvBuf EXCEPT !["srv"] = <<>>]
  /\ dlv' = [dlv EXCEPT !["srv"] = <<>>]
  /\ echo' = <<>>
  /\ UNCHANGED <<up, timers, decodes, net, everDlv>>

(* UDP loses a packet. *)
Lose(p) ==
  /\ p \in net /\ FALSE \in Repeats
  /\ net' = net \ {p}
  /\ UNCHANGED <<up, timers, sndVars, rcvVars, echo, decodes, expiries, everDlv>>
-----------------------------------------------------------------------------
\* The data loop of end e takes p, whatever it does with it.
ReceiveData(e, p) ==
  \E n \in rcvNxt[e] .. rcvNxt[e] + RcvWnd, again \in Repeats :
    \/ e = "cli" /\ ClientData(p, n, again)
    \/ e = "srv" /\ ServerData(p, n, again)
    \/ \E survives \in BOOLEAN : DataThrows(e, p, n, again, survives)

Receive(p) ==
  \/ \E e \in Ends : ReceiveData(e, p)
  \/ \E e \in Ends, again \in Repeats : ReceiveAck(e, p, again)
  \/ \E again \in Repeats : ReceivePing(p, again)

Next ==
  \/ ClientConnect
  \/ \E k \in FragCounts : \E ok \in SUBSET (sndNxt["cli"] .. sndNxt["cli"] + k - 1) :
       ClientSend(k, ok)
  \/ ClientPing
  \/ \E e \in Ends : Close(e)
  \/ \E p \in net : Receive(p)
  \/ \E e \in Ends : \E overdue \in SUBSET sent[e] : Sweep(e, overdue)
  \/ ServerExpire
  \/ \E p \in net : Lose(p)

Spec == Init /\ [][Next]_vars

(* Fairness.  The sweep's interval fires for ever and every unacknowledged  *)
(* segment outlives its RTO, which the code caps at MAX_RTO_MS.  UDP loses, *)
(* repeats and reorders, but a packet sent again and again gets through.    *)
FairSweep ==
  /\ WF_vars(\E overdue \in SUBSET sent["cli"] : Sweep("cli", overdue))
  /\ \A s \in 1 .. MaxSeq :
       WF_vars(\E overdue \in SUBSET sent["cli"] : s \in overdue /\ Sweep("cli", overdue))

FairNet ==
  /\ \A s \in 1 .. MaxSeq : SF_vars(Receive(Data("srv", s, s)))
  /\ \A a \in 0 .. MaxSeq : SF_vars(Receive(Ack("cli", a)))

FairSpec == Spec /\ FairSweep /\ FairNet
-----------------------------------------------------------------------------
Packets ==
  [to : Ends, type : {"data"}, seq : Nat, pay : Nat]
    \cup [to : Ends, type : {"ack"}, ack : Nat]
    \cup [to : Ends, type : {"ping"}]

(* The type of every variable.  Numbers start at 1, a congestion window is  *)
(* never 0 (kcp-session.ts and kcp-server.ts back off to no less than 2).   *)
TypeOK ==
  /\ up \in [Ends -> BOOLEAN] /\ timers \in BOOLEAN
  /\ sndNxt \in [Ends -> Nat \ {0}] /\ sndUna \in [Ends -> Nat \ {0}]
  /\ pending \in [Ends -> SUBSET (Nat \ {0})]
  /\ sent \in [Ends -> SUBSET (Nat \ {0})]
  /\ cwnd \in [Ends -> Nat \ {0}] /\ ssthresh \in [Ends -> Nat]
  /\ rcvNxt \in [Ends -> Nat \ {0}]
  /\ DOMAIN recvBuf = Ends
  /\ \A e \in Ends : /\ DOMAIN recvBuf[e] \subseteq Nat
                      /\ recvBuf[e] \in [DOMAIN recvBuf[e] -> Nat]
  /\ dlv \in [Ends -> Seq(Nat)] /\ echo \in Seq(Nat) /\ decodes \subseteq Nat
  /\ net \subseteq Packets /\ expiries \in Nat /\ everDlv \subseteq Nat

\* No segment of the client can be taken for another.  A segment whose number
\* does not fit the wire has the wire number of an earlier one: a session that
\* is past that one ignores it (windows are smaller than the wire's range), one
\* that follows an expired session may be waiting for it.
NoAlias == expiries = 0 \/ sndNxt["cli"] - 1 <= WireMod

\* What the mux of the server's session has got are segments 1, 2, 3, ...
DeliveredInOrder == dlv["srv"] = [i \in 1 .. rcvNxt["srv"] - 1 |-> i]

(* The server's mux gets the client's segments in order, none missing and   *)
(* none twice, whatever the network loses, repeats or reorders and wherever *)
(* the receive loop is cut short by an exception.  Numbers may outgrow the  *)
(* wire as long as the server has the session it started with.              *)
InOrderDelivery == NoAlias => DeliveredInOrder

(* A segment the client has dropped from its pending map has been given to  *)
(* the mux of some server session: an ack never covers a segment that was   *)
(* only buffered, was rejected by the mux, or was never received.           *)
AckedWasDelivered ==
  \A s \in 1 .. sndNxt["cli"] - 1 : s \in pending["cli"] \/ s \in everDlv

(* Until the server forgets the session, the client's mux gets what the     *)
(* server queued as echoes, in the order it queued them.                    *)
EchoInOrder ==
  expiries = 0 =>
    /\ Len(dlv["cli"]) <= Len(echo)
    /\ \A i \in 1 .. Len(dlv["cli"]) : dlv["cli"][i] = echo[i]

(* No sender has more than sndWnd segments in flight, and no receive buffer *)
(* holds a segment outside the rcvWnd - 1 numbers after the expected one.   *)
WindowsRespected ==
  \A e \in Ends :
    /\ Cardinality(InFlight(sndUna[e], sent[e])) <= SndWnd
    /\ DOMAIN recvBuf[e] \subseteq rcvNxt[e] + 1 .. rcvNxt[e] + RcvWnd - 1

(* No segment waits in a pending map below sndUna, where neither drain nor  *)
(* the sweep would ever look at it.  A server session that follows an       *)
(* expired one is exempt: old acks of the client can push its sndUna ahead. *)
NoneStranded ==
  \A e \in Ends :
    (e = "cli" \/ expiries = 0) => \A s \in pending[e] : s >= sndUna[e]

(* Seen from the client's user and the server's mux, the transport is a     *)
(* reliable channel: every step up to the first ambiguous sequence number   *)
(* is a step of ReliableChannel, or leaves its variables as they are.       *)
Channel == INSTANCE ReliableChannel WITH
  offered <- sndNxt["cli"] - 1, got <- dlv["srv"],
  ever <- everDlv, confirmed <- sndUna["cli"] - 1

ImplementsChannel ==
  Channel!Init /\ [][NoAlias' => Channel!Next]_(Channel!vars)

(* A segment queued by a connected client reaches the server's mux, unless  *)
(* one of the two processes stops.                                          *)
QueuedIsDelivered ==
  \A s \in 1 .. MaxSeq :
    (timers /\ s \in pending["cli"])
      ~> (s \in everDlv \/ ~up["cli"] \/ ~up["srv"])
=============================================================================
