---------------------------- MODULE KcpArqProofs ----------------------------
(***************************************************************************)
(* Proofs about KcpArq, for every window, every number of segments, echoes *)
(* and expiries, and every frame size, as long as the sequence numbers fit *)
(* the wire.  IInv is the inductive invariant: it says what every packet   *)
(* in flight and every buffered segment means.                             *)
(***************************************************************************)
EXTENDS KcpArq, FiniteSetTheorems, TLAPS

\* Sequence numbers fit the wire.
NoWrap == MaxSeq < WireMod /\ MaxEcho < WireMod

\* Pending segments have been numbered, and only pending ones are in flight.
SegmentsNumbered ==
  \A e \in Ends : pending[e] \subseteq 1 .. sndNxt[e] - 1 /\ sent[e] \subseteq pending[e]

\* Every number assigned is within its bound, and every echo has a number.
NumbersBounded ==
  /\ sndNxt["cli"] - 1 <= MaxSeq
  /\ sndNxt["srv"] - 1 = Len(echo) /\ Len(echo) <= MaxEcho

\* A data packet to the server carries the segment whose number it bears.
DataTrue ==
  \A p \in net : p.type = "data" /\ p.to = "srv" =>
    p.pay = p.seq /\ p.seq \in 1 .. sndNxt["cli"] - 1

\* What an ack to the client covers has been delivered.
AcksTrue ==
  \A p \in net : p.type = "ack" /\ p.to = "cli" => 1 .. p.ack \subseteq everDlv

\* A buffered segment is the one its number says, inside the window.
BufferTrue ==
  /\ \A s \in DOMAIN recvBuf["srv"] :
       recvBuf["srv"][s] = s /\ s \in 1 .. sndNxt["cli"] - 1
  /\ \A e \in Ends :
       DOMAIN recvBuf[e] \subseteq rcvNxt[e] + 1 .. rcvNxt[e] + RcvWnd - 1

\* Only queued segments are delivered; the client's sndUna is true.
DeliveredTrue ==
  /\ 1 .. rcvNxt["srv"] - 1 \subseteq everDlv
  /\ everDlv \subseteq 1 .. sndNxt["cli"] - 1
  /\ 1 .. sndUna["cli"] - 1 \subseteq everDlv
  /\ \A s \in pending["cli"] : s >= sndUna["cli"]

IInv ==
  /\ TypeOK /\ SegmentsNumbered /\ NumbersBounded
  /\ DataTrue /\ AcksTrue /\ BufferTrue /\ DeliveredTrue
  /\ DeliveredInOrder /\ AckedWasDelivered
-----------------------------------------------------------------------------
(* The operators the actions are made of. *)

LEMMA WireType == ASSUME NEW n \in Nat PROVE Wire(n) \in Nat
  BY WindowsAssumption DEF Wire

LEMMA WireExact == ASSUME NEW n \in Nat, n < WireMod PROVE Wire(n) = n
  BY WindowsAssumption DEF Wire

LEMMA PacketTypes ==
  ASSUME NEW to \in Ends, NEW n \in Nat, NEW pay \in Nat
  PROVE  /\ Data(to, n, pay) \in Packets
         /\ Ack(to, n) \in Packets
         /\ Ping(to) \in Packets
  BY WireType DEF Data, Ack, Ping, Packets

LEMMA PacketFields ==
  ASSUME NEW p \in Packets
  PROVE  /\ p.to \in Ends
         /\ p.type = "data" => p.seq \in Nat /\ p.pay \in Nat
         /\ p.type = "ack" => p.ack \in Nat
  BY DEF Packets

\* The data packets of each end, and what they carry.
LEMMA ClientPackets ==
  ASSUME NoWrap, NEW segs \in SUBSET (1 .. MaxSeq), NEW echoes,
         NEW p \in DataPackets("cli", segs, echoes)
  PROVE  /\ p \in Packets /\ p.type = "data" /\ p.to = "srv"
         /\ p.seq \in segs /\ p.pay = p.seq
  <1>1. PICK s \in segs : p = Data("srv", s, s)
    BY DEF DataPackets, Payload, Peer
  <1>2. s \in Nat /\ s < WireMod
    BY WindowsAssumption, BoundsAssumption DEF NoWrap
  <1>3. "srv" \in Ends
    BY DEF Ends
  <1>4. p \in Packets
    BY <1>1, <1>2, <1>3, PacketTypes
  <1>5. Wire(s) = s
    BY <1>2, WireExact
  <1>6. QED
    BY <1>1, <1>4, <1>5 DEF Data

LEMMA ServerPackets ==
  ASSUME NoWrap, NEW echoes \in Seq(Nat), Len(echoes) <= MaxEcho,
         NEW segs \in SUBSET (1 .. Len(echoes)),
         NEW p \in DataPackets("srv", segs, echoes)
  PROVE  /\ p \in Packets /\ p.type = "data" /\ p.to = "cli"
         /\ p.seq \in segs /\ p.pay = echoes[p.seq]
  <1>1. PICK s \in segs : p = Data("cli", s, echoes[s])
    BY DEF DataPackets, Payload, Peer
  <1>2. s \in Nat /\ s < WireMod /\ echoes[s] \in Nat
    BY WindowsAssumption, BoundsAssumption DEF NoWrap
  <1>3. "cli" \in Ends
    BY DEF Ends
  <1>4. p \in Packets
    BY <1>1, <1>2, <1>3, PacketTypes
  <1>5. Wire(s) = s
    BY <1>2, WireExact
  <1>6. QED
    BY <1>1, <1>4, <1>5 DEF Data

LEMMA BurstIsPending ==
  ASSUME NEW una, NEW pend, NEW snt, NEW cw
  PROVE  Burst(una, pend, snt, cw) \subseteq pend
  BY DEF Burst

LEMMA BackoffType ==
  ASSUME NEW cw \in Nat, NEW n \in 0 .. MaxSeq + MaxEcho
  PROVE  Backoff(cw, n) \in Nat \ {0}
  <1>1. 2^n \in Nat \ {0}
    BY PowersAssumption
  <1>2. ASSUME NEW m \in Nat \ {0} PROVE cw \div m \in Nat
    OBVIOUS
  <1>3. cw \div 2^n \in Nat
    BY <1>1, <1>2
  <1>4. QED
    BY <1>3 DEF Backoff, Max2

LEMMA AckGrowthType ==
  ASSUME NEW e \in Ends, NEW cw \in Nat \ {0}, NEW thresh \in Nat, NEW n \in Nat
  PROVE  AckGrowth(e, cw, thresh, n) \in Nat \ {0}
  BY BoundsAssumption DEF AckGrowth, SessionGrowth, ServerGrowth, Min2, Max2

LEMMA FinitePending ==
  ASSUME TypeOK, SegmentsNumbered, NEW e \in Ends
  PROVE  IsFiniteSet(pending[e]) /\ IsFiniteSet(sent[e])
  <1>1. sndNxt[e] \in Nat \ {0}
    BY DEF TypeOK
  <1>2. IsFiniteSet(1 .. sndNxt[e] - 1)
    BY <1>1, FS_Interval
  <1>3. QED
    BY <1>2, FS_Subset DEF SegmentsNumbered

\* A sweep backs off at most once for every numbered segment.
LEMMA OverdueCount ==
  ASSUME TypeOK, SegmentsNumbered, NumbersBounded, NEW e \in Ends,
         NEW overdue \in SUBSET sent[e]
  PROVE  Cardinality(overdue) \in 0 .. MaxSeq + MaxEcho
  <1>1. sndNxt[e] \in Nat \ {0}
    BY DEF TypeOK
  <1>2. /\ IsFiniteSet(1 .. sndNxt[e] - 1)
        /\ Cardinality(1 .. sndNxt[e] - 1) = sndNxt[e] - 1
    <2>1. PICK m \in Nat : m = sndNxt[e] - 1
      BY <1>1
    <2>2. /\ IsFiniteSet(1 .. m)
          /\ Cardinality(1 .. m) = IF 1 > m THEN 0 ELSE m - 1 + 1
      BY FS_Interval, 1 \in Int, m \in Int, Zenon
    <2>3. QED
      BY <2>1, <2>2
  <1>3. overdue \subseteq 1 .. sndNxt[e] - 1
    BY DEF SegmentsNumbered
  <1>4. Cardinality(overdue) \in Nat /\ Cardinality(overdue) <= sndNxt[e] - 1
    BY <1>1, <1>2, <1>3, FS_Subset, FS_CardinalityType
  <1>5. sndNxt[e] - 1 <= MaxSeq + MaxEcho
    <2>1. /\ sndNxt["cli"] - 1 <= MaxSeq
          /\ sndNxt["srv"] - 1 <= MaxEcho
      BY DEF NumbersBounded
    <2>2. e = "cli" \/ e = "srv"
      BY DEF Ends
    <2>3. QED
      BY <1>1, <2>1, <2>2, BoundsAssumption
  <1>6. QED
    BY <1>1, <1>4, <1>5, BoundsAssumption
-----------------------------------------------------------------------------
(* Every action keeps IInv. *)

\* The server's position is one the client has reached.
LEMMA ReceiverBehind ==
  ASSUME IInv
  PROVE  /\ rcvNxt["srv"] \in Nat \ {0} /\ sndNxt["cli"] \in Nat \ {0}
         /\ rcvNxt["srv"] - 1 <= sndNxt["cli"] - 1
         /\ sndNxt["cli"] - 1 <= MaxSeq
         /\ NoWrap => Wire(rcvNxt["srv"] - 1) = rcvNxt["srv"] - 1
  <1>1. rcvNxt["srv"] \in Nat \ {0} /\ sndNxt["cli"] \in Nat \ {0}
    BY DEF IInv, TypeOK, Ends
  <1>2. 1 .. rcvNxt["srv"] - 1 \subseteq 1 .. sndNxt["cli"] - 1
    BY DEF IInv, DeliveredTrue
  <1>3. rcvNxt["srv"] - 1 <= sndNxt["cli"] - 1
    <2>1. CASE rcvNxt["srv"] = 1
      BY <1>1, <2>1
    <2>2. CASE rcvNxt["srv"] # 1
      <3>1. rcvNxt["srv"] - 1 \in 1 .. rcvNxt["srv"] - 1
        BY <1>1, <2>2
      <3>2. QED
        BY <3>1, <1>1, <1>2
    <2>3. QED
      BY <2>1, <2>2
  <1>4. sndNxt["cli"] - 1 <= MaxSeq
    BY DEF IInv, NumbersBounded
  <1>5. NoWrap => Wire(rcvNxt["srv"] - 1) = rcvNxt["srv"] - 1
    BY <1>1, <1>3, <1>4, WireExact, WindowsAssumption, BoundsAssumption DEF NoWrap
  <1>6. QED
    BY <1>1, <1>3, <1>4, <1>5

\* Actions that leave alone all that IInv speaks of but the network.
LEMMA NetworkOnly ==
  ASSUME IInv, NoWrap, UNCHANGED <<sndVars, rcvVars, echo, decodes, expiries, everDlv>>,
         up' \in [Ends -> BOOLEAN], timers' \in BOOLEAN,
         \A p \in net' \ net : \/ p = Ping("srv")
                              \/ p = Ack("cli", rcvNxt["srv"] - 1)
  PROVE  IInv'
  <1>1. ASSUME NEW p \in net' \ net PROVE p \in Packets
    <2>1. rcvNxt["srv"] - 1 \in Nat
      BY ReceiverBehind
    <2>2. "cli" \in Ends /\ "srv" \in Ends
      BY DEF Ends
    <2>3. Ping("srv") \in Packets /\ Ack("cli", rcvNxt["srv"] - 1) \in Packets
      BY <2>1, <2>2, PacketTypes
    <2>4. QED
      BY <1>1, <2>3
  <1>2. TypeOK'
    BY <1>1 DEF IInv, TypeOK, sndVars, rcvVars
  <1>3. DataTrue'
    BY DEF IInv, DataTrue, Ping, Ack, sndVars
  <1>4. AcksTrue'
    BY ReceiverBehind DEF IInv, AcksTrue, DeliveredTrue, Ping, Ack, rcvVars
  <1>5. (SegmentsNumbered /\ NumbersBounded /\ BufferTrue /\ DeliveredTrue)'
    BY DEF IInv, SegmentsNumbered, NumbersBounded, BufferTrue, DeliveredTrue,
           sndVars, rcvVars
  <1>6. (DeliveredInOrder /\ AckedWasDelivered)'
    BY DEF IInv, DeliveredInOrder, AckedWasDelivered, sndVars, rcvVars
  <1>7. QED
    BY <1>2, <1>3, <1>4, <1>5, <1>6 DEF IInv

LEMMA ConnectKeeps == ASSUME IInv, NoWrap, ClientConnect PROVE IInv'
  BY NetworkOnly DEF ClientConnect, IInv, TypeOK

LEMMA PingKeeps == ASSUME IInv, NoWrap, ClientPing PROVE IInv'
  <1>1. up' \in [Ends -> BOOLEAN] /\ timers' \in BOOLEAN
    BY DEF ClientPing, IInv, TypeOK
  <1>2. \A p \in net' \ net : \/ p = Ping("srv")
                              \/ p = Ack("cli", rcvNxt["srv"] - 1)
    BY DEF ClientPing
  <1>3. UNCHANGED <<sndVars, rcvVars, echo, decodes, expiries, everDlv>>
    BY DEF ClientPing
  <1>4. QED
    BY <1>1, <1>2, <1>3, NetworkOnly

LEMMA CloseKeeps == ASSUME IInv, NoWrap, NEW e \in Ends, Close(e) PROVE IInv'
  <1>1. up' \in [Ends -> BOOLEAN]
    BY DEF Close, IInv, TypeOK
  <1>2. timers' \in BOOLEAN
    BY Zenon DEF Close, IInv, TypeOK
  <1>3. QED
    BY <1>1, <1>2, NetworkOnly DEF Close

LEMMA LoseKeeps == ASSUME IInv, NoWrap, NEW p, Lose(p) PROVE IInv'
  BY NetworkOnly DEF Lose, IInv, TypeOK

LEMMA ReceivePingKeeps ==
  ASSUME IInv, NoWrap, NEW p, NEW again, ReceivePing(p, again) PROVE IInv'
  BY NetworkOnly DEF ReceivePing, After, IInv, TypeOK

LEMMA SendKeeps ==
  ASSUME IInv, NoWrap, NEW k \in FragCounts, NEW ok, ClientSend(k, ok)
  PROVE  IInv'
  <1> DEFINE a == sndNxt["cli"]
             b == a + k - 1
             new == a .. b
             pend == pending["cli"] \cup new
             burst == Burst(sndUna["cli"], pend, sent["cli"], cwnd["cli"])
  <1>1. /\ sndNxt \in [Ends -> Nat \ {0}] /\ sndUna \in [Ends -> Nat \ {0}]
        /\ pending \in [Ends -> SUBSET (Nat \ {0})]
        /\ sent \in [Ends -> SUBSET (Nat \ {0})]
        /\ decodes \subseteq Nat /\ net \subseteq Packets
        /\ "cli" \in Ends /\ "srv" \in Ends
    BY DEF IInv, TypeOK, Ends
  <1>2. a \in Nat \ {0} /\ k \in Nat \ {0} /\ b <= MaxSeq /\ b = a + k - 1
    BY <1>1, FramesAssumption DEF ClientSend
  <1>3. /\ sndNxt' = [sndNxt EXCEPT !["cli"] = a + Cardinality(new)]
        /\ pending' = [pending EXCEPT !["cli"] = pend]
        /\ sent' = [sent EXCEPT !["cli"] = @ \cup burst]
        /\ net' = net \cup DataPackets("cli", burst, echo)
        /\ UNCHANGED <<sndUna, cwnd, ssthresh>>
    BY DEF ClientSend, QueueAndDrain
  <1>4. /\ decodes' = decodes \cup ok /\ ok \subseteq new
        /\ UNCHANGED <<up, timers, rcvVars, echo, expiries, everDlv>>
    BY DEF ClientSend
  <1>5. burst \subseteq pend
    BY BurstIsPending
  <1>6. pend = pending["cli"] \cup new /\ new = a .. b
    OBVIOUS
  <1>7. /\ pending["cli"] \subseteq 1 .. a - 1 /\ sent["cli"] \subseteq pending["cli"]
        /\ pending["srv"] \subseteq 1 .. sndNxt["srv"] - 1
        /\ sent["srv"] \subseteq pending["srv"]
    BY <1>1 DEF IInv, SegmentsNumbered
  <1>8. /\ everDlv \subseteq 1 .. a - 1 /\ 1 .. sndUna["cli"] - 1 \subseteq everDlv
        /\ 1 .. rcvNxt["srv"] - 1 \subseteq everDlv
        /\ \A s \in pending["cli"] : s >= sndUna["cli"]
    BY DEF IInv, DeliveredTrue
  <1>9. \A s \in 1 .. a - 1 : s \in pending["cli"] \/ s \in everDlv
    BY DEF IInv, AckedWasDelivered
  <1>10. \A p \in net : p.type = "data" /\ p.to = "srv" =>
           p.pay = p.seq /\ p.seq \in 1 .. a - 1
    BY DEF IInv, DataTrue
  <1>11. \A s \in DOMAIN recvBuf["srv"] : recvBuf["srv"][s] = s /\ s \in 1 .. a - 1
    BY DEF IInv, BufferTrue
  <1> HIDE DEF b, new, pend, burst
  <1>12. Cardinality(new) = k
    <2>1. PICK x \in Int : x = a
      BY <1>2
    <2>2. PICK y \in Int : y = b
      BY <1>2
    <2>3. Cardinality(x .. y) = IF x > y THEN 0 ELSE y - x + 1
      BY FS_Interval, Zenon
    <2>4. QED
      BY <1>2, <1>6, <2>1, <2>2, <2>3
  <1>13. /\ sndNxt' = [sndNxt EXCEPT !["cli"] = a + k]
         /\ sndNxt'["cli"] = a + k /\ sndNxt'["srv"] = sndNxt["srv"]
         /\ pending'["cli"] = pend /\ pending'["srv"] = pending["srv"]
         /\ sent'["cli"] = sent["cli"] \cup burst /\ sent'["srv"] = sent["srv"]
    BY <1>1, <1>3, <1>12
  <1>14. pend \subseteq 1 .. b /\ burst \subseteq 1 .. b /\ burst \subseteq 1 .. MaxSeq
    BY <1>2, <1>5, <1>6, <1>7, BoundsAssumption
  <1>15. \A p \in DataPackets("cli", burst, echo) :
          /\ p \in Packets /\ p.type = "data" /\ p.to = "srv"
          /\ p.seq \in burst /\ p.pay = p.seq
    BY <1>14, ClientPackets
  <1>16. TypeOK'
    <2>1. sndNxt' \in [Ends -> Nat \ {0}]
      BY <1>1, <1>2, <1>13
    <2>2. pending' \in [Ends -> SUBSET (Nat \ {0})]
      BY <1>1, <1>2, <1>3, <1>14
    <2>3. sent' \in [Ends -> SUBSET (Nat \ {0})]
      <3>1. sent["cli"] \cup burst \in SUBSET (Nat \ {0})
        <4>1. sent["cli"] \subseteq Nat \ {0}
          BY <1>1
        <4>2. burst \subseteq Nat \ {0}
          BY <1>14, BoundsAssumption
        <4>3. QED
          BY <4>1, <4>2
      <3>2. QED
        BY <1>1, <1>3, <3>1
    <2>4. net' \subseteq Packets
      BY <1>1, <1>3, <1>15
    <2>5. decodes' \subseteq Nat
      BY <1>1, <1>2, <1>4, <1>6
    <2>6. QED
      BY <1>3, <1>4, <2>1, <2>2, <2>3, <2>4, <2>5 DEF IInv, TypeOK, rcvVars
  <1>17. SegmentsNumbered'
    <2>1. b = sndNxt'["cli"] - 1
      BY <1>2, <1>13
    <2>2. sent'["cli"] \subseteq pending'["cli"] /\ pending'["cli"] \subseteq 1 .. b
      BY <1>5, <1>6, <1>7, <1>13, <1>14
    <2>3. QED
      BY <1>7, <1>13, <2>1, <2>2 DEF SegmentsNumbered, Ends
  <1>18. NumbersBounded'
    BY <1>2, <1>4, <1>13 DEF IInv, NumbersBounded
  <1>19. DataTrue'
    <2>1. ASSUME NEW p \in net', p.type = "data", p.to = "srv"
          PROVE  p.pay = p.seq /\ p.seq \in 1 .. sndNxt'["cli"] - 1
      <3>1. CASE p \in net
        BY <1>2, <1>10, <1>13, <2>1, <3>1
      <3>2. CASE p \in DataPackets("cli", burst, echo)
        <4>1. p.pay = p.seq /\ p.seq \in 1 .. b
          BY <1>14, <1>15, <3>2
        <4>2. b = sndNxt'["cli"] - 1
          BY <1>2, <1>13
        <4>3. QED
          BY <4>1, <4>2
      <3>3. QED
        BY <1>3, <3>1, <3>2
    <2>2. QED
      BY <2>1 DEF DataTrue
  <1>20. AcksTrue'
    BY <1>3, <1>4, <1>15 DEF IInv, AcksTrue
  <1>21. BufferTrue'
    <2>1. \A s \in DOMAIN recvBuf["srv"] :
            recvBuf["srv"][s] = s /\ s \in 1 .. sndNxt'["cli"] - 1
      BY <1>2, <1>11, <1>13
    <2>2. QED
      BY <1>4, <2>1 DEF IInv, BufferTrue, rcvVars
  <1>22. DeliveredTrue'
    <2>1. sndUna["cli"] \in Nat \ {0} /\ 1 .. sndUna["cli"] - 1 \subseteq 1 .. a - 1
      BY <1>1, <1>8
    <2>2. sndUna["cli"] <= a
      <3>1. CASE sndUna["cli"] = 1
        BY <1>2, <3>1
      <3>2. CASE sndUna["cli"] # 1
        <4>1. sndUna["cli"] - 1 \in 1 .. sndUna["cli"] - 1
          BY <2>1, <3>2
        <4>2. QED
          BY <1>2, <2>1, <4>1
      <3>3. QED
        BY <3>1, <3>2
    <2>3. \A s \in pend : s >= sndUna["cli"]
      BY <1>2, <1>6, <1>8, <2>1, <2>2
    <2>4. everDlv \subseteq 1 .. sndNxt'["cli"] - 1
      BY <1>2, <1>8, <1>13
    <2>5. rcvNxt' = rcvNxt /\ everDlv' = everDlv /\ sndUna' = sndUna
      BY <1>3, <1>4 DEF rcvVars
    <2>6. QED
      BY <1>8, <1>13, <2>3, <2>4, <2>5 DEF DeliveredTrue
  <1>23. DeliveredInOrder'
    BY <1>4 DEF IInv, DeliveredInOrder, rcvVars
  <1>24. AckedWasDelivered'
    <2>1. \A s \in 1 .. sndNxt'["cli"] - 1 : s \in pend \/ s \in everDlv
      BY <1>2, <1>6, <1>9, <1>13
    <2>2. QED
      BY <1>4, <1>13, <2>1 DEF AckedWasDelivered
  <1>25. QED
    BY <1>16, <1>17, <1>18, <1>19, <1>20, <1>21, <1>22, <1>23, <1>24 DEF IInv

LEMMA AckKeeps ==
  ASSUME IInv, NEW e \in Ends, NEW p, NEW again, ReceiveAck(e, p, again)
  PROVE  IInv'
  <1> DEFINE acked == {s \in pending[e] : s <= p.ack}
             una == Max2(sndUna[e], p.ack + 1)
  <1>1. /\ sndNxt \in [Ends -> Nat \ {0}] /\ sndUna \in [Ends -> Nat \ {0}]
        /\ pending \in [Ends -> SUBSET (Nat \ {0})]
        /\ sent \in [Ends -> SUBSET (Nat \ {0})]
        /\ cwnd \in [Ends -> Nat \ {0}] /\ ssthresh \in [Ends -> Nat]
        /\ net \subseteq Packets
        /\ "cli" \in Ends /\ "srv" \in Ends
    BY DEF IInv, TypeOK, Ends
  <1>2. /\ p \in net /\ p.to = e /\ p.type = "ack" /\ net' \subseteq net
        /\ UNCHANGED <<up, timers, sndNxt, ssthresh, rcvVars, echo, decodes,
                       expiries, everDlv>>
    BY DEF ReceiveAck, After
  <1>3. p.ack \in Nat
    BY <1>1, <1>2, PacketFields
  <1>4. /\ pending' = [pending EXCEPT ![e] = @ \ acked]
        /\ sent' = [sent EXCEPT ![e] = @ \ acked]
        /\ sndUna' = [sndUna EXCEPT ![e] = una]
        /\ cwnd' = [cwnd EXCEPT ![e] =
                      AckGrowth(e, cwnd[e], ssthresh[e], Cardinality(acked))]
    BY <1>1 DEF ReceiveAck
  <1>5. AckGrowth(e, cwnd[e], ssthresh[e], Cardinality(acked)) \in Nat \ {0}
    <2>1. IsFiniteSet(pending[e])
      BY FinitePending DEF IInv
    <2>2. Cardinality(acked) \in Nat
      BY <2>1, FS_Subset, FS_CardinalityType
    <2>3. cwnd[e] \in Nat \ {0} /\ ssthresh[e] \in Nat
      BY <1>1
    <2>4. QED
      BY <2>2, <2>3, AckGrowthType
  <1>6. /\ una \in Nat \ {0} /\ una >= sndUna[e] /\ una >= p.ack + 1
        /\ una = sndUna[e] \/ una = p.ack + 1
    BY <1>1, <1>3 DEF Max2
  <1>7. /\ \A f \in Ends : pending'[f] \subseteq pending[f] /\ sent'[f] \subseteq sent[f]
        /\ \A f \in Ends : sent[f] \subseteq pending[f] => sent'[f] \subseteq pending'[f]
        /\ \A f \in Ends : \A s \in pending[f] : s \in pending'[f] \/ (f = e /\ s <= p.ack)
        /\ \A s \in pending'[e] : s > p.ack
    BY <1>1, <1>3, <1>4
  <1>8. e = "cli" => 1 .. p.ack \subseteq everDlv
    BY <1>2 DEF IInv, AcksTrue
  <1>9. /\ sndUna'["cli"] = IF e = "cli" THEN una ELSE sndUna["cli"]
        /\ sndUna' \in [Ends -> Nat \ {0}] /\ cwnd' \in [Ends -> Nat \ {0}]
    BY <1>1, <1>4, <1>5, <1>6
  <1> HIDE DEF acked, una
  <1>10. TypeOK'
    <2>1. pending' \in [Ends -> SUBSET (Nat \ {0})] /\ sent' \in [Ends -> SUBSET (Nat \ {0})]
      BY <1>1, <1>4
    <2>2. QED
      BY <1>1, <1>2, <1>9, <2>1 DEF IInv, TypeOK, rcvVars
  <1>11. SegmentsNumbered'
    BY <1>2, <1>7 DEF IInv, SegmentsNumbered
  <1>12. (NumbersBounded /\ DataTrue /\ AcksTrue /\ BufferTrue /\ DeliveredInOrder)'
    BY <1>2 DEF IInv, NumbersBounded, DataTrue, AcksTrue, BufferTrue,
                DeliveredInOrder, rcvVars
  <1>13. DeliveredTrue'
    <2>1. /\ 1 .. sndUna["cli"] - 1 \subseteq everDlv
          /\ \A s \in pending["cli"] : s >= sndUna["cli"]
      BY DEF IInv, DeliveredTrue
    <2>2. 1 .. sndUna'["cli"] - 1 \subseteq everDlv
      BY <1>1, <1>3, <1>6, <1>8, <1>9, <2>1
    <2>3. \A s \in pending'["cli"] : s >= sndUna'["cli"]
      <3>1. \A s \in pending'["cli"] : s \in Nat /\ s >= sndUna["cli"]
        BY <1>1, <1>7, <2>1
      <3>2. QED
        BY <1>1, <1>3, <1>6, <1>7, <1>9, <3>1
    <2>4. QED
      BY <1>2, <2>2, <2>3 DEF IInv, DeliveredTrue, rcvVars
  <1>14. AckedWasDelivered'
    <2>1. ASSUME NEW s \in 1 .. sndNxt["cli"] - 1
          PROVE  s \in pending'["cli"] \/ s \in everDlv
      BY <1>1, <1>3, <1>7, <1>8, <2>1 DEF IInv, AckedWasDelivered
    <2>2. QED
      BY <1>2, <2>1 DEF AckedWasDelivered
  <1>15. QED
    BY <1>10, <1>11, <1>12, <1>13, <1>14 DEF IInv

LEMMA SweepKeeps ==
  ASSUME IInv, NoWrap, NEW e \in Ends, NEW overdue \in SUBSET sent[e],
         Sweep(e, overdue)
  PROVE  IInv'
  <1> DEFINE burst == Burst(sndUna[e], pending[e], sent[e], cwnd[e])
             segs == burst \cup overdue
             cw == Backoff(cwnd[e], Cardinality(overdue))
  <1>1. /\ sndNxt \in [Ends -> Nat \ {0}]
        /\ sent \in [Ends -> SUBSET (Nat \ {0})]
        /\ pending \in [Ends -> SUBSET (Nat \ {0})]
        /\ cwnd \in [Ends -> Nat \ {0}] /\ ssthresh \in [Ends -> Nat]
        /\ net \subseteq Packets /\ echo \in Seq(Nat)
        /\ "cli" \in Ends /\ "srv" \in Ends
    BY DEF IInv, TypeOK, Ends
  <1>2. /\ sent' = [sent EXCEPT ![e] = @ \cup burst]
        /\ net' = net \cup DataPackets(e, segs, echo)
        /\ cwnd' = cwnd \/ cwnd' = [cwnd EXCEPT ![e] = cw]
        /\ ssthresh' = ssthresh \/ ssthresh' = [ssthresh EXCEPT ![e] = cw]
        /\ UNCHANGED <<up, timers, sndNxt, sndUna, pending, rcvVars, echo, decodes,
                       expiries, everDlv>>
    BY DEF Sweep
  <1>3. cw \in Nat \ {0}
    <2>1. Cardinality(overdue) \in 0 .. MaxSeq + MaxEcho
      BY OverdueCount DEF IInv
    <2>2. cwnd[e] \in Nat
      BY <1>1
    <2>3. QED
      BY <2>1, <2>2, BackoffType
  <1>4. burst \subseteq pending[e]
    BY BurstIsPending
  <1>5. \A f \in Ends : pending[f] \subseteq 1 .. sndNxt[f] - 1 /\ sent[f] \subseteq pending[f]
    BY DEF IInv, SegmentsNumbered
  <1>6. segs = burst \cup overdue
    OBVIOUS
  <1> HIDE DEF burst, segs, cw
  <1>7. segs \subseteq pending[e]
    BY <1>4, <1>5, <1>6
  <1>8. \A p \in DataPackets(e, segs, echo) :
          /\ p \in Packets /\ p.type = "data"
          /\ p.to = "srv" => p.pay = p.seq /\ p.seq \in 1 .. sndNxt["cli"] - 1
    <2>1. CASE e = "cli"
      <3>1. segs \subseteq 1 .. sndNxt["cli"] - 1 /\ sndNxt["cli"] - 1 <= MaxSeq
        BY <1>5, <1>7, <2>1 DEF IInv, NumbersBounded
      <3>2. segs \subseteq 1 .. MaxSeq
        BY <1>1, <3>1, BoundsAssumption
      <3>3. QED
        BY <2>1, <3>1, <3>2, ClientPackets
    <2>2. CASE e = "srv"
      <3>1. segs \subseteq 1 .. Len(echo) /\ Len(echo) <= MaxEcho
        BY <1>5, <1>7, <2>2 DEF IInv, NumbersBounded
      <3>2. QED
        BY <1>1, <2>2, <3>1, ServerPackets
    <2>3. QED
      BY <2>1, <2>2 DEF Ends
  <1>9. TypeOK'
    <2>1. sent' \in [Ends -> SUBSET (Nat \ {0})]
      <3>1. sent[e] \cup burst \in SUBSET (Nat \ {0})
        BY <1>1, <1>4
      <3>2. QED
        BY <1>1, <1>2, <3>1
    <2>2. cwnd' \in [Ends -> Nat \ {0}] /\ ssthresh' \in [Ends -> Nat]
      <3>1. [cwnd EXCEPT ![e] = cw] \in [Ends -> Nat \ {0}]
        BY <1>1, <1>3
      <3>2. [ssthresh EXCEPT ![e] = cw] \in [Ends -> Nat]
        BY <1>1, <1>3
      <3>3. QED
        BY <1>1, <1>2, <3>1, <3>2
    <2>3. net' \subseteq Packets
      BY <1>1, <1>2, <1>8
    <2>4. QED
      BY <1>2, <2>1, <2>2, <2>3 DEF IInv, TypeOK, rcvVars
  <1>10. SegmentsNumbered'
    <2>1. \A f \in Ends : sent'[f] \subseteq pending[f]
      BY <1>1, <1>2, <1>4, <1>5
    <2>2. QED
      BY <1>2, <1>5, <2>1 DEF SegmentsNumbered
  <1>11. DataTrue'
    <2>1. ASSUME NEW p \in net', p.type = "data", p.to = "srv"
          PROVE  p.pay = p.seq /\ p.seq \in 1 .. sndNxt["cli"] - 1
      BY <1>2, <1>8, <2>1 DEF IInv, DataTrue
    <2>2. QED
      BY <1>2, <2>1 DEF DataTrue
  <1>12. AcksTrue'
    <2>1. ASSUME NEW p \in net', p.type = "ack", p.to = "cli" PROVE p \in net
      BY <1>2, <1>8, <2>1
    <2>2. QED
      BY <1>2, <2>1 DEF IInv, AcksTrue
  <1>13. (NumbersBounded /\ BufferTrue /\ DeliveredTrue)'
    BY <1>2 DEF IInv, NumbersBounded, BufferTrue, DeliveredTrue, rcvVars
  <1>14. (DeliveredInOrder /\ AckedWasDelivered)'
    BY <1>2 DEF IInv, DeliveredInOrder, AckedWasDelivered, rcvVars
  <1>15. QED
    BY <1>9, <1>10, <1>11, <1>12, <1>13, <1>14 DEF IInv

LEMMA ExpireKeeps == ASSUME IInv, ServerExpire PROVE IInv'
  <1>1. /\ sndNxt \in [Ends -> Nat \ {0}] /\ sndUna \in [Ends -> Nat \ {0}]
        /\ pending \in [Ends -> SUBSET (Nat \ {0})]
        /\ sent \in [Ends -> SUBSET (Nat \ {0})]
        /\ cwnd \in [Ends -> Nat \ {0}] /\ ssthresh \in [Ends -> Nat]
        /\ rcvNxt \in [Ends -> Nat \ {0}] /\ dlv \in [Ends -> Seq(Nat)]
        /\ DOMAIN recvBuf = Ends /\ expiries \in Nat
        /\ "cli" \in Ends /\ "srv" \in Ends
    BY DEF IInv, TypeOK, Ends
  <1>2. /\ sndNxt' = [sndNxt EXCEPT !["srv"] = 1]
        /\ sndUna' = [sndUna EXCEPT !["srv"] = 1]
        /\ pending' = [pending EXCEPT !["srv"] = {}]
        /\ sent' = [sent EXCEPT !["srv"] = {}]
        /\ cwnd' = [cwnd EXCEPT !["srv"] = InitCwnd]
        /\ ssthresh' = [ssthresh EXCEPT !["srv"] = InitSsthresh]
        /\ rcvNxt' = [rcvNxt EXCEPT !["srv"] = 1]
        /\ recvBuf' = [recvBuf EXCEPT !["srv"] = <<>>]
        /\ dlv' = [dlv EXCEPT !["srv"] = <<>>]
        /\ echo' = <<>> /\ expiries' = expiries + 1
        /\ UNCHANGED <<up, timers, decodes, net, everDlv>>
    BY DEF ServerExpire
  <1>3. /\ sndNxt'["cli"] = sndNxt["cli"] /\ sndUna'["cli"] = sndUna["cli"]
        /\ pending'["cli"] = pending["cli"] /\ sent'["cli"] = sent["cli"]
        /\ recvBuf'["cli"] = recvBuf["cli"] /\ rcvNxt'["cli"] = rcvNxt["cli"]
        /\ sndNxt'["srv"] = 1 /\ pending'["srv"] = {} /\ sent'["srv"] = {}
        /\ recvBuf'["srv"] = <<>> /\ rcvNxt'["srv"] = 1 /\ dlv'["srv"] = <<>>
    BY <1>1, <1>2
  <1>4. TypeOK'
    <2>1. /\ sndNxt' \in [Ends -> Nat \ {0}] /\ sndUna' \in [Ends -> Nat \ {0}]
          /\ rcvNxt' \in [Ends -> Nat \ {0}]
      BY <1>1, <1>2
    <2>2. pending' \in [Ends -> SUBSET (Nat \ {0})] /\ sent' \in [Ends -> SUBSET (Nat \ {0})]
      BY <1>1, <1>2
    <2>3. cwnd' \in [Ends -> Nat \ {0}] /\ ssthresh' \in [Ends -> Nat]
      BY <1>1, <1>2, WindowsAssumption
    <2>4. dlv' \in [Ends -> Seq(Nat)] /\ echo' \in Seq(Nat)
      BY <1>1, <1>2
    <2>5. /\ DOMAIN recvBuf' = Ends
          /\ \A e \in Ends : /\ DOMAIN recvBuf'[e] \subseteq Nat
                              /\ recvBuf'[e] \in [DOMAIN recvBuf'[e] -> Nat]
      <3>1. DOMAIN recvBuf' = Ends
        BY <1>1, <1>2
      <3>2. DOMAIN recvBuf'["srv"] = {} /\ recvBuf'["srv"] \in [{} -> Nat]
        BY <1>3
      <3>3. /\ DOMAIN recvBuf["cli"] \subseteq Nat
            /\ recvBuf["cli"] \in [DOMAIN recvBuf["cli"] -> Nat]
        BY <1>1 DEF IInv, TypeOK
      <3>4. QED
        BY <1>3, <3>1, <3>2, <3>3 DEF Ends
    <2>6. /\ up' \in [Ends -> BOOLEAN] /\ timers' \in BOOLEAN /\ decodes' \subseteq Nat
          /\ net' \subseteq Packets /\ expiries' \in Nat /\ everDlv' \subseteq Nat
      BY <1>1, <1>2 DEF IInv, TypeOK
    <2>7. QED
      BY <2>1, <2>2, <2>3, <2>4, <2>5, <2>6 DEF TypeOK
  <1>5. SegmentsNumbered'
    BY <1>3 DEF IInv, SegmentsNumbered, Ends
  <1>6. NumbersBounded'
    BY <1>2, <1>3, BoundsAssumption DEF IInv, NumbersBounded
  <1>7. (DataTrue /\ AcksTrue)'
    BY <1>2, <1>3 DEF IInv, DataTrue, AcksTrue
  <1>8. BufferTrue'
    BY <1>3 DEF IInv, BufferTrue, Ends
  <1>9. DeliveredTrue'
    BY <1>2, <1>3 DEF IInv, DeliveredTrue
  <1>10. DeliveredInOrder'
    BY <1>3 DEF DeliveredInOrder
  <1>11. AckedWasDelivered'
    BY <1>2, <1>3 DEF IInv, AckedWasDelivered
  <1>12. QED
    BY <1>4, <1>5, <1>6, <1>7, <1>8, <1>9, <1>10, <1>11 DEF IInv

\* Continuing the interval r .. n - 1 after 1 .. r - 1.
LEMMA ConcatInterval ==
  ASSUME NEW r \in Nat \ {0}, NEW n \in Nat, n >= r
  PROVE  [i \in 1 .. r - 1 |-> i] \o [i \in 1 .. n - r |-> r + i - 1]
           = [i \in 1 .. n - 1 |-> i]
  <1> DEFINE d == [i \in 1 .. r - 1 |-> i]
             g == [i \in 1 .. n - r |-> r + i - 1]
  <1>1. d \in Seq(Nat) /\ Len(d) = r - 1
    OBVIOUS
  <1>2. g \in Seq(Nat) /\ Len(g) = n - r
    OBVIOUS
  <1>3. d \o g \in Seq(Nat) /\ Len(d \o g) = n - 1
    BY <1>1, <1>2
  <1>4. \A i \in 1 .. n - 1 : (d \o g)[i] = i
    BY <1>1, <1>2
  <1>5. QED
    BY <1>3, <1>4

\* What the receive loop leaves, at either end.
LEMMA AcceptTypes ==
  ASSUME IInv, NEW e \in Ends, NEW p, NEW n, Accept(e, p, n)
  PROVE  /\ p \in net /\ p \in Packets /\ p.seq \in Nat /\ p.pay \in Nat
         /\ n \in Nat \ {0} /\ n >= rcvNxt[e]
         /\ DOMAIN Buffered(e, p) \subseteq rcvNxt[e] .. rcvNxt[e] + RcvWnd - 1
         /\ Buffered(e, p) \in [DOMAIN Buffered(e, p) -> Nat]
         /\ rcvNxt[e] .. n - 1 \subseteq DOMAIN Buffered(e, p)
         /\ Run(Buffered(e, p), rcvNxt[e], n) \in Seq(Nat)
         /\ rcvNxt' \in [Ends -> Nat \ {0}] /\ dlv' \in [Ends -> Seq(Nat)]
         /\ DOMAIN recvBuf' = Ends
         /\ \A f \in Ends :
              /\ DOMAIN recvBuf'[f] \subseteq rcvNxt'[f] + 1 .. rcvNxt'[f] + RcvWnd - 1
              /\ recvBuf'[f] \in [DOMAIN recvBuf'[f] -> Nat]
  <1> DEFINE buf == Buffered(e, p)
             r == rcvNxt[e]
             got == Run(buf, r, n)
  <1>1. /\ rcvNxt \in [Ends -> Nat \ {0}] /\ dlv \in [Ends -> Seq(Nat)]
        /\ net \subseteq Packets /\ DOMAIN recvBuf = Ends /\ RcvWnd \in Nat \ {0}
    BY WindowsAssumption DEF IInv, TypeOK
  <1>2. /\ p \in net /\ p.to = e /\ p.type = "data" /\ StopsAt(buf, r, n)
        /\ rcvNxt' = [rcvNxt EXCEPT ![e] = n]
        /\ recvBuf' = [recvBuf EXCEPT ![e] = Drop(buf, r .. n)]
        /\ dlv' = [dlv EXCEPT ![e] = @ \o got]
    BY DEF Accept
  <1>3. p \in Packets /\ p.seq \in Nat /\ p.pay \in Nat
    BY <1>1, <1>2, PacketFields
  <1>4. r \in Nat \ {0}
    BY <1>1
  <1>5. \A f \in Ends :
          /\ DOMAIN recvBuf[f] \subseteq rcvNxt[f] + 1 .. rcvNxt[f] + RcvWnd - 1
          /\ recvBuf[f] \in [DOMAIN recvBuf[f] -> Nat]
    BY DEF IInv, TypeOK, BufferTrue
  <1>6. DOMAIN buf \subseteq r .. r + RcvWnd - 1 /\ buf \in [DOMAIN buf -> Nat]
    <2>1. CASE InWindow(r, p.seq)
      <3>1. buf = [s \in DOMAIN recvBuf[e] \cup {p.seq} |->
                    IF s = p.seq THEN p.pay ELSE recvBuf[e][s]]
        BY <2>1 DEF Buffered, Put
      <3>2. p.seq \in r .. r + RcvWnd - 1
        BY <1>1, <1>3, <1>4, <2>1 DEF InWindow
      <3>3. DOMAIN recvBuf[e] \subseteq r .. r + RcvWnd - 1
        BY <1>1, <1>4, <1>5
      <3>4. \A s \in DOMAIN recvBuf[e] : recvBuf[e][s] \in Nat
        BY <1>5
      <3>5. DOMAIN buf = DOMAIN recvBuf[e] \cup {p.seq}
        BY <3>1
      <3>6. \A s \in DOMAIN buf : buf[s] \in Nat
        BY <1>3, <3>1, <3>4, <3>5
      <3> HIDE DEF buf, r
      <3>7. buf \in [DOMAIN buf -> Nat]
        BY <3>1, <3>5, <3>6
      <3>8. QED
        BY <3>2, <3>3, <3>5, <3>7
    <2>2. CASE ~InWindow(r, p.seq)
      <3>1. buf = recvBuf[e]
        BY <2>2 DEF Buffered
      <3>2. QED
        BY <1>1, <1>4, <1>5, <3>1
    <2>3. QED
      BY <2>1, <2>2
  <1>7. /\ n \in r .. r + RcvWnd
        /\ \A s \in r .. n - 1 : s \in DOMAIN buf
    BY <1>2 DEF StopsAt
  <1>8. n \in Nat \ {0} /\ n >= r
    BY <1>1, <1>4, <1>7
  <1>9. got = [i \in 1 .. n - r |-> buf[r + i - 1]]
    BY DEF Run
  <1>10. Drop(buf, r .. n) = [s \in DOMAIN buf \ (r .. n) |-> buf[s]]
    BY DEF Drop
  <1> HIDE DEF buf, r, got
  <1>11. got \in Seq(Nat)
    <2>1. \A i \in 1 .. n - r : buf[r + i - 1] \in Nat
      <3>1. ASSUME NEW i \in 1 .. n - r PROVE r + i - 1 \in r .. n - 1
        BY <1>4, <1>8, <3>1
      <3>2. QED
        BY <1>6, <1>7, <3>1
    <2>2. n - r \in Nat
      BY <1>4, <1>8
    <2>3. QED
      BY <1>9, <2>1, <2>2
  <1>12. rcvNxt' \in [Ends -> Nat \ {0}]
    BY <1>1, <1>2, <1>8
  <1>13. dlv' \in [Ends -> Seq(Nat)]
    <2>1. dlv[e] \o got \in Seq(Nat)
      BY <1>1, <1>11
    <2>2. QED
      BY <1>1, <1>2, <2>1
  <1>14. DOMAIN recvBuf' = Ends
    BY <1>1, <1>2
  <1>15. ASSUME NEW f \in Ends
         PROVE  /\ DOMAIN recvBuf'[f] \subseteq rcvNxt'[f] + 1 .. rcvNxt'[f] + RcvWnd - 1
                /\ recvBuf'[f] \in [DOMAIN recvBuf'[f] -> Nat]
    <2>1. CASE f = e
      <3>1. recvBuf'[f] = [s \in DOMAIN buf \ (r .. n) |-> buf[s]] /\ rcvNxt'[f] = n
        BY <1>1, <1>2, <1>10, <2>1
      <3>2. DOMAIN recvBuf'[f] = DOMAIN buf \ (r .. n)
        BY <3>1
      <3>3. \A s \in DOMAIN recvBuf'[f] : s \in n + 1 .. n + RcvWnd - 1
        BY <1>1, <1>4, <1>6, <1>8, <3>2
      <3>4. \A s \in DOMAIN buf \ (r .. n) : buf[s] \in Nat
        BY <1>6
      <3>5. QED
        BY <3>1, <3>2, <3>3, <3>4
    <2>2. CASE f # e
      <3>1. recvBuf'[f] = recvBuf[f] /\ rcvNxt'[f] = rcvNxt[f]
        BY <1>1, <1>2, <2>2
      <3>2. QED
        BY <1>5, <3>1
    <2>3. QED
      BY <2>1, <2>2
  <1>16. QED
    BY <1>2, <1>3, <1>6, <1>7, <1>8, <1>11, <1>12, <1>13, <1>14, <1>15 DEF buf, r, got

\* The server's receive loop delivers the segments rcvNxt .. n - 1 themselves.
LEMMA AcceptServer ==
  ASSUME IInv, NEW p, NEW n, Accept("srv", p, n)
  PROVE  /\ n - 1 <= sndNxt["cli"] - 1
         /\ rcvNxt'["srv"] = n /\ dlv'["srv"] = [i \in 1 .. n - 1 |-> i]
         /\ everDlv' = everDlv \cup (rcvNxt["srv"] .. n - 1)
         /\ \A s \in DOMAIN recvBuf'["srv"] :
              recvBuf'["srv"][s] = s /\ s \in 1 .. sndNxt["cli"] - 1
  <1> DEFINE buf == Buffered("srv", p)
             r == rcvNxt["srv"]
             got == Run(buf, r, n)
             top == sndNxt["cli"] - 1
  <1>1. /\ "srv" \in Ends /\ RcvWnd \in Nat \ {0} /\ DOMAIN recvBuf = Ends
        /\ dlv \in [Ends -> Seq(Nat)] /\ rcvNxt \in [Ends -> Nat \ {0}]
    BY WindowsAssumption DEF IInv, TypeOK, Ends
  <1>2. /\ p \in net /\ p.seq \in Nat /\ n \in Nat \ {0} /\ n >= r
        /\ r .. n - 1 \subseteq DOMAIN buf
    BY <1>1, AcceptTypes
  <1>3. r \in Nat \ {0} /\ top \in Nat /\ r - 1 <= top
    BY ReceiverBehind
  <1>4. /\ p.to = "srv" /\ p.type = "data"
        /\ rcvNxt' = [rcvNxt EXCEPT !["srv"] = n]
        /\ recvBuf' = [recvBuf EXCEPT !["srv"] = Drop(buf, r .. n)]
        /\ dlv' = [dlv EXCEPT !["srv"] = @ \o got]
        /\ everDlv' = everDlv \cup {got[i] : i \in DOMAIN got}
    BY DEF Accept
  <1>5. p.pay = p.seq /\ p.seq \in 1 .. top
    BY <1>2, <1>4 DEF IInv, DataTrue
  <1>6. \A s \in DOMAIN recvBuf["srv"] : recvBuf["srv"][s] = s /\ s \in 1 .. top
    BY DEF IInv, BufferTrue
  <1>7. \A s \in DOMAIN buf : buf[s] = s /\ s \in 1 .. top
    BY <1>5, <1>6 DEF Buffered, Put
  <1>8. got = [i \in 1 .. n - r |-> buf[r + i - 1]]
    BY DEF Run
  <1>9. Drop(buf, r .. n) = [s \in DOMAIN buf \ (r .. n) |-> buf[s]]
    BY DEF Drop
  <1>10. dlv["srv"] = [i \in 1 .. r - 1 |-> i]
    BY DEF IInv, DeliveredInOrder
  <1> HIDE DEF buf, r, got, top
  <1>11. got = [i \in 1 .. n - r |-> r + i - 1]
    <2>1. ASSUME NEW i \in 1 .. n - r PROVE buf[r + i - 1] = r + i - 1
      <3>1. r + i - 1 \in r .. n - 1
        BY <1>2, <1>3, <2>1
      <3>2. QED
        BY <1>2, <1>7, <3>1
    <2>2. QED
      BY <1>8, <2>1
  <1>12. dlv'["srv"] = [i \in 1 .. n - 1 |-> i]
    <2>1. dlv'["srv"] = dlv["srv"] \o got
      BY <1>1, <1>4
    <2>2. QED
      BY <1>2, <1>3, <1>10, <1>11, <2>1, ConcatInterval
  <1>13. {got[i] : i \in DOMAIN got} = r .. n - 1
    <2>1. DOMAIN got = 1 .. n - r
      BY <1>11
    <2>2. ASSUME NEW s \in r .. n - 1 PROVE \E i \in DOMAIN got : got[i] = s
      <3>1. s - r + 1 \in 1 .. n - r /\ r + (s - r + 1) - 1 = s
        BY <1>2, <1>3, <2>2
      <3>2. got[s - r + 1] = s
        BY <1>11, <3>1
      <3>3. QED
        BY <2>1, <3>1, <3>2
    <2>3. ASSUME NEW i \in DOMAIN got PROVE got[i] \in r .. n - 1
      BY <1>2, <1>3, <1>11, <2>1, <2>3
    <2>4. QED
      BY <2>2, <2>3
  <1>14. n - 1 <= top
    <2>1. CASE n = r
      BY <1>3, <2>1
    <2>2. CASE n # r
      <3>1. n - 1 \in r .. n - 1
        BY <1>2, <1>3, <2>2
      <3>2. QED
        BY <1>2, <1>3, <1>7, <3>1
    <2>3. QED
      BY <2>1, <2>2
  <1>15. \A s \in DOMAIN recvBuf'["srv"] : recvBuf'["srv"][s] = s /\ s \in 1 .. top
    <2>1. recvBuf'["srv"] = [s \in DOMAIN buf \ (r .. n) |-> buf[s]]
      BY <1>1, <1>4, <1>9
    <2>2. QED
      BY <1>7, <2>1
  <1>16. rcvNxt'["srv"] = n
    BY <1>1, <1>4
  <1>17. QED
    BY <1>4, <1>12, <1>13, <1>14, <1>15, <1>16 DEF r, top

\* The receiver's share of IInv, when the client's sender stands still.
LEMMA AcceptKeeps ==
  ASSUME IInv, NEW e \in Ends, NEW p, NEW n, Accept(e, p, n),
         sndNxt'["cli"] = sndNxt["cli"], sndUna'["cli"] = sndUna["cli"],
         pending'["cli"] = pending["cli"]
  PROVE  /\ BufferTrue' /\ DeliveredTrue' /\ DeliveredInOrder' /\ AckedWasDelivered'
         /\ everDlv \subseteq everDlv' /\ everDlv' \subseteq Nat
         /\ rcvNxt'["srv"] - 1 \in 0 .. MaxSeq
  <1>1. /\ rcvNxt \in [Ends -> Nat \ {0}] /\ dlv \in [Ends -> Seq(Nat)]
        /\ DOMAIN recvBuf = Ends /\ "cli" \in Ends /\ "srv" \in Ends /\ everDlv \subseteq Nat
    BY DEF IInv, TypeOK, Ends
  <1>2. /\ rcvNxt["srv"] \in Nat \ {0} /\ sndNxt["cli"] \in Nat \ {0}
        /\ rcvNxt["srv"] - 1 <= sndNxt["cli"] - 1 /\ sndNxt["cli"] - 1 <= MaxSeq
    BY ReceiverBehind
  <1>3. /\ rcvNxt'["srv"] \in Nat \ {0} /\ rcvNxt'["srv"] - 1 <= sndNxt["cli"] - 1
        /\ dlv'["srv"] = [i \in 1 .. rcvNxt'["srv"] - 1 |-> i]
        /\ \/ everDlv' = everDlv /\ rcvNxt'["srv"] = rcvNxt["srv"]
           \/ everDlv' = everDlv \cup (rcvNxt["srv"] .. rcvNxt'["srv"] - 1)
        /\ \A s \in DOMAIN recvBuf'["srv"] :
             recvBuf'["srv"][s] = s /\ s \in 1 .. sndNxt["cli"] - 1
    <2>1. CASE e = "srv"
      <3>1. n \in Nat \ {0}
        BY AcceptTypes
      <3>2. QED
        BY <2>1, <3>1, AcceptServer
    <2>2. CASE e = "cli"
      <3>1. /\ rcvNxt'["srv"] = rcvNxt["srv"] /\ dlv'["srv"] = dlv["srv"]
            /\ recvBuf'["srv"] = recvBuf["srv"] /\ everDlv' = everDlv
        BY <1>1, <2>2 DEF Accept
      <3>2. QED
        BY <1>2, <3>1 DEF IInv, DeliveredInOrder, BufferTrue
    <2>3. QED
      BY <2>1, <2>2 DEF Ends
  <1>4. BufferTrue'
    <2>1. \A f \in Ends : DOMAIN recvBuf'[f] \subseteq rcvNxt'[f] + 1 .. rcvNxt'[f] + RcvWnd - 1
      BY AcceptTypes
    <2>2. QED
      BY <1>3, <2>1 DEF BufferTrue
  <1>5. /\ 1 .. rcvNxt["srv"] - 1 \subseteq everDlv
        /\ everDlv \subseteq 1 .. sndNxt["cli"] - 1
        /\ 1 .. sndUna["cli"] - 1 \subseteq everDlv
        /\ \A s \in pending["cli"] : s >= sndUna["cli"]
    BY DEF IInv, DeliveredTrue
  <1>6. everDlv \subseteq everDlv' /\ everDlv' \subseteq 1 .. sndNxt["cli"] - 1
    <2>1. rcvNxt["srv"] .. rcvNxt'["srv"] - 1 \subseteq 1 .. sndNxt["cli"] - 1
      BY <1>2, <1>3
    <2>2. QED
      BY <1>3, <1>5, <2>1
  <1>7. 1 .. rcvNxt'["srv"] - 1 \subseteq everDlv'
    BY <1>2, <1>3, <1>5
  <1>8. DeliveredTrue'
    BY <1>5, <1>6, <1>7 DEF DeliveredTrue
  <1>9. DeliveredInOrder'
    BY <1>3 DEF DeliveredInOrder
  <1>10. AckedWasDelivered'
    BY <1>6 DEF IInv, AckedWasDelivered
  <1>11. everDlv' \subseteq Nat /\ rcvNxt'["srv"] - 1 \in 0 .. MaxSeq
    BY <1>2, <1>3, <1>6, BoundsAssumption
  <1>12. QED
    BY <1>4, <1>6, <1>8, <1>9, <1>10, <1>11

\* An ack to the client that says what the server's mux has.
LEMMA TrueAck ==
  ASSUME NoWrap, NEW c \in 0 .. MaxSeq
  PROVE  Ack("cli", c) \in Packets /\ Ack("cli", c).ack = c
  <1>1. c \in Nat /\ c < WireMod
    BY BoundsAssumption, WindowsAssumption DEF NoWrap
  <1>2. Wire(c) = c
    BY <1>1, WireExact
  <1>3. "cli" \in Ends
    BY DEF Ends
  <1>4. Ack("cli", c) \in Packets
    BY <1>1, <1>3, PacketTypes
  <1>5. QED
    BY <1>2, <1>4 DEF Ack

LEMMA ClientDataKeeps ==
  ASSUME IInv, NEW p, NEW n, NEW again, ClientData(p, n, again)
  PROVE  IInv'
  <1>1. /\ Accept("cli", p, n) /\ net' \subseteq net \cup {Ack("srv", n - 1)}
        /\ UNCHANGED <<up, timers, sndVars, echo, decodes, expiries>>
        /\ "cli" \in Ends /\ "srv" \in Ends
    BY DEF ClientData, After, Ends
  <1>2. UNCHANGED <<sndNxt, sndUna, pending, sent, cwnd, ssthresh>>
    BY <1>1 DEF sndVars
  <1>3. /\ BufferTrue' /\ DeliveredTrue' /\ DeliveredInOrder' /\ AckedWasDelivered'
        /\ everDlv \subseteq everDlv' /\ everDlv' \subseteq Nat
    BY <1>1, <1>2, AcceptKeeps
  <1>4. /\ n \in Nat \ {0} /\ rcvNxt' \in [Ends -> Nat \ {0}]
        /\ dlv' \in [Ends -> Seq(Nat)] /\ DOMAIN recvBuf' = Ends
        /\ \A f \in Ends : recvBuf'[f] \in [DOMAIN recvBuf'[f] -> Nat]
    BY <1>1, AcceptTypes
  <1>5. \A f \in Ends : DOMAIN recvBuf'[f] \subseteq Nat
    BY <1>3, <1>4, WindowsAssumption DEF BufferTrue
  <1>6. Ack("srv", n - 1) \in Packets
    <2>1. n - 1 \in Nat
      BY <1>4
    <2>2. QED
      BY <1>1, <2>1, PacketTypes
  <1>7. net' \subseteq Packets
    BY <1>1, <1>6 DEF IInv, TypeOK
  <1>8. TypeOK'
    BY <1>1, <1>2, <1>3, <1>4, <1>5, <1>7 DEF IInv, TypeOK
  <1>9. DataTrue' /\ AcksTrue'
    BY <1>1, <1>2, <1>3 DEF IInv, DataTrue, AcksTrue, Ack
  <1>10. SegmentsNumbered' /\ NumbersBounded'
    BY <1>1, <1>2 DEF IInv, SegmentsNumbered, NumbersBounded
  <1>11. QED
    BY <1>3, <1>8, <1>9, <1>10 DEF IInv

LEMMA ThrowKeeps ==
  ASSUME IInv, NEW e \in Ends, NEW p, NEW n, NEW again, NEW survives \in BOOLEAN,
         DataThrows(e, p, n, again, survives)
  PROVE  IInv'
  <1>1. /\ Accept(e, p, n) /\ net' \subseteq net
        /\ up' = [up EXCEPT ![e] = survives]
        /\ UNCHANGED <<sndVars, echo, decodes, expiries>>
    BY DEF DataThrows, After
  <1>2. UNCHANGED <<sndNxt, sndUna, pending, sent, cwnd, ssthresh>>
    BY <1>1 DEF sndVars
  <1>3. /\ BufferTrue' /\ DeliveredTrue' /\ DeliveredInOrder' /\ AckedWasDelivered'
        /\ everDlv \subseteq everDlv' /\ everDlv' \subseteq Nat
    BY <1>1, <1>2, AcceptKeeps
  <1>4. /\ rcvNxt' \in [Ends -> Nat \ {0}]
        /\ dlv' \in [Ends -> Seq(Nat)] /\ DOMAIN recvBuf' = Ends
        /\ \A f \in Ends : recvBuf'[f] \in [DOMAIN recvBuf'[f] -> Nat]
    BY <1>1, AcceptTypes
  <1>5. \A f \in Ends : DOMAIN recvBuf'[f] \subseteq Nat
    BY <1>3, <1>4, WindowsAssumption DEF BufferTrue
  <1>6. up' \in [Ends -> BOOLEAN]
    BY <1>1 DEF IInv, TypeOK
  <1>7. timers' \in BOOLEAN
    BY Zenon DEF DataThrows
  <1>8. TypeOK'
    BY <1>1, <1>2, <1>3, <1>4, <1>5, <1>6, <1>7 DEF IInv, TypeOK
  <1>9. DataTrue' /\ AcksTrue'
    BY <1>1, <1>2, <1>3 DEF IInv, DataTrue, AcksTrue
  <1>10. SegmentsNumbered' /\ NumbersBounded'
    BY <1>1, <1>2 DEF IInv, SegmentsNumbered, NumbersBounded
  <1>11. QED
    BY <1>3, <1>8, <1>9, <1>10 DEF IInv

LEMMA ServerDataKeeps ==
  ASSUME IInv, NoWrap, NEW p, NEW n, NEW again, ServerData(p, n, again)
  PROVE  IInv'
  <1> DEFINE c == sndNxt["srv"]
             new == IF Len(echo) < MaxEcho THEN {c} ELSE {}
             pend == pending["srv"] \cup new
             burst == Burst(sndUna["srv"], pend, sent["srv"], cwnd["srv"])
  <1>1. /\ sndNxt \in [Ends -> Nat \ {0}] /\ echo \in Seq(Nat) /\ Len(echo) = c - 1
        /\ pending \in [Ends -> SUBSET (Nat \ {0})] /\ Len(echo) <= MaxEcho
        /\ sent \in [Ends -> SUBSET (Nat \ {0})] /\ net \subseteq Packets
        /\ "cli" \in Ends /\ "srv" \in Ends /\ c \in Nat \ {0}
    BY DEF IInv, TypeOK, NumbersBounded, Ends
  <1>2. /\ Accept("srv", p, n)
        /\ echo' = IF new = {} THEN echo ELSE Append(echo, p.pay)
        /\ sndNxt' = [sndNxt EXCEPT !["srv"] = c + Cardinality(new)]
        /\ pending' = [pending EXCEPT !["srv"] = pend]
        /\ sent' = [sent EXCEPT !["srv"] = @ \cup burst]
        /\ net' = (After(p, again) \cup {Ack("cli", n - 1)})
                    \cup DataPackets("srv", burst, echo')
        /\ UNCHANGED <<sndUna, cwnd, ssthresh, up, timers, decodes, expiries>>
    BY DEF ServerData, QueueAndDrain
  <1>3. burst \subseteq pend
    BY BurstIsPending
  <1>4. pending["srv"] \subseteq 1 .. c - 1 /\ sent["srv"] \subseteq pending["srv"]
    BY <1>1 DEF IInv, SegmentsNumbered
  <1>5. pend = pending["srv"] \cup new
    OBVIOUS
  <1>6. (Len(echo) < MaxEcho /\ new = {c}) \/ new = {}
    OBVIOUS
  <1>7. n \in Nat \ {0} /\ p.pay \in Nat
    BY <1>1, <1>2, AcceptTypes
  <1> HIDE DEF new, pend, burst
  <1>8. /\ echo' \in Seq(Nat) /\ Len(echo') <= MaxEcho
        /\ c + Cardinality(new) = Len(echo') + 1
        /\ new \subseteq 1 .. Len(echo') /\ c - 1 <= Len(echo')
    <2>1. CASE new = {}
      <3>1. Cardinality(new) = 0
        BY <2>1, FS_EmptySet
      <3>2. QED
        BY <1>1, <1>2, <2>1, <3>1
    <2>2. CASE new = {c} /\ Len(echo) < MaxEcho
      <3>1. Cardinality(new) = 1
        BY <2>2, FS_Singleton
      <3>2. echo' = Append(echo, p.pay)
        BY <1>2, <2>2
      <3>3. echo' \in Seq(Nat) /\ Len(echo') = Len(echo) + 1
        BY <1>1, <1>7, <3>2
      <3>4. QED
        BY <1>1, <2>2, <3>1, <3>3, BoundsAssumption
    <2>3. QED
      BY <1>6, <2>1, <2>2
  <1>9. /\ sndNxt'["cli"] = sndNxt["cli"] /\ sndUna'["cli"] = sndUna["cli"]
        /\ pending'["cli"] = pending["cli"] /\ sent'["cli"] = sent["cli"]
        /\ sndNxt'["srv"] = Len(echo') + 1 /\ pending'["srv"] = pend
        /\ sent'["srv"] = sent["srv"] \cup burst
    BY <1>1, <1>2, <1>8
  <1>10. pend \subseteq 1 .. Len(echo') /\ burst \subseteq 1 .. Len(echo')
    <2>1. Len(echo') \in Nat
      BY <1>8
    <2>2. 1 .. c - 1 \subseteq 1 .. Len(echo')
      BY <1>1, <1>8, <2>1
    <2>3. pend \subseteq 1 .. Len(echo')
      BY <1>4, <1>5, <1>8, <2>2
    <2>4. QED
      BY <1>3, <2>3
  <1>11. \A q \in DataPackets("srv", burst, echo') :
           q \in Packets /\ q.type = "data" /\ q.to = "cli"
    BY <1>8, <1>10, ServerPackets
  <1>12. /\ BufferTrue' /\ DeliveredTrue' /\ DeliveredInOrder' /\ AckedWasDelivered'
         /\ everDlv \subseteq everDlv' /\ everDlv' \subseteq Nat
         /\ rcvNxt'["srv"] - 1 \in 0 .. MaxSeq
    BY <1>1, <1>2, <1>9, AcceptKeeps
  <1>13. /\ rcvNxt' \in [Ends -> Nat \ {0}]
         /\ dlv' \in [Ends -> Seq(Nat)] /\ DOMAIN recvBuf' = Ends
         /\ \A f \in Ends : recvBuf'[f] \in [DOMAIN recvBuf'[f] -> Nat]
    BY <1>1, <1>2, AcceptTypes
  <1>14. \A f \in Ends : DOMAIN recvBuf'[f] \subseteq Nat
    BY <1>12, <1>13, WindowsAssumption DEF BufferTrue
  <1>15. rcvNxt'["srv"] = n
    BY <1>2, AcceptServer
  <1>16. /\ Ack("cli", n - 1) \in Packets /\ Ack("cli", n - 1).ack = n - 1
         /\ Ack("cli", n - 1).type = "ack"
    BY <1>12, <1>15, TrueAck DEF Ack
  <1>17. net' \subseteq net \cup {Ack("cli", n - 1)} \cup DataPackets("srv", burst, echo')
    BY <1>2 DEF After
  <1>18. TypeOK'
    <2>1. net' \subseteq Packets
      BY <1>1, <1>11, <1>16, <1>17
    <2>2. sndNxt' \in [Ends -> Nat \ {0}]
      BY <1>1, <1>2, <1>8
    <2>3. pend \in SUBSET (Nat \ {0}) /\ sent["srv"] \cup burst \in SUBSET (Nat \ {0})
      <3>1. pend \subseteq Nat \ {0} /\ burst \subseteq Nat \ {0}
        BY <1>8, <1>10
      <3>2. sent["srv"] \subseteq Nat \ {0}
        BY <1>1
      <3>3. QED
        BY <3>1, <3>2
    <2>4. pending' \in [Ends -> SUBSET (Nat \ {0})] /\ sent' \in [Ends -> SUBSET (Nat \ {0})]
      BY <1>1, <1>2, <2>3
    <2>5. QED
      BY <1>2, <1>8, <1>12, <1>13, <1>14, <2>1, <2>2, <2>4 DEF IInv, TypeOK
  <1>19. SegmentsNumbered'
    <2>1. sent'["srv"] \subseteq pending'["srv"] /\ pending'["srv"] \subseteq 1 .. sndNxt'["srv"] - 1
      BY <1>3, <1>4, <1>5, <1>8, <1>9, <1>10
    <2>2. sent'["cli"] \subseteq pending'["cli"] /\ pending'["cli"] \subseteq 1 .. sndNxt'["cli"] - 1
      BY <1>1, <1>9 DEF IInv, SegmentsNumbered
    <2>3. QED
      BY <2>1, <2>2 DEF SegmentsNumbered, Ends
  <1>20. NumbersBounded'
    BY <1>8, <1>9 DEF IInv, NumbersBounded
  <1>21. DataTrue'
    <2>1. ASSUME NEW q \in net', q.type = "data", q.to = "srv" PROVE q \in net
      BY <1>11, <1>16, <1>17, <2>1
    <2>2. QED
      BY <1>9, <2>1 DEF IInv, DataTrue
  <1>22. AcksTrue'
    <2>1. ASSUME NEW q \in net', q.type = "ack", q.to = "cli"
          PROVE  1 .. q.ack \subseteq everDlv'
      <3>1. CASE q \in net
        BY <1>12, <2>1, <3>1 DEF IInv, AcksTrue
      <3>2. CASE q = Ack("cli", n - 1)
        BY <1>12, <1>15, <1>16, <3>2 DEF DeliveredTrue
      <3>3. QED
        BY <1>11, <1>17, <2>1, <3>1, <3>2
    <2>2. QED
      BY <2>1 DEF AcksTrue
  <1>23. QED
    BY <1>12, <1>18, <1>19, <1>20, <1>21, <1>22 DEF IInv
-----------------------------------------------------------------------------
LEMMA InitIInv == Init => IInv
  <1> SUFFICES ASSUME Init PROVE IInv
    OBVIOUS
  <1>1. TypeOK
    <2>1. /\ DOMAIN recvBuf = Ends
          /\ \A e \in Ends : recvBuf[e] = <<>>
      BY DEF Init
    <2>2. \A e \in Ends : /\ DOMAIN recvBuf[e] \subseteq Nat
                          /\ recvBuf[e] \in [DOMAIN recvBuf[e] -> Nat]
      <3>1. ASSUME NEW f, f = <<>> PROVE DOMAIN f = {} /\ f \in [{} -> Nat]
        BY <3>1
      <3>2. QED
        BY <2>1, <3>1
    <2>3. dlv \in [Ends -> Seq(Nat)] /\ echo \in Seq(Nat)
      BY DEF Init
    <2>4. pending \in [Ends -> SUBSET (Nat \ {0})] /\ sent \in [Ends -> SUBSET (Nat \ {0})]
      BY DEF Init
    <2>5. /\ sndNxt \in [Ends -> Nat \ {0}] /\ sndUna \in [Ends -> Nat \ {0}]
          /\ cwnd \in [Ends -> Nat \ {0}] /\ ssthresh \in [Ends -> Nat]
          /\ rcvNxt \in [Ends -> Nat \ {0}] /\ up \in [Ends -> BOOLEAN]
      BY WindowsAssumption DEF Init
    <2>6. QED
      BY <2>1, <2>2, <2>3, <2>4, <2>5 DEF Init, TypeOK
  <1>2. SegmentsNumbered /\ NumbersBounded
    BY BoundsAssumption DEF Init, SegmentsNumbered, NumbersBounded, Ends
  <1>3. DataTrue /\ AcksTrue /\ BufferTrue /\ DeliveredTrue
    BY DEF Init, DataTrue, AcksTrue, BufferTrue, DeliveredTrue, Ends
  <1>4. DeliveredInOrder /\ AckedWasDelivered
    BY DEF Init, DeliveredInOrder, AckedWasDelivered, Ends
  <1>5. QED
    BY <1>1, <1>2, <1>3, <1>4 DEF IInv

LEMMA NextIInv == ASSUME IInv, NoWrap, [Next]_vars PROVE IInv'
  <1>1. CASE ClientConnect
    BY <1>1, ConnectKeeps
  <1>2. ASSUME NEW k \in FragCounts, NEW ok, ClientSend(k, ok) PROVE IInv'
    BY <1>2, SendKeeps
  <1>3. CASE ClientPing
    BY <1>3, PingKeeps
  <1>4. ASSUME NEW e \in Ends, Close(e) PROVE IInv'
    BY <1>4, CloseKeeps
  <1>5. ASSUME NEW p \in net, Receive(p) PROVE IInv'
    <2>1. ASSUME NEW e \in Ends, ReceiveData(e, p) PROVE IInv'
      <3>1. PICK n, again :
              \/ ClientData(p, n, again)
              \/ ServerData(p, n, again)
              \/ \E survives \in BOOLEAN : DataThrows(e, p, n, again, survives)
        BY <2>1 DEF ReceiveData
      <3>2. QED
        BY <3>1, ClientDataKeeps, ServerDataKeeps, ThrowKeeps
    <2>2. ASSUME NEW e \in Ends, NEW again, ReceiveAck(e, p, again) PROVE IInv'
      BY <2>2, AckKeeps
    <2>3. ASSUME NEW again, ReceivePing(p, again) PROVE IInv'
      BY <2>3, ReceivePingKeeps
    <2>4. QED
      BY <1>5, <2>1, <2>2, <2>3 DEF Receive
  <1>6. ASSUME NEW e \in Ends, NEW overdue \in SUBSET sent[e], Sweep(e, overdue)
        PROVE  IInv'
    BY <1>6, SweepKeeps
  <1>7. CASE ServerExpire
    BY <1>7, ExpireKeeps
  <1>8. ASSUME NEW p, Lose(p) PROVE IInv'
    BY <1>8, LoseKeeps
  <1>9. CASE UNCHANGED vars
    <2>1. UNCHANGED <<sndVars, rcvVars, echo, decodes, expiries, everDlv>>
      BY <1>9 DEF vars
    <2>2. up' \in [Ends -> BOOLEAN] /\ timers' \in BOOLEAN /\ net' = net
      BY <1>9 DEF vars, IInv, TypeOK
    <2>3. QED
      BY <2>1, <2>2, NetworkOnly
  <1>10. QED
    BY <1>1, <1>2, <1>3, <1>4, <1>5, <1>6, <1>7, <1>8, <1>9 DEF Next

\* The inductive invariant holds as long as numbers fit the wire.
THEOREM Invariance == ASSUME NoWrap PROVE Spec => []IInv
  <1>1. Init => IInv
    BY InitIInv
  <1>2. IInv /\ [Next]_vars => IInv'
    BY NextIInv
  <1>3. QED
    BY <1>1, <1>2, PTL DEF Spec

\* Every variable keeps its type (TypeOK).
THEOREM TypeCorrect == ASSUME NoWrap PROVE Spec => []TypeOK
  <1>1. IInv => TypeOK
    BY DEF IInv
  <1>2. QED
    BY <1>1, Invariance, PTL

\* The server's mux gets the client's segments in order, once each, for any
\* windows, any loss, repetition and reordering, exceptions and any number of
\* expiries, as long as the client's numbers fit the wire.
THEOREM DeliveryInOrder ==
  ASSUME NoWrap PROVE Spec => [](InOrderDelivery /\ DeliveredInOrder)
  <1>1. IInv => InOrderDelivery /\ DeliveredInOrder
    BY DEF IInv, InOrderDelivery
  <1>2. QED
    BY <1>1, Invariance, PTL

\* What the client no longer holds has been delivered to some server mux.
THEOREM AcksAreTrue == ASSUME NoWrap PROVE Spec => []AckedWasDelivered
  <1>1. IInv => AckedWasDelivered
    BY DEF IInv
  <1>2. QED
    BY <1>1, Invariance, PTL
-----------------------------------------------------------------------------
(* The refinement: each step is a step of the channel, or leaves it alone. *)

chanVars == <<sndNxt["cli"], dlv["srv"], everDlv, sndUna["cli"]>>

LEMMA ChannelStutters ==
  ASSUME UNCHANGED chanVars PROVE [Channel!Next]_(Channel!vars)
  BY DEF chanVars, Channel!vars

LEMMA SendOffers ==
  ASSUME IInv, NoWrap, NEW k \in FragCounts, NEW ok, ClientSend(k, ok)
  PROVE  Channel!Next
  <1>2. sndNxt \in [Ends -> Nat \ {0}] /\ k \in Nat \ {0} /\ "cli" \in Ends
    BY FramesAssumption DEF IInv, TypeOK, Ends
  <1>3. PICK a \in Nat \ {0} : a = sndNxt["cli"]
    BY <1>2
  <1>4. sndNxt'["cli"] = a + Cardinality(a .. a + k - 1)
    BY <1>2, <1>3 DEF ClientSend, QueueAndDrain
  <1>5. Cardinality(a .. a + k - 1) = k
    <2>1. PICK b \in Int : b = a + k - 1
      BY <1>2
    <2>2. Cardinality(a .. b) = IF a > b THEN 0 ELSE b - a + 1
      BY a \in Int, FS_Interval, Zenon
    <2>3. QED
      BY <1>2, <2>1, <2>2
  <1>6. UNCHANGED <<dlv, everDlv, sndUna>>
    BY DEF ClientSend, QueueAndDrain, rcvVars
  <1>7. Channel!Offer
    BY <1>2, <1>3, <1>4, <1>5, <1>6 DEF Channel!Offer
  <1>8. QED
    BY <1>7 DEF Channel!Next

LEMMA AcceptDelivers ==
  ASSUME IInv, NEW e \in Ends, NEW p, NEW n, Accept(e, p, n),
         sndNxt'["cli"] = sndNxt["cli"], sndUna'["cli"] = sndUna["cli"]
  PROVE  [Channel!Next]_(Channel!vars)
  <1>1. CASE e = "cli"
    <2>1. dlv \in [Ends -> Seq(Nat)] /\ "srv" \in Ends
      BY DEF IInv, TypeOK, Ends
    <2>2. dlv'["srv"] = dlv["srv"] /\ everDlv' = everDlv
      BY <1>1, <2>1 DEF Accept
    <2>3. QED
      BY <2>2, ChannelStutters DEF chanVars
  <1>2. CASE e = "srv"
    <2> DEFINE r == rcvNxt["srv"]
    <2>1. /\ n - 1 <= sndNxt["cli"] - 1 /\ dlv'["srv"] = [i \in 1 .. n - 1 |-> i]
          /\ everDlv' = everDlv \cup (r .. n - 1)
      BY <1>2, AcceptServer
    <2>2. n \in Nat \ {0} /\ n >= r
      BY <1>2, AcceptTypes
    <2>3. /\ r \in Nat \ {0} /\ sndNxt["cli"] \in Nat \ {0}
      BY ReceiverBehind
    <2>4. dlv["srv"] = [i \in 1 .. r - 1 |-> i] /\ 1 .. r - 1 \subseteq everDlv
      BY DEF IInv, DeliveredInOrder, DeliveredTrue
    <2> HIDE DEF r
    <2>5. CASE n = r
      <3>1. r .. n - 1 = {}
        BY <2>3, <2>5
      <3>2. dlv'["srv"] = dlv["srv"] /\ everDlv' = everDlv
        BY <2>1, <2>4, <2>5, <3>1
      <3>3. QED
        BY <3>2, ChannelStutters DEF chanVars
    <2>6. CASE n # r
      <3>1. Len(dlv["srv"]) = r - 1
        BY <2>3, <2>4
      <3>2. n - 1 \in Len(dlv["srv"]) + 1 .. sndNxt["cli"] - 1
        BY <2>1, <2>2, <2>3, <2>6, <3>1
      <3>3. everDlv \cup (r .. n - 1) = everDlv \cup (1 .. n - 1)
        BY <2>2, <2>3, <2>4
      <3>4. Channel!Deliver(n - 1)
        BY <2>1, <3>2, <3>3 DEF Channel!Deliver
      <3>5. n - 1 \in 1 .. sndNxt["cli"] - 1
        BY <2>1, <2>2, <2>3, <2>6
      <3>6. QED
        BY <3>4, <3>5 DEF Channel!Next
    <2>7. QED
      BY <2>5, <2>6
  <1>3. QED
    BY <1>1, <1>2 DEF Ends

LEMMA AckConfirms ==
  ASSUME IInv, NEW e \in Ends, NEW p, NEW again, ReceiveAck(e, p, again)
  PROVE  [Channel!Next]_(Channel!vars)
  <1>1. /\ sndUna \in [Ends -> Nat \ {0}] /\ net \subseteq Packets /\ "cli" \in Ends
    BY DEF IInv, TypeOK, Ends
  <1>2. /\ p \in net /\ p.to = e /\ p.type = "ack"
        /\ sndUna' = [sndUna EXCEPT ![e] = Max2(@, p.ack + 1)]
        /\ UNCHANGED <<sndNxt, dlv, everDlv>>
    BY DEF ReceiveAck, rcvVars
  <1>3. p.ack \in Nat
    BY <1>1, <1>2, PacketFields
  <1>4. CASE sndUna'["cli"] = sndUna["cli"]
    BY <1>2, <1>4, ChannelStutters DEF chanVars
  <1>5. CASE sndUna'["cli"] # sndUna["cli"]
    <2>1. e = "cli" /\ sndUna'["cli"] = p.ack + 1 /\ p.ack + 1 > sndUna["cli"]
      BY <1>1, <1>2, <1>3, <1>5 DEF Max2
    <2>2. 1 .. p.ack \subseteq everDlv
      BY <1>2, <2>1 DEF IInv, AcksTrue
    <2>3. /\ sndUna'["cli"] - 1 = p.ack /\ sndUna'["cli"] - 1 > sndUna["cli"] - 1
      BY <1>1, <1>3, <2>1
    <2>4. Channel!Confirm
      BY <1>2, <1>3, <2>2, <2>3 DEF Channel!Confirm
    <2>5. QED
      BY <2>4 DEF Channel!Next
  <1>6. QED
    BY <1>4, <1>5

LEMMA StepRefines ==
  ASSUME IInv, NoWrap, [Next]_vars PROVE [Channel!Next]_(Channel!vars)
  <1>1. CASE ClientConnect
    BY <1>1, ChannelStutters DEF ClientConnect, chanVars, sndVars, rcvVars
  <1>2. ASSUME NEW k \in FragCounts, NEW ok, ClientSend(k, ok)
        PROVE  [Channel!Next]_(Channel!vars)
    BY <1>2, SendOffers
  <1>3. CASE ClientPing
    BY <1>3, ChannelStutters DEF ClientPing, chanVars, sndVars, rcvVars
  <1>4. ASSUME NEW e \in Ends, Close(e) PROVE [Channel!Next]_(Channel!vars)
    BY <1>4, ChannelStutters DEF Close, chanVars, sndVars, rcvVars
  <1>5. ASSUME NEW p \in net, Receive(p) PROVE [Channel!Next]_(Channel!vars)
    <2>1. ASSUME NEW e \in Ends, ReceiveData(e, p) PROVE [Channel!Next]_(Channel!vars)
      <3>1. PICK n, again :
              \/ e = "cli" /\ ClientData(p, n, again)
              \/ e = "srv" /\ ServerData(p, n, again)
              \/ \E survives \in BOOLEAN : DataThrows(e, p, n, again, survives)
        BY <2>1 DEF ReceiveData
      <3>2. sndNxt \in [Ends -> Nat \ {0}]
        BY DEF IInv, TypeOK
      <3>3. Accept(e, p, n)
        BY <3>1 DEF ClientData, ServerData, DataThrows
      <3>4. sndNxt'["cli"] = sndNxt["cli"] /\ sndUna'["cli"] = sndUna["cli"]
        BY <3>1, <3>2 DEF ClientData, ServerData, DataThrows, QueueAndDrain, sndVars, Ends
      <3>5. QED
        BY <3>3, <3>4, AcceptDelivers
    <2>2. ASSUME NEW e \in Ends, NEW again, ReceiveAck(e, p, again)
          PROVE  [Channel!Next]_(Channel!vars)
      BY <2>2, AckConfirms
    <2>3. ASSUME NEW again, ReceivePing(p, again) PROVE [Channel!Next]_(Channel!vars)
      BY <2>3, ChannelStutters DEF ReceivePing, chanVars, sndVars, rcvVars
    <2>4. QED
      BY <1>5, <2>1, <2>2, <2>3 DEF Receive
  <1>6. ASSUME NEW e \in Ends, NEW overdue, Sweep(e, overdue)
        PROVE  [Channel!Next]_(Channel!vars)
    BY <1>6, ChannelStutters DEF Sweep, chanVars, rcvVars
  <1>7. CASE ServerExpire
    <2>1. /\ sndNxt \in [Ends -> Nat \ {0}] /\ sndUna \in [Ends -> Nat \ {0}]
          /\ dlv \in [Ends -> Seq(Nat)] /\ "srv" \in Ends /\ "cli" \in Ends
      BY DEF IInv, TypeOK, Ends
    <2>2. /\ dlv'["srv"] = <<>> /\ everDlv' = everDlv
          /\ sndNxt'["cli"] = sndNxt["cli"] /\ sndUna'["cli"] = sndUna["cli"]
      BY <1>7, <2>1 DEF ServerExpire
    <2>3. QED
      BY <2>2 DEF Channel!Restart, Channel!Next
  <1>8. ASSUME NEW p, Lose(p) PROVE [Channel!Next]_(Channel!vars)
    BY <1>8, ChannelStutters DEF Lose, chanVars, sndVars, rcvVars
  <1>9. CASE UNCHANGED vars
    BY <1>9, ChannelStutters DEF vars, chanVars, sndVars, rcvVars
  <1>10. QED
    BY <1>1, <1>2, <1>3, <1>4, <1>5, <1>6, <1>7, <1>8, <1>9 DEF Next

\* The KCP transport implements a reliable channel (ReliableChannel), for any
\* windows, frame sizes and number of expiries, as long as the client's numbers
\* fit the wire.
THEOREM Refinement ==
  ASSUME NoWrap PROVE Spec => Channel!Spec /\ ImplementsChannel
  <1>1. Init => Channel!Init
    BY DEF Init, Channel!Init, Ends
  <1>2. IInv /\ [Next]_vars => [Channel!Next]_(Channel!vars)
    BY StepRefines
  <1>3. [Channel!Next]_(Channel!vars) => [NoAlias' => Channel!Next]_(Channel!vars)
    OBVIOUS
  <1>4. QED
    BY <1>1, <1>2, <1>3, Invariance, PTL DEF Spec, ImplementsChannel, Channel!Spec
=============================================================================
