--------------------------- MODULE KcpEchoProofs ---------------------------
(***************************************************************************)
(* More about KcpArq, on top of its inductive invariant: the direction     *)
(* from the server to the client while the first session lives, and the    *)
(* bound on what a sender has in flight.                                   *)
(***************************************************************************)
EXTENDS KcpArqProofs, SharedLemmas

\* A data packet to the client carries the echo whose number it bears, and
\* so does what the client has buffered.
EchoesTrue ==
  /\ \A p \in net : p.type = "data" /\ p.to = "cli" =>
       p.seq \in 1 .. Len(echo) /\ p.pay = echo[p.seq]
  /\ \A s \in DOMAIN recvBuf["cli"] : s \in 1 .. Len(echo) /\ recvBuf["cli"][s] = echo[s]

\* The client's mux has the echoes before the one the client waits for.
EchoesDelivered ==
  /\ Len(dlv["cli"]) = rcvNxt["cli"] - 1 /\ rcvNxt["cli"] - 1 <= Len(echo)
  /\ \A i \in 1 .. Len(dlv["cli"]) : dlv["cli"][i] = echo[i]

\* The client's acks cover no echo that it waits for.
EchoAcksTrue ==
  /\ \A p \in net : p.type = "ack" /\ p.to = "srv" => p.ack <= rcvNxt["cli"] - 1
  /\ sndUna["srv"] <= rcvNxt["cli"]
  /\ \A s \in pending["srv"] : s >= sndUna["srv"]

EchoInv == expiries = 0 => EchoesTrue /\ EchoesDelivered /\ EchoAcksTrue

FlightInv == \A e \in Ends : Cardinality(InFlight(sndUna[e], sent[e])) <= SndWnd
-----------------------------------------------------------------------------
(* The send window. *)

(* drainSendWindow transmits no more segments than its budget: those before *)
(* the last of them are all among the fresh ones below it.                  *)
LEMMA BurstSize ==
  ASSUME NEW una, NEW top \in Nat, NEW pend \in SUBSET (1 .. top), NEW snt, NEW cw \in Nat,
         Cardinality(InFlight(una, snt)) \in Nat
  PROVE  LET burst == Burst(una, pend, snt, cw)
             fly   == Cardinality(InFlight(una, snt))
         IN /\ IsFiniteSet(burst) /\ Cardinality(burst) \in Nat
            /\ burst = {} \/ Cardinality(burst) + fly <= SndWnd
  <1> DEFINE burst  == Burst(una, pend, snt, cw)
             fly    == Cardinality(InFlight(una, snt))
             budget == Max2(0, Min2(SndWnd, cw) - fly)
             fresh  == {s \in pend \ snt : s >= una}
             below(s) == {t \in fresh : t < s}
  <1>1. burst = {s \in fresh : Cardinality(below(s)) < budget}
    BY DEF Burst
  <1>2. fresh \subseteq pend /\ IsFiniteSet(fresh)
    <2>1. pend \in SUBSET Nat /\ \A s \in pend : s <= top
      OBVIOUS
    <2>2. IsFiniteSet(pend)
      BY <2>1, FS_BoundedSetOfNaturals
    <2> QED
      BY <2>2, FS_Subset
  <1> HIDE DEF fresh, burst, fly
  <1>3. IsFiniteSet(burst) /\ Cardinality(burst) \in Nat /\ burst \subseteq fresh
    BY <1>1, <1>2, FS_Subset, FS_CardinalityType
  <1>4. ASSUME burst # {}
        PROVE  Cardinality(burst) + fly <= SndWnd
    <2>1. PICK m \in burst : \A s \in burst : s <= m
      <3>1. \A s \in burst : s \in Nat /\ s <= top
        BY <1>2, <1>3
      <3> DEFINE gaps == {top - s : s \in burst}
      <3>2. gaps \in SUBSET Nat /\ gaps # {}
        <4>1. \A s \in burst : top - s \in Nat
          BY <3>1
        <4>2. PICK s \in burst : TRUE
          BY <1>4
        <4>3. top - s \in gaps
          OBVIOUS
        <4> QED
          BY <4>1, <4>3
      <3> HIDE DEF gaps
      <3>3. PICK x \in gaps : \A y \in gaps : x <= y
        BY <3>2, SmallestOf
      <3>4. PICK m \in burst : x = top - m
        BY <3>3 DEF gaps
      <3>5. ASSUME NEW s \in burst
            PROVE  s <= m
        <4>1. top - s \in gaps
          BY DEF gaps
        <4>2. top - m <= top - s
          BY <3>3, <3>4, <4>1
        <4>3. s \in Nat /\ m \in Nat
          BY <1>2, <1>3
        <4> QED
          BY <4>2, <4>3
      <3> QED
        BY <3>5
    <2>2. Cardinality(below(m)) < budget /\ IsFiniteSet(below(m)) /\ Cardinality(below(m)) \in Nat
      BY <1>1, <1>2, <2>1, FS_Subset, FS_CardinalityType
    <2>3. burst \ {m} \subseteq below(m)
      BY <1>2, <1>3, <2>1
    <2> HIDE DEF below
    <2>4. Cardinality(burst \ {m}) = Cardinality(burst) - 1
      BY <1>3, <2>1, FS_RemoveElement
    <2>5. Cardinality(burst \ {m}) <= Cardinality(below(m))
      BY <2>2, <2>3, FS_Subset
    <2>6. Cardinality(burst) <= budget
      BY <1>3, <2>2, <2>4, <2>5, WindowsAssumption DEF Max2, Min2, fly
    <2>7. budget > 0
      BY <2>2, WindowsAssumption DEF Max2, Min2, fly
    <2>8. fly \in Nat
      BY DEF fly
    <2> QED
      BY <1>3, <2>6, <2>7, <2>8, WindowsAssumption DEF Max2, Min2
  <1> QED
    BY <1>3, <1>4 DEF burst, fly

(* Draining never puts more than sndWnd segments in flight.                 *)
LEMMA DrainFits ==
  ASSUME NEW una, NEW top \in Nat, NEW pend \in SUBSET (1 .. top), NEW snt \in SUBSET (1 .. top),
         NEW cw \in Nat, Cardinality(InFlight(una, snt)) <= SndWnd
  PROVE  Cardinality(InFlight(una, snt \cup Burst(una, pend, snt, cw))) <= SndWnd
  <1> DEFINE burst == Burst(una, pend, snt, cw)
             fly   == InFlight(una, snt)
             all   == InFlight(una, snt \cup burst)
  <1>1. IsFiniteSet(fly) /\ Cardinality(fly) \in Nat
    <2>1. snt \in SUBSET Nat /\ \A s \in snt : s <= top
      OBVIOUS
    <2>2. IsFiniteSet(snt)
      BY <2>1, FS_BoundedSetOfNaturals
    <2>3. fly \in SUBSET snt
      BY DEF InFlight
    <2> QED
      BY <2>2, <2>3, FS_Subset, FS_CardinalityType
  <1>2. /\ IsFiniteSet(burst) /\ Cardinality(burst) \in Nat
        /\ burst = {} \/ Cardinality(burst) + Cardinality(fly) <= SndWnd
    BY <1>1, BurstSize
  <1>3. all \subseteq fly \cup burst
    BY DEF InFlight
  <1> HIDE DEF burst, all, fly
  <1>4. IsFiniteSet(fly \cup burst) /\ Cardinality(all) <= Cardinality(fly \cup burst)
        /\ Cardinality(all) \in Nat /\ Cardinality(fly \cup burst) \in Nat
    BY <1>1, <1>2, <1>3, FS_Union, FS_Subset, FS_CardinalityType
  <1>5. CASE burst = {}
    <2>1. fly \cup burst = fly
      BY <1>5
    <2> QED
      BY <1>1, <1>4, <2>1, WindowsAssumption DEF all, fly, burst
  <1>6. CASE burst # {}
    <2>1. /\ Cardinality(fly \cup burst) =
               Cardinality(fly) + Cardinality(burst) - Cardinality(fly \cap burst)
          /\ Cardinality(fly \cap burst) \in Nat
      BY <1>1, <1>2, FS_Union, FS_Subset, FS_CardinalityType
    <2>2. Cardinality(all) <= SndWnd
      BY <1>1, <1>2, <1>4, <1>6, <2>1, WindowsAssumption
    <2> QED
      BY <2>2 DEF all, burst
  <1> QED
    BY <1>5, <1>6

(* An ack, which drops segments and moves sndUna up, leaves fewer.          *)
LEMMA FewerInFlight ==
  ASSUME NEW una \in Nat, NEW now \in Nat, una <= now, NEW top \in Nat,
         NEW snt \in SUBSET (1 .. top), NEW rest \in SUBSET snt,
         Cardinality(InFlight(una, snt)) <= SndWnd
  PROVE  Cardinality(InFlight(now, rest)) <= SndWnd
  <1>1. snt \in SUBSET Nat /\ \A s \in snt : s <= top
    OBVIOUS
  <1>2. IsFiniteSet(snt)
    BY <1>1, FS_BoundedSetOfNaturals
  <1>3. InFlight(una, snt) \in SUBSET snt /\ InFlight(now, rest) \in SUBSET InFlight(una, snt)
    <2>1. ASSUME NEW s \in InFlight(now, rest)
          PROVE  s \in InFlight(una, snt)
      <3>1. s \in snt /\ s \in Nat /\ s >= now
        BY <1>1 DEF InFlight
      <3>2. s >= una
        BY <3>1
      <3> QED
        BY <3>1, <3>2 DEF InFlight
    <2>2. InFlight(una, snt) \in SUBSET snt
      BY DEF InFlight
    <2> QED
      BY <2>1, <2>2
  <1>4. /\ IsFiniteSet(InFlight(una, snt))
        /\ Cardinality(InFlight(una, snt)) \in Nat
    BY <1>2, <1>3, FS_Subset, FS_CardinalityType
  <1>5. /\ IsFiniteSet(InFlight(now, rest))
        /\ Cardinality(InFlight(now, rest)) <= Cardinality(InFlight(una, snt))
    BY <1>3, <1>4, FS_Subset
  <1>6. Cardinality(InFlight(now, rest)) \in Nat
    BY <1>5, FS_CardinalityType
  <1> QED
    BY <1>4, <1>5, <1>6, WindowsAssumption

(* The segments of an end, numbered from 1.                                 *)
LEMMA Numbered ==
  ASSUME IInv, NEW e \in Ends
  PROVE  /\ sndNxt[e] - 1 \in Nat /\ pending[e] \in SUBSET (1 .. sndNxt[e] - 1)
         /\ sent[e] \in SUBSET (1 .. sndNxt[e] - 1)
         /\ cwnd[e] \in Nat /\ sndUna[e] \in Nat
         /\ sndNxt \in [Ends -> Nat \ {0}] /\ sent \in [Ends -> SUBSET (Nat \ {0})]
         /\ pending \in [Ends -> SUBSET (Nat \ {0})] /\ sndUna \in [Ends -> Nat \ {0}]
  BY DEF IInv, TypeOK, SegmentsNumbered

LEMMA FlightQueue ==
  ASSUME IInv, FlightInv, NEW e \in Ends, NEW new, NEW echoes, NEW network, NEW k \in Nat,
         new \subseteq sndNxt[e] .. sndNxt[e] + k - 1, QueueAndDrain(e, new, echoes, network)
  PROVE  FlightInv'
  <1> DEFINE top   == sndNxt[e] + k
             pend  == pending[e] \cup new
             burst == Burst(sndUna[e], pend, sent[e], cwnd[e])
  <1>1. top \in Nat /\ pend \in SUBSET (1 .. top) /\ sent[e] \in SUBSET (1 .. top)
    <2>1. PICK x \in Nat \ {0} : x = sndNxt[e]
      BY Numbered
    <2>2. /\ pending[e] \in SUBSET (1 .. x - 1) /\ sent[e] \in SUBSET (1 .. x - 1)
          /\ new \in SUBSET (x .. x + k - 1)
      BY <2>1, Numbered
    <2>3. /\ 1 .. x - 1 \in SUBSET (1 .. x + k)
          /\ x .. x + k - 1 \in SUBSET (1 .. x + k)
      OBVIOUS
    <2>4. x + k \in Nat
      OBVIOUS
    <2> QED
      BY <2>1, <2>2, <2>3, <2>4
  <1>2. /\ sent' = [sent EXCEPT ![e] = @ \cup burst] /\ sndUna' = sndUna
    BY DEF QueueAndDrain
  <1>3. Cardinality(InFlight(sndUna[e], sent[e] \cup burst)) <= SndWnd
    BY <1>1, DrainFits, Numbered DEF FlightInv
  <1> HIDE DEF burst
  <1> SUFFICES ASSUME NEW g \in Ends
               PROVE  Cardinality(InFlight(sndUna[g], sent'[g])) <= SndWnd
    BY <1>2 DEF FlightInv
  <1>4. CASE g = e
    <2>1. sent'[g] = sent[e] \cup burst
      BY <1>2, <1>4, Numbered
    <2> QED
      BY <1>3, <1>4, <2>1
  <1>5. CASE g # e
    <2>1. sent'[g] = sent[g]
      BY <1>2, <1>5, Numbered
    <2> QED
      BY <2>1 DEF FlightInv
  <1> QED
    BY <1>4, <1>5

LEMMA FlightSweep ==
  ASSUME IInv, FlightInv, NEW e \in Ends, NEW overdue, Sweep(e, overdue)
  PROVE  FlightInv'
  <1> DEFINE top   == sndNxt[e] - 1
             burst == Burst(sndUna[e], pending[e], sent[e], cwnd[e])
  <1>1. top \in Nat /\ pending[e] \in SUBSET (1 .. top) /\ sent[e] \in SUBSET (1 .. top)
    BY Numbered
  <1>2. /\ sent' = [sent EXCEPT ![e] = @ \cup burst] /\ sndUna' = sndUna
    BY DEF Sweep
  <1>3. Cardinality(InFlight(sndUna[e], sent[e] \cup burst)) <= SndWnd
    BY <1>1, DrainFits, Numbered DEF FlightInv
  <1> HIDE DEF burst
  <1> SUFFICES ASSUME NEW g \in Ends
               PROVE  Cardinality(InFlight(sndUna[g], sent'[g])) <= SndWnd
    BY <1>2 DEF FlightInv
  <1>4. CASE g = e
    <2>1. sent'[g] = sent[e] \cup burst
      BY <1>2, <1>4, Numbered
    <2> QED
      BY <1>3, <1>4, <2>1
  <1>5. CASE g # e
    <2>1. sent'[g] = sent[g]
      BY <1>2, <1>5, Numbered
    <2> QED
      BY <2>1 DEF FlightInv
  <1> QED
    BY <1>4, <1>5

LEMMA FlightAck ==
  ASSUME IInv, FlightInv, NEW e \in Ends, NEW p, NEW again, ReceiveAck(e, p, again)
  PROVE  FlightInv'
  <1> DEFINE acked == {s \in pending[e] : s <= p.ack}
             una   == Max2(sndUna[e], p.ack + 1)
  <1>1. /\ sent' = [sent EXCEPT ![e] = @ \ acked] /\ sndUna' = [sndUna EXCEPT ![e] = una]
        /\ p \in net /\ p.type = "ack"
    BY DEF ReceiveAck
  <1>2. p.ack \in Nat
    BY <1>1, PacketFields DEF IInv, TypeOK
  <1>3. una \in Nat /\ sndUna[e] <= una
    BY <1>2, Numbered DEF Max2
  <1> HIDE DEF acked, una
  <1> SUFFICES ASSUME NEW g \in Ends
               PROVE  Cardinality(InFlight(sndUna'[g], sent'[g])) <= SndWnd
    BY DEF FlightInv
  <1>4. CASE g = e
    <2>1. sent'[g] = sent[e] \ acked /\ sndUna'[g] = una
      BY <1>1, <1>4, Numbered
    <2>2. /\ sndNxt[e] - 1 \in Nat /\ sent[e] \in SUBSET (1 .. sndNxt[e] - 1)
          /\ sndUna[e] \in Nat /\ sent[e] \ acked \in SUBSET sent[e]
          /\ Cardinality(InFlight(sndUna[e], sent[e])) <= SndWnd
      BY Numbered DEF FlightInv
    <2>3. Cardinality(InFlight(una, sent[e] \ acked)) <= SndWnd
      BY <1>3, <2>2, FewerInFlight, ZenonT(60)
    <2> QED
      BY <2>1, <2>3
  <1>5. CASE g # e
    <2>1. sent'[g] = sent[g] /\ sndUna'[g] = sndUna[g]
      BY <1>1, <1>5, Numbered
    <2> QED
      BY <2>1 DEF FlightInv
  <1> QED
    BY <1>4, <1>5

LEMMA FlightExpire ==
  ASSUME IInv, FlightInv, ServerExpire
  PROVE  FlightInv'
  <1>1. /\ sent' = [sent EXCEPT !["srv"] = {}] /\ sndUna' = [sndUna EXCEPT !["srv"] = 1]
    BY DEF ServerExpire
  <1> SUFFICES ASSUME NEW g \in Ends
               PROVE  Cardinality(InFlight(sndUna'[g], sent'[g])) <= SndWnd
    BY DEF FlightInv
  <1>2. CASE g = "srv"
    <2>1. InFlight(sndUna'[g], sent'[g]) = {}
      BY <1>1, <1>2, Numbered DEF InFlight
    <2>2. Cardinality({}) = 0
      BY FS_EmptySet
    <2> QED
      BY <2>1, <2>2, WindowsAssumption
  <1>3. CASE g # "srv"
    <2>1. sent'[g] = sent[g] /\ sndUna'[g] = sndUna[g]
      BY <1>1, <1>3, Numbered
    <2> QED
      BY <2>1 DEF FlightInv
  <1> QED
    BY <1>2, <1>3

LEMMA FlightSame ==
  ASSUME FlightInv, sent' = sent, sndUna' = sndUna
  PROVE  FlightInv'
  BY DEF FlightInv

LEMMA NextFlight == ASSUME IInv, FlightInv, [Next]_vars PROVE FlightInv'
  <1>1. CASE ClientConnect
    BY <1>1, FlightSame DEF ClientConnect, sndVars
  <1>2. ASSUME NEW k \in FragCounts, NEW ok, ClientSend(k, ok) PROVE FlightInv'
    <2>1. /\ QueueAndDrain("cli", sndNxt["cli"] .. sndNxt["cli"] + k - 1, echo, net)
          /\ "cli" \in Ends /\ k \in Nat
      BY <1>2, FramesAssumption DEF ClientSend, Ends
    <2> QED
      BY <2>1, FlightQueue
  <1>3. CASE ClientPing
    BY <1>3, FlightSame DEF ClientPing, sndVars
  <1>4. ASSUME NEW e \in Ends, Close(e) PROVE FlightInv'
    BY <1>4, FlightSame DEF Close, sndVars
  <1>5. ASSUME NEW p \in net, Receive(p) PROVE FlightInv'
    <2>1. ASSUME NEW e \in Ends, ReceiveData(e, p) PROVE FlightInv'
      <3>1. PICK n, again :
              \/ ClientData(p, n, again)
              \/ ServerData(p, n, again)
              \/ \E survives \in BOOLEAN : DataThrows(e, p, n, again, survives)
        BY <2>1 DEF ReceiveData
      <3>2. CASE ServerData(p, n, again)
        <4> DEFINE new == IF Len(echo) < MaxEcho THEN {sndNxt["srv"]} ELSE {}
                   network == After(p, again) \cup {Ack("cli", n - 1)}
        <4>1. QueueAndDrain("srv", new, echo', network) /\ "srv" \in Ends
          BY <3>2 DEF ServerData, Ends
        <4>2. new \subseteq sndNxt["srv"] .. sndNxt["srv"] + 1 - 1
          BY <4>1, Numbered
        <4> HIDE DEF new, network
        <4>3. 1 \in Nat
          OBVIOUS
        <4> QED
          BY <4>1, <4>2, <4>3, FlightQueue
      <3>3. CASE ClientData(p, n, again)
        BY <3>3, FlightSame DEF ClientData, sndVars
      <3>4. CASE \E survives \in BOOLEAN : DataThrows(e, p, n, again, survives)
        BY <3>4, FlightSame DEF DataThrows, sndVars
      <3> QED
        BY <3>1, <3>2, <3>3, <3>4
    <2>2. ASSUME NEW e \in Ends, NEW again, ReceiveAck(e, p, again) PROVE FlightInv'
      BY <2>2, FlightAck
    <2>3. ASSUME NEW again, ReceivePing(p, again) PROVE FlightInv'
      BY <2>3, FlightSame DEF ReceivePing, sndVars
    <2>4. QED
      BY <1>5, <2>1, <2>2, <2>3 DEF Receive
  <1>6. ASSUME NEW e \in Ends, NEW overdue, Sweep(e, overdue) PROVE FlightInv'
    BY <1>6, FlightSweep
  <1>7. CASE ServerExpire
    BY <1>7, FlightExpire
  <1>8. ASSUME NEW p, Lose(p) PROVE FlightInv'
    BY <1>8, FlightSame DEF Lose, sndVars
  <1>9. CASE UNCHANGED vars
    BY <1>9, FlightSame DEF vars, sndVars
  <1>10. QED
    BY <1>1, <1>2, <1>3, <1>4, <1>5, <1>6, <1>7, <1>8, <1>9 DEF Next

LEMMA InitFlight == Init => FlightInv
  <1> SUFFICES ASSUME Init, NEW e \in Ends
               PROVE  Cardinality(InFlight(sndUna[e], sent[e])) <= SndWnd
    BY DEF FlightInv
  <1>1. InFlight(sndUna[e], sent[e]) = {}
    BY DEF Init, InFlight
  <1>2. Cardinality({}) = 0
    BY FS_EmptySet
  <1> QED
    BY <1>1, <1>2, WindowsAssumption

(* No sender has more than sndWnd segments in flight, and no receive buffer *)
(* holds a segment outside its window, for any windows and any network.     *)
THEOREM WindowsHold == ASSUME NoWrap PROVE Spec => []WindowsRespected
  <1>1. Init => FlightInv
    BY InitFlight
  <1>2. IInv /\ FlightInv /\ [Next]_vars => FlightInv'
    BY NextFlight
  <1>3. IInv /\ FlightInv => WindowsRespected
    BY DEF IInv, BufferTrue, FlightInv, WindowsRespected
  <1> QED
    BY <1>1, <1>2, <1>3, Invariance, PTL DEF Spec
-----------------------------------------------------------------------------
(* The direction from the server to the client. *)

(* The numbers the echo invariant compares.                                 *)
LEMMA EchoTypes ==
  ASSUME IInv
  PROVE  /\ rcvNxt["cli"] \in Nat \ {0} /\ sndUna["srv"] \in Nat \ {0}
         /\ sndNxt["srv"] \in Nat \ {0} /\ sndNxt["srv"] - 1 = Len(echo)
         /\ echo \in Seq(Nat) /\ Len(echo) \in Nat /\ Len(echo) <= MaxEcho
         /\ dlv["cli"] \in Seq(Nat) /\ pending["srv"] \in SUBSET (Nat \ {0})
         /\ pending["srv"] \in SUBSET (1 .. Len(echo)) /\ sent["srv"] \in SUBSET pending["srv"]
         /\ net \subseteq Packets /\ expiries \in Nat
         /\ rcvNxt \in [Ends -> Nat \ {0}] /\ sndUna \in [Ends -> Nat \ {0}]
         /\ pending \in [Ends -> SUBSET (Nat \ {0})] /\ dlv \in [Ends -> Seq(Nat)]
         /\ DOMAIN recvBuf = Ends /\ "cli" \in Ends /\ "srv" \in Ends
  BY SMTT(30) DEF IInv, TypeOK, NumbersBounded, SegmentsNumbered, Ends

(* Steps that leave the client's receiver and the server's sndUna alone:    *)
(* echoes may be added, and data sent that carries them.                    *)
LEMMA EchoFrame ==
  ASSUME IInv, EchoInv, expiries' = expiries,
         echo' \in Seq(Nat), Len(echo) <= Len(echo'),
         \A i \in 1 .. Len(echo) : echo'[i] = echo[i],
         rcvNxt'["cli"] = rcvNxt["cli"], recvBuf'["cli"] = recvBuf["cli"],
         dlv'["cli"] = dlv["cli"], sndUna'["srv"] = sndUna["srv"],
         \A p \in net' \ net :
           /\ p.type = "data" /\ p.to = "cli" => p.seq \in 1 .. Len(echo') /\ p.pay = echo'[p.seq]
           /\ ~(p.type = "ack" /\ p.to = "srv"),
         \A s \in pending'["srv"] : s \in Nat /\ (s \in pending["srv"] \/ s >= Len(echo) + 1)
  PROVE  EchoInv'
  <1> SUFFICES ASSUME expiries' = 0
               PROVE  EchoesTrue' /\ EchoesDelivered' /\ EchoAcksTrue'
    BY DEF EchoInv
  <1>1. EchoesTrue /\ EchoesDelivered /\ EchoAcksTrue
    BY DEF EchoInv
  <1>2. /\ rcvNxt["cli"] \in Nat \ {0} /\ sndUna["srv"] \in Nat \ {0} /\ Len(echo) \in Nat
        /\ Len(echo') \in Nat /\ dlv["cli"] \in Seq(Nat)
    BY EchoTypes
  <1>3. 1 .. Len(echo) \subseteq 1 .. Len(echo')
    BY <1>2
  <1>4. EchoesTrue'
    <2>1. ASSUME NEW p \in net', p.type = "data", p.to = "cli"
          PROVE  p.seq \in 1 .. Len(echo') /\ p.pay = echo'[p.seq]
      <3>1. CASE p \in net
        BY <1>1, <1>3, <2>1, <3>1 DEF EchoesTrue
      <3>2. CASE p \notin net
        BY <2>1, <3>2
      <3> QED
        BY <3>1, <3>2
    <2>2. ASSUME NEW s \in DOMAIN recvBuf["cli"]
          PROVE  s \in 1 .. Len(echo') /\ recvBuf["cli"][s] = echo'[s]
      BY <1>1, <1>3 DEF EchoesTrue
    <2> QED
      BY <2>1, <2>2 DEF EchoesTrue
  <1>5. EchoesDelivered'
    <2>1. /\ Len(dlv["cli"]) = rcvNxt["cli"] - 1 /\ rcvNxt["cli"] - 1 <= Len(echo)
          /\ \A i \in 1 .. Len(dlv["cli"]) : dlv["cli"][i] = echo[i]
      BY <1>1 DEF EchoesDelivered
    <2>2. rcvNxt["cli"] - 1 <= Len(echo')
      BY <1>2, <2>1
    <2>3. ASSUME NEW i \in 1 .. Len(dlv["cli"])
          PROVE  dlv["cli"][i] = echo'[i]
      <3>1. i \in 1 .. Len(echo)
        BY <1>2, <2>1
      <3> QED
        BY <2>1, <3>1
    <2> QED
      BY <2>1, <2>2, <2>3 DEF EchoesDelivered
  <1>6. EchoAcksTrue'
    <2>1. ASSUME NEW p \in net', p.type = "ack", p.to = "srv"
          PROVE  p.ack <= rcvNxt["cli"] - 1
      BY <1>1, <2>1 DEF EchoAcksTrue
    <2>2. ASSUME NEW s \in pending'["srv"]
          PROVE  s >= sndUna["srv"]
      <3>1. CASE s \in pending["srv"]
        BY <1>1, <3>1 DEF EchoAcksTrue
      <3>2. CASE s >= Len(echo) + 1
        BY <1>1, <1>2, <3>2 DEF EchoAcksTrue, EchoesDelivered
      <3> QED
        BY <3>1, <3>2
    <2> QED
      BY <1>1, <2>1, <2>2 DEF EchoAcksTrue
  <1> QED
    BY <1>4, <1>5, <1>6

LEMMA EchoStill ==
  ASSUME IInv, EchoInv, UNCHANGED <<sndUna, pending, rcvVars, echo, expiries>>,
         \A p \in net' \ net : ~(p.type = "data" /\ p.to = "cli")
                               /\ ~(p.type = "ack" /\ p.to = "srv")
  PROVE  EchoInv'
  <1>1. /\ sndUna' = sndUna /\ pending' = pending /\ rcvNxt' = rcvNxt /\ recvBuf' = recvBuf
        /\ dlv' = dlv /\ echo' = echo /\ expiries' = expiries
    BY DEF rcvVars
  <1>2. echo \in Seq(Nat) /\ Len(echo) \in Nat /\ pending["srv"] \in SUBSET (Nat \ {0})
    BY EchoTypes
  <1> QED
    BY <1>1, <1>2, EchoFrame

LEMMA EchoSend ==
  ASSUME IInv, NoWrap, EchoInv, NEW k \in FragCounts, NEW ok, ClientSend(k, ok)
  PROVE  EchoInv'
  <1> DEFINE new   == sndNxt["cli"] .. sndNxt["cli"] + k - 1
             pend  == pending["cli"] \cup new
             burst == Burst(sndUna["cli"], pend, sent["cli"], cwnd["cli"])
  <1>1. /\ pending' = [pending EXCEPT !["cli"] = pend] /\ sndUna' = sndUna
        /\ net' = net \cup DataPackets("cli", burst, echo)
        /\ rcvNxt' = rcvNxt /\ recvBuf' = recvBuf /\ dlv' = dlv
        /\ echo' = echo /\ expiries' = expiries
        /\ sndNxt["cli"] + k - 1 <= MaxSeq
    BY DEF ClientSend, QueueAndDrain, rcvVars
  <1>2. burst \in SUBSET (1 .. MaxSeq)
    <2>1. PICK x \in Nat \ {0} : x = sndNxt["cli"]
      BY Numbered DEF Ends
    <2>2. /\ k \in Nat \ {0} /\ pending["cli"] \in SUBSET (1 .. x - 1)
          /\ new = x .. x + k - 1 /\ x + k - 1 <= MaxSeq
      BY <1>1, <2>1, Numbered, FramesAssumption DEF Ends
    <2>3. 1 .. x - 1 \in SUBSET (1 .. MaxSeq) /\ x .. x + k - 1 \in SUBSET (1 .. MaxSeq)
      BY <2>2, BoundsAssumption
    <2>4. burst \subseteq pend
      BY BurstIsPending
    <2> QED
      BY <2>2, <2>3, <2>4
  <1> HIDE DEF burst, pend
  <1>3. \A p \in net' \ net : p.type = "data" /\ p.to = "srv"
    BY <1>1, <1>2, ClientPackets
  <1>4. /\ pending'["srv"] = pending["srv"] /\ pending["srv"] \in SUBSET (Nat \ {0})
        /\ echo \in Seq(Nat) /\ Len(echo) \in Nat
    BY <1>1, EchoTypes
  <1> QED
    BY <1>1, <1>3, <1>4, EchoFrame

LEMMA EchoSweep ==
  ASSUME IInv, NoWrap, EchoInv, NEW e \in Ends, NEW overdue, Sweep(e, overdue)
  PROVE  EchoInv'
  <1> DEFINE burst == Burst(sndUna[e], pending[e], sent[e], cwnd[e])
             segs  == burst \cup overdue
  <1>1. /\ net' = net \cup DataPackets(e, segs, echo) /\ overdue \subseteq sent[e]
        /\ sndUna' = sndUna /\ pending' = pending /\ rcvNxt' = rcvNxt /\ recvBuf' = recvBuf
        /\ dlv' = dlv /\ echo' = echo /\ expiries' = expiries
    BY DEF Sweep, rcvVars, InFlight
  <1>2. segs \subseteq pending[e]
    BY <1>1, BurstIsPending DEF IInv, SegmentsNumbered
  <1>3. /\ echo \in Seq(Nat) /\ Len(echo) \in Nat /\ Len(echo) <= MaxEcho
        /\ pending["srv"] \in SUBSET (Nat \ {0}) /\ pending["srv"] \in SUBSET (1 .. Len(echo))
    BY EchoTypes
  <1> HIDE DEF segs
  <1>4. \A p \in net' \ net :
          /\ p.type = "data" /\ p.to = "cli" => p.seq \in 1 .. Len(echo) /\ p.pay = echo[p.seq]
          /\ ~(p.type = "ack" /\ p.to = "srv")
    <2>1. CASE e = "cli"
      <3>1. segs \in SUBSET (1 .. MaxSeq)
        <4>1. PICK x \in Nat \ {0} : x = sndNxt["cli"]
          BY <2>1, Numbered
        <4>2. x - 1 <= MaxSeq
          BY <4>1 DEF IInv, NumbersBounded
        <4>3. pending["cli"] \in SUBSET (1 .. x - 1)
          BY <2>1, <4>1, Numbered
        <4>4. 1 .. x - 1 \in SUBSET (1 .. MaxSeq)
          BY <4>2, BoundsAssumption
        <4> QED
          BY <1>2, <2>1, <4>3, <4>4
      <3> QED
        BY <1>1, <2>1, <3>1, ClientPackets
    <2>2. CASE e = "srv"
      <3>1. segs \in SUBSET (1 .. Len(echo))
        BY <1>2, <1>3, <2>2
      <3>2. ASSUME NEW p \in DataPackets("srv", segs, echo)
            PROVE  p.type = "data" /\ p.seq \in segs /\ p.pay = echo[p.seq]
        BY <1>3, <3>1, ServerPackets
      <3> QED
        BY <1>1, <2>2, <3>1, <3>2
    <2> QED
      BY <2>1, <2>2 DEF Ends
  <1> QED
    BY <1>1, <1>3, <1>4, EchoFrame

LEMMA EchoServerData ==
  ASSUME IInv, NoWrap, EchoInv, NEW p, NEW n, NEW again, ServerData(p, n, again)
  PROVE  EchoInv'
  <1> DEFINE c     == sndNxt["srv"]
             new   == IF Len(echo) < MaxEcho THEN {c} ELSE {}
             pend  == pending["srv"] \cup new
             burst == Burst(sndUna["srv"], pend, sent["srv"], cwnd["srv"])
  <1>1. /\ Accept("srv", p, n)
        /\ echo' = IF new = {} THEN echo ELSE Append(echo, p.pay)
        /\ pending' = [pending EXCEPT !["srv"] = pend]
        /\ net' = (After(p, again) \cup {Ack("cli", n - 1)})
                    \cup DataPackets("srv", burst, echo')
        /\ sndUna' = sndUna /\ expiries' = expiries
    BY DEF ServerData, QueueAndDrain
  <1>2. /\ c \in Nat \ {0} /\ Len(echo) = c - 1 /\ echo \in Seq(Nat) /\ Len(echo) <= MaxEcho
        /\ pending["srv"] \in SUBSET (1 .. Len(echo)) /\ "cli" \in Ends /\ "srv" \in Ends
        /\ Len(echo) \in Nat
    BY EchoTypes
  <1>3. p.pay \in Nat
    BY <1>1, <1>2, AcceptTypes
  <1>4. (Len(echo) < MaxEcho /\ new = {c}) \/ new = {}
    OBVIOUS
  <1>5. burst \subseteq pend
    BY BurstIsPending
  <1>6. pend = pending["srv"] \cup new
    OBVIOUS
  <1> HIDE DEF c, new, pend, burst
  <1>7. /\ echo' \in Seq(Nat) /\ Len(echo) <= Len(echo') /\ Len(echo') <= MaxEcho
        /\ \A i \in 1 .. Len(echo) : echo'[i] = echo[i]
        /\ new \in SUBSET (1 .. Len(echo')) /\ \A s \in new : s \in Nat /\ s >= Len(echo) + 1
    <2>1. CASE new = {}
      BY <1>1, <1>2, <2>1
    <2>2. CASE Len(echo) < MaxEcho /\ new = {c}
      <3>1. echo' = Append(echo, p.pay)
        BY <1>1, <2>2
      <3>2. echo' \in Seq(Nat) /\ Len(echo') = Len(echo) + 1
        BY <1>2, <1>3, <3>1
      <3>3. \A i \in 1 .. Len(echo) : echo'[i] = echo[i]
        BY <1>2, <1>3, <3>1
      <3>4. Len(echo') = c
        BY <1>2, <3>2
      <3> QED
        BY <1>2, <2>2, <3>2, <3>3, <3>4, BoundsAssumption
    <2> QED
      BY <1>4, <2>1, <2>2
  <1>8. burst \in SUBSET (1 .. Len(echo'))
    <2>1. 1 .. Len(echo) \in SUBSET (1 .. Len(echo'))
      BY <1>2, <1>7
    <2> QED
      BY <1>2, <1>5, <1>6, <1>7, <2>1
  <1>9. ASSUME NEW q \in DataPackets("srv", burst, echo')
        PROVE  q.type = "data" /\ q.seq \in burst /\ q.pay = echo'[q.seq]
    BY <1>7, <1>8, ServerPackets
  <1>10. \A q \in net' \ net :
           /\ q.type = "data" /\ q.to = "cli" => q.seq \in 1 .. Len(echo') /\ q.pay = echo'[q.seq]
           /\ ~(q.type = "ack" /\ q.to = "srv")
    <2>1. ASSUME NEW q \in net' \ net
          PROVE  \/ q = Ack("cli", n - 1)
                 \/ q \in DataPackets("srv", burst, echo')
      BY <1>1 DEF After
    <2>2. Ack("cli", n - 1).type = "ack" /\ Ack("cli", n - 1).to = "cli"
      BY DEF Ack
    <2>3. ASSUME NEW q \in DataPackets("srv", burst, echo')
          PROVE  q.type = "data" /\ q.seq \in 1 .. Len(echo') /\ q.pay = echo'[q.seq]
      BY <1>8, <1>9
    <2> QED
      BY <2>1, <2>2, <2>3
  <1>11. /\ rcvNxt'["cli"] = rcvNxt["cli"] /\ recvBuf'["cli"] = recvBuf["cli"]
         /\ dlv'["cli"] = dlv["cli"]
    BY <1>1, EchoTypes DEF Accept
  <1>12. \A s \in pending'["srv"] : s \in Nat /\ (s \in pending["srv"] \/ s >= Len(echo) + 1)
    <2>1. pending'["srv"] = pending["srv"] \cup new
      BY <1>1, <1>6, EchoTypes
    <2>2. \A s \in pending["srv"] : s \in Nat
      BY EchoTypes
    <2> QED
      BY <1>7, <2>1, <2>2
  <1> QED
    BY <1>1, <1>7, <1>10, <1>11, <1>12, EchoFrame

(* An ack of the client's: it covers only what the client's mux has.        *)
LEMMA EchoAck ==
  ASSUME IInv, EchoInv, NEW e \in Ends, NEW p, NEW again, ReceiveAck(e, p, again)
  PROVE  EchoInv'
  <1> DEFINE acked == {s \in pending[e] : s <= p.ack}
             una   == Max2(sndUna[e], p.ack + 1)
  <1>1. /\ p \in net /\ p.to = e /\ p.type = "ack"
        /\ pending' = [pending EXCEPT ![e] = @ \ acked]
        /\ sndUna' = [sndUna EXCEPT ![e] = una]
        /\ net' \subseteq net /\ rcvNxt' = rcvNxt /\ recvBuf' = recvBuf /\ dlv' = dlv
        /\ echo' = echo /\ expiries' = expiries
    BY DEF ReceiveAck, rcvVars, After
  <1>2. p.ack \in Nat
    BY <1>1, EchoTypes, PacketFields
  <1>3. CASE e = "cli"
    <2> HIDE DEF acked, una
    <2>1. pending'["srv"] = pending["srv"] /\ sndUna'["srv"] = sndUna["srv"]
      BY <1>1, <1>3, EchoTypes
    <2>2. echo \in Seq(Nat) /\ Len(echo) \in Nat /\ pending["srv"] \in SUBSET (Nat \ {0})
      BY EchoTypes
    <2> QED
      BY <1>1, <2>1, <2>2, EchoFrame
  <1>4. CASE e = "srv"
    <2> SUFFICES ASSUME expiries' = 0
                 PROVE  EchoesTrue' /\ EchoesDelivered' /\ EchoAcksTrue'
      BY DEF EchoInv
    <2>1. EchoesTrue /\ EchoesDelivered /\ EchoAcksTrue
      BY <1>1 DEF EchoInv
    <2>2. pending'["srv"] = pending["srv"] \ acked /\ sndUna'["srv"] = una
      BY <1>1, <1>4, EchoTypes
    <2>3. EchoesTrue' /\ EchoesDelivered'
      BY <1>1, <2>1 DEF EchoesTrue, EchoesDelivered
    <2>4. /\ p.ack <= rcvNxt["cli"] - 1 /\ sndUna["srv"] <= rcvNxt["cli"]
          /\ \A s \in pending["srv"] : s >= sndUna["srv"]
          /\ \A q \in net : q.type = "ack" /\ q.to = "srv" => q.ack <= rcvNxt["cli"] - 1
      BY <1>1, <1>4, <2>1 DEF EchoAcksTrue
    <2>5. /\ rcvNxt["cli"] \in Nat /\ sndUna["srv"] \in Nat
          /\ \A s \in pending["srv"] : s \in Nat
      BY EchoTypes
    <2>6. una <= rcvNxt["cli"]
      BY <1>2, <1>4, <2>4, <2>5 DEF Max2
    <2>7. ASSUME NEW s \in pending["srv"] \ acked
          PROVE  s >= una
      BY <1>2, <1>4, <2>4, <2>5 DEF Max2
    <2> HIDE DEF acked, una
    <2>8. EchoAcksTrue'
      BY <1>1, <2>2, <2>4, <2>6, <2>7 DEF EchoAcksTrue
    <2> QED
      BY <2>3, <2>8
  <1> QED
    BY <1>3, <1>4 DEF Ends

(* The client's receive loop hands over the echoes rcvNxt .. n - 1.         *)
LEMMA AcceptClient ==
  ASSUME IInv, EchoesTrue, EchoesDelivered, NEW p, NEW n, Accept("cli", p, n)
  PROVE  /\ rcvNxt'["cli"] = n /\ n \in Nat \ {0} /\ rcvNxt["cli"] <= n /\ n - 1 <= Len(echo)
         /\ Len(dlv'["cli"]) = n - 1 /\ \A i \in 1 .. n - 1 : dlv'["cli"][i] = echo[i]
         /\ \A s \in DOMAIN recvBuf'["cli"] :
              s \in 1 .. Len(echo) /\ recvBuf'["cli"][s] = echo[s]
  <1> DEFINE buf == Buffered("cli", p)
             r   == rcvNxt["cli"]
             old == dlv["cli"]
             got == Run(buf, r, n)
  <1>1. /\ "cli" \in Ends /\ DOMAIN recvBuf = Ends /\ dlv \in [Ends -> Seq(Nat)]
        /\ rcvNxt \in [Ends -> Nat \ {0}] /\ r \in Nat \ {0} /\ Len(echo) \in Nat
        /\ old \in Seq(Nat)
    BY EchoTypes
  <1>2. /\ p \in net /\ n \in Nat \ {0} /\ n >= r /\ r .. n - 1 \subseteq DOMAIN buf
        /\ got \in Seq(Nat)
    BY <1>1, AcceptTypes
  <1>3. /\ p.to = "cli" /\ p.type = "data"
        /\ rcvNxt' = [rcvNxt EXCEPT !["cli"] = n]
        /\ recvBuf' = [recvBuf EXCEPT !["cli"] = Drop(buf, r .. n)]
        /\ dlv' = [dlv EXCEPT !["cli"] = @ \o got]
    BY DEF Accept
  <1>4. p.seq \in 1 .. Len(echo) /\ p.pay = echo[p.seq]
    BY <1>2, <1>3 DEF EchoesTrue
  <1>5. \A s \in DOMAIN buf : s \in 1 .. Len(echo) /\ buf[s] = echo[s]
    BY <1>4 DEF Buffered, Put, EchoesTrue
  <1>6. got = [i \in 1 .. n - r |-> buf[r + i - 1]]
    BY DEF Run
  <1>7. Drop(buf, r .. n) = [s \in DOMAIN buf \ (r .. n) |-> buf[s]]
    BY DEF Drop
  <1>8. Len(old) = r - 1 /\ r - 1 <= Len(echo) /\ \A i \in 1 .. r - 1 : old[i] = echo[i]
    BY DEF EchoesDelivered
  <1> HIDE DEF buf, r, got, old
  <1>9. Len(got) = n - r
    <2>1. DOMAIN got = 1 .. n - r /\ n - r \in Nat
      BY <1>1, <1>2, <1>6
    <2> QED
      BY <1>2, <2>1
  <1>10. dlv'["cli"] = old \o got /\ rcvNxt'["cli"] = n
    BY <1>1, <1>3 DEF old
  <1>11. Len(old \o got) = n - 1
    <2>1. Len(old \o got) = Len(old) + Len(got)
      BY <1>1, <1>2, ConcatParts
    <2> QED
      BY <1>1, <1>2, <1>8, <1>9, <2>1
  <1>12. ASSUME NEW i \in 1 .. n - 1
         PROVE  (old \o got)[i] = echo[i]
    <2>1. CASE i <= r - 1
      <3>1. i \in 1 .. r - 1
        BY <1>1, <2>1
      <3>2. (old \o got)[i] = old[i]
        BY <1>1, <1>2, <1>8, <3>1
      <3> QED
        BY <1>8, <3>1, <3>2
    <2>2. CASE i > r - 1
      <3>1. i - (r - 1) \in 1 .. n - r /\ r + (i - (r - 1)) - 1 = i /\ i \in r .. n - 1
        BY <1>1, <1>2, <2>2
      <3>2. (old \o got)[i] = got[i - (r - 1)]
        BY <1>1, <1>2, <1>8, <1>9, <2>2, <3>1
      <3>3. got[i - (r - 1)] = buf[i]
        BY <1>6, <3>1
      <3>4. buf[i] = echo[i]
        BY <1>2, <1>5, <3>1
      <3> QED
        BY <3>2, <3>3, <3>4
    <2>3. i <= r - 1 \/ i > r - 1
      BY <1>1, <1>2
    <2> QED
      BY <2>1, <2>2, <2>3
  <1>13. n - 1 <= Len(echo)
    <2>1. CASE n = r
      BY <1>8, <2>1
    <2>2. CASE n # r
      <3>1. n - 1 \in r .. n - 1
        BY <1>1, <1>2, <2>2
      <3>2. n - 1 \in 1 .. Len(echo)
        BY <1>2, <1>5, <3>1
      <3> QED
        BY <1>1, <3>2
    <2> QED
      BY <2>1, <2>2
  <1>14. \A s \in DOMAIN recvBuf'["cli"] : s \in 1 .. Len(echo) /\ recvBuf'["cli"][s] = echo[s]
    <2>1. recvBuf'["cli"] = [s \in DOMAIN buf \ (r .. n) |-> buf[s]]
      BY <1>1, <1>3, <1>7
    <2> QED
      BY <1>5, <2>1
  <1> QED
    BY <1>2, <1>10, <1>11, <1>12, <1>13, <1>14 DEF r

(* What the client has then, and an ack that says so.                       *)
LEMMA EchoAccept ==
  ASSUME IInv, NoWrap, EchoInv, NEW p, NEW n, Accept("cli", p, n),
         sndUna' = sndUna, pending' = pending, echo' = echo, expiries' = expiries,
         net' \subseteq net \cup {Ack("srv", n - 1)}
  PROVE  EchoInv'
  <1> SUFFICES ASSUME expiries' = 0
               PROVE  EchoesTrue' /\ EchoesDelivered' /\ EchoAcksTrue'
    BY DEF EchoInv
  <1>1. EchoesTrue /\ EchoesDelivered /\ EchoAcksTrue
    BY DEF EchoInv
  <1>2. /\ rcvNxt'["cli"] = n /\ n \in Nat \ {0} /\ rcvNxt["cli"] <= n /\ n - 1 <= Len(echo)
        /\ Len(dlv'["cli"]) = n - 1 /\ \A i \in 1 .. n - 1 : dlv'["cli"][i] = echo[i]
        /\ \A s \in DOMAIN recvBuf'["cli"] :
             s \in 1 .. Len(echo) /\ recvBuf'["cli"][s] = echo[s]
    BY <1>1, AcceptClient
  <1>3. /\ Len(echo) \in Nat /\ Len(echo) <= MaxEcho
        /\ rcvNxt["cli"] \in Nat /\ sndUna["srv"] \in Nat /\ net \subseteq Packets
    BY EchoTypes
  <1>4. /\ Ack("srv", n - 1).ack = n - 1 /\ Ack("srv", n - 1).type = "ack"
    <2>1. n - 1 \in Nat /\ n - 1 < WireMod
      BY <1>2, <1>3, BoundsAssumption, WindowsAssumption DEF NoWrap
    <2>2. Wire(n - 1) = n - 1
      BY <2>1, WireExact
    <2> QED
      BY <2>2 DEF Ack
  <1>5. EchoesTrue'
    BY <1>1, <1>2, <1>4 DEF EchoesTrue
  <1>6. EchoesDelivered'
    BY <1>2 DEF EchoesDelivered
  <1>7. EchoAcksTrue'
    <2>1. ASSUME NEW q \in net', q.type = "ack", q.to = "srv"
          PROVE  q.ack <= n - 1
      <3>1. CASE q \in net
        <4>1. q.ack <= rcvNxt["cli"] - 1 /\ q.ack \in Nat
          BY <1>1, <1>3, <2>1, <3>1, PacketFields DEF EchoAcksTrue
        <4> QED
          BY <1>2, <1>3, <4>1
      <3>2. CASE q = Ack("srv", n - 1)
        BY <1>2, <1>4, <3>2
      <3> QED
        BY <3>1, <3>2
    <2>2. sndUna["srv"] <= n
      BY <1>1, <1>2, <1>3 DEF EchoAcksTrue
    <2> QED
      BY <1>1, <1>2, <2>1, <2>2 DEF EchoAcksTrue
  <1> QED
    BY <1>5, <1>6, <1>7

LEMMA NextEcho == ASSUME IInv, NoWrap, EchoInv, [Next]_vars PROVE EchoInv'
  <1>1. CASE ClientConnect
    BY <1>1, EchoStill DEF ClientConnect, sndVars
  <1>2. ASSUME NEW k \in FragCounts, NEW ok, ClientSend(k, ok) PROVE EchoInv'
    BY <1>2, EchoSend
  <1>3. CASE ClientPing
    <2>1. \A p \in net' \ net : p.type = "ping"
      BY <1>3 DEF ClientPing, Ping
    <2> QED
      BY <1>3, <2>1, EchoStill DEF ClientPing, sndVars
  <1>4. ASSUME NEW e \in Ends, Close(e) PROVE EchoInv'
    BY <1>4, EchoStill DEF Close, sndVars
  <1>5. ASSUME NEW p \in net, Receive(p) PROVE EchoInv'
    <2>1. ASSUME NEW e \in Ends, ReceiveData(e, p) PROVE EchoInv'
      <3>1. PICK n, again :
              \/ ClientData(p, n, again)
              \/ ServerData(p, n, again)
              \/ \E survives \in BOOLEAN : DataThrows(e, p, n, again, survives)
        BY <2>1 DEF ReceiveData
      <3>2. CASE ServerData(p, n, again)
        BY <3>2, EchoServerData
      <3>3. CASE ClientData(p, n, again)
        <4>1. /\ Accept("cli", p, n) /\ net' \subseteq net \cup {Ack("srv", n - 1)}
              /\ sndUna' = sndUna /\ pending' = pending /\ echo' = echo /\ expiries' = expiries
          BY <3>3 DEF ClientData, sndVars, After
        <4> QED
          BY <4>1, EchoAccept
      <3>4. CASE \E survives \in BOOLEAN : DataThrows(e, p, n, again, survives)
        <4>1. /\ Accept(e, p, n) /\ net' \subseteq net
              /\ sndUna' = sndUna /\ pending' = pending /\ echo' = echo /\ expiries' = expiries
          BY <3>4 DEF DataThrows, sndVars, After
        <4>2. CASE e = "cli"
          BY <4>1, <4>2, EchoAccept
        <4>3. CASE e = "srv"
          <5>1. /\ rcvNxt'["cli"] = rcvNxt["cli"] /\ recvBuf'["cli"] = recvBuf["cli"]
                /\ dlv'["cli"] = dlv["cli"]
            BY <4>1, <4>3, EchoTypes DEF Accept
          <5>2. echo \in Seq(Nat) /\ Len(echo) \in Nat /\ pending["srv"] \in SUBSET (Nat \ {0})
            BY EchoTypes
          <5> QED
            BY <4>1, <5>1, <5>2, EchoFrame
        <4> QED
          BY <4>2, <4>3 DEF Ends
      <3> QED
        BY <3>1, <3>2, <3>3, <3>4
    <2>2. ASSUME NEW e \in Ends, NEW again, ReceiveAck(e, p, again) PROVE EchoInv'
      BY <2>2, EchoAck
    <2>3. ASSUME NEW again, ReceivePing(p, again) PROVE EchoInv'
      <3>1. \A q \in net' \ net : q.type = "ack" /\ q.to = "cli"
        BY <2>3 DEF ReceivePing, After, Ack
      <3> QED
        BY <2>3, <3>1, EchoStill DEF ReceivePing, sndVars
    <2> QED
      BY <1>5, <2>1, <2>2, <2>3 DEF Receive
  <1>6. ASSUME NEW e \in Ends, NEW overdue, Sweep(e, overdue) PROVE EchoInv'
    BY <1>6, EchoSweep
  <1>7. CASE ServerExpire
    <2>1. expiries' = expiries + 1 /\ expiries \in Nat
      BY <1>7, EchoTypes DEF ServerExpire
    <2>2. expiries' # 0
      BY <2>1
    <2> QED
      BY <2>2 DEF EchoInv
  <1>8. ASSUME NEW p, Lose(p) PROVE EchoInv'
    BY <1>8, EchoStill DEF Lose, sndVars
  <1>9. CASE UNCHANGED vars
    BY <1>9, EchoStill DEF vars, sndVars
  <1> QED
    BY <1>1, <1>2, <1>3, <1>4, <1>5, <1>6, <1>7, <1>8, <1>9 DEF Next

LEMMA InitEcho == Init => EchoInv
  <1> SUFFICES ASSUME Init PROVE EchoesTrue /\ EchoesDelivered /\ EchoAcksTrue
    BY DEF EchoInv
  <1>1. /\ net = {} /\ DOMAIN recvBuf["cli"] = {} /\ dlv["cli"] = <<>> /\ rcvNxt["cli"] = 1
        /\ sndUna["srv"] = 1 /\ pending["srv"] = {} /\ echo = <<>>
    BY DEF Init, Ends
  <1>2. Len(<<>>) = 0
    OBVIOUS
  <1> QED
    BY <1>1, <1>2 DEF EchoesTrue, EchoesDelivered, EchoAcksTrue

(* As long as the server keeps the session, EchoInv holds.                  *)
LEMMA EchoInvariance == ASSUME NoWrap PROVE Spec => []EchoInv
  <1>1. Init => EchoInv
    BY InitEcho
  <1>2. IInv /\ EchoInv /\ [Next]_vars => EchoInv'
    BY NextEcho
  <1> QED
    BY <1>1, <1>2, Invariance, PTL DEF Spec

(* Until the server forgets the session, the client's mux gets the server's *)
(* echoes in the order they were queued, for any windows and any network.   *)
THEOREM EchoesInOrder == ASSUME NoWrap PROVE Spec => []EchoInOrder
  <1>1. IInv /\ EchoInv => EchoInOrder
    <2> SUFFICES ASSUME IInv, EchoInv, expiries = 0
                 PROVE  /\ Len(dlv["cli"]) <= Len(echo)
                        /\ \A i \in 1 .. Len(dlv["cli"]) : dlv["cli"][i] = echo[i]
      BY DEF EchoInOrder
    <2> QED
      BY DEF EchoInv, EchoesDelivered
  <1> QED
    BY <1>1, Invariance, EchoInvariance, PTL

(* No segment waits below sndUna, where the sender never looks again: acks  *)
(* cover exactly what they take out of the pending map.                     *)
THEOREM NobodyStranded == ASSUME NoWrap PROVE Spec => []NoneStranded
  <1>1. IInv /\ EchoInv => NoneStranded
    <2> SUFFICES ASSUME IInv, EchoInv, NEW e \in Ends, e = "cli" \/ expiries = 0,
                        NEW s \in pending[e]
                 PROVE  s >= sndUna[e]
      BY DEF NoneStranded
    <2>1. CASE e = "cli"
      BY <2>1 DEF IInv, DeliveredTrue
    <2>2. CASE e = "srv"
      BY <2>2 DEF EchoInv, EchoAcksTrue
    <2> QED
      BY <2>1, <2>2 DEF Ends
  <1> QED
    BY <1>1, Invariance, EchoInvariance, PTL
============================================================================
