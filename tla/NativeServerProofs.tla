------------------------- MODULE NativeServerProofs -------------------------
(***************************************************************************)
(* Theorems about NativeServer, for any number of connections, any options *)
(* and scripts, any payload length, limits and turns, and whatever the OS  *)
(* takes of a write.                                                       *)
(***************************************************************************)
EXTENDS NativeServer, SharedLemmas, FiniteSetTheorems, FunctionTheorems

Events == [e : Locked \cup {"clientClosed"}, c : Conns, f : Nat]
Notes == [e : {"connection", "message", "clientClosed"}, f : Nat]
Links == [send_queue : Seq(Seq(Bytes)), queued_bytes : Nat, backpressured : BOOLEAN,
          closing : BOOLEAN, writable_scheduled : BOOLEAN, rx : Nat, rx_frames : Nat]
Sockets == [out : Seq(Seq(Bytes)), pollout : BOOLEAN, wire : Seq(Bytes)]
Mirrors == [state : {"none", "pending", "accepted"}, backpressured : BOOLEAN,
            pending : Seq(Nat), verifying : BOOLEAN]

\* Where the service thread is, as a connection sees it.
View(sv, c) == IF sv # Polling /\ sv.c = c THEN sv ELSE Polling

\* A connection that is open has a peer, and only such a one is served.
Alive ==
  /\ \A c \in Conns : c \in connections <=> peer[c] \in {"up", "fin", "rst"}
  /\ \A c \in Conns : c \notin connections =>
       conn[c] = NewConnection /\ skt[c] = NewSocket /\ posted[c] = 0
  /\ svc # Polling => svc.c \in connections
  /\ svc.at = "account" => svc.n < MaxWrites
-----------------------------------------------------------------------------
(* The bytes of a connection. *)

NoneEmpty(list) == \A i \in DOMAIN list : list[i] # <<>>

\* queued_bytes counts what the queue and the write under way hold, and the
\* flag follows it.
CountInv(k, v) ==
  /\ NoneEmpty(k.send_queue) /\ IsFiniteSet(Held(k.send_queue))
  /\ v.at # "kill" =>
       /\ k.queued_bytes = Cardinality(Held(k.send_queue))
                             + IF v.at = "account" THEN Len(v.next) ELSE 0
       /\ k.backpressured => k.queued_bytes > 0 \/ v.at \in {"write", "account", "end"}
       /\ ~k.backpressured => k.queued_bytes = 0 \/ k.queued_bytes < MaxBackpressure

\* A segment holds consecutive bytes of the stream, Low(seg) .. High(seg).
Low(seg) == Place(seg[1])
High(seg) == Low(seg) + Len(seg) - 1
Run(seg) == seg # <<>> /\ \A u \in DOMAIN seg : Place(seg[u]) = Low(seg) + u - 1

\* Segments that follow each other without a gap, behind the first h bytes, and
\* how far they reach.
Chain(list, h) ==
  \A i \in DOMAIN list :
    /\ Run(list[i])
    /\ Low(list[i]) <= 1 + IF i = 1 THEN h ELSE High(list[i - 1])
Reach(list, h) == IF list = <<>> THEN h ELSE High(list[Len(list)])

Gapless(wire) ==
  \A p \in DOMAIN wire :
    Place(wire[p]) = 1 \/ \E q \in 1 .. p - 1 : Place(wire[q]) + 1 = Place(wire[p])
Covered(wire, h) == \A n \in 1 .. h : \E p \in DOMAIN wire : Place(wire[p]) = n

\* Behind the bytes the OS took come those libwebsockets holds, then those of
\* the queue: all of it without a gap, up to the last payload queued.  While a
\* write is booked, the queue follows the payload written.
WireInv(k, s, n, v) ==
  /\ Gapless(s.wire) /\ NoneEmpty(s.out)
  /\ v.at # "kill" => \E h \in Nat :
       LET r == Reach(s.out, h)
           b == IF v.at = "account" THEN High(v.next) ELSE r
       IN /\ Covered(s.wire, h) /\ Chain(s.out, h)
          /\ v.at = "account" => Run(v.next) /\ b <= r
          /\ Chain(k.send_queue, b) /\ Reach(k.send_queue, b) >= n * MsgLen

Both(k, s, n, v) == CountInv(k, v) /\ WireInv(k, s, n, v)

Safe == TypeOK /\ Alive /\ \A c \in Conns : Both(conn[c], skt[c], posted[c], View(svc, c))
-----------------------------------------------------------------------------
(* The events of a connection, in a sequence s of events, and the notes t of *)
(* what the application was told.                                            *)

Queues(s, c, e) == \E i \in DOMAIN s : s[i].c = c /\ s[i].e = e
Alone(s, c, e) ==
  \A i, j \in DOMAIN s : s[i].c = c /\ s[i].e = e /\ s[j].c = c /\ s[j].e = e => i = j

\* Behind each backpressure comes a drain, unless it still is to come.
Drained(s, c, coming) ==
  \A i \in DOMAIN s : s[i].c = c /\ s[i].e = "backpressure" =>
    coming \/ \E j \in DOMAIN s : i < j /\ s[j].c = c /\ s[j].e = "drain"

\* Before each message comes its connection, unless it has come.
Messages(s, c) == {i \in DOMAIN s : s[i].e = "message" /\ s[i].c = c}
Led(s, c, come) ==
  \A i \in Messages(s, c) :
    come \/ \E j \in DOMAIN s : j < i /\ s[j].c = c /\ s[j].e = "connection"

Notices(t, e) == \E i \in DOMAIN t : t[i].e = e
NoticedOnce(t, e) == \A i, j \in DOMAIN t : t[i].e = e /\ t[j].e = e => i = j
NoticedBefore(t, e1, e2) == \E i, j \in DOMAIN t : i < j /\ t[i].e = e1 /\ t[j].e = e2
MessageNotes(t) == {i \in DOMAIN t : t[i].e = "message"}

Announced(c) == opt.hs => opt.framed /\ conn[c].rx_frames > 0

\* The wrapper's state, once the queued events have run.
MirrorInv(c) ==
  LET w == wrap[c]
      draining == conn[c].backpressured \/ svc = EmittingOf(c, "drain")
  IN /\ w.state = "none" => ~w.backpressured
     /\ w.state = "accepted" => w.pending = <<>>
     /\ w.verifying => opt.verify
     /\ peer[c] = "none" => w = NoState /\ told[c] = <<>> /\ \A e : ~Queues(events, c, e)
     /\ peer[c] = "gone" => Queues(events, c, "clientClosed") \/ w.state = "none"
     /\ c \in connections =>
          /\ ~Queues(events, c, "clientClosed")
          /\ w.backpressured => draining \/ Queues(events, c, "drain")
          /\ Drained(events, c, draining)
          /\ Announced(c) => \/ w.state # "none" \/ Queues(events, c, "connection")
                             \/ svc = EmittingOf(c, "connection")
          /\ Queues(events, c, "connection") =>
               Announced(c) /\ w = NoState /\ told[c] = <<>> /\ svc # EmittingOf(c, "connection")
          /\ svc = EmittingOf(c, "connection") => Announced(c) /\ w = NoState /\ told[c] = <<>>
          /\ ~Announced(c) => w = NoState /\ told[c] = <<>>

\* What the application was told.
ToldInv(c) ==
  LET w == wrap[c]
      t == told[c]
  IN /\ NoticedOnce(t, "connection") /\ NoticedOnce(t, "clientClosed")
     /\ ~NoticedBefore(t, "message", "connection")
     /\ Notices(t, "message") => Notices(t, "connection")
     /\ ~opt.verify => ~NoticedBefore(t, "clientClosed", "connection")
                       /\ ~NoticedBefore(t, "clientClosed", "message")
     /\ w.verifying => ~Notices(t, "connection")
     /\ w.state = "accepted" => Notices(t, "connection")
     /\ Alone(events, c, "connection") /\ Alone(events, c, "clientClosed")
     /\ Notices(t, "clientClosed") => c \notin connections /\ w.state = "none"
                                        /\ ~Queues(events, c, "clientClosed")

\* Messages come behind the connection they came on, and none is missing: h of
\* them were told, the next wait for the verifier, the rest is queued.
Split(t, waiting, s, c, first, r) ==
  \E h \in first .. r :
    /\ h + Len(waiting) <= r
    /\ Numbered(t, MessageNotes(t), first, h)
    /\ \A i \in DOMAIN waiting : waiting[i] = h + i
    /\ Numbered(s, Messages(s, c), h + Len(waiting), r)
First(hs, r) == IF hs /\ r > 0 THEN 1 ELSE 0

MessageInv(c) ==
  c \in connections /\ (opt.hs => opt.framed) =>
    /\ Led(events, c, wrap[c].state # "none")
    /\ Split(told[c], wrap[c].pending, events, c, First(opt.hs, conn[c].rx_frames), conn[c].rx_frames)

Talk(c) == MirrorInv(c) /\ ToldInv(c) /\ MessageInv(c)
-----------------------------------------------------------------------------
(* How many bytes a list of segments holds. *)

LEMMA HeldIn ==
  ASSUME NEW list, NEW z
  PROVE  z \in Held(list) <=> \E i \in DOMAIN list : \E b \in DOMAIN list[i] : z = <<i, b>>
  BY DEF Held

LEMMA HeldNone == IsFiniteSet(Held(<<>>)) /\ Cardinality(Held(<<>>)) = 0
  <1>1. Held(<<>>) = {}
    BY DEF Held
  <1> QED
    BY <1>1, FS_EmptySet

\* The bytes of the one segment at place k.
LEMMA HeldOne ==
  ASSUME NEW S, NEW x \in Seq(S), NEW k
  PROVE  IsFiniteSet({k} \X DOMAIN x) /\ Cardinality({k} \X DOMAIN x) = Len(x)
  <1>1. DOMAIN x = 1 .. Len(x) /\ Len(x) \in Nat
    OBVIOUS
  <1>2. IsFiniteSet(1 .. Len(x)) /\ Cardinality(1 .. Len(x)) = Len(x)
    BY <1>1, FS_Interval
  <1>3. IsFiniteSet({k}) /\ Cardinality({k}) = 1
    BY FS_Singleton
  <1>4. IsFiniteSet({k} \X (1 .. Len(x))) /\ Cardinality({k} \X (1 .. Len(x))) = 1 * Len(x)
    BY <1>2, <1>3, FS_Product, ZenonT(60)
  <1>5. 1 * Len(x) = Len(x)
    <2>1. \A n \in Nat : 1 * n = n
      OBVIOUS
    <2> QED
      BY <1>1, <2>1, Zenon
  <1>6. IsFiniteSet({k} \X (1 .. Len(x))) /\ Cardinality({k} \X (1 .. Len(x))) = Len(x)
    BY <1>4, <1>5
  <1> QED
    BY <1>1, <1>6, Zenon

LEMMA HeldAppend ==
  ASSUME NEW S, NEW list \in Seq(Seq(S)), NEW x \in Seq(S), IsFiniteSet(Held(list))
  PROVE  /\ IsFiniteSet(Held(Append(list, x)))
         /\ Cardinality(Held(Append(list, x))) = Cardinality(Held(list)) + Len(x)
  <1> DEFINE u == Append(list, x)
             k == Len(list) + 1
             new == {k} \X DOMAIN x
  <1>1. /\ k \in DOMAIN u /\ u[k] = x
        /\ \A i \in DOMAIN list : i \in DOMAIN u /\ u[i] = list[i] /\ i <= Len(list)
        /\ \A i \in DOMAIN u : \/ i \in DOMAIN list /\ u[i] = list[i]
                               \/ i = k /\ u[i] = x
    BY AppendParts
  <1>2. k \notin DOMAIN list
    OBVIOUS
  <1> HIDE DEF u, k
  <1>3. Held(u) = Held(list) \cup new
    BY <1>1 DEF Held
  <1>4. Held(list) \cap new = {}
    BY <1>2 DEF Held
  <1>5. IsFiniteSet(new) /\ Cardinality(new) = Len(x)
    BY HeldOne
  <1> HIDE DEF new
  <1>6. /\ IsFiniteSet(Held(list) \cup new)
        /\ Cardinality(Held(list) \cup new)
             = Cardinality(Held(list)) + Cardinality(new) - Cardinality(Held(list) \cap new)
    BY <1>5, FS_Union
  <1>7. Cardinality(Held(list) \cap new) = 0 /\ Cardinality(Held(list)) \in Nat /\ Len(x) \in Nat
    <2>1. Cardinality(Held(list) \cap new) = 0
      BY <1>4, FS_EmptySet, Zenon
    <2>2. Cardinality(Held(list)) \in Nat
      BY FS_CardinalityType
    <2> QED
      BY <2>1, <2>2
  <1>8. IsFiniteSet(Held(u)) /\ Cardinality(Held(u)) = Cardinality(Held(list)) + Len(x)
    BY <1>3, <1>5, <1>6, <1>7
  <1> QED
    BY <1>8 DEF u

\* The bytes behind the first segment are those of the rest, one place up.
LEMMA HeldShift ==
  ASSUME NEW S, NEW list \in Seq(Seq(S)), list # <<>>
  PROVE  /\ ExistsBijection(Held(Tail(list)), Held(list) \ ({1} \X DOMAIN Head(list)))
         /\ ExistsBijection(Held(list) \ ({1} \X DOMAIN Head(list)), Held(Tail(list)))
         /\ {1} \X DOMAIN Head(list) \subseteq Held(list)
  <1> DEFINE t == Tail(list)
             x == Head(list)
             A == Held(t)
             B == Held(list) \ ({1} \X DOMAIN x)
             f == [z \in A |-> <<z[1] + 1, z[2]>>]
  <1>1. /\ x = list[1] /\ 1 \in DOMAIN list /\ t \in Seq(Seq(S))
        /\ \A i \in DOMAIN t : i + 1 \in DOMAIN list /\ t[i] = list[i + 1]
        /\ \A i \in DOMAIN list : \/ i = 1
                                  \/ i - 1 \in DOMAIN t /\ t[i - 1] = list[i]
    BY TailParts
  <1>2. DOMAIN t = 1 .. Len(t) /\ Len(t) \in Nat /\ DOMAIN list = 1 .. Len(list) /\ Len(list) \in Nat
    BY <1>1
  <1> HIDE DEF t, x
  <1>3. ASSUME NEW z \in A
        PROVE  f[z] \in B /\ z = <<z[1], z[2]>> /\ z[1] \in DOMAIN t
    <2>0. PICK i \in DOMAIN t : \E b \in DOMAIN t[i] : z = <<i, b>>
      BY DEF Held
    <2>1. PICK b \in DOMAIN t[i] : z = <<i, b>>
      BY <2>0
    <2>2. f[z] = <<i + 1, b>>
      BY <2>1
    <2>3. i + 1 \in DOMAIN list /\ b \in DOMAIN list[i + 1] /\ i + 1 # 1
      BY <1>1, <1>2
    <2> HIDE DEF f
    <2> QED
      BY <2>1, <2>2, <2>3 DEF Held
  <1>4. ASSUME NEW y \in B
        PROVE  \E z \in A : f[z] = y
    <2>0. PICK i \in DOMAIN list : \E b \in DOMAIN list[i] : y = <<i, b>>
      BY DEF Held
    <2>1. PICK b \in DOMAIN list[i] : y = <<i, b>>
      BY <2>0
    <2>2. i # 1
      BY <1>1, <2>1
    <2>3. i - 1 \in DOMAIN t /\ t[i - 1] = list[i] /\ (i - 1) + 1 = i
      BY <1>1, <1>2, <2>2
    <2>4. <<i - 1, b>> \in A
      BY <2>3 DEF Held
    <2>5. f[<<i - 1, b>>] = <<i, b>>
      BY <2>3, <2>4
    <2> QED
      BY <2>1, <2>4, <2>5
  <1>5. ASSUME NEW y \in A, NEW z \in A, f[y] = f[z]
        PROVE  y = z
    <2>1. y[1] + 1 = z[1] + 1 /\ y[2] = z[2]
      BY <1>5
    <2>2. y[1] \in Int /\ z[1] \in Int
      <3>1. y[1] \in DOMAIN t /\ z[1] \in DOMAIN t
        BY <1>3
      <3>2. DOMAIN t \subseteq Int
        BY <1>2
      <3> QED
        BY <3>1, <3>2
    <2>3. y[1] = z[1]
      BY <2>1, <2>2
    <2> QED
      BY <1>3, <2>1, <2>3
  <1> HIDE DEF A, B
  <1>6. f \in Bijection(A, B)
    <2>1. f \in [A -> B]
      BY <1>3
    <2> HIDE DEF f
    <2> QED
      BY <1>4, <1>5, <2>1 DEF Bijection, Injection, Surjection, IsInjective
  <1>7. ExistsBijection(A, B)
    BY <1>6 DEF ExistsBijection
  <1>8. ExistsBijection(B, A)
    BY <1>7, Fun_ExistsBijSymmetric
  <1>9. {1} \X DOMAIN x \subseteq Held(list)
    BY <1>1 DEF Held
  <1> QED
    BY <1>7, <1>8, <1>9 DEF A, B, t, x

LEMMA HeldTail ==
  ASSUME NEW S, NEW list \in Seq(Seq(S)), list # <<>>
  PROVE  /\ IsFiniteSet(Held(list)) <=> IsFiniteSet(Held(Tail(list)))
         /\ IsFiniteSet(Held(list)) =>
              Cardinality(Held(list)) = Len(Head(list)) + Cardinality(Held(Tail(list)))
  <1> DEFINE A == Held(Tail(list))
             one == {1} \X DOMAIN Head(list)
             B == Held(list) \ one
             H == Held(list)
  <1>1. ExistsBijection(A, B) /\ ExistsBijection(B, A) /\ one \subseteq H
    BY HeldShift
  <1>2. IsFiniteSet(one) /\ Cardinality(one) = Len(Head(list)) /\ Len(Head(list)) \in Nat
    <2>1. Head(list) \in Seq(S)
      BY TailParts
    <2>2. Len(Head(list)) \in Nat
      BY <2>1
    <2> QED
      BY <2>1, <2>2, HeldOne
  <1>3. B = H \ one
    OBVIOUS
  <1> HIDE DEF A, one, B, H
  <1>4. ASSUME IsFiniteSet(A)
        PROVE  IsFiniteSet(H)
    <2>1. IsFiniteSet(B)
      BY <1>1, <1>4, FS_Bijection
    <2>2. IsFiniteSet(one \cup B)
      BY <1>2, <2>1, FS_Union
    <2>3. H = one \cup B
      BY <1>1, <1>3
    <2> QED
      BY <2>2, <2>3
  <1>5. ASSUME IsFiniteSet(H)
        PROVE  IsFiniteSet(A) /\ Cardinality(H) = Len(Head(list)) + Cardinality(A)
    <2>1. IsFiniteSet(B) /\ Cardinality(B) = Cardinality(H) - Cardinality(H \cap one)
      BY <1>3, <1>5, FS_Difference
    <2>2. H \cap one = one
      BY <1>1
    <2>3. IsFiniteSet(A) /\ Cardinality(A) = Cardinality(B)
      BY <1>1, <2>1, FS_Bijection
    <2>4. Cardinality(H) \in Nat
      BY <1>5, FS_CardinalityType
    <2>5. Cardinality(B) = Cardinality(H) - Len(Head(list))
      BY <1>2, <2>1, <2>2
    <2>6. Cardinality(A) = Cardinality(H) - Len(Head(list))
      BY <2>3, <2>5
    <2>7. Cardinality(H) = Len(Head(list)) + Cardinality(A)
      BY <1>2, <2>4, <2>6
    <2> QED
      BY <2>3, <2>7
  <1> QED
    BY <1>4, <1>5 DEF A, H

LEMMA HeldFront ==
  ASSUME NEW S, NEW list \in Seq(Seq(S)), NEW x \in Seq(S), IsFiniteSet(Held(list))
  PROVE  /\ IsFiniteSet(Held(<<x>> \o list))
         /\ Cardinality(Held(<<x>> \o list)) = Len(x) + Cardinality(Held(list))
  <1> DEFINE u == <<x>> \o list
  <1>1. u \in Seq(Seq(S)) /\ u # <<>> /\ Head(u) = x /\ Tail(u) = list
    <2>1. u \in Seq(Seq(S)) /\ u # <<>> /\ Head(u) = x
      OBVIOUS
    <2>2. Tail(u) = list
      <3>1. Tail(u) \in Seq(Seq(S)) /\ Len(Tail(u)) = Len(list)
        OBVIOUS
      <3>2. \A i \in 1 .. Len(list) : Tail(u)[i] = list[i]
        OBVIOUS
      <3> QED
        BY <3>1, <3>2, SeqEqual
    <2> QED
      BY <2>1, <2>2
  <1> HIDE DEF u
  <1>2. IsFiniteSet(Held(u)) /\ Cardinality(Held(u)) = Len(x) + Cardinality(Held(list))
    BY <1>1, HeldTail
  <1> QED
    BY <1>2 DEF u

\* A list of segments that are not empty holds nothing only if it is empty.
LEMMA HeldSome ==
  ASSUME NEW S, NEW list \in Seq(Seq(S)), NoneEmpty(list), IsFiniteSet(Held(list))
  PROVE  Cardinality(Held(list)) \in Nat /\ (Cardinality(Held(list)) = 0 <=> list = <<>>)
  <1>1. Cardinality(Held(list)) \in Nat
    BY FS_CardinalityType
  <1>2. ASSUME list # <<>>
        PROVE  Cardinality(Held(list)) # 0
    <2>1. 1 \in DOMAIN list /\ list[1] \in Seq(S) /\ list[1] # <<>>
      BY <1>2 DEF NoneEmpty
    <2>2. 1 \in DOMAIN list[1]
      BY <2>1
    <2>3. <<1, 1>> \in Held(list)
      BY <2>1, <2>2 DEF Held
    <2> QED
      BY <2>3, FS_EmptySet
  <1> QED
    BY <1>1, <1>2, HeldNone
-----------------------------------------------------------------------------
(* Segments that follow each other. *)

LEMMA PlaceType ==
  ASSUME NEW byte \in Bytes
  PROVE  Place(byte) \in Nat \ {0}
  <1>1. /\ byte[1] \in 1 .. MaxPosts /\ byte[2] \in 1 .. MsgLen
        /\ MsgLen \in Nat /\ MaxPosts \in Nat
    BY BoundsAssumption DEF Bytes
  <1>2. \A a, m \in Nat : a * m \in Nat
    OBVIOUS
  <1>3. (byte[1] - 1) * MsgLen \in Nat
    <2>1. byte[1] - 1 \in Nat
      BY <1>1
    <2> QED
      BY <1>1, <1>2, <2>1
  <1> DEFINE a == (byte[1] - 1) * MsgLen
  <1>4. a \in Nat /\ byte[2] \in Nat \ {0}
    BY <1>1, <1>3
  <1> HIDE DEF a
  <1>5. a + byte[2] \in Nat \ {0}
    BY <1>4
  <1> QED
    BY <1>5 DEF a, Place

LEMMA RunTypes ==
  ASSUME NEW seg \in Seq(Bytes), Run(seg)
  PROVE  /\ Low(seg) \in Nat \ {0} /\ High(seg) \in Nat /\ Len(seg) \in Nat \ {0}
         /\ Low(seg) <= High(seg) /\ High(seg) = Low(seg) + Len(seg) - 1
         /\ DOMAIN seg = 1 .. Len(seg)
  <1>1. seg # <<>> /\ Len(seg) \in Nat \ {0} /\ DOMAIN seg = 1 .. Len(seg)
    BY DEF Run
  <1>2. seg[1] \in Bytes
    BY <1>1
  <1>3. Low(seg) \in Nat \ {0}
    BY <1>2, PlaceType DEF Low
  <1> QED
    BY <1>1, <1>3 DEF High

LEMMA RunRest ==
  ASSUME NEW seg \in Seq(Bytes), Run(seg), NEW k \in 0 .. Len(seg), k < Len(seg)
  PROVE  LET rest == SubSeq(seg, k + 1, Len(seg))
         IN /\ rest \in Seq(Bytes) /\ Run(rest) /\ Len(rest) = Len(seg) - k
            /\ Low(rest) = Low(seg) + k /\ High(rest) = High(seg)
  <1> DEFINE rest == SubSeq(seg, k + 1, Len(seg))
  <1>1. /\ Low(seg) \in Nat \ {0} /\ Len(seg) \in Nat \ {0} /\ DOMAIN seg = 1 .. Len(seg)
        /\ High(seg) = Low(seg) + Len(seg) - 1
        /\ k \in Nat
    BY RunTypes
  <1>2. /\ rest \in Seq(Bytes) /\ Len(rest) = Len(seg) - k
        /\ \A u \in 1 .. Len(seg) - k : rest[u] = seg[k + u]
    <2>1. k + 1 \in Int /\ Len(seg) \in Int /\ k + 1 <= Len(seg)
      BY <1>1
    <2>2. \A i \in k + 1 .. Len(seg) : seg[i] \in Bytes
      BY <1>1
    <2>3. /\ rest \in Seq(Bytes)
          /\ Len(rest) = IF k + 1 <= Len(seg) THEN Len(seg) - (k + 1) + 1 ELSE 0
          /\ \A i \in 1 .. Len(seg) - (k + 1) + 1 : rest[i] = seg[k + 1 + i - 1]
      BY <2>1, <2>2, SubSeqProperties
    <2>4. Len(seg) - (k + 1) + 1 = Len(seg) - k
      BY <1>1
    <2>5. \A u \in 1 .. Len(seg) - k : k + 1 + u - 1 = k + u
      BY <1>1
    <2> QED
      BY <2>1, <2>3, <2>4, <2>5
  <1> HIDE DEF rest
  <1>3. DOMAIN rest = 1 .. Len(seg) - k /\ rest # <<>>
    <2>1. Len(seg) - k # 0
      <3>1. \A a, b \in Nat : b < a => a - b # 0
        OBVIOUS
      <3> QED
        BY <1>1, <3>1
    <2>2. Len(<<>>) = 0
      OBVIOUS
    <2>3. rest # <<>>
      BY <1>2, <2>1, <2>2, Zenon
    <2> QED
      BY <1>2, <2>3
  <1>4. ASSUME NEW u \in 1 .. Len(seg) - k
        PROVE  Place(rest[u]) = Low(seg) + (k + u) - 1
    <2>1. k + u \in DOMAIN seg
      BY <1>1
    <2> QED
      BY <1>2, <2>1 DEF Run
  <1>5. Low(rest) = Low(seg) + k
    <2>1. 1 \in 1 .. Len(seg) - k
      BY <1>1
    <2>2. Place(rest[1]) = Low(seg) + (k + 1) - 1
      BY <1>4, <2>1
    <2> QED
      BY <1>1, <2>2 DEF Low
  <1>6. Run(rest)
    <2>1. ASSUME NEW u \in DOMAIN rest
          PROVE  Place(rest[u]) = Low(rest) + u - 1
      <3>1. u \in 1 .. Len(seg) - k /\ u \in Int
        BY <1>1, <1>3
      <3>2. Place(rest[u]) = Low(seg) + (k + u) - 1
        BY <1>4, <3>1
      <3> QED
        BY <1>1, <1>5, <3>1, <3>2
    <2> QED
      BY <1>3, <2>1 DEF Run
  <1>7. High(rest) = High(seg)
    BY <1>1, <1>2, <1>5 DEF High
  <1> QED
    BY <1>2, <1>5, <1>6, <1>7 DEF rest

\* The OS takes k bytes of a segment that leaves no gap.
LEMMA WireTakes ==
  ASSUME NEW wire \in Seq(Bytes), Gapless(wire), NEW h \in Nat, Covered(wire, h),
         NEW seg \in Seq(Bytes), Run(seg), Low(seg) <= h + 1, NEW k \in 0 .. Len(seg)
  PROVE  LET w == wire \o SubSeq(seg, 1, k)
         IN /\ w \in Seq(Bytes) /\ Gapless(w)
            /\ \E g \in Nat : g >= h /\ g >= Low(seg) + k - 1 /\ Covered(w, g)
  <1> DEFINE new == SubSeq(seg, 1, k)
             w == wire \o new
             l == Low(seg)
             n == Len(wire)
  <1>1. /\ l \in Nat \ {0} /\ Len(seg) \in Nat \ {0} /\ DOMAIN seg = 1 .. Len(seg) /\ k \in Nat
        /\ n \in Nat /\ DOMAIN wire = 1 .. n
    BY RunTypes
  <1>2. /\ new \in Seq(Bytes) /\ Len(new) = k
        /\ \A u \in 1 .. k : new[u] = seg[u]
    <2>1. \A i \in 1 .. k : seg[i] \in Bytes
      BY <1>1
    <2>2. /\ new \in Seq(Bytes)
          /\ Len(new) = IF 1 <= k THEN k - 1 + 1 ELSE 0
          /\ \A i \in 1 .. k - 1 + 1 : new[i] = seg[1 + i - 1]
      BY <1>1, <2>1, SubSeqProperties
    <2>3. k - 1 + 1 = k /\ \A i \in 1 .. k : 1 + i - 1 = i
      BY <1>1
    <2>4. Len(new) = k
      BY <1>1, <2>2
    <2> QED
      BY <2>2, <2>3, <2>4
  <1>3. DOMAIN new = 1 .. k
    BY <1>2
  <1>4. ASSUME NEW u \in 1 .. k
        PROVE  Place(new[u]) = l + u - 1
    <2>1. u \in DOMAIN seg
      BY <1>1
    <2> QED
      BY <1>2, <2>1 DEF Run
  <1> HIDE DEF new, l
  <1>5. /\ w \in Seq(Bytes)
        /\ \A i \in DOMAIN wire : i \in DOMAIN w /\ w[i] = wire[i]
        /\ \A j \in DOMAIN new : n + j \in DOMAIN w /\ w[n + j] = new[j]
        /\ \A i \in DOMAIN w : \/ i \in DOMAIN wire /\ w[i] = wire[i]
                               \/ i - n \in DOMAIN new /\ i > n /\ w[i] = new[i - n]
    BY <1>2, ConcatParts
  <1>6. DOMAIN w = 1 .. Len(w) /\ Len(w) \in Nat
    BY <1>5
  <1> HIDE DEF w, n
  <1>7. Gapless(w)
    <2> SUFFICES ASSUME NEW p \in DOMAIN w, Place(w[p]) # 1
                 PROVE  \E q \in 1 .. p - 1 : Place(w[q]) + 1 = Place(w[p])
      BY DEF Gapless
    <2>1. CASE p \in DOMAIN wire /\ w[p] = wire[p]
      <3>1. PICK q \in 1 .. p - 1 : Place(wire[q]) + 1 = Place(wire[p])
        BY <2>1 DEF Gapless
      <3>2. q \in DOMAIN wire
        BY <1>1, <2>1
      <3> QED
        BY <1>5, <2>1, <3>1, <3>2
    <2>2. CASE p - n \in DOMAIN new /\ p > n /\ w[p] = new[p - n]
      <3> DEFINE u == p - n
      <3>1. u \in 1 .. k /\ Place(w[p]) = l + u - 1 /\ p = n + u
        BY <1>1, <1>3, <1>4, <1>6, <2>2
      <3> HIDE DEF u
      <3>2. CASE u = 1
        <4>1. l # 1
          BY <1>1, <3>1, <3>2
        <4>2. l - 1 \in 1 .. h
          BY <1>1, <4>1 DEF l
        <4>3. PICK q \in DOMAIN wire : Place(wire[q]) = l - 1
          BY <4>2 DEF Covered
        <4>4. q \in 1 .. p - 1 /\ w[q] = wire[q]
          BY <1>1, <1>5, <3>1, <3>2
        <4>5. (l - 1) + 1 = l + u - 1
          BY <1>1, <3>2
        <4> QED
          BY <3>1, <4>3, <4>4, <4>5
      <3>3. CASE u # 1
        <4>1. u - 1 \in 1 .. k /\ p - 1 = n + (u - 1) /\ p - 1 \in 1 .. p - 1
          BY <1>1, <3>1, <3>3
        <4>2. w[p - 1] = new[u - 1] /\ Place(new[u - 1]) = l + (u - 1) - 1
          BY <1>3, <1>4, <1>5, <4>1
        <4>3. (l + (u - 1) - 1) + 1 = l + u - 1
          BY <1>1, <3>1
        <4> QED
          BY <3>1, <4>1, <4>2, <4>3
      <3> QED
        BY <3>2, <3>3
    <2> QED
      BY <1>5, <2>1, <2>2
  <1>8. \E g \in Nat : g >= h /\ g >= l + k - 1 /\ Covered(w, g)
    <2> DEFINE g == IF l + k - 1 > h THEN l + k - 1 ELSE h
    <2>1. g \in Nat /\ g >= h /\ g >= l + k - 1
      BY <1>1
    <2>2. ASSUME NEW m \in 1 .. g
          PROVE  \E p \in DOMAIN w : Place(w[p]) = m
      <3>1. CASE m <= h
        <4>1. m \in 1 .. h
          BY <1>1, <3>1
        <4> QED
          BY <1>5, <4>1 DEF Covered
      <3>2. CASE m > h
        <4>1. l <= h + 1
          BY DEF l
        <4>2. m - l + 1 \in 1 .. k /\ l + (m - l + 1) - 1 = m
          BY <1>1, <3>2, <4>1
        <4> QED
          BY <1>3, <1>4, <1>5, <4>2
      <3> QED
        BY <1>1, <3>1, <3>2
    <2>3. Covered(w, g)
      BY <2>2 DEF Covered
    <2> QED
      BY <2>1, <2>3
  <1> QED
    BY <1>5, <1>7, <1>8 DEF w, new, l

LEMMA ChainNone == \A h : Chain(<<>>, h) /\ Reach(<<>>, h) = h
  BY DEF Chain, Reach

LEMMA ReachType ==
  ASSUME NEW list \in Seq(Seq(Bytes)), NEW h \in Nat, Chain(list, h)
  PROVE  Reach(list, h) \in Nat
  <1>1. CASE list = <<>>
    BY <1>1 DEF Reach
  <1>2. CASE list # <<>>
    <2>1. Len(list) \in DOMAIN list /\ list[Len(list)] \in Seq(Bytes)
      BY <1>2
    <2> QED
      BY <1>2, <2>1, RunTypes DEF Chain, Reach
  <1> QED
    BY <1>1, <1>2

LEMMA ChainMore ==
  ASSUME NEW list \in Seq(Seq(Bytes)), NEW h \in Nat, NEW g \in Nat, h <= g, Chain(list, h)
  PROVE  Chain(list, g) /\ Reach(list, h) <= Reach(list, g)
  <1>1. ASSUME NEW i \in DOMAIN list
        PROVE  Run(list[i]) /\ Low(list[i]) <= 1 + IF i = 1 THEN g ELSE High(list[i - 1])
    <2>1. Low(list[i]) \in Nat /\ Low(list[i]) <= 1 + (IF i = 1 THEN h ELSE High(list[i - 1]))
          /\ Run(list[i])
      BY RunTypes DEF Chain
    <2>2. CASE i = 1
      BY <2>1, <2>2
    <2>3. CASE i # 1
      BY <2>1, <2>3
    <2> QED
      BY <2>2, <2>3
  <1>2. Reach(list, h) <= Reach(list, g)
    <2>1. CASE list = <<>>
      BY <2>1 DEF Reach
    <2>2. CASE list # <<>>
      <3>1. Reach(list, h) \in Nat
        BY ReachType
      <3>2. Reach(list, g) = Reach(list, h)
        BY <2>2 DEF Reach
      <3> QED
        BY <3>1, <3>2
    <2> QED
      BY <2>1, <2>2
  <1> QED
    BY <1>1, <1>2 DEF Chain

LEMMA ChainAppend ==
  ASSUME NEW list \in Seq(Seq(Bytes)), NEW h \in Nat, Chain(list, h),
         NEW x \in Seq(Bytes), Run(x), Low(x) <= 1 + Reach(list, h)
  PROVE  /\ Append(list, x) \in Seq(Seq(Bytes)) /\ Chain(Append(list, x), h)
         /\ Reach(Append(list, x), h) = High(x)
  <1> DEFINE u == Append(list, x)
             n == Len(list)
  <1>1. /\ u \in Seq(Seq(Bytes)) /\ Len(u) = n + 1 /\ u[n + 1] = x
        /\ \A i \in DOMAIN list : u[i] = list[i]
        /\ \A i \in DOMAIN u : \/ i \in DOMAIN list /\ u[i] = list[i]
                               \/ i = n + 1 /\ u[i] = x
    BY AppendParts
  <1>2. n \in Nat /\ DOMAIN list = 1 .. n /\ (n = 0 <=> list = <<>>)
    OBVIOUS
  <1>3. u # <<>>
    <2>1. Len(u) # 0
      BY <1>1, <1>2
    <2>2. Len(<<>>) = 0
      OBVIOUS
    <2> HIDE DEF u
    <2> QED
      BY <2>1, <2>2
  <1> HIDE DEF u, n
  <1>4. ASSUME NEW i \in DOMAIN u
        PROVE  Run(u[i]) /\ Low(u[i]) <= 1 + IF i = 1 THEN h ELSE High(u[i - 1])
    <2>1. CASE i \in DOMAIN list /\ u[i] = list[i]
      <3>1. Run(list[i]) /\ Low(list[i]) <= 1 + IF i = 1 THEN h ELSE High(list[i - 1])
        BY <2>1 DEF Chain
      <3>2. i # 1 => i - 1 \in DOMAIN list /\ u[i - 1] = list[i - 1]
        BY <1>1, <1>2, <2>1
      <3> QED
        BY <2>1, <3>1, <3>2
    <2>2. CASE i = n + 1 /\ u[i] = x
      <3>1. CASE n = 0
        <4>1. i = 1 /\ Reach(list, h) = h
          BY <1>2, <2>2, <3>1 DEF Reach
        <4> QED
          BY <2>2, <4>1
      <3>2. CASE n # 0
        <4>1. i # 1 /\ i - 1 = n /\ n \in DOMAIN list
          BY <1>2, <2>2, <3>2
        <4>2. Reach(list, h) = High(list[n])
          BY <1>2, <3>2 DEF Reach, n
        <4> QED
          BY <1>1, <2>2, <4>1, <4>2
      <3> QED
        BY <3>1, <3>2
    <2> QED
      BY <1>1, <2>1, <2>2
  <1>5. Reach(u, h) = High(x)
    BY <1>1, <1>3 DEF Reach
  <1> QED
    BY <1>1, <1>4, <1>5 DEF Chain, u

LEMMA ChainTail ==
  ASSUME NEW list \in Seq(Seq(Bytes)), NEW h \in Nat, Chain(list, h), list # <<>>
  PROVE  /\ Head(list) \in Seq(Bytes) /\ Tail(list) \in Seq(Seq(Bytes))
         /\ Run(Head(list)) /\ Low(Head(list)) <= 1 + h
         /\ Chain(Tail(list), High(Head(list)))
         /\ Reach(Tail(list), High(Head(list))) = Reach(list, h)
  <1> DEFINE t == Tail(list)
             x == Head(list)
  <1>1. /\ x \in Seq(Bytes) /\ x = list[1] /\ 1 \in DOMAIN list /\ t \in Seq(Seq(Bytes))
        /\ Len(t) = Len(list) - 1
        /\ \A i \in DOMAIN t : i + 1 \in DOMAIN list /\ t[i] = list[i + 1]
    BY TailParts
  <1> HIDE DEF t, x
  <1>2. DOMAIN t = 1 .. Len(t) /\ Len(t) \in Nat /\ DOMAIN list = 1 .. Len(list) /\ Len(list) \in Nat
        /\ (Len(t) = 0 <=> t = <<>>)
    <2>1. t \in Seq(Seq(Bytes))
      BY <1>1
    <2>2. DOMAIN t = 1 .. Len(t) /\ Len(t) \in Nat /\ (Len(t) = 0 <=> t = <<>>)
      BY <2>1
    <2>3. DOMAIN list = 1 .. Len(list) /\ Len(list) \in Nat
      OBVIOUS
    <2> QED
      BY <2>2, <2>3
  <1>3. Run(x) /\ Low(x) <= 1 + h
    BY <1>1 DEF Chain
  <1>4. ASSUME NEW i \in DOMAIN t
        PROVE  Run(t[i]) /\ Low(t[i]) <= 1 + IF i = 1 THEN High(x) ELSE High(t[i - 1])
    <2>1. i + 1 \in DOMAIN list /\ t[i] = list[i + 1] /\ i + 1 # 1 /\ (i + 1) - 1 = i
      BY <1>1, <1>2, SMTT(30)
    <2>2. Run(list[i + 1]) /\ Low(list[i + 1]) <= 1 + High(list[i])
      BY <2>1 DEF Chain
    <2>3. i # 1 => i - 1 \in DOMAIN t /\ t[i - 1] = list[i]
      <3> SUFFICES ASSUME i # 1 PROVE i - 1 \in DOMAIN t /\ t[i - 1] = list[i]
        OBVIOUS
      <3>1. i - 1 \in DOMAIN t /\ (i - 1) + 1 = i
        BY <1>2
      <3> QED
        BY <1>1, <3>1
    <2> QED
      BY <1>1, <2>1, <2>2, <2>3
  <1>5. Reach(t, High(x)) = Reach(list, h)
    <2>1. CASE t = <<>>
      <3>1. Len(list) = 1
        BY <1>1, <1>2, <2>1
      <3> QED
        BY <1>1, <2>1, <3>1 DEF Reach
    <2>2. CASE t # <<>>
      <3>1. Len(t) \in DOMAIN t /\ Len(t) + 1 = Len(list)
        BY <1>1, <1>2, <2>2
      <3> QED
        BY <1>1, <2>2, <3>1 DEF Reach
    <2> QED
      BY <2>1, <2>2
  <1> QED
    BY <1>1, <1>3, <1>4, <1>5 DEF Chain, t, x

LEMMA ChainFront ==
  ASSUME NEW list \in Seq(Seq(Bytes)), NEW h \in Nat, NEW x \in Seq(Bytes), Run(x),
         Low(x) <= 1 + h, Chain(list, High(x))
  PROVE  /\ <<x>> \o list \in Seq(Seq(Bytes)) /\ Chain(<<x>> \o list, h)
         /\ Reach(<<x>> \o list, h) = Reach(list, High(x))
  <1> DEFINE one == <<x>>
             u == one \o list
  <1>1. one \in Seq(Seq(Bytes)) /\ Len(one) = 1 /\ DOMAIN one = {1} /\ one[1] = x
    OBVIOUS
  <1> HIDE DEF one
  <1>2. /\ u \in Seq(Seq(Bytes)) /\ Len(u) = 1 + Len(list)
        /\ \A i \in DOMAIN one : i \in DOMAIN u /\ u[i] = one[i]
        /\ \A j \in DOMAIN list : 1 + j \in DOMAIN u /\ u[1 + j] = list[j]
        /\ \A i \in DOMAIN u : \/ i \in DOMAIN one /\ u[i] = one[i]
                               \/ i - 1 \in DOMAIN list /\ i > 1 /\ u[i] = list[i - 1]
    <2>1. /\ u \in Seq(Seq(Bytes)) /\ Len(u) = Len(one) + Len(list)
          /\ \A i \in DOMAIN one : i \in DOMAIN u /\ u[i] = one[i]
          /\ \A j \in DOMAIN list : Len(one) + j \in DOMAIN u /\ u[Len(one) + j] = list[j]
          /\ \A i \in DOMAIN u :
               \/ i \in DOMAIN one /\ u[i] = one[i]
               \/ i - Len(one) \in DOMAIN list /\ i > Len(one) /\ u[i] = list[i - Len(one)]
      <3>1. one \in Seq(Seq(Bytes))
        BY <1>1
      <3> QED
        BY <3>1, ConcatParts
    <2> HIDE DEF u
    <2> QED
      BY <1>1, <2>1
  <1>3. /\ DOMAIN list = 1 .. Len(list) /\ Len(list) \in Nat /\ (Len(list) = 0 <=> list = <<>>)
        /\ DOMAIN u = 1 .. Len(u) /\ Len(u) \in Nat
    BY <1>2
  <1>4. u # <<>> /\ u[1] = x
    BY <1>1, <1>2
  <1> HIDE DEF u
  <1>5. ASSUME NEW i \in DOMAIN u
        PROVE  Run(u[i]) /\ Low(u[i]) <= 1 + IF i = 1 THEN h ELSE High(u[i - 1])
    <2>1. CASE i = 1
      BY <1>4, <2>1
    <2>2. CASE i # 1
      <3> DEFINE j == i - 1
      <3>1. j \in DOMAIN list /\ u[i] = list[j] /\ (j # 1 => j - 1 \in DOMAIN list)
            /\ 1 + (j - 1) = j
        BY <1>1, <1>2, <1>3, <2>2, SMTT(30)
      <3>2. Run(list[j]) /\ Low(list[j]) <= 1 + IF j = 1 THEN High(x) ELSE High(list[j - 1])
        BY <3>1 DEF Chain
      <3>3. j # 1 => u[j] = list[j - 1]
        BY <1>2, <3>1
      <3> QED
        BY <1>4, <2>2, <3>1, <3>2, <3>3
    <2> QED
      BY <2>1, <2>2
  <1>6. Reach(u, h) = Reach(list, High(x))
    <2>1. CASE list = <<>>
      BY <1>2, <1>3, <1>4, <2>1 DEF Reach
    <2>2. CASE list # <<>>
      <3>1. Len(list) \in DOMAIN list
        BY <1>3, <2>2
      <3> QED
        BY <1>2, <1>4, <2>2, <3>1 DEF Reach
    <2> QED
      BY <2>1, <2>2
  <1> QED
    BY <1>2, <1>5, <1>6 DEF Chain, u, one
-----------------------------------------------------------------------------
(* What lws_write does to them. *)

\* The OS takes k bytes of the first segment, which leaves the list.
LEMMA WireUses ==
  ASSUME NEW wire \in Seq(Bytes), Gapless(wire), NEW h \in Nat, Covered(wire, h),
         NEW list \in Seq(Seq(Bytes)), list # <<>>, Chain(list, h),
         NEW k \in 0 .. Len(Head(list))
  PROVE  LET w == wire \o SubSeq(Head(list), 1, k)
             u == UseSegment(list, k)
         IN /\ w \in Seq(Bytes) /\ Gapless(w) /\ u \in Seq(Seq(Bytes))
            /\ \E g \in Nat : /\ Covered(w, g) /\ Chain(u, g)
                              /\ Reach(u, g) \in Nat /\ Reach(u, g) >= Reach(list, h)
  <1> DEFINE seg == Head(list)
             more == Tail(list)
             w == wire \o SubSeq(seg, 1, k)
             u == UseSegment(list, k)
  <1>1. /\ seg \in Seq(Bytes) /\ more \in Seq(Seq(Bytes)) /\ Run(seg) /\ Low(seg) <= 1 + h
        /\ Chain(more, High(seg)) /\ Reach(more, High(seg)) = Reach(list, h)
    BY ChainTail
  <1>2. k \in 0 .. Len(seg)
    OBVIOUS
  <1>3. u = IF k = Len(seg) THEN more ELSE <<SubSeq(seg, k + 1, Len(seg))>> \o more
    BY DEF UseSegment
  <1> HIDE DEF seg, more, u
  <1>4. /\ Low(seg) \in Nat \ {0} /\ High(seg) \in Nat /\ Len(seg) \in Nat \ {0}
        /\ High(seg) = Low(seg) + Len(seg) - 1
    BY <1>1, RunTypes
  <1>5. /\ w \in Seq(Bytes) /\ Gapless(w)
        /\ \E g \in Nat : g >= h /\ g >= Low(seg) + k - 1 /\ Covered(w, g)
    <2>1. Low(seg) <= h + 1
      BY <1>1, <1>4
    <2> QED
      BY <1>1, <1>2, <2>1, WireTakes
  <1>6. PICK g \in Nat : g >= h /\ g >= Low(seg) + k - 1 /\ Covered(w, g)
    BY <1>5
  <1> HIDE DEF w
  <1>7. u \in Seq(Seq(Bytes)) /\ Chain(u, g) /\ Reach(u, g) >= Reach(list, h)
    <2>1. CASE k = Len(seg)
      <3>1. u = more /\ High(seg) <= g
        BY <1>3, <1>4, <1>6, <2>1
      <3>2. Chain(more, g) /\ Reach(more, High(seg)) <= Reach(more, g)
        BY <1>1, <1>4, <3>1, ChainMore
      <3>3. Reach(more, g) \in Nat /\ Reach(more, High(seg)) \in Nat
        BY <1>1, <1>4, <3>2, ReachType
      <3> QED
        BY <1>1, <3>1, <3>2, <3>3
    <2>2. CASE k # Len(seg)
      <3> DEFINE rest == SubSeq(seg, k + 1, Len(seg))
      <3>1. k < Len(seg)
        BY <1>2, <1>4, <2>2
      <3>2. rest \in Seq(Bytes) /\ Run(rest) /\ Low(rest) = Low(seg) + k /\ High(rest) = High(seg)
        BY <1>1, <1>2, <3>1, RunRest
      <3>3. u = <<rest>> \o more
        BY <1>3, <2>2
      <3> HIDE DEF rest
      <3>4. Low(rest) <= 1 + g
        BY <1>2, <1>4, <1>6, <3>2
      <3>5. <<rest>> \o more \in Seq(Seq(Bytes)) /\ Chain(<<rest>> \o more, g)
            /\ Reach(<<rest>> \o more, g) = Reach(more, High(rest))
        BY <1>1, <3>2, <3>4, ChainFront
      <3>6. Reach(more, High(seg)) \in Nat
        BY <1>1, <1>4, ReachType
      <3> QED
        BY <1>1, <3>2, <3>3, <3>5, <3>6
    <2> QED
      BY <2>1, <2>2
  <1>8. Reach(u, g) \in Nat
    BY <1>7, ReachType
  <1>9. \E gg \in Nat : /\ Covered(w, gg) /\ Chain(u, gg)
                        /\ Reach(u, gg) \in Nat /\ Reach(u, gg) >= Reach(list, h)
    BY <1>6, <1>7, <1>8
  <1> QED
    BY <1>5, <1>7, <1>9 DEF w, u, seg

LEMMA TakesSome ==
  ASSUME NEW seg \in Seq(Bytes), NEW k \in Takes(seg)
  PROVE  k \in 0 .. Len(seg) /\ k \in Nat
  <1>1. Len(seg) \in Nat
    OBVIOUS
  <1> QED
    BY <1>1, TxLimitAssumption DEF Takes

LEMMA IssueTypes ==
  ASSUME NEW out \in Seq(Seq(Bytes)), NoneEmpty(out), NEW buf \in Seq(Bytes),
         out # <<>> \/ buf # <<>>, NEW k \in Takes(FirstOf(out, buf))
  PROVE  LET list == IF buf = <<>> THEN out ELSE Append(out, buf)
             r == IssueRaw(out, buf, k)
         IN /\ r.sent = SubSeq(Head(list), 1, k) /\ r.out = UseSegment(list, k)
            /\ r.sent \in Seq(Bytes) /\ r.out \in Seq(Seq(Bytes)) /\ NoneEmpty(r.out)
            /\ r.again \in BOOLEAN /\ r.ret \in Nat
            /\ list \in Seq(Seq(Bytes)) /\ list # <<>> /\ k \in 0 .. Len(Head(list))
  <1> DEFINE list == IF buf = <<>> THEN out ELSE Append(out, buf)
             r == IssueRaw(out, buf, k)
  <1>1. /\ list \in Seq(Seq(Bytes)) /\ list # <<>> /\ NoneEmpty(list)
        /\ Head(list) = FirstOf(out, buf)
    <2>1. CASE buf = <<>>
      BY <2>1 DEF FirstOf
    <2>2. CASE buf # <<>>
      <3> DEFINE u == Append(out, buf)
      <3>1. /\ u \in Seq(Seq(Bytes)) /\ Len(u) = Len(out) + 1 /\ u # <<>>
            /\ \A i \in DOMAIN u : \/ i \in DOMAIN out /\ u[i] = out[i]
                                   \/ i = Len(out) + 1 /\ u[i] = buf
        BY AppendParts
      <3>2. Head(u) = IF out = <<>> THEN buf ELSE Head(out)
        OBVIOUS
      <3>3. list = u
        BY <2>2
      <3> HIDE DEF u
      <3>4. NoneEmpty(u)
        BY <2>2, <3>1 DEF NoneEmpty
      <3> QED
        BY <3>1, <3>2, <3>3, <3>4 DEF FirstOf
    <2> QED
      BY <2>1, <2>2
  <1>2. r = [sent  |-> SubSeq(Head(list), 1, k),
             out   |-> UseSegment(list, k),
             again |-> out # <<>> \/ UseSegment(list, k) # <<>>,
             ret   |-> IF out = <<>> THEN Len(buf) ELSE k]
    BY DEF IssueRaw
  <1> HIDE DEF list, r
  <1>3. k \in 0 .. Len(Head(list)) /\ k \in Nat
    <2>1. Head(list) \in Seq(Bytes)
      BY <1>1, TailParts
    <2> QED
      BY <1>1, <2>1, TakesSome
  <1>4. /\ SubSeq(Head(list), 1, k) \in Seq(Bytes)
        /\ UseSegment(list, k) \in Seq(Seq(Bytes)) /\ NoneEmpty(UseSegment(list, k))
    BY <1>1, <1>3, FrontUsed DEF UseSegment, NoneEmpty
  <1>5. /\ r.sent = SubSeq(Head(list), 1, k) /\ r.out = UseSegment(list, k)
        /\ r.sent \in Seq(Bytes) /\ r.out \in Seq(Seq(Bytes)) /\ NoneEmpty(r.out)
        /\ r.again \in BOOLEAN /\ r.ret \in Nat
    BY <1>2, <1>3, <1>4
  <1> QED
    BY <1>1, <1>3, <1>5 DEF r, list
-----------------------------------------------------------------------------
(* What the steps do to the bytes of one connection. *)

\* The payload of number i is the bytes (i - 1) * MsgLen + 1 .. i * MsgLen.
LEMMA PayloadParts ==
  ASSUME NEW i \in 1 .. MaxPosts
  PROVE  /\ Payload(i) \in Seq(Bytes) /\ Len(Payload(i)) = MsgLen /\ Payload(i) # <<>>
         /\ Run(Payload(i)) /\ Low(Payload(i)) = (i - 1) * MsgLen + 1
         /\ High(Payload(i)) = i * MsgLen
         /\ (i - 1) * MsgLen \in Nat /\ i * MsgLen \in Nat
  <1> DEFINE p == Payload(i)
             m == (i - 1) * MsgLen
  <1>1. MsgLen \in Nat \ {0} /\ MaxPosts \in Nat /\ i \in Nat /\ i - 1 \in Nat
    BY BoundsAssumption
  <1>2. /\ p \in Seq(Bytes) /\ Len(p) = MsgLen /\ DOMAIN p = 1 .. MsgLen
        /\ \A u \in 1 .. MsgLen : p[u] = <<i, u>>
    <2>1. p = [u \in 1 .. MsgLen |-> <<i, u>>]
      BY DEF Payload
    <2>2. \A u \in 1 .. MsgLen : <<i, u>> \in Bytes
      BY DEF Bytes
    <2> HIDE DEF p
    <2>3. p \in [1 .. MsgLen -> Bytes]
      BY <2>1, <2>2
    <2>4. p \in Seq(Bytes)
      BY <1>1, <2>3
    <2> QED
      BY <1>1, <2>1, <2>4
  <1> HIDE DEF p
  <1>3. \A u \in 1 .. MsgLen : Place(p[u]) = m + u
    BY <1>2 DEF Place
  <1>4. m \in Nat /\ m + MsgLen = i * MsgLen /\ i * MsgLen \in Nat
    <2>1. \A a, b \in Nat : a * b \in Nat
      OBVIOUS
    <2>2. \A a, b \in Nat : a # 0 => (a - 1) * b + b = a * b
      OBVIOUS
    <2>3. i # 0
      BY <1>1
    <2> QED
      BY <1>1, <2>1, <2>2, <2>3
  <1> HIDE DEF m
  <1>5. p # <<>> /\ Low(p) = m + 1
    <2>1. 1 \in 1 .. MsgLen
      BY <1>1
    <2> QED
      BY <1>2, <1>3, <2>1 DEF Low
  <1>6. High(p) = i * MsgLen
    BY <1>1, <1>2, <1>4, <1>5 DEF High
  <1>7. Run(p)
    <2>1. \A u \in 1 .. MsgLen : m + u = (m + 1) + u - 1
      BY <1>1, <1>4
    <2> QED
      BY <1>2, <1>3, <1>5, <2>1 DEF Run
  <1> QED
    BY <1>2, <1>4, <1>5, <1>6, <1>7 DEF p, m

\* A connection of which nothing is known yet.
LEMMA NewBytes ==
  ASSUME NEW v, v.at \in {"poll", "emit"}
  PROVE  Both(NewConnection, NewSocket, 0, v)
  <1>1. CountInv(NewConnection, v)
    BY HeldNone DEF CountInv, NewConnection, NoneEmpty
  <1>2. Gapless(<<>>) /\ NoneEmpty(<<>>) /\ Covered(<<>>, 0)
    BY DEF Gapless, NoneEmpty, Covered
  <1>3. 0 * MsgLen = 0
    BY BoundsAssumption
  <1>4. /\ Covered(<<>>, 0) /\ Chain(<<>>, 0)
        /\ Chain(<<>>, Reach(<<>>, 0)) /\ Reach(<<>>, Reach(<<>>, 0)) >= 0 * MsgLen
    BY <1>2, <1>3, ChainNone
  <1>5. WireInv(NewConnection, NewSocket, 0, v)
    <2>1. NewSocket.wire = <<>> /\ NewSocket.out = <<>> /\ NewConnection.send_queue = <<>>
          /\ v.at # "account" /\ 0 \in Nat
      BY DEF NewSocket, NewConnection
    <2> QED
      BY <1>2, <1>4, <2>1 DEF WireInv
  <1> QED
    BY <1>1, <1>5 DEF Both

\* Nothing happens to the bytes, and the service thread is not in a write.
LEMMA QuietBytes ==
  ASSUME NEW k, NEW s, NEW n, NEW v, Both(k, s, n, v), NEW k2, NEW s2, NEW v2,
         k2.send_queue = k.send_queue, k2.queued_bytes = k.queued_bytes,
         k2.backpressured = k.backpressured, s2.out = s.out, s2.wire = s.wire,
         \/ v2 = v \/ v2.at = "kill"
         \/ v.at \in {"poll", "emit"} /\ v2.at \in {"poll", "emit", "write"}
         \/ v.at = "write" /\ v2.at = "end"
  PROVE  Both(k2, s2, n, v2)
  BY DEF Both, CountInv, WireInv

\* One more payload is queued.
LEMMA PostBytes ==
  ASSUME NEW k, k.send_queue \in Seq(Seq(Bytes)), k.queued_bytes \in Nat, k.backpressured \in BOOLEAN,
         NEW s, s.out \in Seq(Seq(Bytes)), NEW n \in 0 .. MaxPosts, n < MaxPosts,
         NEW v, v.at = "account" => v.next \in Seq(Bytes), Both(k, s, n, v),
         NEW k2, NEW s2,
         k2.send_queue = Append(k.send_queue, Payload(n + 1)),
         k2.queued_bytes = k.queued_bytes + MsgLen,
         k2.backpressured = (k.backpressured \/ k.queued_bytes + MsgLen >= MaxBackpressure),
         s2.out = s.out, s2.wire = s.wire
  PROVE  Both(k2, s2, n + 1, v)
  <1> DEFINE x == Payload(n + 1)
             q == k.send_queue
             u == Append(q, x)
  <1>1. n + 1 \in 1 .. MaxPosts /\ n \in Nat /\ (n + 1) - 1 = n
    BY BoundsAssumption
  <1>2. /\ x \in Seq(Bytes) /\ Len(x) = MsgLen /\ x # <<>> /\ Run(x)
        /\ Low(x) = n * MsgLen + 1 /\ High(x) = (n + 1) * MsgLen
        /\ n * MsgLen \in Nat /\ (n + 1) * MsgLen \in Nat
    BY <1>1, PayloadParts
  <1> HIDE DEF x
  <1>3. q \in Seq(Seq(Bytes)) /\ NoneEmpty(q) /\ IsFiniteSet(Held(q)) /\ k2.send_queue = u
    BY DEF Both, CountInv, x
  <1> HIDE DEF q
  <1>4. u \in Seq(Seq(Bytes)) /\ NoneEmpty(u)
    <2>1. /\ u \in Seq(Seq(Bytes))
          /\ \A i \in DOMAIN u : \/ i \in DOMAIN q /\ u[i] = q[i]
                                 \/ i = Len(q) + 1 /\ u[i] = x
      BY <1>2, <1>3, AppendParts
    <2> QED
      BY <1>2, <1>3, <2>1 DEF NoneEmpty
  <1>5. /\ IsFiniteSet(Held(u)) /\ Cardinality(Held(u)) = Cardinality(Held(q)) + MsgLen
        /\ Cardinality(Held(q)) \in Nat
    BY <1>2, <1>3, HeldAppend, HeldSome
  <1> HIDE DEF u
  <1>6. CountInv(k2, v)
    <2> SUFFICES ASSUME v.at # "kill"
                 PROVE  /\ k2.queued_bytes = Cardinality(Held(u))
                                               + IF v.at = "account" THEN Len(v.next) ELSE 0
                        /\ k2.backpressured => k2.queued_bytes > 0
                        /\ ~k2.backpressured => k2.queued_bytes < MaxBackpressure
      BY <1>3, <1>4, <1>5 DEF CountInv
    <2> DEFINE l == IF v.at = "account" THEN Len(v.next) ELSE 0
    <2>1. k.queued_bytes = Cardinality(Held(q)) + l
      BY DEF Both, CountInv, q
    <2>2. l \in Nat
      OBVIOUS
    <2> HIDE DEF l
    <2>3. k2.queued_bytes = Cardinality(Held(u)) + l
      BY <1>5, <2>1, <2>2, BoundsAssumption
    <2>4. k2.queued_bytes \in Nat \ {0}
      BY BoundsAssumption
    <2>5. ~k2.backpressured => k2.queued_bytes < MaxBackpressure
      <3> DEFINE sum == k.queued_bytes + MsgLen
      <3>1. ~k2.backpressured => ~(sum >= MaxBackpressure)
        BY Zenon
      <3>2. sum \in Nat /\ MaxBackpressure \in Nat /\ k2.queued_bytes = sum
        BY BoundsAssumption
      <3> HIDE DEF sum
      <3>3. ~(sum >= MaxBackpressure) => sum < MaxBackpressure
        BY <3>2
      <3> QED
        BY <3>1, <3>2, <3>3
    <2> QED
      BY <2>3, <2>4, <2>5 DEF l
  <1>7. WireInv(k2, s2, n + 1, v)
    <2>1. Gapless(s.wire) /\ NoneEmpty(s.out)
      BY DEF Both, WireInv
    <2>2. CASE v.at = "kill"
      BY <2>1, <2>2 DEF WireInv
    <2>3. CASE v.at # "kill"
      <3> DEFINE B(h) == IF v.at = "account" THEN High(v.next) ELSE Reach(s.out, h)
      <3>1. PICK h \in Nat : /\ Covered(s.wire, h) /\ Chain(s.out, h)
                             /\ v.at = "account" => Run(v.next) /\ B(h) <= Reach(s.out, h)
                             /\ Chain(q, B(h)) /\ Reach(q, B(h)) >= n * MsgLen
        BY <2>3 DEF Both, WireInv, q
      <3>2. B(h) \in Nat
        BY <3>1, ReachType, RunTypes
      <3> DEFINE b == B(h)
      <3>3. v.at = "account" => Run(v.next) /\ b <= Reach(s.out, h)
        BY <3>1
      <3>4. b = IF v.at = "account" THEN High(v.next) ELSE Reach(s.out, h)
        OBVIOUS
      <3>5. Chain(q, b) /\ Reach(q, b) >= n * MsgLen /\ b \in Nat
        BY <3>1, <3>2
      <3> HIDE DEF b
      <3>6. Reach(q, b) \in Nat
        BY <1>3, <3>5, ReachType
      <3>7. Low(x) <= 1 + Reach(q, b)
        BY <1>2, <3>5, <3>6
      <3>8. Chain(u, b) /\ Reach(u, b) = (n + 1) * MsgLen
        BY <1>2, <1>3, <3>5, <3>7, ChainAppend DEF u
      <3>9. Reach(u, b) >= (n + 1) * MsgLen
        BY <1>2, <3>8
      <3> QED
        BY <1>3, <2>1, <3>1, <3>3, <3>4, <3>8, <3>9 DEF WireInv
    <2> QED
      BY <2>2, <2>3
  <1> QED
    BY <1>6, <1>7 DEF Both

\* libwebsockets sends some of the bytes it holds.
LEMMA FlushBytes ==
  ASSUME NEW k, NEW s, NEW n, NEW v, NEW i, NEW s2,
         k.send_queue \in Seq(Seq(Bytes)), s.out \in Seq(Seq(Bytes)), s.wire \in Seq(Bytes),
         s.out # <<>>, n \in 0 .. MaxPosts, v.at \in {"poll", "emit"}, Both(k, s, n, v),
         i \in Takes(Head(s.out)), s2.out = IssueRaw(s.out, <<>>, i).out,
         s2.wire = s.wire \o IssueRaw(s.out, <<>>, i).sent
  PROVE  Both(k, s2, n, v) /\ s2.out \in Seq(Seq(Bytes)) /\ s2.wire \in Seq(Bytes)
  <1> DEFINE o == s.out
             u == UseSegment(o, i)
             w == s.wire \o SubSeq(Head(o), 1, i)
             q == k.send_queue
  <1>1. Gapless(s.wire) /\ NoneEmpty(o) /\ o \in Seq(Seq(Bytes)) /\ o # <<>> /\ q \in Seq(Seq(Bytes))
    BY DEF Both, WireInv
  <1>2. <<>> \in Seq(Bytes) /\ i \in Takes(FirstOf(o, <<>>))
    BY DEF FirstOf
  <1>3. s2.out = u /\ s2.wire = w /\ NoneEmpty(u) /\ i \in 0 .. Len(Head(o))
    BY <1>1, <1>2, IssueTypes
  <1>4. PICK h \in Nat : /\ Covered(s.wire, h) /\ Chain(o, h)
                         /\ Chain(q, Reach(o, h)) /\ Reach(q, Reach(o, h)) >= n * MsgLen
    BY DEF Both, WireInv
  <1>5. /\ w \in Seq(Bytes) /\ Gapless(w) /\ u \in Seq(Seq(Bytes))
        /\ \E g \in Nat : /\ Covered(w, g) /\ Chain(u, g)
                          /\ Reach(u, g) \in Nat /\ Reach(u, g) >= Reach(o, h)
    BY <1>1, <1>3, <1>4, WireUses
  <1> HIDE DEF w, u
  <1>6. PICK g \in Nat : /\ Covered(w, g) /\ Chain(u, g)
                         /\ Reach(u, g) \in Nat /\ Reach(u, g) >= Reach(o, h)
    BY <1>5
  <1> DEFINE r == Reach(o, h)
             r2 == Reach(u, g)
  <1>7. r \in Nat /\ r2 \in Nat /\ r <= r2
    BY <1>1, <1>4, <1>6, ReachType
  <1>8. Chain(q, r) /\ Reach(q, r) >= n * MsgLen
    BY <1>4
  <1> HIDE DEF q, r, o
  <1>9. Chain(q, r2) /\ Reach(q, r) <= Reach(q, r2)
    BY <1>1, <1>7, <1>8, ChainMore
  <1>10. Reach(q, r2) >= n * MsgLen
    <2>1. Reach(q, r) \in Nat /\ Reach(q, r2) \in Nat
      BY <1>1, <1>7, <1>8, <1>9, ReachType
    <2>2. n * MsgLen \in Nat
      <3>1. \A a, b \in Nat : a * b \in Nat
        OBVIOUS
      <3> QED
        BY <3>1, BoundsAssumption
    <2> QED
      BY <1>8, <1>9, <2>1, <2>2
  <1>11. WireInv(k, s2, n, v)
    BY <1>3, <1>5, <1>6, <1>9, <1>10 DEF WireInv, q, r2
  <1> QED
    BY <1>3, <1>5, <1>11 DEF Both

\* A payload is taken from the queue and written.
LEMMA WriteBytes ==
  ASSUME NEW k, NEW s, NEW n, NEW v, NEW i, NEW k2, NEW s2, NEW v2,
         k.send_queue \in Seq(Seq(Bytes)), k.send_queue # <<>>, s.out \in Seq(Seq(Bytes)),
         s.wire \in Seq(Bytes), n \in 0 .. MaxPosts, v.at = "write", Both(k, s, n, v),
         i \in Takes(FirstOf(s.out, Head(k.send_queue))),
         k2.send_queue = Tail(k.send_queue), k2.queued_bytes = k.queued_bytes,
         k2.backpressured = k.backpressured, s2.out = IssueRaw(s.out, Head(k.send_queue), i).out,
         s2.wire = s.wire \o IssueRaw(s.out, Head(k.send_queue), i).sent,
         v2.at = "account", v2.next = Head(k.send_queue)
  PROVE  Both(k2, s2, n, v2) /\ s2.out \in Seq(Seq(Bytes)) /\ s2.wire \in Seq(Bytes)
  <1> DEFINE o == s.out
             q == k.send_queue
             x == Head(q)
             t == Tail(q)
             list == Append(o, x)
             u == UseSegment(list, i)
             w == s.wire \o SubSeq(Head(list), 1, i)
  <1>1. /\ Gapless(s.wire) /\ NoneEmpty(o) /\ o \in Seq(Seq(Bytes)) /\ q \in Seq(Seq(Bytes))
        /\ q # <<>> /\ NoneEmpty(q) /\ IsFiniteSet(Held(q))
    BY DEF Both, WireInv, CountInv
  <1>2. x \in Seq(Bytes) /\ x # <<>> /\ t \in Seq(Seq(Bytes)) /\ NoneEmpty(t)
    BY <1>1, TailParts DEF NoneEmpty
  <1>3. PICK h \in Nat : /\ Covered(s.wire, h) /\ Chain(o, h)
                         /\ Chain(q, Reach(o, h)) /\ Reach(q, Reach(o, h)) >= n * MsgLen
    BY DEF Both, WireInv
  <1>4. Reach(o, h) \in Nat
    BY <1>1, <1>3, ReachType
  <1>5. /\ Run(x) /\ Low(x) <= 1 + Reach(o, h) /\ Chain(t, High(x))
        /\ Reach(t, High(x)) = Reach(q, Reach(o, h))
    BY <1>1, <1>3, <1>4, ChainTail
  <1>6. Held(t) = Held(t) /\ IsFiniteSet(Held(t)) /\ Cardinality(Held(q)) = Len(x) + Cardinality(Held(t))
    BY <1>1, HeldTail
  <1>7. k2.queued_bytes = Cardinality(Held(q)) /\ (~k.backpressured =>
             k2.queued_bytes = 0 \/ k2.queued_bytes < MaxBackpressure)
    <2>1. k.queued_bytes = Cardinality(Held(q)) + 0 /\ (~k.backpressured =>
             k.queued_bytes = 0 \/ k.queued_bytes < MaxBackpressure)
      BY DEF Both, CountInv
    <2>2. Cardinality(Held(q)) \in Nat
      BY <1>1, HeldSome
    <2> QED
      BY <2>1, <2>2
  <1> HIDE DEF q, x, t, o
  <1>8. k2.send_queue = t /\ v2.next = x /\ i \in Takes(FirstOf(o, x))
        /\ s2.out = IssueRaw(o, x, i).out /\ s2.wire = s.wire \o IssueRaw(o, x, i).sent
    BY DEF q, x, t, o
  <1>9. CountInv(k2, v2)
    <2>1. Cardinality(Held(t)) \in Nat /\ Len(x) \in Nat
      BY <1>2, <1>6, HeldSome
    <2>2. k2.queued_bytes = Cardinality(Held(t)) + Len(x)
      BY <1>6, <1>7, <2>1
    <2> QED
      BY <1>2, <1>6, <1>7, <1>8, <2>2 DEF CountInv
  <1>10. /\ s2.out = u /\ s2.wire = w /\ NoneEmpty(u)
         /\ list \in Seq(Seq(Bytes)) /\ list # <<>> /\ i \in 0 .. Len(Head(list))
    <2> DEFINE all == IF x = <<>> THEN o ELSE Append(o, x)
               r == IssueRaw(o, x, i)
    <2>1. /\ r.sent = SubSeq(Head(all), 1, i) /\ r.out = UseSegment(all, i) /\ NoneEmpty(r.out)
          /\ all \in Seq(Seq(Bytes)) /\ all # <<>> /\ i \in 0 .. Len(Head(all))
      <3>1. o \in Seq(Seq(Bytes)) /\ NoneEmpty(o) /\ x \in Seq(Bytes) /\ (o # <<>> \/ x # <<>>)
            /\ i \in Takes(FirstOf(o, x))
        BY <1>1, <1>2, <1>8
      <3> QED
        BY <3>1, IssueTypes
    <2>2. all = list
      BY <1>2
    <2>3. s2.out = r.out /\ s2.wire = s.wire \o r.sent
      BY <1>8
    <2> HIDE DEF all, r, list
    <2> QED
      BY <2>1, <2>2, <2>3
  <1>11. Chain(list, h) /\ Reach(list, h) = High(x)
    BY <1>1, <1>2, <1>3, <1>5, ChainAppend
  <1> HIDE DEF list
  <1>12. /\ w \in Seq(Bytes) /\ Gapless(w) /\ u \in Seq(Seq(Bytes))
         /\ \E g \in Nat : /\ Covered(w, g) /\ Chain(u, g)
                           /\ Reach(u, g) \in Nat /\ Reach(u, g) >= Reach(list, h)
    BY <1>1, <1>3, <1>10, <1>11, WireUses
  <1> HIDE DEF w, u
  <1>13. PICK g \in Nat : /\ Covered(w, g) /\ Chain(u, g)
                          /\ Reach(u, g) \in Nat /\ Reach(u, g) >= High(x)
    BY <1>11, <1>12
  <1>14. High(x) <= Reach(u, g)
    BY <1>2, <1>5, <1>13, RunTypes
  <1>15. Reach(t, High(x)) >= n * MsgLen
    BY <1>3, <1>5
  <1>16. WireInv(k2, s2, n, v2)
    BY <1>5, <1>8, <1>10, <1>12, <1>13, <1>14, <1>15 DEF WireInv
  <1> QED
    BY <1>9, <1>10, <1>12, <1>16 DEF Both

\* The answer is booked: all of the payload is gone, or the rest is put back.
LEMMA BookBytes ==
  ASSUME NEW k, NEW s, NEW n, NEW v, NEW done, NEW k2, NEW s2, NEW v2,
         k.send_queue \in Seq(Seq(Bytes)), k.queued_bytes \in Nat, k.backpressured \in BOOLEAN,
         s.out \in Seq(Seq(Bytes)), n \in 0 .. MaxPosts, v.at = "account", v.next \in Seq(Bytes),
         Both(k, s, n, v), done \in 0 .. Len(v.next), k2.backpressured = k.backpressured,
         k2.queued_bytes = IF k.queued_bytes >= done THEN k.queued_bytes - done ELSE 0,
         k2.send_queue = IF done < Len(v.next)
                           THEN <<SubSeq(v.next, done + 1, Len(v.next))>> \o k.send_queue
                           ELSE k.send_queue,
         s2.out = s.out, s2.wire = s.wire, v2.at \in {"write", "end"}
  PROVE  Both(k2, s2, n, v2) /\ k2.send_queue \in Seq(Seq(Bytes)) /\ k2.queued_bytes \in Nat
  <1> DEFINE q == k.send_queue
             x == v.next
             q2 == k2.send_queue
             rest == SubSeq(x, done + 1, Len(x))
  <1>1. /\ Gapless(s.wire) /\ NoneEmpty(s.out) /\ q \in Seq(Seq(Bytes))
        /\ NoneEmpty(q) /\ IsFiniteSet(Held(q)) /\ x \in Seq(Bytes)
    BY DEF Both, WireInv, CountInv
  <1>2. PICK h \in Nat : /\ Covered(s.wire, h) /\ Chain(s.out, h)
                         /\ Run(x) /\ High(x) <= Reach(s.out, h)
                         /\ Chain(q, High(x)) /\ Reach(q, High(x)) >= n * MsgLen
    BY DEF Both, WireInv
  <1> DEFINE r == Reach(s.out, h)
  <1>3. r \in Nat /\ High(x) \in Nat /\ Low(x) \in Nat \ {0} /\ Len(x) \in Nat
        /\ High(x) = Low(x) + Len(x) - 1 /\ High(x) <= r /\ n * MsgLen \in Nat
    <2>1. \A a, b \in Nat : a * b \in Nat
      OBVIOUS
    <2>2. n * MsgLen \in Nat
      BY <2>1, BoundsAssumption
    <2> QED
      BY <1>1, <1>2, <2>2, ReachType, RunTypes
  <1>4. /\ k.queued_bytes = Cardinality(Held(q)) + Len(x)
        /\ ~k.backpressured => k.queued_bytes = 0 \/ k.queued_bytes < MaxBackpressure
    BY DEF Both, CountInv
  <1>5. Cardinality(Held(q)) \in Nat
    BY <1>1, HeldSome
  <1>6. k2.queued_bytes = Cardinality(Held(q)) + (Len(x) - done) /\ k2.queued_bytes <= k.queued_bytes
        /\ k2.queued_bytes \in Nat
    <2> DEFINE c == Cardinality(Held(q))
               l == Len(x)
    <2>1. k.queued_bytes = c + l /\ c \in Nat /\ l \in Nat /\ done \in 0 .. l
          /\ k2.queued_bytes = IF k.queued_bytes >= done THEN k.queued_bytes - done ELSE 0
      BY <1>3, <1>4, <1>5
    <2> HIDE DEF c, l
    <2>2. c + l >= done /\ (c + l) - done = c + (l - done) /\ c + (l - done) <= c + l
          /\ c + (l - done) \in Nat
      BY <2>1
    <2>3. k2.queued_bytes = c + (l - done) /\ k2.queued_bytes <= k.queued_bytes
          /\ k2.queued_bytes \in Nat
      BY <2>1, <2>2
    <2> QED
      BY <2>3 DEF c, l
  <1> HIDE DEF r
  <1>7. /\ q2 \in Seq(Seq(Bytes)) /\ NoneEmpty(q2) /\ IsFiniteSet(Held(q2))
        /\ Cardinality(Held(q2)) = Cardinality(Held(q)) + (Len(x) - done)
        /\ Chain(q2, r) /\ Reach(q2, r) >= n * MsgLen
    <2>1. CASE done < Len(x)
      <3>1. rest \in Seq(Bytes) /\ Run(rest) /\ Len(rest) = Len(x) - done
            /\ Low(rest) = Low(x) + done /\ High(rest) = High(x)
        BY <1>1, <1>2, <2>1, RunRest
      <3>2. q2 = <<rest>> \o q
        BY <2>1
      <3> HIDE DEF rest, q2
      <3>3. Low(rest) <= 1 + r
        BY <1>3, <2>1, <3>1
      <3>4. /\ q2 \in Seq(Seq(Bytes)) /\ Chain(q2, r) /\ Reach(q2, r) = Reach(q, High(x))
        BY <1>1, <1>2, <1>3, <3>1, <3>2, <3>3, ChainFront
      <3>5. IsFiniteSet(Held(q2)) /\ Cardinality(Held(q2)) = Len(rest) + Cardinality(Held(q))
        BY <1>1, <3>1, <3>2, HeldFront
      <3>6. NoneEmpty(q2)
        BY <3>4 DEF Chain, Run, NoneEmpty
      <3>7. Cardinality(Held(q2)) = Cardinality(Held(q)) + (Len(x) - done)
        BY <1>3, <1>5, <3>1, <3>5
      <3> QED
        BY <1>2, <3>4, <3>5, <3>6, <3>7
    <2>2. CASE ~(done < Len(x))
      <3>1. q2 = q /\ Len(x) - done = 0
        BY <1>3, <2>2
      <3> HIDE DEF q2
      <3>2. Chain(q, r) /\ Reach(q, High(x)) <= Reach(q, r)
        BY <1>1, <1>2, <1>3, ChainMore
      <3>3. Reach(q, High(x)) \in Nat /\ Reach(q, r) \in Nat
        BY <1>1, <1>2, <1>3, <3>2, ReachType
      <3>4. Reach(q, r) >= n * MsgLen
        BY <1>2, <1>3, <3>2, <3>3
      <3>5. Cardinality(Held(q)) = Cardinality(Held(q)) + (Len(x) - done)
        <4>1. \A c \in Nat : c = c + 0
          OBVIOUS
        <4> QED
          BY <1>5, <3>1, <4>1, Zenon
      <3> QED
        BY <1>1, <3>1, <3>2, <3>4, <3>5
    <2> QED
      BY <2>1, <2>2
  <1> HIDE DEF q2
  <1>8. CountInv(k2, v2)
    <2>1. k2.queued_bytes = Cardinality(Held(q2)) + 0
      BY <1>5, <1>6, <1>7
    <2>2. ~k2.backpressured => k2.queued_bytes = 0 \/ k2.queued_bytes < MaxBackpressure
      BY <1>4, <1>6, BoundsAssumption
    <2> QED
      BY <1>7, <2>1, <2>2 DEF CountInv, q2
  <1>9. WireInv(k2, s2, n, v2)
    BY <1>1, <1>2, <1>7 DEF WireInv, r, q2
  <1> QED
    BY <1>6, <1>7, <1>8, <1>9 DEF Both, q2

\* The callback ends, and the backpressure if nothing is left.
LEMMA EndBytes ==
  ASSUME NEW k, k.send_queue \in Seq(Seq(Bytes)), k.backpressured \in BOOLEAN, NEW s, NEW n,
         NEW v, v.at = "end", Both(k, s, n, v),
         NEW k2, k2.send_queue = k.send_queue, k2.queued_bytes = k.queued_bytes,
         k2.backpressured = (k.backpressured /\ k.send_queue # <<>>),
         NEW s2, s2.out = s.out, s2.wire = s.wire, NEW v2, v2.at \in {"poll", "emit"}
  PROVE  Both(k2, s2, n, v2)
  <1> DEFINE q == k.send_queue
             m == Cardinality(Held(q))
  <1>1. q \in Seq(Seq(Bytes)) /\ NoneEmpty(q) /\ IsFiniteSet(Held(q)) /\ k.queued_bytes = m + 0
        /\ (~k.backpressured => k.queued_bytes = 0 \/ k.queued_bytes < MaxBackpressure)
    BY DEF Both, CountInv
  <1>2. m \in Nat /\ (m = 0 <=> q = <<>>)
    BY <1>1, HeldSome
  <1>3. k2.backpressured => q # <<>>
    OBVIOUS
  <1>4. ~k2.backpressured => ~k.backpressured \/ q = <<>>
    OBVIOUS
  <1> HIDE DEF m
  <1>5. k2.queued_bytes = m + 0 /\ k2.queued_bytes = m
    BY <1>1, <1>2
  <1>6. k2.backpressured => m > 0
    BY <1>2, <1>3
  <1>7. ~k2.backpressured => m = 0 \/ m < MaxBackpressure
    BY <1>1, <1>2, <1>4, <1>5
  <1>8. CountInv(k2, v2)
    BY <1>1, <1>5, <1>6, <1>7 DEF CountInv, m
  <1>9. WireInv(k2, s2, n, v2)
    BY DEF Both, WireInv
  <1> QED
    BY <1>8, <1>9 DEF Both
-----------------------------------------------------------------------------
(* The steps, and the bytes. *)

LEMMA Types ==
  TypeOK <=>
    /\ opt \in Options /\ context \in BOOLEAN
    /\ js \in {"free", "stopping", "hung"} /\ listens \in 0 .. MaxListens
    /\ connections \subseteq Conns /\ conn \in [Conns -> Links] /\ skt \in [Conns -> Sockets]
    /\ svc \in ServicePoints /\ events \in Seq(Events) /\ wrap \in [Conns -> Mirrors]
    /\ peer \in [Conns -> {"none", "up", "fin", "rst", "cut", "gone"}]
    /\ sent \in [Conns -> Seq({"hs", "data", "huge"})]
    /\ posted \in [Conns -> 0 .. MaxPosts] /\ told \in [Conns -> Seq(Notes)]
  BY DEF TypeOK, Links, Sockets, Events, Mirrors, Notes

LEMMA PointParts ==
  ASSUME NEW sv \in ServicePoints
  PROVE  /\ sv.at \in {"poll", "kill", "end", "emit", "write", "account"}
         /\ sv.at = "poll" <=> sv = Polling
         /\ sv # Polling => sv.c \in Conns
         /\ sv.at = "emit" => sv.e \in {"connection", "drain"}
         /\ sv.at \in {"write", "account"} => sv.n \in 0 .. MaxWrites
         /\ sv.at = "account" => sv.next \in Seq(Bytes) /\ sv.written \in Nat
  BY DEF ServicePoints, Polling

LEMMA NewTypes == NewConnection \in Links /\ NewSocket \in Sockets /\ NoState \in Mirrors
  <1>1. NewConnection \in Links
    BY DEF NewConnection, Links
  <1>2. NewSocket \in Sockets
    BY DEF NewSocket, Sockets
  <1>3. NoState \in Mirrors
    BY DEF NoState, Mirrors
  <1> QED
    BY <1>1, <1>2, <1>3

LEMMA ViewParts ==
  ASSUME NEW sv \in ServicePoints, NEW c
  PROVE  /\ View(sv, c) \in ServicePoints
         /\ View(sv, c) = sv \/ View(sv, c) = Polling
         /\ sv = Polling => View(sv, c) = Polling
         /\ sv # Polling /\ sv.c = c => View(sv, c) = sv
         /\ sv # Polling /\ sv.c # c => View(sv, c) = Polling
         /\ Polling.at = "poll"
  BY DEF View, ServicePoints, Polling

\* A step that concerns one connection only.
LEMMA OneConnection ==
  ASSUME Safe, NEW c \in Conns, svc' \in ServicePoints,
         \A d \in Conns \ {c} : conn'[d] = conn[d] /\ skt'[d] = skt[d] /\ posted'[d] = posted[d],
         svc = Polling \/ svc.c = c, svc' = Polling \/ svc'.c = c,
         Both(conn'[c], skt'[c], posted'[c], View(svc', c))
  PROVE  \A d \in Conns : Both(conn'[d], skt'[d], posted'[d], View(svc', d))
  <1> TAKE d \in Conns
  <1>1. svc \in ServicePoints /\ Both(conn[d], skt[d], posted[d], View(svc, d))
    BY Types DEF Safe
  <1>2. CASE d = c
    BY <1>2
  <1>3. CASE d # c
    <2>1. View(svc, d) = Polling /\ View(svc', d) = Polling
      BY <1>1, <1>3, ViewParts
    <2> QED
      BY <1>1, <1>3, <2>1
  <1> QED
    BY <1>2, <1>3

\* A step that leaves the connections alone.
LEMMA IdleBytes ==
  ASSUME Safe, UNCHANGED <<connections, conn, skt, svc, posted, peer>>, TypeOK'
  PROVE  Safe'
  <1>1. /\ connections' = connections /\ conn' = conn /\ skt' = skt /\ svc' = svc
        /\ posted' = posted /\ peer' = peer
    OBVIOUS
  <1>2. Alive'
    BY <1>1 DEF Safe, Alive
  <1> QED
    BY <1>1, <1>2 DEF Safe

LEMMA SafeInit == Init => Safe
  <1> SUFFICES ASSUME Init PROVE Safe
    OBVIOUS
  <1>1. TypeOK
    <2>1. /\ conn = [c \in Conns |-> NewConnection] /\ skt = [c \in Conns |-> NewSocket]
          /\ svc = Polling /\ wrap = [c \in Conns |-> NoState] /\ events = <<>>
      BY DEF Init
    <2>2. conn \in [Conns -> Links] /\ skt \in [Conns -> Sockets] /\ wrap \in [Conns -> Mirrors]
      BY <2>1, NewTypes, Zenon
    <2>3. svc \in ServicePoints /\ events \in Seq(Events)
      BY <2>1 DEF ServicePoints
    <2>4. /\ opt \in Options /\ context = FALSE /\ js = "free" /\ listens = 0 /\ connections = {}
          /\ peer = [c \in Conns |-> "none"] /\ sent = [c \in Conns |-> <<>>]
          /\ posted = [c \in Conns |-> 0] /\ told = [c \in Conns |-> <<>>]
      BY DEF Init
    <2>5. 0 \in 0 .. MaxListens /\ 0 \in 0 .. MaxPosts
      BY BoundsAssumption
    <2>6. sent \in [Conns -> Seq({"hs", "data", "huge"})] /\ told \in [Conns -> Seq(Notes)]
      BY <2>4
    <2>7. posted \in [Conns -> 0 .. MaxPosts]
          /\ peer \in [Conns -> {"none", "up", "fin", "rst", "cut", "gone"}]
      BY <2>4, <2>5
    <2> QED
      BY <2>2, <2>3, <2>4, <2>5, <2>6, <2>7, Types
  <1>2. Alive
    BY DEF Init, Alive, Polling
  <1>3. ASSUME NEW c \in Conns
        PROVE  Both(conn[c], skt[c], posted[c], View(svc, c))
    <2>1. svc = Polling /\ svc \in ServicePoints
      BY <1>1, Types DEF Init
    <2>2. View(svc, c) = Polling /\ Polling.at = "poll"
      BY <2>1, ViewParts
    <2>3. conn[c] = NewConnection /\ skt[c] = NewSocket /\ posted[c] = 0
      BY DEF Init
    <2> QED
      BY <2>2, <2>3, NewBytes
  <1> QED
    BY <1>1, <1>2, <1>3 DEF Safe

\* A flag is set, of a connection or a socket: no byte moves.
LEMMA ClosingParts ==
  ASSUME Safe, NEW c \in Conns, c \in connections, Closing(c)
  PROVE  /\ conn' \in [Conns -> Links] /\ skt' \in [Conns -> Sockets]
         /\ \A d \in Conns \ {c} : conn'[d] = conn[d] /\ skt'[d] = skt[d]
         /\ conn'[c].send_queue = conn[c].send_queue /\ conn'[c].queued_bytes = conn[c].queued_bytes
         /\ conn'[c].backpressured = conn[c].backpressured /\ conn'[c].rx_frames = conn[c].rx_frames
         /\ skt'[c].out = skt[c].out /\ skt'[c].wire = skt[c].wire
  <1>1. conn \in [Conns -> Links] /\ skt \in [Conns -> Sockets] /\ conn[c] \in Links /\ skt[c] \in Sockets
    BY Types DEF Safe
  <1> DEFINE k == [conn[c] EXCEPT !.closing = TRUE, !.writable_scheduled = TRUE]
             s == Requested(skt[c], conn[c])
  <1>2. conn' = [conn EXCEPT ![c] = k] /\ skt' = [skt EXCEPT ![c] = s]
    BY <1>1 DEF Closing, Scheduled
  <1>3. /\ k \in Links /\ k.send_queue = conn[c].send_queue /\ k.queued_bytes = conn[c].queued_bytes
        /\ k.backpressured = conn[c].backpressured /\ k.rx_frames = conn[c].rx_frames
    BY <1>1 DEF Links
  <1>4. s \in Sockets /\ s.out = skt[c].out /\ s.wire = skt[c].wire
    BY <1>1 DEF Sockets, Requested
  <1> HIDE DEF k, s
  <1> QED
    BY <1>1, <1>2, <1>3, <1>4

\* API calls and callbacks of the JavaScript thread that leave the bytes alone.
LEMMA IdleSteps ==
  ASSUME Safe, Listen \/ StopBegins \/ \E c \in Conns : PeerSends(c)
  PROVE  Safe'
  <1>1. TypeOK /\ svc \in ServicePoints
    BY Types DEF Safe
  <1>2. CASE Listen
    <2>1. UNCHANGED <<opt, js, connections, conn, skt, svc, events, wrap, peer, sent, posted, told>>
          /\ listens < MaxListens /\ listens' = listens + 1 /\ context' = TRUE
      BY <1>2 DEF Listen, history
    <2>2. listens' \in 0 .. MaxListens
      BY <1>1, <2>1, Types, BoundsAssumption
    <2>3. TypeOK'
      BY <1>1, <2>1, <2>2 DEF TypeOK
    <2> QED
      BY <2>1, <2>3, IdleBytes
  <1>3. CASE StopBegins
    <2>1. UNCHANGED <<opt, context, listens, connections, conn, skt, svc, events, wrap, peer, sent,
                      posted, told>>
          /\ js' = "stopping"
      BY <1>3 DEF StopBegins, native, history
    <2>2. TypeOK'
      BY <1>1, <2>1 DEF TypeOK
    <2> QED
      BY <2>1, <2>2, IdleBytes
  <1>4. ASSUME NEW c \in Conns, PeerSends(c)
        PROVE  Safe'
    <2>1. UNCHANGED <<opt, context, js, listens, connections, conn, skt, svc, events, wrap, peer,
                      posted, told>>
      BY <1>4 DEF PeerSends, native, history
    <2>2. PICK s \in Scripts : /\ IsStrictPrefix(sent[c], s)
                               /\ sent' = [sent EXCEPT ![c] = Append(@, s[Len(@) + 1])]
      BY <1>4 DEF PeerSends
    <2> DEFINE z == s[Len(sent[c]) + 1]
    <2>3. z \in {"hs", "data", "huge"}
      <3>1. s \in Seq({"hs", "data", "huge"}) /\ sent[c] \in Seq({"hs", "data", "huge"})
        BY <1>1, BoundsAssumption, Types
      <3>2. Len(sent[c]) <= Len(s) /\ SubSeq(sent[c], 1, Len(sent[c])) = SubSeq(s, 1, Len(sent[c]))
            /\ sent[c] # s
        BY <2>2 DEF IsStrictPrefix, IsPrefix
      <3>3. Len(sent[c]) < Len(s)
        <4>1. Len(sent[c]) \in Nat /\ Len(s) \in Nat
          BY <3>1
        <4>2. \A q \in Seq({"hs", "data", "huge"}) : SubSeq(q, 1, Len(q)) = q
          <5> TAKE q \in Seq({"hs", "data", "huge"})
          <5>1. Len(q) \in Nat /\ SubSeq(q, 1, Len(q)) \in Seq({"hs", "data", "huge"})
            OBVIOUS
          <5>2. Len(SubSeq(q, 1, Len(q))) = Len(q)
                /\ \A i \in 1 .. Len(q) : SubSeq(q, 1, Len(q))[i] = q[i]
            BY <5>1
          <5> QED
            BY <5>1, <5>2, SeqEqual
        <4>3. Len(sent[c]) # Len(s)
          BY <3>1, <3>2, <4>2
        <4> QED
          BY <3>2, <4>1, <4>3
      <3>4. Len(sent[c]) + 1 \in 1 .. Len(s)
        BY <3>1, <3>3
      <3> QED
        BY <3>1, <3>4
    <2>4. sent' = [sent EXCEPT ![c] = Append(sent[c], z)]
      BY <2>2
    <2> HIDE DEF z
    <2>5. sent' \in [Conns -> Seq({"hs", "data", "huge"})]
      <3>1. sent \in [Conns -> Seq({"hs", "data", "huge"})]
        BY <1>1, Types
      <3>2. Append(sent[c], z) \in Seq({"hs", "data", "huge"})
        BY <2>3, <3>1
      <3> QED
        BY <2>4, <3>1, <3>2
    <2>6. TypeOK'
      BY <1>1, <2>1, <2>5 DEF TypeOK
    <2> QED
      BY <2>1, <2>6, IdleBytes
  <1> QED
    BY <1>2, <1>3, <1>4

LEMMA RoutedTypes ==
  ASSUME TypeOK, NEW ev \in Events
  PROVE  Routed(ev) \in Mirrors
  <1> DEFINE w == wrap[ev.c]
  <1>1. /\ w \in Mirrors /\ ev.f \in Nat /\ opt.verify \in BOOLEAN
        /\ ev.e \in {"connection", "message", "backpressure", "drain", "clientClosed"}
    BY Types, OptionsAssumption DEF Events, Locked
  <1>2. CASE ev.e = "connection"
    <2>1. Routed(ev) = [state |-> IF opt.verify THEN "pending" ELSE "accepted",
                        backpressured |-> FALSE, pending |-> <<>>, verifying |-> opt.verify]
      BY <1>2 DEF Routed, NoState, Flow
    <2> QED
      BY <1>1, <2>1 DEF Mirrors
  <1>3. CASE ev.e = "message"
    <2>1. Routed(ev) = IF w.state = "pending" THEN [w EXCEPT !.pending = Append(@, ev.f)] ELSE w
      BY <1>3 DEF Routed, Flow
    <2>2. Append(w.pending, ev.f) \in Seq(Nat)
      BY <1>1 DEF Mirrors
    <2> QED
      BY <1>1, <2>1, <2>2 DEF Mirrors
  <1>4. CASE ev.e \in Flow
    <2>1. Routed(ev) = IF w.state = "none" THEN w
                       ELSE [w EXCEPT !.backpressured = (ev.e = "backpressure")]
      BY <1>4 DEF Routed, Flow
    <2> QED
      BY <1>1, <2>1 DEF Mirrors
  <1>5. CASE ev.e = "clientClosed"
    <2>1. Routed(ev) = [w EXCEPT !.state = "none", !.backpressured = FALSE]
      BY <1>5 DEF Routed, Flow
    <2> QED
      BY <1>1, <2>1 DEF Mirrors
  <1> QED
    BY <1>1, <1>2, <1>3, <1>4, <1>5 DEF Flow

LEMMA DeliverStep ==
  ASSUME Safe, NEW again \in Reentrant, Deliver(again)
  PROVE  Safe'
  <1>1. TypeOK /\ events \in Seq(Events) /\ wrap \in [Conns -> Mirrors] /\ told \in [Conns -> Seq(Notes)]
    BY Types DEF Safe
  <1>2. /\ UNCHANGED <<opt, context, listens, connections, conn, skt, svc, peer, sent, posted>>
        /\ events # <<>> /\ events' = Tail(events) /\ js' \in {"hung", "free"}
    BY DEF Deliver, native
  <1> DEFINE ev == Head(events)
             live == ev.e \notin Locked \/ ev.c \in connections
             heard == live /\ Heard(ev)
             w == IF live THEN Routed(ev) ELSE wrap[ev.c]
             t == IF heard /\ ev.e \notin Flow THEN Append(told[ev.c], Told(ev.e, ev.f)) ELSE told[ev.c]
  <1>3. ev \in Events /\ events' \in Seq(Events)
    BY <1>1, <1>2, TailParts
  <1>4. wrap' = [wrap EXCEPT ![ev.c] = w] /\ told' = [told EXCEPT ![ev.c] = t]
    BY DEF Deliver
  <1> HIDE DEF ev
  <1>5. ev.c \in Conns /\ ev.f \in Nat /\ (ev.e \notin Flow => ev.e \in {"connection", "message", "clientClosed"})
    BY <1>3 DEF Events, Locked, Flow
  <1>6. w \in Mirrors
    BY <1>1, <1>3, <1>5, RoutedTypes
  <1>7. t \in Seq(Notes)
    <2>1. ev.e \notin Flow => Told(ev.e, ev.f) \in Notes
      BY <1>5 DEF Notes, Told
    <2>2. told[ev.c] \in Seq(Notes)
      BY <1>1, <1>5
    <2>3. ev.e \notin Flow => Append(told[ev.c], Told(ev.e, ev.f)) \in Seq(Notes)
      BY <2>1, <2>2
    <2> QED
      BY <2>2, <2>3
  <1> HIDE DEF w, t
  <1>8. wrap' \in [Conns -> Mirrors] /\ told' \in [Conns -> Seq(Notes)]
    BY <1>1, <1>4, <1>5, <1>6, <1>7
  <1>9. TypeOK'
    BY <1>1, <1>2, <1>3, <1>8 DEF TypeOK, Events, Mirrors, Notes
  <1> QED
    BY <1>2, <1>9, IdleBytes

LEMMA AcceptStep ==
  ASSUME Safe, NEW c \in Conns, Accept(c)
  PROVE  Safe'
  <1>1. TypeOK /\ wrap \in [Conns -> Mirrors] /\ told \in [Conns -> Seq(Notes)] /\ wrap[c] \in Mirrors
    BY Types DEF Safe
  <1>2. UNCHANGED <<opt, context, listens, js, connections, conn, skt, svc, events, peer, sent, posted>>
    BY DEF Accept, native
  <1> DEFINE w == [wrap[c] EXCEPT !.verifying = FALSE, !.pending = <<>>,
                                  !.state = IF @ = "pending" THEN "accepted" ELSE @]
             p == wrap[c].pending
             t == Append(told[c], Told("connection", 0)) \o [i \in DOMAIN p |-> Told("message", p[i])]
  <1>3. wrap' = [wrap EXCEPT ![c] = w]
    BY <1>1 DEF Accept
  <1>4. told' = [told EXCEPT ![c] = t]
    BY DEF Accept
  <1>5. w \in Mirrors
    <2> DEFINE st == IF wrap[c].state = "pending" THEN "accepted" ELSE wrap[c].state
    <2>1. st \in {"none", "pending", "accepted"} /\ <<>> \in Seq(Nat)
      BY <1>1 DEF Mirrors
    <2>2. w = [wrap[c] EXCEPT !.verifying = FALSE, !.pending = <<>>, !.state = st]
      OBVIOUS
    <2> HIDE DEF st, w
    <2> QED
      BY <1>1, <2>1, <2>2 DEF Mirrors
  <1>6. t \in Seq(Notes)
    <2>1. p \in Seq(Nat) /\ told[c] \in Seq(Notes)
      BY <1>1 DEF Mirrors
    <2>2. Told("connection", 0) \in Notes /\ \A i \in DOMAIN p : Told("message", p[i]) \in Notes
      BY <2>1 DEF Notes, Told
    <2>3. Append(told[c], Told("connection", 0)) \in Seq(Notes)
      BY <2>1, <2>2
    <2>4. [i \in DOMAIN p |-> Told("message", p[i])] \in Seq(Notes)
      <3>1. DOMAIN p = 1 .. Len(p) /\ Len(p) \in Nat
        BY <2>1
      <3> QED
        BY <2>2, <3>1
    <2> QED
      BY <2>3, <2>4
  <1> HIDE DEF w, t
  <1>7. wrap' \in [Conns -> Mirrors] /\ told' \in [Conns -> Seq(Notes)]
    BY <1>1, <1>3, <1>4, <1>5, <1>6
  <1>8. TypeOK'
    BY <1>1, <1>2, <1>7 DEF TypeOK, Mirrors, Notes
  <1> QED
    BY <1>2, <1>8, IdleBytes

LEMMA CloseStep ==
  ASSUME Safe, NEW c \in Conns, CloseConnection(c) \/ Reject(c)
  PROVE  Safe'
  <1>1. TypeOK /\ Alive /\ wrap \in [Conns -> Mirrors] /\ wrap[c] \in Mirrors /\ svc \in ServicePoints
        /\ Both(conn[c], skt[c], posted[c], View(svc, c))
    BY Types DEF Safe
  <1>2. /\ UNCHANGED <<opt, context, listens, js, connections, svc, events, peer, sent, posted, told>>
        /\ wrap' = wrap \/ wrap' = [wrap EXCEPT ![c].verifying = FALSE]
    BY DEF CloseConnection, Reject, native, history
  <1>3. wrap' \in [Conns -> Mirrors]
    <2> DEFINE w == [wrap[c] EXCEPT !.verifying = FALSE]
    <2>1. w \in Mirrors
      BY <1>1 DEF Mirrors
    <2>2. wrap' = wrap \/ wrap' = [wrap EXCEPT ![c] = w]
      BY <1>1, <1>2
    <2> HIDE DEF w
    <2> QED
      BY <1>1, <2>1, <2>2
  <1>4. CASE UNCHANGED <<conn, skt>>
    <2>1. TypeOK'
      BY <1>1, <1>2, <1>3, <1>4 DEF TypeOK, Mirrors
    <2> QED
      BY <1>2, <1>4, <2>1, IdleBytes
  <1>5. CASE c \in connections /\ Closing(c)
    <2>1. /\ conn' \in [Conns -> Links] /\ skt' \in [Conns -> Sockets]
          /\ \A d \in Conns \ {c} : conn'[d] = conn[d] /\ skt'[d] = skt[d]
          /\ conn'[c].send_queue = conn[c].send_queue /\ conn'[c].queued_bytes = conn[c].queued_bytes
          /\ conn'[c].backpressured = conn[c].backpressured
          /\ skt'[c].out = skt[c].out /\ skt'[c].wire = skt[c].wire
      BY <1>5, ClosingParts
    <2>2. TypeOK'
      BY <1>1, <1>2, <1>3, <2>1 DEF TypeOK, Mirrors, Links, Sockets
    <2>3. Alive'
      <3>1. \A d \in Conns : d \notin connections => conn'[d] = conn[d] /\ skt'[d] = skt[d]
        BY <1>5, <2>1
      <3> QED
        BY <1>1, <1>2, <3>1 DEF Alive
    <2>4. ASSUME NEW d \in Conns
          PROVE  Both(conn'[d], skt'[d], posted'[d], View(svc', d))
      <3>1. Both(conn[d], skt[d], posted[d], View(svc, d)) /\ svc' = svc /\ posted' = posted
        BY <1>2 DEF Safe
      <3>2. CASE d = c
        BY <2>1, <3>1, <3>2, QuietBytes
      <3>3. CASE d # c
        BY <2>1, <3>1, <3>3
      <3> QED
        BY <3>2, <3>3
    <2> QED
      BY <2>2, <2>3, <2>4 DEF Safe
  <1> QED
    BY <1>4, <1>5 DEF CloseConnection, Reject

LEMMA QueuedParts ==
  ASSUME Safe, NEW c \in Conns, posted[c] < MaxPosts
  PROVE  LET k == Scheduled(Queued(c))
             s == Requested(skt[c], conn[c])
         IN /\ k \in Links /\ s \in Sockets
            /\ k.send_queue = Append(conn[c].send_queue, Payload(posted[c] + 1))
            /\ k.queued_bytes = conn[c].queued_bytes + MsgLen
            /\ k.backpressured = (conn[c].backpressured \/ conn[c].queued_bytes + MsgLen >= MaxBackpressure)
            /\ k.rx_frames = conn[c].rx_frames
            /\ s.out = skt[c].out /\ s.wire = skt[c].wire
            /\ posted[c] + 1 \in 0 .. MaxPosts /\ Queued(c).backpressured = k.backpressured
  <1>1. conn[c] \in Links /\ skt[c] \in Sockets /\ posted[c] \in 0 .. MaxPosts
    BY Types DEF Safe
  <1> DEFINE x == Payload(posted[c] + 1)
             q == Append(conn[c].send_queue, x)
             b == conn[c].queued_bytes + MsgLen
             f == conn[c].backpressured \/ b >= MaxBackpressure
             k == Scheduled(Queued(c))
             s == Requested(skt[c], conn[c])
  <1>2. posted[c] + 1 \in 1 .. MaxPosts /\ posted[c] + 1 \in 0 .. MaxPosts
    BY <1>1, BoundsAssumption
  <1>3. q \in Seq(Seq(Bytes))
    <2>1. x \in Seq(Bytes) /\ conn[c].send_queue \in Seq(Seq(Bytes))
      BY <1>1, <1>2, PayloadParts DEF Links
    <2> QED
      BY <2>1
  <1>4. b \in Nat /\ f \in BOOLEAN
    BY <1>1, BoundsAssumption DEF Links
  <1>5. Queued(c) = [conn[c] EXCEPT !.send_queue = q, !.queued_bytes = b, !.backpressured = f]
    BY DEF Queued
  <1> HIDE DEF q, b, f
  <1>6. k = [conn[c] EXCEPT !.send_queue = q, !.queued_bytes = b, !.backpressured = f,
                            !.writable_scheduled = TRUE]
        /\ Queued(c).backpressured = f
    BY <1>1, <1>5 DEF Scheduled, Links
  <1> HIDE DEF k
  <1>7. k \in Links /\ k.send_queue = q /\ k.queued_bytes = b /\ k.backpressured = f
        /\ k.rx_frames = conn[c].rx_frames
    BY <1>1, <1>3, <1>4, <1>6 DEF Links
  <1>8. s \in Sockets /\ s.out = skt[c].out /\ s.wire = skt[c].wire
    BY <1>1 DEF Sockets, Requested
  <1> HIDE DEF s
  <1>9. Queued(c).backpressured = k.backpressured
    BY <1>6, <1>7
  <1> QED
    BY <1>2, <1>7, <1>8, <1>9 DEF k, s, q, b, f, x

\* The events of one call of Post, in whatever order the map is walked.
LEMMA PostEvents ==
  ASSUME NEW S \in SUBSET Conns, NEW order \in SetToSeqs(S)
  PROVE  LET new == [i \in DOMAIN order |-> Event("backpressure", order[i], 0)]
         IN /\ new \in Seq(Events)
            /\ \A i \in DOMAIN new : new[i].e = "backpressure" /\ new[i].f = 0 /\ new[i].c \in S
  <1> DEFINE new == [i \in DOMAIN order |-> Event("backpressure", order[i], 0)]
             n == Cardinality(S)
  <1>1. n \in Nat
    <2>1. IsFiniteSet(S)
      BY FS_Subset, ConnsAssumption
    <2> QED
      BY <2>1, FS_CardinalityType
  <1>2. order \in [1 .. n -> S]
    BY DEF SetToSeqs
  <1> HIDE DEF n
  <1>3. DOMAIN order = 1 .. n /\ \A i \in 1 .. n : order[i] \in S
    BY <1>2
  <1>4. \A i \in 1 .. n : Event("backpressure", order[i], 0) \in Events
    <2> TAKE i \in 1 .. n
    <2>1. order[i] \in Conns /\ "backpressure" \in Locked /\ 0 \in Nat
      BY <1>3 DEF Locked
    <2> QED
      BY <2>1 DEF Event, Events
  <1>5. new \in [1 .. n -> Events]
    BY <1>3, <1>4
  <1>6. new \in Seq(Events)
    BY <1>1, <1>5
  <1>7. \A i \in DOMAIN new : new[i].e = "backpressure" /\ new[i].f = 0 /\ new[i].c \in S
    BY <1>3 DEF Event
  <1> QED
    BY <1>6, <1>7

LEMMA PostStep ==
  ASSUME Safe, NEW cs \in SUBSET connections, Post(cs),
         UNCHANGED <<native, js, connections, svc, wrap, peer, sent, told>>
  PROVE  Safe'
  <1>1. /\ TypeOK /\ Alive /\ conn \in [Conns -> Links] /\ skt \in [Conns -> Sockets]
        /\ svc \in ServicePoints /\ events \in Seq(Events) /\ posted \in [Conns -> 0 .. MaxPosts]
        /\ connections \subseteq Conns
    BY Types DEF Safe
  <1>2. /\ UNCHANGED <<opt, context, listens, js, connections, svc, wrap, peer, sent, told>>
    BY DEF native
  <1>3. /\ \A c \in cs : posted[c] < MaxPosts
        /\ conn' = [c \in Conns |-> IF c \in cs THEN Scheduled(Queued(c)) ELSE conn[c]]
        /\ skt' = [c \in Conns |-> IF c \in cs THEN Requested(skt[c], conn[c]) ELSE skt[c]]
        /\ posted' = [c \in Conns |-> IF c \in cs THEN posted[c] + 1 ELSE posted[c]]
    BY DEF Post
  <1>4. ASSUME NEW c \in Conns
        PROVE  conn'[c] \in Links /\ skt'[c] \in Sockets /\ posted'[c] \in 0 .. MaxPosts
               /\ Both(conn'[c], skt'[c], posted'[c], View(svc', c))
               /\ (c \notin cs => conn'[c] = conn[c] /\ skt'[c] = skt[c] /\ posted'[c] = posted[c])
    <2>1. Both(conn[c], skt[c], posted[c], View(svc, c)) /\ svc' = svc
      BY <1>2 DEF Safe
    <2>2. CASE c \notin cs
      <3>1. conn'[c] = conn[c] /\ skt'[c] = skt[c] /\ posted'[c] = posted[c]
        BY <1>3, <2>2
      <3> QED
        BY <1>1, <2>1, <3>1
    <2>3. CASE c \in cs
      <3> DEFINE k == Scheduled(Queued(c))
                 s == Requested(skt[c], conn[c])
      <3>1. conn'[c] = k /\ skt'[c] = s /\ posted'[c] = posted[c] + 1 /\ posted[c] < MaxPosts
        BY <1>3, <2>3
      <3>2. /\ k \in Links /\ s \in Sockets
            /\ k.send_queue = Append(conn[c].send_queue, Payload(posted[c] + 1))
            /\ k.queued_bytes = conn[c].queued_bytes + MsgLen
            /\ k.backpressured = (conn[c].backpressured \/ conn[c].queued_bytes + MsgLen >= MaxBackpressure)
            /\ s.out = skt[c].out /\ s.wire = skt[c].wire /\ posted[c] + 1 \in 0 .. MaxPosts
        BY <3>1, QueuedParts
      <3> HIDE DEF k, s
      <3> DEFINE v == View(svc, c)
                 n == posted[c]
      <3>3. /\ conn[c].send_queue \in Seq(Seq(Bytes)) /\ conn[c].queued_bytes \in Nat
            /\ conn[c].backpressured \in BOOLEAN /\ skt[c].out \in Seq(Seq(Bytes))
        BY <1>1 DEF Links, Sockets
      <3>4. n \in 0 .. MaxPosts /\ n < MaxPosts /\ (v.at = "account" => v.next \in Seq(Bytes))
        BY <1>1, <3>1, ViewParts, PointParts
      <3>5. Both(conn[c], skt[c], n, v)
        BY <2>1
      <3> HIDE DEF v, n
      <3>6. Both(k, s, n + 1, v)
        BY <3>2, <3>3, <3>4, <3>5, PostBytes DEF n
      <3> QED
        BY <2>1, <2>3, <3>1, <3>2, <3>6 DEF v, n
    <2> QED
      BY <2>2, <2>3
  <1>5. events' \in Seq(Events)
    <2> DEFINE S == {c \in cs : Overflows(c)}
    <2>1. PICK order \in SetToSeqs(S) :
            events' = events \o [i \in DOMAIN order |-> Event("backpressure", order[i], 0)]
      BY DEF Post
    <2> DEFINE new == [i \in DOMAIN order |-> Event("backpressure", order[i], 0)]
    <2>2. S \in SUBSET Conns
      BY <1>1
    <2> HIDE DEF S
    <2>3. new \in Seq(Events)
      BY <2>1, <2>2, PostEvents
    <2> HIDE DEF new
    <2> QED
      BY <1>1, <2>1, <2>3 DEF new
  <1>6. conn' \in [Conns -> Links] /\ skt' \in [Conns -> Sockets] /\ posted' \in [Conns -> 0 .. MaxPosts]
    <2>1. /\ conn' = [c \in Conns |-> conn'[c]] /\ skt' = [c \in Conns |-> skt'[c]]
          /\ posted' = [c \in Conns |-> posted'[c]]
      BY <1>3
    <2> QED
      BY <1>4, <2>1
  <1>7. TypeOK'
    BY <1>1, <1>2, <1>5, <1>6 DEF TypeOK, Links, Sockets, Events
  <1>8. Alive'
    <2>1. \A d \in Conns : d \notin connections =>
            conn'[d] = conn[d] /\ skt'[d] = skt[d] /\ posted'[d] = posted[d]
      BY <1>4
    <2> QED
      BY <1>1, <1>2, <2>1 DEF Alive
  <1> QED
    BY <1>4, <1>7, <1>8 DEF Safe

LEMMA SendSteps ==
  ASSUME Safe, Broadcast \/ \E c \in Conns : SendTo(c)
  PROVE  Safe'
  <1>1. CASE Broadcast
    <2>1. Post(connections) /\ UNCHANGED <<native, js, connections, svc, wrap, peer, sent, told>>
      BY <1>1 DEF Broadcast
    <2> QED
      BY <2>1, PostStep
  <1>2. ASSUME NEW c \in Conns, SendTo(c)
        PROVE  Safe'
    <2>1. c \in connections /\ Post({c}) /\ UNCHANGED <<native, js, connections, svc, wrap, peer, sent, told>>
      BY <1>2 DEF SendTo
    <2>2. {c} \in SUBSET connections
      BY <2>1
    <2> QED
      BY <2>1, <2>2, PostStep
  <1> QED
    BY <1>1, <1>2

\* The objects of the connections cs are freed.
LEMMA ForgetParts ==
  ASSUME Safe, NEW cs \in SUBSET Conns, Forget(cs)
  PROVE  /\ conn' \in [Conns -> Links] /\ skt' \in [Conns -> Sockets]
         /\ sent' \in [Conns -> Seq({"hs", "data", "huge"})] /\ posted' \in [Conns -> 0 .. MaxPosts]
         /\ \A c \in Conns : IF c \in cs
              THEN conn'[c] = NewConnection /\ skt'[c] = NewSocket /\ posted'[c] = 0
              ELSE conn'[c] = conn[c] /\ skt'[c] = skt[c] /\ posted'[c] = posted[c]
  <1>1. /\ conn \in [Conns -> Links] /\ skt \in [Conns -> Sockets]
        /\ sent \in [Conns -> Seq({"hs", "data", "huge"})] /\ posted \in [Conns -> 0 .. MaxPosts]
        /\ 0 \in 0 .. MaxPosts /\ <<>> \in Seq({"hs", "data", "huge"})
    BY Types, BoundsAssumption DEF Safe
  <1>2. conn' \in [Conns -> Links] /\ skt' \in [Conns -> Sockets]
    BY <1>1, NewTypes DEF Forget
  <1>3. sent' \in [Conns -> Seq({"hs", "data", "huge"})] /\ posted' \in [Conns -> 0 .. MaxPosts]
    BY <1>1 DEF Forget
  <1> QED
    BY <1>2, <1>3 DEF Forget

LEMMA StopEndsStep ==
  ASSUME Safe, StopEnds
  PROVE  Safe'
  <1>1. /\ TypeOK /\ Alive /\ svc \in ServicePoints /\ connections \in SUBSET Conns
        /\ peer \in [Conns -> {"none", "up", "fin", "rst", "cut", "gone"}]
    BY Types DEF Safe
  <1>2. /\ UNCHANGED <<opt, listens, svc, events, wrap, told>>
        /\ svc = Polling /\ js' = "free" /\ context' = FALSE /\ connections' = {}
        /\ peer' = [c \in Conns |-> IF c \in connections THEN "cut" ELSE peer[c]]
        /\ Forget(connections)
    BY DEF StopEnds
  <1>3. /\ conn' \in [Conns -> Links] /\ skt' \in [Conns -> Sockets]
        /\ sent' \in [Conns -> Seq({"hs", "data", "huge"})] /\ posted' \in [Conns -> 0 .. MaxPosts]
        /\ \A c \in Conns : IF c \in connections
              THEN conn'[c] = NewConnection /\ skt'[c] = NewSocket /\ posted'[c] = 0
              ELSE conn'[c] = conn[c] /\ skt'[c] = skt[c] /\ posted'[c] = posted[c]
    BY <1>1, <1>2, ForgetParts
  <1>4. TypeOK'
    <2>1. peer' \in [Conns -> {"none", "up", "fin", "rst", "cut", "gone"}]
      BY <1>1, <1>2
    <2> QED
      BY <1>1, <1>2, <1>3, <2>1 DEF TypeOK, Links, Sockets
  <1>5. \A c \in Conns : conn'[c] = NewConnection /\ skt'[c] = NewSocket /\ posted'[c] = 0
    BY <1>1, <1>3 DEF Alive
  <1>6. Alive'
    <2>1. \A c \in Conns : peer'[c] \notin {"up", "fin", "rst"}
      BY <1>1, <1>2 DEF Alive
    <2>2. svc' = Polling /\ Polling.at # "account"
      BY <1>2 DEF Polling
    <2> QED
      BY <1>2, <1>5, <2>1, <2>2 DEF Alive
  <1>7. ASSUME NEW c \in Conns
        PROVE  Both(conn'[c], skt'[c], posted'[c], View(svc', c))
    <2>1. View(svc', c) = Polling /\ Polling.at = "poll"
      BY <1>1, <1>2, ViewParts
    <2>2. Both(NewConnection, NewSocket, 0, Polling)
      BY <2>1, NewBytes
    <2> QED
      BY <1>5, <2>1, <2>2
  <1> QED
    BY <1>4, <1>6, <1>7 DEF Safe

LEMMA RawCloseStep ==
  ASSUME Safe, RawClose
  PROVE  Safe'
  <1> DEFINE c == svc.c
  <1>1. /\ TypeOK /\ Alive /\ svc \in ServicePoints /\ connections \in SUBSET Conns
        /\ peer \in [Conns -> {"none", "up", "fin", "rst", "cut", "gone"}] /\ events \in Seq(Events)
    BY Types DEF Safe
  <1>2. /\ UNCHANGED <<opt, context, listens, js, wrap, told>>
        /\ svc.at = "kill" /\ svc' = Polling /\ connections' = connections \ {c}
        /\ events' = Append(events, Event("clientClosed", c, 0))
        /\ peer' = [peer EXCEPT ![c] = "gone"] /\ Forget({c})
    BY DEF RawClose, native
  <1>3. c \in Conns /\ {c} \in SUBSET Conns /\ svc # Polling
    BY <1>1, <1>2, PointParts DEF Polling
  <1> HIDE DEF c
  <1>4. /\ conn' \in [Conns -> Links] /\ skt' \in [Conns -> Sockets]
        /\ sent' \in [Conns -> Seq({"hs", "data", "huge"})] /\ posted' \in [Conns -> 0 .. MaxPosts]
        /\ \A d \in Conns : IF d \in {c}
              THEN conn'[d] = NewConnection /\ skt'[d] = NewSocket /\ posted'[d] = 0
              ELSE conn'[d] = conn[d] /\ skt'[d] = skt[d] /\ posted'[d] = posted[d]
    BY <1>2, <1>3, ForgetParts
  <1>5. TypeOK'
    <2>1. peer' \in [Conns -> {"none", "up", "fin", "rst", "cut", "gone"}]
      BY <1>1, <1>2
    <2>2. events' \in Seq(Events)
      <3>1. Event("clientClosed", c, 0) \in Events
        BY <1>3 DEF Event, Events
      <3> QED
        BY <1>1, <1>2, <3>1
    <2>3. svc' \in ServicePoints /\ connections' \subseteq Conns
      BY <1>1, <1>2 DEF ServicePoints
    <2> QED
      BY <1>1, <1>2, <1>4, <2>1, <2>2, <2>3 DEF TypeOK, Links, Sockets, Events
  <1>6. Alive'
    <2>1. \A d \in Conns : d \in connections' <=> peer'[d] \in {"up", "fin", "rst"}
      BY <1>1, <1>2, <1>3 DEF Alive
    <2>2. \A d \in Conns : d \notin connections' =>
            conn'[d] = NewConnection /\ skt'[d] = NewSocket /\ posted'[d] = 0
      BY <1>1, <1>2, <1>4 DEF Alive
    <2>3. svc' = Polling /\ Polling.at # "account"
      BY <1>2 DEF Polling
    <2> QED
      BY <2>1, <2>2, <2>3 DEF Alive
  <1>7. Both(conn'[c], skt'[c], posted'[c], View(svc', c))
    <2>1. View(svc', c) = Polling /\ Polling.at = "poll"
      BY <1>2, ViewParts DEF ServicePoints
    <2>2. Both(NewConnection, NewSocket, 0, Polling)
      BY <2>1, NewBytes
    <2> QED
      BY <1>3, <1>4, <2>1, <2>2
  <1>8. /\ \A d \in Conns \ {c} : conn'[d] = conn[d] /\ skt'[d] = skt[d] /\ posted'[d] = posted[d]
        /\ svc.c = c /\ svc' = Polling /\ svc' \in ServicePoints
    BY <1>2, <1>4 DEF c, ServicePoints
  <1>9. \A d \in Conns : Both(conn'[d], skt'[d], posted'[d], View(svc', d))
    BY <1>3, <1>7, <1>8, OneConnection
  <1> QED
    BY <1>5, <1>6, <1>9 DEF Safe

\* A step of the service thread that serves an open connection.
LEMMA Served ==
  ASSUME Safe, NEW c \in Conns, c \in connections,
         UNCHANGED <<opt, context, js, listens, connections, wrap, peer, sent, posted, told>>,
         events' \in Seq(Events), svc' \in ServicePoints,
         svc = Polling \/ svc.c = c, svc' = Polling \/ svc'.c = c,
         svc'.at = "account" => svc'.n < MaxWrites,
         NEW k \in Links, NEW s \in Sockets,
         conn' = [conn EXCEPT ![c] = k], skt' = [skt EXCEPT ![c] = s],
         Both(k, s, posted[c], View(svc', c))
  PROVE  Safe'
  <1>1. TypeOK /\ Alive /\ conn \in [Conns -> Links] /\ skt \in [Conns -> Sockets]
    BY Types DEF Safe
  <1>2. conn' \in [Conns -> Links] /\ skt' \in [Conns -> Sockets] /\ conn'[c] = k /\ skt'[c] = s
        /\ \A d \in Conns \ {c} : conn'[d] = conn[d] /\ skt'[d] = skt[d]
    BY <1>1
  <1>3. TypeOK'
    BY <1>1, <1>2 DEF TypeOK, Links, Sockets, Events
  <1>4. Alive'
    <2>1. \A d \in Conns : d \notin connections => conn'[d] = conn[d] /\ skt'[d] = skt[d]
      BY <1>2
    <2>2. svc' # Polling => svc'.c \in connections'
      OBVIOUS
    <2> QED
      BY <1>1, <2>1, <2>2 DEF Alive
  <1>5. \A d \in Conns \ {c} : conn'[d] = conn[d] /\ skt'[d] = skt[d] /\ posted'[d] = posted[d]
    BY <1>2
  <1>6. Both(conn'[c], skt'[c], posted'[c], View(svc', c))
    BY <1>2
  <1>7. \A d \in Conns : Both(conn'[d], skt'[d], posted'[d], View(svc', d))
    BY <1>5, <1>6, OneConnection
  <1> QED
    BY <1>3, <1>4, <1>7 DEF Safe

LEMMA AdoptStep ==
  ASSUME Safe, NEW c \in Conns, Adopt(c)
  PROVE  Safe'
  <1>1. /\ TypeOK /\ Alive /\ svc \in ServicePoints /\ connections \in SUBSET Conns
        /\ peer \in [Conns -> {"none", "up", "fin", "rst", "cut", "gone"}]
    BY Types DEF Safe
  <1>2. /\ UNCHANGED <<opt, context, listens, js, conn, skt, events, wrap, sent, posted, told>>
        /\ svc = Polling /\ peer[c] = "none" /\ peer' = [peer EXCEPT ![c] = "up"]
        /\ connections' = connections \cup {c}
        /\ svc' = Polling \/ svc' = [at |-> "emit", c |-> c, e |-> "connection"]
    BY DEF Adopt, native, history, EmittingOf
  <1>3. c \notin connections /\ conn[c] = NewConnection /\ skt[c] = NewSocket /\ posted[c] = 0
    BY <1>1, <1>2 DEF Alive
  <1>4. svc' \in ServicePoints /\ (svc' = Polling \/ svc'.c = c) /\ svc'.at \in {"poll", "emit"}
    BY <1>2 DEF ServicePoints, Polling
  <1>5. TypeOK'
    <2>1. peer' \in [Conns -> {"none", "up", "fin", "rst", "cut", "gone"}]
      BY <1>1, <1>2
    <2> QED
      BY <1>1, <1>2, <1>4, <2>1 DEF TypeOK
  <1>6. Alive'
    <2>1. \A d \in Conns : d \in connections' <=> peer'[d] \in {"up", "fin", "rst"}
      BY <1>1, <1>2 DEF Alive
    <2>2. \A d \in Conns : d \notin connections' =>
            conn'[d] = NewConnection /\ skt'[d] = NewSocket /\ posted'[d] = 0
      BY <1>1, <1>2 DEF Alive
    <2>3. svc' # Polling => svc'.c \in connections'
      BY <1>2, <1>4
    <2> QED
      BY <1>4, <2>1, <2>2, <2>3 DEF Alive
  <1>7. Both(conn'[c], skt'[c], posted'[c], View(svc', c))
    <2>1. View(svc', c).at \in {"poll", "emit"}
      BY <1>4, ViewParts
    <2>2. Both(NewConnection, NewSocket, 0, View(svc', c))
      BY <2>1, NewBytes
    <2> QED
      BY <1>2, <1>3, <2>2
  <1>8. \A d \in Conns : Both(conn'[d], skt'[d], posted'[d], View(svc', d))
    BY <1>2, <1>4, <1>7, OneConnection
  <1> QED
    BY <1>5, <1>6, <1>8 DEF Safe

LEMMA PeerLeavesStep ==
  ASSUME Safe, NEW c \in Conns, PeerLeaves(c)
  PROVE  Safe'
  <1>1. TypeOK /\ Alive /\ peer \in [Conns -> {"none", "up", "fin", "rst", "cut", "gone"}]
    BY Types DEF Safe
  <1>2. /\ UNCHANGED <<opt, context, listens, js, connections, conn, skt, svc, events, wrap, sent,
                       posted, told>>
        /\ peer[c] = "up" /\ \E how \in {"fin", "rst"} : peer' = [peer EXCEPT ![c] = how]
    BY DEF PeerLeaves, native, history
  <1>3. peer' \in [Conns -> {"none", "up", "fin", "rst", "cut", "gone"}]
        /\ \A d \in Conns : peer[d] \in {"up", "fin", "rst"} <=> peer'[d] \in {"up", "fin", "rst"}
    BY <1>1, <1>2
  <1>4. TypeOK'
    BY <1>1, <1>2, <1>3 DEF TypeOK
  <1>5. Alive'
    BY <1>1, <1>2, <1>3 DEF Alive
  <1> QED
    BY <1>2, <1>4, <1>5 DEF Safe

LEMMA EmitStep ==
  ASSUME Safe, Emit
  PROVE  Safe'
  <1> DEFINE c == svc.c
  <1>1. /\ TypeOK /\ Alive /\ conn \in [Conns -> Links] /\ skt \in [Conns -> Sockets]
        /\ svc \in ServicePoints /\ events \in Seq(Events)
    BY Types DEF Safe
  <1>2. /\ UNCHANGED <<opt, context, js, listens, connections, wrap, peer, sent, posted, told>>
        /\ conn' = conn /\ skt' = skt
        /\ svc.at = "emit" /\ svc' = Polling /\ events' = Append(events, Event(svc.e, c, 0))
    BY DEF Emit, native, history
  <1>3. c \in Conns /\ c \in connections /\ svc.e \in {"connection", "drain"} /\ svc # Polling
        /\ svc' \in ServicePoints /\ Polling.at = "poll"
    BY <1>1, <1>2, PointParts DEF Alive, Polling, ServicePoints
  <1>4. events' \in Seq(Events)
    <2>1. Event(svc.e, c, 0) \in Events
      BY <1>3 DEF Event, Events, Locked
    <2> QED
      BY <1>1, <1>2, <2>1
  <1>5. Both(conn[c], skt[c], posted[c], View(svc', c))
    <2>1. View(svc, c) = svc /\ View(svc', c) = Polling
      BY <1>1, <1>2, <1>3, ViewParts
    <2>2. Both(conn[c], skt[c], posted[c], svc)
      BY <1>3, <2>1 DEF Safe
    <2>3. Both(conn[c], skt[c], posted[c], Polling)
      BY <1>2, <1>3, <2>2, QuietBytes
    <2> QED
      BY <2>1, <2>3
  <1>6. conn' = [conn EXCEPT ![c] = conn[c]] /\ skt' = [skt EXCEPT ![c] = skt[c]]
        /\ conn[c] \in Links /\ skt[c] \in Sockets
    BY <1>1, <1>2, <1>3
  <1> QED
    BY <1>2, <1>3, <1>4, <1>5, <1>6, Served DEF Polling

LEMMA PollSteps ==
  ASSUME Safe, NEW c \in Conns, ReadEnd(c) \/ Writeable(c)
  PROVE  Safe'
  <1>1. /\ TypeOK /\ Alive /\ conn \in [Conns -> Links] /\ skt \in [Conns -> Sockets]
        /\ svc \in ServicePoints /\ events \in Seq(Events)
    BY Types DEF Safe
  <1> DEFINE s == IF Writeable(c) THEN [skt[c] EXCEPT !.pollout = FALSE] ELSE skt[c]
  <1>2. /\ UNCHANGED <<opt, context, js, listens, connections, events, wrap, peer, sent, posted, told>>
        /\ conn' = conn /\ svc = Polling /\ c \in connections
        /\ \/ svc' = [at |-> "kill", c |-> c]
           \/ svc' = [at |-> "write", c |-> c, n |-> 0]
    BY DEF ReadEnd, Writeable, native, history, KillingOf
  <1>3. skt' = [skt EXCEPT ![c] = s]
    <2>1. CASE Writeable(c)
      BY <1>1, <2>1 DEF Writeable
    <2>2. CASE ~Writeable(c)
      BY <1>1, <2>2 DEF ReadEnd
    <2> QED
      BY <2>1, <2>2
  <1>4. s \in Sockets /\ s.out = skt[c].out /\ s.wire = skt[c].wire
    BY <1>1 DEF Sockets
  <1> HIDE DEF s
  <1>5. /\ svc' \in ServicePoints /\ svc' # Polling /\ svc'.c = c /\ svc'.at \in {"kill", "write"}
    <2>1. 0 \in 0 .. MaxWrites
      BY BoundsAssumption
    <2> QED
      BY <1>2, <2>1 DEF ServicePoints, Polling
  <1>6. Both(conn[c], s, posted[c], View(svc', c))
    <2>1. View(svc, c) = Polling /\ View(svc', c) = svc' /\ Polling.at = "poll"
      BY <1>1, <1>2, <1>5, ViewParts
    <2>2. Both(conn[c], skt[c], posted[c], Polling)
      BY <2>1 DEF Safe
    <2>3. Both(conn[c], s, posted[c], svc')
      BY <1>4, <1>5, <2>1, <2>2, QuietBytes
    <2> QED
      BY <2>1, <2>3
  <1>7. conn' = [conn EXCEPT ![c] = conn[c]] /\ conn[c] \in Links
    BY <1>1, <1>2
  <1>8. /\ UNCHANGED <<opt, context, js, listens, connections, wrap, peer, sent, posted, told>>
        /\ events' \in Seq(Events) /\ svc'.at # "account"
    BY <1>1, <1>2, <1>5
  <1> QED
    BY <1>2, <1>3, <1>4, <1>5, <1>6, <1>7, <1>8, Served

LEMMA FlushStep ==
  ASSUME Safe, NEW c \in Conns, Flush(c)
  PROVE  Safe'
  <1>1. /\ TypeOK /\ Alive /\ conn \in [Conns -> Links] /\ skt \in [Conns -> Sockets]
        /\ svc \in ServicePoints /\ events \in Seq(Events) /\ conn[c] \in Links /\ skt[c] \in Sockets
        /\ posted[c] \in 0 .. MaxPosts
    BY Types DEF Safe
  <1>2. /\ UNCHANGED <<opt, context, js, listens, connections, events, wrap, peer, sent, posted, told>>
        /\ conn' = conn /\ svc = Polling /\ svc' = svc /\ c \in connections /\ skt[c].out # <<>>
    BY DEF Flush, native, history
  <1>3. PICK i \in Takes(Head(skt[c].out)) \ {0} :
          LET r == IssueRaw(skt[c].out, <<>>, i)
          IN skt' = [skt EXCEPT ![c].out = r.out, ![c].wire = @ \o r.sent]
    BY DEF Flush
  <1> DEFINE r == IssueRaw(skt[c].out, <<>>, i)
             o == r.out
             w == skt[c].wire \o r.sent
             s == [skt[c] EXCEPT !.out = o, !.wire = w]
  <1>4. skt' = [skt EXCEPT ![c] = s]
    BY <1>1, <1>3
  <1>5. skt[c].out \in Seq(Seq(Bytes)) /\ skt[c].wire \in Seq(Bytes) /\ conn[c].send_queue \in Seq(Seq(Bytes))
    BY <1>1 DEF Links, Sockets
  <1> HIDE DEF o, w
  <1>6. s.out = o /\ s.wire = w
    BY <1>1 DEF Sockets
  <1>7. View(svc, c) = Polling /\ View(svc', c) = Polling /\ Polling.at = "poll"
    BY <1>1, <1>2, ViewParts
  <1>8. Both(conn[c], skt[c], posted[c], Polling)
    BY <1>7 DEF Safe
  <1> HIDE DEF s
  <1>9. Both(conn[c], s, posted[c], Polling) /\ s.out \in Seq(Seq(Bytes)) /\ s.wire \in Seq(Bytes)
    <2>1. i \in Takes(Head(skt[c].out)) /\ s.out = IssueRaw(skt[c].out, <<>>, i).out
          /\ s.wire = skt[c].wire \o IssueRaw(skt[c].out, <<>>, i).sent
      BY <1>3, <1>6 DEF o, w
    <2> DEFINE k == conn[c]
               x == skt[c]
               n == posted[c]
    <2>2. /\ k.send_queue \in Seq(Seq(Bytes)) /\ x.out \in Seq(Seq(Bytes)) /\ x.wire \in Seq(Bytes)
          /\ x.out # <<>> /\ n \in 0 .. MaxPosts /\ Both(k, x, n, Polling)
          /\ Polling.at \in {"poll", "emit"}
      BY <1>1, <1>2, <1>5, <1>7, <1>8
    <2>3. i \in Takes(Head(x.out)) /\ s.out = IssueRaw(x.out, <<>>, i).out
          /\ s.wire = x.wire \o IssueRaw(x.out, <<>>, i).sent
      BY <2>1
    <2> HIDE DEF k, x, n
    <2>4. Both(k, s, n, Polling) /\ s.out \in Seq(Seq(Bytes)) /\ s.wire \in Seq(Bytes)
      BY <2>2, <2>3, FlushBytes
    <2> QED
      BY <2>4 DEF k, n
  <1>10. s \in Sockets
    BY <1>1, <1>6, <1>9 DEF Sockets, s
  <1>11. conn' = [conn EXCEPT ![c] = conn[c]]
    BY <1>1, <1>2
  <1>12. /\ UNCHANGED <<opt, context, js, listens, connections, wrap, peer, sent, posted, told>>
         /\ events' \in Seq(Events) /\ svc' \in ServicePoints /\ svc' = Polling /\ svc'.at # "account"
    BY <1>1, <1>2, <1>7
  <1>13. Both(conn[c], s, posted[c], View(svc', c))
    BY <1>7, <1>9
  <1> QED
    BY <1>1, <1>2, <1>4, <1>10, <1>11, <1>12, <1>13, Served

\* What one read passes on.
LEMMA ReceiveParts ==
  ASSUME Safe, NEW c \in Conns, NEW n \in Nat
  PROVE  LET total == conn[c].rx + n
             new == IF conn[c].closing THEN <<>>
                    ELSE IF opt.framed THEN ProcessBufferedFrames(c, total)
                    ELSE <<Event("message", c, conn[c].rx_frames + 1)>>
             first == conn[c].rx_frames
         IN /\ new \in Seq(Events)
            /\ opt.framed => \A i \in DOMAIN new : new[i] = FrameEvent(c, first + i)
            /\ ~opt.framed => \A i \in DOMAIN new : i = 1 /\ new[i] = Event("message", c, first + 1)
            /\ total \in Nat
  <1> DEFINE total == conn[c].rx + n
             first == conn[c].rx_frames
             m == Cardinality(Taken(c, total))
  <1>1. first \in Nat /\ total \in Nat /\ sent[c] \in Seq({"hs", "data", "huge"})
    BY Types DEF Safe, Links
  <1> HIDE DEF total, first
  <1>2. m \in Nat
    <2>1. Taken(c, total) \subseteq DOMAIN sent[c]
      BY DEF Taken
    <2>2. DOMAIN sent[c] = 1 .. Len(sent[c]) /\ Len(sent[c]) \in Nat
      BY <1>1
    <2>3. IsFiniteSet(1 .. Len(sent[c]))
      BY <2>2, FS_Interval
    <2>4. IsFiniteSet(Taken(c, total))
      BY <2>1, <2>2, <2>3, FS_Subset
    <2> QED
      BY <2>4, FS_CardinalityType
  <1> HIDE DEF m
  <1>3. \A f \in Nat : Event("message", c, f) \in Events /\ Event("connection", c, 0) \in Events
    BY DEF Event, Events, Locked
  <1>4. \A i \in 1 .. m : FrameEvent(c, first + i) \in Events
    <2> TAKE i \in 1 .. m
    <2>1. first + i \in Nat
      BY <1>1, <1>2
    <2> QED
      BY <1>3, <2>1 DEF FrameEvent
  <1> DEFINE frames == [i \in 1 .. m |-> FrameEvent(c, first + i)]
             chunk == <<Event("message", c, first + 1)>>
             new == IF conn[c].closing THEN <<>> ELSE IF opt.framed THEN frames ELSE chunk
  <1>5. frames \in Seq(Events) /\ DOMAIN frames = 1 .. m /\ \A i \in 1 .. m : frames[i] = FrameEvent(c, first + i)
    BY <1>2, <1>4
  <1>6. chunk \in Seq(Events) /\ \A i \in DOMAIN chunk : i = 1 /\ chunk[i] = Event("message", c, first + 1)
    <2>1. Event("message", c, first + 1) \in Events
      BY <1>1, <1>3
    <2> QED
      BY <2>1
  <1>7. <<>> \in Seq(Events) /\ DOMAIN <<>> = {}
    OBVIOUS
  <1>8. ProcessBufferedFrames(c, total) = frames
    BY DEF ProcessBufferedFrames, m, first
  <1> HIDE DEF frames, chunk
  <1>9. /\ new \in Seq(Events)
        /\ opt.framed => \A i \in DOMAIN new : new[i] = FrameEvent(c, first + i)
        /\ ~opt.framed => \A i \in DOMAIN new : i = 1 /\ new[i] = Event("message", c, first + 1)
    BY <1>5, <1>6, <1>7
  <1> QED
    BY <1>1, <1>8, <1>9 DEF total, first, chunk

LEMMA ReadStep ==
  ASSUME Safe, NEW c \in Conns, Read(c)
  PROVE  Safe'
  <1>1. /\ TypeOK /\ Alive /\ conn \in [Conns -> Links] /\ skt \in [Conns -> Sockets]
        /\ svc \in ServicePoints /\ events \in Seq(Events) /\ conn[c] \in Links /\ skt[c] \in Sockets
    BY Types DEF Safe
  <1>2. /\ UNCHANGED <<opt, context, js, listens, connections, wrap, peer, sent, posted, told>>
        /\ skt' = skt /\ svc = Polling /\ c \in connections
    BY DEF Read, native
  <1>3. PICK n \in 1 .. FrameLen * Len(sent[c]) - conn[c].rx : Receive(c, n)
    BY DEF Read
  <1>4. n \in Nat
    OBVIOUS
  <1> DEFINE total == conn[c].rx + n
             new == IF conn[c].closing THEN <<>>
                    ELSE IF opt.framed THEN ProcessBufferedFrames(c, total)
                    ELSE <<Event("message", c, conn[c].rx_frames + 1)>>
             frames == conn[c].rx_frames + Len(new)
             k == [conn[c] EXCEPT !.writable_scheduled = FALSE, !.rx = total, !.rx_frames = frames]
  <1>5. new \in Seq(Events) /\ total \in Nat
    BY <1>4, ReceiveParts
  <1>6. /\ conn' = [conn EXCEPT ![c].writable_scheduled = FALSE, ![c].rx = total, ![c].rx_frames = frames]
        /\ events' = events \o new /\ svc' \in {svc, KillingOf(c)}
    BY <1>3 DEF Receive
  <1> HIDE DEF total, new
  <1>7. frames \in Nat
    BY <1>1, <1>5 DEF Links
  <1> HIDE DEF frames
  <1>8. conn' = [conn EXCEPT ![c] = k]
    BY <1>1, <1>6
  <1>9. k \in Links /\ k.send_queue = conn[c].send_queue /\ k.queued_bytes = conn[c].queued_bytes
        /\ k.backpressured = conn[c].backpressured
    BY <1>1, <1>5, <1>7 DEF Links
  <1> HIDE DEF k
  <1>10. events' \in Seq(Events)
    BY <1>1, <1>5, <1>6
  <1>11. svc' \in ServicePoints /\ (svc' = Polling \/ svc'.c = c) /\ svc'.at \in {"poll", "kill"}
    BY <1>2, <1>6 DEF ServicePoints, Polling, KillingOf
  <1>12. Both(k, skt[c], posted[c], View(svc', c))
    <2>1. View(svc, c) = Polling /\ View(svc', c).at \in {"poll", "kill"} /\ Polling.at = "poll"
      BY <1>1, <1>2, <1>11, ViewParts
    <2>2. Both(conn[c], skt[c], posted[c], Polling)
      BY <2>1 DEF Safe
    <2> QED
      BY <1>9, <2>1, <2>2, QuietBytes
  <1>13. skt' = [skt EXCEPT ![c] = skt[c]]
    BY <1>1, <1>2
  <1> QED
    BY <1>1, <1>2, <1>8, <1>9, <1>10, <1>11, <1>12, <1>13, Served

LEMMA WriteNextStep ==
  ASSUME Safe, WriteNext
  PROVE  Safe'
  <1> DEFINE c == svc.c
             queue == conn[c].send_queue
  <1>1. /\ TypeOK /\ Alive /\ conn \in [Conns -> Links] /\ skt \in [Conns -> Sockets]
        /\ svc \in ServicePoints /\ events \in Seq(Events) /\ posted \in [Conns -> 0 .. MaxPosts]
    BY Types DEF Safe
  <1>2. /\ UNCHANGED <<opt, context, js, listens, connections, wrap, peer, sent, posted, told>>
        /\ events' = events /\ svc.at = "write"
    BY DEF WriteNext, native, history
  <1>3. c \in Conns /\ c \in connections /\ svc # Polling /\ svc.n \in 0 .. MaxWrites /\ events' \in Seq(Events)
    BY <1>1, <1>2, PointParts DEF Alive, Polling
  <1>4. View(svc, c) = svc /\ Both(conn[c], skt[c], posted[c], svc)
    <2>1. View(svc, c) = svc
      BY <1>1, <1>3, ViewParts
    <2> QED
      BY <1>3, <2>1 DEF Safe
  <1>5. conn[c] \in Links /\ skt[c] \in Sockets /\ posted[c] \in 0 .. MaxPosts
    BY <1>1, <1>3
  <1>6. CASE svc.n = MaxWrites \/ queue = <<>>
    <2>1. svc' = [at |-> "end", c |-> c] /\ conn' = conn /\ skt' = skt
      BY <1>6 DEF WriteNext
    <2>2. svc' \in ServicePoints /\ svc' # Polling /\ svc'.c = c /\ svc'.at = "end"
      BY <1>3, <2>1 DEF ServicePoints, Polling
    <2>3. View(svc', c) = svc'
      BY <2>2, ViewParts
    <2>4. Both(conn[c], skt[c], posted[c], View(svc', c))
      BY <1>2, <1>4, <2>2, <2>3, QuietBytes
    <2>5. conn' = [conn EXCEPT ![c] = conn[c]] /\ skt' = [skt EXCEPT ![c] = skt[c]]
      BY <1>1, <2>1
    <2> HIDE DEF c, queue
    <2> QED
      BY <1>2, <1>3, <1>5, <2>2, <2>4, <2>5, Served DEF c
  <1>7. CASE ~(svc.n = MaxWrites \/ queue = <<>>)
    <2> DEFINE x == Head(queue)
               t == Tail(queue)
               k == [conn[c] EXCEPT !.send_queue = t]
    <2>1. queue \in Seq(Seq(Bytes)) /\ queue # <<>> /\ x \in Seq(Bytes) /\ t \in Seq(Seq(Bytes))
          /\ skt[c].out \in Seq(Seq(Bytes)) /\ skt[c].wire \in Seq(Bytes)
      BY <1>5, <1>7, TailParts DEF Links, Sockets
    <2>2. conn' = [conn EXCEPT ![c] = k]
      BY <1>1, <1>7 DEF WriteNext
    <2>3. k \in Links /\ k.send_queue = t /\ k.queued_bytes = conn[c].queued_bytes
          /\ k.backpressured = conn[c].backpressured
      BY <1>5, <2>1 DEF Links
    <2>4. NoneEmpty(queue) /\ NoneEmpty(t)
      <3>1. NoneEmpty(queue) /\ IsFiniteSet(Held(queue))
        BY <1>4 DEF Both, CountInv
      <3>2. NoneEmpty(t)
        BY <2>1, <3>1, TailParts DEF NoneEmpty
      <3> QED
        BY <3>1, <3>2
    <2>5. CASE peer[c] = "rst"
      <3>1. svc' = KillingOf(c) /\ skt' = skt
        BY <1>7, <2>5 DEF WriteNext
      <3>2. svc' \in ServicePoints /\ svc' # Polling /\ svc'.c = c /\ svc'.at = "kill"
        BY <1>3, <3>1 DEF ServicePoints, Polling, KillingOf
      <3>3. View(svc', c) = svc'
        BY <3>2, ViewParts
      <3> HIDE DEF k
      <3>4. Both(k, skt[c], posted[c], View(svc', c))
        <4>1. IsFiniteSet(Held(t))
          <5>1. IsFiniteSet(Held(queue))
            BY <1>4 DEF Both, CountInv
          <5> QED
            BY <2>1, <5>1, HeldTail
        <4>2. CountInv(k, svc')
          BY <2>3, <2>4, <3>2, <4>1 DEF CountInv
        <4>3. WireInv(k, skt[c], posted[c], svc')
          BY <1>4, <3>2 DEF Both, WireInv
        <4> QED
          BY <3>3, <4>2, <4>3 DEF Both
      <3>5. skt' = [skt EXCEPT ![c] = skt[c]]
        BY <1>1, <3>1
      <3> HIDE DEF c, queue
      <3> QED
        BY <1>2, <1>3, <1>5, <2>2, <2>3, <3>2, <3>4, <3>5, Served DEF c
    <2>6. CASE peer[c] # "rst"
      <3>1. PICK i \in Takes(FirstOf(skt[c].out, Head(queue))) :
              LET r == IssueRaw(skt[c].out, Head(queue), i)
              IN /\ skt' = [skt EXCEPT ![c] = [out |-> r.out, pollout |-> @.pollout \/ r.again,
                                               wire |-> @.wire \o r.sent]]
                 /\ svc' = [at |-> "account", c |-> c, n |-> svc.n,
                            next |-> Head(queue), written |-> r.ret]
        BY <1>7, <2>6 DEF WriteNext
      <3> DEFINE r == IssueRaw(skt[c].out, x, i)
                 o == r.out
                 p == skt[c].pollout \/ r.again
                 w == skt[c].wire \o r.sent
                 a == r.ret
                 s == [out |-> o, pollout |-> p, wire |-> w]
      <3>2. skt' = [skt EXCEPT ![c] = s]
            /\ svc' = [at |-> "account", c |-> c, n |-> svc.n, next |-> x, written |-> a]
        BY <1>1, <3>1
      <3>3. a \in Nat /\ p \in BOOLEAN
        <4>1. x # <<>>
          BY <2>1, <2>4, TailParts DEF NoneEmpty
        <4>2. NoneEmpty(skt[c].out)
          BY <1>4 DEF Both, WireInv
        <4>3. r.ret \in Nat /\ r.again \in BOOLEAN
          <5>1. i \in Takes(FirstOf(skt[c].out, x))
            BY <3>1
          <5> DEFINE oo == skt[c].out
          <5>2. oo \in Seq(Seq(Bytes)) /\ NoneEmpty(oo) /\ x \in Seq(Bytes) /\ (oo # <<>> \/ x # <<>>)
                /\ i \in Takes(FirstOf(oo, x))
            BY <2>1, <4>1, <4>2, <5>1
          <5> HIDE DEF oo, x
          <5>3. IssueRaw(oo, x, i).ret \in Nat /\ IssueRaw(oo, x, i).again \in BOOLEAN
            BY <5>2, IssueTypes
          <5> QED
            BY <5>3 DEF oo
        <4>4. skt[c].pollout \in BOOLEAN
          BY <1>5 DEF Sockets
        <4> QED
          BY <4>3, <4>4
      <3> HIDE DEF k
      <3>4. s.out = o /\ s.wire = w /\ s.pollout = p
        OBVIOUS
      <3> HIDE DEF a, s
      <3>5. svc' \in ServicePoints /\ svc' # Polling /\ svc'.c = c /\ svc'.at = "account"
            /\ svc'.n = svc.n /\ svc'.next = x
        <4> HIDE DEF c, x
        <4>1. svc' \in [at : {"account"}, c : Conns, n : 0 .. MaxWrites, next : Seq(Bytes), written : Nat]
          BY <1>3, <2>1, <3>2, <3>3
        <4>2. svc' # Polling /\ svc'.c = c /\ svc'.at = "account" /\ svc'.n = svc.n /\ svc'.next = x
          BY <3>2 DEF Polling
        <4> QED
          BY <4>1, <4>2 DEF ServicePoints
      <3>6. Both(k, s, posted[c], svc') /\ s.out \in Seq(Seq(Bytes)) /\ s.wire \in Seq(Bytes)
        <4> DEFINE kk == conn[c]
                   ss == skt[c]
                   nn == posted[c]
                   vv == svc
                   v2 == svc'
        <4>1. /\ kk.send_queue \in Seq(Seq(Bytes)) /\ kk.send_queue # <<>> /\ ss.out \in Seq(Seq(Bytes))
              /\ ss.wire \in Seq(Bytes) /\ nn \in 0 .. MaxPosts /\ vv.at = "write" /\ Both(kk, ss, nn, vv)
          BY <1>2, <1>4, <1>5, <2>1
        <4>2. /\ i \in Takes(FirstOf(ss.out, Head(kk.send_queue)))
              /\ k.send_queue = Tail(kk.send_queue) /\ k.queued_bytes = kk.queued_bytes
              /\ k.backpressured = kk.backpressured
          BY <2>3, <3>1
        <4>3. s.out = IssueRaw(ss.out, Head(kk.send_queue), i).out
              /\ s.wire = ss.wire \o IssueRaw(ss.out, Head(kk.send_queue), i).sent
          BY <3>4
        <4>4. v2.at = "account" /\ v2.next = Head(kk.send_queue)
          BY <3>5
        <4> HIDE DEF kk, ss, nn, vv, v2
        <4>5. Both(k, s, nn, v2) /\ s.out \in Seq(Seq(Bytes)) /\ s.wire \in Seq(Bytes)
          BY <4>1, <4>2, <4>3, <4>4, WriteBytes
        <4> QED
          BY <4>5 DEF nn, v2
      <3>7. View(svc', c) = svc'
        BY <3>5, ViewParts
      <3>8. s \in Sockets
        <4> HIDE DEF o, p, w
        <4> QED
          BY <3>3, <3>4, <3>6 DEF Sockets, s
      <3>9. svc.n < MaxWrites
        BY <1>3, <1>7, BoundsAssumption
      <3>10. Both(k, s, posted[c], View(svc', c)) /\ (svc'.at = "account" => svc'.n < MaxWrites)
        BY <3>5, <3>6, <3>7, <3>9
      <3> HIDE DEF c, queue
      <3> QED
        BY <1>2, <1>3, <2>2, <2>3, <3>2, <3>5, <3>8, <3>10, Served DEF c
    <2> QED
      BY <2>5, <2>6
  <1> QED
    BY <1>6, <1>7

LEMMA WriteAccountStep ==
  ASSUME Safe, WriteAccount
  PROVE  Safe'
  <1> DEFINE c == svc.c
             x == svc.next
             len == Len(x)
             done == IF svc.written < len THEN svc.written ELSE len
             cut == done < len
             q == IF cut THEN <<SubSeq(x, done + 1, len)>> \o conn[c].send_queue ELSE conn[c].send_queue
             b == IF conn[c].queued_bytes >= done THEN conn[c].queued_bytes - done ELSE 0
             f == conn[c].writable_scheduled \/ cut
             p == skt[c].pollout \/ cut
             k == [conn[c] EXCEPT !.queued_bytes = b, !.writable_scheduled = f, !.send_queue = q]
             s == [skt[c] EXCEPT !.pollout = p]
  <1>1. /\ TypeOK /\ Alive /\ conn \in [Conns -> Links] /\ skt \in [Conns -> Sockets]
        /\ svc \in ServicePoints /\ events \in Seq(Events) /\ posted \in [Conns -> 0 .. MaxPosts]
    BY Types DEF Safe
  <1>2. /\ UNCHANGED <<opt, context, js, listens, connections, wrap, peer, sent, posted, told>>
        /\ events' = events /\ svc.at = "account"
    BY DEF WriteAccount, native, history
  <1>3. /\ c \in Conns /\ c \in connections /\ svc # Polling /\ svc.n \in 0 .. MaxWrites
        /\ events' \in Seq(Events) /\ svc.n < MaxWrites /\ x \in Seq(Bytes) /\ svc.written \in Nat
    BY <1>1, <1>2, PointParts DEF Alive, Polling
  <1>4. Both(conn[c], skt[c], posted[c], svc)
    <2>1. View(svc, c) = svc
      BY <1>1, <1>3, ViewParts
    <2> QED
      BY <1>3, <2>1 DEF Safe
  <1>5. conn[c] \in Links /\ skt[c] \in Sockets /\ posted[c] \in 0 .. MaxPosts
    BY <1>1, <1>3
  <1>6. len \in Nat /\ done \in 0 .. len /\ cut \in BOOLEAN
    BY <1>3
  <1>7. conn' = [conn EXCEPT ![c] = k] /\ skt' = [skt EXCEPT ![c] = s]
        /\ svc' = IF cut THEN [at |-> "end", c |-> c] ELSE [at |-> "write", c |-> c, n |-> svc.n + 1]
    <2>1. /\ conn' = [conn EXCEPT ![c].queued_bytes = b, ![c].writable_scheduled = f, ![c].send_queue = q]
          /\ skt' = [skt EXCEPT ![c].pollout = p]
      BY DEF WriteAccount
    <2>2. svc' = IF cut THEN [at |-> "end", c |-> c] ELSE [at |-> "write", c |-> c, n |-> svc.n + 1]
      BY DEF WriteAccount
    <2> HIDE DEF b, f, q, p, cut
    <2>3. conn' = [conn EXCEPT ![c] = k] /\ skt' = [skt EXCEPT ![c] = s]
      BY <1>1, <2>1
    <2> QED
      BY <2>2, <2>3
  <1>8. svc' \in ServicePoints /\ svc' # Polling /\ svc'.c = c /\ svc'.at \in {"write", "end"}
    <2>1. svc.n + 1 \in 0 .. MaxWrites
      BY <1>3, BoundsAssumption
    <2> HIDE DEF cut
    <2> QED
      BY <1>3, <1>7, <2>1 DEF ServicePoints, Polling
  <1>9. /\ conn[c].send_queue \in Seq(Seq(Bytes)) /\ conn[c].queued_bytes \in Nat
        /\ conn[c].backpressured \in BOOLEAN /\ conn[c].writable_scheduled \in BOOLEAN
        /\ skt[c].out \in Seq(Seq(Bytes)) /\ skt[c].pollout \in BOOLEAN
    BY <1>5 DEF Links, Sockets
  <1>10. f \in BOOLEAN /\ p \in BOOLEAN
    BY <1>6, <1>9
  <1>11. k.send_queue = q /\ k.queued_bytes = b /\ k.backpressured = conn[c].backpressured
         /\ s.out = skt[c].out /\ s.wire = skt[c].wire
    <2> HIDE DEF q, b, f, p
    <2> QED
      BY <1>5 DEF Links, Sockets
  <1> HIDE DEF k, s
  <1>12. Both(k, s, posted[c], svc') /\ q \in Seq(Seq(Bytes)) /\ b \in Nat
    <2> DEFINE kk == conn[c]
               ss == skt[c]
               nn == posted[c]
               vv == svc
               v2 == svc'
    <2>1. /\ kk.send_queue \in Seq(Seq(Bytes)) /\ kk.queued_bytes \in Nat /\ kk.backpressured \in BOOLEAN
          /\ ss.out \in Seq(Seq(Bytes)) /\ nn \in 0 .. MaxPosts /\ vv.at = "account" /\ vv.next \in Seq(Bytes)
          /\ Both(kk, ss, nn, vv)
      BY <1>2, <1>3, <1>4, <1>5, <1>9
    <2>2. /\ done \in 0 .. Len(vv.next) /\ k.backpressured = kk.backpressured
          /\ k.queued_bytes = IF kk.queued_bytes >= done THEN kk.queued_bytes - done ELSE 0
      BY <1>6, <1>11
    <2>3. k.send_queue = IF done < Len(vv.next)
                           THEN <<SubSeq(vv.next, done + 1, Len(vv.next))>> \o kk.send_queue
                           ELSE kk.send_queue
      BY <1>11
    <2>4. s.out = ss.out /\ s.wire = ss.wire /\ v2.at \in {"write", "end"}
      BY <1>8, <1>11
    <2> HIDE DEF kk, ss, nn, vv, v2, done
    <2>5. Both(k, s, nn, v2) /\ k.send_queue \in Seq(Seq(Bytes)) /\ k.queued_bytes \in Nat
      BY <2>1, <2>2, <2>3, <2>4, BookBytes
    <2> QED
      BY <1>11, <2>5 DEF nn, v2
  <1>13. k \in Links /\ s \in Sockets
    <2> HIDE DEF q, b, f, p
    <2>1. k \in Links
      BY <1>5, <1>10, <1>12 DEF Links, k
    <2>2. s \in Sockets
      BY <1>5, <1>10 DEF Sockets, s
    <2> QED
      BY <2>1, <2>2
  <1>14. Both(k, s, posted[c], View(svc', c)) /\ svc'.at # "account"
    <2>1. View(svc', c) = svc'
      BY <1>8, ViewParts
    <2> QED
      BY <1>8, <1>12, <2>1
  <1> HIDE DEF c
  <1> QED
    BY <1>2, <1>3, <1>7, <1>8, <1>13, <1>14, Served DEF c

LEMMA WriteEndStep ==
  ASSUME Safe, WriteEnd
  PROVE  Safe'
  <1> DEFINE c == svc.c
             more == conn[c].send_queue # <<>>
             f == conn[c].writable_scheduled \/ more
             g == conn[c].backpressured /\ more
             p == skt[c].pollout \/ more
             k == [conn[c] EXCEPT !.writable_scheduled = f, !.backpressured = g]
             s == [skt[c] EXCEPT !.pollout = p]
  <1>1. /\ TypeOK /\ Alive /\ conn \in [Conns -> Links] /\ skt \in [Conns -> Sockets]
        /\ svc \in ServicePoints /\ events \in Seq(Events) /\ posted \in [Conns -> 0 .. MaxPosts]
    BY Types DEF Safe
  <1>2. /\ UNCHANGED <<opt, context, js, listens, connections, wrap, peer, sent, posted, told>>
        /\ events' = events /\ svc.at = "end"
    BY DEF WriteEnd, native, history
  <1>3. c \in Conns /\ c \in connections /\ svc # Polling /\ events' \in Seq(Events)
    BY <1>1, <1>2, PointParts DEF Alive, Polling
  <1>4. Both(conn[c], skt[c], posted[c], svc)
    <2>1. View(svc, c) = svc
      BY <1>1, <1>3, ViewParts
    <2> QED
      BY <1>3, <2>1 DEF Safe
  <1>5. conn[c] \in Links /\ skt[c] \in Sockets
    BY <1>1, <1>3
  <1>6. /\ conn[c].send_queue \in Seq(Seq(Bytes)) /\ conn[c].backpressured \in BOOLEAN
        /\ f \in BOOLEAN /\ g \in BOOLEAN /\ p \in BOOLEAN
    BY <1>5 DEF Links, Sockets
  <1>7. conn' = [conn EXCEPT ![c] = k] /\ skt' = [skt EXCEPT ![c] = s]
    <2>1. /\ conn' = [conn EXCEPT ![c].writable_scheduled = f, ![c].backpressured = g]
          /\ skt' = [skt EXCEPT ![c].pollout = p]
      BY DEF WriteEnd
    <2> HIDE DEF f, g, p
    <2> QED
      BY <1>1, <2>1
  <1>8. svc' \in ServicePoints /\ (svc' = Polling \/ svc'.c = c) /\ svc'.at \in {"poll", "emit"}
    <2>1. svc' = Polling \/ svc' = [at |-> "emit", c |-> c, e |-> "drain"]
      BY DEF WriteEnd, EmittingOf
    <2> QED
      BY <1>3, <2>1 DEF ServicePoints, Polling
  <1>9. /\ k \in Links /\ k.send_queue = conn[c].send_queue /\ k.queued_bytes = conn[c].queued_bytes
        /\ k.backpressured = g
        /\ s \in Sockets /\ s.out = skt[c].out /\ s.wire = skt[c].wire
    <2> HIDE DEF f, g, p
    <2>1. /\ k \in Links /\ k.send_queue = conn[c].send_queue /\ k.queued_bytes = conn[c].queued_bytes
          /\ k.backpressured = g
      BY <1>5, <1>6 DEF Links
    <2>2. s \in Sockets /\ s.out = skt[c].out /\ s.wire = skt[c].wire
      BY <1>5, <1>6 DEF Sockets
    <2> QED
      BY <2>1, <2>2
  <1> HIDE DEF k, s
  <1>10. Both(k, s, posted[c], View(svc', c)) /\ svc'.at # "account"
    <2> DEFINE v2 == View(svc', c)
    <2>1. v2.at \in {"poll", "emit"}
      BY <1>8, ViewParts
    <2> HIDE DEF v2
    <2>2. Both(k, s, posted[c], v2)
      BY <1>2, <1>4, <1>6, <1>9, <2>1, EndBytes
    <2> QED
      BY <1>8, <2>2 DEF v2
  <1> HIDE DEF c
  <1> QED
    BY <1>2, <1>3, <1>7, <1>8, <1>9, <1>10, Served DEF c

LEMMA SafeStep == Safe /\ [Next]_vars => Safe'
  <1> SUFFICES ASSUME Safe, [Next]_vars PROVE Safe'
    OBVIOUS
  <1>1. CASE Api
    BY <1>1, SendSteps, IdleSteps, CloseStep DEF Api
  <1>2. CASE Service
    BY <1>2, AdoptStep, ReadStep, PollSteps, FlushStep, WriteNextStep, WriteAccountStep,
       WriteEndStep, RawCloseStep, EmitStep DEF Service
  <1>3. CASE EventLoop
    BY <1>3, StopEndsStep, DeliverStep, AcceptStep, CloseStep DEF EventLoop
  <1>4. CASE \E c \in Conns : PeerSends(c) \/ PeerLeaves(c)
    BY <1>4, IdleSteps, PeerLeavesStep
  <1>5. CASE UNCHANGED vars
    <2>1. /\ UNCHANGED <<opt, context, js, listens, events, wrap, sent, told>>
          /\ UNCHANGED <<connections, conn, skt, svc, posted, peer>>
      BY <1>5 DEF vars
    <2>2. TypeOK'
      <3>1. TypeOK
        BY DEF Safe
      <3> QED
        BY <2>1, <3>1 DEF TypeOK
    <2> QED
      BY <2>1, <2>2, IdleBytes
  <1> QED
    BY <1>1, <1>2, <1>3, <1>4, <1>5 DEF Next

(* The bytes queued for a connection are counted, and lie behind each other  *)
(* from what the OS took to the last payload queued, at every step of either *)
(* thread (c/qwormhole_lws.cpp, LwsServerWrapper).                           *)
THEOREM BytesInvariance == Spec => []Safe
  <1>1. Init => Safe
    BY SafeInit
  <1>2. Safe /\ [Next]_vars => Safe'
    BY SafeStep
  <1> QED
    BY <1>1, <1>2, PTL DEF Spec

(* Every variable of the native server and its wrapper keeps its type.       *)
THEOREM ServerTypes == Spec => []TypeOK
  <1>1. Safe => TypeOK
    BY DEF Safe
  <1> QED
    BY <1>1, BytesInvariance, PTL

(* Whatever the OS refuses and libwebsockets holds back, and however the     *)
(* bookkeeping of a cut write repeats bytes, the stream a peer gets has no   *)
(* gap and no payload overtakes another (LWS_CALLBACK_RAW_WRITEABLE).        *)
THEOREM WireHasNoGap == Spec => []NoGapOnWire
  <1>1. Safe => NoGapOnWire
    BY DEF Safe, Both, WireInv, Gapless, NoGapOnWire
  <1> QED
    BY <1>1, BytesInvariance, PTL

(* Though both threads count queued_bytes, the backpressure flag is set      *)
(* while too much is queued, and while it is set there is something left to  *)
(* write, for any payload length and any limit.                              *)
THEOREM BackpressureHolds == Spec => []BackpressureTrue
  <1>1. Safe => BackpressureTrue
    <2> SUFFICES ASSUME Safe, NEW c \in connections, ~(svc.at = "kill" /\ svc.c = c)
                 PROVE  /\ Outstanding(c) > 0 /\ Outstanding(c) >= MaxBackpressure => conn[c].backpressured
                        /\ conn[c].backpressured => Outstanding(c) > 0 \/ Serviced(c)
      BY DEF BackpressureTrue
    <2> DEFINE v == View(svc, c)
    <2>1. c \in Conns /\ svc \in ServicePoints /\ CountInv(conn[c], v) /\ conn[c] \in Links
      BY Types DEF Safe, Both
    <2>2. /\ v.at # "kill" /\ (v.at = "account" <=> svc.at = "account" /\ svc.c = c)
          /\ v.at = "account" => v = svc
          /\ v.at \in {"write", "account", "end"} => Serviced(c)
      <3>1. CASE svc = Polling
        BY <2>1, <3>1, ViewParts, PointParts DEF Serviced
      <3>2. CASE svc # Polling /\ svc.c = c
        BY <2>1, <3>2, ViewParts, PointParts DEF Serviced
      <3>3. CASE svc # Polling /\ svc.c # c
        BY <2>1, <3>3, ViewParts, PointParts DEF Serviced
      <3> QED
        BY <3>1, <3>2, <3>3
    <2> HIDE DEF v
    <2> DEFINE m == conn[c].queued_bytes
    <2>3. /\ m = Cardinality(Held(conn[c].send_queue)) + IF v.at = "account" THEN Len(v.next) ELSE 0
          /\ conn[c].backpressured => m > 0 \/ v.at \in {"write", "account", "end"}
          /\ ~conn[c].backpressured => m = 0 \/ m < MaxBackpressure
      BY <2>1, <2>2 DEF CountInv
    <2>4. m = Outstanding(c) /\ m \in Nat
      <3>1. (IF v.at = "account" THEN Len(v.next) ELSE 0)
              = IF svc.at = "account" /\ svc.c = c THEN Len(svc.next) ELSE 0
        BY <2>2
      <3> QED
        BY <2>1, <2>3, <3>1 DEF Outstanding, Links
    <2> HIDE DEF m
    <2>5. m > 0 /\ m >= MaxBackpressure => conn[c].backpressured
      BY <2>3, <2>4, BoundsAssumption
    <2> QED
      BY <2>2, <2>3, <2>4, <2>5
  <1> QED
    BY <1>1, BytesInvariance, PTL
-----------------------------------------------------------------------------
(* Numbered messages in sequences that grow and shrink. *)

LEMMA NumberedConcat ==
  ASSUME NEW S, NEW s \in Seq(S), NEW t \in Seq(S), NEW A, NEW B, NEW C,
         A \subseteq DOMAIN s, B \subseteq DOMAIN t, A \subseteq C, \A j \in B : Len(s) + j \in C,
         \A i \in C : i \in A \/ (i \in Int /\ i > Len(s) /\ i - Len(s) \in B),
         NEW a \in Nat, NEW b \in Nat, NEW d \in Nat, a <= b, b <= d,
         Numbered(s, A, a, b), Numbered(t, B, b, d)
  PROVE  Numbered(s \o t, C, a, d)
  <1> DEFINE u == s \o t
             n == Len(s)
  <1>1. /\ \A i \in DOMAIN s : i \in DOMAIN u /\ u[i] = s[i]
        /\ \A j \in DOMAIN t : n + j \in DOMAIN u /\ u[n + j] = t[j]
    BY ConcatParts
  <1>2. n \in Nat /\ DOMAIN s = 1 .. n /\ DOMAIN t = 1 .. Len(t) /\ Len(t) \in Nat
    OBVIOUS
  <1> HIDE DEF u
  <1>3. /\ \A i \in A : u[i] = s[i] /\ s[i].f \in a + 1 .. b /\ i \in 1 .. n
        /\ \A j \in B : u[n + j] = t[j] /\ t[j].f \in b + 1 .. d /\ j \in Nat \ {0}
    BY <1>1, <1>2 DEF Numbered
  <1>4. \A i \in C : i \in A \/ (i > n /\ i - n \in B /\ n + (i - n) = i)
    BY <1>2
  <1> HIDE DEF n
  <1>5. ASSUME NEW i \in C
        PROVE  u[i].f \in a + 1 .. d
    <2>1. CASE i \in A
      <3>1. u[i].f \in a + 1 .. b
        BY <1>3, <2>1
      <3> QED
        BY <3>1
    <2>2. CASE i > n /\ i - n \in B /\ n + (i - n) = i
      <3>1. u[n + (i - n)].f \in b + 1 .. d
        BY <1>3, <2>2
      <3>2. u[i].f \in b + 1 .. d
        BY <2>2, <3>1
      <3> QED
        BY <3>2
    <2> QED
      BY <1>4, <2>1, <2>2
  <1>6. ASSUME NEW m \in a + 1 .. d
        PROVE  \E i \in C : u[i].f = m
    <2>1. CASE m <= b
      <3>1. m \in a + 1 .. b
        BY <2>1
      <3>2. PICK i \in A : s[i].f = m
        BY <3>1 DEF Numbered
      <3> QED
        BY <1>3, <3>2
    <2>2. CASE ~(m <= b)
      <3>1. m \in b + 1 .. d
        BY <2>2
      <3>2. PICK j \in B : t[j].f = m
        BY <3>1 DEF Numbered
      <3>3. n + j \in C /\ u[n + j] = t[j]
        BY <1>3 DEF n
      <3> QED
        BY <3>2, <3>3
    <2> QED
      BY <2>1, <2>2
  <1>7. ASSUME NEW i \in C, NEW j \in C, i < j
        PROVE  u[i].f < u[j].f
    <2>1. CASE i \in A /\ j \in A
      BY <1>3, <1>7, <2>1 DEF Numbered
    <2>2. CASE i \in A /\ j > n /\ j - n \in B /\ n + (j - n) = j
      <3>1. u[i].f \in a + 1 .. b
        BY <1>3, <2>2
      <3>2. u[n + (j - n)].f \in b + 1 .. d
        BY <1>3, <2>2
      <3>3. u[j].f \in b + 1 .. d
        BY <2>2, <3>2
      <3> QED
        BY <3>1, <3>3
    <2>3. CASE i > n /\ i - n \in B /\ j \in A
      <3>1. j \in 1 .. n
        BY <1>3, <2>3
      <3>2. i \in Int /\ n \in Nat
        BY <1>2, <2>3 DEF n
      <3> QED
        BY <1>7, <2>3, <3>1, <3>2
    <2>4. CASE i > n /\ i - n \in B /\ n + (i - n) = i /\ j > n /\ j - n \in B /\ n + (j - n) = j
      <3>1. u[i] = t[i - n] /\ u[j] = t[j - n]
        BY <1>3, <2>4
      <3>2. i - n < j - n
        <4>1. i \in Int /\ j \in Int /\ n \in Nat
          <5>1. i - n \in Nat /\ j - n \in Nat /\ n \in Nat
            BY <1>2, <1>3, <2>4
          <5>2. n + (i - n) \in Nat /\ n + (j - n) \in Nat
            BY <5>1
          <5> QED
            BY <2>4, <5>1, <5>2
        <4> QED
          BY <1>7, <4>1
      <3>3. t[i - n].f < t[j - n].f
        BY <2>4, <3>2 DEF Numbered
      <3> QED
        BY <3>1, <3>3
    <2> QED
      BY <1>4, <2>1, <2>2, <2>3, <2>4
  <1> QED
    BY <1>5, <1>6, <1>7 DEF Numbered, u

LEMMA NumberedTail ==
  ASSUME NEW S, NEW s \in Seq(S), s # <<>>, NEW A, NEW B,
         A \subseteq DOMAIN s, B \subseteq DOMAIN Tail(s), \A i \in B : i + 1 \in A,
         \A i \in A : i = 1 \/ i - 1 \in B,
         NEW a \in Nat, NEW b \in Nat, Numbered(s, A, a, b)
  PROVE  /\ 1 \notin A => Numbered(Tail(s), B, a, b)
         /\ 1 \in A => Head(s).f = a + 1 /\ a + 1 <= b /\ Numbered(Tail(s), B, a + 1, b)
  <1> DEFINE t == Tail(s)
             x == Head(s)
  <1>1. /\ x = s[1] /\ t \in Seq(S)
        /\ \A i \in DOMAIN t : i + 1 \in DOMAIN s /\ t[i] = s[i + 1]
        /\ \A i \in DOMAIN s : \/ i = 1
                               \/ i - 1 \in DOMAIN t /\ t[i - 1] = s[i]
    BY TailParts
  <1>2. DOMAIN s \subseteq Nat \ {0} /\ DOMAIN t \subseteq Nat \ {0}
    BY <1>1
  <1>3. B \subseteq DOMAIN t
    OBVIOUS
  <1> HIDE DEF t, x
  <1>4. /\ \A i \in B : i \in Nat \ {0} /\ t[i] = s[i + 1] /\ i + 1 \in A
        /\ \A i \in A : i \in Nat \ {0} /\ s[i].f \in a + 1 .. b
                        /\ (i # 1 => i - 1 \in B /\ t[i - 1] = s[i])
    BY <1>1, <1>2, <1>3 DEF Numbered
  <1>5. ASSUME NEW i \in B, NEW j \in B, i < j
        PROVE  t[i].f < t[j].f
    <2>1. i + 1 < j + 1 /\ i + 1 \in A /\ j + 1 \in A
      BY <1>4, <1>5
    <2>2. s[i + 1].f < s[j + 1].f
      BY <2>1 DEF Numbered
    <2> QED
      BY <1>4, <2>2
  <1>6. CASE 1 \notin A
    <2>1. \A i \in B : t[i].f \in a + 1 .. b
      BY <1>4
    <2>2. ASSUME NEW m \in a + 1 .. b
          PROVE  \E i \in B : t[i].f = m
      <3>1. PICK i \in A : s[i].f = m
        BY DEF Numbered
      <3> QED
        BY <1>4, <1>6, <3>1
    <2> QED
      BY <1>5, <1>6, <2>1, <2>2 DEF Numbered, t
  <1>7. CASE 1 \in A
    <2>1. \A i \in A : i # 1 => s[1].f < s[i].f
      <3> TAKE i \in A
      <3>1. i # 1 => 1 < i
        BY <1>4
      <3> QED
        BY <1>7, <3>1 DEF Numbered
    <2>2. s[1].f \in a + 1 .. b
      BY <1>4, <1>7
    <2>3. s[1].f = a + 1 /\ a + 1 <= b
      <3>1. a + 1 \in a + 1 .. b
        BY <2>2
      <3>2. PICK i \in A : s[i].f = a + 1
        BY <3>1 DEF Numbered
      <3>3. i # 1 => s[1].f < a + 1
        BY <2>1, <3>2
      <3> QED
        BY <2>2, <3>2, <3>3
    <2>4. ASSUME NEW i \in B
          PROVE  t[i].f \in (a + 1) + 1 .. b
      <3>1. i + 1 \in A /\ i + 1 # 1 /\ t[i] = s[i + 1]
        BY <1>4
      <3>2. s[i + 1].f \in a + 1 .. b /\ s[1].f < s[i + 1].f
        BY <1>4, <2>1, <3>1
      <3> QED
        BY <2>3, <3>1, <3>2
    <2>5. ASSUME NEW m \in (a + 1) + 1 .. b
          PROVE  \E i \in B : t[i].f = m
      <3>1. m \in a + 1 .. b /\ m # a + 1
        OBVIOUS
      <3>2. PICK i \in A : s[i].f = m
        BY <3>1 DEF Numbered
      <3>3. i # 1
        BY <2>3, <3>1, <3>2
      <3> QED
        BY <1>4, <3>2, <3>3
    <2>6. Numbered(t, B, a + 1, b)
      BY <1>5, <2>4, <2>5 DEF Numbered
    <2> QED
      BY <1>1, <1>7, <2>3, <2>6 DEF t, x
  <1> QED
    BY <1>6, <1>7

LEMMA NumberedNone ==
  ASSUME NEW s, NEW a \in Nat
  PROVE  Numbered(s, {}, a, a)
  BY DEF Numbered

\* What the application was told, with u behind it.
LEMMA NotesConcat ==
  ASSUME NEW t \in Seq(Notes), NEW u \in Seq(Notes)
  PROVE  /\ \A e : Notices(t \o u, e) <=> Notices(t, e) \/ Notices(u, e)
         /\ \A e : /\ NoticedOnce(t, e) /\ NoticedOnce(u, e) /\ ~(Notices(t, e) /\ Notices(u, e))
                   => NoticedOnce(t \o u, e)
         /\ \A e1, e2 : NoticedBefore(t \o u, e1, e2) =>
              NoticedBefore(t, e1, e2) \/ NoticedBefore(u, e1, e2) \/ (Notices(t, e1) /\ Notices(u, e2))
         /\ MessageNotes(t) \subseteq MessageNotes(t \o u)
         /\ \A j \in MessageNotes(u) : Len(t) + j \in MessageNotes(t \o u)
         /\ \A i \in MessageNotes(t \o u) : \/ i \in MessageNotes(t)
                                            \/ i \in Int /\ i > Len(t) /\ i - Len(t) \in MessageNotes(u)
  <1> DEFINE v == t \o u
             n == Len(t)
  <1>1. /\ v \in Seq(Notes)
        /\ \A i \in DOMAIN t : i \in DOMAIN v /\ v[i] = t[i]
        /\ \A j \in DOMAIN u : n + j \in DOMAIN v /\ v[n + j] = u[j]
        /\ \A i \in DOMAIN v : \/ i \in DOMAIN t /\ v[i] = t[i]
                               \/ i - n \in DOMAIN u /\ i > n /\ v[i] = u[i - n]
    BY ConcatParts
  <1>2. n \in Nat /\ DOMAIN t = 1 .. n /\ DOMAIN u = 1 .. Len(u) /\ Len(u) \in Nat
        /\ DOMAIN v = 1 .. Len(v) /\ Len(v) \in Nat
    BY <1>1
  <1> HIDE DEF v, n
  <1>3. \A e : Notices(v, e) <=> Notices(t, e) \/ Notices(u, e)
    BY <1>1, ZenonT(60) DEF Notices
  <1>4. ASSUME NEW e, NoticedOnce(t, e), NoticedOnce(u, e), ~(Notices(t, e) /\ Notices(u, e))
        PROVE  NoticedOnce(v, e)
    <2> SUFFICES ASSUME NEW i \in DOMAIN v, NEW j \in DOMAIN v, v[i].e = e, v[j].e = e
                 PROVE  i = j
      BY DEF NoticedOnce
    <2>1. CASE Notices(t, e)
      <3>1. i \in DOMAIN t /\ j \in DOMAIN t /\ v[i] = t[i] /\ v[j] = t[j]
        BY <1>1, <1>4, <2>1 DEF Notices
      <3> QED
        BY <1>4, <3>1 DEF NoticedOnce
    <2>2. CASE ~Notices(t, e)
      <3>1. i - n \in DOMAIN u /\ j - n \in DOMAIN u /\ v[i] = u[i - n] /\ v[j] = u[j - n]
        BY <1>1, <2>2 DEF Notices
      <3>2. i - n = j - n
        BY <1>4, <3>1 DEF NoticedOnce
      <3> QED
        BY <1>2, <3>2
    <2> QED
      BY <2>1, <2>2
  <1>5. ASSUME NEW e1, NEW e2, NoticedBefore(v, e1, e2)
        PROVE  NoticedBefore(t, e1, e2) \/ NoticedBefore(u, e1, e2) \/ (Notices(t, e1) /\ Notices(u, e2))
    <2>1. PICK i \in DOMAIN v, j \in DOMAIN v : i < j /\ v[i].e = e1 /\ v[j].e = e2
      BY <1>5 DEF NoticedBefore
    <2>2. CASE i \in DOMAIN t /\ v[i] = t[i] /\ j \in DOMAIN t /\ v[j] = t[j]
      BY <2>1, <2>2 DEF NoticedBefore
    <2>3. CASE i \in DOMAIN t /\ v[i] = t[i] /\ j - n \in DOMAIN u /\ v[j] = u[j - n]
      BY <2>1, <2>3 DEF Notices
    <2>4. CASE i - n \in DOMAIN u /\ i > n /\ v[i] = u[i - n] /\ j \in DOMAIN t
      BY <1>2, <2>1, <2>4
    <2>5. CASE i - n \in DOMAIN u /\ v[i] = u[i - n] /\ j - n \in DOMAIN u /\ v[j] = u[j - n]
      <3>1. i - n < j - n
        BY <1>2, <2>1
      <3> QED
        BY <2>1, <2>5, <3>1 DEF NoticedBefore
    <2> QED
      BY <1>1, <2>2, <2>3, <2>4, <2>5
  <1>6. /\ MessageNotes(t) \subseteq MessageNotes(v)
        /\ \A j \in MessageNotes(u) : n + j \in MessageNotes(v)
    BY <1>1 DEF MessageNotes
  <1>7. \A i \in MessageNotes(v) : \/ i \in MessageNotes(t)
                                   \/ i \in Int /\ i > n /\ i - n \in MessageNotes(u)
    BY <1>1, <1>2 DEF MessageNotes
  <1> QED
    BY <1>3, <1>4, <1>5, <1>6, <1>7 DEF v, n

LEMMA OneNote ==
  ASSUME NEW t \in Seq(Notes), NEW x \in Notes
  PROVE  /\ Append(t, x) = t \o <<x>> /\ <<x>> \in Seq(Notes)
         /\ \A e : (Notices(<<x>>, e) <=> x.e = e) /\ NoticedOnce(<<x>>, e)
         /\ \A e1, e2 : ~NoticedBefore(<<x>>, e1, e2)
         /\ MessageNotes(<<x>>) = IF x.e = "message" THEN {1} ELSE {}
  <1> DEFINE u == <<x>>
  <1>1. u \in Seq(Notes) /\ DOMAIN u = {1} /\ u[1] = x
    OBVIOUS
  <1>2. Append(t, x) = t \o u
    OBVIOUS
  <1> HIDE DEF u
  <1>3. /\ \A e : (Notices(u, e) <=> x.e = e) /\ NoticedOnce(u, e)
        /\ MessageNotes(u) = IF x.e = "message" THEN {1} ELSE {}
    BY <1>1 DEF Notices, NoticedOnce, MessageNotes
  <1>4. \A e1, e2 : ~NoticedBefore(u, e1, e2)
    <2>1. ~(1 < 1)
      OBVIOUS
    <2> QED
      BY <1>1, <2>1 DEF NoticedBefore
  <1> QED
    BY <1>1, <1>2, <1>3, <1>4 DEF u

\* The queue of events, with new ones behind it.
LEMMA EventsConcat ==
  ASSUME NEW s \in Seq(Events), NEW new \in Seq(Events), NEW c
  PROVE  /\ \A e : Queues(s \o new, c, e) <=> Queues(s, c, e) \/ Queues(new, c, e)
         /\ \A e : /\ Alone(s, c, e) /\ Alone(new, c, e) /\ ~(Queues(s, c, e) /\ Queues(new, c, e))
                   => Alone(s \o new, c, e)
         /\ \A b1, b2 \in BOOLEAN :
              /\ Drained(s, c, b1) /\ (b1 => b2 \/ Queues(new, c, "drain"))
              /\ (Queues(new, c, "backpressure") => b2)
              => Drained(s \o new, c, b2)
         /\ \A b \in BOOLEAN :
              Led(s, c, b) /\ Led(new, c, b \/ Queues(s, c, "connection")) => Led(s \o new, c, b)
         /\ Messages(s, c) \subseteq Messages(s \o new, c)
         /\ \A j \in Messages(new, c) : Len(s) + j \in Messages(s \o new, c)
         /\ \A i \in Messages(s \o new, c) : \/ i \in Messages(s, c)
                                             \/ i \in Int /\ i > Len(s) /\ i - Len(s) \in Messages(new, c)
  <1> DEFINE v == s \o new
             n == Len(s)
  <1>1. /\ v \in Seq(Events)
        /\ \A i \in DOMAIN s : i \in DOMAIN v /\ v[i] = s[i]
        /\ \A j \in DOMAIN new : n + j \in DOMAIN v /\ v[n + j] = new[j]
        /\ \A i \in DOMAIN v : \/ i \in DOMAIN s /\ v[i] = s[i]
                               \/ i - n \in DOMAIN new /\ i > n /\ v[i] = new[i - n]
    BY ConcatParts
  <1>2. n \in Nat /\ DOMAIN s = 1 .. n /\ DOMAIN new = 1 .. Len(new) /\ Len(new) \in Nat
        /\ DOMAIN v = 1 .. Len(v) /\ Len(v) \in Nat
    BY <1>1
  <1> HIDE DEF v, n
  <1>3. \A e : Queues(v, c, e) <=> Queues(s, c, e) \/ Queues(new, c, e)
    <2> TAKE e
    <2>1. Queues(v, c, e) => Queues(s, c, e) \/ Queues(new, c, e)
      BY <1>1 DEF Queues
    <2>2. Queues(s, c, e) \/ Queues(new, c, e) => Queues(v, c, e)
      BY <1>1 DEF Queues
    <2> QED
      BY <2>1, <2>2
  <1>4. ASSUME NEW e, Alone(s, c, e), Alone(new, c, e), ~(Queues(s, c, e) /\ Queues(new, c, e))
        PROVE  Alone(v, c, e)
    <2> SUFFICES ASSUME NEW i \in DOMAIN v, NEW j \in DOMAIN v, v[i].e = e, v[j].e = e, v[i].c = c, v[j].c = c
                 PROVE  i = j
      BY DEF Alone
    <2>1. CASE Queues(s, c, e)
      <3>1. i \in DOMAIN s /\ j \in DOMAIN s /\ v[i] = s[i] /\ v[j] = s[j]
        BY <1>1, <1>4, <2>1 DEF Queues
      <3> QED
        BY <1>4, <3>1 DEF Alone
    <2>2. CASE ~Queues(s, c, e)
      <3>1. i - n \in DOMAIN new /\ j - n \in DOMAIN new /\ v[i] = new[i - n] /\ v[j] = new[j - n]
        BY <1>1, <2>2 DEF Queues
      <3>2. i - n = j - n
        BY <1>4, <3>1 DEF Alone
      <3> QED
        BY <1>2, <3>2
    <2> QED
      BY <2>1, <2>2
  <1>5. \A i \in DOMAIN s, j \in DOMAIN new : i < n + j
    BY <1>2
  <1>6. ASSUME NEW b1 \in BOOLEAN, NEW b2 \in BOOLEAN, Drained(s, c, b1),
               b1 => b2 \/ Queues(new, c, "drain"), Queues(new, c, "backpressure") => b2
        PROVE  Drained(v, c, b2)
    <2> SUFFICES ASSUME NEW i \in DOMAIN v, v[i].c = c, v[i].e = "backpressure", ~b2
                 PROVE  \E j \in DOMAIN v : i < j /\ v[j].c = c /\ v[j].e = "drain"
      BY DEF Drained
    <2>1. i \in DOMAIN s /\ v[i] = s[i]
      BY <1>1, <1>6 DEF Queues
    <2>2. CASE b1
      <3>1. PICK j \in DOMAIN new : new[j].c = c /\ new[j].e = "drain"
        BY <1>6, <2>2 DEF Queues
      <3>2. n + j \in DOMAIN v /\ v[n + j] = new[j] /\ i < n + j
        BY <1>1, <1>5, <2>1
      <3> QED
        BY <3>1, <3>2
    <2>3. CASE ~b1
      <3>1. PICK j \in DOMAIN s : i < j /\ s[j].c = c /\ s[j].e = "drain"
        BY <1>6, <2>1, <2>3 DEF Drained
      <3> QED
        BY <1>1, <3>1
    <2> QED
      BY <2>2, <2>3
  <1>7. ASSUME NEW b \in BOOLEAN, Led(s, c, b), Led(new, c, b \/ Queues(s, c, "connection"))
        PROVE  Led(v, c, b)
    <2> SUFFICES ASSUME NEW i \in DOMAIN v, v[i].e = "message", v[i].c = c, ~b
                 PROVE  \E j \in DOMAIN v : j < i /\ v[j].c = c /\ v[j].e = "connection"
      BY DEF Led, Messages
    <2>1. CASE i \in DOMAIN s /\ v[i] = s[i]
      <3>1. PICK j \in DOMAIN s : j < i /\ s[j].c = c /\ s[j].e = "connection"
        BY <1>7, <2>1 DEF Led, Messages
      <3> QED
        BY <1>1, <3>1
    <2>2. CASE i - n \in DOMAIN new /\ i > n /\ v[i] = new[i - n]
      <3>1. CASE Queues(s, c, "connection")
        <4>1. PICK j \in DOMAIN s : s[j].c = c /\ s[j].e = "connection"
          BY <3>1 DEF Queues
        <4>2. j < i
          BY <1>2, <2>2
        <4> QED
          BY <1>1, <4>1, <4>2
      <3>2. CASE ~Queues(s, c, "connection")
        <4>1. i - n \in Messages(new, c)
          BY <2>2 DEF Messages
        <4>2. PICK j \in DOMAIN new : j < i - n /\ new[j].c = c /\ new[j].e = "connection"
          BY <1>7, <3>2, <4>1 DEF Led
        <4>3. n + j < i
          BY <1>2, <4>2
        <4> QED
          BY <1>1, <4>2, <4>3
      <3> QED
        BY <3>1, <3>2
    <2> QED
      BY <1>1, <2>1, <2>2
  <1>8. /\ Messages(s, c) \subseteq Messages(v, c)
        /\ \A j \in Messages(new, c) : n + j \in Messages(v, c)
    BY <1>1 DEF Messages
  <1>9. \A i \in Messages(v, c) : \/ i \in Messages(s, c)
                                  \/ i \in Int /\ i > n /\ i - n \in Messages(new, c)
    BY <1>1, <1>2 DEF Messages
  <1> QED
    BY <1>3, <1>4, <1>6, <1>7, <1>8, <1>9 DEF v, n

\* The queue of events, without the first.
LEMMA EventsTail ==
  ASSUME NEW s \in Seq(Events), s # <<>>, NEW c
  PROVE  LET x == Head(s)
             t == Tail(s)
         IN /\ \A e : Queues(s, c, e) <=> Queues(t, c, e) \/ (x.c = c /\ x.e = e)
            /\ \A e : Alone(s, c, e) => Alone(t, c, e) /\ ~(x.c = c /\ x.e = e /\ Queues(t, c, e))
            /\ \A b \in BOOLEAN : Drained(s, c, b) =>
                 /\ Drained(t, c, b)
                 /\ x.c = c /\ x.e = "backpressure" => b \/ Queues(t, c, "drain")
            /\ \A b \in BOOLEAN : Led(s, c, b) =>
                 /\ Led(t, c, b \/ (x.c = c /\ x.e = "connection"))
                 /\ x.c = c /\ x.e = "message" => b
            /\ \A a, b \in Nat : Numbered(s, Messages(s, c), a, b) =>
                 IF x.c = c /\ x.e = "message"
                   THEN x.f = a + 1 /\ a + 1 <= b /\ Numbered(t, Messages(t, c), a + 1, b)
                   ELSE Numbered(t, Messages(t, c), a, b)
  <1> DEFINE x == Head(s)
             t == Tail(s)
  <1>1. /\ x = s[1] /\ 1 \in DOMAIN s /\ t \in Seq(Events)
        /\ \A i \in DOMAIN t : i + 1 \in DOMAIN s /\ t[i] = s[i + 1]
        /\ \A i \in DOMAIN s : \/ i = 1
                               \/ i - 1 \in DOMAIN t /\ t[i - 1] = s[i]
    BY TailParts
  <1>2. DOMAIN s \subseteq Nat \ {0} /\ DOMAIN t \subseteq Nat \ {0}
    BY <1>1
  <1>3. /\ Messages(s, c) \subseteq DOMAIN s /\ Messages(t, c) \subseteq DOMAIN Tail(s)
        /\ \A i \in Messages(t, c) : i + 1 \in Messages(s, c)
        /\ \A i \in Messages(s, c) : i = 1 \/ i - 1 \in Messages(t, c)
        /\ 1 \in Messages(s, c) <=> x.c = c /\ x.e = "message"
    <2>1. Messages(t, c) \subseteq DOMAIN Tail(s)
      BY DEF Messages
    <2> HIDE DEF t, x
    <2> QED
      BY <1>1, <2>1 DEF Messages
  <1>4. \A a, b \in Nat : Numbered(s, Messages(s, c), a, b) =>
          IF x.c = c /\ x.e = "message"
            THEN x.f = a + 1 /\ a + 1 <= b /\ Numbered(t, Messages(t, c), a + 1, b)
            ELSE Numbered(t, Messages(t, c), a, b)
    <2> TAKE a, b \in Nat
    <2> HAVE Numbered(s, Messages(s, c), a, b)
    <2> DEFINE A == Messages(s, c)
               B == Messages(t, c)
    <2>1. /\ 1 \notin A => Numbered(Tail(s), B, a, b)
          /\ 1 \in A => Head(s).f = a + 1 /\ a + 1 <= b /\ Numbered(Tail(s), B, a + 1, b)
      <3>1. Numbered(s, A, a, b) /\ A \subseteq DOMAIN s /\ B \subseteq DOMAIN Tail(s)
            /\ (\A i \in B : i + 1 \in A) /\ \A i \in A : i = 1 \/ i - 1 \in B
        BY <1>3
      <3> HIDE DEF A, B, t, x
      <3> QED
        BY <3>1, NumberedTail
    <2> QED
      BY <1>3, <2>1
  <1> HIDE DEF t, x
  <1>5. \A e : Queues(s, c, e) <=> Queues(t, c, e) \/ (x.c = c /\ x.e = e)
    BY <1>1, ZenonT(60) DEF Queues
  <1>6. ASSUME NEW e, Alone(s, c, e)
        PROVE  Alone(t, c, e) /\ ~(x.c = c /\ x.e = e /\ Queues(t, c, e))
    <2>1. ASSUME NEW i \in DOMAIN t, NEW j \in DOMAIN t, t[i].c = c, t[i].e = e, t[j].c = c, t[j].e = e
          PROVE  i = j
      <3>1. i + 1 = j + 1
        BY <1>1, <1>6, <2>1 DEF Alone
      <3> QED
        BY <1>2, <3>1
    <2>2. ASSUME x.c = c, x.e = e, NEW i \in DOMAIN t, t[i].c = c, t[i].e = e
          PROVE  FALSE
      <3>1. 1 = i + 1
        BY <1>1, <1>6, <2>2 DEF Alone
      <3> QED
        BY <1>2, <3>1
    <2> QED
      BY <2>1, <2>2 DEF Alone, Queues
  <1>7. ASSUME NEW b \in BOOLEAN, Drained(s, c, b)
        PROVE  /\ Drained(t, c, b)
               /\ x.c = c /\ x.e = "backpressure" => b \/ Queues(t, c, "drain")
    <2>1. ASSUME NEW i \in DOMAIN s, s[i].c = c, s[i].e = "backpressure", ~b
          PROVE  \E j \in DOMAIN t : i < j + 1 /\ t[j].c = c /\ t[j].e = "drain"
      <3>1. PICK j \in DOMAIN s : i < j /\ s[j].c = c /\ s[j].e = "drain"
        BY <1>7, <2>1 DEF Drained
      <3>2. j # 1 /\ (j - 1) + 1 = j
        BY <1>2, <3>1
      <3>3. j - 1 \in DOMAIN t /\ t[j - 1] = s[j]
        BY <1>1, <3>2
      <3> QED
        BY <3>1, <3>2, <3>3
    <2>2. Drained(t, c, b)
      <3> SUFFICES ASSUME NEW i \in DOMAIN t, t[i].c = c, t[i].e = "backpressure", ~b
                   PROVE  \E j \in DOMAIN t : i < j /\ t[j].c = c /\ t[j].e = "drain"
        BY DEF Drained
      <3>1. PICK j \in DOMAIN t : i + 1 < j + 1 /\ t[j].c = c /\ t[j].e = "drain"
        BY <1>1, <2>1
      <3>2. i < j
        BY <1>2, <3>1
      <3> QED
        BY <3>1, <3>2
    <2>3. x.c = c /\ x.e = "backpressure" => b \/ Queues(t, c, "drain")
      BY <1>1, <2>1 DEF Queues
    <2> QED
      BY <2>2, <2>3
  <1>8. ASSUME NEW b \in BOOLEAN, Led(s, c, b)
        PROVE  /\ Led(t, c, b \/ (x.c = c /\ x.e = "connection"))
               /\ x.c = c /\ x.e = "message" => b
    <2>1. ASSUME NEW i \in Messages(t, c), ~b, ~(x.c = c /\ x.e = "connection")
          PROVE  \E j \in DOMAIN t : j < i /\ t[j].c = c /\ t[j].e = "connection"
      <3>1. i + 1 \in Messages(s, c) /\ i \in DOMAIN t
        BY <1>3 DEF Messages
      <3>2. PICK j \in DOMAIN s : j < i + 1 /\ s[j].c = c /\ s[j].e = "connection"
        BY <1>8, <2>1, <3>1 DEF Led
      <3>3. j # 1
        BY <1>1, <2>1, <3>2
      <3>4. j - 1 \in DOMAIN t /\ t[j - 1] = s[j]
        BY <1>1, <3>3
      <3>5. j - 1 < i
        <4>1. \A m, n \in Nat : m < n + 1 => m - 1 < n
          OBVIOUS
        <4>2. j \in Nat /\ i \in Nat
          BY <1>2, <3>1
        <4> QED
          BY <3>2, <4>1, <4>2
      <3> QED
        BY <3>2, <3>4, <3>5
    <2>2. x.c = c /\ x.e = "message" => b
      <3> SUFFICES ASSUME x.c = c /\ x.e = "message", ~b PROVE FALSE
        OBVIOUS
      <3>1. PICK j \in DOMAIN s : j < 1
        BY <1>3, <1>8 DEF Led
      <3> QED
        BY <1>2, <3>1
    <2> QED
      BY <2>1, <2>2 DEF Led
  <1> QED
    BY <1>4, <1>5, <1>6, <1>7, <1>8 DEF x, t

LEMMA OneEvent ==
  ASSUME NEW s \in Seq(Events), NEW x \in Events, NEW c
  PROVE  /\ Append(s, x) = s \o <<x>> /\ <<x>> \in Seq(Events)
         /\ \A e : (Queues(<<x>>, c, e) <=> x.c = c /\ x.e = e) /\ Alone(<<x>>, c, e)
         /\ x.e # "message" => Messages(<<x>>, c) = {}
  <1> DEFINE u == <<x>>
  <1>1. u \in Seq(Events) /\ DOMAIN u = {1} /\ u[1] = x
    OBVIOUS
  <1>2. Append(s, x) = s \o u
    OBVIOUS
  <1> HIDE DEF u
  <1>3. /\ \A e : (Queues(u, c, e) <=> x.c = c /\ x.e = e) /\ Alone(u, c, e)
        /\ x.e # "message" => Messages(u, c) = {}
    BY <1>1 DEF Queues, Alone, Messages
  <1> QED
    BY <1>1, <1>2, <1>3 DEF u
-----------------------------------------------------------------------------
(* The steps, and the events. *)

\* Nothing happens to the events of c.
Same(s, s2, c) ==
  /\ \A e : Queues(s2, c, e) <=> Queues(s, c, e)
  /\ \A e : Alone(s, c, e) => Alone(s2, c, e)
  /\ \A b \in BOOLEAN : Drained(s, c, b) => Drained(s2, c, b)
  /\ \A b \in BOOLEAN : Led(s, c, b) => Led(s2, c, b)
  /\ \A a, b \in Nat : a <= b /\ Numbered(s, Messages(s, c), a, b) => Numbered(s2, Messages(s2, c), a, b)

LEMMA SameKept == \A s, c : Same(s, s, c)
  BY DEF Same

LEMMA SameTail ==
  ASSUME NEW s \in Seq(Events), s # <<>>, NEW c, Head(s).c # c
  PROVE  Same(s, Tail(s), c)
  <1> DEFINE x == Head(s)
             t == Tail(s)
  <1>1. /\ \A e : Queues(s, c, e) <=> Queues(t, c, e) \/ (x.c = c /\ x.e = e)
        /\ \A e : Alone(s, c, e) => Alone(t, c, e)
        /\ \A b \in BOOLEAN : Drained(s, c, b) => Drained(t, c, b)
        /\ \A b \in BOOLEAN : Led(s, c, b) => Led(t, c, b \/ (x.c = c /\ x.e = "connection"))
        /\ \A a, b \in Nat : Numbered(s, Messages(s, c), a, b) =>
                 IF x.c = c /\ x.e = "message"
                   THEN x.f = a + 1 /\ a + 1 <= b /\ Numbered(t, Messages(t, c), a + 1, b)
                   ELSE Numbered(t, Messages(t, c), a, b)
    BY EventsTail
  <1>2. x.c # c
    OBVIOUS
  <1> HIDE DEF x, t
  <1>3. \A b \in BOOLEAN : (b \/ (x.c = c /\ x.e = "connection")) = b
    BY <1>2
  <1>4. \A b \in BOOLEAN : Led(s, c, b) => Led(t, c, b)
    BY <1>1, <1>3
  <1>5. \A a, b \in Nat : Numbered(s, Messages(s, c), a, b) => Numbered(t, Messages(t, c), a, b)
    BY <1>1, <1>2
  <1>6. \A e : Queues(t, c, e) <=> Queues(s, c, e)
    BY <1>1, <1>2
  <1> QED
    BY <1>1, <1>4, <1>5, <1>6 DEF Same, t

\* New events that are no messages keep the messages as they are.
LEMMA QuietConcat ==
  ASSUME NEW s \in Seq(Events), NEW new \in Seq(Events), NEW c, Messages(new, c) = {}
  PROVE  /\ \A b \in BOOLEAN : Led(s, c, b) => Led(s \o new, c, b)
         /\ \A a, b \in Nat : a <= b /\ Numbered(s, Messages(s, c), a, b)
                                => Numbered(s \o new, Messages(s \o new, c), a, b)
  <1> DEFINE v == s \o new
  <1>1. /\ \A b \in BOOLEAN :
              Led(s, c, b) /\ Led(new, c, b \/ Queues(s, c, "connection")) => Led(v, c, b)
        /\ Messages(s, c) \subseteq Messages(v, c)
        /\ \A j \in Messages(new, c) : Len(s) + j \in Messages(v, c)
        /\ \A i \in Messages(v, c) : \/ i \in Messages(s, c)
                                     \/ i \in Int /\ i > Len(s) /\ i - Len(s) \in Messages(new, c)
    BY EventsConcat
  <1>2. \A b : Led(new, c, b)
    BY DEF Led
  <1>3. ASSUME NEW a \in Nat, NEW b \in Nat, a <= b, Numbered(s, Messages(s, c), a, b)
        PROVE  Numbered(v, Messages(v, c), a, b)
    <2> DEFINE A == Messages(s, c)
               B == Messages(new, c)
               C == Messages(v, c)
    <2>1. /\ A \subseteq DOMAIN s /\ B \subseteq DOMAIN new /\ A \subseteq C
          /\ \A j \in B : Len(s) + j \in C
          /\ \A i \in C : i \in A \/ (i \in Int /\ i > Len(s) /\ i - Len(s) \in B)
      BY <1>1 DEF Messages
    <2>2. Numbered(s, A, a, b) /\ Numbered(new, B, b, b) /\ b <= b
      BY <1>3, NumberedNone
    <2> HIDE DEF A, B, C, v
    <2>3. Numbered(s \o new, C, a, b)
      BY <1>3, <2>1, <2>2, NumberedConcat
    <2> QED
      BY <2>3 DEF C, v
  <1> QED
    BY <1>1, <1>2, <1>3

LEMMA SameConcat ==
  ASSUME NEW s \in Seq(Events), NEW new \in Seq(Events), NEW c, \A e : ~Queues(new, c, e)
  PROVE  Same(s, s \o new, c)
  <1> DEFINE v == s \o new
  <1>1. Messages(new, c) = {}
    BY DEF Messages, Queues
  <1>2. \A e : Alone(new, c, e)
    BY DEF Alone, Queues
  <1>3. /\ \A e : Queues(v, c, e) <=> Queues(s, c, e) \/ Queues(new, c, e)
        /\ \A e : /\ Alone(s, c, e) /\ Alone(new, c, e) /\ ~(Queues(s, c, e) /\ Queues(new, c, e))
                  => Alone(v, c, e)
        /\ \A b1, b2 \in BOOLEAN :
             /\ Drained(s, c, b1) /\ (b1 => b2 \/ Queues(new, c, "drain"))
             /\ (Queues(new, c, "backpressure") => b2)
             => Drained(v, c, b2)
    BY EventsConcat
  <1>4. /\ \A b \in BOOLEAN : Led(s, c, b) => Led(v, c, b)
        /\ \A a, b \in Nat : a <= b /\ Numbered(s, Messages(s, c), a, b) => Numbered(v, Messages(v, c), a, b)
    BY <1>1, QuietConcat
  <1> HIDE DEF v
  <1>5. \A e : (Queues(v, c, e) <=> Queues(s, c, e)) /\ (Alone(s, c, e) => Alone(v, c, e))
    BY <1>2, <1>3
  <1>6. \A b \in BOOLEAN : Drained(s, c, b) => Drained(v, c, b)
    BY <1>3
  <1> QED
    BY <1>4, <1>5, <1>6 DEF Same, v

LEMMA FirstType ==
  ASSUME NEW hs \in BOOLEAN, NEW r \in Nat
  PROVE  First(hs, r) \in Nat /\ First(hs, r) <= r
  BY DEF First

LEMMA SplitSame ==
  ASSUME NEW t, NEW w \in Seq(Nat), NEW s, NEW s2, NEW c, NEW m \in Nat, NEW r \in Nat,
         Split(t, w, s, c, m, r),
         \A a, b \in Nat : a <= b /\ Numbered(s, Messages(s, c), a, b) => Numbered(s2, Messages(s2, c), a, b)
  PROVE  Split(t, w, s2, c, m, r)
  <1>1. PICK h \in m .. r : /\ h + Len(w) <= r
                            /\ Numbered(t, MessageNotes(t), m, h)
                            /\ \A i \in DOMAIN w : w[i] = h + i
                            /\ Numbered(s, Messages(s, c), h + Len(w), r)
    BY DEF Split
  <1>2. h + Len(w) \in Nat
    OBVIOUS
  <1>3. Numbered(s2, Messages(s2, c), h + Len(w), r)
    BY <1>1, <1>2
  <1> QED
    BY <1>1, <1>3 DEF Split

\* What is known of one connection in a state that is Safe.
LEMMA Kinds ==
  ASSUME Safe, NEW c \in Conns
  PROVE  /\ conn[c] \in Links /\ conn[c].rx_frames \in Nat /\ conn[c].backpressured \in BOOLEAN
         /\ wrap[c] \in Mirrors /\ wrap[c].pending \in Seq(Nat) /\ told[c] \in Seq(Notes)
         /\ opt.hs \in BOOLEAN /\ opt.framed \in BOOLEAN /\ opt.verify \in BOOLEAN
         /\ events \in Seq(Events) /\ svc \in ServicePoints
         /\ (c \in connections <=> peer[c] \in {"up", "fin", "rst"})
         /\ First(opt.hs, conn[c].rx_frames) \in Nat
         /\ First(opt.hs, conn[c].rx_frames) <= conn[c].rx_frames
  <1>1. /\ conn[c] \in Links /\ wrap[c] \in Mirrors /\ told[c] \in Seq(Notes) /\ events \in Seq(Events)
        /\ svc \in ServicePoints /\ opt \in Options
    BY Types DEF Safe
  <1>2. conn[c].rx_frames \in Nat /\ conn[c].backpressured \in BOOLEAN /\ wrap[c].pending \in Seq(Nat)
    BY <1>1 DEF Links, Mirrors
  <1>3. opt.hs \in BOOLEAN /\ opt.framed \in BOOLEAN /\ opt.verify \in BOOLEAN
    BY <1>1, OptionsAssumption
  <1>4. c \in connections <=> peer[c] \in {"up", "fin", "rst"}
    BY DEF Safe, Alive
  <1> QED
    BY <1>1, <1>2, <1>3, <1>4, FirstType

\* A step that does not concern the events of c.
LEMMA TalkSame ==
  ASSUME Safe, NEW c \in Conns, Talk(c), opt' = opt, wrap'[c] = wrap[c], told'[c] = told[c],
         c \in connections' <=> c \in connections,
         peer'[c] = peer[c] \/ peer'[c] \notin {"none", "gone"},
         conn'[c].rx_frames = conn[c].rx_frames, conn'[c].backpressured = conn[c].backpressured,
         \A e \in {"connection", "drain"} : svc' = EmittingOf(c, e) <=> svc = EmittingOf(c, e),
         Same(events, events', c)
  PROVE  Talk(c)'
  <1>1. /\ conn[c].rx_frames \in Nat /\ conn[c].backpressured \in BOOLEAN
        /\ wrap[c].pending \in Seq(Nat) /\ First(opt.hs, conn[c].rx_frames) \in Nat
    BY Kinds
  <1>2. /\ \A e : Queues(events', c, e) <=> Queues(events, c, e)
        /\ \A e : Alone(events, c, e) => Alone(events', c, e)
        /\ \A b \in BOOLEAN : Drained(events, c, b) => Drained(events', c, b)
        /\ \A b \in BOOLEAN : Led(events, c, b) => Led(events', c, b)
    BY DEF Same
  <1>3. MirrorInv(c)'
    <2> DEFINE draining == conn[c].backpressured \/ svc = EmittingOf(c, "drain")
    <2>1. MirrorInv(c) /\ draining \in BOOLEAN
      BY <1>1 DEF Talk
    <2>2. (conn'[c].backpressured \/ svc' = EmittingOf(c, "drain")) = draining
      BY <1>1
    <2>3. Announced(c)' <=> Announced(c)
      BY DEF Announced
    <2>4. Drained(events, c, draining) => Drained(events', c, draining)
      BY <1>2, <2>1
    <2> HIDE DEF draining
    <2> QED
      BY <1>2, <2>1, <2>2, <2>3, <2>4 DEF MirrorInv, draining
  <1>4. ToldInv(c)'
    BY <1>2 DEF Talk, ToldInv
  <1>5. MessageInv(c)'
    <2> SUFFICES ASSUME c \in connections', opt'.hs => opt'.framed
                 PROVE  /\ Led(events', c, wrap'[c].state # "none")
                        /\ Split(told'[c], wrap'[c].pending, events', c,
                                 First(opt'.hs, conn'[c].rx_frames), conn'[c].rx_frames)
      BY DEF MessageInv
    <2>1. /\ Led(events, c, wrap[c].state # "none")
          /\ Split(told[c], wrap[c].pending, events, c,
                   First(opt.hs, conn[c].rx_frames), conn[c].rx_frames)
      BY DEF Talk, MessageInv
    <2>2. Led(events', c, wrap[c].state # "none")
      BY <1>2, <2>1
    <2>3. Split(told[c], wrap[c].pending, events', c,
                First(opt.hs, conn[c].rx_frames), conn[c].rx_frames)
      BY <1>1, <2>1, SplitSame DEF Same
    <2> QED
      BY <2>2, <2>3
  <1> QED
    BY <1>3, <1>4, <1>5 DEF Talk

\* A step that concerns the events of nobody.
LEMMA TalkIdle ==
  ASSUME Safe, \A c \in Conns : Talk(c), UNCHANGED <<opt, connections, events, wrap, told>>,
         \A c \in Conns : peer'[c] = peer[c] \/ peer'[c] \notin {"none", "gone"},
         \A c \in Conns : /\ conn'[c].rx_frames = conn[c].rx_frames
                          /\ conn'[c].backpressured = conn[c].backpressured,
         svc' = svc \/ (svc.at # "emit" /\ svc'.at # "emit")
  PROVE  \A c \in Conns : Talk(c)'
  <1> TAKE c \in Conns
  <1>1. opt' = opt /\ connections' = connections /\ events' = events /\ wrap' = wrap /\ told' = told
    OBVIOUS
  <1>2. Same(events, events', c)
    BY <1>1, SameKept
  <1>3. \A e \in {"connection", "drain"} : svc' = EmittingOf(c, e) <=> svc = EmittingOf(c, e)
    BY DEF EmittingOf
  <1> QED
    BY <1>1, <1>2, <1>3, TalkSame

LEMMA TalkInit == Init => \A c \in Conns : Talk(c)
  <1> SUFFICES ASSUME Init, NEW c \in Conns PROVE Talk(c)
    OBVIOUS
  <1>1. /\ wrap[c] = NoState /\ told[c] = <<>> /\ events = <<>> /\ peer[c] = "none" /\ connections = {}
    BY DEF Init
  <1>2. \A e : ~Queues(events, c, e) /\ Alone(events, c, e)
    BY <1>1 DEF Queues, Alone
  <1>3. \A e : ~Notices(told[c], e) /\ NoticedOnce(told[c], e)
    BY <1>1 DEF Notices, NoticedOnce
  <1>4. \A e1, e2 : ~NoticedBefore(told[c], e1, e2)
    BY <1>1 DEF NoticedBefore
  <1>5. NoState.state = "none" /\ NoState.backpressured = FALSE /\ NoState.verifying = FALSE
    BY DEF NoState
  <1>6. MirrorInv(c)
    BY <1>1, <1>2, <1>5 DEF MirrorInv
  <1>7. ToldInv(c)
    BY <1>1, <1>2, <1>3, <1>4, <1>5 DEF ToldInv
  <1>8. MessageInv(c)
    BY <1>1 DEF MessageInv
  <1> QED
    BY <1>6, <1>7, <1>8 DEF Talk

\* Steps that leave the flag and the numbers of every connection alone.
LEMMA TalkQuietSteps ==
  ASSUME Safe, \A c \in Conns : Talk(c),
         \/ Listen \/ StopBegins \/ WriteNext \/ WriteAccount \/ UNCHANGED vars
         \/ \E c \in Conns : \/ PeerSends(c) \/ PeerLeaves(c) \/ CloseConnection(c)
                             \/ ReadEnd(c) \/ Flush(c) \/ Writeable(c)
  PROVE  \A c \in Conns : Talk(c)'
  <1>0. /\ conn \in [Conns -> Links] /\ peer \in [Conns -> {"none", "up", "fin", "rst", "cut", "gone"}]
        /\ svc \in ServicePoints
    BY Types DEF Safe
  <1>1. CASE Listen \/ StopBegins \/ UNCHANGED vars \/ \E c \in Conns : PeerSends(c) \/ Flush(c)
    <2>1. UNCHANGED <<opt, connections, events, wrap, told, peer, conn, svc>>
      BY <1>1 DEF Listen, StopBegins, vars, PeerSends, Flush, native, history
    <2> QED
      BY <2>1, TalkIdle
  <1>2. CASE \E c \in Conns : PeerLeaves(c)
    <2>1. UNCHANGED <<opt, connections, events, wrap, told, conn, svc>>
      BY <1>2 DEF PeerLeaves, native, history
    <2>2. \A c \in Conns : peer'[c] = peer[c] \/ peer'[c] \notin {"none", "gone"}
      BY <1>0, <1>2 DEF PeerLeaves
    <2> QED
      BY <2>1, <2>2, TalkIdle
  <1>3. CASE \E c \in Conns : CloseConnection(c)
    <2>1. PICK d \in Conns : CloseConnection(d)
      BY <1>3
    <2>2. UNCHANGED <<opt, connections, events, wrap, told, peer, svc>> /\ Closing(d) /\ d \in connections
      BY <2>1 DEF CloseConnection, native, history
    <2>3. \A c \in Conns : conn'[c].rx_frames = conn[c].rx_frames /\ conn'[c].backpressured = conn[c].backpressured
      BY <2>2, ClosingParts
    <2> QED
      BY <2>2, <2>3, TalkIdle
  <1>4. CASE \E c \in Conns : ReadEnd(c) \/ Writeable(c)
    <2>1. UNCHANGED <<opt, connections, events, wrap, told, peer, conn>>
      BY <1>4 DEF ReadEnd, Writeable, native, history
    <2>2. svc.at = "poll" /\ svc'.at # "emit"
      BY <1>4 DEF ReadEnd, Writeable, Polling, KillingOf
    <2> QED
      BY <2>1, <2>2, TalkIdle
  <1>5. CASE WriteNext \/ WriteAccount
    <2>1. UNCHANGED <<opt, connections, events, wrap, told, peer>>
      BY <1>5 DEF WriteNext, WriteAccount, native, history
    <2>2. svc.at # "emit" /\ svc'.at # "emit"
      <3>1. svc.at \in {"write", "account"}
        BY <1>5 DEF WriteNext, WriteAccount
      <3>2. CASE WriteNext
        <4>1. \/ svc' = [at |-> "end", c |-> svc.c] \/ svc' = KillingOf(svc.c)
              \/ \E x, y : svc' = [at |-> "account", c |-> svc.c, n |-> svc.n, next |-> x, written |-> y]
          BY <3>2 DEF WriteNext
        <4> QED
          BY <3>1, <4>1 DEF KillingOf
      <3>3. CASE WriteAccount
        <4>1. \/ svc' = [at |-> "end", c |-> svc.c]
              \/ svc' = [at |-> "write", c |-> svc.c, n |-> svc.n + 1]
          BY <3>3 DEF WriteAccount
        <4> QED
          BY <3>1, <4>1
      <3> QED
        BY <1>5, <3>2, <3>3
    <2>3. \A c \in Conns : conn'[c].rx_frames = conn[c].rx_frames /\ conn'[c].backpressured = conn[c].backpressured
      <3>1. CASE WriteNext
        <4>1. conn' = conn \/ conn' = [conn EXCEPT ![svc.c].send_queue = Tail(@)]
          BY <3>1 DEF WriteNext
        <4> DEFINE k == [conn[svc.c] EXCEPT !.send_queue = Tail(@)]
        <4>2. \A c \in Conns : conn'[c] = conn[c] \/ (c = svc.c /\ conn'[c] = k)
          BY <1>0, <4>1
        <4>3. svc.c \in Conns => k.rx_frames = conn[svc.c].rx_frames /\ k.backpressured = conn[svc.c].backpressured
          BY <1>0 DEF Links
        <4> HIDE DEF k
        <4> QED
          BY <4>2, <4>3
      <3>2. CASE WriteAccount
        <4>1. \E a, b, q : conn' = [conn EXCEPT ![svc.c].queued_bytes = a, ![svc.c].writable_scheduled = b,
                                                ![svc.c].send_queue = q]
          BY <1>0, <3>2 DEF WriteAccount
        <4> QED
          BY <1>0, <4>1 DEF Links
      <3> QED
        BY <1>5, <3>1, <3>2
    <2> QED
      BY <2>1, <2>2, <2>3, TalkIdle
  <1> QED
    BY <1>1, <1>2, <1>3, <1>4, <1>5

\* A verifier that says no: only its answer is no longer awaited.
LEMMA RejectTalk ==
  ASSUME Safe, \A d \in Conns : Talk(d), NEW c \in Conns, Reject(c)
  PROVE  \A d \in Conns : Talk(d)'
  <1>0. wrap \in [Conns -> Mirrors] /\ wrap[c] \in Mirrors
    BY Types DEF Safe
  <1>1. UNCHANGED <<opt, connections, svc, events, peer, told>> /\ wrap[c].verifying
    BY DEF Reject, native, history
  <1>2. \A d \in Conns : conn'[d].rx_frames = conn[d].rx_frames /\ conn'[d].backpressured = conn[d].backpressured
    <2>1. CASE c \in connections
      <3>1. Closing(c)
        BY <2>1 DEF Reject
      <3> QED
        BY <2>1, <3>1, ClosingParts
    <2>2. CASE c \notin connections
      BY <2>2 DEF Reject
    <2> QED
      BY <2>1, <2>2
  <1> DEFINE w == [wrap[c] EXCEPT !.verifying = FALSE]
  <1>3. wrap' = [wrap EXCEPT ![c] = w]
    BY <1>0 DEF Reject
  <1>4. /\ w.state = wrap[c].state /\ w.backpressured = wrap[c].backpressured
        /\ w.pending = wrap[c].pending /\ ~w.verifying
    BY <1>0 DEF Mirrors
  <1> HIDE DEF w
  <1>5. wrap'[c] = w /\ \A d \in Conns \ {c} : wrap'[d] = wrap[d]
    BY <1>0, <1>3
  <1>6. Talk(c)'
    <2>1. wrap[c] # NoState
      BY <1>1 DEF NoState
    <2>2. Announced(c)' <=> Announced(c)
      BY <1>1, <1>2 DEF Announced
    <2>3. MirrorInv(c)'
      BY <1>1, <1>2, <1>4, <1>5, <2>1, <2>2 DEF Talk, MirrorInv
    <2>4. ToldInv(c)'
      BY <1>1, <1>4, <1>5 DEF Talk, ToldInv
    <2>5. MessageInv(c)'
      BY <1>1, <1>2, <1>4, <1>5 DEF Talk, MessageInv
    <2> QED
      BY <2>3, <2>4, <2>5 DEF Talk
  <1>7. \A d \in Conns \ {c} : Talk(d)'
    BY <1>1, <1>2, <1>5, SameKept, TalkSame
  <1> QED
    BY <1>6, <1>7

\* Backpressure comes or goes, and events that tell of it are queued: what is
\* over is followed by its drain.
LEMMA TalkFlow ==
  ASSUME Safe, NEW c \in connections, Talk(c), NEW new \in Seq(Events), opt' = opt,
         wrap'[c] = wrap[c], told'[c] = told[c], c \in connections', peer'[c] = peer[c],
         conn'[c].rx_frames = conn[c].rx_frames, conn'[c].backpressured \in BOOLEAN,
         svc' = EmittingOf(c, "connection") <=> svc = EmittingOf(c, "connection"),
         events' = events \o new, \A e : Queues(new, c, e) => e \in Flow,
         conn[c].backpressured \/ svc = EmittingOf(c, "drain") =>
           conn'[c].backpressured \/ svc' = EmittingOf(c, "drain") \/ Queues(new, c, "drain"),
         Queues(new, c, "backpressure") => conn'[c].backpressured \/ svc' = EmittingOf(c, "drain")
  PROVE  Talk(c)'
  <1>0. c \in Conns
    BY Types DEF Safe
  <1>1. /\ conn[c].rx_frames \in Nat /\ conn[c].backpressured \in BOOLEAN /\ events \in Seq(Events)
        /\ wrap[c].pending \in Seq(Nat) /\ First(opt.hs, conn[c].rx_frames) \in Nat
        /\ peer[c] \in {"up", "fin", "rst"}
    BY <1>0, Kinds
  <1>2. /\ ~Queues(new, c, "connection") /\ ~Queues(new, c, "clientClosed") /\ ~Queues(new, c, "message")
    <2>1. "connection" \notin Flow /\ "clientClosed" \notin Flow /\ "message" \notin Flow
      BY DEF Flow
    <2> QED
      BY <2>1, Zenon
  <1>3. Messages(new, c) = {} /\ Alone(new, c, "connection") /\ Alone(new, c, "clientClosed")
    BY <1>2 DEF Messages, Queues, Alone
  <1>4. /\ \A e : Queues(events', c, e) <=> Queues(events, c, e) \/ Queues(new, c, e)
        /\ \A e : /\ Alone(events, c, e) /\ Alone(new, c, e) /\ ~(Queues(events, c, e) /\ Queues(new, c, e))
                  => Alone(events', c, e)
        /\ \A b1, b2 \in BOOLEAN :
             /\ Drained(events, c, b1) /\ (b1 => b2 \/ Queues(new, c, "drain"))
             /\ (Queues(new, c, "backpressure") => b2)
             => Drained(events', c, b2)
    BY <1>1, EventsConcat
  <1>5. /\ \A b \in BOOLEAN : Led(events, c, b) => Led(events', c, b)
        /\ \A a, b \in Nat : a <= b /\ Numbered(events, Messages(events, c), a, b)
                               => Numbered(events', Messages(events', c), a, b)
    BY <1>1, <1>3, QuietConcat
  <1>6. MirrorInv(c)'
    <2> DEFINE b1 == conn[c].backpressured \/ svc = EmittingOf(c, "drain")
               b2 == conn'[c].backpressured \/ svc' = EmittingOf(c, "drain")
    <2>1. MirrorInv(c) /\ b1 \in BOOLEAN /\ b2 \in BOOLEAN
      BY <1>1 DEF Talk
    <2>2. (b1 => b2 \/ Queues(new, c, "drain")) /\ (Queues(new, c, "backpressure") => b2)
      OBVIOUS
    <2>3. Announced(c)' <=> Announced(c)
      BY DEF Announced
    <2>4. Drained(events, c, b1) => Drained(events', c, b2)
      BY <1>4, <2>1, <2>2
    <2>5. Queues(events', c, "connection") <=> Queues(events, c, "connection")
      BY <1>2, <1>4
    <2>6. ~Queues(events, c, "clientClosed") => ~Queues(events', c, "clientClosed")
      BY <1>2, <1>4
    <2>7. /\ wrap[c].backpressured => b1 \/ Queues(events, c, "drain")
          /\ Drained(events, c, b1)
      BY <2>1 DEF MirrorInv
    <2>8. wrap'[c].backpressured => b2 \/ Queues(events', c, "drain")
      BY <1>4, <2>2, <2>7
    <2>9. peer'[c] # "none" /\ peer'[c] # "gone"
      BY <1>1
    <2>10. Drained(events', c, b2)
      BY <2>4, <2>7
    <2> QED
      BY <2>1, <2>3, <2>5, <2>6, <2>8, <2>9, <2>10 DEF MirrorInv
  <1>7. ToldInv(c)'
    <2>1. \A e \in {"connection", "clientClosed"} :
            (Queues(events', c, e) <=> Queues(events, c, e)) /\ (Alone(events, c, e) => Alone(events', c, e))
      BY <1>2, <1>3, <1>4
    <2> QED
      BY <2>1 DEF Talk, ToldInv
  <1>8. MessageInv(c)'
    <2> SUFFICES ASSUME opt'.hs => opt'.framed
                 PROVE  /\ Led(events', c, wrap'[c].state # "none")
                        /\ Split(told'[c], wrap'[c].pending, events', c,
                                 First(opt'.hs, conn'[c].rx_frames), conn'[c].rx_frames)
      BY DEF MessageInv
    <2>1. /\ Led(events, c, wrap[c].state # "none")
          /\ Split(told[c], wrap[c].pending, events, c,
                   First(opt.hs, conn[c].rx_frames), conn[c].rx_frames)
      BY DEF Talk, MessageInv
    <2>2. Led(events', c, wrap[c].state # "none")
      BY <1>5, <2>1
    <2>3. Split(told[c], wrap[c].pending, events', c,
                First(opt.hs, conn[c].rx_frames), conn[c].rx_frames)
      BY <1>1, <1>5, <2>1, SplitSame
    <2> QED
      BY <2>2, <2>3
  <1> QED
    BY <1>6, <1>7, <1>8 DEF Talk

\* The events a call of Post queues.
LEMMA PostTalk ==
  ASSUME Safe, \A c \in Conns : Talk(c), NEW cs \in SUBSET connections, Post(cs),
         UNCHANGED <<opt, connections, svc, wrap, peer, told>>
  PROVE  \A c \in Conns : Talk(c)'
  <1>1. connections \subseteq Conns /\ events \in Seq(Events)
    BY Types DEF Safe
  <1> DEFINE S == {c \in cs : Overflows(c)}
  <1>2. PICK order \in SetToSeqs(S) :
          events' = events \o [i \in DOMAIN order |-> Event("backpressure", order[i], 0)]
    BY DEF Post
  <1> DEFINE new == [i \in DOMAIN order |-> Event("backpressure", order[i], 0)]
  <1>3. new \in Seq(Events) /\ \A i \in DOMAIN new : new[i].e = "backpressure" /\ new[i].c \in S
    <2>1. S \in SUBSET Conns
      BY <1>1
    <2> HIDE DEF S
    <2> QED
      BY <2>1, PostEvents
  <1> HIDE DEF S
  <1> HIDE DEF new
  <1>4. \A c, e : Queues(new, c, e) => e = "backpressure" /\ c \in S
    BY <1>3 DEF Queues
  <1>5. /\ \A c \in cs : posted[c] < MaxPosts
        /\ conn' = [c \in Conns |-> IF c \in cs THEN Scheduled(Queued(c)) ELSE conn[c]]
    BY DEF Post
  <1>6. events' = events \o new
    BY <1>2 DEF new
  <1> TAKE c \in Conns
  <1>7. CASE c \in cs
    <2>1. conn'[c] = Scheduled(Queued(c)) /\ posted[c] < MaxPosts /\ c \in connections
      BY <1>5, <1>7
    <2>2. conn[c].backpressured \in BOOLEAN /\ conn[c].queued_bytes \in Nat
      BY Kinds DEF Links
    <2>3. /\ conn'[c].backpressured = (conn[c].backpressured \/ conn[c].queued_bytes + MsgLen >= MaxBackpressure)
          /\ conn'[c].rx_frames = conn[c].rx_frames /\ Queued(c).backpressured = conn'[c].backpressured
      BY <2>1, QueuedParts
    <2>4. conn'[c].backpressured \in BOOLEAN /\ (conn[c].backpressured => conn'[c].backpressured)
      BY <2>2, <2>3, BoundsAssumption
    <2>5. Queues(new, c, "backpressure") => conn'[c].backpressured
      BY <1>4, <2>3 DEF S, Overflows
    <2>6. \A e : Queues(new, c, e) => e \in Flow
      BY <1>4 DEF Flow
    <2> QED
      BY <1>3, <1>6, <2>1, <2>3, <2>4, <2>5, <2>6, TalkFlow
  <1>8. CASE c \notin cs
    <2>1. conn'[c] = conn[c]
      BY <1>5, <1>8
    <2>2. \A e : ~Queues(new, c, e)
      BY <1>4, <1>8 DEF S
    <2>3. Same(events, events', c)
      BY <1>1, <1>3, <1>6, <2>2, SameConcat
    <2> QED
      BY <2>1, <2>3, TalkSame
  <1> QED
    BY <1>7, <1>8

LEMMA EmittingParts ==
  ASSUME NEW sv \in ServicePoints, NEW c
  PROVE  /\ sv.at = "emit" => sv = EmittingOf(sv.c, sv.e) /\ sv # Polling
         /\ \A e : sv = EmittingOf(c, e) => sv.at = "emit" /\ sv.c = c /\ sv.e = e
  <1>1. sv.at = "emit" => sv \in [at : {"emit"}, c : Conns, e : {"connection", "drain"}] /\ sv # Polling
    BY DEF ServicePoints, Polling
  <1> QED
    BY <1>1 DEF EmittingOf

\* The backpressure ends, and its drain is on the way.
LEMMA WriteEndTalk ==
  ASSUME Safe, \A d \in Conns : Talk(d), WriteEnd
  PROVE  \A d \in Conns : Talk(d)'
  <1>1. /\ conn \in [Conns -> Links] /\ svc \in ServicePoints /\ events \in Seq(Events) /\ svc.at = "end"
        /\ connections \subseteq Conns
    BY Types DEF Safe, WriteEnd
  <1>2. PICK c \in Conns : c = svc.c /\ c \in connections
    BY <1>1, PointParts DEF Safe, Alive
  <1> DEFINE more == conn[c].send_queue # <<>>
  <1>3. UNCHANGED <<opt, connections, events, wrap, peer, told>>
    BY DEF WriteEnd, native, history
  <1> DEFINE k == [conn[c] EXCEPT !.writable_scheduled = @ \/ more, !.backpressured = @ /\ more]
  <1>4. conn' = [conn EXCEPT ![c] = k]
    BY <1>1, <1>2 DEF WriteEnd
  <1>5. /\ k.rx_frames = conn[c].rx_frames /\ conn[c].backpressured \in BOOLEAN
        /\ k.backpressured = (conn[c].backpressured /\ more)
    BY <1>1, <1>2 DEF Links
  <1> HIDE DEF k
  <1>6. conn'[c] = k /\ \A d \in Conns \ {c} : conn'[d] = conn[d]
    BY <1>1, <1>2, <1>4
  <1>7. svc' = IF ~more /\ conn[c].backpressured THEN EmittingOf(c, "drain") ELSE Polling
    BY <1>2 DEF WriteEnd
  <1> HIDE DEF more
  <1>8. \A d, e : /\ svc # EmittingOf(d, e)
                  /\ svc' = EmittingOf(d, e) => d = c /\ e = "drain"
    <2>1. \A d, e : EmittingOf(d, e).at = "emit" /\ EmittingOf(d, e).c = d /\ EmittingOf(d, e).e = e
      BY DEF EmittingOf
    <2>2. Polling.at = "poll"
      BY DEF Polling
    <2> QED
      BY <1>1, <1>7, <2>1, <2>2
  <1>9. Talk(c)'
    <2>1. events' = events \o <<>> /\ <<>> \in Seq(Events) /\ \A e : ~Queues(<<>>, c, e)
      BY <1>1, <1>3 DEF Queues
    <2>2. conn'[c].backpressured \in BOOLEAN /\ conn'[c].rx_frames = conn[c].rx_frames
      BY <1>5, <1>6
    <2>3. conn[c].backpressured \/ svc = EmittingOf(c, "drain") =>
            conn'[c].backpressured \/ svc' = EmittingOf(c, "drain")
      BY <1>5, <1>6, <1>7, <1>8
    <2>4. svc' = EmittingOf(c, "connection") <=> svc = EmittingOf(c, "connection")
      BY <1>8
    <2> QED
      BY <1>2, <1>3, <2>1, <2>2, <2>3, <2>4, TalkFlow
  <1>10. \A d \in Conns \ {c} : Talk(d)'
    <2> TAKE d \in Conns \ {c}
    <2>1. conn'[d] = conn[d] /\ Same(events, events', d)
      BY <1>3, <1>6, SameKept
    <2>2. \A e \in {"connection", "drain"} : svc' = EmittingOf(d, e) <=> svc = EmittingOf(d, e)
      BY <1>8
    <2> QED
      BY <1>3, <2>1, <2>2, TalkSame
  <1> QED
    BY <1>9, <1>10

LEMMA StopEndsTalk ==
  ASSUME Safe, \A d \in Conns : Talk(d), StopEnds
  PROVE  \A d \in Conns : Talk(d)'
  <1> TAKE c \in Conns
  <1>1. UNCHANGED <<opt, svc, events, wrap, told>> /\ connections' = {}
        /\ peer'[c] = IF c \in connections THEN "cut" ELSE peer[c]
    BY DEF StopEnds
  <1>2. MirrorInv(c)'
    BY <1>1 DEF Talk, MirrorInv
  <1>3. ToldInv(c)'
    BY <1>1 DEF Talk, ToldInv
  <1>4. MessageInv(c)'
    BY <1>1 DEF MessageInv
  <1> QED
    BY <1>2, <1>3, <1>4 DEF Talk

\* The end of a connection is queued once, for there is only one RAW_CLOSE.
LEMMA RawCloseTalk ==
  ASSUME Safe, \A d \in Conns : Talk(d), RawClose
  PROVE  \A d \in Conns : Talk(d)'
  <1>1. /\ peer \in [Conns -> {"none", "up", "fin", "rst", "cut", "gone"}] /\ svc \in ServicePoints
        /\ events \in Seq(Events) /\ svc.at = "kill" /\ connections \subseteq Conns
    BY Types DEF Safe, RawClose
  <1>2. PICK c \in Conns : c = svc.c /\ c \in connections
    BY <1>1, PointParts DEF Safe, Alive
  <1> DEFINE x == Event("clientClosed", c, 0)
  <1>3. /\ UNCHANGED <<opt, wrap, told>> /\ connections' = connections \ {c}
        /\ peer' = [peer EXCEPT ![c] = "gone"] /\ Forget({c}) /\ svc' = Polling
        /\ events' = Append(events, x)
    BY <1>2 DEF RawClose, native
  <1>4. x \in Events /\ x.e = "clientClosed" /\ x.c = c
    BY <1>2 DEF Event, Events
  <1> HIDE DEF x
  <1>5. \A d \in Conns \ {c} : conn'[d] = conn[d] /\ peer'[d] = peer[d]
    BY <1>1, <1>2, <1>3, ForgetParts
  <1>6. peer'[c] = "gone" /\ c \notin connections'
    BY <1>1, <1>2, <1>3
  <1> DEFINE new == <<x>>
  <1>7. /\ events' = events \o new /\ new \in Seq(Events)
        /\ \A d, e : (Queues(new, d, e) <=> d = c /\ e = "clientClosed") /\ Alone(new, d, e)
    BY <1>1, <1>3, <1>4, OneEvent, ZenonT(60)
  <1> HIDE DEF new
  <1>8. \A d, e : svc # EmittingOf(d, e) /\ svc' # EmittingOf(d, e)
    BY <1>1, <1>3 DEF EmittingOf, Polling
  <1>9. Talk(c)'
    <2>1. /\ \A e : Queues(events', c, e) <=> Queues(events, c, e) \/ Queues(new, c, e)
          /\ \A e : /\ Alone(events, c, e) /\ Alone(new, c, e) /\ ~(Queues(events, c, e) /\ Queues(new, c, e))
                    => Alone(events', c, e)
      BY <1>1, <1>7, EventsConcat
    <2>2. MirrorInv(c) /\ ToldInv(c)
      BY <1>2 DEF Talk
    <2>3. ~Queues(events, c, "clientClosed") /\ ~Notices(told[c], "clientClosed")
      BY <1>2, <2>2 DEF MirrorInv, ToldInv
    <2>4. Queues(events', c, "clientClosed")
      BY <1>7, <2>1
    <2>5. Alone(events', c, "connection") /\ Alone(events', c, "clientClosed")
      <3>1. Alone(events, c, "connection") /\ Alone(events, c, "clientClosed")
        BY <2>2 DEF ToldInv
      <3>2. ~Queues(new, c, "connection") /\ Alone(new, c, "connection") /\ Alone(new, c, "clientClosed")
        BY <1>7
      <3> QED
        BY <2>1, <2>3, <3>1, <3>2
    <2>6. MirrorInv(c)'
      BY <1>3, <1>6, <2>2, <2>4 DEF MirrorInv
    <2>7. ToldInv(c)'
      BY <1>3, <2>2, <2>3, <2>5 DEF ToldInv
    <2>8. MessageInv(c)'
      BY <1>6 DEF MessageInv
    <2> QED
      BY <2>6, <2>7, <2>8 DEF Talk
  <1>10. \A d \in Conns \ {c} : Talk(d)'
    <2> TAKE d \in Conns \ {c}
    <2>1. \A e : ~Queues(new, d, e)
      BY <1>7
    <2>2. Same(events, events', d)
      BY <1>1, <1>7, <2>1, SameConcat
    <2>3. d \in connections' <=> d \in connections
      BY <1>3
    <2> QED
      BY <1>3, <1>5, <1>8, <2>2, <2>3, TalkSame
  <1> QED
    BY <1>9, <1>10

\* Nothing was told or queued of a connection before it is adopted.
LEMMA AdoptTalk ==
  ASSUME Safe, \A d \in Conns : Talk(d), NEW c \in Conns, Adopt(c)
  PROVE  \A d \in Conns : Talk(d)'
  <1>1. /\ peer \in [Conns -> {"none", "up", "fin", "rst", "cut", "gone"}] /\ events \in Seq(Events)
        /\ opt.hs \in BOOLEAN
    BY Types, Kinds DEF Safe
  <1>2. /\ UNCHANGED <<opt, conn, events, wrap, told>> /\ connections' = connections \cup {c}
        /\ peer' = [peer EXCEPT ![c] = "up"] /\ peer[c] = "none" /\ svc = Polling
        /\ svc' = IF opt.hs THEN Polling ELSE EmittingOf(c, "connection")
    BY DEF Adopt, native, history
  <1>3. c \notin connections /\ conn[c] = NewConnection
    BY <1>2, Kinds DEF Safe, Alive
  <1>4. conn[c].rx_frames = 0 /\ conn[c].backpressured = FALSE
    BY <1>3 DEF NewConnection
  <1>5. wrap[c] = NoState /\ told[c] = <<>> /\ \A e : ~Queues(events, c, e)
    BY <1>2 DEF Talk, MirrorInv
  <1>6. \A d, e : /\ svc # EmittingOf(d, e)
                  /\ svc' = EmittingOf(d, e) => d = c /\ e = "connection" /\ ~opt.hs
    <2>1. \A d, e : EmittingOf(d, e).at = "emit" /\ EmittingOf(d, e).c = d /\ EmittingOf(d, e).e = e
      BY DEF EmittingOf
    <2>2. Polling.at = "poll"
      BY DEF Polling
    <2> QED
      BY <1>2, <2>1, <2>2
  <1>7. Talk(c)'
    <2>1. peer'[c] = "up" /\ c \in connections'
      BY <1>1, <1>2
    <2>2. /\ NoState.state = "none" /\ NoState.backpressured = FALSE /\ NoState.verifying = FALSE
          /\ NoState.pending = <<>>
      BY DEF NoState
    <2>3. Announced(c)' <=> ~opt.hs
      BY <1>1, <1>2, <1>4 DEF Announced
    <2>4. ~opt.hs => svc' = EmittingOf(c, "connection")
      BY <1>2
    <2>5. \A b : Drained(events, c, b) /\ Led(events, c, b)
      BY <1>5 DEF Drained, Led, Messages, Queues
    <2>6. MirrorInv(c)'
      BY <1>2, <1>5, <1>6, <2>1, <2>2, <2>3, <2>4, <2>5 DEF MirrorInv
    <2>7. ToldInv(c)'
      <3>1. ~Notices(<<>>, "clientClosed")
        BY DEF Notices
      <3> QED
        BY <1>2, <1>5, <2>1, <2>2, <3>1 DEF ToldInv, Talk
    <2>8. Split(told[c], NoState.pending, events, c, 0, 0)
      <3>1. MessageNotes(told[c]) = {} /\ Messages(events, c) = {}
        BY <1>5 DEF MessageNotes, Messages, Queues
      <3>2. Len(NoState.pending) = 0 /\ DOMAIN NoState.pending = {}
        BY <2>2
      <3>3. Numbered(told[c], MessageNotes(told[c]), 0, 0)
        BY <3>1, NumberedNone
      <3>4. 0 + Len(NoState.pending) = 0 /\ 0 \in 0 .. 0 /\ 0 <= 0
        BY <3>2
      <3>5. Numbered(events, Messages(events, c), 0 + Len(NoState.pending), 0)
        BY <3>1, <3>4, NumberedNone
      <3> HIDE DEF NoState
      <3> QED
        BY <3>2, <3>3, <3>4, <3>5 DEF Split
    <2>9. First(opt.hs, 0) = 0
      BY <1>1 DEF First
    <2>10. MessageInv(c)'
      BY <1>2, <1>4, <1>5, <2>5, <2>8, <2>9 DEF MessageInv
    <2> QED
      BY <2>6, <2>7, <2>10 DEF Talk
  <1>8. \A d \in Conns \ {c} : Talk(d)'
    <2> TAKE d \in Conns \ {c}
    <2>1. peer'[d] = peer[d] /\ (d \in connections' <=> d \in connections)
      BY <1>1, <1>2
    <2> QED
      BY <1>2, <1>6, <2>1, SameKept, TalkSame
  <1> QED
    BY <1>7, <1>8

\* A connection is announced once, its drains as often as they come.
LEMMA EmitTalk ==
  ASSUME Safe, \A d \in Conns : Talk(d), Emit
  PROVE  \A d \in Conns : Talk(d)'
  <1>1. /\ svc \in ServicePoints /\ events \in Seq(Events) /\ svc.at = "emit" /\ connections \subseteq Conns
    BY Types DEF Safe, Emit
  <1>2. PICK c \in Conns : c = svc.c /\ c \in connections
    BY <1>1, PointParts DEF Safe, Alive
  <1>3. PICK e \in {"connection", "drain"} : e = svc.e
    BY <1>1, PointParts
  <1> DEFINE x == Event(e, c, 0)
             new == <<x>>
  <1>4. /\ UNCHANGED <<opt, connections, conn, wrap, peer, told>> /\ svc' = Polling
        /\ events' = Append(events, x)
    BY <1>2, <1>3 DEF Emit, native, history
  <1>5. svc = EmittingOf(c, e) /\ \A d, f : svc = EmittingOf(d, f) => d = c /\ f = e
    BY <1>1, <1>2, <1>3, EmittingParts
  <1>6. \A d, f : svc' # EmittingOf(d, f)
    BY <1>4 DEF EmittingOf, Polling
  <1>7. x \in Events /\ x.e = e /\ x.c = c
    BY DEF Event, Events, Locked
  <1> HIDE DEF x
  <1>8. /\ events' = events \o new /\ new \in Seq(Events)
        /\ \A d, f : (Queues(new, d, f) <=> d = c /\ f = e) /\ Alone(new, d, f)
        /\ Messages(new, c) = {}
    BY <1>1, <1>4, <1>7, OneEvent
  <1> HIDE DEF new
  <1>9. /\ conn[c].rx_frames \in Nat /\ conn[c].backpressured \in BOOLEAN /\ wrap[c].pending \in Seq(Nat)
        /\ First(opt.hs, conn[c].rx_frames) \in Nat /\ peer[c] \in {"up", "fin", "rst"}
    BY <1>2, Kinds
  <1>10. ASSUME e = "drain" PROVE Talk(c)'
    <2>1. /\ \A f : Queues(new, c, f) => f \in Flow
          /\ Queues(new, c, "drain") /\ ~Queues(new, c, "backpressure")
      BY <1>8, <1>10 DEF Flow
    <2>2. svc' = EmittingOf(c, "connection") <=> svc = EmittingOf(c, "connection")
      BY <1>5, <1>6, <1>10
    <2> QED
      BY <1>2, <1>4, <1>8, <1>9, <2>1, <2>2, TalkFlow
  <1>11. ASSUME e = "connection" PROVE Talk(c)'
    <2>1. /\ svc = EmittingOf(c, "connection") /\ svc # EmittingOf(c, "drain")
      BY <1>5, <1>11
    <2>2. MirrorInv(c) /\ ToldInv(c) /\ MessageInv(c)
      BY DEF Talk
    <2>3. /\ Announced(c) /\ wrap[c] = NoState /\ told[c] = <<>>
          /\ ~Queues(events, c, "clientClosed") /\ ~Queues(events, c, "connection")
      BY <1>2, <2>1, <2>2 DEF MirrorInv
    <2>4. /\ \A f : Queues(events', c, f) <=> Queues(events, c, f) \/ f = "connection"
          /\ \A f : Alone(events, c, f) /\ ~(Queues(events, c, f) /\ f = "connection") => Alone(events', c, f)
          /\ \A b \in BOOLEAN : Drained(events, c, b) => Drained(events', c, b)
      <3>1. /\ \A f : Queues(events', c, f) <=> Queues(events, c, f) \/ Queues(new, c, f)
            /\ \A f : /\ Alone(events, c, f) /\ Alone(new, c, f) /\ ~(Queues(events, c, f) /\ Queues(new, c, f))
                      => Alone(events', c, f)
            /\ \A b1, b2 \in BOOLEAN :
                 /\ Drained(events, c, b1) /\ (b1 => b2 \/ Queues(new, c, "drain"))
                 /\ (Queues(new, c, "backpressure") => b2)
                 => Drained(events', c, b2)
        <4>1. events \in Seq(Events) /\ new \in Seq(Events) /\ events' = events \o new
          BY <1>1, <1>8
        <4>2. \A f : Queues(events', c, f) <=> Queues(events, c, f) \/ Queues(new, c, f)
          BY <4>1, EventsConcat
        <4>3. \A f : /\ Alone(events, c, f) /\ Alone(new, c, f) /\ ~(Queues(events, c, f) /\ Queues(new, c, f))
                     => Alone(events', c, f)
          BY <4>1, EventsConcat
        <4>4. \A b1, b2 \in BOOLEAN :
                 /\ Drained(events, c, b1) /\ (b1 => b2 \/ Queues(new, c, "drain"))
                 /\ (Queues(new, c, "backpressure") => b2)
                 => Drained(events', c, b2)
          <5> DEFINE s == events
                     s2 == events \o new
          <5>1. \A b1, b2 \in BOOLEAN :
                 /\ Drained(s, c, b1) /\ (b1 => b2 \/ Queues(new, c, "drain"))
                 /\ (Queues(new, c, "backpressure") => b2)
                 => Drained(s2, c, b2)
            BY <4>1, EventsConcat
          <5>2. events' = s2
            BY <4>1
          <5> QED
            BY <5>1, <5>2, Zenon
        <4> QED
          BY <4>2, <4>3, <4>4
      <3>2. \A f : Queues(new, c, f) <=> f = "connection"
        BY <1>8, <1>11
      <3>3. ~Queues(new, c, "backpressure")
        BY <3>2
      <3> QED
        BY <1>8, <3>1, <3>2, <3>3
    <2>5. /\ \A b \in BOOLEAN : Led(events, c, b) => Led(events', c, b)
          /\ \A a, b \in Nat : a <= b /\ Numbered(events, Messages(events, c), a, b)
                                 => Numbered(events', Messages(events', c), a, b)
      BY <1>1, <1>8, QuietConcat
    <2>6. MirrorInv(c)'
      <3>1. Announced(c)'
        BY <1>4, <2>3 DEF Announced
      <3>2. Queues(events', c, "connection") /\ ~Queues(events', c, "clientClosed")
        BY <2>3, <2>4
      <3>3. (conn'[c].backpressured \/ svc' = EmittingOf(c, "drain")) = conn[c].backpressured
        BY <1>4, <1>6, <1>9
      <3>4. Drained(events', c, conn[c].backpressured)
        <4>1. Drained(events, c, conn[c].backpressured \/ svc = EmittingOf(c, "drain"))
          BY <1>2, <2>2 DEF MirrorInv
        <4>2. (conn[c].backpressured \/ svc = EmittingOf(c, "drain")) = conn[c].backpressured
          BY <1>9, <2>1
        <4> QED
          BY <1>9, <2>4, <4>1, <4>2
      <3>5. NoState.state = "none" /\ NoState.backpressured = FALSE /\ NoState.verifying = FALSE
        BY DEF NoState
      <3> QED
        BY <1>4, <1>6, <1>9, <2>3, <3>1, <3>2, <3>3, <3>4, <3>5 DEF MirrorInv
    <2>7. ToldInv(c)'
      <3>1. Alone(events', c, "connection") /\ Alone(events', c, "clientClosed")
        BY <2>2, <2>3, <2>4 DEF ToldInv
      <3>2. ~Queues(events', c, "clientClosed")
        BY <2>3, <2>4
      <3> QED
        BY <1>4, <2>2, <3>1, <3>2 DEF ToldInv
    <2>8. MessageInv(c)'
      <3> SUFFICES ASSUME opt.hs => opt.framed
                   PROVE  /\ Led(events', c, wrap[c].state # "none")
                          /\ Split(told[c], wrap[c].pending, events', c,
                                   First(opt.hs, conn[c].rx_frames), conn[c].rx_frames)
        BY <1>4 DEF MessageInv
      <3>1. /\ Led(events, c, wrap[c].state # "none")
            /\ Split(told[c], wrap[c].pending, events, c,
                     First(opt.hs, conn[c].rx_frames), conn[c].rx_frames)
        BY <1>2, <2>2 DEF MessageInv
      <3>2. Led(events', c, wrap[c].state # "none")
        BY <2>5, <3>1
      <3>3. Split(told[c], wrap[c].pending, events', c,
                  First(opt.hs, conn[c].rx_frames), conn[c].rx_frames)
        BY <1>9, <2>5, <3>1, SplitSame
      <3> QED
        BY <3>2, <3>3
    <2> QED
      BY <2>6, <2>7, <2>8 DEF Talk
  <1>12. \A d \in Conns \ {c} : Talk(d)'
    <2> TAKE d \in Conns \ {c}
    <2>1. \A f : ~Queues(new, d, f)
      BY <1>8
    <2>2. Same(events, events', d)
      BY <1>1, <1>8, <2>1, SameConcat
    <2>3. \A f \in {"connection", "drain"} : svc' = EmittingOf(d, f) <=> svc = EmittingOf(d, f)
      BY <1>5, <1>6
    <2> QED
      BY <1>4, <2>2, <2>3, TalkSame
  <1>13. Talk(c)'
    BY <1>10, <1>11
  <1> QED
    BY <1>12, <1>13

\* What one read passes on: the connection first, if it begins with the
\* handshake, and messages that go on counting.
PassedOn(new, lead, c, r) ==
  \A i \in DOMAIN new : new[i] = IF lead /\ i = 1 THEN Event("connection", c, 0)
                                 ELSE Event("message", c, r + i)

LEMMA ReceivedEvents ==
  ASSUME NEW c, NEW r \in Nat, NEW new \in Seq(Events), NEW lead \in BOOLEAN,
         lead => r = 0 /\ new # <<>>,
         PassedOn(new, lead, c, r)
  PROVE  /\ Queues(new, c, "connection") <=> lead
         /\ Alone(new, c, "connection") /\ Alone(new, c, "clientClosed")
         /\ lead \/ new = <<>> => \A b : Led(new, c, b)
         /\ Numbered(new, Messages(new, c), IF lead THEN 1 ELSE r, r + Len(new))
  <1> DEFINE n == Len(new)
  <1>1. n \in Nat /\ DOMAIN new = 1 .. n /\ (new # <<>> => 1 \in DOMAIN new /\ n > 0)
    OBVIOUS
  <1>2. \A i \in DOMAIN new : /\ new[i].c = c
                              /\ lead /\ i = 1 => new[i].e = "connection"
                              /\ ~(lead /\ i = 1) => new[i].e = "message" /\ new[i].f = r + i
    BY DEF Event, PassedOn
  <1>4. Queues(new, c, "connection") <=> lead
    BY <1>1, <1>2 DEF Queues
  <1>5. Alone(new, c, "connection") /\ Alone(new, c, "clientClosed")
    <2>1. \A i \in DOMAIN new : new[i].e # "clientClosed" /\ (new[i].e = "connection" => i = 1)
      BY <1>2
    <2> QED
      BY <2>1, Zenon DEF Alone
  <1>6. \A i : i \in Messages(new, c) <=> i \in 1 .. n /\ ~(lead /\ i = 1)
    BY <1>1, <1>2 DEF Messages
  <1>7. lead \/ new = <<>> => \A b : Led(new, c, b)
    <2>1. CASE new = <<>>
      BY <2>1 DEF Led, Messages
    <2>2. CASE lead
      <3>1. 1 \in DOMAIN new /\ new[1].c = c /\ new[1].e = "connection"
        BY <1>1, <1>2, <2>2
      <3>2. \A i \in Messages(new, c) : 1 < i
        BY <1>1, <1>6, <2>2
      <3> QED
        BY <3>1, <3>2 DEF Led
    <2> QED
      BY <2>1, <2>2
  <1>8. Numbered(new, Messages(new, c), IF lead THEN 1 ELSE r, r + n)
    <2> DEFINE a == IF lead THEN 1 ELSE r
               B == Messages(new, c)
    <2>1. a \in Nat /\ (lead => r = 0 /\ a = 1) /\ (~lead => a = r)
      OBVIOUS
    <2>2. \A i \in B : i \in 1 .. n /\ ~(lead /\ i = 1) /\ new[i].f = r + i
      BY <1>1, <1>2, <1>6
    <2>3. \A i \in 1 .. n : ~(lead /\ i = 1) => i \in B /\ new[i].f = r + i
      BY <1>1, <1>2, <1>6
    <2> HIDE DEF a, B, n
    <2>4. \A i \in B : new[i].f \in a + 1 .. r + n
      BY <1>1, <2>1, <2>2
    <2>5. \A k \in a + 1 .. r + n : \E i \in B : new[i].f = k
      <3> TAKE k \in a + 1 .. r + n
      <3>1. k - r \in 1 .. n /\ ~(lead /\ k - r = 1) /\ r + (k - r) = k
        BY <1>1, <2>1
      <3>2. k - r \in B /\ new[k - r].f = r + (k - r)
        BY <2>3, <3>1
      <3> QED
        BY <3>1, <3>2
    <2>6. \A i, j \in B : i < j => new[i].f < new[j].f
      BY <1>1, <2>2
    <2>7. Numbered(new, B, a, r + n)
      BY <2>4, <2>5, <2>6 DEF Numbered
    <2> QED
      BY <2>7 DEF a, B
  <1> QED
    BY <1>4, <1>5, <1>7, <1>8

LEMMA MessagesConcat ==
  ASSUME NEW s \in Seq(Events), NEW new \in Seq(Events), NEW c,
         NEW a \in Nat, NEW b \in Nat, NEW d \in Nat, a <= b, b <= d,
         Numbered(s, Messages(s, c), a, b), Numbered(new, Messages(new, c), b, d)
  PROVE  Numbered(s \o new, Messages(s \o new, c), a, d)
  <1> DEFINE A == Messages(s, c)
             B == Messages(new, c)
             C == Messages(s \o new, c)
  <1>1. /\ A \subseteq C /\ \A j \in B : Len(s) + j \in C
        /\ \A i \in C : i \in A \/ (i \in Int /\ i > Len(s) /\ i - Len(s) \in B)
    BY EventsConcat
  <1>2. A \subseteq DOMAIN s /\ B \subseteq DOMAIN new
    BY DEF Messages
  <1>3. Numbered(s, A, a, b) /\ Numbered(new, B, b, d)
    OBVIOUS
  <1> HIDE DEF A, B, C
  <1>4. Numbered(s \o new, C, a, d)
    BY <1>1, <1>2, <1>3, NumberedConcat
  <1> QED
    BY <1>4 DEF C

LEMMA SplitMore ==
  ASSUME NEW t, NEW w \in Seq(Nat), NEW s \in Seq(Events), NEW new \in Seq(Events), NEW c,
         NEW m \in Nat, NEW r \in Nat, NEW r2 \in Nat, r <= r2,
         Split(t, w, s, c, m, r), Numbered(new, Messages(new, c), r, r2)
  PROVE  Split(t, w, s \o new, c, m, r2)
  <1>1. PICK h \in m .. r : /\ h + Len(w) <= r
                            /\ Numbered(t, MessageNotes(t), m, h)
                            /\ \A i \in DOMAIN w : w[i] = h + i
                            /\ Numbered(s, Messages(s, c), h + Len(w), r)
    BY DEF Split
  <1>2. h + Len(w) \in Nat /\ h \in m .. r2 /\ h + Len(w) <= r2
    BY <1>1
  <1>3. Numbered(s \o new, Messages(s \o new, c), h + Len(w), r2)
    BY <1>1, <1>2, MessagesConcat
  <1> QED
    BY <1>1, <1>2, <1>3 DEF Split

\* The handshake has come: the messages begin behind it.
LEMMA SplitLead ==
  ASSUME NEW s \in Seq(Events), NEW new \in Seq(Events), NEW c, NEW r2 \in Nat, 1 <= r2,
         Split(<<>>, <<>>, s, c, 0, 0), Numbered(new, Messages(new, c), 1, r2)
  PROVE  Split(<<>>, <<>>, s \o new, c, 1, r2)
  <1>0. Len(<<>>) = 0 /\ DOMAIN <<>> = {}
    OBVIOUS
  <1>1. PICK h \in 0 .. 0 : Numbered(s, Messages(s, c), h + Len(<<>>), 0)
    BY DEF Split
  <1>2. h + Len(<<>>) = 0
    BY <1>0
  <1>3. Numbered(s, Messages(s, c), 0, 0)
    BY <1>1, <1>2
  <1>4. Messages(s, c) = {}
    BY <1>3 DEF Numbered
  <1>5. Numbered(s, Messages(s, c), 1, 1)
    BY <1>4, NumberedNone
  <1>6. Numbered(s \o new, Messages(s \o new, c), 1, r2)
    BY <1>5, MessagesConcat
  <1>7. MessageNotes(<<>>) = {}
    BY DEF MessageNotes
  <1>8. Numbered(<<>>, MessageNotes(<<>>), 1, 1)
    BY <1>7, NumberedNone
  <1>9. 1 \in 1 .. r2 /\ 1 + Len(<<>>) = 1
    BY <1>0
  <1> QED
    BY <1>0, <1>6, <1>8, <1>9 DEF Split

\* A read passes on what came, behind what is queued.
LEMMA ReceivedTalk ==
  ASSUME Safe, NEW c \in Conns, c \in connections, Talk(c), NEW new, NEW lead, NEW r,
         new \in Seq(Events), r \in Nat, r = conn[c].rx_frames,
         lead \in BOOLEAN, lead <=> opt.framed /\ opt.hs /\ r = 0 /\ new # <<>>,
         PassedOn(new, lead, c, r),
         events' = events \o new, UNCHANGED <<opt, connections, wrap, peer, told>>,
         conn'[c].rx_frames = r + Len(new), conn'[c].backpressured = conn[c].backpressured,
         \A d, e : svc # EmittingOf(d, e) /\ svc' # EmittingOf(d, e)
  PROVE  Talk(c)'
  <1>1. /\ events \in Seq(Events) /\ opt.hs \in BOOLEAN /\ opt.framed \in BOOLEAN
        /\ conn[c].backpressured \in BOOLEAN /\ wrap[c].pending \in Seq(Nat)
        /\ peer[c] \in {"up", "fin", "rst"}
    BY Kinds
  <1>2. /\ opt' = opt /\ connections' = connections /\ wrap' = wrap /\ peer' = peer /\ told' = told
        /\ c \in connections
    OBVIOUS
  <1>5. new \in Seq(Events)
    OBVIOUS
  <1>6. events' = events \o new
    OBVIOUS
  <1>7. Len(new) \in Nat /\ r \in Nat
    OBVIOUS
  <1>8. conn'[c].rx_frames = r + Len(new) /\ conn'[c].backpressured = conn[c].backpressured
    OBVIOUS
  <1>9. PassedOn(new, lead, c, r)
    OBVIOUS
  <1>10. lead \in BOOLEAN /\ (lead => r = 0 /\ new # <<>>)
    BY <1>1
  <1>12. \A d, e : svc # EmittingOf(d, e) /\ svc' # EmittingOf(d, e)
    OBVIOUS
  <1>11. /\ \A d, e : Queues(new, d, e) => d = c /\ e \in {"connection", "message"}
         /\ Queues(new, c, "connection") <=> lead
         /\ Alone(new, c, "connection") /\ Alone(new, c, "clientClosed")
         /\ lead \/ new = <<>> => \A b : Led(new, c, b)
         /\ Numbered(new, Messages(new, c), IF lead THEN 1 ELSE r, r + Len(new))
    <2>1. r \in Nat /\ new \in Seq(Events)
      BY <1>5, <1>7
    <2>2. \A d, e : Queues(new, d, e) => d = c /\ e \in {"connection", "message"}
      <3>1. \A i \in DOMAIN new : new[i].c = c /\ new[i].e \in {"connection", "message"}
        BY <1>9 DEF PassedOn, Event
      <3> QED
        BY <3>1 DEF Queues
    <2>3. /\ Queues(new, c, "connection") <=> lead
          /\ Alone(new, c, "connection") /\ Alone(new, c, "clientClosed")
      BY <1>9, <1>10, <2>1, ReceivedEvents
    <2>4. lead \/ new = <<>> => \A b : Led(new, c, b)
      BY <1>9, <1>10, <2>1, ReceivedEvents
    <2>5. Numbered(new, Messages(new, c), IF lead THEN 1 ELSE r, r + Len(new))
      BY <1>9, <1>10, <2>1, ReceivedEvents
    <2> QED
      BY <2>2, <2>3, <2>4, <2>5
  <1>13. new # <<>> => Len(new) > 0
    BY <1>5
  <1>14. /\ Announced(c) => Announced(c)'
         /\ ~lead /\ Announced(c)' => Announced(c)
         /\ lead => ~Announced(c) /\ Announced(c)'
         /\ ~lead /\ new # <<>> /\ (opt.hs => opt.framed) => Announced(c)
    <2>1. Announced(c) <=> (opt.hs => opt.framed /\ r > 0)
      BY DEF Announced
    <2>2. Announced(c)' <=> (opt.hs => opt.framed /\ r + Len(new) > 0)
      BY <1>2, <1>8 DEF Announced
    <2>3. new = <<>> => Len(new) = 0
      OBVIOUS
    <2> QED
      BY <1>1, <1>7, <1>13, <2>1, <2>2, <2>3
  <1>15. /\ First(opt.hs, r) \in Nat /\ First(opt.hs, r) <= r
         /\ lead => First(opt.hs, r) = 0 /\ First(opt.hs, r + Len(new)) = 1 /\ 1 <= r + Len(new)
         /\ (opt.hs => opt.framed) /\ ~lead => First(opt.hs, r + Len(new)) = First(opt.hs, r)
    <2>1. new = <<>> => Len(new) = 0
      OBVIOUS
    <2> QED
      BY <1>1, <1>7, <1>13, <2>1 DEF First
  <1>16. /\ \A e : Queues(events', c, e) <=> Queues(events, c, e) \/ Queues(new, c, e)
         /\ \A e : /\ Alone(events, c, e) /\ Alone(new, c, e) /\ ~(Queues(events, c, e) /\ Queues(new, c, e))
                   => Alone(events', c, e)
         /\ \A b1, b2 \in BOOLEAN :
              /\ Drained(events, c, b1) /\ (b1 => b2 \/ Queues(new, c, "drain"))
              /\ (Queues(new, c, "backpressure") => b2)
              => Drained(events', c, b2)
         /\ \A b \in BOOLEAN :
              Led(events, c, b) /\ Led(new, c, b \/ Queues(events, c, "connection")) => Led(events', c, b)
    <2>1. events \in Seq(Events) /\ new \in Seq(Events) /\ events' = events \o new
      BY <1>1, <1>5, <1>6
    <2> DEFINE s2 == events \o new
    <2>2. \A e : Queues(s2, c, e) <=> Queues(events, c, e) \/ Queues(new, c, e)
      BY <2>1, EventsConcat
    <2>3. \A e : /\ Alone(events, c, e) /\ Alone(new, c, e) /\ ~(Queues(events, c, e) /\ Queues(new, c, e))
                 => Alone(s2, c, e)
      BY <2>1, EventsConcat
    <2>4. \A b1, b2 \in BOOLEAN :
               /\ Drained(events, c, b1) /\ (b1 => b2 \/ Queues(new, c, "drain"))
               /\ (Queues(new, c, "backpressure") => b2)
               => Drained(s2, c, b2)
      BY <2>1, EventsConcat
    <2>5. \A b \in BOOLEAN : Led(events, c, b) /\ Led(new, c, b \/ Queues(events, c, "connection"))
                                 => Led(s2, c, b)
      BY <2>1, EventsConcat
    <2> HIDE DEF s2
    <2>6. events' = s2
      BY <2>1 DEF s2
    <2> QED
      BY <2>2, <2>3, <2>4, <2>5, <2>6, Zenon
  <1>17. MirrorInv(c) /\ ToldInv(c) /\ MessageInv(c)
    BY DEF Talk
  <1>18. /\ ~Queues(new, c, "drain") /\ ~Queues(new, c, "backpressure") /\ ~Queues(new, c, "clientClosed")
    <2>1. \A e : Queues(new, c, e) => e \in {"connection", "message"}
      BY <1>11, Zenon
    <2>2. \A e \in {"drain", "backpressure", "clientClosed"} : e \notin {"connection", "message"}
      OBVIOUS
    <2>3. \A e \in {"drain", "backpressure", "clientClosed"} : ~Queues(new, c, e)
      BY <2>1, <2>2, Zenon
    <2> QED
      BY <2>3
  <1>19. lead => ~Queues(events, c, "connection") /\ wrap[c] = NoState /\ told[c] = <<>>
    BY <1>2, <1>14, <1>17 DEF MirrorInv
  <1>20. MirrorInv(c)'
    <2>1. Drained(events', c, conn[c].backpressured)
      <3>1. Drained(events, c, conn[c].backpressured \/ svc = EmittingOf(c, "drain"))
        BY <1>2, <1>17 DEF MirrorInv
      <3>2. (conn[c].backpressured \/ svc = EmittingOf(c, "drain")) = conn[c].backpressured
        BY <1>1, <1>12
      <3> QED
        BY <1>1, <1>16, <1>18, <3>1, <3>2
    <2>2. (conn'[c].backpressured \/ svc' = EmittingOf(c, "drain")) = conn[c].backpressured
      BY <1>1, <1>8, <1>12
    <2>3. peer'[c] # "none" /\ peer'[c] # "gone"
      BY <1>1, <1>2
    <2>4. wrap[c].backpressured => conn[c].backpressured \/ Queues(events', c, "drain")
      BY <1>2, <1>12, <1>16, <1>17 DEF MirrorInv
    <2>5. ~Queues(events', c, "clientClosed")
      BY <1>2, <1>16, <1>17, <1>18 DEF MirrorInv
    <2>6. Announced(c)' => wrap[c].state # "none" \/ Queues(events', c, "connection")
      BY <1>2, <1>11, <1>12, <1>14, <1>16, <1>17 DEF MirrorInv
    <2>7. Queues(events', c, "connection") => Announced(c)' /\ wrap[c] = NoState /\ told[c] = <<>>
      BY <1>2, <1>11, <1>14, <1>16, <1>17, <1>19 DEF MirrorInv
    <2>8. ~Announced(c)' => wrap[c] = NoState /\ told[c] = <<>>
      BY <1>2, <1>14, <1>17 DEF MirrorInv
    <2>9. /\ wrap[c].state = "none" => ~wrap[c].backpressured
          /\ wrap[c].state = "accepted" => wrap[c].pending = <<>>
          /\ wrap[c].verifying => opt.verify
      BY <1>17 DEF MirrorInv
    <2> QED
      BY <1>2, <1>12, <2>1, <2>2, <2>3, <2>4, <2>5, <2>6, <2>7, <2>8, <2>9 DEF MirrorInv
  <1>21. ToldInv(c)'
    <2>1. Alone(events', c, "connection") /\ Alone(events', c, "clientClosed")
      BY <1>11, <1>16, <1>17, <1>18, <1>19 DEF ToldInv
    <2>2. Queues(events', c, "clientClosed") => Queues(events, c, "clientClosed")
      BY <1>16, <1>18
    <2> QED
      BY <1>2, <1>17, <2>1, <2>2 DEF ToldInv
  <1>22. MessageInv(c)'
    <2> SUFFICES ASSUME opt.hs => opt.framed
                 PROVE  /\ Led(events', c, wrap[c].state # "none")
                        /\ Split(told[c], wrap[c].pending, events', c,
                                 First(opt.hs, r + Len(new)), r + Len(new))
      BY <1>2, <1>8 DEF MessageInv
    <2>1. /\ Led(events, c, wrap[c].state # "none")
          /\ Split(told[c], wrap[c].pending, events, c, First(opt.hs, r), r)
      BY <1>2, <1>17 DEF MessageInv
    <2>2. Led(events', c, wrap[c].state # "none")
      <3> DEFINE b == wrap[c].state # "none"
      <3>1. Led(new, c, b \/ Queues(events, c, "connection"))
        <4>1. CASE lead \/ new = <<>>
          BY <1>11, <4>1
        <4>2. CASE ~lead /\ new # <<>>
          <5>1. b \/ Queues(events, c, "connection")
            BY <1>2, <1>12, <1>14, <1>17, <4>2 DEF MirrorInv
          <5> QED
            BY <5>1 DEF Led
        <4> QED
          BY <4>1, <4>2
      <3>2. b \in BOOLEAN /\ Led(events, c, b)
        BY <2>1
      <3> HIDE DEF b
      <3>3. Led(events', c, b)
        BY <1>16, <3>1, <3>2
      <3> QED
        BY <3>3 DEF b
    <2>3. CASE lead
      <3>1. Split(<<>>, <<>>, events, c, 0, 0)
        BY <1>10, <1>15, <1>19, <2>1, <2>3 DEF NoState
      <3>2. Numbered(new, Messages(new, c), 1, r + Len(new)) /\ 1 <= r + Len(new) /\ r + Len(new) \in Nat
        BY <1>7, <1>11, <1>15, <2>3
      <3>3. Split(<<>>, <<>>, events \o new, c, 1, r + Len(new))
        BY <1>1, <1>5, <3>1, <3>2, SplitLead
      <3> QED
        BY <1>6, <1>15, <1>19, <2>2, <2>3, <3>3 DEF NoState
    <2>4. CASE ~lead
      <3> DEFINE m == First(opt.hs, r)
                 r2 == r + Len(new)
      <3>1. Numbered(new, Messages(new, c), r, r2) /\ r <= r2 /\ r2 \in Nat /\ m \in Nat
        BY <1>7, <1>11, <1>15, <2>4
      <3>2. First(opt.hs, r2) = m
        BY <1>15, <2>4
      <3> HIDE DEF m, r2
      <3>3. Split(told[c], wrap[c].pending, events, c, m, r)
        BY <2>1 DEF m
      <3>4. Split(told[c], wrap[c].pending, events \o new, c, m, r2)
        BY <1>1, <1>5, <1>7, <3>1, <3>3, SplitMore
      <3> QED
        BY <1>6, <2>2, <3>2, <3>4 DEF r2
    <2> QED
      BY <2>3, <2>4
  <1> QED
    BY <1>20, <1>21, <1>22 DEF Talk

LEMMA ReadTalk ==
  ASSUME Safe, \A d \in Conns : Talk(d), NEW c \in Conns, Read(c)
  PROVE  \A d \in Conns : Talk(d)'
  <1>1. /\ conn \in [Conns -> Links] /\ events \in Seq(Events) /\ opt.hs \in BOOLEAN /\ opt.framed \in BOOLEAN
        /\ conn[c].rx_frames \in Nat /\ conn[c].backpressured \in BOOLEAN /\ wrap[c].pending \in Seq(Nat)
        /\ sent[c] \in Seq({"hs", "data", "huge"}) /\ conn[c].rx \in Nat
    BY Types, Kinds DEF Safe, Links
  <1>2. /\ UNCHANGED <<opt, connections, wrap, peer, told>> /\ c \in connections /\ svc = Polling
        /\ peer[c] \in {"up", "fin"}
    BY DEF Read, native
  <1>3. PICK n \in 1 .. FrameLen * Len(sent[c]) - conn[c].rx : Receive(c, n)
    BY DEF Read
  <1>4. n \in Nat
    BY <1>1 DEF FrameLen
  <1> DEFINE total == conn[c].rx + n
             r == conn[c].rx_frames
             new == IF conn[c].closing THEN <<>>
                    ELSE IF opt.framed THEN ProcessBufferedFrames(c, total)
                    ELSE <<Event("message", c, conn[c].rx_frames + 1)>>
             lead == opt.framed /\ opt.hs /\ r = 0 /\ new # <<>>
  <1>5. /\ new \in Seq(Events)
        /\ opt.framed => \A i \in DOMAIN new : new[i] = FrameEvent(c, r + i)
        /\ ~opt.framed => \A i \in DOMAIN new : i = 1 /\ new[i] = Event("message", c, r + 1)
    BY <1>4, ReceiveParts
  <1>6. /\ conn' = [conn EXCEPT ![c].writable_scheduled = FALSE, ![c].rx = total,
                                ![c].rx_frames = @ + Len(new)]
        /\ events' = events \o new /\ svc' \in {KillingOf(c), svc}
    BY <1>3 DEF Receive
  <1> HIDE DEF new
  <1>7. Len(new) \in Nat /\ r \in Nat
    BY <1>1, <1>5
  <1>8. /\ conn'[c].rx_frames = r + Len(new) /\ conn'[c].backpressured = conn[c].backpressured
        /\ \A d \in Conns \ {c} : conn'[d] = conn[d]
    BY <1>1, <1>6 DEF Links
  <1>9. PassedOn(new, lead, c, r)
    <2> SUFFICES \A i \in DOMAIN new : new[i] = IF lead /\ i = 1 THEN Event("connection", c, 0)
                                               ELSE Event("message", c, r + i)
      BY DEF PassedOn
    <2> TAKE i \in DOMAIN new
    <2>1. i \in Nat \ {0} /\ new # <<>>
      BY <1>5
    <2>2. r + i = 1 <=> r = 0 /\ i = 1
      BY <1>7, <2>1
    <2>3. CASE opt.framed
      BY <1>5, <2>1, <2>2, <2>3 DEF FrameEvent
    <2>4. CASE ~opt.framed
      BY <1>5, <2>4
    <2> QED
      BY <2>3, <2>4
  <1>10. r = conn[c].rx_frames /\ (lead <=> opt.framed /\ opt.hs /\ r = 0 /\ new # <<>>) /\ lead \in BOOLEAN
    OBVIOUS
  <1> HIDE DEF r, lead
  <1>11. \A d, e : svc # EmittingOf(d, e) /\ svc' # EmittingOf(d, e)
    BY <1>2, <1>6 DEF EmittingOf, Polling, KillingOf
  <1>12. Talk(c)'
    BY <1>2, <1>5, <1>6, <1>7, <1>8, <1>9, <1>10, <1>11, ReceivedTalk
  <1>13. \A d \in Conns \ {c} : Talk(d)'
    <2> TAKE d \in Conns \ {c}
    <2>1. \A i \in DOMAIN new : new[i].c = c
      BY <1>9 DEF Event, PassedOn
    <2>2. \A e : ~Queues(new, d, e)
      BY <2>1 DEF Queues
    <2>3. Same(events, events', d)
      BY <1>1, <1>5, <1>6, <2>2, SameConcat
    <2> QED
      BY <1>2, <1>8, <1>11, <2>3, TalkSame
  <1> QED
    BY <1>12, <1>13

\* The next event runs: it is one of c, of kind e, about frame f.
Runs(s, s2, c, e, f) ==
  /\ \A k : Queues(s, c, k) <=> Queues(s2, c, k) \/ k = e
  /\ \A k : Alone(s, c, k) => Alone(s2, c, k)
  /\ Alone(s, c, e) => ~Queues(s2, c, e)
  /\ \A b \in BOOLEAN : Drained(s, c, b) => Drained(s2, c, b)
  /\ e = "backpressure" => \A b \in BOOLEAN : Drained(s, c, b) => b \/ Queues(s2, c, "drain")
  /\ \A b \in BOOLEAN : Led(s, c, b) => Led(s2, c, b \/ e = "connection")
  /\ e = "message" => \A b \in BOOLEAN : Led(s, c, b) => b
  /\ e = "message" => \A a, b \in Nat : Numbered(s, Messages(s, c), a, b) =>
                        f = a + 1 /\ a + 1 <= b /\ Numbered(s2, Messages(s2, c), a + 1, b)
  /\ e # "message" => \A a, b \in Nat : Numbered(s, Messages(s, c), a, b) => Numbered(s2, Messages(s2, c), a, b)

LEMMA RunsTail ==
  ASSUME NEW s \in Seq(Events), s # <<>>
  PROVE  Runs(s, Tail(s), Head(s).c, Head(s).e, Head(s).f)
  <1> DEFINE x == Head(s)
             t == Tail(s)
             c == x.c
  <1>1. /\ \A e : Queues(s, c, e) <=> Queues(t, c, e) \/ (x.c = c /\ x.e = e)
        /\ \A e : Alone(s, c, e) => Alone(t, c, e) /\ ~(x.c = c /\ x.e = e /\ Queues(t, c, e))
    BY EventsTail
  <1>2. \A b \in BOOLEAN : Drained(s, c, b) =>
                 /\ Drained(t, c, b)
                 /\ x.c = c /\ x.e = "backpressure" => b \/ Queues(t, c, "drain")
    BY EventsTail
  <1>3. \A b \in BOOLEAN : Led(s, c, b) =>
                 /\ Led(t, c, b \/ (x.c = c /\ x.e = "connection"))
                 /\ x.c = c /\ x.e = "message" => b
    BY EventsTail
  <1>4. \A a, b \in Nat : Numbered(s, Messages(s, c), a, b) =>
                 IF x.c = c /\ x.e = "message"
                   THEN x.f = a + 1 /\ a + 1 <= b /\ Numbered(t, Messages(t, c), a + 1, b)
                   ELSE Numbered(t, Messages(t, c), a, b)
    BY EventsTail
  <1>5. \A b \in BOOLEAN : (b \/ (x.c = c /\ x.e = "connection")) = (b \/ x.e = "connection")
    OBVIOUS
  <1>6. x.c = c
    OBVIOUS
  <1> HIDE DEF x, t, c
  <1>7. \A b \in BOOLEAN : Led(s, c, b) => Led(t, c, b \/ x.e = "connection")
    BY <1>3, <1>5
  <1> QED
    BY <1>1, <1>2, <1>3, <1>4, <1>6, <1>7 DEF Runs, c, x, t

LEMMA NotesNumbered ==
  ASSUME NEW t \in Seq(Notes), NEW u \in Seq(Notes),
         NEW a \in Nat, NEW b \in Nat, NEW d \in Nat, a <= b, b <= d,
         Numbered(t, MessageNotes(t), a, b), Numbered(u, MessageNotes(u), b, d)
  PROVE  Numbered(t \o u, MessageNotes(t \o u), a, d)
  <1> DEFINE A == MessageNotes(t)
             B == MessageNotes(u)
             C == MessageNotes(t \o u)
  <1>1. /\ A \subseteq C /\ \A j \in B : Len(t) + j \in C
        /\ \A i \in C : i \in A \/ (i \in Int /\ i > Len(t) /\ i - Len(t) \in B)
    BY NotesConcat
  <1>2. A \subseteq DOMAIN t /\ B \subseteq DOMAIN u
    BY DEF MessageNotes
  <1>3. Numbered(t, A, a, b) /\ Numbered(u, B, b, d)
    OBVIOUS
  <1> HIDE DEF A, B, C
  <1>4. Numbered(t \o u, C, a, d)
    BY <1>1, <1>2, <1>3, NumberedConcat
  <1> QED
    BY <1>4 DEF C

\* One more thing is told.
LEMMA NoteMore ==
  ASSUME NEW t \in Seq(Notes), NEW x \in Notes
  PROVE  LET t2 == Append(t, x)
         IN /\ \A e : Notices(t2, e) <=> Notices(t, e) \/ x.e = e
            /\ \A e : NoticedOnce(t, e) /\ ~(Notices(t, e) /\ x.e = e) => NoticedOnce(t2, e)
            /\ \A e1, e2 : NoticedBefore(t2, e1, e2) => NoticedBefore(t, e1, e2) \/ (Notices(t, e1) /\ x.e = e2)
            /\ x.e # "message" => \A a, b \in Nat : a <= b /\ Numbered(t, MessageNotes(t), a, b)
                                     => Numbered(t2, MessageNotes(t2), a, b)
            /\ x.e = "message" => \A a, b \in Nat : a <= b /\ Numbered(t, MessageNotes(t), a, b) /\ x.f = b + 1
                                     => Numbered(t2, MessageNotes(t2), a, b + 1)
  <1> DEFINE u == <<x>>
             t2 == t \o u
  <1>1. /\ Append(t, x) = t2 /\ u \in Seq(Notes)
        /\ \A e : (Notices(u, e) <=> x.e = e) /\ NoticedOnce(u, e)
        /\ \A e1, e2 : ~NoticedBefore(u, e1, e2)
        /\ MessageNotes(u) = IF x.e = "message" THEN {1} ELSE {}
    BY OneNote
  <1>2. u[1] = x
    OBVIOUS
  <1> HIDE DEF u
  <1>3. /\ \A e : Notices(t2, e) <=> Notices(t, e) \/ Notices(u, e)
        /\ \A e : /\ NoticedOnce(t, e) /\ NoticedOnce(u, e) /\ ~(Notices(t, e) /\ Notices(u, e))
                  => NoticedOnce(t2, e)
        /\ \A e1, e2 : NoticedBefore(t2, e1, e2) =>
             NoticedBefore(t, e1, e2) \/ NoticedBefore(u, e1, e2) \/ (Notices(t, e1) /\ Notices(u, e2))
    BY <1>1, NotesConcat
  <1>4. ASSUME x.e # "message", NEW a \in Nat, NEW b \in Nat, a <= b, Numbered(t, MessageNotes(t), a, b)
        PROVE  Numbered(t2, MessageNotes(t2), a, b)
    <2>1. Numbered(u, MessageNotes(u), b, b) /\ b <= b
      BY <1>1, <1>4, NumberedNone
    <2> QED
      BY <1>1, <1>4, <2>1, NotesNumbered
  <1>5. ASSUME x.e = "message", NEW a \in Nat, NEW b \in Nat, a <= b, Numbered(t, MessageNotes(t), a, b),
               x.f = b + 1
        PROVE  Numbered(t2, MessageNotes(t2), a, b + 1)
    <2>1. Numbered(u, {1}, b, b + 1)
      <3>1. u[1].f = b + 1 /\ b + 1 \in b + 1 .. b + 1
        BY <1>2, <1>5
      <3>2. \A n \in b + 1 .. b + 1 : n = b + 1
        OBVIOUS
      <3>3. ~(1 < 1)
        OBVIOUS
      <3> QED
        BY <3>1, <3>2, <3>3, Zenon DEF Numbered
    <2>2. Numbered(u, MessageNotes(u), b, b + 1) /\ b <= b + 1 /\ b + 1 \in Nat
      BY <1>1, <1>5, <2>1
    <2> QED
      BY <1>1, <1>5, <2>2, NotesNumbered
  <1> HIDE DEF t2
  <1> QED
    BY <1>1, <1>3, <1>4, <1>5

\* An event of a connection that is gone is dropped.
LEMMA DroppedTalk ==
  ASSUME Safe, NEW c \in Conns, Talk(c), NEW e, NEW f, Runs(events, events', c, e, f),
         UNCHANGED <<opt, connections, conn, svc, peer>>, c \notin connections, e # "clientClosed",
         wrap'[c] = wrap[c], told'[c] = told[c]
  PROVE  Talk(c)'
  <1>1. /\ \A k : Queues(events, c, k) <=> Queues(events', c, k) \/ k = e
        /\ \A k : Alone(events, c, k) => Alone(events', c, k)
    BY DEF Runs
  <1>2. MirrorInv(c) /\ ToldInv(c)
    BY DEF Talk
  <1>3. Queues(events, c, e) /\ (Queues(events', c, "clientClosed") <=> Queues(events, c, "clientClosed"))
    BY <1>1
  <1>4. peer[c] # "none"
    BY <1>2, <1>3 DEF MirrorInv
  <1>5. MirrorInv(c)'
    BY <1>2, <1>3, <1>4 DEF MirrorInv
  <1>6. ToldInv(c)'
    BY <1>1, <1>2, <1>3 DEF ToldInv
  <1>7. MessageInv(c)'
    BY DEF MessageInv
  <1> QED
    BY <1>5, <1>6, <1>7 DEF Talk

\* The end of a connection is told once, and the wrapper forgets it.
LEMMA ClosedTalk ==
  ASSUME Safe, NEW c \in Conns, Talk(c), NEW f, Runs(events, events', c, "clientClosed", f),
         UNCHANGED <<opt, connections, conn, svc, peer>>, NEW x \in Notes, x.e = "clientClosed",
         told'[c] = Append(told[c], x),
         wrap'[c].state = "none", wrap'[c].backpressured = FALSE, wrap'[c].verifying = wrap[c].verifying
  PROVE  Talk(c)'
  <1>1. /\ \A k : Queues(events, c, k) <=> Queues(events', c, k) \/ k = "clientClosed"
        /\ \A k : Alone(events, c, k) => Alone(events', c, k)
        /\ Alone(events, c, "clientClosed") => ~Queues(events', c, "clientClosed")
    BY DEF Runs
  <1>2. MirrorInv(c) /\ ToldInv(c)
    BY DEF Talk
  <1>3. Queues(events, c, "clientClosed")
    BY <1>1
  <1>4. peer[c] # "none" /\ c \notin connections /\ ~Notices(told[c], "clientClosed")
    BY <1>2, <1>3 DEF MirrorInv, ToldInv
  <1>5. Alone(events', c, "connection") /\ Alone(events', c, "clientClosed") /\ ~Queues(events', c, "clientClosed")
    BY <1>1, <1>2 DEF ToldInv
  <1>6. told[c] \in Seq(Notes)
    BY Kinds
  <1>7. /\ \A e : Notices(told'[c], e) <=> Notices(told[c], e) \/ e = "clientClosed"
        /\ \A e : NoticedOnce(told[c], e) /\ ~(Notices(told[c], e) /\ e = "clientClosed") => NoticedOnce(told'[c], e)
        /\ \A e1, e2 : NoticedBefore(told'[c], e1, e2) =>
                         NoticedBefore(told[c], e1, e2) \/ (Notices(told[c], e1) /\ e2 = "clientClosed")
    BY <1>6, NoteMore
  <1>8. MirrorInv(c)'
    BY <1>2, <1>4 DEF MirrorInv
  <1>9. ToldInv(c)'
    <2>1. NoticedOnce(told'[c], "connection") /\ NoticedOnce(told'[c], "clientClosed")
      BY <1>2, <1>4, <1>7 DEF ToldInv
    <2>2. /\ ~NoticedBefore(told'[c], "message", "connection")
          /\ ~opt.verify => ~NoticedBefore(told'[c], "clientClosed", "connection")
                            /\ ~NoticedBefore(told'[c], "clientClosed", "message")
      BY <1>2, <1>7 DEF ToldInv
    <2>3. \A e \in {"connection", "message"} : Notices(told'[c], e) <=> Notices(told[c], e)
      BY <1>7
    <2> QED
      BY <1>2, <1>4, <1>5, <2>1, <2>2, <2>3 DEF ToldInv
  <1>10. MessageInv(c)'
    BY <1>4 DEF MessageInv
  <1> QED
    BY <1>8, <1>9, <1>10 DEF Talk

\* Backpressure and drain reach the wrapper in the order they were queued.
LEMMA FlowTalk ==
  ASSUME Safe, NEW c \in Conns, Talk(c), NEW e, NEW f, Runs(events, events', c, e, f), e \in Flow,
         UNCHANGED <<opt, connections, conn, svc, peer>>, c \in connections,
         told'[c] = told[c], wrap[c].state = "none" => wrap'[c] = wrap[c],
         wrap[c].state # "none" => wrap'[c].backpressured = (e = "backpressure"),
         wrap'[c].state = wrap[c].state, wrap'[c].pending = wrap[c].pending,
         wrap'[c].verifying = wrap[c].verifying
  PROVE  Talk(c)'
  <1>0. e \in {"backpressure", "drain"}
    BY DEF Flow
  <1>1. /\ \A k : Queues(events, c, k) <=> Queues(events', c, k) \/ k = e
        /\ \A k : Alone(events, c, k) => Alone(events', c, k)
        /\ \A b \in BOOLEAN : Drained(events, c, b) => Drained(events', c, b)
        /\ e = "backpressure" => \A b \in BOOLEAN : Drained(events, c, b) => b \/ Queues(events', c, "drain")
    BY DEF Runs
  <1>2. /\ \A b \in BOOLEAN : Led(events, c, b) => Led(events', c, b \/ e = "connection")
        /\ \A a, b \in Nat : Numbered(events, Messages(events, c), a, b) => Numbered(events', Messages(events', c), a, b)
    BY <1>0 DEF Runs
  <1>3. /\ conn[c].rx_frames \in Nat /\ conn[c].backpressured \in BOOLEAN
        /\ wrap[c].pending \in Seq(Nat) /\ First(opt.hs, conn[c].rx_frames) \in Nat
        /\ peer[c] \in {"up", "fin", "rst"}
    BY Kinds
  <1>4. MirrorInv(c) /\ ToldInv(c) /\ MessageInv(c)
    BY DEF Talk
  <1>5. \A k \in {"connection", "clientClosed"} : Queues(events', c, k) <=> Queues(events, c, k)
    BY <1>0, <1>1
  <1>6. MirrorInv(c)'
    <2> DEFINE b == conn[c].backpressured \/ svc = EmittingOf(c, "drain")
    <2>1. b \in BOOLEAN /\ Drained(events, c, b)
      BY <1>3, <1>4 DEF MirrorInv
    <2>2. (conn'[c].backpressured \/ svc' = EmittingOf(c, "drain")) = b
      OBVIOUS
    <2> HIDE DEF b
    <2>3. Drained(events', c, b) /\ (e = "backpressure" => b \/ Queues(events', c, "drain"))
      BY <1>1, <2>1
    <2>4. wrap'[c].backpressured => wrap[c].state # "none" /\ e = "backpressure"
      BY <1>4 DEF MirrorInv
    <2>5. Announced(c)' <=> Announced(c)
      BY DEF Announced
    <2>6. NoState.state = "none"
      BY DEF NoState
    <2>7. peer'[c] # "none" /\ peer'[c] # "gone"
      BY <1>3
    <2> QED
      BY <1>4, <1>5, <2>2, <2>3, <2>4, <2>5, <2>6, <2>7 DEF MirrorInv
  <1>7. ToldInv(c)'
    BY <1>1, <1>4, <1>5 DEF ToldInv
  <1>8. MessageInv(c)'
    <2> SUFFICES ASSUME opt.hs => opt.framed
                 PROVE  /\ Led(events', c, wrap[c].state # "none")
                        /\ Split(told[c], wrap[c].pending, events', c,
                                 First(opt.hs, conn[c].rx_frames), conn[c].rx_frames)
      BY DEF MessageInv
    <2>1. /\ Led(events, c, wrap[c].state # "none")
          /\ Split(told[c], wrap[c].pending, events, c,
                   First(opt.hs, conn[c].rx_frames), conn[c].rx_frames)
      BY <1>4 DEF MessageInv
    <2>2. Led(events', c, wrap[c].state # "none")
      <3>1. (wrap[c].state # "none" \/ e = "connection") = (wrap[c].state # "none")
        BY <1>0
      <3>2. Led(events', c, wrap[c].state # "none" \/ e = "connection")
        BY <1>2, <2>1
      <3> QED
        BY <3>1, <3>2
    <2>3. Split(told[c], wrap[c].pending, events', c,
                First(opt.hs, conn[c].rx_frames), conn[c].rx_frames)
      BY <1>2, <1>3, <2>1, SplitSame
    <2> QED
      BY <2>2, <2>3
  <1> QED
    BY <1>6, <1>7, <1>8 DEF Talk

\* A connection is announced: to the application, or to its verifier.
LEMMA AnnouncedTalk ==
  ASSUME Safe, NEW c \in Conns, Talk(c), NEW f, Runs(events, events', c, "connection", f),
         UNCHANGED <<opt, connections, conn, svc, peer>>, c \in connections,
         NEW x \in Notes, x.e = "connection",
         told'[c] = IF opt.verify THEN told[c] ELSE Append(told[c], x),
         wrap'[c].state = IF opt.verify THEN "pending" ELSE "accepted",
         wrap'[c].backpressured = FALSE, wrap'[c].pending = <<>>, wrap'[c].verifying = opt.verify
  PROVE  Talk(c)'
  <1>1. /\ \A k : Queues(events, c, k) <=> Queues(events', c, k) \/ k = "connection"
        /\ \A k : Alone(events, c, k) => Alone(events', c, k)
        /\ Alone(events, c, "connection") => ~Queues(events', c, "connection")
        /\ \A b \in BOOLEAN : Drained(events, c, b) => Drained(events', c, b)
    BY DEF Runs
  <1>2. \A a, b \in Nat : Numbered(events, Messages(events, c), a, b) => Numbered(events', Messages(events', c), a, b)
    BY DEF Runs
  <1>3. /\ conn[c].rx_frames \in Nat /\ conn[c].backpressured \in BOOLEAN /\ told[c] \in Seq(Notes)
        /\ First(opt.hs, conn[c].rx_frames) \in Nat /\ opt.verify \in BOOLEAN
        /\ First(opt.hs, conn[c].rx_frames) <= conn[c].rx_frames /\ peer[c] \in {"up", "fin", "rst"}
    BY Kinds
  <1>4. MirrorInv(c) /\ ToldInv(c) /\ MessageInv(c)
    BY DEF Talk
  <1>5. Queues(events, c, "connection")
    BY <1>1
  <1>6. /\ Announced(c) /\ wrap[c] = NoState /\ told[c] = <<>> /\ svc # EmittingOf(c, "connection")
        /\ ~Queues(events, c, "clientClosed")
    BY <1>4, <1>5 DEF MirrorInv
  <1>7. ~Queues(events', c, "clientClosed") /\ ~Queues(events', c, "connection")
    BY <1>1, <1>4, <1>6 DEF ToldInv
  <1>8. MirrorInv(c)'
    <2>1. Announced(c)'
      BY <1>6 DEF Announced
    <2>2. Drained(events', c, conn[c].backpressured \/ svc = EmittingOf(c, "drain"))
      BY <1>1, <1>3, <1>4 DEF MirrorInv
    <2>3. peer'[c] # "none" /\ peer'[c] # "gone"
      BY <1>3
    <2>4. wrap'[c].state # "none"
      OBVIOUS
    <2> QED
      BY <1>3, <1>6, <1>7, <2>1, <2>2, <2>3, <2>4 DEF MirrorInv
  <1>9. ToldInv(c)'
    <2>1. Alone(events', c, "connection") /\ Alone(events', c, "clientClosed")
      BY <1>1, <1>4 DEF ToldInv
    <2>2. \A e : ~Notices(<<>>, e)
      BY DEF Notices
    <2>3. CASE opt.verify
      <3>1. told'[c] = told[c] /\ wrap'[c].state = "pending"
        BY <2>3
      <3> QED
        BY <1>4, <1>6, <2>1, <2>2, <3>1 DEF ToldInv
    <2>4. CASE ~opt.verify
      <3>1. told'[c] = Append(told[c], x) /\ ~wrap'[c].verifying
        BY <1>3, <2>4
      <3>2. /\ \A e : Notices(told'[c], e) <=> Notices(told[c], e) \/ e = "connection"
            /\ \A e : NoticedOnce(told[c], e) /\ ~(Notices(told[c], e) /\ e = "connection") => NoticedOnce(told'[c], e)
            /\ \A e1, e2 : NoticedBefore(told'[c], e1, e2) =>
                             NoticedBefore(told[c], e1, e2) \/ (Notices(told[c], e1) /\ e2 = "connection")
        BY <1>3, <3>1, NoteMore
      <3>3. \A e : ~Notices(told[c], e)
        BY <1>6, <2>2
      <3>4. NoticedOnce(told'[c], "connection") /\ NoticedOnce(told'[c], "clientClosed")
        BY <1>4, <3>2, <3>3 DEF ToldInv
      <3>5. /\ ~NoticedBefore(told'[c], "message", "connection")
            /\ ~NoticedBefore(told'[c], "clientClosed", "connection")
            /\ ~NoticedBefore(told'[c], "clientClosed", "message")
        BY <1>4, <2>4, <3>2, <3>3 DEF ToldInv
      <3>6. Notices(told'[c], "connection") /\ ~Notices(told'[c], "clientClosed")
        BY <3>2, <3>3
      <3> QED
        BY <2>1, <3>1, <3>4, <3>5, <3>6 DEF ToldInv
    <2> QED
      BY <2>3, <2>4
  <1>10. MessageInv(c)'
    <2> DEFINE r == conn[c].rx_frames
               m == First(opt.hs, r)
    <2> SUFFICES ASSUME opt.hs => opt.framed
                 PROVE  /\ Led(events', c, wrap'[c].state # "none")
                        /\ Split(told'[c], <<>>, events', c, m, r)
      BY DEF MessageInv
    <2>1. Split(told[c], <<>>, events, c, m, r)
      BY <1>4, <1>6 DEF MessageInv, NoState
    <2>2. Led(events', c, wrap'[c].state # "none")
      <3>1. (wrap'[c].state # "none") = TRUE
        OBVIOUS
      <3> QED
        BY <3>1 DEF Led
    <2>3. m \in Nat /\ r \in Nat
      BY <1>3
    <2>4. told'[c] = told[c] \/ (told'[c] = Append(told[c], x) /\ told[c] \in Seq(Notes))
      BY <1>3
    <2> HIDE DEF m, r
    <2>5. PICK h \in m .. r : /\ h + Len(<<>>) <= r
                              /\ Numbered(told[c], MessageNotes(told[c]), m, h)
                              /\ Numbered(events, Messages(events, c), h + Len(<<>>), r)
      BY <2>1 DEF Split
    <2>6. h \in Nat /\ m <= h /\ h + Len(<<>>) \in Nat
      BY <2>3
    <2>7. Numbered(told'[c], MessageNotes(told'[c]), m, h)
      BY <2>3, <2>4, <2>5, <2>6, NoteMore
    <2>8. Numbered(events', Messages(events', c), h + Len(<<>>), r)
      BY <1>2, <2>3, <2>5, <2>6
    <2>9. DOMAIN <<>> = {}
      OBVIOUS
    <2>10. Split(told'[c], <<>>, events', c, m, r)
      BY <2>5, <2>7, <2>8, <2>9 DEF Split
    <2> QED
      BY <2>2, <2>10
  <1> QED
    BY <1>8, <1>9, <1>10 DEF Talk

\* A message goes to the application, or waits for the verifier behind those
\* that came before it.
LEMMA MessageTalk ==
  ASSUME Safe, NEW c \in Conns, Talk(c), NEW f \in Nat, Runs(events, events', c, "message", f),
         UNCHANGED <<opt, connections, conn, svc, peer>>, c \in connections,
         NEW x \in Notes, x.e = "message", x.f = f,
         told'[c] = IF wrap[c].state = "accepted" THEN Append(told[c], x) ELSE told[c],
         wrap[c].state # "pending" => wrap'[c] = wrap[c],
         wrap[c].state = "pending" => wrap'[c].pending = Append(wrap[c].pending, f),
         wrap'[c].state = wrap[c].state, wrap'[c].backpressured = wrap[c].backpressured,
         wrap'[c].verifying = wrap[c].verifying
  PROVE  Talk(c)'
  <1>1. /\ \A k : Queues(events, c, k) <=> Queues(events', c, k) \/ k = "message"
        /\ \A k : Alone(events, c, k) => Alone(events', c, k)
        /\ \A b \in BOOLEAN : Drained(events, c, b) => Drained(events', c, b)
        /\ \A b \in BOOLEAN : Led(events, c, b) => b
    BY DEF Runs
  <1>2. \A a, b \in Nat : Numbered(events, Messages(events, c), a, b) =>
                            f = a + 1 /\ a + 1 <= b /\ Numbered(events', Messages(events', c), a + 1, b)
    BY DEF Runs
  <1>3. /\ conn[c].rx_frames \in Nat /\ conn[c].backpressured \in BOOLEAN /\ told[c] \in Seq(Notes)
        /\ First(opt.hs, conn[c].rx_frames) \in Nat /\ wrap[c].pending \in Seq(Nat)
        /\ First(opt.hs, conn[c].rx_frames) <= conn[c].rx_frames /\ peer[c] \in {"up", "fin", "rst"}
        /\ wrap[c].state \in {"none", "pending", "accepted"}
    BY Kinds DEF Mirrors
  <1>4. MirrorInv(c) /\ ToldInv(c) /\ MessageInv(c)
    BY DEF Talk
  <1>5. \A k \in {"connection", "clientClosed", "drain"} : Queues(events', c, k) <=> Queues(events, c, k)
    BY <1>1
  <1>6. NoState.state = "none"
    BY DEF NoState
  <1>7. MirrorInv(c)'
    <2>1. Announced(c)' <=> Announced(c)
      BY DEF Announced
    <2>2. Drained(events', c, conn[c].backpressured \/ svc = EmittingOf(c, "drain"))
      BY <1>1, <1>3, <1>4 DEF MirrorInv
    <2>3. peer'[c] # "none" /\ peer'[c] # "gone"
      BY <1>3
    <2>4. wrap[c] = NoState => wrap'[c] = wrap[c] /\ told'[c] = told[c]
      BY <1>6
    <2>5. wrap'[c].state = "accepted" => wrap'[c].pending = <<>>
      BY <1>4 DEF MirrorInv
    <2> QED
      BY <1>4, <1>5, <2>1, <2>2, <2>3, <2>4, <2>5 DEF MirrorInv
  <1>8. ToldInv(c)'
    <2>1. Alone(events', c, "connection") /\ Alone(events', c, "clientClosed")
      BY <1>1, <1>4 DEF ToldInv
    <2>2. CASE wrap[c].state # "accepted"
      <3>1. told'[c] = told[c]
        BY <2>2
      <3> QED
        BY <1>4, <1>5, <2>1, <3>1 DEF ToldInv
    <2>3. CASE wrap[c].state = "accepted"
      <3>1. told'[c] = Append(told[c], x)
        BY <2>3
      <3>2. /\ \A e : Notices(told'[c], e) <=> Notices(told[c], e) \/ e = "message"
            /\ \A e : NoticedOnce(told[c], e) /\ ~(Notices(told[c], e) /\ e = "message") => NoticedOnce(told'[c], e)
            /\ \A e1, e2 : NoticedBefore(told'[c], e1, e2) =>
                             NoticedBefore(told[c], e1, e2) \/ (Notices(told[c], e1) /\ e2 = "message")
        BY <1>3, <3>1, NoteMore
      <3>3. Notices(told[c], "connection") /\ ~Notices(told[c], "clientClosed")
        BY <1>4, <2>3 DEF ToldInv
      <3>4. NoticedOnce(told'[c], "connection") /\ NoticedOnce(told'[c], "clientClosed")
        BY <1>4, <3>2 DEF ToldInv
      <3>5. /\ ~NoticedBefore(told'[c], "message", "connection")
            /\ ~opt.verify => ~NoticedBefore(told'[c], "clientClosed", "connection")
                              /\ ~NoticedBefore(told'[c], "clientClosed", "message")
        BY <1>4, <3>2, <3>3 DEF ToldInv
      <3>6. Notices(told'[c], "connection") /\ ~Notices(told'[c], "clientClosed")
        BY <3>2, <3>3
      <3>7. ~wrap'[c].verifying
        BY <1>4, <3>3 DEF ToldInv
      <3> QED
        BY <2>1, <3>4, <3>5, <3>6, <3>7 DEF ToldInv
    <2> QED
      BY <2>2, <2>3
  <1>9. MessageInv(c)'
    <2> DEFINE r == conn[c].rx_frames
               m == First(opt.hs, r)
               p == wrap[c].pending
    <2> SUFFICES ASSUME opt.hs => opt.framed
                 PROVE  /\ Led(events', c, wrap[c].state # "none")
                        /\ Split(told'[c], wrap'[c].pending, events', c, m, r)
      BY DEF MessageInv
    <2>1. Led(events, c, wrap[c].state # "none") /\ Split(told[c], p, events, c, m, r)
      BY <1>4 DEF MessageInv
    <2>2. wrap[c].state # "none"
      BY <1>1, <2>1
    <2>3. Led(events', c, wrap[c].state # "none")
      BY <2>2 DEF Led
    <2>4. m \in Nat /\ r \in Nat /\ p \in Seq(Nat)
      BY <1>3
    <2>5. \/ wrap[c].state = "accepted" /\ p = <<>> /\ wrap'[c].pending = <<>> /\ told'[c] = Append(told[c], x)
          \/ wrap[c].state = "pending" /\ wrap'[c].pending = Append(p, f) /\ told'[c] = told[c]
      BY <1>3, <1>4, <2>2 DEF MirrorInv
    <2> HIDE DEF m, r, p
    <2>6. PICK h \in m .. r : /\ h + Len(p) <= r
                              /\ Numbered(told[c], MessageNotes(told[c]), m, h)
                              /\ \A i \in DOMAIN p : p[i] = h + i
                              /\ Numbered(events, Messages(events, c), h + Len(p), r)
      BY <2>1 DEF Split
    <2>7. h \in Nat /\ m <= h /\ h + Len(p) \in Nat /\ Len(p) \in Nat
      BY <2>4
    <2>8. /\ f = h + Len(p) + 1 /\ h + Len(p) + 1 <= r
          /\ Numbered(events', Messages(events', c), h + Len(p) + 1, r)
      BY <1>2, <2>4, <2>6, <2>7
    <2>9. CASE wrap[c].state = "accepted"
      <3>1. p = <<>> /\ wrap'[c].pending = <<>> /\ told'[c] = Append(told[c], x) /\ Len(<<>>) = 0 /\ DOMAIN <<>> = {}
        BY <2>5, <2>9
      <3>2. f = h + 1 /\ h + 1 \in m .. r /\ (h + 1) + Len(<<>>) = h + 1 /\ h + Len(p) + 1 = h + 1
        BY <2>4, <2>7, <2>8, <3>1
      <3>3. Numbered(told'[c], MessageNotes(told'[c]), m, h + 1)
        BY <1>3, <2>4, <2>6, <2>7, <3>1, <3>2, NoteMore
      <3>4. Numbered(events', Messages(events', c), (h + 1) + Len(<<>>), r)
        BY <2>8, <3>2
      <3>5. (h + 1) + Len(<<>>) <= r
        BY <2>8, <3>2
      <3>6. Split(told'[c], <<>>, events', c, m, r)
        BY <3>1, <3>2, <3>3, <3>4, <3>5 DEF Split
      <3> QED
        BY <2>3, <3>1, <3>6
    <2>10. CASE wrap[c].state = "pending"
      <3> DEFINE q == Append(p, f)
      <3>1. wrap'[c].pending = q /\ told'[c] = told[c]
        BY <2>5, <2>10
      <3>2. /\ Len(q) = Len(p) + 1 /\ DOMAIN q = 1 .. Len(p) + 1 /\ DOMAIN p = 1 .. Len(p)
            /\ q[Len(p) + 1] = f /\ \A i \in 1 .. Len(p) : q[i] = p[i]
        BY <2>4
      <3> HIDE DEF q
      <3>3. \A i \in DOMAIN q : q[i] = h + i
        <4> TAKE i \in DOMAIN q
        <4>1. CASE i \in 1 .. Len(p)
          BY <2>6, <3>2, <4>1
        <4>2. CASE i = Len(p) + 1
          BY <2>7, <2>8, <3>2, <4>2
        <4> QED
          BY <2>7, <3>2, <4>1, <4>2
      <3>4. h + Len(q) = h + Len(p) + 1
        BY <2>7, <3>2
      <3>5. h + Len(q) <= r /\ Numbered(events', Messages(events', c), h + Len(q), r)
        BY <2>8, <3>4
      <3>6. Split(told'[c], q, events', c, m, r)
        BY <2>6, <3>1, <3>3, <3>5 DEF Split
      <3> QED
        BY <2>3, <3>1, <3>6
    <2> QED
      BY <2>5, <2>9, <2>10
  <1> QED
    BY <1>7, <1>8, <1>9 DEF Talk

LEMMA DeliverTalk ==
  ASSUME Safe, \A d \in Conns : Talk(d), NEW again, Deliver(again)
  PROVE  \A d \in Conns : Talk(d)'
  <1>1. /\ events \in Seq(Events) /\ events # <<>> /\ wrap \in [Conns -> Mirrors]
        /\ told \in [Conns -> Seq(Notes)]
    BY Types DEF Safe, Deliver
  <1>2. PICK x \in Events : x = Head(events)
    BY <1>1
  <1>3. PICK c \in Conns : c = x.c
    BY DEF Events
  <1> DEFINE live == x.e \notin Locked \/ c \in connections
             heard == live /\ Heard(x)
             w2 == IF live THEN Routed(x) ELSE wrap[c]
             t2 == IF heard /\ x.e \notin Flow THEN Append(told[c], Told(x.e, x.f)) ELSE told[c]
  <1>4. /\ UNCHANGED <<opt, connections, conn, svc, peer>> /\ events' = Tail(events)
        /\ wrap' = [wrap EXCEPT ![c] = w2] /\ told' = [told EXCEPT ![c] = t2]
    <2>1. wrap' = [wrap EXCEPT ![c] = IF live THEN Routed(x) ELSE @]
      BY <1>2, <1>3 DEF Deliver
    <2>2. told' = [told EXCEPT ![c] = IF heard /\ x.e \notin Flow THEN Append(@, Told(x.e, x.f)) ELSE @]
      BY <1>2, <1>3 DEF Deliver
    <2>3. UNCHANGED <<opt, connections, conn, svc, peer>> /\ events' = Tail(events)
      BY DEF Deliver, native
    <2>4. wrap' = [wrap EXCEPT ![c] = w2]
      BY <1>1, <2>1
    <2>5. told' = [told EXCEPT ![c] = t2]
      BY <1>1, <2>2
    <2> QED
      BY <2>3, <2>4, <2>5
  <1>5. /\ wrap'[c] = w2 /\ told'[c] = t2
        /\ \A d \in Conns \ {c} : wrap'[d] = wrap[d] /\ told'[d] = told[d]
    <2> HIDE DEF w2, t2
    <2> QED
      BY <1>1, <1>4
  <1>6. Runs(events, events', c, x.e, x.f)
    BY <1>1, <1>2, <1>3, <1>4, RunsTail
  <1>7. /\ x.f \in Nat /\ wrap[c] \in Mirrors /\ opt.verify \in BOOLEAN
        /\ x.e \in {"connection", "message", "backpressure", "drain", "clientClosed"}
    BY <1>1, Kinds DEF Events, Locked
  <1> DEFINE note == Told(x.e, x.f)
  <1>8. note.e = x.e /\ note.f = x.f
    BY DEF Told
  <1>9. x.e \in {"connection", "message", "clientClosed"} => note \in Notes
    BY <1>7 DEF Notes, Told
  <1> HIDE DEF note
  <1>10. ASSUME x.e \in Locked, c \notin connections PROVE Talk(c)'
    <2>1. w2 = wrap[c] /\ t2 = told[c] /\ x.e # "clientClosed"
      BY <1>10 DEF Locked
    <2> HIDE DEF w2, t2
    <2> QED
      BY <1>4, <1>5, <1>6, <1>10, <2>1, DroppedTalk
  <1>11. ASSUME x.e = "clientClosed" PROVE Talk(c)'
    <2>1. t2 = Append(told[c], note)
      BY <1>11 DEF Heard, Locked, Flow, note
    <2>2. w2 = [wrap[c] EXCEPT !.state = "none", !.backpressured = FALSE]
      BY <1>3, <1>11 DEF Routed, Locked, Flow
    <2>3. w2.state = "none" /\ w2.backpressured = FALSE /\ w2.verifying = wrap[c].verifying
      BY <1>7, <2>2 DEF Mirrors
    <2> HIDE DEF w2, t2
    <2>4. Runs(events, events', c, "clientClosed", x.f) /\ note \in Notes /\ note.e = "clientClosed"
      BY <1>6, <1>8, <1>9, <1>11
    <2> QED
      BY <1>4, <1>5, <2>1, <2>3, <2>4, ClosedTalk
  <1>12. ASSUME x.e = "connection", c \in connections PROVE Talk(c)'
    <2>1. t2 = IF opt.verify THEN told[c] ELSE Append(told[c], note)
      BY <1>12 DEF Heard, Flow, note
    <2>2. w2 = [state |-> IF opt.verify THEN "pending" ELSE "accepted",
                backpressured |-> FALSE, pending |-> <<>>, verifying |-> opt.verify]
      BY <1>12 DEF Routed, NoState, Flow
    <2>3. /\ w2.state = IF opt.verify THEN "pending" ELSE "accepted"
          /\ w2.backpressured = FALSE /\ w2.pending = <<>> /\ w2.verifying = opt.verify
      BY <2>2
    <2> HIDE DEF w2, t2
    <2>4. Runs(events, events', c, "connection", x.f) /\ note \in Notes /\ note.e = "connection"
      BY <1>6, <1>8, <1>9, <1>12
    <2> QED
      BY <1>4, <1>5, <1>12, <2>1, <2>3, <2>4, AnnouncedTalk, ZenonT(60)
  <1>13. ASSUME x.e = "message", c \in connections PROVE Talk(c)'
    <2>1. t2 = IF wrap[c].state = "accepted" THEN Append(told[c], note) ELSE told[c]
      BY <1>3, <1>13 DEF Heard, Flow, note
    <2>2. w2 = IF wrap[c].state = "pending" THEN [wrap[c] EXCEPT !.pending = Append(@, x.f)] ELSE wrap[c]
      BY <1>3, <1>13 DEF Routed, Flow
    <2>3. /\ wrap[c].state # "pending" => w2 = wrap[c]
          /\ wrap[c].state = "pending" => w2.pending = Append(wrap[c].pending, x.f)
          /\ w2.state = wrap[c].state /\ w2.backpressured = wrap[c].backpressured
          /\ w2.verifying = wrap[c].verifying
      BY <1>7, <2>2 DEF Mirrors
    <2> HIDE DEF w2, t2
    <2>4. Runs(events, events', c, "message", x.f) /\ note \in Notes /\ note.e = "message" /\ note.f = x.f
      BY <1>6, <1>8, <1>9, <1>13
    <2> QED
      BY <1>4, <1>5, <1>7, <1>13, <2>1, <2>3, <2>4, MessageTalk
  <1>14. ASSUME x.e \in Flow, c \in connections PROVE Talk(c)'
    <2>1. t2 = told[c]
      BY <1>14
    <2>2. w2 = IF wrap[c].state = "none" THEN wrap[c]
               ELSE [wrap[c] EXCEPT !.backpressured = (x.e = "backpressure")]
      BY <1>3, <1>14 DEF Routed, Flow
    <2>3. /\ wrap[c].state = "none" => w2 = wrap[c]
          /\ wrap[c].state # "none" => w2.backpressured = (x.e = "backpressure")
          /\ w2.state = wrap[c].state /\ w2.pending = wrap[c].pending /\ w2.verifying = wrap[c].verifying
      BY <1>7, <2>2 DEF Mirrors
    <2> HIDE DEF w2, t2
    <2> QED
      BY <1>4, <1>5, <1>6, <1>14, <2>1, <2>3, FlowTalk
  <1>15. Talk(c)'
    BY <1>7, <1>10, <1>11, <1>12, <1>13, <1>14 DEF Locked, Flow
  <1>16. \A d \in Conns \ {c} : Talk(d)'
    <2> TAKE d \in Conns \ {c}
    <2>1. Same(events, events', d)
      BY <1>1, <1>2, <1>3, <1>4, SameTail
    <2> QED
      BY <1>4, <1>5, <2>1, TalkSame
  <1> QED
    BY <1>15, <1>16

\* A verifier says yes: the connection is told, then all that waited for it.
LEMMA AcceptTalk ==
  ASSUME Safe, \A d \in Conns : Talk(d), NEW c \in Conns, Accept(c)
  PROVE  \A d \in Conns : Talk(d)'
  <1>1. wrap \in [Conns -> Mirrors] /\ told \in [Conns -> Seq(Notes)]
    BY Types DEF Safe
  <1>2. /\ wrap[c] \in Mirrors /\ told[c] \in Seq(Notes) /\ wrap[c].pending \in Seq(Nat)
        /\ First(opt.hs, conn[c].rx_frames) \in Nat /\ conn[c].rx_frames \in Nat
    BY Kinds
  <1> DEFINE p == wrap[c].pending
             x == Told("connection", 0)
             u == [i \in DOMAIN p |-> Told("message", p[i])]
             t1 == Append(told[c], x)
             t2 == t1 \o u
             w2 == [wrap[c] EXCEPT !.verifying = FALSE, !.pending = <<>>,
                                   !.state = IF @ = "pending" THEN "accepted" ELSE @]
  <1>3. /\ UNCHANGED <<opt, connections, conn, svc, events, peer>> /\ wrap[c].verifying
        /\ wrap' = [wrap EXCEPT ![c] = w2] /\ told' = [told EXCEPT ![c] = t2]
    <2>1. UNCHANGED <<opt, connections, conn, svc, events, peer>> /\ wrap[c].verifying
      BY DEF Accept, native
    <2>2. wrap' = [wrap EXCEPT ![c] = w2]
      BY <1>1 DEF Accept
    <2>3. told' = [told EXCEPT ![c] = t2]
      BY <1>1 DEF Accept
    <2> QED
      BY <2>1, <2>2, <2>3
  <1>4. /\ w2.state = IF wrap[c].state = "pending" THEN "accepted" ELSE wrap[c].state
        /\ w2.pending = <<>> /\ w2.verifying = FALSE /\ w2.backpressured = wrap[c].backpressured
    BY <1>2 DEF Mirrors
  <1>5. x \in Notes /\ x.e = "connection"
    BY DEF Notes, Told
  <1>6. /\ u \in Seq(Notes) /\ Len(u) = Len(p) /\ DOMAIN u = 1 .. Len(p) /\ DOMAIN p = 1 .. Len(p)
        /\ Len(p) \in Nat /\ \A i \in 1 .. Len(p) : u[i].e = "message" /\ u[i].f = p[i]
    <2>1. Len(p) \in Nat /\ DOMAIN p = 1 .. Len(p) /\ \A i \in 1 .. Len(p) : p[i] \in Nat
      BY <1>2
    <2>2. \A i \in 1 .. Len(p) : Told("message", p[i]) \in Notes
      BY <2>1 DEF Notes, Told
    <2>3. u \in [1 .. Len(p) -> Notes]
      BY <2>1, <2>2
    <2>4. u \in Seq(Notes) /\ Len(u) = Len(p) /\ DOMAIN u = 1 .. Len(p)
      BY <2>1, <2>3
    <2>5. \A i \in 1 .. Len(p) : u[i].e = "message" /\ u[i].f = p[i]
      BY <2>1 DEF Told
    <2> QED
      BY <2>1, <2>4, <2>5
  <1> HIDE DEF x, u, w2
  <1>7. t1 \in Seq(Notes) /\ t2 \in Seq(Notes)
    BY <1>2, <1>5, <1>6
  <1>8. /\ \A e : Notices(t1, e) <=> Notices(told[c], e) \/ e = "connection"
        /\ \A e : NoticedOnce(told[c], e) /\ ~(Notices(told[c], e) /\ e = "connection") => NoticedOnce(t1, e)
        /\ \A e1, e2 : NoticedBefore(t1, e1, e2) =>
                         NoticedBefore(told[c], e1, e2) \/ (Notices(told[c], e1) /\ e2 = "connection")
        /\ \A a, b \in Nat : a <= b /\ Numbered(told[c], MessageNotes(told[c]), a, b)
                               => Numbered(t1, MessageNotes(t1), a, b)
    <2>1. /\ \A e : Notices(t1, e) <=> Notices(told[c], e) \/ x.e = e
          /\ \A e : NoticedOnce(told[c], e) /\ ~(Notices(told[c], e) /\ x.e = e) => NoticedOnce(t1, e)
      BY <1>2, <1>5, NoteMore
    <2>2. \A e1, e2 : NoticedBefore(t1, e1, e2) =>
                        NoticedBefore(told[c], e1, e2) \/ (Notices(told[c], e1) /\ x.e = e2)
      BY <1>2, <1>5, NoteMore
    <2>3. \A a, b \in Nat : a <= b /\ Numbered(told[c], MessageNotes(told[c]), a, b)
                              => Numbered(t1, MessageNotes(t1), a, b)
      BY <1>2, <1>5, NoteMore
    <2> HIDE DEF t1
    <2> QED
      BY <1>5, <2>1, <2>2, <2>3
  <1> HIDE DEF t1
  <1>9. /\ \A e : Notices(u, e) => e = "message"
        /\ \A e : e # "message" => NoticedOnce(u, e)
        /\ \A e1, e2 : NoticedBefore(u, e1, e2) => e1 = "message" /\ e2 = "message"
        /\ MessageNotes(u) = 1 .. Len(p)
    <2>1. \A i \in DOMAIN u : u[i].e = "message"
      BY <1>6
    <2>2. \A e : Notices(u, e) => e = "message"
      BY <2>1 DEF Notices
    <2>3. \A e : e # "message" => NoticedOnce(u, e)
      BY <2>1 DEF NoticedOnce
    <2>4. \A e1, e2 : NoticedBefore(u, e1, e2) => e1 = "message" /\ e2 = "message"
      BY <2>1, Zenon DEF NoticedBefore
    <2>5. MessageNotes(u) = 1 .. Len(p)
      BY <1>6, <2>1 DEF MessageNotes
    <2> QED
      BY <2>2, <2>3, <2>4, <2>5
  <1>10. /\ \A e : Notices(t2, e) <=> Notices(t1, e) \/ Notices(u, e)
         /\ \A e : /\ NoticedOnce(t1, e) /\ NoticedOnce(u, e) /\ ~(Notices(t1, e) /\ Notices(u, e))
                   => NoticedOnce(t2, e)
         /\ \A e1, e2 : NoticedBefore(t2, e1, e2) =>
              NoticedBefore(t1, e1, e2) \/ NoticedBefore(u, e1, e2) \/ (Notices(t1, e1) /\ Notices(u, e2))
    BY <1>6, <1>7, NotesConcat
  <1>11. ASSUME NEW m \in Nat, NEW h \in Nat, m <= h, Numbered(told[c], MessageNotes(told[c]), m, h),
                \A i \in DOMAIN p : p[i] = h + i
         PROVE  Numbered(t2, MessageNotes(t2), m, h + Len(p))
    <2>1. Numbered(t1, MessageNotes(t1), m, h)
      BY <1>8, <1>11
    <2>2. Numbered(u, MessageNotes(u), h, h + Len(p))
      <3> DEFINE n == Len(p)
                 B == 1 .. n
      <3>1. \A i \in B : u[i].f = h + i
        BY <1>6, <1>11
      <3>2. n \in Nat
        BY <1>6
      <3> HIDE DEF n
      <3>3. \A i \in B : u[i].f \in h + 1 .. h + n
        BY <3>1, <3>2
      <3>4. \A k \in h + 1 .. h + n : \E i \in B : u[i].f = k
        <4> TAKE k \in h + 1 .. h + n
        <4>1. k - h \in B /\ h + (k - h) = k
          BY <3>2
        <4> QED
          BY <3>1, <4>1
      <3>5. \A i, j \in B : i < j => u[i].f < u[j].f
        BY <3>1, <3>2
      <3>6. Numbered(u, B, h, h + n)
        BY <3>3, <3>4, <3>5 DEF Numbered
      <3> QED
        BY <1>9, <3>6 DEF n
    <2>3. h + Len(p) \in Nat /\ h <= h + Len(p)
      BY <1>6
    <2> QED
      BY <1>6, <1>7, <1>11, <2>1, <2>2, <2>3, NotesNumbered
  <1> HIDE DEF t2
  <1>12. /\ wrap'[c] = w2 /\ told'[c] = t2
         /\ \A d \in Conns \ {c} : wrap'[d] = wrap[d] /\ told'[d] = told[d]
    BY <1>1, <1>3
  <1>13. MirrorInv(c) /\ ToldInv(c) /\ MessageInv(c)
    BY DEF Talk
  <1>14. wrap[c] # NoState
    BY <1>3 DEF NoState
  <1>15. opt.verify /\ ~Notices(told[c], "connection") /\ ~Notices(told[c], "message")
    BY <1>3, <1>13 DEF MirrorInv, ToldInv
  <1>16. w2.state = "none" <=> wrap[c].state = "none"
    BY <1>4
  <1>17. MirrorInv(c)'
    <2>1. Announced(c)' <=> Announced(c)
      BY <1>3 DEF Announced
    <2> QED
      BY <1>3, <1>4, <1>12, <1>13, <1>14, <1>15, <1>16, <2>1 DEF MirrorInv
  <1>18. ToldInv(c)'
    <2>1. NoticedOnce(t2, "connection") /\ NoticedOnce(t2, "clientClosed")
      <3>1. NoticedOnce(t1, "connection") /\ NoticedOnce(t1, "clientClosed")
        BY <1>8, <1>13, <1>15 DEF ToldInv
      <3> QED
        BY <1>9, <1>10, <3>1
    <2>2. ~NoticedBefore(t2, "message", "connection")
      <3>1. ~NoticedBefore(t1, "message", "connection")
        BY <1>8, <1>13, <1>15 DEF ToldInv
      <3> QED
        BY <1>9, <1>10, <3>1
    <2>3. Notices(t2, "connection") /\ (Notices(t2, "clientClosed") <=> Notices(told[c], "clientClosed"))
      BY <1>8, <1>9, <1>10
    <2> QED
      BY <1>3, <1>4, <1>12, <1>13, <1>15, <1>16, <2>1, <2>2, <2>3 DEF ToldInv
  <1>19. MessageInv(c)'
    <2> DEFINE r == conn[c].rx_frames
               m == First(opt.hs, r)
    <2> SUFFICES ASSUME c \in connections, opt.hs => opt.framed
                 PROVE  /\ Led(events, c, w2.state # "none")
                        /\ Split(t2, <<>>, events, c, m, r)
      BY <1>3, <1>4, <1>12 DEF MessageInv
    <2>1. Led(events, c, wrap[c].state # "none") /\ Split(told[c], p, events, c, m, r)
      BY <1>13 DEF MessageInv
    <2>2. Led(events, c, w2.state # "none")
      <3>1. (w2.state # "none") = (wrap[c].state # "none")
        BY <1>16
      <3> QED
        BY <2>1, <3>1
    <2>3. m \in Nat /\ r \in Nat
      BY <1>2
    <2> HIDE DEF m, r, p
    <2>4. PICK h \in m .. r : /\ h + Len(p) <= r
                              /\ Numbered(told[c], MessageNotes(told[c]), m, h)
                              /\ \A i \in DOMAIN p : p[i] = h + i
                              /\ Numbered(events, Messages(events, c), h + Len(p), r)
      BY <2>1 DEF Split
    <2>5. h \in Nat /\ m <= h /\ h + Len(p) \in m .. r
      BY <1>6, <2>3, <2>4
    <2>6. Numbered(t2, MessageNotes(t2), m, h + Len(p))
      BY <1>11, <2>3, <2>4, <2>5
    <2>7. Len(<<>>) = 0 /\ DOMAIN <<>> = {}
      OBVIOUS
    <2>8. (h + Len(p)) + Len(<<>>) = h + Len(p)
      BY <2>3, <2>5, <2>7
    <2>9. Split(t2, <<>>, events, c, m, r)
      BY <2>4, <2>5, <2>6, <2>7, <2>8 DEF Split
    <2> QED
      BY <2>2, <2>9
  <1>20. Talk(c)'
    BY <1>17, <1>18, <1>19 DEF Talk
  <1>21. \A d \in Conns \ {c} : Talk(d)'
    <2> TAKE d \in Conns \ {c}
    <2>1. Same(events, events', d)
      BY <1>3, SameKept
    <2> QED
      BY <1>3, <1>12, <2>1, TalkSame
  <1> QED
    BY <1>20, <1>21

LEMMA TalkStep ==
  ASSUME Safe, \A c \in Conns : Talk(c), [Next]_vars
  PROVE  \A c \in Conns : Talk(c)'
  <1>0. connections \subseteq Conns
    BY Types DEF Safe
  <1>1. CASE Broadcast \/ \E c \in Conns : SendTo(c)
    <2>1. UNCHANGED <<opt, connections, svc, wrap, peer, told>> /\ \E cs \in SUBSET connections : Post(cs)
      BY <1>1 DEF Broadcast, SendTo, native
    <2> QED
      BY <2>1, PostTalk
  <1>2. CASE Listen \/ StopBegins \/ WriteNext \/ WriteAccount \/ UNCHANGED vars
    BY <1>2, TalkQuietSteps
  <1>3. CASE \E c \in Conns : \/ PeerSends(c) \/ PeerLeaves(c) \/ CloseConnection(c)
                              \/ ReadEnd(c) \/ Flush(c) \/ Writeable(c)
    BY <1>3, TalkQuietSteps
  <1>4. CASE \E c \in Conns : Adopt(c)
    BY <1>4, AdoptTalk
  <1>5. CASE \E c \in Conns : Read(c)
    BY <1>5, ReadTalk
  <1>6. CASE \E c \in Conns : Accept(c)
    BY <1>6, AcceptTalk
  <1>7. CASE \E c \in Conns : Reject(c)
    BY <1>7, RejectTalk
  <1>8. CASE WriteEnd
    BY <1>8, WriteEndTalk
  <1>9. CASE RawClose
    BY <1>9, RawCloseTalk
  <1>10. CASE Emit
    BY <1>10, EmitTalk
  <1>11. CASE StopEnds
    BY <1>11, StopEndsTalk
  <1>12. CASE \E again \in Reentrant : Deliver(again)
    BY <1>12, DeliverTalk
  <1> QED
    BY <1>1, <1>2, <1>3, <1>4, <1>5, <1>6, <1>7, <1>8, <1>9, <1>10, <1>11, <1>12
    DEF Next, Api, Service, EventLoop

\* Of every connection, whatever the options, the events queued, the wrapper's
\* state and what the application was told fit together, as Talk says.
THEOREM TalkInvariance == Spec => [](\A c \in Conns : Talk(c))
  <1> DEFINE All == \A c \in Conns : Talk(c)
  <1>1. Init => All
    BY TalkInit
  <1>2. Safe /\ All /\ [Next]_vars => All'
    BY TalkStep
  <1> HIDE DEF All
  <1>3. Spec => []All
    BY <1>1, <1>2, BytesInvariance, PTL DEF Spec
  <1> QED
    BY <1>3 DEF All

\* Once its events have run, NativeQWormholeServer knows the connections the
\* native side has announced, and waits for a drain only while the native side
\* is backpressured: however backpressure, drain, close() and the verifier cross.
THEOREM MirrorHolds == Spec => []MirrorInSync
  <1> DEFINE All == \A c \in Conns : Talk(c)
  <1>1. Safe /\ All => MirrorInSync
    <2> SUFFICES ASSUME Safe, All, NEW c \in Conns, ~PendingFor(c), peer[c] # "cut"
                 PROVE  /\ wrap[c].state # "none" <=>
                             c \in connections /\ (opt.hs => opt.framed /\ conn[c].rx_frames > 0)
                        /\ wrap[c].backpressured => conn[c].backpressured
      BY DEF MirrorInSync
    <2>1. MirrorInv(c)
      BY DEF Talk
    <2>2. \A e : ~Queues(events, c, e)
      BY DEF PendingFor, Queues
    <2>3. \A e : svc # EmittingOf(c, e)
      BY DEF PendingFor, EmittingOf
    <2>4. peer[c] \in {"none", "up", "fin", "rst", "gone"} /\ (c \in connections <=> peer[c] \in {"up", "fin", "rst"})
      BY Types, Kinds DEF Safe
    <2>5. NoState.state = "none" /\ NoState.backpressured = FALSE
      BY DEF NoState
    <2>6. CASE c \in connections
      <3>1. (wrap[c].state # "none" <=> Announced(c)) /\ (wrap[c].backpressured => conn[c].backpressured)
        BY <2>1, <2>2, <2>3, <2>5, <2>6 DEF MirrorInv
      <3> QED
        BY <2>6, <3>1 DEF Announced
    <2>7. CASE c \notin connections
      BY <2>1, <2>2, <2>4, <2>5, <2>7 DEF MirrorInv
    <2> QED
      BY <2>6, <2>7
  <1> HIDE DEF All
  <1>2. Spec => []All
    BY TalkInvariance DEF All
  <1> QED
    BY <1>1, <1>2, BytesInvariance, PTL

\* The application hears of a connection once, of its messages behind it, of its
\* end once and last, and no message that a connected peer sent is lost or
\* overtaken on its way through the two threads and the verifier.
THEOREM HeardInOrderHolds == Spec => []HeardInOrder
  <1> DEFINE All == \A c \in Conns : Talk(c)
  <1>1. All => HeardInOrder
    <2> SUFFICES ASSUME All, NEW c \in Conns
                 PROVE  /\ Once(c, "connection") /\ Once(c, "clientClosed")
                        /\ ~Before(c, "message", "connection")
                        /\ Hears(c, "message") => Knows(c)
                        /\ ~opt.verify => ~Before(c, "clientClosed", "connection")
                                          /\ ~Before(c, "clientClosed", "message")
                        /\ c \in connections /\ (opt.hs => opt.framed) =>
                             LET first   == IF opt.hs /\ conn[c].rx_frames > 0 THEN 1 ELSE 0
                                 waiting == wrap[c].pending
                             IN \E h \in first .. conn[c].rx_frames :
                                  /\ h + Len(waiting) <= conn[c].rx_frames
                                  /\ Numbered(told[c], InTold(c), first, h)
                                  /\ \A i \in DOMAIN waiting : waiting[i] = h + i
                                  /\ Numbered(events, InEvents(c), h + Len(waiting), conn[c].rx_frames)
      BY DEF HeardInOrder
    <2>1. ToldInv(c) /\ MessageInv(c)
      BY DEF Talk
    <2>2. \A e : (Once(c, e) <=> NoticedOnce(told[c], e)) /\ (Hears(c, e) <=> Notices(told[c], e))
      BY DEF Once, NoticedOnce, Hears, Notices
    <2>3. \A e1, e2 : Before(c, e1, e2) <=> NoticedBefore(told[c], e1, e2)
      BY DEF Before, NoticedBefore
    <2>4. InTold(c) = MessageNotes(told[c]) /\ InEvents(c) = Messages(events, c)
      BY DEF InTold, MessageNotes, InEvents, Messages
    <2>5. c \in connections /\ (opt.hs => opt.framed) =>
            Split(told[c], wrap[c].pending, events, c, First(opt.hs, conn[c].rx_frames), conn[c].rx_frames)
      BY <2>1 DEF MessageInv
    <2> QED
      BY <2>1, <2>2, <2>3, <2>4, <2>5 DEF ToldInv, Knows, Split, First
  <1> HIDE DEF All
  <1>2. Spec => []All
    BY TalkInvariance DEF All
  <1> QED
    BY <1>1, <1>2, PTL
=============================================================================
