-------------------------- MODULE BatchFramerProofs --------------------------
(***************************************************************************)
(* Theorems about BatchFramer, for every size of the ring and of the       *)
(* batches, every cap and high-water mark, with and without writev.        *)
(***************************************************************************)
EXTENDS BatchFramer, SharedLemmas, SequenceTheorems

Index == Slots \cup {NoSlot}
Buffer == [slot: Index, id: Frames]
Flight == [rest: Seq(Buffer), indices: Seq(Index),
           slots: Seq(Index), state: {"resumed", "waiting", "orphaned", "failed"}]

(***************************************************************************)
(* The inductive invariant.                                                *)
(***************************************************************************)
Unique(s) == \A i, j \in DOMAIN s : s[i].id = s[j].id => i = j
Disjoint(s, u) == \A i \in DOMAIN s, j \in DOMAIN u : s[i].id # u[j].id
UpTo(s, n) == \A i \in DOMAIN s : s[i].id <= n

\* A frame is queued in one place: the batch, or what one flight has left.
Single(fr) ==
  /\ Unique(fr.outBatch) /\ UpTo(fr.outBatch, fr.totalFrames)
  /\ \A k \in DOMAIN fr.flights :
       /\ Unique(fr.flights[k].rest) /\ UpTo(fr.flights[k].rest, fr.totalFrames)
       /\ Disjoint(fr.flights[k].rest, fr.outBatch)
       /\ \A m \in DOMAIN fr.flights :
            k # m => Disjoint(fr.flights[k].rest, fr.flights[m].rest)

\* Unless the cap was lowered under a flush, a flight has nothing left, and
\* what was written precedes what is queued.
Increasing(s) == \A i, j \in DOMAIN s : i < j => s[i].id < s[j].id
Below(s, u) == \A i \in DOMAIN s, j \in DOMAIN u : s[i].id < u[j].id
Before(ids, s) == \A i \in DOMAIN ids, j \in DOMAIN s : ids[i] < s[j].id
InSequence(fr) ==
  /\ \A k \in DOMAIN fr.flights : fr.flights[k].rest = <<>>
  /\ Increasing(fr.outBatch) /\ Before(fr.written, fr.outBatch)
  /\ \A i, j \in DOMAIN fr.written : i < j => fr.written[i] < fr.written[j]
  /\ \A i \in DOMAIN fr.written : fr.written[i] <= fr.totalFrames

\* Buffers whose slots are those listed, and hold their bytes.
Intact(ring, buffers, indices) ==
  /\ Len(indices) = Len(buffers)
  /\ \A i \in DOMAIN buffers :
       /\ buffers[i].slot \in Slots /\ indices[i] = buffers[i].slot
       /\ ring[buffers[i].slot] = [inUse |-> TRUE, frame |-> buffers[i].id]

\* The slots in use that neither the batch nor a flight lists are in S.
Listed(fr, S) ==
  \A s \in Slots : fr.ring[s].inUse =>
    \/ s \in S \/ s \in ToSet(fr.indices)
    \/ \E k \in DOMAIN fr.flights : s \in ToSet(fr.flights[k].slots)

\* A framer that still has the slots of S to release
Owing(fr, S) ==
  /\ fr \in Framer /\ Single(fr) /\ Listed(fr, S)
  /\ ~fr.shrunk => InSequence(fr)
  /\ ~fr.shrunk /\ ~fr.overflowed => Intact(fr.ring, fr.outBatch, fr.indices)

Good(fr) == Owing(fr, {})

IInv == Good(f)

(***************************************************************************)
(* Buffers cut off the batch, or left of a flight, that are to be written. *)
(***************************************************************************)
Ready(fr, rest, indices) ==
  /\ rest \in Seq(Buffer) /\ indices \in Seq(Index) /\ rest # <<>>
  /\ Unique(rest) /\ UpTo(rest, fr.totalFrames) /\ Disjoint(rest, fr.outBatch)
  /\ \A k \in DOMAIN fr.flights : Disjoint(fr.flights[k].rest, rest)
  /\ ~fr.shrunk =>
       /\ Len(rest) <= fr.cap /\ Increasing(rest) /\ Before(fr.written, rest)
       /\ Below(rest, fr.outBatch)
  /\ ~fr.shrunk /\ ~fr.overflowed => Intact(fr.ring, rest, indices)

HeldIn(fr) == Ids(fr.outBatch)
                \cup UNION {Ids(fr.flights[k].rest) : k \in Live(fr)}
-----------------------------------------------------------------------------
(* What First and Drop cut off a sequence. *)

LEMMA FirstOf ==
  ASSUME NEW S, NEW s \in Seq(S), NEW n \in Nat
  PROVE  /\ First(s, n) \in Seq(S)
         /\ Len(First(s, n)) = IF n < Len(s) THEN n ELSE Len(s)
         /\ \A i \in 1 .. Len(First(s, n)) : i \in 1 .. Len(s) /\ First(s, n)[i] = s[i]
  BY DEF First

LEMMA DropOf ==
  ASSUME NEW S, NEW s \in Seq(S), NEW n \in Nat
  PROVE  /\ Drop(s, n) \in Seq(S)
         /\ Len(Drop(s, n)) = IF n < Len(s) THEN Len(s) - n ELSE 0
         /\ \A i \in 1 .. Len(Drop(s, n)) : n + i \in 1 .. Len(s) /\ Drop(s, n)[i] = s[n + i]
  BY DEF Drop

LEMMA RemovedAt ==
  ASSUME NEW S, NEW s \in Seq(S), NEW n \in 1 .. Len(s)
  PROVE  /\ RemoveAt(s, n) \in Seq(S)
         /\ Len(RemoveAt(s, n)) = Len(s) - 1
         /\ \A i \in 1 .. Len(s) - 1 : RemoveAt(s, n)[i] = IF i < n THEN s[i] ELSE s[i + 1]
  <1> DEFINE a == SubSeq(s, 1, n - 1)
             b == SubSeq(s, n + 1, Len(s))
  <1>1. /\ a \in Seq(S) /\ Len(a) = n - 1 /\ \A i \in 1 .. n - 1 : a[i] = s[i]
        /\ b \in Seq(S) /\ Len(b) = Len(s) - n /\ \A i \in 1 .. Len(s) - n : b[i] = s[n + i]
    OBVIOUS
  <1>2. RemoveAt(s, n) = a \o b
    BY DEF RemoveAt
  <1> HIDE DEF a, b
  <1>3. /\ a \o b \in Seq(S) /\ Len(a \o b) = Len(a) + Len(b)
        /\ \A i \in 1 .. Len(a) + Len(b) : (a \o b)[i] = IF i <= Len(a) THEN a[i] ELSE b[i - Len(a)]
    <2>1. a \in Seq(S) /\ b \in Seq(S)
      BY <1>1
    <2> QED
      BY <2>1
  <1> DEFINE c == a \o b
  <1> HIDE DEF c
  <1>4. /\ c \in Seq(S) /\ Len(c) = Len(s) - 1
        /\ \A i \in 1 .. Len(a) + Len(b) : c[i] = IF i <= Len(a) THEN a[i] ELSE b[i - Len(a)]
    BY <1>1, <1>3 DEF c
  <1>5. ASSUME NEW i \in 1 .. Len(s) - 1
        PROVE  c[i] = IF i < n THEN s[i] ELSE s[i + 1]
    BY <1>1, <1>4, SMTT(30)
  <1> QED
    BY <1>2, <1>4, <1>5 DEF c

(* A run of buffers of s, from the one after d, has what s has.              *)
Part(p, s, d) ==
  /\ p \in Seq(Buffer) /\ s \in Seq(Buffer) /\ d \in Nat
  /\ \A i \in 1 .. Len(p) : d + i \in 1 .. Len(s) /\ p[i] = s[d + i]

LEMMA BufferId ==
  ASSUME NEW s \in Seq(Buffer), NEW i \in 1 .. Len(s)
  PROVE  s[i] \in Buffer /\ s[i].id \in Nat /\ s[i].id \in Frames /\ DOMAIN s = 1 .. Len(s)
  <1>1. s[i] \in Buffer /\ DOMAIN s = 1 .. Len(s)
    OBVIOUS
  <1> QED
    BY <1>1, FramerAssumption DEF Buffer, Frames

LEMMA PartOf ==
  ASSUME NEW p, NEW s, NEW d, Part(p, s, d)
  PROVE  /\ Unique(s) => Unique(p)
         /\ Increasing(s) => Increasing(p)
         /\ \A n : UpTo(s, n) => UpTo(p, n)
         /\ \A u : Disjoint(s, u) => Disjoint(p, u)
         /\ \A u : Disjoint(u, s) => Disjoint(u, p)
         /\ \A u : Below(s, u) => Below(p, u)
         /\ \A ids : Before(ids, s) => Before(ids, p)
         /\ Ids(p) \subseteq Ids(s)
  <1>1. /\ DOMAIN p = 1 .. Len(p) /\ DOMAIN s = 1 .. Len(s) /\ d \in Nat
        /\ Len(p) \in Nat /\ Len(s) \in Nat
        /\ \A i \in 1 .. Len(p) : d + i \in 1 .. Len(s) /\ p[i] = s[d + i]
    BY DEF Part
  <1>2. Unique(s) => Unique(p)
    BY <1>1 DEF Unique
  <1>3. Increasing(s) => Increasing(p)
    BY <1>1 DEF Increasing
  <1>4. \A n : UpTo(s, n) => UpTo(p, n)
    BY <1>1 DEF UpTo
  <1>5. \A u : Disjoint(s, u) => Disjoint(p, u)
    BY <1>1 DEF Disjoint
  <1>6. \A u : Disjoint(u, s) => Disjoint(u, p)
    BY <1>1 DEF Disjoint
  <1>7. \A u : Below(s, u) => Below(p, u)
    BY <1>1 DEF Below
  <1>8. \A ids : Before(ids, s) => Before(ids, p)
    BY <1>1 DEF Before
  <1>9. Ids(p) \subseteq Ids(s)
    BY <1>1 DEF Ids
  <1> QED
    BY <1>2, <1>3, <1>4, <1>5, <1>6, <1>7, <1>8, <1>9

LEMMA PartsOf ==
  ASSUME NEW p, NEW q, NEW s, NEW d, NEW e, Part(p, s, d), Part(q, s, e), d + Len(p) <= e
  PROVE  /\ Unique(s) => Disjoint(p, q) /\ Disjoint(q, p)
         /\ Increasing(s) => Below(p, q)
  <1>1. /\ DOMAIN p = 1 .. Len(p) /\ DOMAIN q = 1 .. Len(q) /\ DOMAIN s = 1 .. Len(s)
        /\ d \in Nat /\ e \in Nat /\ Len(p) \in Nat /\ Len(s) \in Nat /\ Len(q) \in Nat
        /\ \A i \in 1 .. Len(p) : d + i \in 1 .. Len(s) /\ p[i] = s[d + i]
        /\ \A i \in 1 .. Len(q) : e + i \in 1 .. Len(s) /\ q[i] = s[e + i]
    BY DEF Part
  <1>2. ASSUME NEW i \in DOMAIN p, NEW j \in DOMAIN q
        PROVE  d + i \in DOMAIN s /\ e + j \in DOMAIN s /\ d + i < e + j
               /\ p[i] = s[d + i] /\ q[j] = s[e + j]
    BY <1>1
  <1>3. ASSUME Unique(s), NEW i \in DOMAIN p, NEW j \in DOMAIN q
        PROVE  p[i].id # q[j].id
    <2>1. d + i # e + j
      BY <1>1, <1>2
    <2> QED
      BY <1>2, <1>3, <2>1 DEF Unique
  <1>4. ASSUME Increasing(s), NEW i \in DOMAIN p, NEW j \in DOMAIN q
        PROVE  p[i].id < q[j].id
    BY <1>2, <1>4 DEF Increasing
  <1> QED
    BY <1>3, <1>4 DEF Disjoint, Below

(* Two runs of buffers, one after the other.                                 *)
LEMMA Joined ==
  ASSUME NEW a \in Seq(Buffer), NEW b \in Seq(Buffer), NEW c, c = a \o b
  PROVE  /\ c \in Seq(Buffer) /\ Len(c) = Len(a) + Len(b)
         /\ Part(a, c, 0) /\ Part(b, c, Len(a))
         /\ Unique(a) /\ Unique(b) /\ Disjoint(a, b) => Unique(c)
         /\ Increasing(a) /\ Increasing(b) /\ Below(a, b) => Increasing(c)
         /\ \A n : UpTo(a, n) /\ UpTo(b, n) => UpTo(c, n)
         /\ \A u : Disjoint(u, a) /\ Disjoint(u, b) => Disjoint(u, c)
         /\ \A ids : Before(ids, a) /\ Before(ids, b) => Before(ids, c)
         /\ Ids(c) = Ids(a) \cup Ids(b)
  <1>1. /\ c \in Seq(Buffer) /\ Len(c) = Len(a) + Len(b)
        /\ \A i \in 1 .. Len(c) : c[i] = IF i <= Len(a) THEN a[i] ELSE b[i - Len(a)]
    <2>1. /\ a \o b \in Seq(Buffer) /\ Len(a \o b) = Len(a) + Len(b)
          /\ \A i \in 1 .. Len(a) + Len(b) :
               (a \o b)[i] = IF i <= Len(a) THEN a[i] ELSE b[i - Len(a)]
      OBVIOUS
    <2> QED
      BY <2>1, Zenon
  <1>2. /\ DOMAIN a = 1 .. Len(a) /\ DOMAIN b = 1 .. Len(b) /\ DOMAIN c = 1 .. Len(c)
        /\ Len(a) \in Nat /\ Len(b) \in Nat
    BY <1>1
  <1>3. /\ \A i \in DOMAIN a : i \in DOMAIN c /\ c[i] = a[i]
        /\ \A i \in DOMAIN b : Len(a) + i \in DOMAIN c /\ c[Len(a) + i] = b[i]
        /\ \A i \in DOMAIN c : \/ i \in DOMAIN a /\ c[i] = a[i]
                               \/ /\ i > Len(a) /\ i - Len(a) \in DOMAIN b
                                  /\ c[i] = b[i - Len(a)]
    BY <1>1, <1>2
  <1>4. Part(a, c, 0) /\ Part(b, c, Len(a))
    BY <1>1, <1>2, <1>3 DEF Part
  <1>5. Unique(a) /\ Unique(b) /\ Disjoint(a, b) => Unique(c)
    BY <1>2, <1>3 DEF Unique, Disjoint
  <1>6. Increasing(a) /\ Increasing(b) /\ Below(a, b) => Increasing(c)
    BY <1>2, <1>3 DEF Increasing, Below
  <1>7. \A n : UpTo(a, n) /\ UpTo(b, n) => UpTo(c, n)
    BY <1>3 DEF UpTo
  <1>8. \A u : Disjoint(u, a) /\ Disjoint(u, b) => Disjoint(u, c)
    BY <1>3 DEF Disjoint
  <1>9. \A ids : Before(ids, a) /\ Before(ids, b) => Before(ids, c)
    BY <1>3 DEF Before
  <1>10. Ids(c) = Ids(a) \cup Ids(b)
    <2>1. Ids(a) \subseteq Ids(c) /\ Ids(b) \subseteq Ids(c)
      BY <1>4, PartOf
    <2>2. ASSUME NEW i \in DOMAIN c
          PROVE  c[i].id \in Ids(a) \cup Ids(b)
      BY <1>3 DEF Ids
    <2>3. Ids(c) \subseteq Ids(a) \cup Ids(b)
      BY <2>2 DEF Ids
    <2> QED
      BY <2>1, <2>3
  <1> QED
    BY <1>1, <1>4, <1>5, <1>6, <1>7, <1>8, <1>9, <1>10

LEMMA FramerFields ==
  ASSUME NEW fr \in Framer
  PROVE  /\ fr.ring \in [Slots -> [inUse: BOOLEAN, frame: Frames \cup {0}]]
         /\ fr.ringHead \in Slots
         /\ fr.outBatch \in Seq(Buffer) /\ fr.indices \in Seq(Index)
         /\ fr.flights \in Seq(Flight) /\ fr.buf \in Seq(Buffer)
         /\ fr.cap \in Caps /\ fr.totalFrames \in Frames \cup {0}
         /\ fr.written \in Seq(Frames) /\ fr.sockets \in 0 .. MaxSockets
         /\ fr.timed \in BOOLEAN /\ fr.timer \in BOOLEAN /\ fr.draining \in BOOLEAN /\ fr.needDrain \in BOOLEAN
         /\ fr.overflowed \in BOOLEAN /\ fr.shrunk \in BOOLEAN
         /\ fr.socket \in {"none", "open", "destroyed"} /\ fr.since \in Frames \cup {0}
  BY DEF Framer, Buffer, Flight, Index

-----------------------------------------------------------------------------
(* The invariant depends on some of the fields only. *)

LEMMA SameQueues ==
  ASSUME NEW fr, NEW S, NEW new \in Framer, Owing(fr, S),
         new.ring = fr.ring, new.outBatch = fr.outBatch, new.indices = fr.indices,
         new.flights = fr.flights, new.totalFrames = fr.totalFrames,
         new.written = fr.written, new.overflowed = fr.overflowed, new.shrunk = fr.shrunk
  PROVE  Owing(new, S) /\ HeldIn(new) = HeldIn(fr)
  BY DEF Owing, Single, Listed, InSequence, HeldIn, Live

(* releaseSlots pays what is owed, and leaves the batch its slots.           *)
LEMMA ReleaseSlotsGood ==
  ASSUME NEW fr, NEW slots \in Seq(Index), Owing(fr, ToSet(slots))
  PROVE  /\ Good(ReleaseSlots(fr, slots))
         /\ ReleaseSlots(fr, slots).outBatch = fr.outBatch
         /\ ReleaseSlots(fr, slots).flights = fr.flights
         /\ ReleaseSlots(fr, slots).written = fr.written
         /\ ReleaseSlots(fr, slots).totalFrames = fr.totalFrames
  <1>0. fr \in Framer
    BY DEF Owing
  <1> DEFINE ring == [s \in Slots |-> IF s \in ToSet(slots) \ ToSet(fr.indices)
                                     THEN [fr.ring[s] EXCEPT !.inUse = FALSE] ELSE fr.ring[s]]
             new == [fr EXCEPT !.ring = ring]
  <1>1. ReleaseSlots(fr, slots) = new
    BY <1>0 DEF ReleaseSlots, Framer
  <1>2. ring \in [Slots -> [inUse: BOOLEAN, frame: Frames \cup {0}]]
    BY <1>0, FramerFields, ZenonT(60)
  <1>3. \A s \in Slots : /\ ring[s].inUse => fr.ring[s].inUse
                         /\ ring[s].inUse => s \notin ToSet(slots) \/ s \in ToSet(fr.indices)
                         /\ s \in ToSet(fr.indices) => ring[s] = fr.ring[s]
    BY <1>0, FramerFields
  <1> HIDE DEF ring
  <1>4. /\ new \in Framer /\ new.ring = ring
        /\ new.outBatch = fr.outBatch /\ new.indices = fr.indices
        /\ new.flights = fr.flights /\ new.totalFrames = fr.totalFrames
        /\ new.written = fr.written /\ new.overflowed = fr.overflowed
        /\ new.shrunk = fr.shrunk /\ new.socket = fr.socket
    BY <1>0, <1>2 DEF Framer
  <1> HIDE DEF new
  <1>5. Single(new) /\ (~new.shrunk => InSequence(new))
    BY <1>4 DEF Owing, Single, InSequence
  <1>6. Listed(new, {})
    BY <1>3, <1>4 DEF Owing, Listed
  <1>7. ASSUME ~new.shrunk, ~new.overflowed
        PROVE  Intact(new.ring, new.outBatch, new.indices)
    <2>1. Intact(fr.ring, fr.outBatch, fr.indices)
      BY <1>4, <1>7 DEF Owing
    <2>2. DOMAIN fr.outBatch = DOMAIN fr.indices
      <3>1. fr.outBatch \in Seq(Buffer) /\ fr.indices \in Seq(Index)
        BY <1>0, FramerFields
      <3>2. DOMAIN fr.outBatch = 1 .. Len(fr.outBatch) /\ DOMAIN fr.indices = 1 .. Len(fr.indices)
        BY <3>1
      <3> QED
        BY <2>1, <3>2 DEF Intact
    <2>3. \A i \in DOMAIN fr.outBatch : fr.outBatch[i].slot \in ToSet(fr.indices)
      <3> TAKE i \in DOMAIN fr.outBatch
      <3>1. i \in DOMAIN fr.indices /\ fr.indices[i] = fr.outBatch[i].slot
        BY <2>1, <2>2 DEF Intact
      <3> QED
        BY <3>1 DEF ToSet
    <2>4. Intact(ring, fr.outBatch, fr.indices)
      BY <1>3, <2>1, <2>3 DEF Intact
    <2> QED
      BY <1>4, <2>4
  <1> QED
    BY <1>1, <1>4, <1>5, <1>6, <1>7 DEF Good, Owing

-----------------------------------------------------------------------------
(* The pieces of a chunk: sent, queued again, and left for later. *)

LEMMA CutUp ==
  ASSUME NEW rest \in Seq(Buffer), rest # <<>>, NEW cap \in Nat \ {0}, NEW buf \in Seq(Buffer)
  PROVE  LET chunk   == First(rest, cap)
             room    == HighWaterMark - Len(buf)
             blocked == Len(chunk) >= room
             taken   == IF ~blocked THEN Len(chunk) ELSE IF room > 1 THEN room ELSE 1
         IN /\ Len(chunk) \in 1 .. Len(rest) /\ (Len(rest) <= cap => Len(chunk) = Len(rest))
            /\ taken \in 1 .. Len(chunk)
            /\ Part(First(chunk, taken), rest, 0) /\ Len(First(chunk, taken)) = taken
            /\ Part(Drop(chunk, taken), rest, taken)
            /\ Len(Drop(chunk, taken)) = Len(chunk) - taken
            /\ Part(Drop(rest, Len(chunk)), rest, Len(chunk))
            /\ Len(Drop(rest, Len(chunk))) = Len(rest) - Len(chunk)
  <1> DEFINE chunk   == First(rest, cap)
             room    == HighWaterMark - Len(buf)
             blocked == Len(chunk) >= room
             taken   == IF ~blocked THEN Len(chunk) ELSE IF room > 1 THEN room ELSE 1
  <1>1. /\ chunk \in Seq(Buffer) /\ Len(chunk) = IF cap < Len(rest) THEN cap ELSE Len(rest)
        /\ \A i \in 1 .. Len(chunk) : i \in 1 .. Len(rest) /\ chunk[i] = rest[i]
    BY FirstOf
  <1>2. Len(rest) \in Nat /\ Len(rest) # 0
    OBVIOUS
  <1> HIDE DEF chunk
  <1>3. Len(chunk) \in 1 .. Len(rest) /\ (Len(rest) <= cap => Len(chunk) = Len(rest))
    BY <1>1, <1>2
  <1>4. taken \in 1 .. Len(chunk)
    BY <1>2, <1>3, FramerAssumption
  <1> HIDE DEF taken
  <1>5. taken \in Nat /\ Len(chunk) \in Nat
    BY <1>2, <1>3, <1>4
  <1>6. /\ First(chunk, taken) \in Seq(Buffer) /\ Len(First(chunk, taken)) = taken
        /\ \A i \in 1 .. taken : i \in 1 .. Len(chunk) /\ First(chunk, taken)[i] = chunk[i]
    <2>1. /\ First(chunk, taken) \in Seq(Buffer)
          /\ Len(First(chunk, taken)) = IF taken < Len(chunk) THEN taken ELSE Len(chunk)
          /\ \A i \in 1 .. Len(First(chunk, taken)) :
               i \in 1 .. Len(chunk) /\ First(chunk, taken)[i] = chunk[i]
      BY <1>1, <1>5, FirstOf
    <2> QED
      BY <1>4, <1>5, <2>1
  <1>7. /\ Drop(chunk, taken) \in Seq(Buffer) /\ Len(Drop(chunk, taken)) = Len(chunk) - taken
        /\ \A i \in 1 .. Len(Drop(chunk, taken)) :
             taken + i \in 1 .. Len(chunk) /\ Drop(chunk, taken)[i] = chunk[taken + i]
    <2>1. /\ Drop(chunk, taken) \in Seq(Buffer)
          /\ Len(Drop(chunk, taken)) = IF taken < Len(chunk) THEN Len(chunk) - taken ELSE 0
          /\ \A i \in 1 .. Len(Drop(chunk, taken)) :
               taken + i \in 1 .. Len(chunk) /\ Drop(chunk, taken)[i] = chunk[taken + i]
      BY <1>1, <1>5, DropOf
    <2> QED
      BY <1>4, <1>5, <2>1
  <1>8. /\ Drop(rest, Len(chunk)) \in Seq(Buffer)
        /\ Len(Drop(rest, Len(chunk))) = Len(rest) - Len(chunk)
        /\ \A i \in 1 .. Len(Drop(rest, Len(chunk))) :
             /\ Len(chunk) + i \in 1 .. Len(rest)
             /\ Drop(rest, Len(chunk))[i] = rest[Len(chunk) + i]
    <2>1. /\ Drop(rest, Len(chunk)) \in Seq(Buffer)
          /\ Len(Drop(rest, Len(chunk))) =
               IF Len(chunk) < Len(rest) THEN Len(rest) - Len(chunk) ELSE 0
          /\ \A i \in 1 .. Len(Drop(rest, Len(chunk))) :
               /\ Len(chunk) + i \in 1 .. Len(rest)
               /\ Drop(rest, Len(chunk))[i] = rest[Len(chunk) + i]
      BY <1>5, DropOf
    <2> QED
      BY <1>2, <1>3, <1>5, <2>1
  <1>9. Part(First(chunk, taken), rest, 0)
    <2>1. ASSUME NEW i \in 1 .. Len(First(chunk, taken))
          PROVE  i \in 1 .. Len(rest) /\ First(chunk, taken)[i] = rest[i] /\ 0 + i = i
      <3>1. i \in 1 .. taken /\ 0 + i = i
        BY <1>5, <1>6
      <3>2. i \in 1 .. Len(chunk) /\ First(chunk, taken)[i] = chunk[i]
        BY <1>6, <3>1
      <3> QED
        BY <1>1, <3>1, <3>2
    <2> QED
      BY <1>6, <2>1 DEF Part
  <1>10. Part(Drop(chunk, taken), rest, taken)
    BY <1>1, <1>5, <1>7 DEF Part
  <1>11. Part(Drop(rest, Len(chunk)), rest, Len(chunk))
    BY <1>5, <1>8 DEF Part
  <1> QED
    BY <1>3, <1>4, <1>6, <1>7, <1>8, <1>9, <1>10, <1>11 DEF chunk, taken

(* Buffers that hold their bytes, one run after the other, and a later part. *)
LEMMA IntactJoined ==
  ASSUME NEW ring, NEW a \in Seq(Buffer), NEW b \in Seq(Buffer),
         NEW ia \in Seq(Index), NEW ib \in Seq(Index),
         Intact(ring, a, ia), Intact(ring, b, ib)
  PROVE  Intact(ring, a \o b, ia \o ib)
  <1> DEFINE c == a \o b
             ic == ia \o ib
  <1> HIDE DEF c, ic
  <1>1. /\ c \in Seq(Buffer) /\ Len(c) = Len(a) + Len(b)
        /\ \A i \in 1 .. Len(c) : c[i] = IF i <= Len(a) THEN a[i] ELSE b[i - Len(a)]
    <2>1. /\ a \o b \in Seq(Buffer) /\ Len(a \o b) = Len(a) + Len(b)
          /\ \A i \in 1 .. Len(a) + Len(b) :
               (a \o b)[i] = IF i <= Len(a) THEN a[i] ELSE b[i - Len(a)]
      OBVIOUS
    <2> QED
      BY <2>1, Zenon DEF c, ic
  <1>2. /\ Len(ic) = Len(ia) + Len(ib)
        /\ \A i \in 1 .. Len(ic) : ic[i] = IF i <= Len(ia) THEN ia[i] ELSE ib[i - Len(ia)]
    <2>1. /\ Len(ia \o ib) = Len(ia) + Len(ib)
          /\ \A i \in 1 .. Len(ia) + Len(ib) :
               (ia \o ib)[i] = IF i <= Len(ia) THEN ia[i] ELSE ib[i - Len(ia)]
      OBVIOUS
    <2> QED
      BY <2>1, Zenon DEF c, ic
  <1>3. /\ DOMAIN a = 1 .. Len(a) /\ DOMAIN b = 1 .. Len(b) /\ DOMAIN c = 1 .. Len(c)
        /\ Len(a) \in Nat /\ Len(b) \in Nat /\ Len(ia) = Len(a) /\ Len(ib) = Len(b)
    BY <1>1 DEF Intact
  <1>4. ASSUME NEW i \in DOMAIN c
        PROVE  \/ i \in DOMAIN a /\ c[i] = a[i] /\ ic[i] = ia[i]
               \/ i - Len(a) \in DOMAIN b /\ c[i] = b[i - Len(a)] /\ ic[i] = ib[i - Len(a)]
    BY <1>1, <1>2, <1>3
  <1> QED
    <2>1. Intact(ring, c, ic)
      BY <1>1, <1>2, <1>3, <1>4 DEF Intact
    <2> QED
      BY <2>1 DEF c, ic

LEMMA IntactPart ==
  ASSUME NEW ring, NEW s, NEW indices \in Seq(Index), Intact(ring, s, indices),
         NEW p, NEW d, Part(p, s, d), NEW ip \in Seq(Index), Len(ip) = Len(p),
         \A i \in 1 .. Len(ip) : ip[i] = indices[d + i]
  PROVE  Intact(ring, p, ip)
  <1>1. /\ DOMAIN p = 1 .. Len(p) /\ DOMAIN s = 1 .. Len(s)
        /\ \A i \in 1 .. Len(p) : d + i \in 1 .. Len(s) /\ p[i] = s[d + i]
    BY DEF Part
  <1>2. ASSUME NEW i \in DOMAIN p
        PROVE  d + i \in DOMAIN s /\ p[i] = s[d + i] /\ ip[i] = indices[d + i]
    BY <1>1
  <1> QED
    BY <1>2 DEF Intact

(* One chunk: what it does not send stays first in the batch or with the     *)
(* flight, whose slots are listed again.                                     *)
LEMMA WriteChunkGood ==
  ASSUME NEW fr, NEW rest, NEW indices, NEW slots \in Seq(Index),
         Owing(fr, ToSet(slots)), Ready(fr, rest, indices)
  PROVE  /\ Good(WriteChunk(fr, rest, indices, slots))
         /\ WriteChunk(fr, rest, indices, slots).totalFrames = fr.totalFrames
         /\ HeldIn(fr) \cup Ids(rest) \subseteq
              HeldIn(WriteChunk(fr, rest, indices, slots))
                \cup ToSet(WriteChunk(fr, rest, indices, slots).written)
  <1> DEFINE chunk   == First(rest, fr.cap)
             room    == HighWaterMark - Len(fr.buf)
             blocked == Len(chunk) >= room
             taken   == IF ~blocked THEN Len(chunk) ELSE IF room > 1 THEN room ELSE 1
             sent    == First(chunk, taken)
             back    == Drop(chunk, taken)
             backIdx == Drop(First(indices, fr.cap), taken)
             later   == Drop(rest, Len(chunk))
             laterIdx == Drop(indices, Len(chunk))
             waits   == fr.draining \/ blocked
             n       == Len(chunk)
             ids     == [i \in 1 .. Len(sent) |-> sent[i].id]
             flight  == [rest |-> later, indices |-> laterIdx, slots |-> slots,
                         state |-> IF waits THEN "waiting" ELSE "resumed"]
             outBatch == back \o fr.outBatch
             newIdx  == IF back = <<>> THEN fr.indices ELSE backIdx \o fr.indices
             buf     == fr.buf \o sent
             written == fr.written \o ids
             flights == Append(fr.flights, flight)
             needDrain == fr.needDrain \/ blocked
             timer   == fr.timer \/ fr.timed
             new     == WriteChunk(fr, rest, indices, slots)
  <1>0. /\ fr \in Framer /\ rest \in Seq(Buffer) /\ rest # <<>> /\ indices \in Seq(Index)
        /\ fr.cap \in Nat \ {0} /\ fr.buf \in Seq(Buffer)
    BY FramerFields, FramerAssumption DEF Owing, Ready, Caps
  <1>1. /\ n \in 1 .. Len(rest) /\ (Len(rest) <= fr.cap => n = Len(rest))
        /\ taken \in 1 .. n
        /\ Part(sent, rest, 0) /\ Len(sent) = taken
        /\ Part(back, rest, taken) /\ Len(back) = n - taken
        /\ Part(later, rest, n) /\ Len(later) = Len(rest) - n
    BY <1>0, CutUp
  <1>2. n \in Nat /\ taken \in Nat /\ Len(rest) \in Nat
    BY <1>0, <1>1
  <1>3. /\ sent \in Seq(Buffer) /\ back \in Seq(Buffer) /\ later \in Seq(Buffer)
        /\ backIdx \in Seq(Index) /\ laterIdx \in Seq(Index)
    BY <1>0, <1>1, <1>2, FirstOf, DropOf DEF Part
  <1>4. waits \in BOOLEAN /\ needDrain \in BOOLEAN /\ timer \in BOOLEAN
    BY <1>0, FramerFields
  <1>5. new = LET left == QueueRemainder(fr, back, backIdx) IN
               [left EXCEPT !.buf = left.buf \o sent, !.written = left.written \o ids,
                  !.needDrain = left.needDrain \/ blocked, !.draining = waits,
                  !.flights = Append(left.flights, flight)]
    BY DEF WriteChunk
  <1>6. /\ outBatch \in Seq(Buffer) /\ newIdx \in Seq(Index) /\ buf \in Seq(Buffer)
        /\ ids \in Seq(Frames) /\ written \in Seq(Frames)
        /\ flight \in Flight /\ flights \in Seq(Flight)
    <2>1. /\ fr.outBatch \in Seq(Buffer) /\ fr.indices \in Seq(Index)
          /\ fr.written \in Seq(Frames) /\ fr.flights \in Seq(Flight)
      BY <1>0, FramerFields
    <2>2. outBatch \in Seq(Buffer) /\ buf \in Seq(Buffer) /\ newIdx \in Seq(Index)
      BY <1>0, <1>3, <2>1
    <2>3. ids \in Seq(Frames)
      <3>1. \A i \in 1 .. Len(sent) : sent[i].id \in Frames
        BY <1>3, BufferId
      <3>2. Len(sent) \in Nat
        BY <1>3
      <3> QED
        BY <3>1, <3>2
    <2>4. flight \in Flight
      BY <1>3 DEF Flight
    <2> HIDE DEF ids, flight
    <2> QED
      BY <2>1, <2>2, <2>3, <2>4
  <1> HIDE DEF waits, needDrain, timer, outBatch, newIdx, buf, written, flights
  <1>7. /\ new \in Framer
        /\ new.ring = fr.ring /\ new.outBatch = outBatch /\ new.indices = newIdx
        /\ new.flights = flights /\ new.totalFrames = fr.totalFrames
        /\ new.written = written /\ new.overflowed = fr.overflowed
        /\ new.shrunk = fr.shrunk /\ new.socket = fr.socket
    <2>1. CASE back = <<>>
      <3>0. fr.outBatch \in Seq(Buffer)
        BY <1>0, FramerFields
      <3>1. outBatch = fr.outBatch /\ newIdx = fr.indices
        BY <2>1, <3>0, ConcatEmptySeq, Zenon DEF outBatch, newIdx
      <3>2. new = [fr EXCEPT !.buf = buf, !.written = written, !.needDrain = needDrain,
                             !.draining = waits, !.flights = flights]
        BY <1>0, <1>5, <2>1 DEF QueueRemainder, Framer, buf, written, needDrain, flights
      <3> HIDE DEF new
      <3> QED
        BY <1>0, <1>4, <1>6, <3>1, <3>2, ZenonT(60) DEF Framer, Buffer, Index, Flight
    <2>2. CASE back # <<>>
      <3>1. outBatch = back \o fr.outBatch /\ newIdx = backIdx \o fr.indices
        BY <2>2 DEF outBatch, newIdx
      <3>2. new = [fr EXCEPT !.outBatch = outBatch, !.indices = newIdx, !.timer = timer,
                             !.buf = buf, !.written = written, !.needDrain = needDrain,
                             !.draining = waits, !.flights = flights]
        BY <1>0, <1>5, <2>2, <3>1, SMTT(30)
           DEF QueueRemainder, Framer, buf, written, needDrain, flights, timer
      <3> HIDE DEF new
      <3> QED
        BY <1>0, <1>4, <1>6, <3>2, ZenonT(60) DEF Framer, Buffer, Index, Flight
    <2> QED
      BY <2>1, <2>2
  <1> HIDE DEF new, chunk, taken, sent, back, backIdx, later, laterIdx, n, ids
  <1>8. /\ DOMAIN flights = DOMAIN fr.flights \cup {Len(fr.flights) + 1}
        /\ \A k \in DOMAIN fr.flights : flights[k] = fr.flights[k]
        /\ flights[Len(fr.flights) + 1] = flight
    <2>1. fr.flights \in Seq(Flight)
      BY <1>0, FramerFields
    <2> HIDE DEF flight
    <2> QED
      BY <1>6, <2>1 DEF flights
  <1>9. /\ flight.rest = later /\ flight.slots = slots
        /\ flight.state \in {"resumed", "waiting"}
    OBVIOUS
  <1> HIDE DEF flight
  <1>10. /\ fr.outBatch \in Seq(Buffer) /\ fr.indices \in Seq(Index)
         /\ fr.written \in Seq(Frames)
    BY <1>0, FramerFields
  <1>11. Part(back, rest, taken) /\ Part(later, rest, n) /\ taken + Len(back) <= n
    BY <1>1, <1>2
  <1>12. /\ Unique(back) /\ Unique(fr.outBatch) /\ Disjoint(back, fr.outBatch)
            => Unique(outBatch)
         /\ Increasing(back) /\ Increasing(fr.outBatch) /\ Below(back, fr.outBatch)
            => Increasing(outBatch)
         /\ \A m : UpTo(back, m) /\ UpTo(fr.outBatch, m) => UpTo(outBatch, m)
         /\ \A u : Disjoint(u, back) /\ Disjoint(u, fr.outBatch) => Disjoint(u, outBatch)
         /\ \A u : Before(u, back) /\ Before(u, fr.outBatch) => Before(u, outBatch)
         /\ Ids(outBatch) = Ids(back) \cup Ids(fr.outBatch)
    BY <1>3, <1>10, Joined, ZenonT(60) DEF outBatch
  <1>13. Single(new)
    <2>1. /\ Unique(rest) /\ UpTo(rest, fr.totalFrames) /\ Disjoint(rest, fr.outBatch)
          /\ \A k \in DOMAIN fr.flights : Disjoint(fr.flights[k].rest, rest)
      BY DEF Ready
    <2>2. Single(fr)
      BY DEF Owing
    <2>3. /\ Unique(back) /\ UpTo(back, fr.totalFrames) /\ Disjoint(back, fr.outBatch)
          /\ \A k \in DOMAIN fr.flights : Disjoint(fr.flights[k].rest, back)
      BY <1>11, <2>1, PartOf
    <2>4. /\ Unique(later) /\ UpTo(later, fr.totalFrames) /\ Disjoint(later, fr.outBatch)
          /\ \A k \in DOMAIN fr.flights : Disjoint(fr.flights[k].rest, later)
      BY <1>11, <2>1, PartOf
    <2>5. Disjoint(later, back)
      BY <1>11, <2>1, PartsOf
    <2>6. Unique(outBatch) /\ UpTo(outBatch, fr.totalFrames)
      BY <1>12, <2>2, <2>3 DEF Single
    <2>7. /\ Disjoint(later, outBatch)
          /\ \A k \in DOMAIN fr.flights : Disjoint(fr.flights[k].rest, outBatch)
      BY <1>12, <2>2, <2>3, <2>4, <2>5 DEF Single
    <2>8. \A k \in DOMAIN fr.flights : Disjoint(later, fr.flights[k].rest)
      BY <2>4 DEF Disjoint
    <2>9. ASSUME NEW k \in DOMAIN flights
          PROVE  /\ Unique(flights[k].rest) /\ UpTo(flights[k].rest, fr.totalFrames)
                 /\ Disjoint(flights[k].rest, outBatch)
      BY <1>8, <1>9, <2>2, <2>4, <2>7, Zenon DEF Single
    <2>10. ASSUME NEW k \in DOMAIN flights, NEW m \in DOMAIN flights, k # m
           PROVE  Disjoint(flights[k].rest, flights[m].rest)
      BY <1>8, <1>9, <2>2, <2>4, <2>8, <2>10, Zenon DEF Single
    <2> QED
      BY <1>7, <2>6, <2>9, <2>10, Zenon DEF Single
  <1>14. Live(new) = Live(fr) \cup {Len(fr.flights) + 1}
    <2>1. Len(fr.flights) + 1 \notin DOMAIN fr.flights
      <3>1. fr.flights \in Seq(Flight)
        BY <1>0, FramerFields
      <3> QED
        BY <3>1
    <2> QED
      BY <1>7, <1>8, <1>9, <2>1 DEF Live
  <1>15. Listed(new, {})
    <2>1. ToSet(fr.indices) \subseteq ToSet(newIdx)
      <3>1. CASE back = <<>>
        BY <3>1 DEF newIdx
      <3>2. CASE back # <<>>
        <4>1. newIdx = backIdx \o fr.indices
          BY <3>2 DEF newIdx
        <4>2. Len(backIdx) \in Nat /\ DOMAIN fr.indices = 1 .. Len(fr.indices)
          BY <1>3, <1>10
        <4>3. \A i \in 1 .. Len(fr.indices) :
                /\ Len(backIdx) + i \in DOMAIN (backIdx \o fr.indices)
                /\ (backIdx \o fr.indices)[Len(backIdx) + i] = fr.indices[i]
          BY <1>3, <1>10
        <4> QED
          BY <4>1, <4>2, <4>3 DEF ToSet
      <3> QED
        BY <3>1, <3>2
    <2> SUFFICES ASSUME NEW s \in Slots, fr.ring[s].inUse
                 PROVE  \/ s \in ToSet(newIdx)
                        \/ \E k \in DOMAIN flights : s \in ToSet(flights[k].slots)
      BY <1>7, Zenon DEF Listed
    <2>2. \/ s \in ToSet(slots) \/ s \in ToSet(fr.indices)
          \/ \E k \in DOMAIN fr.flights : s \in ToSet(fr.flights[k].slots)
      BY DEF Owing, Listed
    <2> QED
      BY <1>8, <1>9, <2>1, <2>2, Zenon
  <1>16. /\ DOMAIN written = 1 .. Len(fr.written) + taken
         /\ Len(fr.written) \in Nat /\ DOMAIN fr.written = 1 .. Len(fr.written)
         /\ \A i \in DOMAIN written :
              \/ i \in DOMAIN fr.written /\ written[i] = fr.written[i]
              \/ /\ i > Len(fr.written) /\ i - Len(fr.written) \in DOMAIN sent
                 /\ written[i] = sent[i - Len(fr.written)].id
    <2>1. Len(ids) = taken /\ DOMAIN sent = 1 .. taken
          /\ \A i \in 1 .. taken : ids[i] = sent[i].id
      BY <1>1, <1>2, <1>3 DEF ids
    <2>2. /\ Len(fr.written \o ids) = Len(fr.written) + Len(ids)
          /\ \A i \in 1 .. Len(fr.written) + Len(ids) :
               (fr.written \o ids)[i] =
                 IF i <= Len(fr.written) THEN fr.written[i] ELSE ids[i - Len(fr.written)]
      BY <1>6, <1>10
    <2>3. DOMAIN written = 1 .. Len(written) /\ Len(fr.written) \in Nat
          /\ DOMAIN fr.written = 1 .. Len(fr.written)
      BY <1>6, <1>10
    <2>4. DOMAIN written = 1 .. Len(fr.written) + taken
      BY <2>1, <2>2, <2>3, Zenon DEF written
    <2>5. \A i \in 1 .. Len(fr.written) + taken :
             written[i] =
               IF i <= Len(fr.written) THEN fr.written[i] ELSE ids[i - Len(fr.written)]
      BY <2>1, <2>2, Zenon DEF written
    <2>6. ASSUME NEW i \in DOMAIN written
          PROVE  \/ i \in DOMAIN fr.written /\ written[i] = fr.written[i]
                 \/ /\ i > Len(fr.written) /\ i - Len(fr.written) \in DOMAIN sent
                    /\ written[i] = sent[i - Len(fr.written)].id
      <3>1. i \in 1 .. Len(fr.written) + taken
        BY <2>4
      <3>2. CASE i <= Len(fr.written)
        BY <1>2, <2>3, <2>5, <3>1, <3>2
      <3>3. CASE ~(i <= Len(fr.written))
        <4>1. i > Len(fr.written) /\ i - Len(fr.written) \in 1 .. taken
          BY <1>2, <2>3, <3>1, <3>3
        <4>2. written[i] = ids[i - Len(fr.written)]
          BY <2>5, <3>1, <3>3
        <4> QED
          BY <2>1, <4>1, <4>2
      <3> QED
        BY <3>2, <3>3
    <2> QED
      BY <2>3, <2>4, <2>6
  <1>17. ASSUME ~fr.shrunk
         PROVE  InSequence(new)
    <2>1. /\ Len(rest) <= fr.cap /\ Increasing(rest) /\ Before(fr.written, rest)
          /\ Below(rest, fr.outBatch) /\ UpTo(rest, fr.totalFrames)
      BY <1>17 DEF Ready
    <2>2. InSequence(fr)
      BY <1>17 DEF Owing
    <2>3. Part(sent, rest, 0) /\ 0 + Len(sent) <= taken
      BY <1>1, <1>2
    <2>4. later = <<>>
      BY <1>1, <1>2, <1>3, <2>1
    <2>5. \A k \in DOMAIN flights : flights[k].rest = <<>>
      BY <1>8, <1>9, <2>2, <2>4, Zenon DEF InSequence
    <2>6. Increasing(back) /\ Below(back, fr.outBatch) /\ Before(fr.written, back)
      BY <1>11, <2>1, PartOf
    <2>7. Increasing(outBatch)
      BY <1>12, <2>2, <2>6 DEF InSequence
    <2>8. Before(fr.written, outBatch)
      BY <1>12, <2>2, <2>6 DEF InSequence
    <2>9. /\ Increasing(sent) /\ Below(sent, fr.outBatch) /\ Before(fr.written, sent)
          /\ UpTo(sent, fr.totalFrames)
      BY <2>1, <2>3, PartOf
    <2>10. Below(sent, back)
      BY <1>11, <2>1, <2>3, PartsOf
    <2>11. Before(ids, outBatch)
      <3>1. DOMAIN ids = DOMAIN sent /\ \A i \in DOMAIN sent : ids[i] = sent[i].id
        BY <1>3 DEF ids
      <3>2. Before(ids, back) /\ Before(ids, fr.outBatch)
        BY <2>9, <2>10, <3>1 DEF Before, Below
      <3> QED
        BY <1>12, <3>2
    <2>12. Before(written, outBatch)
      <3>1. \A i \in DOMAIN sent : i \in DOMAIN ids /\ ids[i] = sent[i].id
        BY <1>3 DEF ids
      <3> QED
        BY <1>16, <2>8, <2>11, <3>1, ZenonT(60) DEF Before
    <2>13. \A i, j \in DOMAIN written : i < j => written[i] < written[j]
      <3> SUFFICES ASSUME NEW i \in DOMAIN written, NEW j \in DOMAIN written, i < j
                   PROVE  written[i] < written[j]
        OBVIOUS
      <3>1. CASE j \in DOMAIN fr.written /\ written[j] = fr.written[j]
        <4>1. i \in DOMAIN fr.written /\ written[i] = fr.written[i]
          BY <1>2, <1>16, <3>1
        <4> QED
          BY <2>2, <3>1, <4>1 DEF InSequence
      <3>2. CASE /\ j > Len(fr.written) /\ j - Len(fr.written) \in DOMAIN sent
                 /\ written[j] = sent[j - Len(fr.written)].id
        <4>1. CASE i \in DOMAIN fr.written /\ written[i] = fr.written[i]
          BY <2>9, <3>2, <4>1 DEF Before
        <4>2. CASE /\ i > Len(fr.written) /\ i - Len(fr.written) \in DOMAIN sent
                   /\ written[i] = sent[i - Len(fr.written)].id
          <5>1. i - Len(fr.written) < j - Len(fr.written)
            BY <1>2, <1>16
          <5> QED
            BY <2>9, <3>2, <4>2, <5>1 DEF Increasing
        <4> QED
          BY <1>16, <4>1, <4>2
      <3> QED
        BY <1>16, <3>1, <3>2
    <2>14. \A i \in DOMAIN written : written[i] <= fr.totalFrames
      BY <1>16, <2>2, <2>9, Zenon DEF InSequence, UpTo
    <2> QED
      BY <1>7, <2>5, <2>7, <2>12, <2>13, <2>14, Zenon DEF InSequence
  <1>18. ASSUME ~fr.shrunk, ~fr.overflowed
         PROVE  Intact(fr.ring, outBatch, newIdx)
    <2>1. /\ Len(rest) <= fr.cap /\ Intact(fr.ring, rest, indices)
          /\ Intact(fr.ring, fr.outBatch, fr.indices)
      BY <1>18 DEF Ready, Owing
    <2>2. Len(indices) = Len(rest)
      BY <2>1 DEF Intact
    <2> DEFINE head == First(indices, fr.cap)
    <2>3. head \in Seq(Index) /\ Len(head) = Len(rest)
          /\ \A i \in 1 .. Len(head) : head[i] = indices[i]
      <3>1. /\ head \in Seq(Index)
            /\ Len(head) = IF fr.cap < Len(indices) THEN fr.cap ELSE Len(indices)
            /\ \A i \in 1 .. Len(head) : head[i] = indices[i]
        BY <1>0, FirstOf
      <3> HIDE DEF head
      <3> QED
        BY <1>0, <1>2, <2>1, <2>2, <3>1
    <2> HIDE DEF head
    <2>4. /\ Len(backIdx) = Len(back)
          /\ \A i \in 1 .. Len(backIdx) : backIdx[i] = indices[taken + i]
      <3>1. /\ Len(backIdx) = IF taken < Len(head) THEN Len(head) - taken ELSE 0
            /\ \A i \in 1 .. Len(backIdx) :
                 taken + i \in 1 .. Len(head) /\ backIdx[i] = head[taken + i]
        BY <1>2, <2>3, DropOf DEF backIdx, head
      <3>2. n = Len(rest)
        BY <1>1, <2>1
      <3>3. Len(backIdx) = Len(back)
        BY <1>1, <1>2, <2>3, <3>1, <3>2
      <3>4. \A i \in 1 .. Len(backIdx) : backIdx[i] = indices[taken + i]
        BY <2>3, <3>1
      <3> QED
        BY <3>3, <3>4
    <2>5. Intact(fr.ring, back, backIdx)
      BY <1>0, <1>3, <1>11, <2>1, <2>4, IntactPart
    <2>6. CASE back = <<>>
      <3>1. outBatch = fr.outBatch /\ newIdx = fr.indices
        BY <1>10, <2>6, ConcatEmptySeq, Zenon DEF outBatch, newIdx
      <3> QED
        BY <2>1, <3>1
    <2>7. CASE back # <<>>
      <3>1. outBatch = back \o fr.outBatch /\ newIdx = backIdx \o fr.indices
        BY <2>7 DEF outBatch, newIdx
      <3>2. Intact(fr.ring, back \o fr.outBatch, backIdx \o fr.indices)
        BY <1>3, <1>10, <2>1, <2>5, IntactJoined
      <3> QED
        BY <3>1, <3>2, Zenon
    <2> QED
      BY <2>6, <2>7
  <1>19. Ids(rest) \subseteq Ids(back) \cup Ids(later) \cup ToSet(written)
    <2>1. ASSUME NEW i \in DOMAIN rest
          PROVE  rest[i].id \in Ids(back) \cup Ids(later) \cup ToSet(written)
      <3>0. /\ DOMAIN rest = 1 .. Len(rest) /\ DOMAIN back = 1 .. Len(back)
            /\ DOMAIN later = 1 .. Len(later)
        BY <1>0, <1>3
      <3>1. CASE i <= taken
        <4>1. Len(fr.written) + i \in DOMAIN written /\ written[Len(fr.written) + i] = rest[i].id
          <5>1. i \in 1 .. taken /\ sent[i] = rest[i]
            <6>1. i \in 1 .. Len(sent) /\ 0 + i = i
              BY <1>1, <1>2, <3>0, <3>1
            <6> QED
              BY <1>1, <6>1 DEF Part
          <5>2. /\ Len(fr.written) + i \in DOMAIN written
                /\ Len(fr.written) + i \notin DOMAIN fr.written
                /\ (Len(fr.written) + i) - Len(fr.written) = i
            BY <1>2, <1>16, <5>1
          <5> QED
            BY <1>16, <5>1, <5>2
        <4> QED
          BY <4>1 DEF ToSet
      <3>2. CASE i > taken /\ i <= n
        <4>1. i - taken \in DOMAIN back /\ back[i - taken] = rest[i]
          BY <1>1, <1>2, <3>0, <3>2 DEF Part
        <4> QED
          BY <4>1 DEF Ids
      <3>3. CASE i > n
        <4>1. i - n \in DOMAIN later /\ later[i - n] = rest[i]
          BY <1>1, <1>2, <3>0, <3>3 DEF Part
        <4> QED
          BY <4>1 DEF Ids
      <3> QED
        BY <1>2, <3>0, <3>1, <3>2, <3>3
    <2> QED
      BY <2>1 DEF Ids
  <1>20. HeldIn(fr) \cup Ids(rest) \subseteq HeldIn(new) \cup ToSet(new.written)
    <2>1. HeldIn(new) = Ids(outBatch) \cup UNION {Ids(flights[k].rest) : k \in Live(new)}
      BY <1>7 DEF HeldIn
    <2>2. Ids(later) \subseteq HeldIn(new)
      BY <1>8, <1>9, <1>14, <2>1
    <2>3. UNION {Ids(fr.flights[k].rest) : k \in Live(fr)} \subseteq HeldIn(new)
      <3>1. \A k \in Live(fr) : flights[k] = fr.flights[k]
        BY <1>8 DEF Live
      <3> QED
        BY <1>14, <2>1, <3>1
    <2> QED
      BY <1>7, <1>12, <1>19, <2>1, <2>2, <2>3 DEF HeldIn
  <1> QED
    BY <1>7, <1>13, <1>15, <1>17, <1>18, <1>20 DEF Good, Owing, new

-----------------------------------------------------------------------------
(* The frame encoded last comes after every other. *)

LEMMA Later ==
  ASSUME NEW u \in Seq(Buffer), NEW m \in Nat, UpTo(u, m)
  PROVE  UpTo(u, m + 1) /\ \A i \in DOMAIN u : u[i].id < m + 1
  <1> SUFFICES ASSUME NEW i \in DOMAIN u
               PROVE  u[i].id <= m + 1 /\ u[i].id < m + 1
    BY DEF UpTo
  <1>1. u[i].id \in Nat
    BY BufferId
  <1>2. u[i].id <= m
    BY DEF UpTo
  <1> QED
    BY <1>1, <1>2

LEMMA Appended ==
  ASSUME NEW s \in Seq(Buffer), NEW b \in Buffer, NEW m \in Nat, UpTo(s, m), b.id = m + 1
  PROVE  LET c == Append(s, b) IN
         /\ c \in Seq(Buffer) /\ Len(c) = Len(s) + 1
         /\ \A i \in DOMAIN c : \/ i \in DOMAIN s /\ c[i] = s[i]
                                \/ i = Len(s) + 1 /\ c[i] = b
         /\ UpTo(c, m + 1)
         /\ Unique(s) => Unique(c)
         /\ Increasing(s) => Increasing(c)
         /\ \A u \in Seq(Buffer) : UpTo(u, m) /\ Disjoint(u, s) => Disjoint(u, c)
         /\ Ids(s) \cup {m + 1} \subseteq Ids(c)
  <1> DEFINE c == Append(s, b)
  <1>1. /\ c \in Seq(Buffer) /\ Len(c) = Len(s) + 1
        /\ DOMAIN c = 1 .. Len(s) + 1 /\ DOMAIN s = 1 .. Len(s) /\ Len(s) \in Nat
        /\ \A i \in 1 .. Len(s) : c[i] = s[i]
        /\ c[Len(s) + 1] = b
    OBVIOUS
  <1> HIDE DEF c
  <1>2. \A i \in DOMAIN c : \/ i \in DOMAIN s /\ c[i] = s[i]
                            \/ i = Len(s) + 1 /\ c[i] = b
    BY <1>1
  <1>3. UpTo(s, m + 1) /\ \A i \in DOMAIN s : s[i].id < m + 1 /\ s[i].id # m + 1
    <2>1. UpTo(s, m + 1) /\ \A i \in DOMAIN s : s[i].id < m + 1
      BY Later
    <2>2. \A i \in DOMAIN s : s[i].id \in Nat
      BY BufferId
    <2> QED
      BY <2>1, <2>2
  <1>4. UpTo(c, m + 1)
    <2>1. m + 1 <= m + 1
      OBVIOUS
    <2> QED
      BY <1>2, <1>3, <2>1, Zenon DEF UpTo
  <1>5. Unique(s) => Unique(c)
    <2> SUFFICES ASSUME Unique(s), NEW i \in DOMAIN c, NEW j \in DOMAIN c, c[i].id = c[j].id
                 PROVE  i = j
      BY DEF Unique
    <2> QED
      BY <1>2, <1>3, Zenon DEF Unique
  <1>6. ASSUME Increasing(s), NEW i \in DOMAIN c, NEW j \in DOMAIN c, i < j
        PROVE  c[i].id < c[j].id
    <2>1. i \in DOMAIN s /\ c[i] = s[i]
      BY <1>1, <1>2, <1>6
    <2> QED
      BY <1>2, <1>3, <1>6, <2>1 DEF Increasing
  <1>7. ASSUME NEW u \in Seq(Buffer), UpTo(u, m), Disjoint(u, s)
        PROVE  Disjoint(u, c)
    <2>1. \A i \in DOMAIN u : u[i].id < m + 1 /\ u[i].id \in Nat
      BY <1>7, Later, BufferId
    <2>2. \A i \in DOMAIN u : u[i].id # m + 1
      BY <2>1
    <2> QED
      BY <1>2, <1>7, <2>2, Zenon DEF Disjoint
  <1>8. Ids(s) \cup {m + 1} \subseteq Ids(c)
    <2>1. Len(s) + 1 \in DOMAIN c /\ c[Len(s) + 1].id = m + 1
      BY <1>1
    <2>2. \A i \in DOMAIN s : i \in DOMAIN c /\ c[i] = s[i]
      BY <1>1
    <2>3. m + 1 \in Ids(c)
      BY <2>1 DEF Ids
    <2>4. Ids(s) \subseteq Ids(c)
      BY <2>2 DEF Ids
    <2> QED
      BY <2>3, <2>4
  <1> QED
    BY <1>1, <1>2, <1>4, <1>5, <1>6, <1>7, <1>8 DEF Increasing, c

(* Whatever buffer the frame gets, it is queued once and last.              *)
LEMMA EncodedInOrder ==
  ASSUME NEW fr, Good(fr), fr.totalFrames < MaxFrames,
         NEW b \in Buffer, b.id = fr.totalFrames + 1,
         NEW new \in Framer, new.outBatch = Append(fr.outBatch, b),
         new.totalFrames = fr.totalFrames + 1, new.flights = fr.flights,
         new.written = fr.written, new.shrunk = fr.shrunk, new.socket = fr.socket
  PROVE  /\ Single(new) /\ (~new.shrunk => InSequence(new))
         /\ HeldIn(fr) \cup {fr.totalFrames + 1} \subseteq HeldIn(new)
  <1> DEFINE m == fr.totalFrames
  <1>0. /\ fr \in Framer /\ Single(fr) /\ (~fr.shrunk => InSequence(fr))
    BY DEF Good, Owing
  <1>1. /\ m \in Nat /\ fr.outBatch \in Seq(Buffer) /\ fr.written \in Seq(Frames)
        /\ \A k \in DOMAIN fr.flights : fr.flights[k].rest \in Seq(Buffer)
    <2>1. /\ m \in Frames \cup {0} /\ fr.outBatch \in Seq(Buffer)
          /\ fr.written \in Seq(Frames) /\ fr.flights \in Seq(Flight)
      BY <1>0, FramerFields
    <2>2. m \in Nat
      BY <2>1, FramerAssumption DEF Frames
    <2>3. \A k \in DOMAIN fr.flights : fr.flights[k] \in Flight
      BY <2>1
    <2> QED
      BY <2>1, <2>2, <2>3 DEF Flight
  <1>2. UpTo(fr.outBatch, m) /\ Unique(fr.outBatch)
    BY <1>0 DEF Single
  <1> DEFINE c == Append(fr.outBatch, b)
  <1>3. /\ \A i \in DOMAIN c : \/ i \in DOMAIN fr.outBatch /\ c[i] = fr.outBatch[i]
                               \/ i = Len(fr.outBatch) + 1 /\ c[i] = b
        /\ UpTo(c, m + 1) /\ Unique(c) /\ (Increasing(fr.outBatch) => Increasing(c))
        /\ \A u \in Seq(Buffer) : UpTo(u, m) /\ Disjoint(u, fr.outBatch) => Disjoint(u, c)
        /\ Ids(fr.outBatch) \cup {m + 1} \subseteq Ids(c)
    <2>1. b.id = m + 1
      OBVIOUS
    <2> HIDE DEF m
    <2> QED
      BY <1>1, <1>2, <2>1, Appended
  <1> HIDE DEF c
  <1>4. new.outBatch = c /\ new.totalFrames = m + 1
    BY DEF c
  <1> HIDE DEF m
  <1>5. ASSUME NEW k \in DOMAIN fr.flights
        PROVE  UpTo(fr.flights[k].rest, m + 1) /\ Disjoint(fr.flights[k].rest, c)
    <2>1. /\ fr.flights[k].rest \in Seq(Buffer) /\ UpTo(fr.flights[k].rest, m)
          /\ Disjoint(fr.flights[k].rest, fr.outBatch)
      BY <1>0, <1>1 DEF Single, m
    <2> QED
      BY <1>1, <1>3, <2>1, Later
  <1>6. Single(new)
    BY <1>0, <1>3, <1>4, <1>5, Zenon DEF Single
  <1>8. ASSUME ~new.shrunk
        PROVE  InSequence(new)
    <2>1. InSequence(fr)
      BY <1>0, <1>8
    <2>2. ASSUME NEW i \in DOMAIN fr.written
          PROVE  fr.written[i] < m + 1 /\ fr.written[i] <= m + 1
      <3>1. fr.written[i] \in Frames
        BY <1>1
      <3>2. fr.written[i] \in Nat
        BY <3>1, FramerAssumption DEF Frames
      <3>3. fr.written[i] <= m
        BY <2>1 DEF InSequence, m
      <3> QED
        BY <1>1, <3>2, <3>3
    <2>3. b.id = m + 1
      BY DEF m
    <2>4. Before(fr.written, c)
      BY <1>3, <2>1, <2>2, <2>3, Zenon DEF InSequence, Before
    <2> QED
      BY <1>3, <1>4, <2>1, <2>2, <2>4, Zenon DEF InSequence
  <1>9. HeldIn(fr) \cup {m + 1} \subseteq HeldIn(new)
    BY <1>3, <1>4 DEF HeldIn, Live
  <1> QED
    BY <1>6, <1>8, <1>9 DEF m

(* encode takes a slot that is not in use, so none that the batch holds.    *)
LEMMA EncodeGood ==
  ASSUME NEW fr, Good(fr), fr.totalFrames < MaxFrames
  PROVE  LET e == Encode([fr EXCEPT !.totalFrames = @ + 1], fr.totalFrames + 1)
         IN /\ Good(e) /\ e.socket = fr.socket /\ e.totalFrames = fr.totalFrames + 1
            /\ e.outBatch # <<>>
            /\ HeldIn(fr) \cup {fr.totalFrames + 1} \subseteq HeldIn(e)
  <1> DEFINE id == fr.totalFrames + 1
             fn == [fr EXCEPT !.totalFrames = id]
             e  == Encode(fn, id)
  <1>0. fr \in Framer
    BY DEF Good, Owing
  <1>1. id \in Frames /\ id \in Nat
    BY <1>0, FramerFields, FramerAssumption, SMTT(30) DEF Frames
  <1> HIDE DEF id
  <1>2. /\ fn \in Framer /\ fn.totalFrames = id
        /\ fn.ring = fr.ring /\ fn.ringHead = fr.ringHead /\ fn.outBatch = fr.outBatch
        /\ fn.indices = fr.indices /\ fn.flights = fr.flights /\ fn.written = fr.written
        /\ fn.overflowed = fr.overflowed /\ fn.shrunk = fr.shrunk /\ fn.socket = fr.socket
    BY <1>0, <1>1 DEF Framer
  <1>3. fn = [fr EXCEPT !.totalFrames = @ + 1]
    BY <1>0 DEF id
  <1> HIDE DEF fn
  <1>4. /\ fr.outBatch \in Seq(Buffer) /\ fr.indices \in Seq(Index)
        /\ fr.ring \in [Slots -> [inUse: BOOLEAN, frame: Frames \cup {0}]]
        /\ fr.ringHead \in Slots
    BY <1>0, FramerFields
  <1>5. CASE Free(fn) = {}
    <2> DEFINE b   == [slot |-> NoSlot, id |-> id]
               out == Append(fr.outBatch, b)
    <2>1. b \in Buffer /\ b.id = id
      BY <1>1 DEF Buffer, Index
    <2> HIDE DEF b
    <2>2. out \in Seq(Buffer) /\ out # <<>>
      <3>1. out \in Seq(Buffer) /\ Len(out) = Len(fr.outBatch) + 1 /\ Len(fr.outBatch) \in Nat
        BY <1>4, <2>1
      <3> HIDE DEF out
      <3>2. Len(out) # 0
        BY <3>1
      <3> QED
        BY <3>1, <3>2
    <2>3. e = [fn EXCEPT !.outBatch = out, !.overflowed = TRUE]
      BY <1>2, <1>5 DEF Encode, b
    <2> HIDE DEF out
    <2>4. /\ e \in Framer /\ e.totalFrames = id
          /\ e.ring = fr.ring /\ e.outBatch = out /\ e.indices = fr.indices
          /\ e.flights = fr.flights /\ e.written = fr.written
          /\ e.overflowed = TRUE /\ e.shrunk = fr.shrunk /\ e.socket = fr.socket
      BY <1>2, <2>2, <2>3, ZenonT(60) DEF Framer, Buffer, Index
    <2> HIDE DEF e
    <2>5. /\ Single(e) /\ (~e.shrunk => InSequence(e))
          /\ HeldIn(fr) \cup {id} \subseteq HeldIn(e)
      BY <2>1, <2>4, EncodedInOrder DEF id, out
    <2>6. Listed(e, {})
      BY <2>4 DEF Good, Owing, Listed
    <2>7. Good(e)
      BY <2>4, <2>5, <2>6 DEF Good, Owing
    <2> QED
      BY <1>3, <2>2, <2>4, <2>5, <2>7 DEF id, e
  <1>6. CASE Free(fn) # {}
    <2> DEFINE i   == CHOOSE i \in Free(fn) : \A j \in Free(fn) : i <= j
               idx == (fn.ringHead + i) % RingSize
    <2>1. i \in Free(fn)
      <3>1. Free(fn) \in SUBSET Nat
        BY FramerAssumption DEF Free, Slots
      <3>2. \E x \in Free(fn) : \A y \in Free(fn) : x <= y
        BY <1>6, <3>1, SmallestOf
      <3> QED
        BY <3>2
    <2> HIDE DEF i
    <2>2. idx \in Slots /\ ~fr.ring[idx].inUse
      <3>1. i \in Nat /\ fn.ringHead \in Nat /\ RingSize \in Nat \ {0} /\ ~fn.ring[idx].inUse
        BY <1>2, <1>4, <2>1, FramerAssumption DEF Free, Slots
      <3>2. idx \in Slots
        BY <3>1 DEF Slots
      <3> QED
        BY <1>2, <3>1, <3>2
    <2> DEFINE b    == [slot |-> idx, id |-> id]
               out  == Append(fr.outBatch, b)
               ind  == Append(fr.indices, idx)
               ring == [fr.ring EXCEPT ![idx] = [inUse |-> TRUE, frame |-> id]]
               head == (idx + 1) % RingSize
    <2>3. e = [fn EXCEPT !.ring = ring, !.ringHead = head, !.indices = ind, !.outBatch = out]
      BY <1>2, <1>6 DEF Encode, i, Framer
    <2>4. head \in Slots
      BY <2>2, FramerAssumption DEF Slots
    <2> HIDE DEF idx, head
    <2>5. b \in Buffer /\ b.id = id /\ b.slot = idx /\ idx \in Index
      BY <1>1, <2>2 DEF Buffer, Index
    <2>6. /\ ring \in [Slots -> [inUse: BOOLEAN, frame: Frames \cup {0}]]
          /\ ring[idx] = [inUse |-> TRUE, frame |-> id]
          /\ \A s \in Slots : s # idx => ring[s] = fr.ring[s]
      BY <1>1, <1>4, <2>2
    <2> HIDE DEF b, ring
    <2>7. /\ out \in Seq(Buffer) /\ out # <<>> /\ ind \in Seq(Index)
          /\ Len(out) = Len(fr.outBatch) + 1 /\ Len(ind) = Len(fr.indices) + 1
          /\ DOMAIN out = 1 .. Len(fr.outBatch) + 1
          /\ DOMAIN ind = 1 .. Len(fr.indices) + 1 /\ DOMAIN fr.indices = 1 .. Len(fr.indices)
          /\ DOMAIN fr.outBatch = 1 .. Len(fr.outBatch)
          /\ Len(fr.indices) \in Nat /\ Len(fr.outBatch) \in Nat
          /\ \A k \in 1 .. Len(fr.outBatch) : out[k] = fr.outBatch[k]
          /\ \A k \in 1 .. Len(fr.indices) : ind[k] = fr.indices[k]
          /\ out[Len(fr.outBatch) + 1] = b /\ ind[Len(fr.indices) + 1] = idx
      BY <1>4, <2>5
    <2> HIDE DEF out, ind, e
    <2>8. /\ e \in Framer /\ e.totalFrames = id
          /\ e.ring = ring /\ e.outBatch = out /\ e.indices = ind
          /\ e.flights = fr.flights /\ e.written = fr.written
          /\ e.overflowed = fr.overflowed /\ e.shrunk = fr.shrunk /\ e.socket = fr.socket
      BY <1>2, <2>3, <2>4, <2>6, <2>7 DEF Framer, Buffer, Index
    <2> HIDE DEF e
    <2>9. /\ Single(e) /\ (~e.shrunk => InSequence(e))
          /\ HeldIn(fr) \cup {id} \subseteq HeldIn(e)
      BY <2>5, <2>8, EncodedInOrder DEF id, out
    <2>10. ToSet(fr.indices) \cup {idx} \subseteq ToSet(ind)
      <3>1. \A k \in DOMAIN fr.indices : k \in DOMAIN ind /\ ind[k] = fr.indices[k]
        BY <2>7
      <3>2. Len(fr.indices) + 1 \in DOMAIN ind
        BY <2>7
      <3> QED
        BY <2>7, <3>1, <3>2 DEF ToSet
    <2>11. Listed(e, {})
      <3>1. Listed(fr, {})
        BY DEF Good, Owing
      <3> QED
        BY <2>2, <2>6, <2>8, <2>10, <3>1 DEF Listed
    <2>12. ASSUME ~e.shrunk, ~e.overflowed
           PROVE  Intact(e.ring, e.outBatch, e.indices)
      <3>1. Intact(fr.ring, fr.outBatch, fr.indices)
        BY <2>8, <2>12 DEF Good, Owing
      <3>2. Len(fr.indices) = Len(fr.outBatch)
        BY <3>1 DEF Intact
      <3>3. ASSUME NEW k \in DOMAIN out
            PROVE  /\ out[k].slot \in Slots /\ ind[k] = out[k].slot
                   /\ ring[out[k].slot] = [inUse |-> TRUE, frame |-> out[k].id]
        <4>1. CASE k \in DOMAIN fr.outBatch
          <5>1. out[k] = fr.outBatch[k] /\ ind[k] = fr.indices[k]
            BY <2>7, <3>2, <4>1
          <5>2. /\ fr.outBatch[k].slot \in Slots /\ fr.indices[k] = fr.outBatch[k].slot
                /\ fr.ring[fr.outBatch[k].slot] = [inUse |-> TRUE, frame |-> fr.outBatch[k].id]
            BY <3>1, <4>1 DEF Intact
          <5>3. fr.outBatch[k].slot # idx
            BY <2>2, <5>2
          <5> QED
            BY <2>6, <5>1, <5>2, <5>3
        <4>2. CASE k = Len(fr.outBatch) + 1
          BY <2>2, <2>5, <2>6, <2>7, <3>2, <4>2
        <4> QED
          BY <2>7, <4>1, <4>2
      <3> QED
        BY <2>7, <2>8, <3>2, <3>3 DEF Intact
    <2>13. Good(e)
      BY <2>8, <2>9, <2>11, <2>12 DEF Good, Owing
    <2> QED
      BY <1>3, <2>7, <2>8, <2>9, <2>13 DEF id, e
  <1> QED
    BY <1>5, <1>6

-----------------------------------------------------------------------------
(* flushBatch up to its first await. *)

(* A beginning of a sequence of buffers. *)
LEMMA PartFirst ==
  ASSUME NEW s \in Seq(Buffer), s # <<>>, NEW n \in Nat \ {0}
  PROVE  /\ Part(First(s, n), s, 0) /\ First(s, n) # <<>>
         /\ Len(First(s, n)) \in Nat /\ Len(First(s, n)) <= n /\ Len(First(s, n)) <= Len(s)
         /\ Len(First(s, n)) = IF n < Len(s) THEN n ELSE Len(s)
  <1> DEFINE p == First(s, n)
  <1>1. /\ p \in Seq(Buffer) /\ Len(p) = IF n < Len(s) THEN n ELSE Len(s)
        /\ \A i \in 1 .. Len(p) : i \in 1 .. Len(s) /\ p[i] = s[i]
    BY FirstOf
  <1>2. Len(s) \in Nat /\ Len(s) # 0
    OBVIOUS
  <1> HIDE DEF p
  <1>3. Len(p) \in Nat /\ Len(p) <= n /\ Len(p) <= Len(s) /\ Len(p) # 0
    BY <1>1, <1>2
  <1>4. p # <<>>
    BY <1>3
  <1>5. ASSUME NEW i \in 1 .. Len(p)
        PROVE  0 + i \in 1 .. Len(s) /\ p[i] = s[0 + i]
    <2>1. 0 + i = i
      BY <1>3
    <2> QED
      BY <1>1, <2>1
  <1>6. Part(p, s, 0)
    BY <1>1, <1>5 DEF Part
  <1> QED
    BY <1>1, <1>3, <1>4, <1>6 DEF p

(* Without writev a single buffer of the batch is written.                  *)
LEMMA ReadyFirst ==
  ASSUME NEW fr \in Framer, NEW rest, NEW indices, Ready(fr, rest, indices)
  PROVE  Ready(fr, First(rest, 1), First(indices, 1))
  <1> DEFINE p  == First(rest, 1)
             ip == First(indices, 1)
  <1>1. rest \in Seq(Buffer) /\ rest # <<>> /\ indices \in Seq(Index)
    BY DEF Ready
  <1>2. Part(p, rest, 0) /\ p # <<>> /\ Len(p) \in Nat /\ Len(p) <= 1 /\ Len(p) <= Len(rest)
        /\ Len(p) = IF 1 < Len(rest) THEN 1 ELSE Len(rest)
    <2>1. 1 \in Nat \ {0}
      OBVIOUS
    <2> QED
      BY <1>1, <2>1, PartFirst, Zenon
  <1>3. /\ ip \in Seq(Index) /\ Len(ip) = IF 1 < Len(indices) THEN 1 ELSE Len(indices)
        /\ \A i \in 1 .. Len(ip) : i \in 1 .. Len(indices) /\ ip[i] = indices[i]
    BY <1>1, FirstOf
  <1> HIDE DEF p, ip
  <1>4. p \in Seq(Buffer)
    BY <1>2 DEF Part
  <1>5. /\ Unique(p) /\ UpTo(p, fr.totalFrames) /\ Disjoint(p, fr.outBatch)
        /\ \A k \in DOMAIN fr.flights : Disjoint(fr.flights[k].rest, p)
    BY <1>2, PartOf DEF Ready
  <1>6. ~fr.shrunk => /\ Increasing(p) /\ Before(fr.written, p) /\ Below(p, fr.outBatch)
    BY <1>2, PartOf DEF Ready
  <1>7. Len(p) <= fr.cap
    BY <1>2, FramerFields, FramerAssumption DEF Caps
  <1>8. ASSUME ~fr.shrunk, ~fr.overflowed
        PROVE  Intact(fr.ring, p, ip)
    <2>1. Intact(fr.ring, rest, indices)
      BY <1>8 DEF Ready
    <2>2. Len(ip) = Len(p)
      BY <1>2, <1>3, <2>1 DEF Intact
    <2>3. ASSUME NEW i \in 1 .. Len(ip)
          PROVE  ip[i] = indices[0 + i]
      <3>1. 0 + i = i
        BY <1>2, <2>2
      <3> QED
        BY <1>3, <3>1
    <2> QED
      BY <1>1, <1>2, <1>3, <2>1, <2>2, <2>3, IntactPart
  <1> QED
    BY <1>2, <1>3, <1>4, <1>5, <1>6, <1>7, <1>8 DEF Ready, p, ip

(* The cut: the buffers to flush, the slots that are listed for them, and   *)
(* the batch that stays.                                                    *)
LEMMA CutGood ==
  ASSUME NEW fr, Good(fr), fr.outBatch # <<>>, NEW c \in Caps
  PROVE  LET flushed == First(fr.outBatch, fr.cap)
             slots   == First(fr.indices, fr.cap)
             cut     == [fr EXCEPT !.timer = FALSE,
                                   !.outBatch = Drop(@, Len(flushed)),
                                   !.indices = Drop(@, Len(slots)),
                                   !.cap = c,
                                   !.shrunk = @ \/ c < Len(flushed)]
             indices == [i \in 1 .. Len(flushed) |->
                           IF i <= Len(slots) THEN slots[i] ELSE NoSlot]
         IN /\ slots \in Seq(Index) /\ Owing(cut, ToSet(slots))
            /\ Ready(cut, flushed, indices)
            /\ cut.totalFrames = fr.totalFrames
            /\ HeldIn(fr) \subseteq HeldIn(cut) \cup Ids(flushed)
  <1> DEFINE flushed == First(fr.outBatch, fr.cap)
             slots   == First(fr.indices, fr.cap)
             n       == Len(flushed)
             out     == Drop(fr.outBatch, n)
             ind     == Drop(fr.indices, Len(slots))
             shr     == fr.shrunk \/ c < n
             cut     == [fr EXCEPT !.timer = FALSE, !.outBatch = out, !.indices = ind,
                                   !.cap = c, !.shrunk = shr]
             indices == [i \in 1 .. n |-> IF i <= Len(slots) THEN slots[i] ELSE NoSlot]
  <1>0. /\ fr \in Framer /\ Single(fr) /\ Listed(fr, {})
        /\ ~fr.shrunk => InSequence(fr)
        /\ ~fr.shrunk /\ ~fr.overflowed => Intact(fr.ring, fr.outBatch, fr.indices)
    BY DEF Good, Owing
  <1>1. /\ fr.outBatch \in Seq(Buffer) /\ fr.indices \in Seq(Index) /\ fr.cap \in Nat \ {0}
        /\ fr.shrunk \in BOOLEAN
    BY <1>0, FramerFields, FramerAssumption DEF Caps
  <1>2. /\ Part(flushed, fr.outBatch, 0) /\ flushed # <<>>
        /\ n \in Nat /\ n <= Len(fr.outBatch)
        /\ n = IF fr.cap < Len(fr.outBatch) THEN fr.cap ELSE Len(fr.outBatch)
    BY <1>1, PartFirst
  <1>3. /\ slots \in Seq(Index)
        /\ Len(slots) = IF fr.cap < Len(fr.indices) THEN fr.cap ELSE Len(fr.indices)
        /\ \A i \in 1 .. Len(slots) : i \in 1 .. Len(fr.indices) /\ slots[i] = fr.indices[i]
    BY <1>1, FirstOf
  <1>4. Len(slots) \in Nat /\ Len(fr.indices) \in Nat /\ Len(fr.outBatch) \in Nat
    BY <1>1, <1>3
  <1> HIDE DEF n, slots
  <1>5. /\ out \in Seq(Buffer)
        /\ Len(out) = IF n < Len(fr.outBatch) THEN Len(fr.outBatch) - n ELSE 0
        /\ \A i \in 1 .. Len(out) : n + i \in 1 .. Len(fr.outBatch) /\ out[i] = fr.outBatch[n + i]
    BY <1>1, <1>2, DropOf, SMTT(30)
  <1>6. /\ ind \in Seq(Index)
        /\ Len(ind) = IF Len(slots) < Len(fr.indices) THEN Len(fr.indices) - Len(slots) ELSE 0
        /\ \A i \in 1 .. Len(ind) : /\ Len(slots) + i \in 1 .. Len(fr.indices)
                                    /\ ind[i] = fr.indices[Len(slots) + i]
    BY <1>1, <1>4, DropOf
  <1>7. Part(out, fr.outBatch, n)
    BY <1>1, <1>2, <1>5 DEF Part
  <1>8. shr \in BOOLEAN /\ (~shr => ~fr.shrunk /\ n <= c) /\ c \in Nat \ {0}
    BY <1>1, <1>2, FramerAssumption DEF Caps
  <1>9. flushed \in Seq(Buffer) /\ Len(flushed) = n /\ 0 + Len(flushed) <= n
    BY <1>2 DEF n, Part
  <1> HIDE DEF flushed, out, ind, shr
  <1>10. /\ cut \in Framer /\ cut.ring = fr.ring /\ cut.outBatch = out /\ cut.indices = ind
         /\ cut.flights = fr.flights /\ cut.totalFrames = fr.totalFrames /\ cut.cap = c
         /\ cut.written = fr.written /\ cut.overflowed = fr.overflowed
         /\ cut.shrunk = shr /\ cut.socket = fr.socket
    BY <1>0, <1>5, <1>6, <1>8, ZenonT(60) DEF Framer, Buffer, Index
  <1>11. cut = [fr EXCEPT !.timer = FALSE, !.outBatch = Drop(@, Len(flushed)),
                          !.indices = Drop(@, Len(slots)), !.cap = c,
                          !.shrunk = @ \/ c < Len(flushed)]
    BY <1>0 DEF Framer, n, out, ind, shr
  <1> HIDE DEF cut
  <1>12. /\ indices \in Seq(Index) /\ Len(indices) = n
         /\ \A i \in 1 .. n : indices[i] = IF i <= Len(slots) THEN slots[i] ELSE NoSlot
    <2>1. \A i \in 1 .. n : (IF i <= Len(slots) THEN slots[i] ELSE NoSlot) \in Index
      BY <1>2, <1>3, <1>4 DEF Index
    <2> QED
      BY <1>2, <2>1
  <1> HIDE DEF indices
  <1>13. /\ Unique(out) /\ UpTo(out, fr.totalFrames)
         /\ \A k \in DOMAIN fr.flights : Disjoint(fr.flights[k].rest, out)
         /\ Increasing(fr.outBatch) => Increasing(out)
         /\ Before(fr.written, fr.outBatch) => Before(fr.written, out)
    BY <1>0, <1>7, PartOf DEF Single
  <1>14. /\ Unique(flushed) /\ UpTo(flushed, fr.totalFrames)
         /\ \A k \in DOMAIN fr.flights : Disjoint(fr.flights[k].rest, flushed)
         /\ Increasing(fr.outBatch) => Increasing(flushed)
         /\ Before(fr.written, fr.outBatch) => Before(fr.written, flushed)
    BY <1>0, <1>2, PartOf DEF Single
  <1>15. /\ Disjoint(flushed, out) /\ (Increasing(fr.outBatch) => Below(flushed, out))
    BY <1>0, <1>2, <1>7, <1>9, PartsOf DEF Single
  <1>16. Single(cut)
    BY <1>0, <1>10, <1>13 DEF Single
  <1>17. ToSet(fr.indices) \subseteq ToSet(slots) \cup ToSet(ind)
    <2>1. ASSUME NEW i \in DOMAIN fr.indices
          PROVE  fr.indices[i] \in ToSet(slots) \cup ToSet(ind)
      <3>0. /\ DOMAIN fr.indices = 1 .. Len(fr.indices) /\ DOMAIN slots = 1 .. Len(slots)
            /\ DOMAIN ind = 1 .. Len(ind)
        BY <1>1, <1>3, <1>6
      <3>1. CASE i <= Len(slots)
        <4>1. i \in DOMAIN slots /\ slots[i] = fr.indices[i]
          BY <1>3, <1>4, <3>0, <3>1
        <4> QED
          BY <4>1 DEF ToSet
      <3>2. CASE ~(i <= Len(slots))
        <4>1. i - Len(slots) \in 1 .. Len(ind) /\ Len(slots) + (i - Len(slots)) = i
          BY <1>4, <1>6, <3>0, <3>2
        <4>2. ind[i - Len(slots)] = fr.indices[i]
          BY <1>6, <4>1
        <4> QED
          BY <3>0, <4>1, <4>2 DEF ToSet
      <3> QED
        BY <3>1, <3>2
    <2> QED
      BY <2>1 DEF ToSet
  <1>18. Listed(cut, ToSet(slots))
    BY <1>0, <1>10, <1>17 DEF Listed
  <1>19. ~cut.shrunk => InSequence(cut)
    BY <1>0, <1>8, <1>10, <1>13 DEF InSequence
  <1>20. ASSUME ~cut.shrunk, ~cut.overflowed
         PROVE  Intact(fr.ring, out, ind) /\ Intact(fr.ring, flushed, indices)
    <2>1. Intact(fr.ring, fr.outBatch, fr.indices)
      BY <1>0, <1>8, <1>10, <1>20
    <2>2. Len(slots) = n /\ Len(ind) = Len(out)
      BY <1>1, <1>2, <1>3, <1>4, <1>5, <1>6, <2>1 DEF Intact
    <2>3. \A i \in 1 .. Len(ind) : ind[i] = fr.indices[n + i]
      BY <1>6, <2>2
    <2>4. ASSUME NEW i \in 1 .. Len(indices)
          PROVE  indices[i] = fr.indices[0 + i]
      <3>1. i \in 1 .. n /\ 0 + i = i /\ i <= Len(slots) /\ i \in 1 .. Len(slots)
        BY <1>2, <1>12, <2>2
      <3> QED
        BY <1>3, <1>12, <3>1
    <2>5. Intact(fr.ring, out, ind)
      <3>1. ind \in Seq(Index) /\ Len(ind) = Len(out) /\ fr.indices \in Seq(Index)
        BY <1>1, <1>6, <2>2
      <3> QED
        BY <1>7, <2>1, <2>3, <3>1, IntactPart
    <2>6. Intact(fr.ring, flushed, indices)
      BY <1>1, <1>2, <1>9, <1>12, <2>1, <2>4, IntactPart
    <2> QED
      BY <2>5, <2>6
  <1>21. Owing(cut, ToSet(slots))
    BY <1>10, <1>16, <1>18, <1>19, <1>20 DEF Owing
  <1>22. Ready(cut, flushed, indices)
    <2>1. ~cut.shrunk => /\ Len(flushed) <= cut.cap /\ Increasing(flushed)
                         /\ Before(cut.written, flushed) /\ Below(flushed, cut.outBatch)
      BY <1>0, <1>8, <1>9, <1>10, <1>14, <1>15 DEF InSequence
    <2> QED
      BY <1>2, <1>9, <1>10, <1>12, <1>14, <1>15, <1>20, <2>1 DEF Ready
  <1>23. HeldIn(fr) \subseteq HeldIn(cut) \cup Ids(flushed)
    <2>1. Ids(fr.outBatch) \subseteq Ids(flushed) \cup Ids(out)
      <3>1. ASSUME NEW i \in DOMAIN fr.outBatch
            PROVE  fr.outBatch[i].id \in Ids(flushed) \cup Ids(out)
        <4>0. /\ DOMAIN fr.outBatch = 1 .. Len(fr.outBatch) /\ DOMAIN flushed = 1 .. n
              /\ DOMAIN out = 1 .. Len(out)
          BY <1>1, <1>5, <1>9
        <4>1. CASE i <= n
          <5>1. i \in 1 .. n /\ 0 + i = i
            BY <1>2, <4>0, <4>1
          <5>2. flushed[i] = fr.outBatch[i]
            BY <1>2, <1>9, <5>1 DEF Part
          <5> QED
            BY <4>0, <5>1, <5>2 DEF Ids
        <4>2. CASE ~(i <= n)
          <5>1. i - n \in 1 .. Len(out) /\ n + (i - n) = i
            BY <1>2, <1>4, <1>5, <4>0, <4>2
          <5>2. out[i - n] = fr.outBatch[i]
            BY <1>5, <5>1
          <5> QED
            BY <4>0, <5>1, <5>2 DEF Ids
        <4> QED
          BY <4>1, <4>2
      <3> QED
        BY <3>1 DEF Ids
    <2> QED
      BY <1>10, <2>1 DEF HeldIn, Live
  <1> QED
    BY <1>3, <1>10, <1>11, <1>21, <1>22, <1>23 DEF flushed, slots, indices, n

(* flushBatch keeps the invariant, and with writev every frame.             *)
LEMMA FlushGood ==
  ASSUME NEW fr, Good(fr), NEW c \in Caps
  PROVE  /\ Good(Flush(fr, c)) /\ Flush(fr, c).totalFrames = fr.totalFrames
         /\ EnableWritev /\ fr.socket = "open" =>
              HeldIn(fr) \subseteq HeldIn(Flush(fr, c)) \cup ToSet(Flush(fr, c).written)
  <1>0. fr \in Framer
    BY DEF Good, Owing
  <1>1. CASE fr.outBatch = <<>> \/ OnlyWaits(fr)
    <2> DEFINE new == [fr EXCEPT !.timer = FALSE]
    <2>1. Flush(fr, c) = new
      BY <1>1 DEF Flush
    <2>2. /\ new \in Framer /\ new.ring = fr.ring /\ new.outBatch = fr.outBatch
          /\ new.indices = fr.indices /\ new.flights = fr.flights
          /\ new.totalFrames = fr.totalFrames /\ new.written = fr.written
          /\ new.overflowed = fr.overflowed /\ new.shrunk = fr.shrunk
          /\ new.socket = fr.socket
      BY <1>0 DEF Framer
    <2> HIDE DEF new
    <2>3. Good(new) /\ HeldIn(new) = HeldIn(fr)
      BY <2>2, SameQueues DEF Good
    <2> QED
      BY <2>1, <2>2, <2>3
  <1>2. CASE ~(fr.outBatch = <<>> \/ OnlyWaits(fr))
    <2> DEFINE flushed == First(fr.outBatch, fr.cap)
               slots   == First(fr.indices, fr.cap)
               cut     == [fr EXCEPT !.timer = FALSE,
                                     !.outBatch = Drop(@, Len(flushed)),
                                     !.indices = Drop(@, Len(slots)),
                                     !.cap = c,
                                     !.shrunk = @ \/ c < Len(flushed)]
               indices == [i \in 1 .. Len(flushed) |->
                             IF i <= Len(slots) THEN slots[i] ELSE NoSlot]
    <2>1. Flush(fr, c) = IF fr.socket # "open" THEN ReleaseSlots(cut, slots)
                         ELSE IF EnableWritev THEN WriteChunk(cut, flushed, indices, slots)
                         ELSE WriteChunk(cut, First(flushed, 1), First(indices, 1), slots)
      BY <1>2 DEF Flush
    <2>2. /\ slots \in Seq(Index) /\ Owing(cut, ToSet(slots)) /\ Ready(cut, flushed, indices)
          /\ cut.totalFrames = fr.totalFrames
          /\ HeldIn(fr) \subseteq HeldIn(cut) \cup Ids(flushed)
      BY <1>2, CutGood
    <2> HIDE DEF flushed, slots, cut, indices
    <2>3. CASE fr.socket # "open"
      BY <2>1, <2>2, <2>3, ReleaseSlotsGood
    <2>4. CASE fr.socket = "open" /\ EnableWritev
      <3> DEFINE new == WriteChunk(cut, flushed, indices, slots)
      <3>1. /\ Good(new) /\ new.totalFrames = cut.totalFrames
            /\ HeldIn(cut) \cup Ids(flushed) \subseteq HeldIn(new) \cup ToSet(new.written)
        BY <2>2, WriteChunkGood
      <3> QED
        BY <2>1, <2>2, <2>4, <3>1
    <2>5. CASE fr.socket = "open" /\ ~EnableWritev
      <3> DEFINE new == WriteChunk(cut, First(flushed, 1), First(indices, 1), slots)
      <3>1. cut \in Framer
        BY <2>2 DEF Owing
      <3>2. Ready(cut, First(flushed, 1), First(indices, 1))
        BY <2>2, <3>1, ReadyFirst
      <3>3. Good(new) /\ new.totalFrames = cut.totalFrames
        BY <2>2, <3>2, WriteChunkGood
      <3> QED
        BY <2>1, <2>2, <2>5, <3>3
    <2> QED
      BY <2>3, <2>4, <2>5
  <1> QED
    BY <1>1, <1>2

-----------------------------------------------------------------------------
(* The flights. *)

(* A flight that ends, or goes on, is taken off the list and owes its slots. *)
LEMMA TakenOff ==
  ASSUME NEW fr, Good(fr), NEW i \in DOMAIN fr.flights
  PROVE  LET fl  == fr.flights[i]
             new == [fr EXCEPT !.flights = RemoveAt(@, i)]
         IN /\ fl.slots \in Seq(Index) /\ Owing(new, ToSet(fl.slots))
            /\ fl.rest # <<>> => Ready(new, fl.rest, fl.indices)
            /\ HeldIn(fr) \subseteq HeldIn(new) \cup Ids(fl.rest)
            /\ i \notin Live(fr) => HeldIn(fr) \subseteq HeldIn(new)
            /\ new.totalFrames = fr.totalFrames
  <1> DEFINE fl      == fr.flights[i]
             flights == RemoveAt(fr.flights, i)
             new     == [fr EXCEPT !.flights = flights]
             old(k)  == IF k < i THEN k ELSE k + 1
             now(k)  == IF k < i THEN k ELSE k - 1
  <1>0. /\ fr \in Framer /\ Single(fr) /\ Listed(fr, {})
        /\ ~fr.shrunk => InSequence(fr)
        /\ ~fr.shrunk /\ ~fr.overflowed => Intact(fr.ring, fr.outBatch, fr.indices)
    BY DEF Good, Owing
  <1>1. fr.flights \in Seq(Flight)
    BY <1>0, FramerFields
  <1>2. /\ fl \in Flight /\ DOMAIN fr.flights = 1 .. Len(fr.flights) /\ i \in 1 .. Len(fr.flights)
        /\ Len(fr.flights) \in Nat
    BY <1>1
  <1>3. fl.rest \in Seq(Buffer) /\ fl.indices \in Seq(Index) /\ fl.slots \in Seq(Index)
    BY <1>2 DEF Flight
  <1>4. /\ flights \in Seq(Flight) /\ Len(flights) = Len(fr.flights) - 1
        /\ \A k \in 1 .. Len(fr.flights) - 1 :
             flights[k] = IF k < i THEN fr.flights[k] ELSE fr.flights[k + 1]
    BY <1>1, <1>2, RemovedAt
  <1> HIDE DEF flights, fl
  <1>5. ASSUME NEW k \in DOMAIN flights
        PROVE  old(k) \in DOMAIN fr.flights /\ old(k) # i /\ flights[k] = fr.flights[old(k)]
    <2>1. k \in 1 .. Len(fr.flights) - 1
      BY <1>4
    <2> QED
      BY <1>2, <1>4, <2>1
  <1>6. ASSUME NEW k \in DOMAIN flights, NEW m \in DOMAIN flights, k # m
        PROVE  old(k) # old(m)
    <2>1. k \in 1 .. Len(fr.flights) - 1 /\ m \in 1 .. Len(fr.flights) - 1
      BY <1>4
    <2> QED
      BY <1>2, <1>6, <2>1
  <1>7. ASSUME NEW k \in DOMAIN fr.flights, k # i
        PROVE  now(k) \in DOMAIN flights /\ flights[now(k)] = fr.flights[k]
    <2>1. DOMAIN flights = 1 .. Len(fr.flights) - 1
      BY <1>4
    <2>2. CASE k < i
      BY <1>2, <1>4, <2>1, <2>2
    <2>3. CASE ~(k < i)
      <3>1. k - 1 \in 1 .. Len(fr.flights) - 1 /\ ~(k - 1 < i) /\ (k - 1) + 1 = k
        BY <1>2, <1>7, <2>3
      <3> QED
        BY <1>4, <2>1, <2>3, <3>1
    <2> QED
      BY <2>2, <2>3
  <1>8. /\ new \in Framer /\ new.ring = fr.ring /\ new.outBatch = fr.outBatch
        /\ new.indices = fr.indices /\ new.flights = flights /\ new.cap = fr.cap
        /\ new.totalFrames = fr.totalFrames /\ new.written = fr.written
        /\ new.overflowed = fr.overflowed /\ new.shrunk = fr.shrunk
        /\ new.socket = fr.socket
    BY <1>0, <1>4 DEF Framer, Buffer, Index, Flight
  <1>9. new = [fr EXCEPT !.flights = RemoveAt(@, i)]
    BY <1>0 DEF flights, Framer
  <1> HIDE DEF new, old, now
  <1>10. Single(new)
    <2>1. ASSUME NEW k \in DOMAIN flights
          PROVE  /\ Unique(flights[k].rest) /\ UpTo(flights[k].rest, fr.totalFrames)
                 /\ Disjoint(flights[k].rest, fr.outBatch)
      BY <1>0, <1>5, Zenon DEF Single
    <2>2. ASSUME NEW k \in DOMAIN flights, NEW m \in DOMAIN flights, k # m
          PROVE  Disjoint(flights[k].rest, flights[m].rest)
      BY <1>0, <1>5, <1>6, <2>2, Zenon DEF Single
    <2> QED
      BY <1>0, <1>8, <2>1, <2>2, Zenon DEF Single
  <1>12. ASSUME ~new.shrunk
         PROVE  InSequence(new)
    <2>1. InSequence(fr)
      BY <1>0, <1>8, <1>12
    <2>2. \A k \in DOMAIN flights : flights[k].rest = <<>>
      BY <1>5, <2>1, Zenon DEF InSequence
    <2> QED
      BY <1>8, <2>1, <2>2, Zenon DEF InSequence
  <1>13. Listed(new, ToSet(fl.slots))
    <2> SUFFICES ASSUME NEW s \in Slots, fr.ring[s].inUse
                 PROVE  \/ s \in ToSet(fl.slots) \/ s \in ToSet(fr.indices)
                        \/ \E k \in DOMAIN flights : s \in ToSet(flights[k].slots)
      BY <1>8, Zenon DEF Listed
    <2>1. \/ s \in ToSet(fr.indices)
          \/ \E k \in DOMAIN fr.flights : s \in ToSet(fr.flights[k].slots)
      BY <1>0 DEF Listed
    <2>2. ASSUME NEW k \in DOMAIN fr.flights, s \in ToSet(fr.flights[k].slots)
          PROVE  \/ s \in ToSet(fl.slots)
                 \/ \E m \in DOMAIN flights : s \in ToSet(flights[m].slots)
      BY <1>7, <2>2, Zenon DEF fl
    <2> QED
      BY <2>1, <2>2
  <1>14. Owing(new, ToSet(fl.slots))
    BY <1>0, <1>8, <1>10, <1>12, <1>13 DEF Owing
  <1>15. ASSUME fl.rest # <<>>
         PROVE  Ready(new, fl.rest, fl.indices)
    <2>1. fr.shrunk
      BY <1>0, <1>15 DEF InSequence, fl
    <2>2. Unique(fl.rest) /\ UpTo(fl.rest, fr.totalFrames) /\ Disjoint(fl.rest, fr.outBatch)
      BY <1>0 DEF Single, fl
    <2>3. \A k \in DOMAIN flights : Disjoint(flights[k].rest, fl.rest)
      BY <1>0, <1>5, Zenon DEF Single, fl
    <2> QED
      BY <1>3, <1>8, <1>15, <2>1, <2>2, <2>3 DEF Ready
  <1>16. /\ HeldIn(fr) \subseteq HeldIn(new) \cup Ids(fl.rest)
         /\ i \notin Live(fr) => HeldIn(fr) \subseteq HeldIn(new)
    <2>1. ASSUME NEW k \in Live(fr), k # i
          PROVE  Ids(fr.flights[k].rest) \subseteq HeldIn(new)
      <3>1. now(k) \in DOMAIN flights /\ flights[now(k)] = fr.flights[k]
        BY <1>7, <2>1 DEF Live
      <3>2. now(k) \in Live(new)
        BY <1>8, <3>1 DEF Live
      <3> QED
        BY <1>8, <3>1, <3>2 DEF HeldIn
    <2>2. Ids(fr.outBatch) \subseteq HeldIn(new)
      BY <1>8 DEF HeldIn
    <2>3. ASSUME NEW x \in HeldIn(fr)
          PROVE  x \in HeldIn(new) \/ (i \in Live(fr) /\ x \in Ids(fl.rest))
      <3>1. x \in Ids(fr.outBatch) \/ \E k \in Live(fr) : x \in Ids(fr.flights[k].rest)
        BY DEF HeldIn
      <3> QED
        BY <2>1, <2>2, <3>1 DEF fl
    <2> QED
      BY <2>3
  <1> QED
    BY <1>3, <1>8, <1>9, <1>14, <1>15, <1>16 DEF fl

(* The invariant does not depend on the states of the flights otherwise.    *)
LEMMA SameRests ==
  ASSUME NEW fr, Good(fr), NEW new \in Framer,
         new.ring = fr.ring, new.outBatch = fr.outBatch, new.indices = fr.indices,
         new.totalFrames = fr.totalFrames, new.written = fr.written,
         new.overflowed = fr.overflowed, new.shrunk = fr.shrunk,
         DOMAIN new.flights = DOMAIN fr.flights,
         \A k \in DOMAIN fr.flights : /\ new.flights[k].rest = fr.flights[k].rest
                                      /\ new.flights[k].slots = fr.flights[k].slots
  PROVE  Good(new) /\ (Live(fr) \subseteq Live(new) => HeldIn(fr) \subseteq HeldIn(new))
  <1>1. Single(new)
    BY DEF Good, Owing, Single
  <1>2. Listed(new, {})
    BY DEF Good, Owing, Listed
  <1>3. ~new.shrunk => InSequence(new)
    BY DEF Good, Owing, InSequence
  <1>4. ~new.shrunk /\ ~new.overflowed => Intact(new.ring, new.outBatch, new.indices)
    BY DEF Good, Owing
  <1>5. ASSUME Live(fr) \subseteq Live(new)
        PROVE  HeldIn(fr) \subseteq HeldIn(new)
    <2>1. \A k \in Live(fr) : k \in Live(new) /\ new.flights[k].rest = fr.flights[k].rest
      BY <1>5 DEF Live
    <2> QED
      BY <2>1 DEF HeldIn
  <1> QED
    BY <1>1, <1>2, <1>3, <1>4, <1>5 DEF Good, Owing

LEMMA SettleFlights ==
  ASSUME NEW fr \in Framer, NEW n, NEW state \in {"resumed", "failed", "orphaned"}
  PROVE  LET new == Settle(fr, n, state)
         IN /\ new \in Framer
            /\ new.ring = fr.ring /\ new.outBatch = fr.outBatch /\ new.indices = fr.indices
            /\ new.totalFrames = fr.totalFrames /\ new.written = fr.written
            /\ new.overflowed = fr.overflowed /\ new.shrunk = fr.shrunk
            /\ new.socket = fr.socket /\ new.sockets = fr.sockets
            /\ DOMAIN new.flights = DOMAIN fr.flights
            /\ \A k \in DOMAIN fr.flights :
                 /\ new.flights[k].rest = fr.flights[k].rest
                 /\ new.flights[k].slots = fr.flights[k].slots
                 /\ new.flights[k].state \in {fr.flights[k].state, state}
  <1> DEFINE one(fl, k) == IF k <= n /\ fl.state = "waiting"
                           THEN [fl EXCEPT !.state = state] ELSE fl
             flights == [k \in DOMAIN fr.flights |-> one(fr.flights[k], k)]
             new == [fr EXCEPT !.flights = flights]
  <1>1. Settle(fr, n, state) = new
    BY DEF Settle, Framer
  <1>2. /\ fr.flights \in Seq(Flight) /\ DOMAIN fr.flights = 1 .. Len(fr.flights)
        /\ Len(fr.flights) \in Nat /\ \A k \in DOMAIN fr.flights : fr.flights[k] \in Flight
    BY FramerFields
  <1>3. ASSUME NEW fl \in Flight, NEW k
        PROVE  /\ one(fl, k) \in Flight /\ one(fl, k).rest = fl.rest
               /\ one(fl, k).slots = fl.slots /\ one(fl, k).state \in {fl.state, state}
    BY DEF Flight
  <1> HIDE DEF one
  <1>4. /\ flights \in Seq(Flight) /\ DOMAIN flights = DOMAIN fr.flights
        /\ \A k \in DOMAIN fr.flights : flights[k] = one(fr.flights[k], k)
    BY <1>2, <1>3
  <1> HIDE DEF flights
  <1>5. /\ new \in Framer /\ new.flights = flights
        /\ new.ring = fr.ring /\ new.outBatch = fr.outBatch /\ new.indices = fr.indices
        /\ new.totalFrames = fr.totalFrames /\ new.written = fr.written
        /\ new.overflowed = fr.overflowed /\ new.shrunk = fr.shrunk
        /\ new.socket = fr.socket /\ new.sockets = fr.sockets
    BY <1>4 DEF Framer, Buffer, Index, Flight
  <1> HIDE DEF new
  <1>6. \A k \in DOMAIN fr.flights :
          /\ new.flights[k].rest = fr.flights[k].rest
          /\ new.flights[k].slots = fr.flights[k].slots
          /\ new.flights[k].state \in {fr.flights[k].state, state}
    BY <1>2, <1>3, <1>4, <1>5
  <1> QED
    BY <1>1, <1>4, <1>5, <1>6

(* The end of a flight. *)
LEMMA DoneGood ==
  ASSUME NEW fr, NEW slots \in Seq(Index), Owing(fr, ToSet(slots))
  PROVE  /\ Good(Done(fr, slots)) /\ Done(fr, slots).totalFrames = fr.totalFrames
         /\ HeldIn(Done(fr, slots)) = HeldIn(fr)
  <1> DEFINE r   == ReleaseSlots(fr, slots)
             t   == r.timer \/ r.outBatch # <<>>
             new == [r EXCEPT !.timer = t]
  <1>1. /\ Good(r) /\ r.outBatch = fr.outBatch /\ r.flights = fr.flights
        /\ r.totalFrames = fr.totalFrames
    BY ReleaseSlotsGood
  <1>2. Done(fr, slots) = new
    BY DEF Done
  <1> HIDE DEF r
  <1>3. r \in Framer /\ t \in BOOLEAN
    BY <1>1, FramerFields DEF Good, Owing
  <1> HIDE DEF t
  <1>4. /\ new \in Framer /\ new.ring = r.ring /\ new.outBatch = r.outBatch
        /\ new.indices = r.indices /\ new.flights = r.flights
        /\ new.totalFrames = r.totalFrames /\ new.written = r.written
        /\ new.overflowed = r.overflowed /\ new.shrunk = r.shrunk /\ new.socket = r.socket
    BY <1>3 DEF Framer
  <1> HIDE DEF new
  <1>5. Good(new)
    BY <1>1, <1>4, SameQueues DEF Good
  <1> QED
    BY <1>1, <1>2, <1>4, <1>5 DEF HeldIn, Live
-----------------------------------------------------------------------------
(* The steps.  Each keeps the invariant and, with writev and a socket that  *)
(* stays open, every frame.                                                 *)

LEMMA HeldIsHeldIn == Held = HeldIn(f) /\ Held' = HeldIn(f') /\ Written' = ToSet(f'.written)
  BY DEF Held, HeldIn, Live, Written

Kept == HeldIn(f) \cup (f.totalFrames + 1 .. f'.totalFrames)
          \subseteq HeldIn(f') \cup ToSet(f'.written)

(* A step that encodes nothing.                                             *)
LEMMA NoneEncoded ==
  ASSUME IInv, f'.totalFrames = f.totalFrames
  PROVE  f.totalFrames + 1 .. f'.totalFrames = {}
  <1>1. f.totalFrames \in Nat
    BY FramerFields, FramerAssumption DEF IInv, Good, Owing, Frames
  <1> QED
    BY <1>1

LEMMA EncodeToBatchStep ==
  ASSUME IInv, EncodeToBatch
  PROVE  IInv' /\ (EnableWritev /\ f.socket = "open" => Kept)
  <1> DEFINE e == Encode([f EXCEPT !.totalFrames = @ + 1], f.totalFrames + 1)
             t == e.timer \/ f.timed
  <1>0. f \in Framer /\ Good(f) /\ f.totalFrames < MaxFrames
    BY DEF IInv, Good, Owing, EncodeToBatch
  <1>1. /\ Good(e) /\ e.socket = f.socket /\ e.totalFrames = f.totalFrames + 1
        /\ HeldIn(f) \cup {f.totalFrames + 1} \subseteq HeldIn(e)
    BY <1>0, EncodeGood
  <1>2. f.totalFrames + 1 .. f.totalFrames + 1 = {f.totalFrames + 1}
    <2>1. f.totalFrames \in Nat
      BY <1>0, FramerFields, FramerAssumption DEF Frames
    <2> QED
      BY <2>1
  <1>3. \/ \E c \in Caps : f' = Flush(e, c)
        \/ f' = [e EXCEPT !.timer = t]
    BY DEF EncodeToBatch
  <1> HIDE DEF e
  <1>4. ASSUME NEW c \in Caps, f' = Flush(e, c)
        PROVE  IInv' /\ (EnableWritev /\ f.socket = "open" => Kept)
    <2>1. /\ Good(f') /\ f'.totalFrames = e.totalFrames
          /\ EnableWritev /\ e.socket = "open" =>
               HeldIn(e) \subseteq HeldIn(f') \cup ToSet(f'.written)
      BY <1>1, <1>4, FlushGood
    <2> QED
      BY <1>1, <1>2, <2>1 DEF IInv, Kept
  <1>5. CASE f' = [e EXCEPT !.timer = t]
    <2>0. e \in Framer /\ t \in BOOLEAN
      BY <1>0, <1>1, FramerFields DEF Good, Owing
    <2> HIDE DEF t
    <2>1. /\ f' \in Framer /\ f'.ring = e.ring /\ f'.outBatch = e.outBatch
          /\ f'.indices = e.indices /\ f'.flights = e.flights
          /\ f'.totalFrames = e.totalFrames /\ f'.written = e.written
          /\ f'.overflowed = e.overflowed /\ f'.shrunk = e.shrunk /\ f'.socket = e.socket
      BY <1>5, <2>0 DEF Framer
    <2>2. Good(f') /\ HeldIn(f') = HeldIn(e)
      BY <1>1, <2>1, SameQueues DEF Good
    <2> QED
      BY <1>1, <1>2, <2>1, <2>2 DEF IInv, Kept
  <1> QED
    BY <1>3, <1>4, <1>5

LEMMA FlushStep ==
  ASSUME IInv, NEW c \in Caps, f' = Flush(f, c)
  PROVE  IInv' /\ (EnableWritev /\ f.socket = "open" => Kept)
  <1>1. /\ Good(f') /\ f'.totalFrames = f.totalFrames
        /\ EnableWritev /\ f.socket = "open" =>
             HeldIn(f) \subseteq HeldIn(f') \cup ToSet(f'.written)
    BY FlushGood DEF IInv
  <1> QED
    BY <1>1, NoneEncoded DEF IInv, Kept

LEMMA ResumeStep ==
  ASSUME IInv, Resume
  PROVE  IInv' /\ (f.socket = "open" => Kept)
  <1>1. PICK i \in DOMAIN f.flights :
          LET fl == f.flights[i]
              fr == [f EXCEPT !.flights = RemoveAt(@, i)]
          IN f' = IF fl.rest # <<>> /\ f.socket = "open"
                  THEN WriteChunk(fr, fl.rest, fl.indices, fl.slots)
                  ELSE Done(fr, fl.slots)
    BY DEF Resume
  <1> DEFINE fl == f.flights[i]
             fr == [f EXCEPT !.flights = RemoveAt(@, i)]
  <1>2. /\ fl.slots \in Seq(Index) /\ Owing(fr, ToSet(fl.slots))
        /\ fl.rest # <<>> => Ready(fr, fl.rest, fl.indices)
        /\ HeldIn(f) \subseteq HeldIn(fr) \cup Ids(fl.rest)
        /\ fr.totalFrames = f.totalFrames
    BY TakenOff DEF IInv
  <1>3. f' = IF fl.rest # <<>> /\ f.socket = "open"
             THEN WriteChunk(fr, fl.rest, fl.indices, fl.slots)
             ELSE Done(fr, fl.slots)
    BY <1>1
  <1> HIDE DEF fl, fr
  <1>4. CASE fl.rest # <<>> /\ f.socket = "open"
    <2> DEFINE new == WriteChunk(fr, fl.rest, fl.indices, fl.slots)
    <2>1. /\ Good(new) /\ new.totalFrames = fr.totalFrames
          /\ HeldIn(fr) \cup Ids(fl.rest) \subseteq HeldIn(new) \cup ToSet(new.written)
      BY <1>2, <1>4, WriteChunkGood
    <2>2. f' = new
      BY <1>3, <1>4
    <2> HIDE DEF new
    <2> QED
      BY <1>2, <2>1, <2>2, NoneEncoded DEF IInv, Kept
  <1>5. CASE ~(fl.rest # <<>> /\ f.socket = "open")
    <2>1. f' = Done(fr, fl.slots)
      BY <1>3, <1>5
    <2>2. Good(f') /\ f'.totalFrames = f.totalFrames /\ HeldIn(f') = HeldIn(fr)
      BY <1>2, <2>1, DoneGood
    <2>3. f.socket = "open" => Ids(fl.rest) = {}
      BY <1>5 DEF Ids
    <2> QED
      BY <1>2, <2>2, <2>3, NoneEncoded DEF IInv, Kept
  <1> QED
    BY <1>4, <1>5

LEMMA RejectStep ==
  ASSUME IInv, Reject
  PROVE  IInv' /\ Kept
  <1>1. PICK i \in DOMAIN f.flights :
          /\ f.flights[i].state = "failed"
          /\ f' = ReleaseSlots([f EXCEPT !.flights = RemoveAt(@, i)], f.flights[i].slots)
    BY DEF Reject
  <1> DEFINE fr == [f EXCEPT !.flights = RemoveAt(@, i)]
  <1>2. /\ f.flights[i].slots \in Seq(Index) /\ Owing(fr, ToSet(f.flights[i].slots))
        /\ i \notin Live(f) => HeldIn(f) \subseteq HeldIn(fr)
        /\ fr.totalFrames = f.totalFrames
    BY TakenOff DEF IInv
  <1>3. f' = ReleaseSlots(fr, f.flights[i].slots)
    BY <1>1
  <1> HIDE DEF fr
  <1>4. /\ Good(f') /\ f'.totalFrames = f.totalFrames
        /\ f'.outBatch = fr.outBatch /\ f'.flights = fr.flights
    BY <1>2, <1>3, ReleaseSlotsGood
  <1>5. HeldIn(f) \subseteq HeldIn(f')
    <2>1. i \notin Live(f)
      BY <1>1 DEF Live
    <2> QED
      BY <1>2, <1>4, <2>1 DEF HeldIn, Live
  <1> QED
    BY <1>4, <1>5, NoneEncoded DEF IInv, Kept

LEMMA QuietStep ==
  ASSUME IInv, SetFlushCaps \/ SetBatchTiming \/ KernelTakes \/ AttachSocket
  PROVE  IInv' /\ Kept
  <1>0. f \in Framer /\ Good(f)
    BY DEF IInv, Good, Owing
  <1>1. /\ f' \in Framer /\ f'.ring = f.ring /\ f'.outBatch = f.outBatch
        /\ f'.indices = f.indices /\ f'.flights = f.flights
        /\ f'.totalFrames = f.totalFrames /\ f'.written = f.written
        /\ f'.overflowed = f.overflowed /\ f'.shrunk = f.shrunk
    <2>1. CASE SetFlushCaps
      <3>1. PICK c \in Caps : f' = [f EXCEPT !.cap = c]
        BY <2>1 DEF SetFlushCaps
      <3> QED
        BY <1>0, <3>1 DEF Framer
    <2>2. CASE KernelTakes
      <3> DEFINE b == Tail(f.buf)
      <3>1. f' = [f EXCEPT !.buf = b] /\ f.buf # <<>>
        BY <2>2 DEF KernelTakes
      <3>2. b \in Seq(Buffer)
        BY <1>0, <3>1, FramerFields
      <3> HIDE DEF b
      <3> QED
        BY <1>0, <3>1, <3>2 DEF Framer, Buffer, Index
    <2>3. CASE AttachSocket
      <3> DEFINE n == f.sockets + 1
                 t == f.totalFrames
      <3>1. f' = [f EXCEPT !.socket = "open", !.sockets = n, !.since = t]
        BY <1>0, <2>3 DEF AttachSocket, Framer
      <3>2. n \in 0 .. MaxSockets /\ t \in Frames \cup {0}
        BY <1>0, <2>3, FramerFields, FramerAssumption DEF AttachSocket
      <3> HIDE DEF n
      <3> QED
        BY <1>0, <3>1, <3>2 DEF Framer
    <2>4. CASE SetBatchTiming
      <3> DEFINE t == ~f.timed
      <3>1. f' = [f EXCEPT !.timed = t] /\ t \in BOOLEAN
        BY <1>0, <2>4, FramerFields DEF SetBatchTiming
      <3> HIDE DEF t
      <3> QED
        BY <1>0, <3>1 DEF Framer
    <2> QED
      BY <2>1, <2>2, <2>3, <2>4
  <1>2. Good(f') /\ HeldIn(f') = HeldIn(f)
    BY <1>0, <1>1, SameQueues DEF Good
  <1> QED
    BY <1>1, <1>2, NoneEncoded DEF IInv, Kept

LEMMA DrainStep ==
  ASSUME IInv, DrainEvent
  PROVE  IInv' /\ (EnableWritev => Kept)
  <1> DEFINE d == [f EXCEPT !.needDrain = FALSE, !.draining = FALSE]
  <1>0. f \in Framer /\ Good(f) /\ f.socket = "open"
    BY DEF IInv, Good, Owing, DrainEvent
  <1>1. /\ d \in Framer /\ d.ring = f.ring /\ d.outBatch = f.outBatch
        /\ d.indices = f.indices /\ d.flights = f.flights
        /\ d.totalFrames = f.totalFrames /\ d.written = f.written
        /\ d.overflowed = f.overflowed /\ d.shrunk = f.shrunk /\ d.socket = f.socket
    BY <1>0 DEF Framer
  <1> HIDE DEF d
  <1>2. Good(d) /\ HeldIn(d) = HeldIn(f)
    BY <1>0, <1>1, SameQueues DEF Good
  <1>3. PICK c \in Caps :
          f' = [Settle(Flush(d, c), Len(f.flights), "resumed") EXCEPT
                  !.draining = @ /\ \A i \in DOMAIN f.flights : f.flights[i].state # "waiting"]
    BY DEF DrainEvent, d
  <1> DEFINE fr == Flush(d, c)
             s  == Settle(fr, Len(f.flights), "resumed")
             b  == s.draining /\ \A i \in DOMAIN f.flights : f.flights[i].state # "waiting"
  <1>4. /\ Good(fr) /\ fr.totalFrames = d.totalFrames
        /\ EnableWritev => HeldIn(d) \subseteq HeldIn(fr) \cup ToSet(fr.written)
    BY <1>0, <1>1, <1>2, FlushGood
  <1> HIDE DEF fr
  <1>5. fr \in Framer
    BY <1>4 DEF Good, Owing
  <1>6. /\ s \in Framer
        /\ s.ring = fr.ring /\ s.outBatch = fr.outBatch /\ s.indices = fr.indices
        /\ s.totalFrames = fr.totalFrames /\ s.written = fr.written
        /\ s.overflowed = fr.overflowed /\ s.shrunk = fr.shrunk
        /\ s.socket = fr.socket
        /\ DOMAIN s.flights = DOMAIN fr.flights
        /\ \A k \in DOMAIN fr.flights :
             /\ s.flights[k].rest = fr.flights[k].rest
             /\ s.flights[k].slots = fr.flights[k].slots
             /\ s.flights[k].state \in {fr.flights[k].state, "resumed"}
    BY <1>5, SettleFlights
  <1>7. f' = [s EXCEPT !.draining = b]
    BY <1>3 DEF fr
  <1> HIDE DEF s
  <1>8. b \in BOOLEAN
    BY <1>6, FramerFields
  <1> HIDE DEF b
  <1>9. /\ f' \in Framer /\ f'.ring = s.ring /\ f'.outBatch = s.outBatch
        /\ f'.indices = s.indices /\ f'.flights = s.flights
        /\ f'.totalFrames = s.totalFrames /\ f'.written = s.written
        /\ f'.overflowed = s.overflowed /\ f'.shrunk = s.shrunk /\ f'.socket = s.socket
    BY <1>6, <1>7, <1>8 DEF Framer
  <1>10. Live(fr) \subseteq Live(s)
    BY <1>6 DEF Live
  <1>11. Good(s) /\ HeldIn(fr) \subseteq HeldIn(s)
    BY <1>4, <1>6, <1>10, SameRests
  <1>12. Good(f') /\ HeldIn(f') = HeldIn(s)
    BY <1>9, <1>11, SameQueues DEF Good
  <1> QED
    BY <1>1, <1>2, <1>4, <1>6, <1>9, <1>11, <1>12, NoneEncoded DEF IInv, Kept

(* The socket goes away: the flights that wait may be rejected, or go on    *)
(* waiting for a socket that is no longer the framer's.                     *)
LEMMA GoneStep ==
  ASSUME IInv, SocketDestroyed \/ DetachSocket
  PROVE  IInv' /\ f'.socket # "open"
  <1>0. f \in Framer /\ Good(f)
    BY DEF IInv, Good, Owing
  <1> DEFINE settled(state) == Settle(f, Len(f.flights), state)
             states == {"failed", "orphaned"}
  <1>1. ASSUME NEW state \in states
        PROVE  /\ settled(state) \in Framer
               /\ settled(state).ring = f.ring /\ settled(state).outBatch = f.outBatch
               /\ settled(state).indices = f.indices
               /\ settled(state).totalFrames = f.totalFrames
               /\ settled(state).written = f.written
               /\ settled(state).overflowed = f.overflowed
               /\ settled(state).shrunk = f.shrunk
               /\ DOMAIN settled(state).flights = DOMAIN f.flights
               /\ \A k \in DOMAIN f.flights :
                    /\ settled(state).flights[k].rest = f.flights[k].rest
                    /\ settled(state).flights[k].slots = f.flights[k].slots
    BY <1>0, SettleFlights
  <1> HIDE DEF settled
  <1>2. ASSUME NEW fr, fr = f \/ \E state \in states : fr = settled(state),
               NEW new \in Framer,
               new.ring = fr.ring, new.outBatch = fr.outBatch, new.indices = fr.indices,
               new.totalFrames = fr.totalFrames, new.written = fr.written,
               new.overflowed = fr.overflowed, new.shrunk = fr.shrunk,
               new.flights = fr.flights
        PROVE  Good(new)
    <2>1. CASE fr = f
      BY <1>0, <1>2, <2>1, SameRests
    <2>2. ASSUME NEW state \in states, fr = settled(state)
          PROVE  Good(new)
      BY <1>0, <1>1, <1>2, <2>2, SameRests
    <2> QED
      BY <1>2, <2>1, <2>2
  <1>3. <<>> \in Seq(Buffer)
    OBVIOUS
  <1>4. CASE SocketDestroyed
    <2>1. PICK fr \in {f, settled("failed")} :
            f' = [fr EXCEPT !.socket = "destroyed", !.buf = <<>>, !.needDrain = FALSE]
      BY <1>4 DEF SocketDestroyed, settled
    <2>2. fr \in Framer
      BY <1>0, <1>1, <2>1
    <2>3. /\ f' \in Framer /\ f'.socket = "destroyed"
          /\ f'.ring = fr.ring /\ f'.outBatch = fr.outBatch /\ f'.indices = fr.indices
          /\ f'.totalFrames = fr.totalFrames /\ f'.written = fr.written
          /\ f'.overflowed = fr.overflowed /\ f'.shrunk = fr.shrunk
          /\ f'.flights = fr.flights
      BY <1>3, <2>1, <2>2 DEF Framer, Buffer, Index
    <2> QED
      BY <1>2, <2>1, <2>3 DEF IInv
  <1>5. CASE DetachSocket
    <2>1. PICK state \in states :
            f' = [settled(state) EXCEPT !.timer = FALSE, !.draining = FALSE, !.socket = "none",
                                        !.buf = <<>>, !.needDrain = FALSE]
      BY <1>5 DEF DetachSocket, settled
    <2> DEFINE fr == settled(state)
    <2>2. fr \in Framer
      BY <1>1
    <2>3. f' = [fr EXCEPT !.timer = FALSE, !.draining = FALSE, !.socket = "none",
                          !.buf = <<>>, !.needDrain = FALSE]
      BY <2>1
    <2> HIDE DEF fr
    <2>4. /\ f' \in Framer /\ f'.socket = "none"
          /\ f'.ring = fr.ring /\ f'.outBatch = fr.outBatch /\ f'.indices = fr.indices
          /\ f'.totalFrames = fr.totalFrames /\ f'.written = fr.written
          /\ f'.overflowed = fr.overflowed /\ f'.shrunk = fr.shrunk
          /\ f'.flights = fr.flights
      BY <1>3, <2>2, <2>3 DEF Framer, Buffer, Index
    <2> QED
      BY <1>2, <2>4 DEF IInv, fr
  <1> QED
    BY <1>4, <1>5

(* A socket that is no longer the framer's drains or ends.                  *)
LEMMA OrphanStep ==
  ASSUME IInv, OrphanSettles
  PROVE  IInv' /\ Kept
  <1>0. f \in Framer /\ Good(f)
    BY DEF IInv, Good, Owing
  <1>1. PICK i \in DOMAIN f.flights :
          /\ f.flights[i].state = "orphaned"
          /\ \/ f' = [f EXCEPT !.flights[i].state = "resumed", !.draining = FALSE]
             \/ f' = [f EXCEPT !.flights[i].state = "failed"]
    BY DEF OrphanSettles
  <1>2. /\ f.flights \in Seq(Flight) /\ DOMAIN f.flights = 1 .. Len(f.flights)
        /\ Len(f.flights) \in Nat /\ f.draining \in BOOLEAN
        /\ \A k \in DOMAIN f.flights : f.flights[k] \in Flight
    BY <1>0, FramerFields
  <1> DEFINE one(st) == [f.flights[i] EXCEPT !.state = st]
             all(st) == [f.flights EXCEPT ![i] = one(st)]
  <1>3. PICK state \in {"resumed", "failed"}, d \in BOOLEAN :
          f' = [f EXCEPT !.flights = all(state), !.draining = d]
    <2>1. CASE f' = [f EXCEPT !.flights[i].state = "resumed", !.draining = FALSE]
      <3>1. f' = [f EXCEPT !.flights = all("resumed"), !.draining = FALSE]
        BY <2>1
      <3> QED
        BY <3>1
    <2>2. CASE f' = [f EXCEPT !.flights[i].state = "failed"]
      <3>1. f' = [f EXCEPT !.flights = all("failed")]
        BY <2>2
      <3>2. [f EXCEPT !.flights = all("failed")]
              = [f EXCEPT !.flights = all("failed"), !.draining = f.draining]
        <4> HIDE DEF all
        <4> QED
          BY <1>0 DEF Framer
      <3> HIDE DEF all
      <3> QED
        BY <1>2, <3>1, <3>2
    <2> QED
      BY <1>1, <2>1, <2>2
  <1> DEFINE fl      == one(state)
             flights == all(state)
  <1>4. fl \in Flight /\ fl.rest = f.flights[i].rest /\ fl.slots = f.flights[i].slots
    BY <1>2 DEF Flight
  <1>5. f' = [f EXCEPT !.flights = flights, !.draining = d]
    BY <1>3
  <1> HIDE DEF one
  <1>6. /\ flights \in Seq(Flight) /\ DOMAIN flights = DOMAIN f.flights
        /\ \A k \in DOMAIN f.flights : flights[k] = IF k = i THEN fl ELSE f.flights[k]
    BY <1>2, <1>4
  <1> HIDE DEF flights, fl
  <1>7. /\ f' \in Framer /\ f'.ring = f.ring /\ f'.outBatch = f.outBatch
        /\ f'.indices = f.indices /\ f'.flights = flights
        /\ f'.totalFrames = f.totalFrames /\ f'.written = f.written
        /\ f'.overflowed = f.overflowed /\ f'.shrunk = f.shrunk
    <2>1. d \in BOOLEAN
      BY <1>3
    <2>2. f' \in Framer
      BY <1>0, <1>5, <1>6, <2>1, ZenonT(60) DEF Framer, Buffer, Index, Flight
    <2>3. /\ f'.ring = f.ring /\ f'.outBatch = f.outBatch
          /\ f'.indices = f.indices /\ f'.flights = flights
          /\ f'.totalFrames = f.totalFrames /\ f'.written = f.written
          /\ f'.overflowed = f.overflowed /\ f'.shrunk = f.shrunk
      BY <1>0, <1>5, SMTT(30) DEF Framer
    <2> QED
      BY <2>2, <2>3
  <1>8. Live(f) \subseteq Live(f')
    BY <1>1, <1>6, <1>7 DEF Live
  <1>9. Good(f') /\ HeldIn(f) \subseteq HeldIn(f')
    BY <1>0, <1>4, <1>6, <1>7, <1>8, SameRests
  <1> QED
    BY <1>7, <1>9, NoneEncoded DEF IInv, Kept

LEMMA InitGood ==
  ASSUME Init
  PROVE  IInv
  <1>1. /\ f \in Framer
        /\ f.ring = [s \in Slots |-> [inUse |-> FALSE, frame |-> 0]]
        /\ f.outBatch = <<>> /\ f.indices = <<>> /\ f.flights = <<>> /\ f.written = <<>>
    <2>1. 0 \in Slots /\ MaxCap \in Caps /\ 0 \in 0 .. MaxSockets
      BY FramerAssumption DEF Slots, Caps
    <2>2. [s \in Slots |-> [inUse |-> FALSE, frame |-> 0]]
            \in [Slots -> [inUse: BOOLEAN, frame: Frames \cup {0}]]
      OBVIOUS
    <2>3. <<>> \in Seq(Buffer) /\ <<>> \in Seq(Index) /\ <<>> \in Seq(Flight)
          /\ <<>> \in Seq(Frames)
      OBVIOUS
    <2> QED
      BY <2>1, <2>2, <2>3 DEF Init, Framer, Buffer, Index, Flight
  <1>2. Single(f)
    BY <1>1 DEF Single, Unique, UpTo
  <1>3. Listed(f, {}) /\ Intact(f.ring, f.outBatch, f.indices)
    BY <1>1 DEF Listed, Intact
  <1>4. InSequence(f)
    BY <1>1 DEF InSequence, Increasing, Before
  <1> QED
    BY <1>1, <1>2, <1>3, <1>4 DEF IInv, Good, Owing

LEMMA NextStep ==
  ASSUME IInv, Next
  PROVE  /\ IInv'
         /\ EnableWritev /\ f.socket = "open" /\ f'.socket = "open" => Kept
  <1>1. CASE EncodeToBatch
    BY <1>1, EncodeToBatchStep
  <1>2. CASE FlushBatch
    BY <1>2, FlushStep DEF FlushBatch
  <1>3. CASE TimerFlush
    BY <1>3, FlushStep DEF TimerFlush
  <1>4. CASE SetFlushCaps \/ SetBatchTiming \/ KernelTakes \/ AttachSocket
    BY <1>4, QuietStep
  <1>5. CASE Resume
    BY <1>5, ResumeStep
  <1>6. CASE Reject
    BY <1>6, RejectStep
  <1>7. CASE DrainEvent
    BY <1>7, DrainStep
  <1>8. CASE SocketDestroyed \/ DetachSocket
    BY <1>8, GoneStep
  <1>9. CASE OrphanSettles
    BY <1>9, OrphanStep
  <1> QED
    BY <1>1, <1>2, <1>3, <1>4, <1>5, <1>6, <1>7, <1>8, <1>9 DEF Next
-----------------------------------------------------------------------------
(* The inductive invariant holds in every state of every behaviour.         *)
THEOREM Invariance == Spec => []IInv
  <1>1. Init => IInv
    BY InitGood
  <1>2. IInv /\ [Next]_vars => IInv'
    <2>1. ASSUME IInv, UNCHANGED vars
          PROVE  IInv'
      <3>1. f' = f
        BY <2>1 DEF vars
      <3> QED
        BY <2>1, <3>1 DEF IInv
    <2> QED
      BY <2>1, NextStep
  <1> QED
    BY <1>1, <1>2, PTL DEF Spec

(* Every field has its type, and no frame is queued twice in the batch,     *)
(* however the calls of flushBatch overlap and remainders are queued again. *)
THEOREM FramerTypes == Spec => []TypeOK
  <1>1. IInv => TypeOK
    BY DEF IInv, Good, Owing, Single, Unique, TypeOK
  <1> QED
    BY <1>1, Invariance, PTL

(* The socket is given every frame at most once and in the order of         *)
(* encodeToBatch, unless a 'flush' listener lowers the cap under a flush:   *)
(* until then a flight has nothing left, and what was written precedes the  *)
(* batch.                                                                   *)
THEOREM WrittenInOrder == Spec => []InOrder
  <1>1. IInv => InOrder
    BY DEF IInv, Good, Owing, InSequence, InOrder
  <1> QED
    BY <1>1, Invariance, PTL

(* A queued frame keeps its slot and its bytes: releaseSlots passes over    *)
(* the slots of the batch, whichever flight lists them.                     *)
THEOREM QueuedIsIntact == Spec => []PendingIntact
  <1>1. IInv => PendingIntact
    BY DEF IInv, Good, Owing, Intact, PendingIntact
  <1> QED
    BY <1>1, Invariance, PTL

(* No slot is lost to the ring: one in use is listed by the batch or by a   *)
(* flight, rejected or not.                                                 *)
THEOREM NoSlotLeaks == Spec => []NoLeak
  <1>1. IInv => NoLeak
    BY DEF IInv, Good, Owing, Listed, NoLeak
  <1> QED
    BY <1>1, Invariance, PTL

(* With writev no step of the framer loses a frame while the socket is      *)
(* open.  (Without it flushBatch writes one frame of a batch only.)         *)
THEOREM NoFrameLost ==
  ASSUME EnableWritev
  PROVE  Spec => NothingLost
  <1> DEFINE Step == f.socket = "open" /\ f'.socket = "open" =>
               Held \cup (f.totalFrames + 1 .. f'.totalFrames) \subseteq Held' \cup Written'
  <1>1. IInv /\ [Next]_vars => [Step]_vars
    <2> SUFFICES ASSUME IInv, Next
                 PROVE  Step
      OBVIOUS
    <2> QED
      BY NextStep, HeldIsHeldIn DEF Kept
  <1> QED
    BY <1>1, Invariance, PTL DEF Spec, NothingLost

=============================================================================
