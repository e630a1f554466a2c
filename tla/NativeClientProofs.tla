------------------------- MODULE NativeClientProofs -------------------------
(***************************************************************************)
(* Theorems about NativeClient, for every number of connections, payloads  *)
(* and chunks, every payload length and whatever the OS takes of a write.  *)
(***************************************************************************)
EXTENDS NativeClient, SharedLemmas

Points ==
  {Polling} \cup [at : {"reset", "end"}] \cup [at : {"write"}, n : 0 .. MaxWrites]
    \cup [at : {"account"}, n : 0 .. MaxWrites, next : Seq(Bytes), written : Nat]

\* No segment is empty, and a payload is only taken while turns are left.
NoneEmpty(list) == \A i \in DOMAIN list : list[i] # <<>>
Machine ==
  /\ NoneEmpty(send_queue) /\ NoneEmpty(skt.out)
  /\ svc.at = "account" => svc.n < MaxWrites

Has(s, e) == \E i \in DOMAIN s : s[i].e = e
\* Nothing but 'close' and 'error' follows a 'close'.
Ordered(s) ==
  \A i, j \in DOMAIN s : i < j /\ s[i].e = "close" => s[j].e \notin {"connect", "data"}

(***************************************************************************)
(* What the owner heard (hd) and what is queued for it (ev), after arr     *)
(* chunks, for a socket w that the owner has destroyed or not (gone).      *)
(***************************************************************************)
Story(hd, ev, arr, gone, w) ==
  /\ \E h \in 0 .. arr : Chunks(hd, 0, h) /\ Chunks(ev, h, arr)
  /\ Has(hd, "data") => Has(hd, "connect")
  /\ \A i \in DOMAIN ev : ev[i].e = "data" =>
       Has(hd, "connect") \/ \E j \in DOMAIN ev : j < i /\ ev[j].e = "connect"
  /\ w = "up" => Has(hd, "connect") \/ Has(ev, "connect")
  /\ ~gone =>
       /\ Ordered(hd) /\ Ordered(ev)
       /\ Has(hd, "close") => ~Has(ev, "connect") /\ ~Has(ev, "data")
       /\ w \in {"connecting", "up"} => ~Has(hd, "close") /\ ~Has(ev, "close")

\* An adapter connects once, and its handler stays until destroy() has ended.
AdapterInv ==
  /\ Story(heard, events, arrived, adapter.destroyed, wsi)
  /\ connects = 0 => arrived = 0 /\ thread = "none" /\ wsi = "null" /\ events = <<>>
                       /\ (~adapter.destroyed => heard = <<>>)
  /\ ~flags.tsfn_ready => adapter.destroyed
  /\ thread = "running" => flags.tsfn_ready
  /\ js = "joining" => adapter.destroyed

IInv == TypeOK /\ Machine /\ (owner = "adapter" => AdapterInv)
-----------------------------------------------------------------------------
(* Chunks of sequences that grow and shrink. *)

LEMMA EventFields ==
  ASSUME NEW ev \in Events
  PROVE  ev.f \in Nat /\ ev = Event(ev.e, ev.f) /\ ev.e \in {"connect", "data", "close", "error"}
  BY DEF Events, Event

LEMMA ChunksQuiet ==
  ASSUME NEW s \in Seq(Events), NEW new \in Seq(Events), ~Has(new, "data"),
         NEW from, NEW to, Chunks(s, from, to)
  PROVE  Chunks(s \o new, from, to)
  <1> DEFINE u == s \o new
  <1>1. /\ \A i \in DOMAIN s : i \in DOMAIN u /\ u[i] = s[i]
        /\ \A i \in DOMAIN u : \/ i \in DOMAIN s /\ u[i] = s[i]
                               \/ i - Len(s) \in DOMAIN new /\ i > Len(s) /\ u[i] = new[i - Len(s)]
    BY ConcatParts
  <1> HIDE DEF u
  <1>2. \A i \in DOMAIN u : u[i].e = "data" => i \in DOMAIN s /\ u[i] = s[i]
    BY <1>1 DEF Has
  <1>3. Chunks(u, from, to)
    BY <1>1, <1>2 DEF Chunks
  <1> QED
    BY <1>3 DEF u

LEMMA ChunksNext ==
  ASSUME NEW s \in Seq(Events), NEW from \in Nat, NEW to \in Nat, from <= to, Chunks(s, from, to)
  PROVE  Chunks(Append(s, Event("data", to + 1)), from, to + 1)
  <1> DEFINE x == Event("data", to + 1)
             u == Append(s, x)
             d == to + 1
  <1>1. x \in Events /\ x.e = "data" /\ x.f = d
    BY DEF Events, Event
  <1> HIDE DEF x
  <1>2. /\ Len(s) + 1 \in DOMAIN u /\ u[Len(s) + 1] = x
        /\ \A i \in DOMAIN s : i \in DOMAIN u /\ u[i] = s[i] /\ i <= Len(s)
        /\ \A i \in DOMAIN u : \/ i \in DOMAIN s /\ u[i] = s[i]
                               \/ i = Len(s) + 1 /\ u[i] = x
    BY <1>1, AppendParts
  <1> HIDE DEF u
  <1>3. Len(s) \in Nat /\ DOMAIN s = 1 .. Len(s)
    OBVIOUS
  <1>4. /\ \A n \in from + 1 .. to : n \in from + 1 .. d /\ n < d
        /\ d \in from + 1 .. d
        /\ \A n \in from + 1 .. d : n \in from + 1 .. to \/ n = d
    OBVIOUS
  <1> HIDE DEF d
  <1>5. ASSUME NEW i \in DOMAIN u, u[i].e = "data"
        PROVE  u[i].f \in from + 1 .. d
    BY <1>1, <1>2, <1>4, <1>5 DEF Chunks
  <1>6. ASSUME NEW n \in from + 1 .. d
        PROVE  \E i \in DOMAIN u : u[i] = Event("data", n)
    <2>1. CASE n = d
      BY <1>2, <2>1 DEF x, d
    <2>2. CASE n \in from + 1 .. to
      BY <1>2, <2>2 DEF Chunks
    <2> QED
      BY <1>4, <2>1, <2>2
  <1>7. ASSUME NEW i \in DOMAIN u, NEW j \in DOMAIN u, i < j,
               u[i].e = "data", u[j].e = "data"
        PROVE  u[i].f < u[j].f
    <2>1. CASE j \in DOMAIN s
      <3>1. i \in DOMAIN s /\ u[i] = s[i] /\ u[j] = s[j]
        BY <1>2, <1>3, <1>7, <2>1
      <3> QED
        BY <1>7, <2>1, <3>1 DEF Chunks
    <2>2. CASE j = Len(s) + 1 /\ u[j] = x
      <3>1. i \in DOMAIN s /\ u[i] = s[i]
        BY <1>2, <1>3, <1>7, <2>2
      <3>2. s[i].f \in from + 1 .. to
        BY <1>7, <3>1 DEF Chunks
      <3> QED
        BY <1>1, <1>4, <2>2, <3>1, <3>2
    <2> QED
      BY <1>2, <2>1, <2>2
  <1>8. Chunks(u, from, d)
    BY <1>5, <1>6, <1>7 DEF Chunks
  <1> QED
    BY <1>8 DEF u, x, d

(* The first of the chunks, if it is a chunk, is the lowest.                *)
LEMMA ChunksHead ==
  ASSUME NEW s \in Seq(Events), s # <<>>, NEW from \in Nat, NEW to \in Nat, Chunks(s, from, to)
  PROVE  IF Head(s).e = "data"
           THEN /\ Head(s) = Event("data", from + 1) /\ from + 1 <= to
                /\ Chunks(Tail(s), from + 1, to)
           ELSE Chunks(Tail(s), from, to)
  <1> DEFINE t == Tail(s)
  <1>1. /\ Head(s) \in Events /\ Head(s) = s[1] /\ 1 \in DOMAIN s /\ t \in Seq(Events)
        /\ \A i \in DOMAIN t : i + 1 \in DOMAIN s /\ t[i] = s[i + 1]
        /\ \A i \in DOMAIN s : \/ i = 1
                               \/ i - 1 \in DOMAIN t /\ t[i - 1] = s[i]
    BY TailParts
  <1> HIDE DEF t
  <1>2. /\ Len(t) \in Nat /\ DOMAIN t = 1 .. Len(t) /\ Len(s) \in Nat /\ DOMAIN s = 1 .. Len(s)
    BY <1>1
  <1>3. ASSUME NEW i \in DOMAIN t, NEW j \in DOMAIN t, i < j, t[i].e = "data", t[j].e = "data"
        PROVE  t[i].f < t[j].f
    <2>1. i + 1 < j + 1
      BY <1>2, <1>3
    <2> QED
      BY <1>1, <1>3, <2>1 DEF Chunks
  <1>4. CASE Head(s).e # "data"
    <2>1. \A i \in DOMAIN t : t[i].e = "data" => t[i].f \in from + 1 .. to
      BY <1>1 DEF Chunks
    <2>2. ASSUME NEW n \in from + 1 .. to
          PROVE  \E i \in DOMAIN t : t[i] = Event("data", n)
      <3>1. PICK i \in DOMAIN s : s[i] = Event("data", n)
        BY DEF Chunks
      <3>2. i # 1
        BY <1>1, <1>4, <3>1 DEF Event
      <3> QED
        BY <1>1, <3>1, <3>2
    <2>3. Chunks(t, from, to)
      BY <1>3, <2>1, <2>2 DEF Chunks
    <2> QED
      BY <1>4, <2>3 DEF t
  <1>5. CASE Head(s).e = "data"
    <2>1. s[1].f \in from + 1 .. to
      BY <1>1, <1>5 DEF Chunks
    <2>2. from + 1 \in from + 1 .. to
      BY <2>1
    <2>3. PICK m \in DOMAIN s : s[m] = Event("data", from + 1)
      BY <2>2 DEF Chunks
    <2>4. s[m].e = "data" /\ s[m].f = from + 1
      BY <2>3 DEF Event
    <2>5. m = 1
      <3> SUFFICES ASSUME m # 1 PROVE FALSE
        OBVIOUS
      <3>1. 1 < m
        BY <1>2
      <3>2. s[1].f < s[m].f
        BY <1>1, <1>5, <2>4, <3>1 DEF Chunks
      <3> QED
        BY <2>1, <2>4, <3>2
    <2>6. Head(s) = Event("data", from + 1) /\ s[1].f = from + 1
      BY <1>1, <2>3, <2>4, <2>5
    <2>7. ASSUME NEW i \in DOMAIN t, t[i].e = "data"
          PROVE  t[i].f \in from + 1 + 1 .. to
      <3>1. i + 1 \in DOMAIN s /\ t[i] = s[i + 1] /\ 1 < i + 1
        BY <1>1, <1>2
      <3>2. s[i + 1].f \in from + 1 .. to /\ s[1].f < s[i + 1].f
        BY <1>1, <1>5, <2>7, <3>1 DEF Chunks
      <3> QED
        BY <2>6, <3>1, <3>2
    <2>8. ASSUME NEW n \in from + 1 + 1 .. to
          PROVE  \E i \in DOMAIN t : t[i] = Event("data", n)
      <3>1. n \in from + 1 .. to /\ n # from + 1
        OBVIOUS
      <3>2. PICK i \in DOMAIN s : s[i] = Event("data", n)
        BY <3>1 DEF Chunks
      <3>3. s[i].f = n
        BY <3>2 DEF Event
      <3>4. i # 1
        BY <2>6, <3>1, <3>3
      <3> QED
        BY <1>1, <3>2, <3>4
    <2>9. Chunks(t, from + 1, to)
      BY <1>3, <2>7, <2>8 DEF Chunks
    <2> QED
      BY <1>5, <2>2, <2>6, <2>9 DEF t
  <1> QED
    BY <1>4, <1>5
-----------------------------------------------------------------------------
(* What is heard and queued, step by step. *)

Living == {"connecting", "up"}

LEMMA StoryStart ==
  ASSUME NEW gone, NEW w, w # "up"
  PROVE  Story(<<>>, <<>>, 0, gone, w)
  <1>1. Chunks(<<>>, 0, 0)
    BY DEF Chunks
  <1>2. 0 \in 0 .. 0
    OBVIOUS
  <1>3. DOMAIN <<>> = {}
    OBVIOUS
  <1> QED
    BY <1>1, <1>2, <1>3 DEF Story, Has, Ordered

LEMMA StoryLater ==
  ASSUME NEW hd, NEW ev, NEW arr, NEW gone \in BOOLEAN, NEW now \in BOOLEAN, NEW w, NEW v,
         Story(hd, ev, arr, gone, w), gone => now,
         v = "up" => w = "up", v \in Living => w \in Living
  PROVE  Story(hd, ev, arr, now, v)
  BY DEF Story, Living

\* Places of s, and of new behind it.
LEMMA HasConcat ==
  ASSUME NEW s \in Seq(Events), NEW new \in Seq(Events), NEW e
  PROVE  Has(s \o new, e) <=> Has(s, e) \/ Has(new, e)
  <1> DEFINE u == s \o new
  <1>1. /\ \A i \in DOMAIN s : i \in DOMAIN u /\ u[i] = s[i]
        /\ \A j \in DOMAIN new : Len(s) + j \in DOMAIN u /\ u[Len(s) + j] = new[j]
        /\ \A i \in DOMAIN u : \/ i \in DOMAIN s /\ u[i] = s[i]
                               \/ i - Len(s) \in DOMAIN new /\ i > Len(s) /\ u[i] = new[i - Len(s)]
    BY ConcatParts
  <1> HIDE DEF u
  <1>2. Has(u, e) <=> Has(s, e) \/ Has(new, e)
    BY <1>1 DEF Has
  <1> QED
    BY <1>2 DEF u

(* 'close' and 'error' events are queued.                                   *)
LEMMA StoryQuiet ==
  ASSUME NEW hd, NEW ev \in Seq(Events), NEW new \in Seq(Events), NEW arr, NEW gone \in BOOLEAN,
         NEW w, NEW v, Story(hd, ev, arr, gone, w), ~Has(new, "data"), ~Has(new, "connect"),
         v = "up" => w = "up", v \in Living => w \in Living /\ ~Has(new, "close")
  PROVE  Story(hd, ev \o new, arr, gone, v)
  <1> DEFINE u == ev \o new
  <1>1. /\ \A i \in DOMAIN ev : i \in DOMAIN u /\ u[i] = ev[i]
        /\ \A i \in DOMAIN u : \/ i \in DOMAIN ev /\ u[i] = ev[i]
                               \/ i - Len(ev) \in DOMAIN new /\ i > Len(ev) /\ u[i] = new[i - Len(ev)]
    BY ConcatParts
  <1>2. \A e : Has(u, e) <=> Has(ev, e) \/ Has(new, e)
    BY HasConcat
  <1>3. \E h \in 0 .. arr : Chunks(hd, 0, h) /\ Chunks(u, h, arr)
    <2>1. PICK h \in 0 .. arr : Chunks(hd, 0, h) /\ Chunks(ev, h, arr)
      BY DEF Story
    <2>2. Chunks(u, h, arr)
      BY <2>1, ChunksQuiet
    <2> QED
      BY <2>1, <2>2
  <1> HIDE DEF u
  <1>4. \A i \in DOMAIN u : u[i].e \in {"data", "connect"} => i \in DOMAIN ev /\ u[i] = ev[i]
    BY <1>1 DEF Has
  <1>5. ASSUME NEW i \in DOMAIN u, u[i].e = "data"
        PROVE  Has(hd, "connect") \/ \E j \in DOMAIN u : j < i /\ u[j].e = "connect"
    BY <1>1, <1>4, <1>5 DEF Story
  <1>6. ASSUME ~gone
        PROVE  Ordered(u)
    <2>1. Ordered(ev)
      BY <1>6 DEF Story
    <2> SUFFICES ASSUME NEW i \in DOMAIN u, NEW j \in DOMAIN u, i < j, u[i].e = "close",
                        u[j].e \in {"connect", "data"}
                 PROVE  FALSE
      BY DEF Ordered
    <2>2. j \in DOMAIN ev /\ u[j] = ev[j]
      BY <1>4
    <2>3. DOMAIN ev = 1 .. Len(ev) /\ Len(ev) \in Nat
      OBVIOUS
    <2>4. i \in DOMAIN ev /\ u[i] = ev[i]
      <3> SUFFICES ASSUME i - Len(ev) \in DOMAIN new, i > Len(ev) PROVE FALSE
        BY <1>1
      <3>1. DOMAIN new \subseteq Int /\ i \in Int
        <4>1. DOMAIN new = 1 .. Len(new)
          OBVIOUS
        <4>2. DOMAIN u \subseteq Int
          BY ConcatParts DEF u
        <4> QED
          BY <4>1, <4>2
      <3> QED
        BY <2>2, <2>3, <3>1
    <2> QED
      BY <2>1, <2>2, <2>4 DEF Ordered
  <1>7. Story(hd, u, arr, gone, v)
    BY <1>2, <1>3, <1>5, <1>6 DEF Story, Living
  <1> QED
    BY <1>7 DEF u

(* A 'connect' or the next chunk is queued, of a socket that lives.         *)
LEMMA StoryNews ==
  ASSUME NEW hd, NEW ev \in Seq(Events), NEW arr \in Nat, NEW x \in Events, NEW gone \in BOOLEAN,
         NEW w \in Living, Story(hd, ev, arr, gone, w)
  PROVE  /\ x.e = "connect" => Story(hd, Append(ev, x), arr, gone, "up")
         /\ x = Event("data", arr + 1) /\ w = "up" => Story(hd, Append(ev, x), arr + 1, gone, "up")
  <1> DEFINE u == Append(ev, x)
  <1>1. /\ Len(ev) + 1 \in DOMAIN u /\ u[Len(ev) + 1] = x
        /\ \A i \in DOMAIN ev : i \in DOMAIN u /\ u[i] = ev[i] /\ i <= Len(ev)
        /\ \A i \in DOMAIN u : \/ i \in DOMAIN ev /\ u[i] = ev[i]
                               \/ i = Len(ev) + 1 /\ u[i] = x
    BY AppendParts
  <1>2. DOMAIN ev = 1 .. Len(ev) /\ Len(ev) \in Nat /\ \A i \in DOMAIN ev : i < Len(ev) + 1
    OBVIOUS
  <1>3. PICK h \in 0 .. arr : Chunks(hd, 0, h) /\ Chunks(ev, h, arr)
    BY DEF Story
  <1>4. \A e : Has(u, e) <=> Has(ev, e) \/ x.e = e
    BY <1>1 DEF Has
  <1>5. ASSUME ~gone, x.e # "close"
        PROVE  Ordered(u) /\ ~Has(hd, "close") /\ ~Has(u, "close") /\ Ordered(hd)
    <2>1. ~Has(hd, "close") /\ ~Has(ev, "close") /\ Ordered(hd)
      BY <1>5 DEF Story, Living
    <2> QED
      BY <1>4, <1>5, <2>1 DEF Ordered, Has
  <1>6. ASSUME x.e = "connect"
        PROVE  Story(hd, u, arr, gone, "up")
    <2>1. Chunks(u, h, arr)
      <3>1. u = ev \o <<x>>
        OBVIOUS
      <3>2. <<x>> \in Seq(Events) /\ ~Has(<<x>>, "data")
        BY <1>6 DEF Has
      <3> QED
        BY <1>3, <3>1, <3>2, ChunksQuiet
    <2> HIDE DEF u
    <2>2. ASSUME NEW i \in DOMAIN u, u[i].e = "data"
          PROVE  Has(hd, "connect") \/ \E j \in DOMAIN u : j < i /\ u[j].e = "connect"
      BY <1>1, <1>6, <2>2 DEF Story
    <2> QED
      BY <1>3, <1>4, <1>5, <1>6, <2>1, <2>2 DEF Story
  <1>7. ASSUME x = Event("data", arr + 1), w = "up"
        PROVE  Story(hd, u, arr + 1, gone, "up")
    <2>1. Chunks(u, h, arr + 1) /\ h \in 0 .. arr + 1
      BY <1>3, <1>7, ChunksNext
    <2>2. Has(hd, "connect") \/ Has(ev, "connect")
      BY <1>7 DEF Story
    <2>3. x.e = "data"
      BY <1>7 DEF Event
    <2> HIDE DEF u
    <2>4. ASSUME NEW i \in DOMAIN u, u[i].e = "data"
          PROVE  Has(hd, "connect") \/ \E j \in DOMAIN u : j < i /\ u[j].e = "connect"
      <3>1. CASE i \in DOMAIN ev /\ u[i] = ev[i]
        BY <1>1, <2>4, <3>1 DEF Story
      <3>2. CASE i = Len(ev) + 1
        BY <1>1, <1>2, <2>2, <3>2 DEF Has
      <3> QED
        BY <1>1, <3>1, <3>2
    <2> QED
      BY <1>3, <1>4, <1>5, <2>1, <2>2, <2>3, <2>4 DEF Story
  <1> QED
    BY <1>6, <1>7

(* destroy() makes the owner hear 'close', or 'error', at once.             *)
LEMMA StoryDestroyed ==
  ASSUME NEW hd \in Seq(Events), NEW ev, NEW arr, NEW gone, NEW x \in Events, NEW w,
         Story(hd, ev, arr, gone, w), x.e \in {"close", "error"}
  PROVE  Story(Append(hd, x), ev, arr, TRUE, w)
  <1> DEFINE u == Append(hd, x)
  <1>1. PICK h \in 0 .. arr : Chunks(hd, 0, h) /\ Chunks(ev, h, arr)
    BY DEF Story
  <1>2. Chunks(u, 0, h)
    <2>1. u = hd \o <<x>>
      OBVIOUS
    <2>2. <<x>> \in Seq(Events) /\ ~Has(<<x>>, "data")
      BY DEF Has
    <2> QED
      BY <1>1, <2>1, <2>2, ChunksQuiet
  <1>3. \A e : Has(u, e) <=> Has(hd, e) \/ x.e = e
    BY AppendParts DEF Has
  <1> HIDE DEF u
  <1>4. Story(u, ev, arr, TRUE, w)
    BY <1>1, <1>2, <1>3 DEF Story
  <1> QED
    BY <1>4 DEF u

(* The event loop passes the first queued event on.                         *)
LEMMA StoryDelivered ==
  ASSUME NEW hd \in Seq(Events), NEW ev \in Seq(Events), ev # <<>>, NEW arr \in Nat,
         NEW gone \in BOOLEAN, NEW w, Story(hd, ev, arr, gone, w)
  PROVE  Story(Append(hd, Head(ev)), Tail(ev), arr, gone, w)
  <1> DEFINE x == Head(ev)
             t == Tail(ev)
             u == Append(hd, x)
  <1>1. /\ x \in Events /\ x = ev[1] /\ 1 \in DOMAIN ev /\ t \in Seq(Events)
        /\ \A i \in DOMAIN t : i + 1 \in DOMAIN ev /\ t[i] = ev[i + 1]
        /\ \A i \in DOMAIN ev : \/ i = 1
                                \/ i - 1 \in DOMAIN t /\ t[i - 1] = ev[i]
    BY TailParts
  <1>2. PICK h \in 0 .. arr : Chunks(hd, 0, h) /\ Chunks(ev, h, arr)
    BY DEF Story
  <1>3. \E g \in 0 .. arr : Chunks(u, 0, g) /\ Chunks(t, g, arr)
    <2>1. CASE x.e = "data"
      <3>1. x = Event("data", h + 1) /\ h + 1 <= arr /\ Chunks(t, h + 1, arr)
        BY <1>1, <1>2, <2>1, ChunksHead
      <3>2. Chunks(u, 0, h + 1)
        BY <1>2, <3>1, ChunksNext
      <3> QED
        BY <3>1, <3>2
    <2>2. CASE x.e # "data"
      <3>1. Chunks(t, h, arr)
        BY <1>1, <1>2, <2>2, ChunksHead
      <3>2. u = hd \o <<x>> /\ <<x>> \in Seq(Events)
        BY <1>1
      <3>3. ~Has(<<x>>, "data")
        BY <2>2 DEF Has
      <3>4. Chunks(u, 0, h)
        BY <1>2, <3>2, <3>3, ChunksQuiet
      <3> QED
        BY <3>1, <3>4
    <2> QED
      BY <2>1, <2>2
  <1> HIDE DEF t, x
  <1>4. /\ Len(hd) + 1 \in DOMAIN u /\ u[Len(hd) + 1] = x
        /\ \A i \in DOMAIN hd : i \in DOMAIN u /\ u[i] = hd[i] /\ i <= Len(hd)
        /\ \A i \in DOMAIN u : \/ i \in DOMAIN hd /\ u[i] = hd[i]
                               \/ i = Len(hd) + 1 /\ u[i] = x
    BY <1>1, AppendParts
  <1> HIDE DEF u
  <1>5. /\ DOMAIN hd = 1 .. Len(hd) /\ Len(hd) \in Nat
        /\ DOMAIN t = 1 .. Len(t) /\ Len(t) \in Nat
        /\ DOMAIN ev = 1 .. Len(ev) /\ Len(ev) \in Nat
    BY <1>1
  <1>6. \A e : Has(u, e) <=> Has(hd, e) \/ x.e = e
    BY <1>4 DEF Has
  <1>7. \A e : Has(ev, e) <=> Has(t, e) \/ x.e = e
    <2> TAKE e
    <2>1. ASSUME Has(ev, e) PROVE Has(t, e) \/ x.e = e
      <3>1. PICK i \in DOMAIN ev : ev[i].e = e
        BY <2>1 DEF Has
      <3>2. CASE i = 1
        BY <1>1, <3>1, <3>2
      <3>3. CASE i - 1 \in DOMAIN t /\ t[i - 1] = ev[i]
        BY <3>1, <3>3, Zenon DEF Has
      <3> QED
        BY <1>1, <3>2, <3>3
    <2>2. ASSUME Has(t, e) \/ x.e = e PROVE Has(ev, e)
      <3>1. CASE x.e = e
        BY <1>1, <3>1 DEF Has
      <3>2. ASSUME NEW i \in DOMAIN t, t[i].e = e PROVE Has(ev, e)
        BY <1>1, <3>2, Zenon DEF Has
      <3> QED
        BY <2>2, <3>1, <3>2 DEF Has
    <2> QED
      BY <2>1, <2>2
  <1>8. x.e = "data" => Has(hd, "connect")
    <2> SUFFICES ASSUME x.e = "data", ~Has(hd, "connect") PROVE FALSE
      OBVIOUS
    <2>1. PICK j \in DOMAIN ev : j < 1
      BY <1>1 DEF Story
    <2> QED
      BY <1>5, <2>1
  <1>9. ASSUME NEW i \in DOMAIN t, t[i].e = "data"
        PROVE  Has(u, "connect") \/ \E j \in DOMAIN t : j < i /\ t[j].e = "connect"
    <2>1. i + 1 \in DOMAIN ev /\ ev[i + 1].e = "data"
      BY <1>1, <1>9
    <2>2. CASE Has(hd, "connect")
      BY <1>6, <2>2
    <2>3. CASE \E j \in DOMAIN ev : j < i + 1 /\ ev[j].e = "connect"
      <3>1. PICK j \in DOMAIN ev : j < i + 1 /\ ev[j].e = "connect"
        BY <2>3
      <3>2. CASE j = 1
        BY <1>1, <1>6, <3>1, <3>2
      <3>3. CASE j - 1 \in DOMAIN t /\ t[j - 1] = ev[j]
        <4>1. j - 1 < i
          BY <1>5, <3>1
        <4> QED
          BY <3>1, <3>3, <4>1
      <3> QED
        BY <1>1, <3>2, <3>3
    <2> QED
      BY <2>1, <2>2, <2>3 DEF Story
  <1>10. ASSUME ~gone
         PROVE  /\ Ordered(u) /\ Ordered(t)
                /\ Has(u, "close") => ~Has(t, "connect") /\ ~Has(t, "data")
    <2>1. Ordered(hd) /\ Ordered(ev) /\ (Has(hd, "close") => ~Has(ev, "connect") /\ ~Has(ev, "data"))
      BY <1>10 DEF Story
    <2>2. Ordered(u)
      <3> SUFFICES ASSUME NEW i \in DOMAIN u, NEW j \in DOMAIN u, i < j, u[i].e = "close",
                          u[j].e \in {"connect", "data"}
                   PROVE  FALSE
        BY DEF Ordered
      <3>1. i \in DOMAIN hd /\ u[i] = hd[i]
        BY <1>4, <1>5
      <3>2. CASE j \in DOMAIN hd /\ u[j] = hd[j]
        BY <2>1, <3>1, <3>2 DEF Ordered
      <3>3. CASE j = Len(hd) + 1 /\ u[j] = x
        BY <1>7, <2>1, <3>1, <3>3 DEF Has
      <3> QED
        BY <1>4, <3>2, <3>3
    <2>3. Ordered(t)
      <3> SUFFICES ASSUME NEW i \in DOMAIN t, NEW j \in DOMAIN t, i < j, t[i].e = "close"
                   PROVE  t[j].e \notin {"connect", "data"}
        BY DEF Ordered
      <3>1. i + 1 < j + 1
        BY <1>5
      <3> QED
        BY <1>1, <2>1, <3>1 DEF Ordered
    <2>4. Has(u, "close") => ~Has(t, "connect") /\ ~Has(t, "data")
      <3>1. CASE Has(hd, "close")
        BY <1>7, <2>1, <3>1
      <3>2. CASE x.e = "close"
        <4> SUFFICES ASSUME NEW i \in DOMAIN t, t[i].e \in {"connect", "data"} PROVE FALSE
          BY DEF Has
        <4>1. 1 < i + 1 /\ i + 1 \in DOMAIN ev /\ t[i] = ev[i + 1]
          BY <1>1, <1>5
        <4> QED
          BY <1>1, <2>1, <3>2, <4>1 DEF Ordered
      <3> QED
        BY <1>6, <3>1, <3>2
    <2> QED
      BY <2>2, <2>3, <2>4
  <1>11. Story(u, t, arr, gone, w)
    <2>1. Has(u, "data") => Has(u, "connect")
      BY <1>6, <1>8 DEF Story
    <2>2. w = "up" => Has(u, "connect") \/ Has(t, "connect")
      BY <1>6, <1>7 DEF Story
    <2>3. ~gone /\ w \in {"connecting", "up"} => ~Has(u, "close") /\ ~Has(t, "close")
      BY <1>6, <1>7 DEF Story
    <2> QED
      BY <1>3, <1>9, <1>10, <2>1, <2>2, <2>3 DEF Story
  <1> QED
    BY <1>11 DEF u, t, x
-----------------------------------------------------------------------------
(* The bytes of a write. *)

LEMMA IssueTypes ==
  ASSUME NEW out \in Seq(Seq(Bytes)), NoneEmpty(out), NEW buf \in Seq(Bytes),
         out # <<>> \/ buf # <<>>, NEW k \in Takes(FirstOf(out, buf))
  PROVE  LET r == IssueRaw(out, buf, k)
         IN /\ r.sent \in Seq(Bytes) /\ r.out \in Seq(Seq(Bytes)) /\ NoneEmpty(r.out)
            /\ r.again \in BOOLEAN /\ r.ret \in Nat
  <1> DEFINE list == IF buf = <<>> THEN out ELSE Append(out, buf)
             r == IssueRaw(out, buf, k)
  <1>1. /\ list \in Seq(Seq(Bytes)) /\ list # <<>> /\ NoneEmpty(list)
        /\ Head(list) = FirstOf(out, buf)
    <2>1. CASE buf = <<>>
      BY <2>1 DEF FirstOf
    <2>2. CASE buf # <<>>
      <3> DEFINE u == Append(out, buf)
      <3>1. /\ u \in Seq(Seq(Bytes)) /\ Len(u) = Len(out) + 1 /\ u # <<>>
            /\ \A i \in DOMAIN u : \/ i \in DOMAIN out /\ u[i] = out[i]
                                   \/ i = Len(out) + 1 /\ u[i] = buf
        BY AppendParts
      <3>2. Head(u) = IF out = <<>> THEN buf ELSE Head(out)
        OBVIOUS
      <3>3. list = u
        BY <2>2
      <3> HIDE DEF u
      <3>4. NoneEmpty(u)
        BY <2>2, <3>1 DEF NoneEmpty
      <3> QED
        BY <3>1, <3>2, <3>3, <3>4 DEF FirstOf
    <2> QED
      BY <2>1, <2>2
  <1>2. r = [sent  |-> SubSeq(Head(list), 1, k),
             out   |-> UseSegment(list, k),
             again |-> out # <<>> \/ UseSegment(list, k) # <<>>,
             ret   |-> IF out = <<>> THEN Len(buf) ELSE k]
    BY DEF IssueRaw
  <1> HIDE DEF list, r
  <1>3. k \in 0 .. Len(Head(list)) /\ k \in Nat
    <2>1. Len(Head(list)) \in Nat
      <3>1. Head(list) \in Seq(Bytes)
        BY <1>1, TailParts
      <3> QED
        BY <3>1
    <2>2. k \in 0 .. (IF Len(Head(list)) < TxLimit THEN Len(Head(list)) ELSE TxLimit)
      BY <1>1 DEF Takes
    <2> QED
      BY <2>1, <2>2, TxLimitAssumption
  <1>4. /\ SubSeq(Head(list), 1, k) \in Seq(Bytes)
        /\ UseSegment(list, k) \in Seq(Seq(Bytes)) /\ NoneEmpty(UseSegment(list, k))
    BY <1>1, <1>3, FrontUsed DEF UseSegment, NoneEmpty
  <1>5. /\ r.sent \in Seq(Bytes) /\ r.out \in Seq(Seq(Bytes)) /\ NoneEmpty(r.out)
        /\ r.again \in BOOLEAN /\ r.ret \in Nat
    BY <1>2, <1>3, <1>4
  <1> QED
    BY <1>5 DEF r
-----------------------------------------------------------------------------
(* The steps. *)

\* What the owner heard and what is queued for it stay as they are.
LEMMA AdapterSame ==
  ASSUME owner = "adapter" => AdapterInv,
         UNCHANGED <<owner, heard, events, arrived, adapter, wsi, connects>>,
         owner = "adapter" => flags'.tsfn_ready = flags.tsfn_ready,
         thread' = thread \/ (thread = "running" /\ thread' = "ended"), js' = "joining" => js = "joining"
  PROVE  (owner = "adapter" => AdapterInv)'
  BY DEF AdapterInv

LEMMA EmittedTypes ==
  ASSUME TypeOK, NEW new \in Seq(Events)
  PROVE  Emitted(new) \in Seq(Events) /\ Emitted(new) \in {events, events \o new}
  BY DEF TypeOK, Emitted

LEMMA EndTypes ==
  ASSUME NEW w
  PROVE  /\ EndOf(w) \in Seq(Events) /\ ~Has(EndOf(w), "data") /\ ~Has(EndOf(w), "connect")
         /\ Close \in Events /\ Close.e = "close"
         /\ Event("error", 0) \in Events /\ Event("error", 0).e = "error"
         /\ Event("connect", 0) \in Events /\ Event("connect", 0).e = "connect"
  <1>1. /\ Close \in Events /\ Close.e = "close"
        /\ Event("error", 0) \in Events /\ Event("error", 0).e = "error"
        /\ Event("connect", 0) \in Events /\ Event("connect", 0).e = "connect"
    BY DEF Events, Event, Close
  <1> DEFINE fail == Event("error", 0)
             shut == Close
  <1>2. EndOf(w) = IF w = "up" THEN <<shut, shut>> ELSE <<fail, shut, shut>>
    BY DEF EndOf
  <1>3. shut \in Events /\ shut.e = "close" /\ fail \in Events /\ fail.e = "error"
    BY <1>1
  <1> HIDE DEF fail, shut
  <1>4. EndOf(w) \in Seq(Events)
    BY <1>2, <1>3
  <1>5. ~Has(EndOf(w), "data") /\ ~Has(EndOf(w), "connect")
    BY <1>2, <1>3 DEF Has
  <1> QED
    BY <1>1, <1>4, <1>5

LEMMA SendStep ==
  ASSUME IInv, NEW n \in 1 .. MaxSends, Send(n)
  PROVE  IInv'
  <1> DEFINE new == [i \in 1 .. n |-> [u \in 1 .. MsgLen |-> <<posted + i, u>>]]
  <1>1. TypeOK /\ Machine /\ (owner = "adapter" => AdapterInv)
    BY DEF IInv
  <1>2. n \in Nat /\ posted \in Nat /\ posted + n <= MaxSends /\ MaxSends \in Nat /\ MsgLen \in Nat \ {0}
    BY <1>1, BoundsAssumption DEF TypeOK, Send
  <1>3. ASSUME NEW i \in 1 .. n
        PROVE  new[i] \in Seq(Bytes) /\ new[i] # <<>>
    <2>1. posted + i \in 1 .. MaxSends
      BY <1>2
    <2>2. \A u \in 1 .. MsgLen : <<posted + i, u>> \in Bytes
      BY <2>1 DEF Bytes
    <2>3. new[i] = [u \in 1 .. MsgLen |-> <<posted + i, u>>]
      OBVIOUS
    <2> QED
      BY <1>2, <2>2, <2>3
  <1>4. new \in Seq(Seq(Bytes)) /\ NoneEmpty(new)
    <2>1. DOMAIN new = 1 .. n
      OBVIOUS
    <2> HIDE DEF new
    <2>2. new = [i \in 1 .. n |-> new[i]]
      BY DEF new
    <2>3. new \in Seq(Seq(Bytes))
      <3>1. \A i \in 1 .. n : new[i] \in Seq(Bytes)
        BY <1>3
      <3>2. [i \in 1 .. n |-> new[i]] \in [1 .. n -> Seq(Bytes)]
        BY <3>1
      <3> QED
        BY <1>2, <2>2, <3>2, SeqDef, SMTT(30)
    <2> QED
      BY <1>3, <2>1, <2>3 DEF NoneEmpty
  <1> HIDE DEF new
  <1>5. send_queue' = send_queue \o new
    BY DEF Send, new
  <1>6. send_queue \in Seq(Seq(Bytes)) /\ NoneEmpty(send_queue)
    BY <1>1 DEF TypeOK, Machine
  <1>7. send_queue' \in Seq(Seq(Bytes)) /\ NoneEmpty(send_queue')
    BY <1>4, <1>5, <1>6, ConcatParts DEF NoneEmpty
  <1>8. posted' \in 0 .. MaxSends
    BY <1>2 DEF Send
  <1>9. TypeOK'
    <2>1. /\ UNCHANGED <<owner, context, thread, wsi, flags, recv_queue, skt, svc, events, heard>>
          /\ UNCHANGED <<adapter, peer, connects, sent, arrived, promise>> /\ js' = "sending"
      BY DEF Send, line
    <2> QED
      BY <1>1, <1>7, <1>8, <2>1 DEF TypeOK
  <1>10. Machine'
    BY <1>1, <1>7 DEF Machine, Send, line
  <1>11. (owner = "adapter" => AdapterInv)'
    BY <1>1, AdapterSame DEF Send, line
  <1> QED
    BY <1>9, <1>10, <1>11 DEF IInv

LEMMA ConnectStep ==
  ASSUME IInv, Connect
  PROVE  IInv'
  <1>1. TypeOK /\ Machine /\ (owner = "adapter" => AdapterInv)
    BY DEF IInv
  <1>2. /\ UNCHANGED <<owner, send_queue, recv_queue, svc, js, events, heard>>
        /\ context' = TRUE /\ thread' = "running" /\ wsi' = "connecting"
        /\ flags' = [flags EXCEPT !.closing = FALSE, !.connected = FALSE]
        /\ skt' = NewSocket /\ peer' = "up" /\ posted' = 0 /\ sent' = 0 /\ arrived' = 0
        /\ owner = "adapter" => connects = 0 /\ ~adapter.destroyed
        /\ connects' = connects + 1 /\ connects < MaxConnects
    BY DEF Connect
  <1>3. /\ connects' \in 0 .. MaxConnects /\ connects' # 0
        /\ posted' \in 0 .. MaxSends /\ sent' \in 0 .. MaxChunks /\ arrived' \in 0 .. MaxChunks
    <2>1. connects \in 0 .. MaxConnects
      BY <1>1 DEF TypeOK
    <2> QED
      BY <1>2, <2>1, BoundsAssumption
  <1>4. NewSocket \in [out : Seq(Seq(Bytes)), pollout : BOOLEAN, wire : Seq(Bytes)]
        /\ NoneEmpty(NewSocket.out)
    BY DEF NewSocket, NoneEmpty
  <1>5. /\ adapter' \in [destroyed : BOOLEAN, connected : BOOLEAN, pendingConnect : BOOLEAN,
                         connectTimer : BOOLEAN]
        /\ adapter'.destroyed = adapter.destroyed
        /\ promise' \in {"none", "pending", "resolved", "rejected"}
    BY <1>1 DEF TypeOK, Connect
  <1>6. /\ flags' \in [closing : BOOLEAN, connected : BOOLEAN, writable_scheduled : BOOLEAN,
                       tsfn_ready : BOOLEAN]
        /\ flags'.tsfn_ready = flags.tsfn_ready
    BY <1>1, <1>2 DEF TypeOK
  <1>7. TypeOK'
    BY <1>1, <1>2, <1>3, <1>4, <1>5, <1>6 DEF TypeOK
  <1>8. Machine'
    BY <1>1, <1>2, <1>4 DEF Machine
  <1>9. ASSUME owner' = "adapter"
        PROVE  AdapterInv'
    <2>1. AdapterInv /\ connects = 0 /\ ~adapter.destroyed
      BY <1>1, <1>2, <1>9
    <2>2. heard' = <<>> /\ events' = <<>> /\ ~adapter'.destroyed /\ js' # "joining" /\ flags'.tsfn_ready
      BY <1>2, <1>5, <1>6, <2>1 DEF AdapterInv
    <2>3. Story(heard', events', arrived', adapter'.destroyed, wsi')
      BY <1>2, <2>2, StoryStart
    <2> QED
      BY <1>3, <2>2, <2>3 DEF AdapterInv
  <1> QED
    BY <1>7, <1>8, <1>9 DEF IInv

LEMMA ConnectThrowsStep ==
  ASSUME IInv, ConnectThrows
  PROVE  IInv'
  <1>1. TypeOK /\ Machine /\ (owner = "adapter" => AdapterInv)
    BY DEF IInv
  <1>2. /\ UNCHANGED <<owner, context, thread, wsi, send_queue, recv_queue, skt, svc, js>>
        /\ UNCHANGED <<peer, posted, sent, arrived, heard>>
        /\ owner = "adapter" => connects = 0 /\ ~adapter.destroyed
        /\ thread = "none" /\ js = "free"
        /\ flags' = [flags EXCEPT !.closing = TRUE, !.connected = FALSE]
        /\ events' = Emitted(<<Close>>)
        /\ connects' = connects + 1 /\ connects < MaxConnects
    BY DEF ConnectThrows
  <1>3. connects' \in 0 .. MaxConnects /\ connects' # 0
    <2>1. connects \in 0 .. MaxConnects
      BY <1>1 DEF TypeOK
    <2> QED
      BY <1>2, <2>1, BoundsAssumption
  <1>4. /\ adapter' \in [destroyed : BOOLEAN, connected : BOOLEAN, pendingConnect : BOOLEAN,
                         connectTimer : BOOLEAN]
        /\ adapter'.destroyed = adapter.destroyed
        /\ promise' \in {"none", "pending", "resolved", "rejected"}
    BY <1>1 DEF TypeOK, ConnectThrows
  <1>5. /\ flags' \in [closing : BOOLEAN, connected : BOOLEAN, writable_scheduled : BOOLEAN,
                       tsfn_ready : BOOLEAN]
        /\ flags'.tsfn_ready = flags.tsfn_ready
    BY <1>1, <1>2 DEF TypeOK
  <1>6. /\ <<Close>> \in Seq(Events) /\ ~Has(<<Close>>, "data") /\ ~Has(<<Close>>, "connect")
    BY EndTypes DEF Has
  <1>7. events' \in Seq(Events) /\ events' \in {events, events \o <<Close>>}
    BY <1>1, <1>2, <1>6, EmittedTypes
  <1>8. TypeOK'
    BY <1>1, <1>2, <1>3, <1>4, <1>5, <1>7 DEF TypeOK
  <1>9. Machine'
    BY <1>1, <1>2 DEF Machine
  <1>10. ASSUME owner' = "adapter"
         PROVE  AdapterInv'
    <2>1. AdapterInv /\ wsi = "null"
      BY <1>1, <1>2, <1>10 DEF AdapterInv
    <2>2. Story(heard, events \o <<Close>>, arrived, adapter.destroyed, wsi)
      <3>1. events \in Seq(Events) /\ adapter.destroyed \in BOOLEAN
        BY <1>1 DEF TypeOK
      <3>2. wsi \notin Living
        BY <2>1 DEF Living
      <3> QED
        BY <1>6, <2>1, <3>1, <3>2, StoryQuiet DEF AdapterInv
    <2> QED
      BY <1>2, <1>3, <1>4, <1>5, <1>7, <2>1, <2>2 DEF AdapterInv
  <1> QED
    BY <1>8, <1>9, <1>10 DEF IInv

LEMMA QuietSteps ==
  ASSUME IInv, SendWakes \/ Recv \/ SetEventHandler \/ RefreshTlsInfo
                 \/ LoopEnds \/ PeerSends \/ PeerLeaves
  PROVE  IInv'
  <1>1. TypeOK /\ Machine /\ (owner = "adapter" => AdapterInv)
    BY DEF IInv
  <1>2. CASE SendWakes
    <2>1. /\ UNCHANGED <<owner, context, thread, wsi, send_queue, recv_queue, svc, events, heard>>
          /\ UNCHANGED <<adapter, peer, connects, posted, sent, arrived, promise>>
          /\ js' \in {"free", "crashed"}
      BY <1>2 DEF SendWakes, line
    <2>2. /\ flags' \in [closing : BOOLEAN, connected : BOOLEAN, writable_scheduled : BOOLEAN,
                         tsfn_ready : BOOLEAN]
          /\ flags'.tsfn_ready = flags.tsfn_ready
          /\ skt' \in [out : Seq(Seq(Bytes)), pollout : BOOLEAN, wire : Seq(Bytes)]
          /\ skt'.out = skt.out
      BY <1>1, <1>2, ZenonT(60) DEF TypeOK, SendWakes
    <2>3. TypeOK' /\ Machine'
      BY <1>1, <2>1, <2>2 DEF TypeOK, Machine
    <2> QED
      BY <1>1, <2>1, <2>2, <2>3, AdapterSame DEF IInv
  <1>3. CASE Recv
    <2>1. /\ UNCHANGED <<owner, context, thread, wsi, flags, send_queue, skt, svc, js, events, heard>>
          /\ UNCHANGED <<adapter, peer, connects, posted, sent, arrived, promise>>
          /\ recv_queue' = Tail(recv_queue) /\ recv_queue # <<>>
      BY <1>3 DEF Recv, line
    <2>2. recv_queue' \in Seq(Nat)
      BY <1>1, <2>1 DEF TypeOK
    <2>3. TypeOK' /\ Machine'
      BY <1>1, <2>1, <2>2 DEF TypeOK, Machine
    <2> QED
      BY <1>1, <2>1, <2>3, AdapterSame DEF IInv
  <1>4. CASE SetEventHandler
    <2>1. /\ UNCHANGED <<owner, context, thread, wsi, send_queue, recv_queue, skt, svc, js, events>>
          /\ UNCHANGED <<adapter, peer, connects, posted, sent, arrived, heard, promise>>
          /\ owner = "bare" /\ flags' = [flags EXCEPT !.tsfn_ready = TRUE]
      BY <1>4 DEF SetEventHandler, line
    <2>2. flags' \in [closing : BOOLEAN, connected : BOOLEAN, writable_scheduled : BOOLEAN,
                      tsfn_ready : BOOLEAN]
      BY <1>1, <2>1 DEF TypeOK
    <2>3. TypeOK' /\ Machine'
      BY <1>1, <2>1, <2>2 DEF TypeOK, Machine
    <2> QED
      BY <2>1, <2>3 DEF IInv
  <1>5. CASE LoopEnds
    <2>1. /\ UNCHANGED <<owner, context, wsi, send_queue, recv_queue, skt, svc, js, events>>
          /\ UNCHANGED <<adapter, peer, connects, posted, sent, arrived, heard, promise>>
          /\ thread = "running" /\ thread' = "ended" /\ flags' = [flags EXCEPT !.connected = FALSE]
      BY <1>5 DEF LoopEnds, Inside, line
    <2>2. /\ flags' \in [closing : BOOLEAN, connected : BOOLEAN, writable_scheduled : BOOLEAN,
                         tsfn_ready : BOOLEAN]
          /\ flags'.tsfn_ready = flags.tsfn_ready
      BY <1>1, <2>1 DEF TypeOK
    <2>3. TypeOK' /\ Machine'
      BY <1>1, <2>1, <2>2 DEF TypeOK, Machine
    <2> QED
      BY <1>1, <2>1, <2>2, <2>3, AdapterSame DEF IInv
  <1>6. CASE PeerSends
    <2>1. /\ UNCHANGED <<owner, context, thread, wsi, flags, send_queue, recv_queue, skt, svc, js>>
          /\ UNCHANGED <<events, adapter, peer, connects, posted, arrived, heard, promise>>
          /\ sent' = sent + 1 /\ sent < MaxChunks
      BY <1>6 DEF PeerSends
    <2>2. sent' \in 0 .. MaxChunks
      BY <1>1, <2>1, BoundsAssumption DEF TypeOK
    <2>3. TypeOK' /\ Machine'
      BY <1>1, <2>1, <2>2 DEF TypeOK, Machine
    <2> QED
      BY <1>1, <2>1, <2>3, AdapterSame DEF IInv
  <1>7. CASE PeerLeaves
    <2>1. /\ UNCHANGED <<owner, context, thread, wsi, flags, send_queue, recv_queue, skt, svc, js>>
          /\ UNCHANGED <<events, adapter, connects, posted, sent, arrived, heard, promise>>
          /\ peer' \in {"fin", "rst"}
      BY <1>7 DEF PeerLeaves
    <2>2. TypeOK' /\ Machine'
      BY <1>1, <2>1 DEF TypeOK, Machine
    <2> QED
      BY <1>1, <2>1, <2>2, AdapterSame DEF IInv
  <1>8. CASE RefreshTlsInfo
    <2>1. /\ UNCHANGED <<owner, context, thread, wsi, flags, send_queue, recv_queue, skt, svc>>
          /\ UNCHANGED <<events, adapter, peer, connects, posted, sent, arrived, heard, promise>>
          /\ js' = "crashed"
      BY <1>8 DEF RefreshTlsInfo, line
    <2>2. TypeOK' /\ Machine'
      BY <1>1, <2>1 DEF TypeOK, Machine
    <2> QED
      BY <1>1, <2>1, <2>2, AdapterSame DEF IInv
  <1> QED
    BY <1>2, <1>3, <1>4, <1>5, <1>6, <1>7, <1>8

\* destroy() begins, by the owner or by the connect timer.
LEMMA DestroySteps ==
  ASSUME IInv, Destroy \/ ConnectTimeout
  PROVE  IInv'
  <1>1. TypeOK /\ Machine /\ (owner = "adapter" => AdapterInv)
    BY DEF IInv
  <1>2. /\ UNCHANGED <<owner, context, thread, wsi, send_queue, recv_queue, skt, svc, events>>
        /\ UNCHANGED <<peer, connects, posted, sent, arrived>>
        /\ js' = "joining" /\ flags' = [flags EXCEPT !.closing = TRUE]
        /\ heard' \in {heard, Append(heard, Event("error", 0))}
    BY DEF Destroy, ConnectTimeout, Stop, line
  <1>3. /\ flags' \in [closing : BOOLEAN, connected : BOOLEAN, writable_scheduled : BOOLEAN,
                       tsfn_ready : BOOLEAN]
        /\ flags'.tsfn_ready = flags.tsfn_ready
    BY <1>1, <1>2 DEF TypeOK
  <1>4. /\ adapter' \in [destroyed : BOOLEAN, connected : BOOLEAN, pendingConnect : BOOLEAN,
                         connectTimer : BOOLEAN]
        /\ adapter'.destroyed
        /\ promise' \in {"none", "pending", "resolved", "rejected"}
    <2>1. CASE Destroy
      BY <1>1, <2>1 DEF TypeOK, Destroy
    <2>2. CASE ConnectTimeout
      BY <1>1, <2>2 DEF TypeOK, ConnectTimeout
    <2> QED
      BY <2>1, <2>2
  <1>5. heard \in Seq(Events) /\ adapter.destroyed \in BOOLEAN
    BY <1>1 DEF TypeOK
  <1>6. heard' \in Seq(Events)
    BY <1>2, <1>5, EndTypes
  <1>7. TypeOK' /\ Machine'
    BY <1>1, <1>2, <1>3, <1>4, <1>6 DEF TypeOK, Machine
  <1>8. ASSUME owner' = "adapter"
        PROVE  AdapterInv'
    <2>1. AdapterInv
      BY <1>1, <1>2, <1>8
    <2>2. Story(heard, events, arrived, adapter.destroyed, wsi)
      BY <2>1 DEF AdapterInv
    <2>3. Story(heard, events, arrived, TRUE, wsi)
      BY <1>5, <2>2, StoryLater
    <2>4. Story(Append(heard, Event("error", 0)), events, arrived, TRUE, wsi)
      BY <1>5, <2>2, EndTypes, StoryDestroyed
    <2>5. adapter'.destroyed = TRUE
      BY <1>4, <1>7 DEF TypeOK
    <2>6. Story(heard', events', arrived', adapter'.destroyed, wsi')
      BY <1>2, <2>3, <2>4, <2>5
    <2> QED
      BY <1>2, <1>3, <2>1, <2>5, <2>6 DEF AdapterInv
  <1> QED
    BY <1>7, <1>8 DEF IInv

LEMMA StopEndsStep ==
  ASSUME IInv, StopEnds
  PROVE  IInv'
  <1>1. TypeOK /\ Machine /\ (owner = "adapter" => AdapterInv)
    BY DEF IInv
  <1>2. /\ UNCHANGED <<owner, skt, svc, adapter, peer, connects, posted, sent, arrived, promise>>
        /\ js = "joining" /\ js' = "free" /\ context' = FALSE /\ thread' = "none" /\ wsi' = "null"
        /\ send_queue' = <<>> /\ recv_queue' = <<>>
        /\ flags' = [flags EXCEPT !.tsfn_ready = FALSE, !.connected = FALSE]
        /\ events' \in {events, Emitted(EndOf(wsi))}
        /\ wsi \notin {"connecting", "up"} => events' = events
        /\ heard' = IF owner = "adapter" THEN Append(heard, Close) ELSE heard
    BY DEF StopEnds, line
  <1>3. flags' \in [closing : BOOLEAN, connected : BOOLEAN, writable_scheduled : BOOLEAN,
                    tsfn_ready : BOOLEAN]
    BY <1>1, <1>2 DEF TypeOK
  <1>4. heard \in Seq(Events) /\ events \in Seq(Events) /\ adapter.destroyed \in BOOLEAN
    BY <1>1 DEF TypeOK
  <1>5. heard' \in Seq(Events)
    BY <1>2, <1>4, EndTypes
  <1>6. /\ EndOf(wsi) \in Seq(Events)
        /\ events' \in Seq(Events) /\ events' \in {events, events \o EndOf(wsi)}
    <2>1. EndOf(wsi) \in Seq(Events)
      BY EndTypes
    <2> QED
      BY <1>1, <1>2, <1>4, <2>1, EmittedTypes
  <1>7. send_queue' \in Seq(Seq(Bytes)) /\ recv_queue' \in Seq(Nat) /\ NoneEmpty(send_queue')
    BY <1>2 DEF NoneEmpty
  <1>8. TypeOK' /\ Machine'
    <2> DEFINE none == <<>>
    <2>1. /\ send_queue' = none /\ recv_queue' = none
          /\ none \in Seq(Seq(Bytes)) /\ none \in Seq(Nat) /\ NoneEmpty(none)
      BY <1>2, <1>7
    <2> HIDE DEF none
    <2>2. TypeOK'
      BY <1>1, <1>2, <1>3, <1>5, <1>6, <2>1, ZenonT(60) DEF TypeOK
    <2>3. Machine'
      BY <1>1, <1>2, <2>1 DEF Machine
    <2> QED
      BY <2>2, <2>3
  <1>9. ASSUME owner' = "adapter"
        PROVE  AdapterInv'
    <2>1. AdapterInv
      BY <1>1, <1>2, <1>9
    <2>2. adapter.destroyed = TRUE
      BY <1>2, <1>4, <2>1 DEF AdapterInv
    <2>3. Story(heard, events, arrived, TRUE, wsi)
      BY <2>1, <2>2 DEF AdapterInv
    <2>4. "null" # "up" /\ "null" \notin Living
      BY DEF Living
    <2>5. Story(heard, events, arrived, TRUE, "null")
      BY <2>3, <2>4, StoryLater
    <2>6. Story(heard, events \o EndOf(wsi), arrived, TRUE, "null")
      BY <1>4, <1>6, <2>3, <2>4, EndTypes, StoryQuiet
    <2>7. Story(heard, events', arrived, TRUE, "null")
      BY <1>6, <2>5, <2>6
    <2>8. Story(Append(heard, Close), events', arrived, TRUE, "null")
      BY <1>4, <2>7, EndTypes, StoryDestroyed
    <2>9. heard' = Append(heard, Close)
      BY <1>2, <1>9
    <2>10. Story(heard', events', arrived', adapter'.destroyed, wsi')
      BY <1>2, <2>2, <2>8, <2>9
    <2>11. connects' = 0 => /\ arrived' = 0 /\ thread' = "none" /\ wsi' = "null"
                            /\ events' = <<>>
      BY <1>2, <2>1 DEF AdapterInv
    <2> QED
      BY <1>2, <2>2, <2>10, <2>11 DEF AdapterInv
  <1> QED
    BY <1>8, <1>9 DEF IInv

LEMMA DeliverStep ==
  ASSUME IInv, Deliver
  PROVE  IInv'
  <1>1. TypeOK /\ Machine /\ (owner = "adapter" => AdapterInv)
    BY DEF IInv
  <1>2. /\ UNCHANGED <<owner, context, thread, wsi, flags, send_queue, recv_queue, skt, svc, js>>
        /\ UNCHANGED <<peer, connects, posted, sent, arrived>>
        /\ events # <<>> /\ events' = Tail(events)
        /\ heard' = IF owner = "adapter" THEN Append(heard, Head(events)) ELSE heard
    BY DEF Deliver, Handle, line
  <1>3. /\ adapter' \in [destroyed : BOOLEAN, connected : BOOLEAN, pendingConnect : BOOLEAN,
                         connectTimer : BOOLEAN]
        /\ adapter'.destroyed = adapter.destroyed
        /\ promise' \in {"none", "pending", "resolved", "rejected"}
    <2>1. CASE owner = "adapter"
      <3> DEFINE ev == Head(events)
                 settles == adapter.pendingConnect /\ ev.e # "data"
                              /\ (ev.e = "close" => ~adapter.destroyed)
                 c == ev.e = "connect" \/ (adapter.connected /\ ev.e # "close")
                 p == adapter.pendingConnect /\ ~settles
                 m == adapter.connectTimer /\ ~settles /\ ev.e # "close"
      <3>1. adapter' = [adapter EXCEPT !.connected = c, !.pendingConnect = p, !.connectTimer = m]
        BY <2>1 DEF Deliver, Handle
      <3>2. promise' \in {promise, "resolved", "rejected"}
        BY <2>1 DEF Deliver, Handle
      <3>3. c \in BOOLEAN /\ p \in BOOLEAN /\ m \in BOOLEAN
        BY <1>1 DEF TypeOK
      <3> HIDE DEF c, p, m
      <3> QED
        BY <1>1, <3>1, <3>2, <3>3 DEF TypeOK
    <2>2. CASE owner # "adapter"
      BY <1>1, <2>2 DEF TypeOK, Deliver
    <2> QED
      BY <2>1, <2>2
  <1>4. heard \in Seq(Events) /\ events \in Seq(Events) /\ adapter.destroyed \in BOOLEAN
        /\ arrived \in Nat
    BY <1>1, BoundsAssumption DEF TypeOK
  <1>5. heard' \in Seq(Events) /\ events' \in Seq(Events)
    BY <1>2, <1>4
  <1>6. TypeOK' /\ Machine'
    BY <1>1, <1>2, <1>3, <1>5 DEF TypeOK, Machine
  <1>7. ASSUME owner' = "adapter"
        PROVE  AdapterInv'
    <2>1. AdapterInv /\ heard' = Append(heard, Head(events))
      BY <1>1, <1>2, <1>7
    <2>2. Story(Append(heard, Head(events)), Tail(events), arrived, adapter.destroyed, wsi)
      BY <1>2, <1>4, <2>1, StoryDelivered DEF AdapterInv
    <2>3. Story(heard', events', arrived', adapter'.destroyed, wsi')
      BY <1>2, <1>3, <2>1, <2>2
    <2> QED
      BY <1>2, <1>3, <2>1, <2>3 DEF AdapterInv
  <1> QED
    BY <1>6, <1>7 DEF IInv

LEMMA ConnectedStep ==
  ASSUME IInv, Connected
  PROVE  IInv'
  <1> DEFINE x == Event("connect", 0)
  <1>1. TypeOK /\ Machine /\ (owner = "adapter" => AdapterInv)
    BY DEF IInv
  <1>2. /\ UNCHANGED <<owner, context, thread, send_queue, recv_queue, svc, js, adapter, heard>>
        /\ UNCHANGED <<peer, connects, posted, sent, arrived, promise>>
        /\ wsi = "connecting" /\ wsi' = "up" /\ thread = "running" /\ events' = Emitted(<<x>>)
    BY DEF Connected, Serving, line
  <1>3. /\ flags' \in [closing : BOOLEAN, connected : BOOLEAN, writable_scheduled : BOOLEAN,
                       tsfn_ready : BOOLEAN]
        /\ flags'.tsfn_ready = flags.tsfn_ready
        /\ skt' \in [out : Seq(Seq(Bytes)), pollout : BOOLEAN, wire : Seq(Bytes)]
        /\ skt'.out = skt.out
    <2>1. /\ flags' = [flags EXCEPT !.connected = TRUE, !.writable_scheduled = TRUE]
          /\ skt' = [skt EXCEPT !.pollout = skt.pollout \/ ~flags.writable_scheduled]
      BY DEF Connected
    <2> QED
      BY <1>1, <2>1 DEF TypeOK
  <1>4. x \in Events /\ x.e = "connect"
    BY EndTypes
  <1>5. /\ heard \in Seq(Events) /\ events \in Seq(Events) /\ adapter.destroyed \in BOOLEAN
        /\ arrived \in Nat
    BY <1>1, BoundsAssumption DEF TypeOK
  <1> HIDE DEF x
  <1>6. <<x>> \in Seq(Events) /\ events \o <<x>> = Append(events, x)
    BY <1>4, <1>5
  <1>7. events' \in Seq(Events)
    BY <1>1, <1>2, <1>6, EmittedTypes
  <1>8. TypeOK' /\ Machine'
    BY <1>1, <1>2, <1>3, <1>7 DEF TypeOK, Machine
  <1>9. ASSUME owner' = "adapter"
        PROVE  AdapterInv'
    <2>1. AdapterInv
      BY <1>1, <1>2, <1>9
    <2>2. events' = Append(events, x) /\ connects # 0
      BY <1>2, <1>6, <2>1 DEF AdapterInv, Emitted
    <2>3. Story(heard, events, arrived, adapter.destroyed, wsi) /\ wsi \in Living
      BY <1>2, <2>1 DEF AdapterInv, Living
    <2>4. Story(heard', events', arrived', adapter'.destroyed, wsi')
      BY <1>2, <1>4, <1>5, <2>2, <2>3, StoryNews
    <2> QED
      BY <1>2, <1>3, <2>1, <2>2, <2>4 DEF AdapterInv
  <1> QED
    BY <1>8, <1>9 DEF IInv

LEMMA ReadStep ==
  ASSUME IInv, Read
  PROVE  IInv'
  <1> DEFINE d == arrived + 1
             x == Event("data", d)
  <1>1. TypeOK /\ Machine /\ (owner = "adapter" => AdapterInv)
    BY DEF IInv
  <1>2. /\ UNCHANGED <<owner, context, thread, wsi, flags, send_queue, skt, svc, js, adapter>>
        /\ UNCHANGED <<peer, connects, posted, sent, heard, promise>>
        /\ wsi = "up" /\ thread = "running" /\ arrived < sent
        /\ arrived' = d /\ recv_queue' = Append(recv_queue, d) /\ events' = Emitted(<<x>>)
    BY DEF Read, Serving, line
  <1>3. arrived \in Nat /\ d \in Nat /\ d \in 0 .. MaxChunks
    <2>1. arrived \in 0 .. MaxChunks /\ sent \in 0 .. MaxChunks
      BY <1>1 DEF TypeOK
    <2> QED
      BY <1>2, <2>1, BoundsAssumption
  <1>4. x \in Events
    BY <1>3 DEF Events, Event
  <1>5. /\ heard \in Seq(Events) /\ events \in Seq(Events) /\ adapter.destroyed \in BOOLEAN
        /\ recv_queue \in Seq(Nat)
    BY <1>1 DEF TypeOK
  <1> HIDE DEF x
  <1>6. <<x>> \in Seq(Events) /\ events \o <<x>> = Append(events, x)
    BY <1>4, <1>5
  <1>7. events' \in Seq(Events)
    BY <1>1, <1>2, <1>6, EmittedTypes
  <1>8. recv_queue' \in Seq(Nat) /\ arrived' \in 0 .. MaxChunks
    BY <1>2, <1>3, <1>5
  <1>9. TypeOK' /\ Machine'
    <2> HIDE DEF d
    <2> QED
      BY <1>1, <1>2, <1>7, <1>8 DEF TypeOK, Machine
  <1>10. ASSUME owner' = "adapter"
         PROVE  AdapterInv'
    <2>1. AdapterInv
      BY <1>1, <1>2, <1>10
    <2>2. events' = Append(events, x) /\ connects # 0
      BY <1>2, <1>6, <2>1 DEF AdapterInv, Emitted
    <2>3. Story(heard, events, arrived, adapter.destroyed, wsi) /\ wsi \in Living
      BY <1>2, <2>1 DEF AdapterInv, Living
    <2>4. x = Event("data", arrived + 1)
      BY DEF x
    <2>5. Story(heard, Append(events, x), arrived + 1, adapter.destroyed, "up")
      BY <1>2, <1>3, <1>4, <1>5, <2>3, <2>4, StoryNews
    <2>6. Story(heard', events', arrived', adapter'.destroyed, wsi')
      BY <1>2, <2>2, <2>5
    <2> QED
      BY <1>2, <2>1, <2>2, <2>6 DEF AdapterInv
  <1> QED
    BY <1>9, <1>10 DEF IInv

LEMMA EndsStep ==
  ASSUME IInv, Ends, wsi \in Living, thread = "running"
  PROVE  IInv'
  <1>1. TypeOK /\ Machine /\ (owner = "adapter" => AdapterInv)
    BY DEF IInv
  <1>2. /\ UNCHANGED <<owner, context, thread, send_queue, recv_queue, skt, svc, js, adapter>>
        /\ UNCHANGED <<peer, connects, posted, sent, arrived, heard, promise>>
        /\ wsi' = "freed" /\ flags' = [flags EXCEPT !.closing = TRUE, !.connected = FALSE]
        /\ events' = Emitted(EndOf(wsi))
    BY DEF Ends, line
  <1>3. /\ flags' \in [closing : BOOLEAN, connected : BOOLEAN, writable_scheduled : BOOLEAN,
                       tsfn_ready : BOOLEAN]
        /\ flags'.tsfn_ready = flags.tsfn_ready
    BY <1>1, <1>2 DEF TypeOK
  <1>4. events \in Seq(Events) /\ adapter.destroyed \in BOOLEAN
    BY <1>1 DEF TypeOK
  <1>5. /\ EndOf(wsi) \in Seq(Events)
        /\ events' \in Seq(Events) /\ events' \in {events, events \o EndOf(wsi)}
    <2>1. EndOf(wsi) \in Seq(Events)
      BY EndTypes
    <2> QED
      BY <1>1, <1>2, <2>1, EmittedTypes
  <1>6. TypeOK' /\ Machine'
    BY <1>1, <1>2, <1>3, <1>5 DEF TypeOK, Machine
  <1>7. ASSUME owner' = "adapter"
        PROVE  AdapterInv'
    <2>1. AdapterInv
      BY <1>1, <1>2, <1>7
    <2>2. "freed" # "up" /\ "freed" \notin Living /\ wsi # "null"
      BY DEF Living
    <2>3. Story(heard, events, arrived, adapter.destroyed, "freed")
      BY <1>4, <2>1, <2>2, StoryLater DEF AdapterInv
    <2>4. Story(heard, events \o EndOf(wsi), arrived, adapter.destroyed, "freed")
      BY <1>4, <1>5, <2>1, <2>2, EndTypes, StoryQuiet DEF AdapterInv
    <2>5. Story(heard', events', arrived', adapter'.destroyed, wsi')
      BY <1>2, <1>5, <2>3, <2>4
    <2> QED
      BY <1>2, <1>3, <2>1, <2>2, <2>5 DEF AdapterInv
  <1> QED
    BY <1>6, <1>7 DEF IInv
-----------------------------------------------------------------------------
(* The writable callback. *)

LEMMA PointFields ==
  ASSUME TypeOK
  PROVE  /\ svc \in Points
         /\ svc.at \in {"write", "account"} => svc.n \in 0 .. MaxWrites
         /\ svc.at = "account" => svc.next \in Seq(Bytes) /\ svc.written \in Nat
  <1>1. svc \in Points
    BY DEF TypeOK, Points
  <1>2. CASE svc = Polling
    BY <1>1, <1>2 DEF Polling
  <1>3. CASE svc \in [at : {"reset", "end"}]
    BY <1>1, <1>3
  <1>4. CASE svc \in [at : {"write"}, n : 0 .. MaxWrites]
    BY <1>1, <1>4
  <1>5. CASE svc \in [at : {"account"}, n : 0 .. MaxWrites, next : Seq(Bytes), written : Nat]
    BY <1>1, <1>5
  <1> QED
    BY <1>1, <1>2, <1>3, <1>4, <1>5 DEF Points

\* The callback changes neither the story nor who runs, except for an 'error'.
LEMMA WritingParts ==
  ASSUME IInv, UNCHANGED <<owner, context, thread, wsi, recv_queue, js>>,
         UNCHANGED <<adapter, peer, connects, posted, sent, arrived, heard, promise>>,
         flags' \in [closing : BOOLEAN, connected : BOOLEAN, writable_scheduled : BOOLEAN,
                     tsfn_ready : BOOLEAN],
         flags'.tsfn_ready = flags.tsfn_ready,
         skt' \in [out : Seq(Seq(Bytes)), pollout : BOOLEAN, wire : Seq(Bytes)],
         send_queue' \in Seq(Seq(Bytes)), NoneEmpty(send_queue'), NoneEmpty(skt'.out),
         svc' \in Points, svc'.at = "account" => svc'.n < MaxWrites,
         \/ events' = events
         \/ thread = "running" /\ events' = Emitted(<<Event("error", 0)>>)
  PROVE  IInv'
  <1> DEFINE x == Event("error", 0)
  <1>1. TypeOK /\ Machine /\ (owner = "adapter" => AdapterInv)
    BY DEF IInv
  <1>2. x \in Events /\ x.e = "error"
    BY EndTypes
  <1>3. events' \in {events, Emitted(<<x>>)}
    OBVIOUS
  <1> HIDE DEF x
  <1>4. /\ <<x>> \in Seq(Events) /\ ~Has(<<x>>, "data") /\ ~Has(<<x>>, "connect")
        /\ ~Has(<<x>>, "close")
    BY <1>2 DEF Has
  <1>5. events \in Seq(Events) /\ adapter.destroyed \in BOOLEAN
    BY <1>1 DEF TypeOK
  <1>6. events' \in Seq(Events) /\ events' \in {events, events \o <<x>>}
    BY <1>1, <1>3, <1>4, <1>5, EmittedTypes
  <1>7. TypeOK'
    BY <1>1, <1>6 DEF TypeOK, Points
  <1>8. Machine'
    BY DEF Machine
  <1>9. ASSUME owner' = "adapter"
        PROVE  AdapterInv'
    <2>1. AdapterInv /\ Story(heard, events, arrived, adapter.destroyed, wsi)
      BY <1>1, <1>9 DEF AdapterInv
    <2>2. Story(heard, events \o <<x>>, arrived, adapter.destroyed, wsi)
      <3> DEFINE new == <<x>>
      <3>1. /\ new \in Seq(Events) /\ ~Has(new, "data") /\ ~Has(new, "connect")
            /\ ~Has(new, "close")
        BY <1>4
      <3> HIDE DEF new
      <3>2. Story(heard, events \o new, arrived, adapter.destroyed, wsi)
        BY <1>5, <2>1, <3>1, StoryQuiet
      <3> QED
        BY <3>2 DEF new
    <2>3. Story(heard', events', arrived', adapter'.destroyed, wsi')
      BY <1>6, <2>1, <2>2
    <2> QED
      BY <2>1, <2>3 DEF AdapterInv
  <1> QED
    BY <1>7, <1>8, <1>9 DEF IInv

LEMMA ScheduleParts ==
  ASSUME TypeOK, Schedule
  PROVE  /\ flags' \in [closing : BOOLEAN, connected : BOOLEAN, writable_scheduled : BOOLEAN,
                        tsfn_ready : BOOLEAN]
         /\ flags'.tsfn_ready = flags.tsfn_ready
         /\ skt' \in [out : Seq(Seq(Bytes)), pollout : BOOLEAN, wire : Seq(Bytes)]
         /\ skt'.out = skt.out
  <1>1. /\ flags' = [flags EXCEPT !.writable_scheduled = TRUE]
        /\ skt' = [skt EXCEPT !.pollout = skt.pollout \/ ~flags.writable_scheduled]
    BY DEF Schedule
  <1> QED
    BY <1>1 DEF TypeOK

LEMMA FlushStep ==
  ASSUME IInv, Flush
  PROVE  IInv'
  <1>1. TypeOK /\ Machine
    BY DEF IInv
  <1>2. /\ UNCHANGED <<owner, context, thread, wsi, flags, send_queue, recv_queue, svc, js, events>>
        /\ UNCHANGED <<adapter, peer, connects, posted, sent, arrived, heard, promise>>
        /\ skt.out # <<>>
    BY DEF Flush, line
  <1>3. PICK k \in Takes(Head(skt.out)) :
          skt' = [skt EXCEPT !.out = IssueRaw(skt.out, <<>>, k).out,
                             !.wire = skt.wire \o IssueRaw(skt.out, <<>>, k).sent]
    BY DEF Flush
  <1> DEFINE r == IssueRaw(skt.out, <<>>, k)
             none == <<>>
  <1>4. skt.out \in Seq(Seq(Bytes)) /\ NoneEmpty(skt.out) /\ skt.wire \in Seq(Bytes)
    BY <1>1 DEF TypeOK, Machine
  <1>5. none \in Seq(Bytes) /\ k \in Takes(FirstOf(skt.out, none))
    BY <1>2 DEF FirstOf
  <1>6. r.sent \in Seq(Bytes) /\ r.out \in Seq(Seq(Bytes)) /\ NoneEmpty(r.out)
    BY <1>2, <1>4, <1>5, IssueTypes
  <1>7. skt' = [skt EXCEPT !.out = r.out, !.wire = skt.wire \o r.sent]
    BY <1>3
  <1> DEFINE o == r.out
             m == skt.wire \o r.sent
  <1>8. /\ o \in Seq(Seq(Bytes)) /\ NoneEmpty(o) /\ m \in Seq(Bytes)
        /\ skt' = [skt EXCEPT !.out = o, !.wire = m]
    BY <1>4, <1>6, <1>7
  <1> HIDE DEF o, m, r
  <1>9. /\ skt' \in [out : Seq(Seq(Bytes)), pollout : BOOLEAN, wire : Seq(Bytes)]
        /\ NoneEmpty(skt'.out)
    BY <1>1, <1>8 DEF TypeOK
  <1>10. flags' \in [closing : BOOLEAN, connected : BOOLEAN, writable_scheduled : BOOLEAN,
                     tsfn_ready : BOOLEAN]
         /\ send_queue' \in Seq(Seq(Bytes)) /\ NoneEmpty(send_queue')
         /\ svc' \in Points /\ (svc'.at = "account" => svc'.n < MaxWrites)
    BY <1>1, <1>2, PointFields DEF TypeOK, Machine
  <1> QED
    BY <1>2, <1>9, <1>10, WritingParts

LEMMA CallbackSteps ==
  ASSUME IInv, Writeable \/ WriteReset \/ WriteEnd
  PROVE  IInv'
  <1>1. TypeOK /\ Machine
    BY DEF IInv
  <1>2. /\ UNCHANGED <<owner, context, thread, wsi, send_queue, recv_queue, js, events>>
        /\ UNCHANGED <<adapter, peer, connects, posted, sent, arrived, heard, promise>>
    BY DEF Writeable, WriteReset, WriteEnd, line
  <1>3. send_queue' \in Seq(Seq(Bytes)) /\ NoneEmpty(send_queue')
    BY <1>1, <1>2 DEF TypeOK, Machine
  <1>4. svc' \in Points /\ svc'.at # "account"
    <2>1. svc' \in {[at |-> "reset"], [at |-> "write", n |-> 0], Polling}
      BY DEF Writeable, WriteReset, WriteEnd
    <2>2. 0 \in 0 .. MaxWrites
      BY BoundsAssumption
    <2> QED
      BY <2>1, <2>2 DEF Points, Polling
  <1>5. /\ flags' \in [closing : BOOLEAN, connected : BOOLEAN, writable_scheduled : BOOLEAN,
                       tsfn_ready : BOOLEAN]
        /\ flags'.tsfn_ready = flags.tsfn_ready
        /\ skt' \in [out : Seq(Seq(Bytes)), pollout : BOOLEAN, wire : Seq(Bytes)]
        /\ skt'.out = skt.out
    <2>1. CASE Writeable
      BY <1>1, <2>1 DEF Writeable, TypeOK
    <2>2. CASE WriteReset
      BY <1>1, <2>2 DEF WriteReset, TypeOK
    <2>3. CASE WriteEnd
      BY <1>1, <2>3, ScheduleParts DEF WriteEnd
    <2> QED
      BY <2>1, <2>2, <2>3
  <1>6. NoneEmpty(skt'.out)
    BY <1>1, <1>5 DEF Machine
  <1> QED
    BY <1>2, <1>3, <1>4, <1>5, <1>6, WritingParts

LEMMA WriteAccountStep ==
  ASSUME IInv, WriteAccount
  PROVE  IInv'
  <1>1. TypeOK /\ Machine
    BY DEF IInv
  <1>2. /\ UNCHANGED <<owner, context, thread, wsi, recv_queue, js, events>>
        /\ UNCHANGED <<adapter, peer, connects, posted, sent, arrived, heard, promise>>
        /\ svc.at = "account"
    BY DEF WriteAccount, Inside, line
  <1> DEFINE pay  == svc.next
             used == svc.written
             rest == SubSeq(pay, used + 1, Len(pay))
             more == <<rest>> \o send_queue
  <1>3. pay \in Seq(Bytes) /\ used \in Nat /\ svc.n \in 0 .. MaxWrites /\ svc.n < MaxWrites
    BY <1>1, <1>2, PointFields DEF Machine
  <1>4. send_queue \in Seq(Seq(Bytes)) /\ NoneEmpty(send_queue) /\ NoneEmpty(skt.out)
    BY <1>1 DEF TypeOK, Machine
  <1>5. CASE used < Len(pay)
    <2>1. send_queue' = more /\ svc' = [at |-> "end"] /\ Schedule
      BY <1>5 DEF WriteAccount
    <2>2. rest \in Seq(Bytes) /\ rest # <<>>
      <3> HIDE DEF pay, used
      <3>1. Len(pay) \in Nat /\ used + 1 \in Int /\ Len(pay) \in Int /\ used + 1 <= Len(pay)
        BY <1>3, <1>5
      <3>2. \A i \in used + 1 .. Len(pay) : pay[i] \in Bytes
        BY <1>3
      <3>3. /\ rest \in Seq(Bytes)
            /\ Len(rest) = IF used + 1 <= Len(pay) THEN Len(pay) - (used + 1) + 1 ELSE 0
        BY <3>1, <3>2, SubSeqProperties
      <3>4. Len(rest) # 0
        BY <1>3, <3>1, <3>3
      <3>5. Len(<<>>) = 0
        OBVIOUS
      <3> QED
        BY <3>3, <3>4, <3>5
    <2> HIDE DEF rest
    <2>3. <<rest>> \in Seq(Seq(Bytes)) /\ DOMAIN <<rest>> = {1} /\ <<rest>>[1] = rest
      BY <2>2
    <2> HIDE DEF pay, used
    <2>4. more \in Seq(Seq(Bytes)) /\ NoneEmpty(more)
      BY <1>4, <2>2, <2>3, ConcatParts DEF NoneEmpty
    <2> HIDE DEF more
    <2>5. svc' \in Points /\ svc'.at # "account"
      BY <2>1 DEF Points
    <2>6. NoneEmpty(skt'.out)
      BY <1>1, <1>4, <2>1, ScheduleParts
    <2> QED
      BY <1>1, <1>2, <2>1, <2>4, <2>5, <2>6, ScheduleParts, WritingParts
  <1>6. CASE ~(used < Len(pay))
    <2>1. UNCHANGED <<send_queue, flags, skt>> /\ svc' = [at |-> "write", n |-> svc.n + 1]
      BY <1>6 DEF WriteAccount
    <2>2. svc.n + 1 \in 0 .. MaxWrites
      BY <1>3, BoundsAssumption
    <2>3. svc' \in Points /\ svc'.at # "account"
      BY <2>1, <2>2 DEF Points
    <2>4. /\ flags' \in [closing : BOOLEAN, connected : BOOLEAN, writable_scheduled : BOOLEAN,
                         tsfn_ready : BOOLEAN]
          /\ skt' \in [out : Seq(Seq(Bytes)), pollout : BOOLEAN, wire : Seq(Bytes)]
      BY <1>1, <2>1 DEF TypeOK
    <2> QED
      BY <1>2, <1>4, <2>1, <2>3, <2>4, WritingParts
  <1> QED
    BY <1>5, <1>6

LEMMA WriteNextStep ==
  ASSUME IInv, WriteNext
  PROVE  IInv'
  <1>1. TypeOK /\ Machine
    BY DEF IInv
  <1>2. /\ UNCHANGED <<owner, context, thread, wsi, recv_queue, js>>
        /\ UNCHANGED <<adapter, peer, connects, posted, sent, arrived, heard, promise>>
        /\ thread = "running" /\ svc.at = "write"
    BY DEF WriteNext, Inside, line
  <1>3. /\ send_queue \in Seq(Seq(Bytes)) /\ NoneEmpty(send_queue)
        /\ skt.out \in Seq(Seq(Bytes)) /\ NoneEmpty(skt.out) /\ skt.wire \in Seq(Bytes)
        /\ skt.pollout \in BOOLEAN /\ svc.n \in 0 .. MaxWrites
        /\ skt \in [out : Seq(Seq(Bytes)), pollout : BOOLEAN, wire : Seq(Bytes)]
        /\ flags \in [closing : BOOLEAN, connected : BOOLEAN, writable_scheduled : BOOLEAN,
                      tsfn_ready : BOOLEAN]
    BY <1>1, <1>2, PointFields DEF TypeOK, Machine
  <1>4. CASE svc.n = MaxWrites \/ send_queue = <<>>
    <2>1. svc' = [at |-> "end"] /\ UNCHANGED <<flags, send_queue, skt, events>>
      BY <1>4 DEF WriteNext
    <2>2. svc' \in Points /\ svc'.at # "account"
      BY <2>1 DEF Points
    <2> QED
      BY <1>2, <1>3, <2>1, <2>2, WritingParts
  <1>5. CASE ~(svc.n = MaxWrites \/ send_queue = <<>>)
    <2> DEFINE next == Head(send_queue)
               more == Tail(send_queue)
    <2>1. /\ next \in Seq(Bytes) /\ next # <<>> /\ more \in Seq(Seq(Bytes)) /\ NoneEmpty(more)
      BY <1>3, <1>5, TailParts DEF NoneEmpty
    <2>2. send_queue' = more
      BY <1>5 DEF WriteNext
    <2>3. CASE peer = "rst"
      <3>1. /\ flags' = [flags EXCEPT !.closing = TRUE] /\ svc' = [at |-> "end"]
            /\ events' = Emitted(<<Event("error", 0)>>) /\ UNCHANGED skt
        BY <1>5, <2>3 DEF WriteNext
      <3>2. svc' \in Points /\ svc'.at # "account"
        BY <3>1 DEF Points
      <3>3. /\ flags' \in [closing : BOOLEAN, connected : BOOLEAN, writable_scheduled : BOOLEAN,
                           tsfn_ready : BOOLEAN]
            /\ flags'.tsfn_ready = flags.tsfn_ready
        BY <1>3, <3>1
      <3> HIDE DEF more, next
      <3> QED
        BY <1>2, <1>3, <2>1, <2>2, <3>1, <3>2, <3>3, WritingParts
    <2>4. CASE peer # "rst"
      <3>1. PICK k \in Takes(FirstOf(skt.out, next)) :
              LET r == IssueRaw(skt.out, next, k)
              IN /\ skt' = [out |-> r.out, pollout |-> skt.pollout \/ r.again,
                            wire |-> skt.wire \o r.sent]
                 /\ svc' = [at |-> "account", n |-> svc.n, next |-> next, written |-> r.ret]
        BY <1>5, <2>4 DEF WriteNext
      <3>2. UNCHANGED <<flags, events>>
        BY <1>5, <2>4 DEF WriteNext
      <3> HIDE DEF next, more
      <3> DEFINE r == IssueRaw(skt.out, next, k)
                 o == r.out
                 p == skt.pollout \/ r.again
                 m == skt.wire \o r.sent
                 a == r.ret
      <3>3. /\ r.sent \in Seq(Bytes) /\ r.out \in Seq(Seq(Bytes)) /\ NoneEmpty(r.out)
            /\ r.again \in BOOLEAN /\ r.ret \in Nat
        BY <1>3, <2>1, IssueTypes
      <3>4. skt' = [out |-> o, pollout |-> p, wire |-> m]
            /\ svc' = [at |-> "account", n |-> svc.n, next |-> next, written |-> a]
        BY <3>1
      <3> HIDE DEF r
      <3>5. /\ o \in Seq(Seq(Bytes)) /\ NoneEmpty(o) /\ p \in BOOLEAN /\ m \in Seq(Bytes) /\ a \in Nat
        BY <1>3, <3>3
      <3> HIDE DEF o, p, m, a
      <3>6. skt' \in [out : Seq(Seq(Bytes)), pollout : BOOLEAN, wire : Seq(Bytes)] /\ NoneEmpty(skt'.out)
        BY <3>4, <3>5
      <3>7. svc' \in Points /\ svc'.n = svc.n
        BY <1>3, <2>1, <3>4, <3>5 DEF Points
      <3>8. svc.n < MaxWrites
        BY <1>3, <1>5, BoundsAssumption
      <3> QED
        BY <1>2, <1>3, <2>1, <2>2, <3>2, <3>6, <3>7, <3>8, WritingParts
    <2> QED
      BY <2>3, <2>4
  <1> QED
    BY <1>4, <1>5
-----------------------------------------------------------------------------
(* Every reachable state. *)

\* The inductive invariant: what every step of the two threads, the event loop
\* and the peer keeps.
THEOREM Invariance == Spec => []IInv
  <1>1. Init => IInv
    <2> SUFFICES ASSUME Init PROVE IInv
      OBVIOUS
    <2>1. /\ send_queue = <<>> /\ recv_queue = <<>> /\ skt = NewSocket /\ svc = Polling
          /\ events = <<>> /\ heard = <<>> /\ arrived = 0 /\ connects = 0 /\ wsi = "null"
          /\ thread = "none" /\ js = "free" /\ flags.tsfn_ready = (owner = "adapter")
          /\ adapter.destroyed = FALSE
      BY DEF Init
    <2>2. NewSocket \in [out : Seq(Seq(Bytes)), pollout : BOOLEAN, wire : Seq(Bytes)]
          /\ NoneEmpty(NewSocket.out)
      BY DEF NewSocket, NoneEmpty
    <2>3. 0 \in 0 .. MaxConnects /\ 0 \in 0 .. MaxSends /\ 0 \in 0 .. MaxChunks
      BY BoundsAssumption
    <2>4. /\ send_queue \in Seq(Seq(Bytes)) /\ recv_queue \in Seq(Nat)
          /\ events \in Seq(Events) /\ heard \in Seq(Events) /\ NoneEmpty(send_queue)
      BY <2>1 DEF NoneEmpty
    <2>5. /\ flags \in [closing : BOOLEAN, connected : BOOLEAN, writable_scheduled : BOOLEAN,
                        tsfn_ready : BOOLEAN]
          /\ adapter \in [destroyed : BOOLEAN, connected : BOOLEAN, pendingConnect : BOOLEAN,
                          connectTimer : BOOLEAN]
      BY DEF Init
    <2>6. TypeOK
      BY <2>1, <2>2, <2>3, <2>4, <2>5 DEF TypeOK, Init
    <2>7. Machine
      BY <2>1, <2>2, <2>4 DEF Machine, Polling
    <2>8. owner = "adapter" => AdapterInv
      BY <2>1, StoryStart DEF AdapterInv
    <2> QED
      BY <2>6, <2>7, <2>8 DEF IInv
  <1>2. ASSUME IInv, [Next]_vars
        PROVE  IInv'
    <2>1. CASE Api
      BY <1>2, <2>1, ConnectStep, ConnectThrowsStep, QuietSteps, DestroySteps, SendStep DEF Api
    <2>2. CASE EventLoop
      BY <1>2, <2>2, QuietSteps, StopEndsStep, DeliverStep DEF EventLoop
    <2>3. CASE ConnectTimeout
      BY <1>2, <2>3, DestroySteps
    <2>4. CASE Answered \/ Read \/ ReadEnd
      <3>1. (ConnectionError \/ ReadEnd) => Ends /\ wsi \in Living /\ thread = "running"
        BY DEF ConnectionError, ReadEnd, Serving, Living
      <3> QED
        BY <1>2, <2>4, <3>1, ConnectedStep, ReadStep, EndsStep DEF Answered
    <2>5. CASE Writing
      BY <1>2, <2>5, FlushStep, CallbackSteps, WriteNextStep, WriteAccountStep DEF Writing
    <2>6. CASE LoopEnds \/ PeerSends \/ PeerLeaves
      BY <1>2, <2>6, QuietSteps
    <2>7. CASE UNCHANGED vars
      <3>1. /\ UNCHANGED <<owner, context, thread, wsi, flags, send_queue, recv_queue, skt, svc, js>>
            /\ UNCHANGED <<events, adapter, peer, connects, posted, sent, arrived, heard, promise>>
        BY <2>7 DEF vars
      <3>2. TypeOK'
        BY <1>2, <3>1 DEF IInv, TypeOK
      <3>3. Machine'
        BY <1>2, <3>1 DEF IInv, Machine
      <3> QED
        BY <1>2, <3>1, <3>2, <3>3, AdapterSame DEF IInv
    <2> QED
      BY <1>2, <2>1, <2>2, <2>3, <2>4, <2>5, <2>6, <2>7 DEF Next
  <1> QED
    BY <1>1, <1>2, PTL DEF Spec

\* Every variable keeps the type the code gives it: among them, the writable
\* callback never takes a payload when its turns are spent, and every segment
\* libwebsockets holds consists of bytes of the payloads queued.
THEOREM ClientTypes == Spec => []TypeOK
  BY Invariance, PTL DEF IInv

\* The owner of a NativeSocketAdapter hears every chunk the service thread read,
\* once and in order, behind the 'connect', and nothing but 'close' and 'error'
\* after a 'close' unless it destroyed the socket itself.
THEOREM OwnerHearsInOrder == Spec => []HeardInOrder
  <1>1. IInv => HeardInOrder
    <2> SUFFICES ASSUME IInv, owner = "adapter"
                 PROVE  HeardInOrder
      BY DEF HeardInOrder
    <2>1. Story(heard, events, arrived, adapter.destroyed, wsi)
      BY DEF IInv, AdapterInv
    <2> QED
      BY <2>1 DEF HeardInOrder, Heard, Story, Has, Ordered
  <1> QED
    BY <1>1, Invariance, PTL
=============================================================================
