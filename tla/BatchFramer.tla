----------------------------- MODULE BatchFramer -----------------------------
(***************************************************************************)
(* The outgoing half of the batch framer of src/src/core/batch-framer.ts:  *)
(* frames are encoded into the slots of a preallocated ring, queued in a   *)
(* batch, and written to a net.Socket by flushBatch, an async function     *)
(* several of whose calls may be in flight at once.                        *)
(*                                                                         *)
(* A frame is known by the number of its encodeToBatch call.  A buffer is  *)
(* [slot, id]: the slot it is a view of (NoSlot for one allocated because  *)
(* the ring was full) and the frame it was made for.  A slot remembers the *)
(* frame whose bytes it holds, so a buffer is intact while they agree.     *)
(* Frames have one length, so both caps of a flush are one number of       *)
(* buffers.  The socket refers to the buffers it has not sent yet, as      *)
(* Node's does; the kernel reads them when it takes them.                  *)
(***************************************************************************)
EXTENDS Integers, Sequences, SequencesExt

CONSTANTS
  RingSize,       \* options.ringSize
  BatchSize,      \* largest value of batchSize
  MaxCap,         \* largest value of maxBuffersPerFlush
  HighWaterMark,  \* buffers that make socket.write() answer false
  EnableWritev,   \* options.enableWritev
  MaxFrames,      \* bound: calls of encodeToBatch
  MaxSockets      \* bound: sockets attached, one after the other

ASSUME FramerAssumption ==
  /\ {RingSize, BatchSize, MaxCap, HighWaterMark} \subseteq Nat \ {0}
  /\ EnableWritev \in BOOLEAN
  /\ {MaxFrames, MaxSockets} \subseteq Nat

VARIABLE f      \* the framer, its socket and its flushBatch calls in flight

vars == <<f>>

NoSlot == -1    \* the index of a buffer outside the ring; undefined
Slots == 0 .. RingSize - 1
Caps == 1 .. MaxCap
Frames == 1 .. MaxFrames

Framer ==
  [ring: [Slots -> [inUse: BOOLEAN, frame: Frames \cup {0}]],
   ringHead: Slots,
   outBatch: Seq([slot: Slots \cup {NoSlot}, id: Frames]),
   indices: Seq(Slots \cup {NoSlot}),      \* outBatchSlotIndices
   timed: BOOLEAN,                         \* flushIntervalMs is positive
   timer: BOOLEAN,                         \* flushTimer is set
   draining: BOOLEAN,
   cap: Caps,
   flights: Seq([rest: Seq([slot: Slots \cup {NoSlot}, id: Frames]),
                 indices: Seq(Slots \cup {NoSlot}),
                 slots: Seq(Slots \cup {NoSlot}),
                 state: {"resumed", "waiting", "orphaned", "failed"}]),
   socket: {"none", "open", "destroyed"},
   buf: Seq([slot: Slots \cup {NoSlot}, id: Frames]),
   needDrain: BOOLEAN,
   totalFrames: Frames \cup {0},
   sockets: 0 .. MaxSockets,
   since: Frames \cup {0},     \* history: frames older than the socket
   written: Seq(Frames),       \* history: frames given to socket.write()
   overflowed: BOOLEAN,        \* history: the ring was full once
   shrunk: BOOLEAN]            \* history: a 'flush' listener lowered the
                               \* cap below the batch being flushed

Drop(s, n) == SubSeq(s, n + 1, Len(s))
First(s, n) == SubSeq(s, 1, IF n < Len(s) THEN n ELSE Len(s))

(***************************************************************************)
(* acquireSlot and encode: the first free slot from ringHead, or a private *)
(* buffer whose index is not recorded.                                     *)
(***************************************************************************)
Free(fr) == {i \in Slots : ~fr.ring[(fr.ringHead + i) % RingSize].inUse}

\* Mutant: ringHead is not wrapped.
EncodeNoWrap(fr, id) ==
  IF Free(fr) = {}
  THEN [fr EXCEPT !.outBatch = Append(@, [slot |-> NoSlot, id |-> id]),
                  !.overflowed = TRUE]
  ELSE LET i == CHOOSE i \in Free(fr) : \A j \in Free(fr) : i <= j
           idx == (fr.ringHead + i) % RingSize
       IN [fr EXCEPT !.ring[idx] = [inUse |-> TRUE, frame |-> id],
                     !.ringHead = idx + 1,
                     !.indices = Append(@, idx),
                     !.outBatch = Append(@, [slot |-> idx, id |-> id])]

Encode(fr, id) ==
  IF Free(fr) = {}
  THEN [fr EXCEPT !.outBatch = Append(@, [slot |-> NoSlot, id |-> id]),
                  !.overflowed = TRUE]
  ELSE LET i == CHOOSE i \in Free(fr) : \A j \in Free(fr) : i <= j
           idx == (fr.ringHead + i) % RingSize
       IN [fr EXCEPT !.ring[idx] = [inUse |-> TRUE, frame |-> id],
                     !.ringHead = (idx + 1) % RingSize,
                     !.indices = Append(@, idx),
                     !.outBatch = Append(@, [slot |-> idx, id |-> id])]

\* Mutant: slots that the batch uses again are released with the others.
ReleaseAllSlots(fr, slots) ==
  [fr EXCEPT !.ring = [s \in Slots |->
     IF s \in ToSet(slots) THEN [@[s] EXCEPT !.inUse = FALSE] ELSE @[s]]]

\* releaseSlots: the slots that the current batch uses again stay in use
ReleaseSlots(fr, slots) ==
  [fr EXCEPT !.ring = [s \in Slots |->
     IF s \in ToSet(slots) \ ToSet(fr.indices)
     THEN [@[s] EXCEPT !.inUse = FALSE] ELSE @[s]]]

\* Mutants: the remainder goes behind the batch; it replaces the batch.
QueueRemainderLast(fr, buffers, slots) ==
  IF buffers = <<>> THEN fr
  ELSE [fr EXCEPT !.outBatch = @ \o buffers,
                  !.indices = @ \o slots,
                  !.timer = @ \/ fr.timed]

QueueRemainderOnly(fr, buffers, slots) ==
  IF buffers = <<>> THEN fr
  ELSE [fr EXCEPT !.outBatch = buffers, !.indices = slots, !.timer = @ \/ fr.timed]

\* queueRemainder: buffers the socket did not take go before the batch
QueueRemainder(fr, buffers, slots) ==
  IF buffers = <<>> THEN fr
  ELSE [fr EXCEPT !.outBatch = buffers \o @,
                  !.indices = slots \o @,
                  !.timer = @ \/ fr.timed]

(***************************************************************************)
(* One chunk of a flight: writevBatch, or writeBuffer for a single buffer. *)
(* Writing stops at the first write that answers false; what is left of    *)
(* the chunk is queued again and the flight waits for 'drain'.             *)
(***************************************************************************)
WriteChunk(fr, rest, indices, slots) ==
  LET chunk   == First(rest, fr.cap)
      room    == HighWaterMark - Len(fr.buf)
      blocked == Len(chunk) >= room
      taken   == IF ~blocked THEN Len(chunk) ELSE IF room > 1 THEN room ELSE 1
      sent    == First(chunk, taken)
      left    == QueueRemainder(fr, Drop(chunk, taken),
                                Drop(First(indices, fr.cap), taken))
      waits   == fr.draining \/ blocked
  IN [left EXCEPT
        !.buf = @ \o sent,
        !.written = @ \o [i \in 1 .. Len(sent) |-> sent[i].id],
        !.needDrain = @ \/ blocked,
        !.draining = waits,
        !.flights = Append(@, [rest |-> Drop(rest, Len(chunk)),
                               indices |-> Drop(indices, Len(chunk)),
                               slots |-> slots,
                               state |-> IF waits THEN "waiting" ELSE "resumed"])]

\* waitForDrain: the call waits for the socket and returns, whatever happens;
\* it changes nothing that later calls see
OnlyWaits(fr) == fr.draining

(***************************************************************************)
(* flushBatch up to its first await.  While draining it only waits, and    *)
(* leaves the batch to the drain listener.  The 'flush' event comes after  *)
(* the batch was cut; its listener may tune the caps to c.  Without a      *)
(* socket the frames are dropped.                                          *)
(***************************************************************************)
Flush(fr, c) ==
  IF fr.outBatch = <<>> \/ OnlyWaits(fr) THEN [fr EXCEPT !.timer = FALSE]
  ELSE LET flushed == First(fr.outBatch, fr.cap)
           slots   == First(fr.indices, fr.cap)
           cut     == [fr EXCEPT !.timer = FALSE,
                                 !.outBatch = Drop(@, Len(flushed)),
                                 !.indices = Drop(@, Len(slots)),
                                 !.cap = c,
                                 !.shrunk = @ \/ c < Len(flushed)]
           indices == [i \in 1 .. Len(flushed) |->
                         IF i <= Len(slots) THEN slots[i] ELSE NoSlot]
       IN IF fr.socket # "open" THEN ReleaseSlots(cut, slots)
          ELSE IF EnableWritev THEN WriteChunk(cut, flushed, indices, slots)
          ELSE WriteChunk(cut, First(flushed, 1), First(indices, 1), slots)

-----------------------------------------------------------------------------
(***************************************************************************)
(* Timers and socket events find no promise reaction pending: a resumed    *)
(* flight goes on first.  encodeToBatch and flushBatch may be called by    *)
(* another promise reaction, before or after it.                           *)
(***************************************************************************)
Idle == \A i \in DOMAIN f.flights : f.flights[i].state \in {"waiting", "orphaned"}

\* encodeToBatch.  setBatchTiming may have set batchSize to anything from 1 to
\* BatchSize since the last call, so any batch may be found full.
EncodeToBatch ==
  /\ f.totalFrames < MaxFrames
  /\ LET e == Encode([f EXCEPT !.totalFrames = @ + 1], f.totalFrames + 1)
     IN \/ \E c \in Caps : f' = Flush(e, c)
        \/ Len(e.outBatch) < BatchSize /\ f' = [e EXCEPT !.timer = @ \/ f.timed]

\* flushBatch called by the flow controller, the client or the server
FlushBatch == \E c \in Caps : f' = Flush(f, c)

\* the flush timer fires
TimerFlush ==
  /\ Idle /\ f.timer
  /\ \E c \in Caps : f' = Flush(f, c)

\* setFlushCaps, from the listeners of the flow controller's events
SetFlushCaps ==
  /\ Idle
  /\ \E c \in Caps \ {f.cap} : f' = [f EXCEPT !.cap = c]

\* setBatchTiming, likewise or in a 'flush' listener: no step of a flush asks
\* for the interval before that event.
SetBatchTiming == f' = [f EXCEPT !.timed = ~@]

\* Mutant: no timer for what a cut flush left in the batch.
DoneNoTimer(fr, slots) == ReleaseSlots(fr, slots)

\* A flight whose chunk went out: its next chunk, or its end, which releases
\* its slots and sets the timer for what is queued by now.
Done(fr, slots) ==
  LET r == ReleaseSlots(fr, slots)
  IN [r EXCEPT !.timer = @ \/ r.outBatch # <<>>]

Resume ==
  \E i \in DOMAIN f.flights :
    LET fl == f.flights[i]
        fr == [f EXCEPT !.flights = RemoveAt(@, i)]
    IN /\ fl.state = "resumed"
       /\ f' = IF fl.rest # <<>> /\ f.socket = "open"
               THEN WriteChunk(fr, fl.rest, fl.indices, fl.slots)
               ELSE Done(fr, fl.slots)

\* Mutant: a rejected flight keeps its slots.
RejectNoRelease ==
  \E i \in DOMAIN f.flights :
    /\ f.flights[i].state = "failed"
    /\ f' = [f EXCEPT !.flights = RemoveAt(@, i)]

\* a flight whose wait for 'drain' was rejected: the finally block alone
Reject ==
  \E i \in DOMAIN f.flights :
    /\ f.flights[i].state = "failed"
    /\ f' = ReleaseSlots([f EXCEPT !.flights = RemoveAt(@, i)],
                         f.flights[i].slots)

\* the kernel takes the oldest buffer of the socket
KernelTakes ==
  /\ Idle /\ f.buf # <<>>
  /\ f' = [f EXCEPT !.buf = Tail(@)]

\* What the listeners of waitForSocketDrain do to the flights that wait
Settle(fr, n, state) ==
  [fr EXCEPT !.flights = [i \in DOMAIN @ |->
     IF i <= n /\ @[i].state = "waiting" THEN [@[i] EXCEPT !.state = state]
     ELSE @[i]]]

\* 'drain': first the framer's own listener, which flushes, then that of
\* every flight that was waiting, which says that the socket has drained
DrainEvent ==
  /\ Idle /\ f.socket = "open" /\ f.needDrain /\ f.buf = <<>>
  /\ \E c \in Caps :
       LET fr == Flush([f EXCEPT !.needDrain = FALSE, !.draining = FALSE], c)
       IN f' = [Settle(fr, Len(f.flights), "resumed") EXCEPT
                  !.draining = @ /\ \A i \in DOMAIN f.flights : f.flights[i].state # "waiting"]

\* attachSocket
AttachSocket ==
  /\ Idle /\ f.socket = "none" /\ f.sockets < MaxSockets
  /\ f' = [f EXCEPT !.socket = "open", !.sockets = @ + 1,
                  !.since = f.totalFrames]

\* the socket is destroyed; an 'error' event rejects the waits at once
SocketDestroyed ==
  /\ Idle /\ f.socket = "open"
  /\ \E fr \in {f, Settle(f, Len(f.flights), "failed")} :
       f' = [fr EXCEPT !.socket = "destroyed", !.buf = <<>>, !.needDrain = FALSE]

\* detachSocket, which the owner calls when the socket has closed, and the
\* waits are rejected, or before: disconnect() calls it ahead of end(), and
\* handleClose of an older socket while a newer one lives.  The flights that
\* wait then keep their listeners on a socket that is no longer the framer's.
DetachSocket ==
  /\ Idle /\ f.socket # "none"
  /\ f' = [Settle(f, Len(f.flights), IF f.socket = "open" THEN "orphaned" ELSE "failed") EXCEPT
             !.timer = FALSE, !.draining = FALSE, !.socket = "none",
             !.buf = <<>>, !.needDrain = FALSE]

\* That socket drains, which the listener takes for the current one, or ends.
OrphanSettles ==
  /\ Idle
  /\ \E i \in DOMAIN f.flights :
       /\ f.flights[i].state = "orphaned"
       /\ \/ f' = [f EXCEPT !.flights[i].state = "resumed", !.draining = FALSE]
          \/ f' = [f EXCEPT !.flights[i].state = "failed"]

Init ==
  \E timed \in BOOLEAN :
  f = [timed |-> timed, ring |-> [s \in Slots |-> [inUse |-> FALSE, frame |-> 0]],
       ringHead |-> 0, outBatch |-> <<>>, indices |-> <<>>,
       timer |-> FALSE, draining |-> FALSE, cap |-> MaxCap, flights |-> <<>>,
       socket |-> "none", buf |-> <<>>, needDrain |-> FALSE,
       totalFrames |-> 0, sockets |-> 0, since |-> 0, written |-> <<>>,
       overflowed |-> FALSE, shrunk |-> FALSE]

Next ==
  \/ EncodeToBatch \/ FlushBatch \/ TimerFlush \/ SetFlushCaps \/ SetBatchTiming
  \/ Resume \/ Reject \/ KernelTakes \/ DrainEvent
  \/ AttachSocket \/ SocketDestroyed \/ DetachSocket \/ OrphanSettles

Spec == Init /\ [][Next]_vars

(***************************************************************************)
(* Timers fire and promises settle; the peer of a socket that stays open   *)
(* reads on, until the socket has drained.                                 *)
(***************************************************************************)
Promises == Resume \/ Reject
Draining == KernelTakes \/ DrainEvent

Fairness == WF_vars(TimerFlush) /\ WF_vars(Promises) /\ WF_vars(Draining)

FairSpec == Spec /\ Fairness

-----------------------------------------------------------------------------
Ids(s) == {s[i].id : i \in DOMAIN s}

\* The flights that go on, or will when the socket drains.
Live(fr) == {i \in DOMAIN fr.flights : fr.flights[i].state \in {"resumed", "waiting"}}

Held == Ids(f.outBatch) \cup UNION {Ids(f.flights[i].rest) : i \in Live(f)}

Written == ToSet(f.written)

\* Every field has its type, and no frame is queued twice in the batch.
TypeOK ==
  /\ f \in Framer
  /\ \A i, j \in DOMAIN f.outBatch : f.outBatch[i].id = f.outBatch[j].id => i = j

\* flushBatch calls that overlap, cut batches and remainders that are queued
\* again give the socket every frame at most once and in the order of
\* encodeToBatch, over all sockets.  (Not when a 'flush' listener lowers the
\* cap below the batch: the later chunks then wait behind newer frames.)
InOrder ==
  ~f.shrunk => \A i, j \in DOMAIN f.written : i < j => f.written[i] < f.written[j]

\* A queued frame keeps its bytes: no flight that ends gives away the slot of
\* a frame it queued again, even after other flights took that frame over.
\* (Not when the ring was full once: the slot indices are then out of step.)
PendingIntact ==
  ~f.overflowed /\ ~f.shrunk =>
    \A i \in DOMAIN f.outBatch :
      LET b == f.outBatch[i]
      IN f.ring[b.slot] = [inUse |-> TRUE, frame |-> b.id]

\* A slot in use is listed by the batch or by a flight in progress, which
\* will release it: rejections and missing sockets leak no slot.
NoLeak ==
  \A s \in Slots : f.ring[s].inUse =>
    \/ s \in ToSet(f.indices)
    \/ \E i \in DOMAIN f.flights : s \in ToSet(f.flights[i].slots)

\* While the socket is open no step of the framer loses a frame, the one it
\* encodes included: it stays queued, or in a flight, or has been given to
\* the socket.
NothingLost ==
  [][f.socket = "open" /\ f'.socket = "open" =>
       Held \cup (f.totalFrames + 1 .. f'.totalFrames) \subseteq Held' \cup Written']_vars

\* A frame encoded for an open socket is written in the end, through cuts,
\* backpressure and cleared timers, unless the socket goes away.  (A frame
\* that is older than the socket has no timer: it waits for a newer one.
\* One encoded while flushIntervalMs is 0 waits for a full batch or a call of
\* flushBatch; once a flush is under way or a timer is set, it is written too,
\* whatever the interval is by then.)
EventuallyWritten ==
  \A id \in Frames :
    f.socket = "open" /\ id \in Held /\ id > f.since /\ (f.timer \/ Live(f) # {})
      ~> f.socket # "open" \/ id \in Written
=============================================================================
