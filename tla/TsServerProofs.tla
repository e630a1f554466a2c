--------------------------- MODULE TsServerProofs ---------------------------
(***************************************************************************)
(* Theorems about TsServer, for every set of connections, limit, set of    *)
(* options and length of the peers' streams.                               *)
(***************************************************************************)
EXTENDS TsServer, TLAPS

OptionType == [tls : BOOLEAN, allow : BOOLEAN, authorize : BOOLEAN,
               verifier : {"none", "sync", "async"}, emit : BOOLEAN]
SockType == [Conns -> {"none", "open", "closing", "closed"}]
OutcomeType == [act : {"reject", "refuse", "attach", "wait", "pass"},
                err : BOOLEAN, handled : BOOLEAN]

(* What socket.destroy does to the sockets. *)
LEMMA DestroyedEffect ==
  ASSUME sock \in SockType, failed \in [Conns -> BOOLEAN],
         NEW S, NEW err \in BOOLEAN, Destroyed(S, err)
  PROVE  /\ sock' \in SockType /\ failed' \in [Conns -> BOOLEAN]
         /\ \A c \in Conns : sock'[c] = "open" => sock[c] = "open" /\ c \notin S
         /\ \A c \in Conns : sock'[c] = "none" <=> sock[c] = "none"
         /\ \A c \in Conns : sock'[c] = "closed" <=> sock[c] = "closed"
  BY DEF Destroyed, SockType

(* The outcomes of a handshake frame: none of them leaves it unexamined,    *)
(* only an asynchronous verifier postpones, and a good handshake is dropped *)
(* only by a verifier.                                                      *)
LEMMA OutcomesKnown ==
  ASSUME options \in OptionType, NEW k \in Kinds, NEW o \in Outcomes(k)
  PROVE  /\ o \in OutcomeType
         /\ o.act # "pass"
         /\ Decided => o.act # "wait"
         /\ k = "good" => o.act # "reject"
  <1>1. CASE k = "text"
    <2>1. o = [act |-> "reject", err |-> FALSE, handled |-> FALSE]
      BY <1>1 DEF Outcomes, Thrown, Outcome
    <2> QED
      BY <1>1, <2>1 DEF OutcomeType
  <1>2. CASE k \in {"schema", "version", "pin"}
    <2>1. o = [act |-> "reject", err |-> TRUE, handled |-> k # "pin"]
      BY <1>2 DEF Outcomes, Outcome
    <2> QED
      BY <1>2, <2>1 DEF OutcomeType
  <1>3. CASE k \notin {"text", "schema", "version", "pin"}
    <2>1. o \in Verification(k)
      BY <1>3 DEF Outcomes
    <2>2. CASE options.verifier = "async"
      <3>1. o = [act |-> "wait", err |-> FALSE, handled |-> FALSE]
        BY <2>1, <2>2 DEF Verification, Outcome
      <3> QED
        BY <2>2, <3>1 DEF OutcomeType, Decided
    <2>3. CASE options.verifier = "sync"
      <3>1. \/ o = [act |-> "attach", err |-> FALSE, handled |-> TRUE]
            \/ o = [act |-> "refuse", err |-> TRUE, handled |-> FALSE]
            \/ o = [act |-> "refuse", err |-> FALSE, handled |-> FALSE]
        BY <2>1, <2>3 DEF Verification, Outcome, Accept
      <3>2. CASE o = [act |-> "attach", err |-> FALSE, handled |-> TRUE]
        BY <3>2 DEF OutcomeType
      <3>3. CASE o = [act |-> "refuse", err |-> TRUE, handled |-> FALSE]
        BY <3>3 DEF OutcomeType
      <3>4. CASE o = [act |-> "refuse", err |-> FALSE, handled |-> FALSE]
        BY <3>4 DEF OutcomeType
      <3> QED
        BY <3>1, <3>2, <3>3, <3>4
    <2>4. CASE options.verifier = "none"
      <3>1. \/ o = [act |-> "attach", err |-> FALSE, handled |-> TRUE]
            \/ k = "sig" /\ o = [act |-> "reject", err |-> TRUE, handled |-> FALSE]
        BY <2>1, <2>4 DEF Verification, Outcome, Accept
      <3>2. CASE o = [act |-> "attach", err |-> FALSE, handled |-> TRUE]
        BY <3>2 DEF OutcomeType
      <3>3. CASE k = "sig" /\ o = [act |-> "reject", err |-> TRUE, handled |-> FALSE]
        BY <3>3 DEF OutcomeType
      <3> QED
        BY <3>1, <3>2, <3>3
    <2> QED
      BY <2>2, <2>3, <2>4 DEF OptionType
  <1> QED
    BY <1>1, <1>2, <1>3
-----------------------------------------------------------------------------
(* Type correctness. *)

LEMMA TypeInit == Init => TypeOK
  BY ServerAssumption DEF Init, TypeOK, Phases

(* What the handler of one frame does, whatever the outcome.                *)
LEMMA HandleEffect ==
  ASSUME TypeOK, NEW c \in Conns, NEW o \in OutcomeType, Handle(c, o)
  PROVE  /\ sock' \in SockType /\ failed' \in [Conns -> BOOLEAN]
         /\ clients' \subseteq clients /\ rejected' \subseteq Conns
         /\ goodbyes' \in [Conns -> Seq(BOOLEAN)]
         /\ pendingHs' \in [Conns -> BOOLEAN] /\ attached' \in [Conns -> BOOLEAN]
         /\ verifying' \in [Conns -> Nat]
  <1>0. sock \in SockType /\ failed \in [Conns -> BOOLEAN]
    BY DEF TypeOK, SockType
  <1>1. CASE o.act \in {"reject", "refuse"}
    <2>1. Drop(c, o.err) /\ UNCHANGED <<attached, verifying>>
      BY <1>1 DEF Handle
    <2>2. o.err \in BOOLEAN
      BY DEF OutcomeType
    <2>3. sock' \in SockType /\ failed' \in [Conns -> BOOLEAN]
      <3>1. Destroyed({c}, o.err)
        BY <2>1 DEF Drop
      <3> QED
        BY <1>0, <2>2, <3>1, DestroyedEffect
    <2>4. goodbyes' \in [Conns -> Seq(BOOLEAN)]
      <3>1. goodbyes \in [Conns -> Seq(BOOLEAN)]
        BY DEF TypeOK
      <3>2. goodbyes' = [goodbyes EXCEPT ![c] = Append(@, TRUE)]
        BY <2>1 DEF Drop
      <3> QED
        BY <3>1, <3>2
    <2> QED
      BY <2>1, <2>3, <2>4 DEF Drop, Unregistered, TypeOK
  <1>2. CASE o.act = "attach"
    BY <1>0, <1>2 DEF Handle, Attach, TypeOK, sockVars
  <1>3. CASE o.act = "wait"
    <2>1. /\ verifying' = [verifying EXCEPT ![c] = @ + 1]
          /\ UNCHANGED <<clients, sock, failed, goodbyes, pendingHs, attached, rejected>>
      BY <1>3 DEF Handle, sockVars
    <2>2. verifying' \in [Conns -> Nat]
      BY <2>1 DEF TypeOK
    <2> QED
      BY <1>0, <2>1, <2>2 DEF TypeOK
  <1>4. CASE o.act = "pass"
    BY <1>0, <1>4 DEF Handle, TypeOK, sockVars
  <1>5. o.act \in {"reject", "refuse", "attach", "wait", "pass"}
    BY DEF OutcomeType
  <1> QED
    BY <1>1, <1>2, <1>3, <1>4, <1>5

(* A frame is handled with an outcome of its own kind. *)
LEMMA FrameOutcome ==
  ASSUME TypeOK, Frame
  PROVE  /\ cur \in Conns /\ Len(chunk) \in Nat \ {0} /\ Head(chunk) \in Kinds
         /\ \E o \in OutcomeType : Receive(cur, Head(chunk), o)
  <1>1. cur \in Conns
    BY DEF Frame, TypeOK
  <1>2. chunk \in Seq(Kinds) /\ chunk # <<>>
    BY DEF Frame, TypeOK
  <1>3. Head(chunk) \in Kinds /\ Len(chunk) \in Nat \ {0}
    BY <1>2
  <1>4. PICK o : Receive(cur, Head(chunk), o)
    BY DEF Frame
  <1>5. o \in Outcomes(Head(chunk)) \/ o = Pass
    BY <1>4 DEF Receive
  <1>6. options \in OptionType
    BY ServerAssumption DEF TypeOK, OptionType
  <1>7. Pass \in OutcomeType
    BY DEF Pass, Outcome, OutcomeType
  <1> QED
    BY <1>1, <1>3, <1>4, <1>5, <1>6, <1>7, OutcomesKnown

LEMMA TypeStep == TypeOK /\ [Next]_vars => TypeOK'
  <1> SUFFICES ASSUME TypeOK, [Next]_vars PROVE TypeOK'
    OBVIOUS
  <1>s. sock \in SockType /\ failed \in [Conns -> BOOLEAN]
    BY DEF TypeOK, SockType
  <1>1. ASSUME NEW c \in Conns, Connect(c) \/ Secured(c) PROVE TypeOK'
    <2>1. phase' \in [Conns -> Phases]
      <3>1. phase \in [Conns -> Phases]
        BY DEF TypeOK
      <3>2. PICK q \in Phases : phase' = [phase EXCEPT ![c] = q]
        BY <1>1 DEF Connect, Secured, HandleConnection, GoOn, FirstPhase, AfterAllow, Phases
      <3> QED
        BY <3>1, <3>2
    <2>2. sock' \in SockType
      BY <1>1, <1>s DEF Connect, Secured, HandleConnection, SockType
    <2>3. clients' \subseteq Conns
      BY <1>1 DEF Connect, Secured, HandleConnection, GoOn, TypeOK
    <2>4. pendingHs' \in [Conns -> BOOLEAN]
      <3>1. pendingHs' = pendingHs \/ pendingHs' = [pendingHs EXCEPT ![c] = Versioned]
        BY <1>1 DEF Connect, Secured, HandleConnection, GoOn
      <3>2. Versioned \in BOOLEAN /\ pendingHs \in [Conns -> BOOLEAN]
        BY ServerAssumption DEF TypeOK
      <3> QED
        BY <3>1, <3>2, Zenon
    <2> QED
      BY <1>1, <2>1, <2>2, <2>3, <2>4 DEF Connect, Secured, TypeOK, appVars, SockType
  <1>2. ASSUME NEW c \in Conns, NEW p \in Waiting, NEW next \in {"authorize", "open"}, NEW answer,
               HookAnswers(c, p, next, answer)
        PROVE  TypeOK'
    <2>1. CASE GoOn(c, next) /\ UNCHANGED <<sockVars, alive>>
      <3>1. phase' \in [Conns -> Phases] /\ clients' \subseteq Conns
        BY <2>1 DEF GoOn, TypeOK, Phases
      <3>2. pendingHs' \in [Conns -> BOOLEAN]
        <4>1. pendingHs' = pendingHs \/ pendingHs' = [pendingHs EXCEPT ![c] = Versioned]
          BY <2>1 DEF GoOn
        <4>2. Versioned \in BOOLEAN /\ pendingHs \in [Conns -> BOOLEAN]
          BY ServerAssumption DEF TypeOK
        <4> QED
          BY <4>1, <4>2, Zenon
      <3> QED
        BY <1>2, <2>1, <3>1, <3>2 DEF HookAnswers, TypeOK, appVars, sockVars
    <2>2. CASE Destroyed({c}, FALSE) /\ phase' = [phase EXCEPT ![c] = "refused"]
               /\ UNCHANGED <<clients, pendingHs, alive>>
      <3>1. sock' \in SockType /\ failed' \in [Conns -> BOOLEAN]
        BY <1>s, <2>2, DestroyedEffect
      <3> QED
        BY <1>2, <2>2, <3>1 DEF HookAnswers, TypeOK, Phases, appVars, SockType
    <2>3. CASE alive' = FALSE /\ UNCHANGED <<phase, sockVars, clients, pendingHs>>
      BY <1>2, <2>3 DEF HookAnswers, TypeOK, Phases, appVars, sockVars
    <2> QED
      BY <1>2, <2>1, <2>2, <2>3 DEF HookAnswers
  <1>3. ASSUME NEW c \in Conns, NEW k \in Kinds, PeerSends(c, k) PROVE TypeOK'
    BY <1>3, SMTT(30) DEF PeerSends, TypeOK, appVars, hsVars, sockVars
  <1>4. ASSUME NEW c \in Conns, NEW err \in BOOLEAN, Destroyed({c}, err),
               UNCHANGED <<options, phase, frames, cur, chunk, clients, hsVars, server, appVars>>,
               wire' = wire \/ wire' = [wire EXCEPT ![c] = <<>>], alive' \in BOOLEAN
        PROVE  TypeOK'
    <2>1. sock' \in SockType /\ failed' \in [Conns -> BOOLEAN]
      BY <1>s, <1>4, DestroyedEffect
    <2>2. wire' \in [Conns -> Seq(Kinds)]
      <3>1. wire \in [Conns -> Seq(Kinds)] /\ <<>> \in Seq(Kinds)
        BY DEF TypeOK
      <3> QED
        BY <1>4, <3>1, Zenon
    <2> QED
      BY <1>4, <2>1, <2>2 DEF TypeOK, appVars, hsVars, SockType
  <1>5. ASSUME NEW c \in Conns, CloseEvent(c) PROVE TypeOK'
    <2>1. goodbyes' \in [Conns -> Seq(BOOLEAN)] /\ clients' \subseteq Conns
      <3>1. goodbyes \in [Conns -> Seq(BOOLEAN)] /\ failed[c] \in BOOLEAN /\ clients \subseteq Conns
        BY DEF TypeOK
      <3>2. Append(goodbyes[c], failed[c]) \in Seq(BOOLEAN)
        BY <3>1
      <3>3. goodbyes' = goodbyes \/ goodbyes' = [goodbyes EXCEPT ![c] = Append(@, failed[c])]
        BY <1>5 DEF CloseEvent
      <3>4. goodbyes' \in [Conns -> Seq(BOOLEAN)]
        BY <3>1, <3>2, <3>3, Zenon
      <3> QED
        BY <1>5, <3>1, <3>4 DEF CloseEvent, Unregistered
    <2> QED
      BY <1>5, <2>1 DEF CloseEvent, TypeOK, hsVars
  <1>6. ASSUME NEW c \in Conns, NEW n \in 1 .. Len(wire[c]), DataEvent(c, n) PROVE TypeOK'
    <2>1. wire[c] \in Seq(Kinds) /\ n \in Nat \ {0} /\ n <= Len(wire[c])
      BY <1>6 DEF TypeOK
    <2>2. chunk' \in Seq(Kinds) /\ chunk' # <<>>
      <3>1. chunk' = SubSeq(wire[c], 1, n)
        BY <1>6 DEF DataEvent
      <3> QED
        BY <2>1, <3>1
    <2>3. SubSeq(wire[c], n + 1, Len(wire[c])) \in Seq(Kinds)
      BY <2>1
    <2>4. wire' \in [Conns -> Seq(Kinds)]
      BY <1>6, <2>3 DEF DataEvent, TypeOK
    <2> QED
      BY <1>6, <2>2, <2>4, ServerAssumption DEF DataEvent, TypeOK, appVars, hsVars, sockVars
  <1>7. ASSUME NEW c \in Conns, NEW ok \in BOOLEAN, VerdictArrives(c, ok) PROVE TypeOK'
    <2>1. CASE ok
      <3>1. verifying' \in [Conns -> Nat]
        BY <1>7 DEF VerdictArrives, TypeOK
      <3>2. attached' \in [Conns -> BOOLEAN] /\ pendingHs' \in [Conns -> BOOLEAN]
        BY <1>7, <2>1 DEF VerdictArrives, Attach, TypeOK
      <3> QED
        BY <1>7, <2>1, <3>1, <3>2 DEF VerdictArrives, Attach, TypeOK, sockVars
    <2>2. CASE ~ok
      <3>1. Drop(c, TRUE) /\ refusals' = refusals \cup {c} /\ UNCHANGED attached
        BY <1>7, <2>2 DEF VerdictArrives
      <3>2. sock' \in SockType /\ failed' \in [Conns -> BOOLEAN]
        <4>1. Destroyed({c}, TRUE)
          BY <3>1 DEF Drop
        <4> QED
          BY <1>s, <4>1, DestroyedEffect
      <3>3. goodbyes' \in [Conns -> Seq(BOOLEAN)]
        <4>1. goodbyes' = [goodbyes EXCEPT ![c] = Append(@, TRUE)]
          BY <3>1 DEF Drop
        <4> QED
          BY <4>1 DEF TypeOK
      <3>4. verifying' \in [Conns -> Nat]
        BY <1>7 DEF VerdictArrives, TypeOK
      <3>5. /\ clients' \subseteq Conns /\ rejected' \subseteq Conns /\ refusals' \subseteq Conns
            /\ pendingHs' \in [Conns -> BOOLEAN]
        BY <3>1 DEF Drop, Unregistered, TypeOK
      <3> QED
        BY <1>7, <3>1, <3>2, <3>3, <3>4, <3>5 DEF VerdictArrives, TypeOK, SockType
    <2> QED
      BY <2>1, <2>2
  <1>8. ASSUME Frame PROVE TypeOK'
    <2>1. /\ cur \in Conns /\ Len(chunk) \in Nat \ {0} /\ Head(chunk) \in Kinds
          /\ \E o \in OutcomeType : Receive(cur, Head(chunk), o)
      BY <1>8, FrameOutcome
    <2>2. PICK o \in OutcomeType : Receive(cur, Head(chunk), o)
      BY <2>1
    <2>3. Handle(cur, o)
      BY <2>2 DEF Receive
    <2>4. /\ sock' \in SockType /\ failed' \in [Conns -> BOOLEAN]
          /\ clients' \subseteq clients /\ rejected' \subseteq Conns
          /\ goodbyes' \in [Conns -> Seq(BOOLEAN)]
          /\ pendingHs' \in [Conns -> BOOLEAN] /\ attached' \in [Conns -> BOOLEAN]
          /\ verifying' \in [Conns -> Nat]
      BY <2>1, <2>3, HandleEffect
    <2>5. chunk' \in Seq(Kinds) /\ (cur' = None <=> chunk' = <<>>) /\ cur' \in Conns \cup {None}
      <3>1. chunk \in Seq(Kinds)
        BY DEF TypeOK
      <3>2. chunk' = Tail(chunk) /\ cur' = IF Len(chunk) = 1 THEN None ELSE cur
        BY <1>8 DEF Frame, BusyAfter
      <3>3. cur # None
        BY <1>8 DEF Frame
      <3>4. chunk' \in Seq(Kinds) /\ Len(chunk') = Len(chunk) - 1
        BY <2>1, <3>1, <3>2
      <3>5. chunk' = <<>> <=> Len(chunk) = 1
        BY <2>1, <3>4
      <3>6. cur' = None <=> Len(chunk) = 1
        BY <3>2, <3>3
      <3> QED
        BY <2>1, <3>2, <3>4, <3>5, <3>6
    <2>6. heard' \in [Conns -> SUBSET BOOLEAN]
      <3>1. attached'[cur] \in BOOLEAN
        BY <2>1, <2>4
      <3>2. heard' = heard \/ heard' = [heard EXCEPT ![cur] = @ \cup {attached'[cur]}]
        BY <2>2 DEF Receive
      <3>3. heard \in [Conns -> SUBSET BOOLEAN]
        BY DEF TypeOK
      <3>4. heard[cur] \cup {attached'[cur]} \in SUBSET BOOLEAN
        BY <2>1, <3>1, <3>3, Zenon
      <3> QED
        BY <2>1, <3>2, <3>3, <3>4, Zenon
    <2>7. shown' \in [Conns -> BOOLEAN]
      <3>1. shown' = [shown EXCEPT ![cur] = @ \/ (o.handled /\ options.emit)]
        BY <2>2 DEF Receive
      <3> QED
        BY <2>1, <3>1 DEF TypeOK
    <2>8. first' \in [Conns -> Kinds \cup {"none"}] /\ refusals' \subseteq Conns
      BY <2>1, <2>2 DEF Receive, TypeOK
    <2> QED
      BY <1>8, <2>4, <2>5, <2>6, <2>7, <2>8 DEF Frame, TypeOK, SockType
  <1>9. ASSUME Close PROVE TypeOK'
    <2>1. sock' \in SockType /\ failed' \in [Conns -> BOOLEAN]
      <3>1. Destroyed(clients, FALSE)
        BY <1>9 DEF Close, DestroyAll
      <3> QED
        BY <1>s, <3>1, DestroyedEffect
    <2> QED
      BY <1>9, <2>1 DEF Close, TypeOK, appVars, hsVars, SockType
  <1>10. ASSUME ServerCloses PROVE TypeOK'
    BY <1>10 DEF ServerCloses, TypeOK, appVars, hsVars, sockVars
  <1>11. ASSUME UNCHANGED vars PROVE TypeOK'
    BY <1>11 DEF vars, TypeOK, appVars, hsVars, sockVars
  <1>12. ASSUME NEW c \in Conns, PeerEnds(c) PROVE TypeOK'
    BY <1>4, <1>12 DEF PeerEnds, TypeOK
  <1>17. ASSUME NEW c \in Conns, TlsFails(c) PROVE TypeOK'
    BY <1>4, <1>17 DEF TlsFails, TypeOK
  <1>13. ASSUME NEW c \in Conns, PeerResets(c) PROVE TypeOK'
    BY <1>4, <1>13 DEF PeerResets, HandlersOn, TypeOK
  <1>14. ASSUME NEW c \in Conns, NEW err \in BOOLEAN, LocalDestroy(c, err) PROVE TypeOK'
    BY <1>4, <1>14 DEF LocalDestroy, TypeOK
  <1>15. ASSUME NEW c \in Conns, NEW answer, AllowAnswers(c, answer) PROVE TypeOK'
    BY <1>2, <1>15 DEF AllowAnswers, AfterAllow, Waiting
  <1>16. ASSUME NEW c \in Conns, NEW answer, AuthorizeAnswers(c, answer) PROVE TypeOK'
    BY <1>2, <1>16 DEF AuthorizeAnswers, Waiting
  <1> QED
    BY <1>1, <1>3, <1>5, <1>6, <1>7, <1>8, <1>9, <1>10, <1>11, <1>12, <1>13, <1>14, <1>15, <1>16,
       <1>17 DEF Next
-----------------------------------------------------------------------------
(* The inductive invariant.  What concerns a connection after admission     *)
(* concerns only connections that handleConnection has registered.          *)

Lives ==
  /\ \A c \in Conns : sock[c] = "none" <=> phase[c] = "none"
  /\ clients \subseteq {c \in Conns : phase[c] = "open"}
  /\ \A c \in Conns : goodbyes[c] # <<>> => phase[c] = "open" /\ c \notin clients
  /\ \A c \in Conns : verifying[c] > 0 => phase[c] = "open"
  /\ \A c \in rejected : phase[c] = "open"
  /\ \A c \in Conns : heard[c] # {} => phase[c] = "open"
  /\ \A c \in Conns : first[c] # "none" => phase[c] = "open"
  /\ \A c \in Conns : pendingHs[c] => phase[c] = "open"
  /\ \A c \in Conns : cur = c => phase[c] = "open"

\* Without awaited hooks.
PromptInv ==
  /\ alive
  /\ \A c \in Conns : phase[c] \notin Waiting
  /\ \A c \in Conns : sock[c] = "open" => phase[c] \in {"tls", "open"}
  /\ \A c \in clients : sock[c] # "closed"
  /\ \A c \in Conns : phase[c] = "open" /\ sock[c] = "closed" => goodbyes[c] # <<>>
  /\ \A c \in Conns : phase[c] = "tls" => options.tls
  /\ server # "listening" /\ ~options.tls => clients = {}

\* With a verdict known when handleHandshake returns.
DecidedInv ==
  /\ \A c \in Conns : verifying[c] = 0
  /\ \A c \in Conns : pendingHs[c] => first[c] = "none"
  /\ \A c \in rejected : sock[c] # "open" /\ ~pendingHs[c] /\ first[c] # "none"
  /\ \A c \in Conns : Versioned /\ phase[c] = "open" => pendingHs[c] \/ attached[c] \/ c \in rejected
  /\ \A c \in Conns : Versioned /\ FALSE \in heard[c] => c \in rejected
  /\ \A c \in Conns : first[c] = "good" /\ c \notin refusals => c \notin rejected

IInv == TypeOK /\ Lives /\ (Prompt => PromptInv) /\ (Decided => DecidedInv)

(* A step that may only destroy sockets and read from or write to the wire. *)
Fades ==
  /\ UNCHANGED <<options, phase, cur, clients, hsVars, server, appVars>>
  /\ sock' \in SockType
  /\ \A c \in Conns : sock'[c] = "open" => sock[c] = "open"
  /\ \A c \in Conns : sock'[c] = "none" <=> sock[c] = "none"
  /\ \A c \in Conns : sock'[c] = "closed" <=> sock[c] = "closed"

LEMMA QuietSteps ==
  ASSUME TypeOK, NEW c \in Conns,
         \/ \E k \in Kinds : PeerSends(c, k)
         \/ PeerEnds(c)
         \/ PeerResets(c)
         \/ TlsFails(c)
         \/ \E err \in BOOLEAN : LocalDestroy(c, err)
  PROVE  /\ Fades
         /\ \/ alive' = alive
            \/ sock[c] = "open" /\ alive' = (phase[c] = "tls" \/ HandlersOn(c))
  <1>0. sock \in SockType /\ failed \in [Conns -> BOOLEAN]
    BY DEF TypeOK, SockType
  <1>1. ASSUME NEW err \in BOOLEAN, Destroyed({c}, err)
        PROVE  /\ sock' \in SockType
               /\ \A d \in Conns : sock'[d] = "open" => sock[d] = "open"
               /\ \A d \in Conns : sock'[d] = "none" <=> sock[d] = "none"
               /\ \A d \in Conns : sock'[d] = "closed" <=> sock[d] = "closed"
    BY <1>0, <1>1, DestroyedEffect
  <1>2. CASE \E k \in Kinds : PeerSends(c, k)
    BY <1>0, <1>2 DEF PeerSends, Fades, sockVars
  <1>3. CASE PeerEnds(c)
    BY <1>1, <1>3 DEF PeerEnds, Fades
  <1>4. CASE PeerResets(c)
    BY <1>1, <1>4 DEF PeerResets, Fades
  <1>5. CASE \E err \in BOOLEAN : LocalDestroy(c, err)
    BY <1>1, <1>5 DEF LocalDestroy, Fades
  <1>6. CASE TlsFails(c)
    BY <1>1, <1>6 DEF TlsFails, Fades
  <1> QED
    BY <1>2, <1>3, <1>4, <1>5, <1>6

(* The cases of a step, with the steps that only fade taken together. *)
LEMMA StepCases ==
  ASSUME TypeOK, [Next]_vars
  PROVE  \/ \E c \in Conns : Connect(c) \/ Secured(c)
         \/ \E c \in Conns, p \in Waiting, next \in {"authorize", "open"},
               answer \in {"yes", "no", "throws"} : HookAnswers(c, p, next, answer)
         \/ Fades /\ alive' = alive
         \/ \E c \in Conns : /\ Fades /\ sock[c] = "open"
                              /\ alive' = (phase[c] = "tls" \/ HandlersOn(c))
         \/ \E c \in Conns : CloseEvent(c)
         \/ \E c \in Conns, n \in Nat : DataEvent(c, n)
         \/ \E c \in Conns, ok \in BOOLEAN : VerdictArrives(c, ok)
         \/ Frame
         \/ Close
         \/ ServerCloses
         \/ UNCHANGED vars
  <1>1. ASSUME NEW c \in Conns, NEW answer \in {"yes", "no", "throws"},
               AllowAnswers(c, answer) \/ AuthorizeAnswers(c, answer)
        PROVE  \E p \in Waiting, next \in {"authorize", "open"} : HookAnswers(c, p, next, answer)
    BY <1>1 DEF AllowAnswers, AuthorizeAnswers, AfterAllow, Waiting
  <1>2. ASSUME NEW c \in Conns, NEW n \in 1 .. Len(wire[c]), DataEvent(c, n)
        PROVE  n \in Nat
    BY <1>2 DEF TypeOK
  <1> QED
    BY <1>1, <1>2, QuietSteps DEF Next

LEMMA LivesStep == TypeOK /\ Lives /\ [Next]_vars => Lives'
  <1> SUFFICES ASSUME TypeOK, Lives, [Next]_vars PROVE Lives'
    OBVIOUS
  <1>0. sock \in SockType /\ failed \in [Conns -> BOOLEAN] /\ goodbyes \in [Conns -> Seq(BOOLEAN)]
    BY DEF TypeOK, SockType
  <1>a. phase \in [Conns -> Phases] /\ clients \subseteq Conns /\ None \notin Conns
    BY ServerAssumption DEF TypeOK
  <1>b. TypeOK'
    BY TypeStep
  <1>1. ASSUME NEW c \in Conns, Connect(c) \/ Secured(c) PROVE Lives'
    <2>0. phase[c] \in {"none", "tls"} /\ cur = None /\ cur' = cur
      BY <1>1 DEF Connect, Secured, Idle
    <2>1. \A d \in Conns \ {c} : /\ phase'[d] = phase[d] /\ sock'[d] = sock[d]
                                 /\ pendingHs'[d] = pendingHs[d] /\ (d \in clients' <=> d \in clients)
      BY <1>0, <1>a, <1>1 DEF Connect, Secured, HandleConnection, GoOn, TypeOK
    <2>2. phase'[c] # "none" /\ sock'[c] # "none"
      BY <1>0, <1>a, <1>1
         DEF Connect, Secured, HandleConnection, GoOn, FirstPhase, AfterAllow, SockType
    <2>3. clients' \subseteq Conns /\ (c \in clients' => phase'[c] = "open")
      <3>1. c \notin clients
        BY <2>0 DEF Lives
      <3> QED
        BY <1>a, <1>1, <3>1 DEF Connect, Secured, HandleConnection, GoOn
    <2>4. pendingHs'[c] => phase'[c] = "open"
      <3>1. CASE pendingHs' = pendingHs
        BY <2>0, <3>1 DEF Lives
      <3>2. CASE pendingHs' # pendingHs
        BY <1>a, <1>1, <3>2 DEF Connect, Secured, HandleConnection, GoOn
      <3> QED
        BY <3>1, <3>2
    <2>5. UNCHANGED <<verifying, goodbyes, rejected, heard, first>>
      BY <1>1 DEF Connect, Secured, appVars
    <2>6. \A d \in Conns : goodbyes'[d] # <<>> => phase'[d] = "open" /\ d \notin clients'
      BY <2>0, <2>1, <2>5 DEF Lives
    <2>7. \A d \in Conns : pendingHs'[d] => phase'[d] = "open"
      BY <2>1, <2>4 DEF Lives
    <2>8. \A d \in Conns : sock'[d] = "none" <=> phase'[d] = "none"
      BY <2>1, <2>2 DEF Lives
    <2>9. clients' \subseteq {d \in Conns : phase'[d] = "open"}
      BY <2>1, <2>3 DEF Lives
    <2>10. /\ \A d \in Conns : verifying'[d] > 0 => phase'[d] = "open"
           /\ \A d \in Conns : heard'[d] # {} => phase'[d] = "open"
           /\ \A d \in Conns : first'[d] # "none" => phase'[d] = "open"
      BY <2>0, <2>1, <2>5 DEF Lives
    <2>11. \A d \in rejected' : phase'[d] = "open"
      <3>1. rejected \subseteq Conns
        BY DEF TypeOK
      <3> QED
        BY <2>0, <2>1, <2>5, <3>1 DEF Lives
    <2>12. \A d \in Conns : cur' # d
      BY <1>a, <2>0
    <2> QED
      BY <2>6, <2>7, <2>8, <2>9, <2>10, <2>11, <2>12 DEF Lives
  <1>2. ASSUME NEW c \in Conns, NEW p \in Waiting, NEW next \in {"authorize", "open"},
               NEW answer \in {"yes", "no", "throws"}, HookAnswers(c, p, next, answer)
        PROVE  Lives'
    <2>0. phase[c] \in Waiting /\ phase[c] # "open" /\ phase[c] # "none" /\ cur = None
      BY <1>2 DEF HookAnswers, Waiting, Idle
    <2>1. CASE GoOn(c, next) /\ UNCHANGED <<sockVars, alive>>
      BY <1>0, <1>a, <1>2, <2>0, <2>1 DEF HookAnswers, GoOn, Lives, appVars, sockVars, TypeOK
    <2>2. CASE Destroyed({c}, FALSE) /\ phase' = [phase EXCEPT ![c] = "refused"]
               /\ UNCHANGED <<clients, pendingHs, alive>>
      <3>1. \A d \in Conns : sock'[d] = "none" <=> sock[d] = "none"
        BY <1>0, <2>2, DestroyedEffect
      <3> QED
        BY <1>a, <1>2, <2>0, <2>2, <3>1 DEF HookAnswers, Lives, appVars
    <2>3. CASE alive' = FALSE /\ UNCHANGED <<phase, sockVars, clients, pendingHs>>
      BY <1>2, <2>3 DEF HookAnswers, Lives, appVars, sockVars
    <2> QED
      BY <1>2, <2>1, <2>2, <2>3 DEF HookAnswers
  <1>3. ASSUME Fades PROVE Lives'
    BY <1>3 DEF Fades, Lives, hsVars, appVars
  <1>4. ASSUME NEW c \in Conns, CloseEvent(c) PROVE Lives'
    BY <1>0, <1>a, <1>4 DEF CloseEvent, HandlersOn, Unregistered, Lives, hsVars
  <1>5. ASSUME NEW c \in Conns, NEW n \in Nat, DataEvent(c, n) PROVE Lives'
    BY <1>5 DEF DataEvent, Lives, hsVars, appVars, sockVars
  <1>6. ASSUME NEW c \in Conns, phase[c] = "open", clients' = Unregistered(c), phase' = phase,
               goodbyes' = [goodbyes EXCEPT ![c] = Append(@, TRUE)],
               rejected' = rejected \cup {c}, cur' \in {cur, None},
               \A d \in Conns : sock'[d] = "none" <=> sock[d] = "none",
               \A d \in Conns \ {c} : /\ verifying'[d] = verifying[d] /\ heard'[d] = heard[d]
                                      /\ first'[d] = first[d] /\ pendingHs'[d] = pendingHs[d]
        PROVE  Lives'
    <2>1. \A d \in Conns : verifying'[d] > 0 => phase'[d] = "open"
      BY <1>6 DEF Lives
    <2>2. \A d \in Conns : pendingHs'[d] => phase'[d] = "open"
      BY <1>6 DEF Lives
    <2>3. \A d \in Conns : heard'[d] # {} => phase'[d] = "open"
      BY <1>6 DEF Lives
    <2>4. \A d \in Conns : first'[d] # "none" => phase'[d] = "open"
      BY <1>6 DEF Lives
    <2>5. \A d \in Conns : cur' = d => phase'[d] = "open"
      BY <1>a, <1>6 DEF Lives
    <2>6. \A d \in Conns : goodbyes'[d] # <<>> => phase'[d] = "open" /\ d \notin clients'
      BY <1>0, <1>6 DEF Lives, Unregistered
    <2> QED
      BY <1>6, <2>1, <2>2, <2>3, <2>4, <2>5, <2>6 DEF Lives, Unregistered
  <1>7. ASSUME NEW c \in Conns, phase[c] = "open", cur' \in {cur, None},
               UNCHANGED <<clients, phase, goodbyes, rejected, sock>>,
               \A d \in Conns \ {c} : /\ verifying'[d] = verifying[d] /\ heard'[d] = heard[d]
                                      /\ first'[d] = first[d] /\ pendingHs'[d] = pendingHs[d]
        PROVE  Lives'
    <2>1. \A d \in Conns : verifying'[d] > 0 => phase'[d] = "open"
      BY <1>7 DEF Lives
    <2>2. \A d \in Conns : pendingHs'[d] => phase'[d] = "open"
      BY <1>7 DEF Lives
    <2>3. \A d \in Conns : heard'[d] # {} => phase'[d] = "open"
      BY <1>7 DEF Lives
    <2>4. \A d \in Conns : first'[d] # "none" => phase'[d] = "open"
      BY <1>7 DEF Lives
    <2>5. \A d \in Conns : cur' = d => phase'[d] = "open"
      BY <1>a, <1>7 DEF Lives
    <2> QED
      BY <1>7, <2>1, <2>2, <2>3, <2>4, <2>5 DEF Lives
  <1>8. ASSUME NEW c \in Conns, NEW ok \in BOOLEAN, VerdictArrives(c, ok) PROVE Lives'
    <2>1. phase[c] = "open"
      BY <1>8 DEF VerdictArrives, Lives
    <2>2. \A d \in Conns \ {c} : verifying'[d] = verifying[d] /\ heard'[d] = heard[d] /\ first'[d] = first[d]
      BY <1>8 DEF VerdictArrives, TypeOK
    <2>3. CASE ok
      BY <1>7, <1>8, <2>1, <2>2, <2>3 DEF VerdictArrives, Attach, sockVars, TypeOK
    <2>4. CASE ~ok
      <3>1. Drop(c, TRUE)
        BY <1>8, <2>4 DEF VerdictArrives
      <3>2. \A d \in Conns : sock'[d] = "none" <=> sock[d] = "none"
        BY <1>0, <3>1, DestroyedEffect DEF Drop
      <3> QED
        BY <1>6, <1>8, <2>1, <2>2, <3>1, <3>2 DEF VerdictArrives, Drop, TypeOK
    <2> QED
      BY <2>3, <2>4
  <1>9. ASSUME Frame PROVE Lives'
    <2>1. cur \in Conns /\ \E o \in OutcomeType : Receive(cur, Head(chunk), o)
      BY <1>9, FrameOutcome
    <2>2. PICK o \in OutcomeType : Receive(cur, Head(chunk), o)
      BY <2>1
    <2>3. phase[cur] = "open" /\ phase' = phase /\ cur' \in {cur, None}
      BY <1>9, <2>1 DEF Frame, Lives, BusyAfter
    <2>4. \A d \in Conns \ {cur} : heard'[d] = heard[d] /\ first'[d] = first[d]
      BY <2>1, <2>2 DEF Receive, TypeOK
    <2>5. CASE Drop(cur, o.err) /\ UNCHANGED <<attached, verifying>>
      <3>1. \A d \in Conns : sock'[d] = "none" <=> sock[d] = "none"
        BY <1>0, <2>5, DestroyedEffect DEF Drop, OutcomeType
      <3> QED
        BY <1>6, <2>1, <2>3, <2>4, <2>5, <3>1 DEF Drop, TypeOK
    <2>6. CASE Attach(cur) /\ UNCHANGED verifying
      BY <1>7, <2>1, <2>3, <2>4, <2>6 DEF Attach, sockVars, TypeOK
    <2>7. CASE verifying' = [verifying EXCEPT ![cur] = @ + 1]
               /\ UNCHANGED <<clients, sockVars, goodbyes, pendingHs, attached, rejected>>
      BY <1>7, <2>1, <2>3, <2>4, <2>7 DEF sockVars, TypeOK
    <2>8. CASE UNCHANGED <<clients, sockVars, goodbyes, pendingHs, attached, verifying, rejected>>
      BY <1>7, <2>1, <2>3, <2>4, <2>8 DEF sockVars
    <2> QED
      BY <2>2, <2>5, <2>6, <2>7, <2>8 DEF Receive, Handle
  <1>10. ASSUME Close PROVE Lives'
    <2>1. \A d \in Conns : sock'[d] = "none" <=> sock[d] = "none"
      BY <1>0, <1>10, DestroyedEffect DEF Close, DestroyAll
    <2> QED
      BY <1>10, <2>1 DEF Close, Lives, hsVars, appVars
  <1>11. ASSUME ServerCloses \/ UNCHANGED vars PROVE Lives'
    BY <1>11 DEF ServerCloses, vars, Lives, hsVars, appVars, sockVars
  <1> QED
    BY <1>1, <1>2, <1>3, <1>4, <1>5, <1>8, <1>9, <1>10, <1>11, StepCases

LEMMA AppendNonEmpty ==
  ASSUME NEW S, NEW s \in Seq(S), NEW x \in S
  PROVE  Append(s, x) # <<>>
  BY SMTT(30)

(* A frame, or a late verdict, can only take the connection out of the map  *)
(* and destroy its socket.                                                  *)
LEMMA HandlingShrinks ==
  ASSUME TypeOK, NEW c \in Conns, NEW err \in BOOLEAN,
         \/ Drop(c, err)
         \/ UNCHANGED <<clients, sock, failed, goodbyes>>
  PROVE  /\ clients' \subseteq clients
         /\ \A d \in Conns : sock'[d] = "open" => sock[d] = "open"
         /\ \A d \in Conns : sock'[d] = "closed" <=> sock[d] = "closed"
         /\ \A d \in Conns : goodbyes[d] # <<>> => goodbyes'[d] # <<>>
  <1>0. sock \in SockType /\ failed \in [Conns -> BOOLEAN] /\ goodbyes \in [Conns -> Seq(BOOLEAN)]
    BY DEF TypeOK, SockType
  <1>1. CASE Drop(c, err)
    <2>1. Destroyed({c}, err) /\ clients' = clients \ {c}
      BY <1>1 DEF Drop, Unregistered
    <2>2. goodbyes' = [goodbyes EXCEPT ![c] = Append(@, TRUE)]
      BY <1>1 DEF Drop
    <2>3. \A d \in Conns : goodbyes[d] # <<>> => goodbyes'[d] # <<>>
      <3>1. goodbyes[c] \in Seq(BOOLEAN)
        BY <1>0
      <3>2. Append(goodbyes[c], TRUE) # <<>>
        BY <3>1, AppendNonEmpty
      <3> QED
        BY <1>0, <2>2, <3>2
    <2> QED
      BY <1>0, <2>1, <2>3, DestroyedEffect
  <1>2. CASE UNCHANGED <<clients, sock, failed, goodbyes>>
    BY <1>2
  <1> QED
    BY <1>1, <1>2

LEMMA PromptStep ==
  ASSUME TypeOK, Lives, Prompt, PromptInv, [Next]_vars
  PROVE  PromptInv'
  <1>0. sock \in SockType /\ failed \in [Conns -> BOOLEAN] /\ goodbyes \in [Conns -> Seq(BOOLEAN)]
    BY DEF TypeOK, SockType
  <1>a. phase \in [Conns -> Phases] /\ clients \subseteq Conns
    BY DEF TypeOK
  <1>s. ASSUME clients' \subseteq clients, phase' = phase, alive',
               \A d \in Conns : sock'[d] = "open" => sock[d] = "open",
               \A d \in Conns : sock'[d] = "closed" <=> sock[d] = "closed",
               \A d \in Conns : goodbyes[d] # <<>> => goodbyes'[d] # <<>>,
               server' = server \/ clients' = {}, options' = options
        PROVE  PromptInv'
    BY <1>a, <1>s DEF PromptInv
  <1>1. ASSUME NEW c \in Conns, Connect(c) \/ Secured(c) PROVE PromptInv'
    <2>1. /\ phase[c] \in {"none", "tls"} /\ c \notin clients
          /\ UNCHANGED <<options, server, alive, goodbyes>>
          /\ server # "listening" => options.tls
      BY <1>1 DEF Connect, Secured, appVars, Lives, PromptInv
    <2>2. CASE UNCHANGED clients /\ phase' = [phase EXCEPT ![c] = "refused"]
               /\ sock' = [sock EXCEPT ![c] = "closing"]
      BY <1>0, <1>a, <2>1, <2>2 DEF PromptInv, Waiting, SockType
    <2>3. CASE phase' = [phase EXCEPT ![c] = "open"] /\ clients' = clients \cup {c}
               /\ sock' = [sock EXCEPT ![c] = "open"]
      BY <1>0, <1>a, <2>1, <2>3 DEF PromptInv, Waiting, SockType
    <2>4. CASE UNCHANGED clients /\ phase' = [phase EXCEPT ![c] = "tls"]
               /\ sock' = [sock EXCEPT ![c] = "open"] /\ options.tls
      BY <1>0, <1>a, <2>1, <2>4 DEF PromptInv, Waiting, SockType
    <2> QED
      BY <1>1, <2>2, <2>3, <2>4
         DEF Connect, Secured, HandleConnection, GoOn, FirstPhase, AfterAllow, Prompt
  <1>2. ASSUME NEW c \in Conns, NEW p \in Waiting, NEW next, NEW answer, HookAnswers(c, p, next, answer)
        PROVE  FALSE
    BY <1>2 DEF HookAnswers, PromptInv
  <1>3. ASSUME Fades, alive' = alive PROVE PromptInv'
    BY <1>s, <1>3 DEF Fades, appVars, PromptInv
  <1>4. ASSUME NEW c \in Conns, Fades, sock[c] = "open",
               alive' = (phase[c] = "tls" \/ HandlersOn(c))
        PROVE  PromptInv'
    BY <1>s, <1>4 DEF Fades, appVars, PromptInv, HandlersOn
  <1>5. ASSUME NEW c \in Conns, CloseEvent(c) PROVE PromptInv'
    <2>1. clients' \subseteq clients /\ c \notin clients'
      BY <1>5 DEF CloseEvent, HandlersOn, Unregistered, Lives
    <2>4. \A d \in Conns : goodbyes[d] # <<>> \/ (d = c /\ phase[c] = "open") => goodbyes'[d] # <<>>
      BY <1>0, <1>5 DEF CloseEvent, HandlersOn
    <2>5. sock' = [sock EXCEPT ![c] = "closed"] /\ UNCHANGED <<options, phase, alive, server>>
      BY <1>5 DEF CloseEvent
    <2> QED
      BY <1>0, <1>a, <2>1, <2>4, <2>5 DEF PromptInv, SockType
  <1>6. ASSUME NEW c \in Conns, NEW n \in Nat, DataEvent(c, n) PROVE PromptInv'
    BY <1>s, <1>6 DEF DataEvent, sockVars, appVars, PromptInv
  <1>7. ASSUME NEW c \in Conns, NEW ok \in BOOLEAN, VerdictArrives(c, ok) PROVE PromptInv'
    <2>1. Drop(c, TRUE) \/ UNCHANGED <<clients, sock, failed, goodbyes>>
      BY <1>7 DEF VerdictArrives, Attach, sockVars
    <2>2. UNCHANGED <<options, phase, alive, server>>
      BY <1>7 DEF VerdictArrives
    <2> QED
      BY <1>s, <2>1, <2>2, HandlingShrinks DEF PromptInv
  <1>8. ASSUME Frame PROVE PromptInv'
    <2>1. cur \in Conns /\ \E o \in OutcomeType : Receive(cur, Head(chunk), o)
      BY <1>8, FrameOutcome
    <2>2. PICK o \in OutcomeType : Receive(cur, Head(chunk), o)
      BY <2>1
    <2>3. o.err \in BOOLEAN
      BY DEF OutcomeType
    <2>4. Drop(cur, o.err) \/ UNCHANGED <<clients, sock, failed, goodbyes>>
      BY <2>2 DEF Receive, Handle, Attach, sockVars
    <2>5. UNCHANGED <<options, phase, alive, server>>
      BY <1>8 DEF Frame
    <2> QED
      BY <1>s, <2>1, <2>3, <2>4, <2>5, HandlingShrinks DEF PromptInv
  <1>9. ASSUME Close PROVE PromptInv'
    <2>1. Destroyed(clients, FALSE)
      BY <1>9 DEF Close, DestroyAll
    <2>2. /\ \A d \in Conns : sock'[d] = "open" => sock[d] = "open"
          /\ \A d \in Conns : sock'[d] = "closed" <=> sock[d] = "closed"
      BY <1>0, <2>1, DestroyedEffect
    <2> QED
      BY <1>s, <1>9, <2>2 DEF Close, appVars, PromptInv
  <1>10. ASSUME ServerCloses PROVE PromptInv'
    BY <1>s, <1>10 DEF ServerCloses, sockVars, appVars, PromptInv
  <1>11. ASSUME UNCHANGED vars PROVE PromptInv'
    BY <1>s, <1>11 DEF vars, sockVars, appVars, PromptInv
  <1> QED
    BY <1>1, <1>2, <1>3, <1>4, <1>5, <1>6, <1>7, <1>8, <1>9, <1>10, <1>11, StepCases

LEMMA DecidedStep ==
  ASSUME TypeOK, Lives, Decided, DecidedInv, [Next]_vars
  PROVE  DecidedInv'
  <1>0. sock \in SockType /\ failed \in [Conns -> BOOLEAN]
    BY DEF TypeOK, SockType
  <1>a. phase \in [Conns -> Phases] /\ rejected \subseteq Conns /\ None \notin Conns
        /\ pendingHs \in [Conns -> BOOLEAN] /\ attached \in [Conns -> BOOLEAN]
    BY ServerAssumption DEF TypeOK
  \* Sockets fade, everything the invariant speaks of stays.
  <1>s. ASSUME UNCHANGED <<phase, verifying, pendingHs, attached, first, rejected, refusals, heard>>,
               \A d \in Conns : sock'[d] = "open" => sock[d] = "open"
        PROVE  DecidedInv'
    BY <1>a, <1>s DEF DecidedInv
  \* A connection without a past is registered or turned away.
  <1>r. ASSUME NEW c \in Conns, phase[c] # "open",
               UNCHANGED <<verifying, attached, first, rejected, refusals, heard>>,
               \A d \in Conns \ {c} : /\ phase'[d] = phase[d] /\ pendingHs'[d] = pendingHs[d]
                                      /\ sock'[d] = sock[d],
               phase'[c] = "open" => pendingHs'[c] = Versioned
        PROVE  DecidedInv'
    <2>1. c \notin rejected /\ first[c] = "none" /\ heard[c] = {}
      BY <1>r DEF Lives
    <2>2. \A d \in Conns : pendingHs'[d] => first'[d] = "none"
      BY <1>r, <2>1 DEF DecidedInv
    <2>3. \A d \in rejected' : sock'[d] # "open" /\ ~pendingHs'[d] /\ first'[d] # "none"
      BY <1>a, <1>r, <2>1 DEF DecidedInv
    <2>4. \A d \in Conns : Versioned /\ phase'[d] = "open" => pendingHs'[d] \/ attached'[d] \/ d \in rejected'
      BY <1>r, <2>1 DEF DecidedInv
    <2> QED
      BY <1>r, <2>1, <2>2, <2>3, <2>4 DEF DecidedInv
  <1>1. ASSUME NEW c \in Conns, Connect(c) \/ Secured(c) PROVE DecidedInv'
    <2>1. phase[c] \in {"none", "tls"}
      BY <1>1 DEF Connect, Secured
    <2>2. \A d \in Conns \ {c} : phase'[d] = phase[d] /\ pendingHs'[d] = pendingHs[d] /\ sock'[d] = sock[d]
      BY <1>0, <1>a, <1>1 DEF Connect, Secured, HandleConnection, GoOn, SockType
    <2>3. phase'[c] = "open" => pendingHs'[c] = Versioned
      BY <1>a, <1>1 DEF Connect, Secured, HandleConnection, GoOn
    <2>4. UNCHANGED <<verifying, attached, first, rejected, refusals, heard>>
      BY <1>1 DEF Connect, Secured, appVars
    <2> QED
      BY <1>r, <2>1, <2>2, <2>3, <2>4
  <1>2. ASSUME NEW c \in Conns, NEW p \in Waiting, NEW next \in {"authorize", "open"},
               NEW answer \in {"yes", "no", "throws"}, HookAnswers(c, p, next, answer)
        PROVE  DecidedInv'
    <2>0. phase[c] \in Waiting /\ phase[c] # "open"
      BY <1>2 DEF HookAnswers, Waiting
    <2>1. UNCHANGED <<verifying, attached, first, rejected, refusals, heard>>
      BY <1>2 DEF HookAnswers, appVars
    <2>2. CASE GoOn(c, next) /\ UNCHANGED <<sockVars, alive>>
      BY <1>a, <1>r, <2>0, <2>1, <2>2 DEF GoOn, sockVars
    <2>3. CASE Destroyed({c}, FALSE) /\ phase' = [phase EXCEPT ![c] = "refused"]
               /\ UNCHANGED <<clients, pendingHs, alive>>
      <3>1. \A d \in Conns \ {c} : sock'[d] = sock[d]
        BY <1>0, <2>3 DEF Destroyed
      <3> QED
        BY <1>a, <1>r, <2>0, <2>1, <2>3, <3>1
    <2>4. CASE alive' = FALSE /\ UNCHANGED <<phase, sockVars, clients, pendingHs>>
      BY <1>s, <2>1, <2>4 DEF sockVars
    <2> QED
      BY <1>2, <2>2, <2>3, <2>4 DEF HookAnswers
  <1>3. ASSUME Fades PROVE DecidedInv'
    BY <1>s, <1>3 DEF Fades, hsVars, appVars
  <1>5. ASSUME NEW c \in Conns, CloseEvent(c) PROVE DecidedInv'
    BY <1>0, <1>s, <1>5 DEF CloseEvent, hsVars, SockType
  <1>6. ASSUME NEW c \in Conns, NEW n \in Nat, DataEvent(c, n) PROVE DecidedInv'
    BY <1>s, <1>6 DEF DataEvent, hsVars, sockVars, appVars
  <1>7. ASSUME NEW c \in Conns, NEW ok \in BOOLEAN, VerdictArrives(c, ok) PROVE FALSE
    BY <1>7 DEF VerdictArrives, DecidedInv
  <1>8. ASSUME Frame PROVE DecidedInv'
    <2> DEFINE c == cur
               k == Head(chunk)
    <2>1. c \in Conns /\ k \in Kinds /\ phase[c] = "open" /\ phase' = phase
      BY <1>8, FrameOutcome DEF Lives, Frame
    <2>2. PICK o \in OutcomeType : Receive(c, k, o)
      BY <1>8, FrameOutcome
    <2>3. options \in OptionType
      BY ServerAssumption DEF TypeOK, OptionType
    <2> HIDE DEF c, k
    <2>4. /\ first' = [first EXCEPT ![c] = IF @ = "none" THEN k ELSE @]
          /\ refusals' = IF o.act = "refuse" THEN refusals \cup {c} ELSE refusals
          /\ heard' = heard \/ heard' = [heard EXCEPT ![c] = @ \cup {attached'[c]}]
          /\ Handle(c, o)
      BY <2>2 DEF Receive
    <2>5. CASE pendingHs[c]
      <3>1. o \in Outcomes(k)
        BY <2>2, <2>5 DEF Receive
      <3>2. o.act \in {"reject", "refuse", "attach"} /\ (k = "good" => o.act # "reject")
        <4>1. o.act # "pass" /\ o.act # "wait" /\ (k = "good" => o.act # "reject")
          BY <2>1, <2>3, <3>1, OutcomesKnown
        <4> QED
          BY <4>1 DEF OutcomeType
      <3>3. first[c] = "none" /\ c \notin rejected
        BY <2>1, <2>5 DEF DecidedInv
      <3>4. first'[c] = k /\ \A d \in Conns \ {c} : first'[d] = first[d]
        BY <2>1, <2>4, <3>3 DEF TypeOK
      <3>k. k # "none"
        BY <2>1, ServerAssumption
      <3>5. \A d \in Conns \ {c} : FALSE \in heard'[d] => FALSE \in heard[d]
        BY <2>1, <2>4 DEF TypeOK
      <3>6. CASE o.act \in {"reject", "refuse"}
        <4>1. Drop(c, o.err) /\ UNCHANGED <<attached, verifying>>
          BY <2>4, <3>6 DEF Handle
        <4>2. /\ \A d \in Conns : sock'[d] = "open" => sock[d] = "open" /\ d # c
          <5>1. Destroyed({c}, o.err) /\ o.err \in BOOLEAN
            BY <4>1 DEF Drop, OutcomeType
          <5> QED
            BY <1>0, <5>1, DestroyedEffect
        <4>3. pendingHs' = [pendingHs EXCEPT ![c] = FALSE] /\ rejected' = rejected \cup {c}
          BY <4>1 DEF Drop
        <4>4. \A d \in Conns : pendingHs'[d] => first'[d] = "none"
          BY <1>a, <2>1, <3>4, <4>3 DEF DecidedInv
        <4>5. \A d \in rejected' : sock'[d] # "open" /\ ~pendingHs'[d] /\ first'[d] # "none"
          BY <1>a, <2>1, <3>k, <3>4, <4>2, <4>3 DEF DecidedInv
        <4>6. \A d \in Conns : Versioned /\ phase'[d] = "open" => pendingHs'[d] \/ attached'[d] \/ d \in rejected'
          BY <1>a, <2>1, <4>1, <4>3 DEF DecidedInv
        <4>7. \A d \in Conns : Versioned /\ FALSE \in heard'[d] => d \in rejected'
          BY <2>1, <3>5, <4>3 DEF DecidedInv
        <4>8. \A d \in Conns : first'[d] = "good" /\ d \notin refusals' => d \notin rejected'
          BY <2>1, <2>4, <3>2, <3>4, <3>6, <4>3 DEF DecidedInv
        <4> QED
          BY <4>1, <4>4, <4>5, <4>6, <4>7, <4>8 DEF DecidedInv
      <3>7. CASE o.act = "attach"
        <4>1. Attach(c) /\ UNCHANGED verifying
          BY <2>4, <3>7 DEF Handle
        <4>2. /\ attached' = [attached EXCEPT ![c] = TRUE]
              /\ pendingHs' = [pendingHs EXCEPT ![c] = FALSE]
              /\ UNCHANGED <<sock, rejected>>
          BY <4>1 DEF Attach, sockVars
        <4>3. refusals' = refusals
          BY <2>4, <3>7
        <4>4. \A d \in Conns : pendingHs'[d] => first'[d] = "none"
          BY <1>a, <2>1, <3>4, <4>2 DEF DecidedInv
        <4>5. \A d \in rejected' : sock'[d] # "open" /\ ~pendingHs'[d] /\ first'[d] # "none"
          BY <1>a, <2>1, <3>k, <3>3, <3>4, <4>2 DEF DecidedInv
        <4>6. \A d \in Conns : Versioned /\ phase'[d] = "open" => pendingHs'[d] \/ attached'[d] \/ d \in rejected'
          BY <1>a, <2>1, <4>2 DEF DecidedInv
        <4>7. \A d \in Conns : Versioned /\ FALSE \in heard'[d] => d \in rejected'
          <5>1. attached'[c] = TRUE
            BY <1>a, <2>1, <4>2
          <5>2. FALSE \in heard'[c] => FALSE \in heard[c]
            <6>1. heard'[c] = heard[c] \/ heard'[c] = heard[c] \cup {TRUE}
              BY <2>1, <2>4, <5>1 DEF TypeOK
            <6> QED
              BY <6>1, Zenon
          <5> QED
            BY <2>1, <3>5, <4>2, <5>2 DEF DecidedInv
        <4>8. \A d \in Conns : first'[d] = "good" /\ d \notin refusals' => d \notin rejected'
          BY <2>1, <3>3, <3>4, <4>2, <4>3 DEF DecidedInv
        <4> QED
          BY <4>1, <4>4, <4>5, <4>6, <4>7, <4>8 DEF DecidedInv
      <3> QED
        BY <3>2, <3>6, <3>7
    <2>6. CASE ~pendingHs[c]
      <3>1. o.act = "pass"
        BY <2>2, <2>6 DEF Receive, Pass, Outcome
      <3>2. UNCHANGED <<sock, pendingHs, attached, verifying, rejected, refusals>>
        BY <2>4, <3>1 DEF Handle, sockVars
      <3>3. \A d \in Conns : pendingHs'[d] => first'[d] = "none"
        BY <2>1, <2>4, <2>6, <3>2 DEF DecidedInv, TypeOK
      <3>4. \A d \in Conns : Versioned /\ FALSE \in heard'[d] => d \in rejected'
        <4>1. \A d \in Conns \ {c} : FALSE \in heard'[d] => FALSE \in heard[d]
          BY <2>1, <2>4 DEF TypeOK
        <4>2. FALSE \in heard'[c] => FALSE \in heard[c] \/ ~attached[c]
          <5>1. heard'[c] = heard[c] \/ heard'[c] = heard[c] \cup {attached[c]}
            BY <2>1, <2>4, <3>2 DEF TypeOK
          <5> QED
            BY <5>1, Zenon
        <4>3. Versioned => attached[c] \/ c \in rejected
          BY <2>1, <2>6 DEF DecidedInv
        <4> QED
          BY <2>1, <3>2, <4>1, <4>2, <4>3 DEF DecidedInv
      <3>5. \A d \in Conns : first'[d] = "good" /\ d \notin refusals' => d \notin rejected'
        <4>1. c \in rejected => first[c] # "none"
          BY DEF DecidedInv
        <4> QED
          BY <2>1, <2>4, <3>2, <4>1 DEF DecidedInv, TypeOK
      <3>6. \A d \in rejected' : sock'[d] # "open" /\ ~pendingHs'[d] /\ first'[d] # "none"
        <4>1. \A d \in Conns : first[d] # "none" => first'[d] # "none"
          BY <2>1, <2>4 DEF TypeOK
        <4> QED
          BY <1>a, <3>2, <4>1 DEF DecidedInv
      <3>7. \A d \in Conns : Versioned /\ phase'[d] = "open" => pendingHs'[d] \/ attached'[d] \/ d \in rejected'
        BY <2>1, <3>2 DEF DecidedInv
      <3>8. \A d \in Conns : verifying'[d] = 0
        BY <3>2 DEF DecidedInv
      <3> QED
        BY <3>3, <3>4, <3>5, <3>6, <3>7, <3>8 DEF DecidedInv
    <2> QED
      BY <2>5, <2>6
  <1>9. ASSUME Close PROVE DecidedInv'
    <2>1. \A d \in Conns : sock'[d] = "open" => sock[d] = "open"
      BY <1>0, <1>9, DestroyedEffect DEF Close, DestroyAll
    <2> QED
      BY <1>s, <1>9, <2>1 DEF Close, hsVars, appVars
  <1>10. ASSUME ServerCloses PROVE DecidedInv'
    BY <1>s, <1>10 DEF ServerCloses, hsVars, sockVars, appVars
  <1>11. ASSUME UNCHANGED vars PROVE DecidedInv'
    BY <1>s, <1>11 DEF vars, hsVars, sockVars, appVars
  <1> QED
    BY <1>1, <1>2, <1>3, <1>5, <1>6, <1>7, <1>8, <1>9, <1>10, <1>11, StepCases
-----------------------------------------------------------------------------
LEMMA Inductive == Spec => []IInv
  <1>1. Init => IInv
    <2> SUFFICES ASSUME Init PROVE IInv
      OBVIOUS
    <2>1. TypeOK
      BY TypeInit
    <2>2. Lives
      BY ServerAssumption DEF Init, Lives
    <2>3. PromptInv
      BY DEF Init, PromptInv, Waiting
    <2>4. DecidedInv
      BY DEF Init, DecidedInv
    <2> QED
      BY <2>1, <2>2, <2>3, <2>4 DEF IInv
  <1>2. IInv /\ [Next]_vars => IInv'
    <2> SUFFICES ASSUME IInv, [Next]_vars PROVE IInv'
      OBVIOUS
    <2>1. TypeOK' /\ Lives'
      BY TypeStep, LivesStep DEF IInv
    <2>2. options' = options
      <3>1. ASSUME Frame PROVE options' = options
        BY <3>1 DEF Frame
      <3> QED
        BY <3>1, StepCases DEF IInv, Connect, Secured, HookAnswers, Fades, CloseEvent, DataEvent, VerdictArrives,
           Close, ServerCloses, vars
    <2>3. Prompt' => PromptInv'
      BY <2>2, PromptStep DEF IInv, Prompt
    <2>4. Decided' => DecidedInv'
      BY <2>2, DecidedStep DEF IInv, Decided
    <2> QED
      BY <2>1, <2>3, <2>4 DEF IInv
  <1> QED
    BY <1>1, <1>2, PTL DEF Spec

(* Every reachable state is well typed. *)
THEOREM ServerTypes == Spec => []TypeOK
  BY Inductive, PTL DEF IInv

(* With no awaited hook the clients map holds only sockets whose 'close'    *)
(* event is still to come, and without TLS nothing once close() resolved.   *)
THEOREM MapIsLive == Spec => []RegisteredIsLive
  <1>1. IInv => RegisteredIsLive
    BY DEF IInv, PromptInv, RegisteredIsLive
  <1> QED
    BY <1>1, Inductive, PTL

(* With no awaited hook a closed connection has been announced by           *)
(* 'clientClosed', and no socket error is uncaught.                         *)
THEOREM DeparturesKnown == Spec => [](DeparturesAnnounced /\ NothingUncaught)
  <1>1. IInv => DeparturesAnnounced /\ NothingUncaught
    BY DEF IInv, PromptInv, DeparturesAnnounced, NothingUncaught
  <1> QED
    BY <1>1, Inductive, PTL

(* With any options, a connection that 'clientClosed' was emitted for is    *)
(* never in the clients map again.                                          *)
THEOREM FinalGoodbye == Spec => []GoodbyeIsFinal
  <1>1. IInv => GoodbyeIsFinal
    BY DEF IInv, Lives, GoodbyeIsFinal
  <1> QED
    BY <1>1, Inductive, PTL

(* With a verifier that answers at once, unverified traffic reaches the     *)
(* application only from sockets that are destroyed already.                *)
THEOREM UnverifiedGate == Spec => []UnverifiedAreDropped
  <1>1. IInv => UnverifiedAreDropped
    BY DEF IInv, DecidedInv, UnverifiedAreDropped
  <1> QED
    BY <1>1, Inductive, PTL

(* With a verifier that answers at once, a good first handshake that is not *)
(* refused keeps the peer connected.                                        *)
THEOREM GoodIsKept == Spec => []KeptUnlessRefused
  <1>1. IInv => KeptUnlessRefused
    BY DEF IInv, DecidedInv, KeptUnlessRefused
  <1> QED
    BY <1>1, Inductive, PTL
=============================================================================
