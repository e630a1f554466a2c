--------------------------- MODULE TsClientProofs ---------------------------
(***************************************************************************)
(* Theorems about TsClient, for every set of options and of reactions of   *)
(* the listeners, every batch size and every limit of attempts.            *)
(***************************************************************************)
EXTENDS TsClient, SharedLemmas

(***************************************************************************)
(* The inductive invariant of the client object.  Base holds also in the   *)
(* middle of handleClose, while the listeners run; Full between methods.   *)
(***************************************************************************)
\* Tokens are given in order, and what is settled has been given.
Numbered(cl) ==
  /\ cl.sock <= cl.made /\ cl.att <= cl.made /\ cl.settled <= cl.made
  /\ \A t \in cl.micro : t <= cl.made
  /\ \A t \in Tokens : t > cl.made => cl.sk[t] = "none"
\* A socket is announced once, and never before it is settled.
Announced(cl) ==
  \A t \in Tokens : cl.goodbyes[t] <= 1 /\ (t > cl.settled => cl.goodbyes[t] = 0)
\* Only a listener of 'reconnecting' can leave a timer on a closed client.
Down(cl) == cl.byUser => cl.sock = None /\ cl.att = None /\ (cl.timer => cl.late)
Current(cl) == Alive(cl, cl.att) => cl.att = cl.sock
\* The end of the current socket has yet to be handled.
Tracked(cl) == cl.sock # None => cl.sk[cl.sock] # "closed" /\ cl.sock > cl.settled
Wanted(cl) == cl.made > 0 /\ ~cl.byUser /\ ~cl.gaveUp => cl.timer \/ cl.sock # None

Base(cl) == cl \in Client /\ Numbered(cl) /\ Announced(cl) /\ Down(cl) /\ Current(cl)
Full(cl) == Base(cl) /\ Tracked(cl) /\ Wanted(cl)

ClientInv == Full(c)

(***************************************************************************)
(* The inductive invariant of the send queue.                              *)
(***************************************************************************)
Sorted(q) == \A i, j \in DOMAIN q : i < j => q[i].prio <= q[j].prio
Precedes(x, y) == x.prio = y.prio /\ x.prio >= 0 => x.id < y.id
Ordered(s) == \A i, j \in DOMAIN s : i < j => Precedes(s[i], s[j])
Ahead(s, u) == \A i \in DOMAIN s, j \in DOMAIN u : Precedes(s[i], u[j])
\* Only what has been numbered is queued.
Known(s) == \A i \in DOMAIN s : /\ s[i].prio = 0 => s[i].id <= sends
                                /\ s[i].prio = 100 => s[i].id <= pings

QueueInv ==
  /\ Sorted(queue)
  /\ Ordered(out) /\ Ordered(batch) /\ Ordered(queue)
  /\ Ahead(out, batch) /\ Ahead(out, queue) /\ Ahead(batch, queue)
  /\ Known(out) /\ Known(batch) /\ Known(queue)
  /\ pc = "delay" => batch # <<>>

IInv == TypeOK /\ ClientInv /\ QueueInv
-----------------------------------------------------------------------------
(* The methods of the client. *)

LEMMA ClientFields ==
  ASSUME NEW cl \in Client
  PROVE  /\ cl.sock \in {None} \cup Tokens /\ cl.att \in {None} \cup Tokens
         /\ cl.made \in 0..MaxSockets /\ cl.settled \in 0..MaxSockets
         /\ cl.sk \in [Tokens -> {"none", "connecting", "open", "destroyed", "closed"}]
         /\ cl.byUser \in BOOLEAN /\ cl.timer \in BOOLEAN /\ cl.gaveUp \in BOOLEAN
         /\ cl.micro \in SUBSET Tokens /\ cl.late \in BOOLEAN
         /\ cl.attempts \in 0..MaxAttempts /\ cl.connectTimer \in {None} \cup Tokens
         /\ cl.armed \in SUBSET Tokens /\ cl.goodbyes \in [Tokens -> 0..2]
         /\ cl.conn \in [Tokens -> {"none", "pending", "ready", "failed"}]
         /\ cl.hello \in [Tokens -> {"none", "drain", "sent", "rejected"}]
  BY DEF Client

(* Base and Full depend on some of the fields only.                         *)
LEMMA SameLine ==
  ASSUME NEW cl, NEW new \in Client,
         new.sock = cl.sock, new.att = cl.att, new.made = cl.made, new.settled = cl.settled,
         new.sk = cl.sk, new.byUser = cl.byUser, new.timer = cl.timer, new.late = cl.late,
         new.micro = cl.micro,
         new.gaveUp = cl.gaveUp, new.goodbyes = cl.goodbyes
  PROVE  (Base(cl) => Base(new)) /\ (Full(cl) => Full(new))
  BY DEF Base, Full, Numbered, Announced, Down, Current, Alive, Tracked, Wanted

(* The announcement of a socket that is not settled.                        *)
LEMMA AnnounceBase ==
  ASSUME NEW cl, Base(cl), NEW t \in Tokens, t <= cl.made, t > cl.settled
  PROVE  Base(Announce(cl, t)) /\ Announce(cl, t).att = None /\ Announce(cl, t).made = cl.made
  <1>0. cl \in Client
    BY DEF Base
  <1> DEFINE g == [cl.goodbyes EXCEPT ![t] = IF @ < 2 THEN @ + 1 ELSE @]
             new == [cl EXCEPT !.settled = t, !.att = None, !.goodbyes = g]
  <1>1. Announce(cl, t) = new
    BY <1>0 DEF Announce, Client
  <1>2. /\ g \in [Tokens -> 0..2] /\ g[t] = 1
        /\ \A u \in Tokens : u # t => g[u] = cl.goodbyes[u]
    BY <1>0, ClientFields DEF Base, Announced
  <1>3. t \in 0..MaxSockets
    BY DEF Tokens
  <1> HIDE DEF g
  <1>4. /\ new \in Client
        /\ new.sock = cl.sock /\ new.att = None /\ new.made = cl.made
        /\ new.settled = t /\ new.sk = cl.sk /\ new.byUser = cl.byUser
        /\ new.timer = cl.timer /\ new.goodbyes = g
        /\ new.late = cl.late /\ new.micro = cl.micro
    BY <1>0, <1>2, <1>3, ZenonT(60) DEF Client
  <1> HIDE DEF new
  <1>5. Numbered(new) /\ Down(new) /\ Current(new)
    BY <1>0, <1>4, ClientFields, ClientAssumption
       DEF Base, Numbered, Down, Current, Alive, Tokens, None
  <1>6. Announced(new)
    <2> SUFFICES ASSUME NEW u \in Tokens
                 PROVE  g[u] <= 1 /\ (u > t => g[u] = 0)
      BY <1>4 DEF Announced
    <2> QED
      BY <1>0, <1>2, <1>3, ClientFields, ClientAssumption DEF Base, Announced, Tokens
  <1> QED
    BY <1>1, <1>4, <1>5, <1>6 DEF Base

(* A client without a current socket, and without a reconnect timer.        *)
LEMMA GoneBase ==
  ASSUME NEW cl, Base(cl), cl.att = None
  PROVE  /\ Base(Gone(cl)) /\ Gone(cl).sock = None /\ Gone(cl).att = None
         /\ Gone(cl).made = cl.made /\ Gone(cl).byUser = cl.byUser
  <1>0. cl \in Client
    BY DEF Base
  <1> DEFINE new == [cl EXCEPT !.beating = FALSE, !.sock = None]
  <1>1. /\ new \in Client /\ new.sock = None
        /\ new.att = cl.att /\ new.made = cl.made
        /\ new.settled = cl.settled /\ new.sk = cl.sk /\ new.byUser = cl.byUser
        /\ new.timer = cl.timer /\ new.goodbyes = cl.goodbyes
        /\ new.late = cl.late /\ new.micro = cl.micro
    BY <1>0, ZenonT(60) DEF Client
  <1>2. Gone(cl) = new
    BY DEF Gone
  <1> HIDE DEF new
  <1>3. Numbered(new)
    BY <1>0, <1>1, ClientFields, ClientAssumption DEF Base, Numbered, None
  <1>4. Announced(new) /\ Down(new) /\ Current(new)
    BY <1>1 DEF Base, Announced, Down, Current, Alive
  <1> QED
    BY <1>1, <1>2, <1>3, <1>4 DEF Base

LEMMA ClearedBase ==
  ASSUME NEW cl, Base(cl)
  PROVE  LET new == ClearReconnectTimer(cl)
         IN /\ Base(new) /\ new.timer = FALSE
            /\ new.sock = cl.sock /\ new.att = cl.att /\ new.made = cl.made
            /\ new.settled = cl.settled /\ new.sk = cl.sk /\ new.byUser = cl.byUser
            /\ new.gaveUp = cl.gaveUp /\ new.goodbyes = cl.goodbyes /\ new.micro = cl.micro
  <1> DEFINE new == [cl EXCEPT !.timer = FALSE, !.late = FALSE]
  <1>1. /\ new \in Client /\ new.timer = FALSE
        /\ new.sock = cl.sock /\ new.att = cl.att /\ new.made = cl.made
        /\ new.settled = cl.settled /\ new.sk = cl.sk /\ new.byUser = cl.byUser
        /\ new.gaveUp = cl.gaveUp /\ new.goodbyes = cl.goodbyes /\ new.micro = cl.micro
    BY ZenonT(60) DEF Client, Base
  <1>2. ClearReconnectTimer(cl) = new
    BY DEF ClearReconnectTimer
  <1> HIDE DEF new
  <1>3. Base(new)
    BY <1>1 DEF Base, Numbered, Announced, Down, Current, Alive
  <1> QED
    BY <1>1, <1>2, <1>3

(* connect() keeps the invariant, whole or not: a new socket is current and *)
(* unsettled, and an interface that is not found is given up on.            *)
LEMMA ConnectKeeps ==
  ASSUME NEW cl, Base(cl), NEW found, Up(cl) \/ ~found \/ cl.made < MaxSockets
  PROVE  /\ Base(Connect(cl, found))
         /\ Tracked(cl) /\ (Up(cl) => Wanted(cl)) => Full(Connect(cl, found))
         /\ Tracked(cl) => Tracked(Connect(cl, found))
         /\ ~cl.byUser => ~Connect(cl, found).byUser
         /\ Connect(cl, found).att = cl.att
  <1>0. cl \in Client
    BY DEF Base
  <1>1. CASE Up(cl)
    BY <1>0, <1>1, ClientFields, ClientAssumption DEF Connect, Full
  <1>2. CASE ~Up(cl) /\ ~found
    <2> DEFINE new == [cl EXCEPT !.timer = FALSE, !.late = FALSE, !.byUser = FALSE, !.gaveUp = TRUE]
    <2>1. Connect(cl, found) = new
      BY <1>0, <1>2, ZenonT(60) DEF Connect, Connecting, ClearReconnectTimer, Client
    <2>2. /\ new \in Client /\ new.gaveUp
          /\ new.sock = cl.sock /\ new.att = cl.att /\ new.made = cl.made
          /\ new.settled = cl.settled /\ new.sk = cl.sk /\ new.byUser = FALSE
          /\ new.goodbyes = cl.goodbyes /\ new.micro = cl.micro
      BY <1>0 DEF Client
    <2> HIDE DEF new
    <2>3. Base(new) /\ (Tracked(cl) => Full(new))
      BY <2>2 DEF Full, Tracked, Wanted, Base, Numbered, Announced, Down, Current, Alive
    <2> QED
      BY <1>0, <2>1, <2>2, <2>3, ClientFields, ClientAssumption DEF Full
  <1>3. CASE ~Up(cl) /\ found
    <2> DEFINE t == cl.made + 1
               sk == [cl.sk EXCEPT ![t] = "connecting"]
               conn == [cl.conn EXCEPT ![t] = "pending"]
               armed == IF opts.timeout THEN cl.armed \cup {t} ELSE cl.armed
               tm == IF opts.timeout THEN t ELSE cl.connectTimer
               new == [cl EXCEPT !.timer = FALSE, !.late = FALSE, !.byUser = FALSE, !.gaveUp = FALSE,
                                 !.made = t, !.sock = t, !.sk = sk, !.conn = conn, !.armed = armed,
                                 !.connectTimer = tm]
    <2>1. Connect(cl, found) = new
      BY <1>0, <1>3 DEF Connect, Connecting, ClearReconnectTimer, Client
    <2>2. t \in Tokens /\ t \in 0..MaxSockets /\ t = cl.made + 1
      BY <1>0, <1>3, ClientFields, ClientAssumption DEF Tokens
    <2>3. /\ sk \in [Tokens -> {"none", "connecting", "open", "destroyed", "closed"}]
          /\ sk[t] = "connecting" /\ \A u \in Tokens : u # t => sk[u] = cl.sk[u]
          /\ conn \in [Tokens -> {"none", "pending", "ready", "failed"}]
          /\ armed \in SUBSET Tokens /\ tm \in {None} \cup Tokens
      BY <1>0, <2>2, ClientFields
    <2> HIDE DEF t, sk, conn, armed, tm
    <2>4. /\ new \in Client
          /\ new.sock = t /\ new.att = cl.att /\ new.made = t
          /\ new.settled = cl.settled /\ new.sk = sk /\ new.byUser = FALSE
          /\ new.goodbyes = cl.goodbyes /\ new.micro = cl.micro
      BY <1>0, <2>2, <2>3, ZenonT(60) DEF Client
    <2> HIDE DEF new
    <2>5. /\ cl.att <= cl.made /\ cl.settled <= cl.made /\ Announced(cl)
          /\ cl.made \in Nat /\ cl.settled \in Nat /\ cl.att \in Nat
          /\ cl.micro \subseteq Nat /\ \A u \in cl.micro : u <= cl.made
          /\ \A u \in Tokens : u > cl.made => cl.sk[u] = "none"
      BY <1>0, ClientFields, ClientAssumption DEF Base, Numbered, Tokens, None
    <2>6. Numbered(new)
      BY <2>2, <2>3, <2>4, <2>5 DEF Numbered, Tokens
    <2>7. Announced(new) /\ Down(new)
      BY <2>4, <2>5 DEF Announced, Down
    <2>8. Current(new)
      <3>1. ~Alive(cl, cl.att)
        BY <1>3 DEF Base, Current, Up
      <3>2. cl.att # None => cl.att \in Tokens /\ cl.att # t
        BY <1>0, <2>2, <2>5, ClientFields
      <3> QED
        BY <2>3, <2>4, <3>1, <3>2 DEF Current, Alive
    <2>9. Tracked(new) /\ Wanted(new)
      BY <2>2, <2>3, <2>4, <2>5 DEF Tracked, Wanted, None
    <2> QED
      BY <2>1, <2>2, <2>4, <2>5, <2>6, <2>7, <2>8, <2>9 DEF Base, Full
  <1> QED
    BY <1>1, <1>2, <1>3

(* disconnect(), up to the look for a socket.                               *)
LEMMA LeftFields ==
  ASSUME NEW cl, Base(cl)
  PROVE  LET left == Left(cl)
         IN /\ left \in Client /\ left.byUser = TRUE /\ left.timer = FALSE
            /\ left.sock = cl.sock /\ left.att = None /\ left.made = cl.made
            /\ left.settled = cl.settled /\ left.sk = cl.sk /\ left.goodbyes = cl.goodbyes
            /\ left.micro = cl.micro
            /\ Numbered(left) /\ Announced(left) /\ Current(left)
            /\ cl.sock = None => Full(left)
  <1>0. cl \in Client
    BY DEF Base
  <1> DEFINE left == [cl EXCEPT !.timer = FALSE, !.late = FALSE, !.byUser = TRUE,
                                !.beating = FALSE, !.att = None]
  <1>1. /\ left \in Client /\ left.byUser = TRUE /\ left.timer = FALSE
        /\ left.sock = cl.sock /\ left.att = None /\ left.made = cl.made
        /\ left.settled = cl.settled /\ left.sk = cl.sk /\ left.goodbyes = cl.goodbyes
        /\ left.micro = cl.micro
    BY <1>0, ZenonT(60) DEF Client
  <1>2. Left(cl) = left
    BY <1>0, ZenonT(60) DEF Left, ClearReconnectTimer, Client
  <1> HIDE DEF left
  <1>3. Numbered(left)
    BY <1>0, <1>1, ClientFields, ClientAssumption DEF Base, Numbered, None
  <1>4. Announced(left) /\ Current(left)
    BY <1>1 DEF Base, Announced, Current, Alive
  <1>5. cl.sock = None => Full(left)
    BY <1>1, <1>3, <1>4 DEF Full, Base, Down, Tracked, Wanted
  <1> QED
    BY <1>1, <1>2, <1>3, <1>4, <1>5

(* disconnect() makes it whole.                                             *)
LEMMA DisconnectFull ==
  ASSUME NEW cl, Base(cl)
  PROVE  /\ Full(Disconnect(cl)) /\ Disconnect(cl).att = None
         /\ Disconnect(cl).made = cl.made
  <1>0. cl \in Client
    BY DEF Base
  <1> DEFINE left == Left(cl)
  <1>1. /\ left \in Client /\ left.byUser = TRUE /\ left.timer = FALSE
        /\ left.sock = cl.sock /\ left.att = None /\ left.made = cl.made
        /\ left.settled = cl.settled /\ left.sk = cl.sk /\ left.goodbyes = cl.goodbyes
        /\ left.micro = cl.micro
        /\ Numbered(left) /\ Announced(left) /\ Current(left)
        /\ cl.sock = None => Full(left)
    BY LeftFields
  <1>2. Disconnect(cl) =
          IF cl.sock # None
          THEN [left EXCEPT !.sock = None, !.sk[cl.sock] = IF Up(cl) THEN "destroyed" ELSE @,
                            !.micro = @ \cup {cl.made}]
          ELSE IF Unannounced(cl) THEN Gone(Announce(left, cl.made)) ELSE left
    BY DEF Disconnect
  <1> HIDE DEF left
  <1>3. CASE cl.sock # None
    <2> DEFINE sk == [cl.sk EXCEPT ![cl.sock] = IF Up(cl) THEN "destroyed" ELSE @]
               micro == cl.micro \cup {cl.made}
               new == [left EXCEPT !.sock = None, !.sk = sk, !.micro = micro]
    <2>1. Disconnect(cl) = new
      BY <1>1, <1>2, <1>3 DEF Client
    <2>2. cl.sock \in Tokens /\ cl.sock <= cl.made
      BY <1>0, <1>3, ClientFields DEF Base, Numbered
    <2>3. /\ sk \in [Tokens -> {"none", "connecting", "open", "destroyed", "closed"}]
          /\ \A u \in Tokens : u # cl.sock => sk[u] = cl.sk[u]
      BY <1>0, <2>2, ClientFields
    <2>4. micro \in SUBSET Tokens /\ \A u \in micro : u <= cl.made
      BY <1>0, <2>2, ClientFields, ClientAssumption DEF Base, Numbered, Tokens
    <2> HIDE DEF sk, micro
    <2>5. /\ new \in Client /\ new.byUser = TRUE /\ new.timer = FALSE
          /\ new.sock = None /\ new.att = None /\ new.made = cl.made
          /\ new.settled = cl.settled /\ new.sk = sk /\ new.goodbyes = cl.goodbyes
          /\ new.micro = micro
      BY <1>1, <2>3, <2>4, ZenonT(60) DEF Client
    <2> HIDE DEF new
    <2>6. Numbered(new)
      <3>1. cl.made \in Nat /\ cl.settled <= cl.made
            /\ \A u \in Tokens : u > cl.made => cl.sk[u] = "none"
        BY <1>0, <1>1, ClientFields, ClientAssumption DEF Numbered
      <3>2. \A u \in Tokens : u > cl.made => u # cl.sock
        BY <2>2, <3>1 DEF Tokens
      <3> QED
        BY <2>3, <2>4, <2>5, <3>1, <3>2 DEF Numbered, None
    <2> QED
      BY <1>1, <2>1, <2>5, <2>6
         DEF Full, Base, Announced, Down, Current, Alive, Tracked, Wanted
  <1>4. CASE cl.sock = None /\ Unannounced(cl)
    <2>1. cl.made \in Tokens /\ cl.made <= left.made /\ cl.made > left.settled
      BY <1>0, <1>1, <1>4, ClientFields, ClientAssumption DEF Tokens, Unannounced
    <2> DEFINE told == Announce(left, cl.made)
    <2>2. Base(told) /\ told.att = None /\ told.made = cl.made
      BY <1>1, <1>4, <2>1, AnnounceBase DEF Full
    <2>3. told.byUser = TRUE
      BY <1>1 DEF Announce, Client
    <2> HIDE DEF told
    <2>4. /\ Base(Gone(told)) /\ Gone(told).sock = None /\ Gone(told).att = None
          /\ Gone(told).made = cl.made /\ Gone(told).byUser = TRUE
      BY <2>2, <2>3, GoneBase
    <2>5. Disconnect(cl) = Gone(told)
      BY <1>2, <1>4 DEF told
    <2> QED
      BY <2>4, <2>5 DEF Full, Tracked, Wanted
  <1>5. CASE cl.sock = None /\ ~Unannounced(cl)
    BY <1>1, <1>2, <1>5
  <1> QED
    BY <1>3, <1>4, <1>5

(* A listener that calls the client back.                                   *)
LEMMA ReactKeeps ==
  ASSUME NEW cl, Base(cl), NEW r, r = "connect" => cl.made < MaxSockets
  PROVE  /\ Base(React(cl, r)) /\ (Full(cl) => Full(React(cl, r)))
         /\ Tracked(cl) => Tracked(React(cl, r))
         /\ React(cl, r).att \in {cl.att, None}
         /\ r # "connect" => React(cl, r).made = cl.made
         /\ ~cl.byUser /\ r # "disconnect" => ~React(cl, r).byUser
  <1>1. CASE r = "connect"
    BY <1>1, ConnectKeeps DEF React, Full
  <1>2. CASE r = "disconnect"
    BY <1>2, DisconnectFull DEF React, Full
  <1>3. CASE r # "connect" /\ r # "disconnect"
    BY <1>3 DEF React
  <1> QED
    BY <1>1, <1>2, <1>3

(* Nothing more is to be scheduled.                                         *)
Decided(cl) == cl.byUser \/ cl.timer \/ cl.attempts >= MaxAttempts

(* scheduleReconnect: a timer, unless the client was closed or gives up.    *)
LEMMA ScheduleReconnectFull ==
  ASSUME NEW cl, Base(cl), Tracked(cl), cl.byUser \/ cl.timer => Wanted(cl),
         NEW q, q = "connect" => Decided(cl) \/ cl.made < MaxSockets
  PROVE  Full(ScheduleReconnect(cl, q)) /\ Decided(ScheduleReconnect(cl, q))
  <1>0. cl \in Client
    BY DEF Base
  <1>1. CASE cl.byUser \/ cl.timer
    BY <1>1 DEF ScheduleReconnect, Full, Decided
  <1>2. CASE ~cl.byUser /\ ~cl.timer /\ cl.attempts >= MaxAttempts
    <2> DEFINE new == [cl EXCEPT !.gaveUp = TRUE]
    <2>1. ScheduleReconnect(cl, q) = new
      BY <1>2 DEF ScheduleReconnect
    <2>2. /\ new \in Client /\ new.gaveUp /\ new.attempts = cl.attempts
          /\ new.sock = cl.sock /\ new.att = cl.att /\ new.made = cl.made
          /\ new.settled = cl.settled /\ new.sk = cl.sk /\ new.byUser = cl.byUser
          /\ new.timer = cl.timer /\ new.goodbyes = cl.goodbyes
          /\ new.late = cl.late /\ new.micro = cl.micro
      BY <1>0, ZenonT(60) DEF Client
    <2> HIDE DEF new
    <2> QED
      BY <1>2, <2>1, <2>2
         DEF Full, Base, Numbered, Announced, Down, Current, Alive, Tracked, Wanted, Decided
  <1>3. CASE ~cl.byUser /\ ~cl.timer /\ ~(cl.attempts >= MaxAttempts)
    <2> DEFINE n == cl.attempts + 1
               tried == [cl EXCEPT !.attempts = n]
               told == React(tried, q)
               late == q = "disconnect"
               new == [told EXCEPT !.timer = TRUE, !.late = late]
    <2>1. ScheduleReconnect(cl, q) = new
      BY <1>3 DEF ScheduleReconnect
    <2>2. n \in 0..MaxAttempts
      BY <1>0, <1>3, ClientFields, ClientAssumption
    <2> HIDE DEF n
    <2>3. /\ tried \in Client
          /\ tried.sock = cl.sock /\ tried.att = cl.att /\ tried.made = cl.made
          /\ tried.settled = cl.settled /\ tried.sk = cl.sk /\ tried.byUser = cl.byUser
          /\ tried.timer = cl.timer /\ tried.gaveUp = cl.gaveUp /\ tried.goodbyes = cl.goodbyes
          /\ tried.late = cl.late /\ tried.micro = cl.micro
      BY <1>0, <2>2, ZenonT(60) DEF Client
    <2> HIDE DEF tried
    <2>4. Base(tried) /\ Tracked(tried) /\ ~tried.byUser
      BY <1>3, <2>3, SameLine DEF Tracked
    <2>5. q = "connect" => tried.made < MaxSockets
      BY <1>3, <2>3 DEF Decided
    <2>6. Base(told) /\ Tracked(told) /\ (told.byUser => late)
      BY <2>4, <2>5, ReactKeeps
    <2> HIDE DEF told
    <2>7. late \in BOOLEAN
      OBVIOUS
    <2> HIDE DEF late
    <2>8. /\ new \in Client /\ new.timer /\ new.late = late
          /\ new.sock = told.sock /\ new.att = told.att /\ new.made = told.made
          /\ new.settled = told.settled /\ new.sk = told.sk /\ new.byUser = told.byUser
          /\ new.goodbyes = told.goodbyes /\ new.micro = told.micro
      BY <2>6, <2>7, ZenonT(60) DEF Client, Base
    <2> HIDE DEF new
    <2> QED
      BY <2>1, <2>6, <2>8
         DEF Full, Base, Numbered, Announced, Down, Current, Alive, Tracked, Wanted, Decided
  <1> QED
    BY <1>1, <1>2, <1>3

(* The rest of handleClose makes the invariant whole again.                 *)
LEMMA AfterCloseFull ==
  ASSUME NEW cl, Base(cl), cl.att = None, NEW q, q = "connect" => cl.made < MaxSockets
  PROVE  Full(AfterClose(cl, q)) /\ Decided(AfterClose(cl, q))
  <1>1. /\ Base(Gone(cl)) /\ Gone(cl).sock = None
        /\ Gone(cl).made = cl.made /\ Gone(cl).byUser = cl.byUser
    BY GoneBase
  <1>2. CASE cl.byUser
    <2>1. AfterClose(cl, q) = ClearReconnectTimer(Gone(cl))
      BY <1>2 DEF AfterClose
    <2> QED
      BY <1>1, <1>2, <2>1, ClearedBase DEF Full, Tracked, Wanted, Decided
  <1>3. CASE ~cl.byUser
    <2>1. AfterClose(cl, q) = ScheduleReconnect(Gone(cl), q)
      BY <1>3 DEF AfterClose
    <2>2. Tracked(Gone(cl)) /\ (Gone(cl).byUser \/ Gone(cl).timer => Wanted(Gone(cl)))
      BY <1>1 DEF Tracked, Wanted
    <2> QED
      BY <1>1, <2>1, <2>2, ScheduleReconnectFull
  <1> QED
    BY <1>2, <1>3

(* handleClose, for a socket whose state may just have become "closed".     *)
LEMMA HandleCloseFull ==
  ASSUME NEW cl, Base(cl), NEW t \in Tokens, t <= cl.made, t <= cl.settled => Full(cl),
         NEW r, NEW q, r = "none" \/ q = "none",
         r = "connect" \/ q = "connect" => cl.made < MaxSockets
  PROVE  /\ Full(HandleClose(cl, t, r, q))
         /\ HandleClose(cl, t, r, q) = cl \/ Decided(HandleClose(cl, t, r, q))
  <1>0. cl.made \in 0..MaxSockets /\ cl.settled \in 0..MaxSockets /\ t \in Nat
    BY ClientFields, ClientAssumption DEF Base, Tokens
  <1>1. CASE t <= cl.settled
    BY <1>1 DEF HandleClose
  <1>2. CASE ~(t <= cl.settled)
    <2>1. /\ Base(Announce(cl, t)) /\ Announce(cl, t).att = None
          /\ Announce(cl, t).made = cl.made
      BY <1>0, <1>2, AnnounceBase
    <2> DEFINE told == React(Announce(cl, t), r)
    <2>2. Base(told) /\ told.att = None /\ (r # "connect" => told.made = cl.made)
      BY <2>1, ReactKeeps
    <2>3. HandleClose(cl, t, r, q) = AfterClose(told, q)
      BY <1>2 DEF HandleClose
    <2> HIDE DEF told
    <2>4. q = "connect" => told.made < MaxSockets
      BY <2>2
    <2> QED
      BY <2>2, <2>3, <2>4, AfterCloseFull
  <1> QED
    BY <1>1, <1>2

(* finalizeReady and the rejection of the handshake do not concern the life  *)
(* of the sockets, but for what the listeners of 'connect' and 'ready' call; *)
(* nor does what the handshake awaits.                                       *)
LEMMA ReadyKeeps ==
  ASSUME NEW cl, Full(cl), NEW t \in Tokens, opts \in Options,
         NEW r, r = "connect" => cl.made < MaxSockets
  PROVE  Full(Ready(cl, t, r))
  <1>0. cl \in Client
    BY DEF Full, Base
  <1>1. CASE cl.conn[t] # "pending"
    BY <1>1 DEF Ready
  <1>2. CASE cl.conn[t] = "pending"
    <2> DEFINE armed == cl.armed \ {cl.connectTimer}
               conn == [cl.conn EXCEPT ![t] = "ready"]
               new == [cl EXCEPT !.armed = armed, !.connectTimer = None, !.conn = conn,
                                 !.attempts = 0]
               told == React(new, r)
               beating == told.beating \/ opts.beat
               last == [told EXCEPT !.beating = beating]
    <2>1. Ready(cl, t, r) = last
      BY <1>0, <1>2 DEF Ready, ClearConnectTimer, Client
    <2>2. /\ armed \in SUBSET Tokens
          /\ conn \in [Tokens -> {"none", "pending", "ready", "failed"}]
          /\ 0 \in 0..MaxAttempts
      BY <1>0, ClientFields, ClientAssumption
    <2>3. beating \in BOOLEAN
      OBVIOUS
    <2> HIDE DEF armed, conn, beating
    <2>4. /\ new \in Client
          /\ new.sock = cl.sock /\ new.att = cl.att /\ new.made = cl.made
          /\ new.settled = cl.settled /\ new.sk = cl.sk /\ new.byUser = cl.byUser
          /\ new.timer = cl.timer /\ new.gaveUp = cl.gaveUp /\ new.goodbyes = cl.goodbyes
          /\ new.late = cl.late /\ new.micro = cl.micro
      BY <1>0, <2>2 DEF Client
    <2> HIDE DEF new
    <2>5. Full(new)
      BY <2>4, SameLine
    <2>6. Full(told)
      BY <2>4, <2>5, ReactKeeps DEF Full
    <2> HIDE DEF told
    <2>7. /\ last \in Client
          /\ last.sock = told.sock /\ last.att = told.att /\ last.made = told.made
          /\ last.settled = told.settled /\ last.sk = told.sk /\ last.byUser = told.byUser
          /\ last.timer = told.timer /\ last.gaveUp = told.gaveUp
          /\ last.goodbyes = told.goodbyes /\ last.late = told.late /\ last.micro = told.micro
      BY <2>3, <2>6, ZenonT(60) DEF Client, Full, Base
    <2> HIDE DEF last
    <2> QED
      BY <2>1, <2>6, <2>7, SameLine
  <1> QED
    BY <1>1, <1>2

LEMMA FailedKeeps ==
  ASSUME NEW cl, Full(cl), NEW t \in Tokens
  PROVE  /\ Full(Failed(cl, t)) /\ Failed(cl, t).made = cl.made
         /\ Failed(cl, t).byUser = cl.byUser /\ Failed(cl, t).timer = cl.timer
         /\ Failed(cl, t).attempts = cl.attempts
  <1>0. cl \in Client
    BY DEF Full, Base
  <1>1. CASE cl.conn[t] # "pending"
    BY <1>1 DEF Failed
  <1>2. CASE cl.conn[t] = "pending"
    <2> DEFINE armed == cl.armed \ {cl.connectTimer}
               conn == [cl.conn EXCEPT ![t] = "failed"]
               new == [cl EXCEPT !.armed = armed, !.connectTimer = None, !.conn = conn]
    <2>1. Failed(cl, t) = new
      BY <1>0, <1>2 DEF Failed, ClearConnectTimer, Client
    <2>2. /\ armed \in SUBSET Tokens
          /\ conn \in [Tokens -> {"none", "pending", "ready", "failed"}]
      BY <1>0, ClientFields
    <2> HIDE DEF armed, conn
    <2>3. /\ new \in Client
          /\ new.sock = cl.sock /\ new.att = cl.att /\ new.made = cl.made
          /\ new.settled = cl.settled /\ new.sk = cl.sk /\ new.byUser = cl.byUser
          /\ new.timer = cl.timer /\ new.gaveUp = cl.gaveUp /\ new.goodbyes = cl.goodbyes
          /\ new.late = cl.late /\ new.micro = cl.micro /\ new.attempts = cl.attempts
      BY <1>0, <2>2 DEF Client
    <2> HIDE DEF new
    <2> QED
      BY <2>1, <2>3, SameLine
  <1> QED
    BY <1>1, <1>2

LEMMA HelloKeeps ==
  ASSUME NEW cl, Full(cl), NEW h \in [Tokens -> {"none", "drain", "sent", "rejected"}]
  PROVE  Full([cl EXCEPT !.hello = h]) /\ [cl EXCEPT !.hello = h].made = cl.made
  <1> DEFINE new == [cl EXCEPT !.hello = h]
  <1>1. /\ new \in Client
        /\ new.sock = cl.sock /\ new.att = cl.att /\ new.made = cl.made
        /\ new.settled = cl.settled /\ new.sk = cl.sk /\ new.byUser = cl.byUser
        /\ new.timer = cl.timer /\ new.gaveUp = cl.gaveUp /\ new.goodbyes = cl.goodbyes
        /\ new.late = cl.late /\ new.micro = cl.micro
    BY DEF Client, Full, Base
  <1> HIDE DEF new
  <1>2. Full(new) /\ new.made = cl.made
    BY <1>1, SameLine
  <1> QED
    BY <1>2 DEF new

LEMMA RejectedKeeps ==
  ASSUME NEW cl, Full(cl)
  PROVE  Full(Rejected(cl)) /\ Rejected(cl).made = cl.made
  <1> DEFINE h == [t \in Tokens |-> IF cl.hello[t] = "drain" THEN "rejected" ELSE cl.hello[t]]
  <1>1. h \in [Tokens -> {"none", "drain", "sent", "rejected"}]
    BY ClientFields DEF Full, Base
  <1>2. Rejected(cl) = [cl EXCEPT !.hello = h]
    BY DEF Rejected
  <1> HIDE DEF h
  <1> QED
    BY <1>1, <1>2, HelloKeeps

LEMMA FinishKeeps ==
  ASSUME Full(c), Finish
  PROVE  Full(c') /\ c'.made = c.made
  <1> DEFINE h == [t \in Tokens |-> IF c.hello[t] = "drain" THEN "sent" ELSE c.hello[t]]
  <1>1. h \in [Tokens -> {"none", "drain", "sent", "rejected"}]
    BY ClientFields DEF Full, Base
  <1>2. c' = [c EXCEPT !.hello = h]
    BY DEF Finish
  <1> HIDE DEF h
  <1> QED
    BY <1>1, <1>2, HelloKeeps

(* A socket that is destroyed, or opens, stays one of the client's.         *)
LEMMA SocketKeeps ==
  ASSUME NEW cl, Full(cl), NEW t \in Tokens, NEW st, cl.sk[t] # "none",
         \/ st = "destroyed"
         \/ st = "open" /\ cl.sk[t] = "connecting"
         \/ st = "closed" /\ ~Alive(cl, t)
  PROVE  /\ Base([cl EXCEPT !.sk[t] = st]) /\ t <= cl.made
         /\ [cl EXCEPT !.sk[t] = st].made = cl.made
         /\ [cl EXCEPT !.sk[t] = st].settled = cl.settled
         /\ [cl EXCEPT !.sk[t] = st].sock = cl.sock
         /\ st # "closed" \/ t # cl.sock => Full([cl EXCEPT !.sk[t] = st])
  <1>0. cl \in Client
    BY DEF Full, Base
  <1> DEFINE sk == [cl.sk EXCEPT ![t] = st]
             new == [cl EXCEPT !.sk = sk]
  <1>1. [cl EXCEPT !.sk[t] = st] = new
    BY <1>0 DEF Client
  <1>2. /\ sk \in [Tokens -> {"none", "connecting", "open", "destroyed", "closed"}]
        /\ sk[t] = st /\ \A u \in Tokens : u # t => sk[u] = cl.sk[u]
    BY <1>0, ClientFields
  <1> HIDE DEF sk
  <1>3. /\ new \in Client
        /\ new.sock = cl.sock /\ new.att = cl.att /\ new.made = cl.made
        /\ new.settled = cl.settled /\ new.sk = sk /\ new.byUser = cl.byUser
        /\ new.timer = cl.timer /\ new.gaveUp = cl.gaveUp /\ new.goodbyes = cl.goodbyes
        /\ new.late = cl.late /\ new.micro = cl.micro
    BY <1>0, <1>2 DEF Client
  <1> HIDE DEF new
  <1>4. t <= cl.made
    BY <1>0, ClientFields, ClientAssumption DEF Full, Base, Numbered, Tokens
  <1>5. Numbered(new)
    BY <1>0, <1>2, <1>3, <1>4, ClientFields, ClientAssumption DEF Full, Base, Numbered, Tokens
  <1>6. Current(new)
    <2>1. Alive(new, new.att) => Alive(cl, cl.att)
      BY <1>0, <1>2, <1>3, ClientFields DEF Alive
    <2> QED
      BY <1>3, <2>1 DEF Full, Base, Current
  <1>7. Base(new)
    BY <1>3, <1>5, <1>6 DEF Full, Base, Announced, Down
  <1>8. ASSUME st # "closed" \/ t # cl.sock
        PROVE  Tracked(new) /\ Wanted(new)
    BY <1>0, <1>2, <1>3, <1>8, ClientFields DEF Full, Tracked, Wanted
  <1> QED
    BY <1>1, <1>3, <1>4, <1>7, <1>8 DEF Full
-----------------------------------------------------------------------------
(* The life of the sockets: ClientInv, one lemma per action. *)

LEMMA UserConnectClient ==
  ASSUME ClientInv, NEW found \in BOOLEAN, UserConnect(found)
  PROVE  ClientInv'
  <1>1. c' = Connect(c, found) /\ (Up(c) \/ ~found \/ c.made < MaxSockets)
    BY DEF UserConnect, CanConnect
  <1> QED
    BY <1>1, ConnectKeeps DEF ClientInv, Full

LEMMA UserDisconnectClient ==
  ASSUME ClientInv, NEW r \in Reactions, NEW q \in Reactions, UserDisconnect(r, q)
  PROVE  ClientInv'
  <1>0. Base(c) /\ c \in Client
    BY DEF ClientInv, Full, Base
  <1>1. /\ OneOf(r, q)
        /\ c' = IF Unannounced(c) THEN HandleClose(Left(c), c.made, r, q) ELSE Disconnect(c)
    BY DEF UserDisconnect
  <1>2. CASE Unannounced(c)
    <2>1. Full(Left(c)) /\ Left(c).made = c.made
      BY <1>0, <1>2, LeftFields DEF Unannounced
    <2>2. c.made \in Tokens /\ c.made <= c.made
      BY <1>0, <1>2, ClientFields, ClientAssumption DEF Unannounced, Tokens
    <2>3. r = "none" \/ q = "none"
      BY <1>1 DEF OneOf
    <2>4. r = "connect" \/ q = "connect" => c.made < MaxSockets
      BY <1>1 DEF OneOf, CanReact
    <2> QED
      BY <1>1, <1>2, <2>1, <2>2, <2>3, <2>4, HandleCloseFull DEF ClientInv, Full
  <1>3. CASE ~Unannounced(c)
    BY <1>0, <1>1, <1>3, DisconnectFull DEF ClientInv
  <1> QED
    BY <1>2, <1>3

LEMMA ReconnectFiresClient ==
  ASSUME ClientInv, NEW found \in BOOLEAN, ReconnectFires(found)
  PROVE  ClientInv'
  <1> DEFINE fired == ClearReconnectTimer(c)
  <1>1. /\ c' = Connect(fired, found)
        /\ Up(c) \/ ~found \/ c.made < MaxSockets
    BY DEF ReconnectFires, CanConnect
  <1>2. /\ Base(fired)
        /\ fired.sock = c.sock /\ fired.made = c.made
        /\ fired.settled = c.settled /\ fired.sk = c.sk
    BY ClearedBase DEF ClientInv, Full
  <1> HIDE DEF fired
  <1>3. /\ Tracked(fired)
        /\ Up(fired) <=> Up(c)
        /\ Up(fired) => Wanted(fired)
    BY <1>2 DEF ClientInv, Full, Alive, Up, Tracked, Wanted
  <1> QED
    BY <1>1, <1>2, <1>3, ConnectKeeps DEF ClientInv

LEMMA ConnectTimeoutClient ==
  ASSUME ClientInv, NEW t \in Tokens, ConnectTimeout(t)
  PROVE  ClientInv'
  <1> DEFINE armed == c.armed \ {t}
             conn == [c.conn EXCEPT ![t] = IF @ = "pending" THEN "failed" ELSE @]
             dead == [c EXCEPT !.sk[t] = "destroyed"]
             was == IF c.conn[t] = "pending" /\ Alive(c, t) THEN dead ELSE c
             new == [was EXCEPT !.armed = armed, !.conn = conn]
  <1>0. c \in Client /\ Full(c)
    BY DEF ClientInv, Full, Base
  <1>1. c' = new
    BY <1>0, ZenonT(60) DEF ConnectTimeout, Client
  <1>2. /\ armed \in SUBSET Tokens
        /\ conn \in [Tokens -> {"none", "pending", "ready", "failed"}]
    BY <1>0, ClientFields
  <1>3. Full(was)
    <2>1. CASE c.conn[t] = "pending" /\ Alive(c, t)
      BY <1>0, <2>1, SocketKeeps DEF Alive
    <2>2. CASE ~(c.conn[t] = "pending" /\ Alive(c, t))
      BY <1>0, <2>2
    <2> QED
      BY <2>1, <2>2
  <1> HIDE DEF armed, conn, was
  <1>4. /\ new \in Client
        /\ new.sock = was.sock /\ new.att = was.att /\ new.made = was.made
        /\ new.settled = was.settled /\ new.sk = was.sk /\ new.byUser = was.byUser
        /\ new.timer = was.timer /\ new.gaveUp = was.gaveUp /\ new.goodbyes = was.goodbyes
        /\ new.late = was.late /\ new.micro = was.micro
    BY <1>2, <1>3, ZenonT(60) DEF Client, Full, Base
  <1> HIDE DEF new
  <1> QED
    BY <1>1, <1>3, <1>4, SameLine DEF ClientInv

LEMMA MicrotaskClient ==
  ASSUME ClientInv, NEW t \in Tokens, NEW r \in Reactions, NEW q \in Reactions,
         Microtask(t, r, q)
  PROVE  ClientInv'
  <1> DEFINE micro == c.micro \ {t}
             new == [c EXCEPT !.micro = micro]
  <1>0. c \in Client /\ Full(c)
    BY DEF ClientInv, Full, Base
  <1>1. t \in c.micro /\ OneOf(r, q) /\ c' = HandleClose(new, t, r, q)
    BY DEF Microtask
  <1>2. micro \in SUBSET Tokens /\ \A u \in micro : u \in c.micro
    BY <1>0, ClientFields
  <1> HIDE DEF micro
  <1>3. /\ new \in Client
        /\ new.sock = c.sock /\ new.att = c.att /\ new.made = c.made
        /\ new.settled = c.settled /\ new.sk = c.sk /\ new.byUser = c.byUser
        /\ new.timer = c.timer /\ new.gaveUp = c.gaveUp /\ new.goodbyes = c.goodbyes
        /\ new.late = c.late /\ new.micro = micro
    BY <1>0, <1>2, ZenonT(60) DEF Client
  <1> HIDE DEF new
  <1>4. Full(new) /\ t <= new.made
    BY <1>0, <1>1, <1>2, <1>3
       DEF Full, Base, Numbered, Announced, Down, Current, Alive, Tracked, Wanted
  <1>5. r = "none" \/ q = "none"
    BY <1>1 DEF OneOf
  <1>6. r = "connect" \/ q = "connect" => new.made < MaxSockets
    BY <1>1, <1>3 DEF OneOf, CanReact
  <1> QED
    BY <1>1, <1>4, <1>5, <1>6, HandleCloseFull DEF ClientInv, Full

LEMMA CloseEventClient ==
  ASSUME ClientInv, NEW t \in Tokens, NEW r \in Reactions, NEW q \in Reactions,
         CloseEvent(t, r, q)
  PROVE  ClientInv'
  <1> DEFINE gone == [c EXCEPT !.sk[t] = "closed"]
  <1>1. OneOf(r, q) /\ c' = HandleClose(gone, t, r, q) /\ c.sk[t] = "destroyed"
    BY DEF CloseEvent
  <1>2. /\ Base(gone) /\ t <= c.made /\ gone.made = c.made /\ gone.settled = c.settled
        /\ t # c.sock => Full(gone)
    BY <1>1, SocketKeeps DEF ClientInv, Alive
  <1>3. t <= c.settled => t # c.sock
    BY ClientFields, ClientAssumption DEF ClientInv, Full, Base, Tracked, Tokens, None
  <1> HIDE DEF gone
  <1>4. r = "none" \/ q = "none"
    BY <1>1 DEF OneOf
  <1>5. r = "connect" \/ q = "connect" => gone.made < MaxSockets
    BY <1>1, <1>2 DEF OneOf, CanReact
  <1> QED
    BY <1>1, <1>2, <1>3, <1>4, <1>5, HandleCloseFull DEF ClientInv

LEMMA HandshakeSettlesClient ==
  ASSUME ClientInv, opts \in Options, NEW t \in Tokens, NEW r \in Reactions,
         HandshakeSettles(t, r)
  PROVE  ClientInv'
  <1> DEFINE h == [c.hello EXCEPT ![t] = "none"]
             known == [c EXCEPT !.hello = h]
  <1>0. c \in Client /\ Full(c)
    BY DEF ClientInv, Full, Base
  <1>1. CanReact(r) /\ c' \in {Ready(known, t, r), Failed(known, t)}
    BY <1>0 DEF HandshakeSettles, Client
  <1>2. h \in [Tokens -> {"none", "drain", "sent", "rejected"}]
    BY <1>0, ClientFields
  <1> HIDE DEF h
  <1>3. Full(known) /\ known.made = c.made
    BY <1>0, <1>2, HelloKeeps
  <1> HIDE DEF known
  <1>4. r = "connect" => known.made < MaxSockets
    BY <1>1, <1>3 DEF CanReact
  <1> QED
    BY <1>1, <1>3, <1>4, ReadyKeeps, FailedKeeps DEF ClientInv

LEMMA SocketConnectsClient ==
  ASSUME ClientInv, opts \in Options, NEW t \in Tokens, NEW r \in Reactions,
         SocketConnects(t, r)
  PROVE  ClientInv'
  <1> DEFINE open == [c EXCEPT !.sk[t] = "open"]
             on == IF c.sock # None /\ opts.framed THEN [open EXCEPT !.att = c.sock] ELSE open
  <1>0. c \in Client /\ Full(c)
    BY DEF ClientInv, Full, Base
  <1>1. /\ c.sk[t] = "connecting" /\ CanReact(r)
        /\ c' = Ready(on, t, r) \/ \E x \in {"sent", "drain"} : c' = [on EXCEPT !.hello[t] = x]
    BY DEF SocketConnects
  <1>2. Full(open) /\ open.made = c.made /\ open.sock = c.sock
    BY <1>0, <1>1, SocketKeeps
  <1> HIDE DEF open
  <1>3. Full(on) /\ on.made = c.made
    <2>1. CASE c.sock # None /\ opts.framed
      <3> DEFINE new == [open EXCEPT !.att = c.sock]
      <3>1. c.sock \in {None} \cup Tokens
        BY <1>0, ClientFields
      <3>2. /\ new \in Client
            /\ new.sock = c.sock /\ new.att = c.sock /\ new.made = open.made
            /\ new.settled = open.settled /\ new.sk = open.sk /\ new.byUser = open.byUser
            /\ new.timer = open.timer /\ new.gaveUp = open.gaveUp
            /\ new.goodbyes = open.goodbyes /\ new.late = open.late /\ new.micro = open.micro
        BY <1>2, <3>1, ZenonT(60) DEF Client, Full, Base
      <3> HIDE DEF new
      <3>3. Full(new) /\ new.made = c.made
        BY <1>2, <2>1, <3>2
           DEF Full, Base, Numbered, Announced, Down, Current, Tracked, Wanted
      <3>4. on = new
        BY <2>1 DEF new
      <3> QED
        BY <3>3, <3>4
    <2>2. CASE ~(c.sock # None /\ opts.framed)
      BY <1>2, <2>2
    <2> QED
      BY <2>1, <2>2
  <1> HIDE DEF on
  <1>4. CASE c' = Ready(on, t, r)
    <2>1. r = "connect" => on.made < MaxSockets
      BY <1>1, <1>3 DEF CanReact
    <2> QED
      BY <1>3, <1>4, <2>1, ReadyKeeps DEF ClientInv
  <1>5. ASSUME NEW x \in {"sent", "drain"}, c' = [on EXCEPT !.hello[t] = x]
        PROVE  ClientInv'
    <2> DEFINE h == [on.hello EXCEPT ![t] = x]
    <2>1. c' = [on EXCEPT !.hello = h]
      BY <1>3, <1>5 DEF Client, Full, Base
    <2>2. h \in [Tokens -> {"none", "drain", "sent", "rejected"}]
      BY <1>3, ClientFields DEF Full, Base
    <2> HIDE DEF h
    <2> QED
      BY <1>3, <2>1, <2>2, HelloKeeps DEF ClientInv
  <1> QED
    BY <1>1, <1>4, <1>5

LEMMA SocketFailsClient ==
  ASSUME ClientInv, NEW t \in Tokens, NEW e \in Reactions, NEW r \in Reactions,
         NEW q \in Reactions, SocketFails(t, e, r, q)
  PROVE  ClientInv'
  <1> DEFINE dead == [c EXCEPT !.sk[t] = "destroyed"]
             told == React(dead, e)
             shut == HandleClose(told, t, r, q)
             lost == Failed(shut, t)
             done == ScheduleReconnect(lost, q)
  <1>0. c \in Client /\ Full(c)
    BY DEF ClientInv, Full, Base
  <1>1. /\ Alive(c, t) /\ OneOf(e, r) /\ OneOf(e, q) /\ OneOf(r, q)
        /\ c' \in {done, Rejected(done)}
    BY DEF SocketFails
  <1>2. /\ e # "none" => r = "none" /\ q = "none"
        /\ r = "none" \/ q = "none"
        /\ e = "connect" \/ r = "connect" \/ q = "connect" => c.made < MaxSockets
    BY <1>1 DEF OneOf, CanReact
  <1>3. Full(dead) /\ dead.made = c.made /\ t <= c.made
    BY <1>0, <1>1, SocketKeeps DEF Alive
  <1> HIDE DEF dead
  <1>4. Full(told)
    BY <1>2, <1>3, ReactKeeps DEF Full
  <1>5. t <= told.made /\ (r = "connect" \/ q = "connect" => told.made < MaxSockets)
    <2>1. CASE e = "connect"
      <3>1. told = Connect(dead, TRUE)
        BY <2>1 DEF React
      <3>2. dead.made <= told.made
        BY <1>3, <3>1, ClientFields, ClientAssumption
           DEF Full, Base, Connect, Connecting, ClearReconnectTimer, Client
      <3>3. c.made \in Nat /\ told.made \in Nat /\ t \in Nat
        BY <1>0, <1>4, ClientFields, ClientAssumption DEF Full, Base, Tokens
      <3> QED
        BY <1>2, <1>3, <2>1, <3>2, <3>3
    <2>2. CASE e # "connect"
      BY <1>2, <1>3, <2>2, ReactKeeps DEF Full
    <2> QED
      BY <2>1, <2>2
  <1> HIDE DEF told
  <1>6. Full(shut) /\ (shut = told \/ Decided(shut))
    BY <1>2, <1>4, <1>5, HandleCloseFull DEF Full
  <1> HIDE DEF shut
  <1>7. /\ Full(lost) /\ lost.made = shut.made
        /\ Decided(lost) <=> Decided(shut)
    BY <1>6, FailedKeeps DEF Decided
  <1> HIDE DEF lost
  <1>8. q = "connect" => Decided(lost) \/ lost.made < MaxSockets
    BY <1>5, <1>6, <1>7
  <1>9. Full(done)
    BY <1>7, <1>8, ScheduleReconnectFull DEF Full
  <1> HIDE DEF done
  <1>10. Full(Rejected(done))
    BY <1>9, RejectedKeeps
  <1> QED
    BY <1>1, <1>9, <1>10 DEF ClientInv

LEMMA PeerEndsClient ==
  ASSUME ClientInv, NEW t \in Tokens, PeerEnds(t)
  PROVE  ClientInv'
  <1>1. c' = [c EXCEPT !.sk[t] = "destroyed"] /\ c.sk[t] = "open"
    BY DEF PeerEnds
  <1> QED
    BY <1>1, SocketKeeps DEF ClientInv

(* drainQueue only tells the handshakes that await it.                      *)
LEMMA DrainClient ==
  ASSUME ClientInv, Drain \/ Awaited
  PROVE  ClientInv'
  <1>1. c' = c \/ c' = Rejected(c) \/ Finish
    BY DEF Drain, Awaited, DrainItem, DrainBreaks, Refill, LoopEnds, Delayed, PendingSettles,
           FlushSettles, SocketDrains, HandOver
  <1> QED
    BY <1>1, RejectedKeeps, FinishKeeps DEF ClientInv

LEMMA ClientInit == Init => ClientInv
  <1> SUFFICES ASSUME Init PROVE ClientInv
    OBVIOUS
  <1>1. c \in Client
    BY ClientAssumption DEF Init, Client, Tokens, None
  <1>2. /\ c.sock = None /\ c.att = None /\ c.made = 0 /\ c.settled = 0 /\ ~c.byUser
        /\ c.sk = [t \in Tokens |-> "none"] /\ c.goodbyes = [t \in Tokens |-> 0]
        /\ c.micro = {}
    BY DEF Init
  <1>3. Numbered(c) /\ Announced(c)
    BY <1>2 DEF Numbered, Announced, None
  <1>4. Down(c) /\ Current(c) /\ Tracked(c) /\ Wanted(c)
    BY <1>2 DEF Down, Current, Alive, Tracked, Wanted
  <1> QED
    BY <1>1, <1>2, <1>3, <1>4 DEF ClientInv, Full, Base

LEMMA ClientNext ==
  ASSUME ClientInv, opts \in Options, [Next]_vars
  PROVE  ClientInv'
  <1>1. CASE User
    <2>1. CASE \E r, q \in Reactions : UserDisconnect(r, q)
      BY <2>1, UserDisconnectClient
    <2>2. CASE UserSend
      BY <2>2 DEF UserSend, ClientInv
    <2>3. CASE \E found \in BOOLEAN : UserConnect(found)
      BY <2>3, UserConnectClient
    <2> QED
      BY <1>1, <2>1, <2>2, <2>3 DEF User
  <1>2. CASE Drain \/ Awaited
    BY <1>2, DrainClient
  <1>3. CASE Timers
    <2>1. CASE HeartbeatFires
      BY <2>1 DEF HeartbeatFires, ClientInv
    <2>2. CASE \E found \in BOOLEAN : ReconnectFires(found)
      BY <2>2, ReconnectFiresClient
    <2>3. CASE \E t \in Tokens : ConnectTimeout(t)
      BY <2>3, ConnectTimeoutClient
    <2> QED
      BY <1>3, <2>1, <2>2, <2>3 DEF Timers
  <1>4. ASSUME NEW t \in Tokens,
               Microtasks(t) \/ Connects(t) \/ Breaks(t) \/ PeerEnds(t) \/ Closes(t)
        PROVE  ClientInv'
    <2>1. CASE \E r \in Reactions : HandshakeSettles(t, r)
      BY <2>1, HandshakeSettlesClient
    <2>2. CASE \E r, q \in Reactions : Microtask(t, r, q)
      BY <2>2, MicrotaskClient
    <2>3. CASE Connects(t)
      BY <2>3, SocketConnectsClient DEF Connects
    <2>4. CASE Breaks(t)
      BY <2>4, SocketFailsClient DEF Breaks
    <2>5. CASE PeerEnds(t)
      BY <2>5, PeerEndsClient
    <2>6. CASE Closes(t)
      BY <2>6, CloseEventClient DEF Closes
    <2> QED
      BY <1>4, <2>1, <2>2, <2>3, <2>4, <2>5, <2>6 DEF Microtasks
  <1>5. CASE UNCHANGED vars
    BY <1>5 DEF vars, ClientInv
  <1> QED
    BY <1>1, <1>2, <1>3, <1>4, <1>5 DEF Next
-----------------------------------------------------------------------------
(* The send queue. *)

(* Where enqueue() puts an item: behind everything up to the first item of  *)
(* a later priority.                                                        *)
LEMMA EnqueueEffect ==
  ASSUME NEW q \in Seq(ItemType), NEW it \in ItemType
  PROVE  /\ Enqueue(q, it) \in Seq(ItemType)
         /\ Len(Enqueue(q, it)) = Len(q) + 1
         /\ \E at \in 1 .. Len(q) + 1 :
              /\ \A i \in 1 .. Len(q) + 1 :
                   Enqueue(q, it)[i] = IF i < at THEN q[i] ELSE IF i = at THEN it ELSE q[i - 1]
              /\ \A i \in DOMAIN q : i < at => q[i].prio <= it.prio
              /\ at <= Len(q) => q[at].prio > it.prio
  <1> DEFINE behind == {i \in DOMAIN q : q[i].prio > it.prio} \cup {Len(q) + 1}
             at == CHOOSE i \in behind : \A j \in behind : i <= j
  <1>0. Len(q) \in Nat /\ DOMAIN q = 1 .. Len(q) /\ \A i \in DOMAIN q : q[i] \in ItemType
    OBVIOUS
  <1>1. behind \in SUBSET Nat /\ behind # {}
    BY <1>0
  <1>2. at \in behind /\ \A j \in behind : at <= j
    BY <1>1, SmallestOf
  <1>3. /\ at \in 1 .. Len(q) + 1
        /\ at <= Len(q) => q[at].prio > it.prio
        /\ \A i \in DOMAIN q : i < at => ~(q[i].prio > it.prio)
    BY <1>0, <1>2
  <1>4. Enqueue(q, it) = SubSeq(q, 1, at - 1) \o <<it>> \o SubSeq(q, at, Len(q))
    BY DEF Enqueue, InsertAt
  <1> HIDE DEF at, behind
  <1> DEFINE head == SubSeq(q, 1, at - 1)
             tail == SubSeq(q, at, Len(q))
             new == head \o <<it>> \o tail
  <1>5. /\ head \in Seq(ItemType) /\ Len(head) = at - 1
        /\ \A i \in 1 .. at - 1 : head[i] = q[i]
    BY <1>0, <1>3
  <1>6. /\ tail \in Seq(ItemType) /\ Len(tail) = Len(q) - at + 1
        /\ \A i \in 1 .. Len(q) - at + 1 : tail[i] = q[at + i - 1]
    BY <1>0, <1>3
  <1> HIDE DEF head, tail
  <1>7. /\ new \in Seq(ItemType) /\ Len(new) = Len(head) + 1 + Len(tail)
        /\ \A i \in 1 .. Len(head) : new[i] = head[i]
        /\ new[Len(head) + 1] = it
        /\ \A i \in 1 .. Len(tail) : new[Len(head) + 1 + i] = tail[i]
    <2> DEFINE longer == head \o <<it>>
    <2>1. /\ longer \in Seq(ItemType) /\ Len(longer) = Len(head) + 1
          /\ longer[Len(head) + 1] = it
          /\ \A i \in 1 .. Len(head) : longer[i] = head[i]
      BY <1>5
    <2>2. new = longer \o tail
      OBVIOUS
    <2> HIDE DEF longer
    <2>3. /\ new \in Seq(ItemType) /\ Len(new) = Len(longer) + Len(tail)
          /\ \A i \in 1 .. Len(longer) : new[i] = longer[i]
          /\ \A i \in 1 .. Len(tail) : new[Len(longer) + i] = tail[i]
      <3>1. longer \in Seq(ItemType) /\ tail \in Seq(ItemType)
        BY <1>6, <2>1
      <3>2. /\ longer \o tail \in Seq(ItemType)
            /\ Len(longer \o tail) = Len(longer) + Len(tail)
            /\ \A i \in 1 .. Len(longer) : (longer \o tail)[i] = longer[i]
            /\ \A i \in 1 .. Len(tail) : (longer \o tail)[Len(longer) + i] = tail[i]
        BY <3>1
      <3> QED
        BY <2>2, <3>2, Zenon
    <2> HIDE DEF new
    <2>4. Len(head) \in Nat /\ Len(tail) \in Nat
      BY <1>5, <1>6
    <2> QED
      BY <2>1, <2>3, <2>4
  <1> HIDE DEF new
  <1>8. \A i \in 1 .. Len(q) + 1 :
          new[i] = IF i < at THEN q[i] ELSE IF i = at THEN it ELSE q[i - 1]
    <2> SUFFICES ASSUME NEW i \in 1 .. Len(q) + 1
                 PROVE  new[i] = IF i < at THEN q[i] ELSE IF i = at THEN it ELSE q[i - 1]
      OBVIOUS
    <2>1. CASE i < at
      BY <1>0, <1>3, <1>5, <1>7, <2>1
    <2>2. CASE i = at
      BY <1>0, <1>3, <1>5, <1>7, <2>2
    <2>3. CASE i > at
      <3>1. i - at \in 1 .. Len(tail) /\ i = Len(head) + 1 + (i - at)
            /\ at + (i - at) - 1 = i - 1
        BY <1>0, <1>3, <1>5, <1>6, <2>3
      <3>2. new[i] = tail[i - at]
        BY <1>7, <3>1
      <3>3. tail[i - at] = q[i - 1]
        BY <1>6, <3>1
      <3> QED
        BY <1>3, <2>3, <3>2, <3>3
    <2> QED
      BY <1>0, <1>3, <2>1, <2>2, <2>3
  <1>9. \A i \in DOMAIN q : i < at => q[i].prio <= it.prio
    BY <1>0, <1>3 DEF ItemType
  <1>10. new \in Seq(ItemType) /\ Len(new) = Len(q) + 1
    BY <1>0, <1>3, <1>5, <1>6, <1>7
  <1>11. Enqueue(q, it) = new
    BY <1>4 DEF new, head, tail
  <1> QED
    BY <1>3, <1>8, <1>9, <1>10, <1>11

SendTypes ==
  /\ queue \in Seq(ItemType) /\ batch \in Seq(ItemType) /\ out \in Seq(ItemType)
  /\ pc \in {"idle", "run", "delay", "pending", "drain", "tick", "flush", "dead"}
  /\ waitsOn \in {None} \cup Tokens
  /\ sends \in 0..MaxSends /\ pings \in 0..MaxPings

SendInv == SendTypes /\ QueueInv

LEMMA PrecedesBelow ==
  ASSUME NEW q \in Seq(ItemType), Known(q), NEW it \in ItemType,
         it.prio = 0 => it.id = sends + 1, it.prio = 100 => it.id = pings + 1,
         sends \in Nat, pings \in Nat
  PROVE  \A i \in DOMAIN q : Precedes(q[i], it)
  <1> TAKE i \in DOMAIN q
  <1>1. q[i] \in ItemType
    OBVIOUS
  <1> QED
    BY <1>1, SMTT(30) DEF Known, Precedes, ItemType

(* An item enters the queue with a number that is new for its priority.     *)
LEMMA EnqueuedSend ==
  ASSUME SendInv, NEW it \in ItemType, Enqueued(it),
         it.prio = 0 => it.id = sends + 1 /\ sends' = sends + 1,
         it.prio = 100 => it.id = pings + 1 /\ pings' = pings + 1,
         sends' \in sends..MaxSends, pings' \in pings..MaxPings
  PROVE  SendInv'
  <1>0. /\ queue \in Seq(ItemType) /\ batch \in Seq(ItemType) /\ out \in Seq(ItemType)
        /\ sends \in Nat /\ pings \in Nat /\ sends' \in Nat /\ pings' \in Nat
        /\ sends' >= sends /\ pings' >= pings
        /\ batch' = batch /\ out' = out
    BY ClientAssumption DEF SendInv, SendTypes, Enqueued
  <1>1. /\ queue' \in Seq(ItemType) /\ Len(queue') = Len(queue) + 1
    BY <1>0, EnqueueEffect DEF Enqueued
  <1>2. PICK at \in 1 .. Len(queue) + 1 :
          /\ \A i \in 1 .. Len(queue) + 1 :
               queue'[i] = IF i < at THEN queue[i] ELSE IF i = at THEN it ELSE queue[i - 1]
          /\ \A i \in DOMAIN queue : i < at => queue[i].prio <= it.prio
          /\ at <= Len(queue) => queue[at].prio > it.prio
    BY <1>0, EnqueueEffect DEF Enqueued
  <1>3. /\ DOMAIN queue = 1 .. Len(queue) /\ DOMAIN queue' = 1 .. Len(queue) + 1
        /\ Len(queue) \in Nat /\ \A i \in DOMAIN queue : queue[i] \in ItemType
    BY <1>0, <1>1
  <1>4. /\ \A i \in DOMAIN queue : Precedes(queue[i], it)
        /\ \A i \in DOMAIN batch : Precedes(batch[i], it)
        /\ \A i \in DOMAIN out : Precedes(out[i], it)
    BY <1>0, PrecedesBelow DEF SendInv, QueueInv
  <1>5. \A i \in DOMAIN queue : i >= at => queue[i].prio > it.prio
    <2> SUFFICES ASSUME NEW i \in DOMAIN queue, i >= at
                 PROVE  queue[i].prio > it.prio
      OBVIOUS
    <2>1. at \in DOMAIN queue /\ queue[at].prio > it.prio
      BY <1>2, <1>3
    <2>2. queue[at].prio <= queue[i].prio
      BY <1>3, <2>1, SMTT(30) DEF SendInv, QueueInv, Sorted, ItemType
    <2> QED
      BY <1>3, <2>1, <2>2 DEF ItemType
  \* Every element of the new queue is the item or one of the old ones.
  <1>6. \A i \in DOMAIN queue' :
          \/ i < at /\ i \in DOMAIN queue /\ queue'[i] = queue[i]
          \/ i = at /\ queue'[i] = it
          \/ i > at /\ i - 1 \in DOMAIN queue /\ i - 1 >= at /\ queue'[i] = queue[i - 1]
    BY <1>2, <1>3
  <1>7. Sorted(queue')
    <2> SUFFICES ASSUME NEW i \in DOMAIN queue', NEW j \in DOMAIN queue', i < j
                 PROVE  queue'[i].prio <= queue'[j].prio
      BY DEF Sorted
    <2>1. Sorted(queue)
      BY DEF SendInv, QueueInv
    <2>2. CASE i = at
      <3>1. j - 1 \in DOMAIN queue /\ j - 1 >= at /\ queue'[j] = queue[j - 1] /\ queue'[i] = it
        BY <1>3, <1>6, <2>2
      <3> QED
        BY <1>3, <1>5, <3>1, SMTT(30) DEF ItemType
    <2>3. CASE i # at /\ j = at
      BY <1>2, <1>3, <1>6, <2>3
    <2>4. CASE i # at /\ j # at
      BY <1>3, <1>6, <2>1, <2>4, SMTT(30) DEF Sorted
    <2> QED
      BY <2>2, <2>3, <2>4
  <1>8. Ordered(queue')
    <2> SUFFICES ASSUME NEW i \in DOMAIN queue', NEW j \in DOMAIN queue', i < j
                 PROVE  Precedes(queue'[i], queue'[j])
      BY DEF Ordered
    <2>1. Ordered(queue)
      BY DEF SendInv, QueueInv
    <2>2. CASE i = at
      <3>1. j - 1 \in DOMAIN queue /\ j - 1 >= at /\ queue'[j] = queue[j - 1] /\ queue'[i] = it
        BY <1>3, <1>6, <2>2
      <3>2. queue[j - 1].prio > it.prio
        BY <1>5, <3>1
      <3> QED
        BY <1>3, <3>1, <3>2 DEF Precedes, ItemType
    <2>3. CASE i # at /\ j = at
      BY <1>3, <1>4, <1>6, <2>3
    <2>4. CASE i # at /\ j # at
      BY <1>3, <1>6, <2>1, <2>4 DEF Ordered
    <2> QED
      BY <2>2, <2>3, <2>4
  <1>9. Ahead(out, queue') /\ Ahead(batch, queue')
    BY <1>4, <1>6 DEF SendInv, QueueInv, Ahead
  <1>10. Known(out)' /\ Known(batch)'
    <2>1. Known(out) /\ Known(batch)
      BY DEF SendInv, QueueInv
    <2>2. /\ \A i \in DOMAIN out : out[i] \in ItemType
          /\ \A i \in DOMAIN batch : batch[i] \in ItemType
      BY <1>0
    <2> QED
      BY <1>0, <2>1, <2>2, SMTT(30) DEF Known, ItemType
  <1>11. Known(queue)'
    <2> SUFFICES ASSUME NEW i \in DOMAIN queue'
                 PROVE  /\ queue'[i].prio = 0 => queue'[i].id <= sends'
                        /\ queue'[i].prio = 100 => queue'[i].id <= pings'
      BY DEF Known
    <2>1. Known(queue)
      BY DEF SendInv, QueueInv
    <2>2. CASE queue'[i] = it
      BY <1>0, <2>2
    <2>3. ASSUME NEW k \in DOMAIN queue, queue'[i] = queue[k]
          PROVE  /\ queue'[i].prio = 0 => queue'[i].id <= sends'
                 /\ queue'[i].prio = 100 => queue'[i].id <= pings'
      BY <1>0, <1>3, <2>1, <2>3, SMTT(30) DEF Known, ItemType
    <2> QED
      BY <1>6, <2>2, <2>3
  <1>12. SendTypes'
    BY <1>0, <1>1, ClientAssumption DEF SendInv, SendTypes, Enqueued
  <1>13. pc' = "delay" => batch' # <<>>
    BY DEF SendInv, QueueInv, Enqueued, Draining
  <1> QED
    BY <1>0, <1>7, <1>8, <1>9, <1>10, <1>11, <1>12, <1>13 DEF SendInv, QueueInv, Ordered, Ahead

(* The head of the batch is handed over, or lost with a destroyed socket.   *)
LEMMA HandOverSend ==
  ASSUME SendInv, c \in Client, batch # <<>>, HandOver, UNCHANGED <<queue, sends, pings>>
  PROVE  SendInv'
  <1>0. /\ queue \in Seq(ItemType) /\ batch \in Seq(ItemType) /\ out \in Seq(ItemType)
        /\ Head(batch) \in ItemType
    BY DEF SendInv, SendTypes
  <1>1. batch' = Tail(batch) /\ (out' = out \/ out' = Append(out, Head(batch)))
    BY DEF HandOver
  <1>2. SendTypes'
    <2>1. pc' \in {"idle", "run", "delay", "pending", "drain", "tick", "flush", "dead"}
      BY DEF HandOver
    <2>2. waitsOn' \in {None} \cup Tokens
      BY ClientFields DEF HandOver, SendInv, SendTypes
    <2>3. Tail(batch) \in Seq(ItemType) /\ Append(out, Head(batch)) \in Seq(ItemType)
      <3>1. Tail(batch) \in Seq(ItemType)
        BY <1>0
      <3> QED
        BY <1>0, <3>1
    <2> QED
      BY <1>0, <1>1, <2>1, <2>2, <2>3 DEF SendInv, SendTypes
  <1>3. /\ Len(batch) \in Nat \ {0} /\ Head(batch) = batch[1] /\ 1 \in DOMAIN batch
        /\ DOMAIN batch' = 1 .. Len(batch) - 1
        /\ \A i \in DOMAIN batch' : batch'[i] = batch[i + 1] /\ i + 1 \in DOMAIN batch /\ 1 < i + 1
    BY <1>0, <1>1
  <1>4. Ordered(batch') /\ Known(batch)' /\ Ahead(batch', queue)
    BY <1>3 DEF SendInv, QueueInv, Ordered, Known, Ahead
  <1>5. pc' # "delay"
    BY DEF HandOver
  <1>6. CASE out' = out
    <2>1. Ahead(out, batch')
      BY <1>3 DEF SendInv, QueueInv, Ahead
    <2> QED
      BY <1>2, <1>4, <1>6, <1>5, <2>1 DEF SendInv, QueueInv, Ordered, Ahead, Known, Sorted
  <1>7. CASE out' = Append(out, Head(batch))
    <2>1. /\ DOMAIN out' = 1 .. Len(out) + 1 /\ DOMAIN out = 1 .. Len(out) /\ Len(out) \in Nat
          /\ \A i \in DOMAIN out : out'[i] = out[i]
          /\ out'[Len(out) + 1] = batch[1]
      BY <1>0, <1>3, <1>7
    <2>2. \A i \in DOMAIN out' : \/ i \in DOMAIN out /\ out'[i] = out[i]
                                 \/ i = Len(out) + 1 /\ out'[i] = batch[1]
      BY <2>1
    <2>3. Ordered(out')
      BY <1>3, <2>1, <2>2 DEF SendInv, QueueInv, Ordered, Ahead
    <2>4. Ahead(out', batch') /\ Ahead(out', queue)
      BY <1>3, <2>2 DEF SendInv, QueueInv, Ordered, Ahead
    <2>5. Known(out)'
      BY <1>3, <2>2 DEF SendInv, QueueInv, Known
    <2> QED
      BY <1>2, <1>4, <1>5, <2>3, <2>4, <2>5 DEF SendInv, QueueInv, Ordered, Ahead, Known, Sorted
  <1> QED
    BY <1>1, <1>6, <1>7

LEMMA RefillSend ==
  ASSUME SendInv, Refill
  PROVE  SendInv'
  <1> DEFINE n == IF Len(queue) < BatchSize THEN Len(queue) ELSE BatchSize
  <1>0. queue \in Seq(ItemType) /\ Len(queue) \in Nat /\ DOMAIN queue = 1 .. Len(queue)
    BY DEF SendInv, SendTypes
  <1>1. n \in 0 .. Len(queue)
    BY <1>0, ClientAssumption
  <1>2. /\ batch' = SubSeq(queue, 1, n) /\ queue' = SubSeq(queue, n + 1, Len(queue))
        /\ UNCHANGED <<pc, waitsOn, out, sends, pings>> /\ pc = "run"
    BY DEF Refill, Sync
  <1> HIDE DEF n
  <1>3. /\ batch' \in Seq(ItemType) /\ DOMAIN batch' = 1 .. n
        /\ \A i \in DOMAIN batch' : i \in DOMAIN queue /\ batch'[i] = queue[i]
    BY <1>0, <1>1, <1>2
  <1>4. /\ queue' \in Seq(ItemType) /\ DOMAIN queue' = 1 .. Len(queue) - n
        /\ \A i \in DOMAIN queue' : n + i \in DOMAIN queue /\ queue'[i] = queue[n + i]
    BY <1>0, <1>1, <1>2
  <1>5. SendTypes'
    BY <1>2, <1>3, <1>4 DEF SendInv, SendTypes
  <1>6. /\ Sorted(queue) /\ Ordered(queue) /\ Ordered(out) /\ Ahead(out, queue)
        /\ Known(queue) /\ Known(out)
    BY DEF SendInv, QueueInv
  <1>7. Sorted(queue') /\ Ordered(queue')
    <2> SUFFICES ASSUME NEW i \in DOMAIN queue', NEW j \in DOMAIN queue', i < j
                 PROVE  /\ queue'[i].prio <= queue'[j].prio
                        /\ Precedes(queue'[i], queue'[j])
      BY DEF Sorted, Ordered
    <2>1. n + i \in DOMAIN queue /\ n + j \in DOMAIN queue /\ n + i < n + j
      BY <1>0, <1>1, <1>4
    <2> QED
      BY <1>4, <1>6, <2>1 DEF Sorted, Ordered
  <1>8. Ordered(batch') /\ Ahead(out, batch') /\ Ahead(out, queue')
    BY <1>1, <1>3, <1>4, <1>6 DEF Ordered, Ahead
  <1>9. Ahead(batch', queue')
    BY <1>1, <1>3, <1>4, <1>6 DEF Ordered, Ahead
  <1>10. Known(batch)' /\ Known(queue)' /\ Known(out)'
    <2>1. sends' = sends /\ pings' = pings /\ out' = out
      BY <1>2
    <2>2. Known(batch)'
      BY <1>3, <1>6, <2>1 DEF Known
    <2>3. Known(queue)'
      BY <1>4, <1>6, <2>1 DEF Known
    <2> QED
      BY <1>6, <2>1, <2>2, <2>3 DEF Known
  <1> QED
    BY <1>2, <1>5, <1>6, <1>7, <1>8, <1>9, <1>10 DEF SendInv, QueueInv, Ordered, Ahead

(* Nothing enters or leaves the queue, the batch is as it was or dropped.   *)
LEMMA OthersSend ==
  ASSUME SendInv, UNCHANGED <<queue, out, sends, pings>>, batch' = batch \/ batch' = <<>>,
         pc' \in {"idle", "run", "delay", "pending", "drain", "tick", "flush", "dead"},
         waitsOn' \in {None} \cup Tokens, pc' = "delay" => batch' # <<>>
  PROVE  SendInv'
  <1>1. SendTypes'
    <2>1. batch \in Seq(ItemType) /\ <<>> \in Seq(ItemType)
      BY DEF SendInv, SendTypes
    <2>2. batch' \in Seq(ItemType)
      BY <2>1
    <2> QED
      BY <2>2 DEF SendInv, SendTypes
  <1>2. CASE batch' = batch
    BY <1>1, <1>2 DEF SendInv, QueueInv, Sorted, Ordered, Ahead, Known
  <1>3. CASE batch' = <<>>
    BY <1>1, <1>3 DEF SendInv, QueueInv, Sorted, Ordered, Ahead, Known
  <1> QED
    BY <1>2, <1>3

LEMMA SendInit == Init => SendInv
  BY ClientAssumption DEF Init, SendInv, SendTypes, QueueInv, Sorted, Ordered, Ahead, Known

LEMMA SendNext ==
  ASSUME SendInv, c \in Client, [Next]_vars
  PROVE  SendInv'
  <1> DEFINE Points == {"idle", "run", "delay", "pending", "drain", "tick", "flush", "dead"}
  <1>0. /\ sends \in 0..MaxSends /\ pings \in 0..MaxPings /\ pc \in Points
        /\ waitsOn \in {None} \cup Tokens
        /\ MaxSends \in Nat /\ MaxPings \in Nat
    BY ClientAssumption DEF SendInv, SendTypes
  <1>1. CASE UNCHANGED sendVars
    <2>1. UNCHANGED <<queue, batch, pc, waitsOn, out, sends, pings>>
      BY <1>1 DEF sendVars
    <2> QED
      BY <1>0, <2>1, OthersSend DEF SendInv, QueueInv
  <1>2. CASE UserSend
    <2>1. Item(0, sends + 1) \in ItemType /\ Item(0, sends + 1).prio = 0
          /\ Item(0, sends + 1).id = sends + 1
      BY <1>0 DEF Item, ItemType
    <2>2. Enqueued(Item(0, sends + 1)) /\ sends' = sends + 1 /\ pings' = pings
          /\ sends < MaxSends
      BY <1>2 DEF UserSend
    <2>3. sends' \in sends..MaxSends /\ pings' \in pings..MaxPings
      BY <1>0, <2>2
    <2> QED
      BY <2>1, <2>2, <2>3, EnqueuedSend
  <1>3. CASE HeartbeatFires
    <2>1. Item(100, pings + 1) \in ItemType /\ Item(100, pings + 1).prio = 100
          /\ Item(100, pings + 1).id = pings + 1
      BY <1>0 DEF Item, ItemType
    <2>2. Enqueued(Item(100, pings + 1)) /\ pings' = pings + 1 /\ sends' = sends
          /\ pings < MaxPings
      BY <1>3 DEF HeartbeatFires
    <2>3. sends' \in sends..MaxSends /\ pings' \in pings..MaxPings
      BY <1>0, <2>2
    <2> QED
      BY <2>1, <2>2, <2>3, EnqueuedSend
  <1>4. ASSUME NEW t \in Tokens, NEW r \in Reactions, SocketConnects(t, r)
        PROVE  SendInv'
    <2>1. Item(-100, t) \in ItemType /\ Item(-100, t).prio = -100
      BY ClientAssumption DEF Item, ItemType, Tokens
    <2>2. CASE Enqueued(Item(-100, t)) /\ UNCHANGED <<sends, pings>>
      <3>1. sends' \in sends..MaxSends /\ pings' \in pings..MaxPings
        BY <1>0, <2>2
      <3> QED
        BY <2>1, <2>2, <3>1, EnqueuedSend
    <2> QED
      BY <1>1, <1>4, <2>2 DEF SocketConnects
  <1>5. ASSUME NEW t \in Tokens, Breaks(t)
        PROVE  SendInv'
    <2>1. UNCHANGED <<queue, batch, waitsOn, out, sends, pings>> /\ pc' \in {"dead", pc}
      BY <1>5 DEF Breaks, SocketFails
    <2> QED
      BY <1>0, <2>1, OthersSend DEF SendInv, QueueInv
  <1>6. CASE Drain
    <2>1. CASE DrainItem
      <3>1. CASE HandOver
        BY <2>1, <3>1, HandOverSend DEF DrainItem
      <3>2. CASE ~HandOver
        <4>1. UNCHANGED <<queue, batch, waitsOn, out, sends, pings>> /\ pc' = "delay"
              /\ batch # <<>>
          BY <2>1, <3>2 DEF DrainItem
        <4> QED
          BY <1>0, <4>1, OthersSend
      <3> QED
        BY <3>1, <3>2
    <2>2. CASE DrainBreaks
      BY <1>0, <2>2, OthersSend DEF DrainBreaks, Sync
    <2>3. CASE Refill
      BY <2>3, RefillSend
    <2>4. CASE LoopEnds
      <3>1. UNCHANGED <<queue, batch, out, sends, pings>>
            /\ pc' \in {"tick", "flush", "idle", "run", "dead"} /\ waitsOn' \in {waitsOn, c.att}
        BY <2>4 DEF LoopEnds, Finish
      <3> QED
        BY <1>0, <3>1, ClientFields, OthersSend
    <2> QED
      BY <1>6, <2>1, <2>2, <2>3, <2>4 DEF Drain
  <1>7. CASE Awaited
    <2>1. CASE Delayed
      <3>1. batch # <<>>
        BY <2>1 DEF Delayed, SendInv, QueueInv
      <3> QED
        BY <2>1, <3>1, HandOverSend DEF Delayed
    <2>2. CASE PendingSettles \/ FlushSettles \/ SocketDrains
      <3>1. UNCHANGED <<queue, batch, waitsOn, out, sends, pings>>
            /\ pc' \in {"idle", "run", "dead"}
        BY <2>2 DEF PendingSettles, FlushSettles, SocketDrains, Finish
      <3> QED
        BY <1>0, <3>1, OthersSend
    <2> QED
      BY <1>7, <2>1, <2>2 DEF Awaited
  <1>8. [Next]_vars =>
          \/ UNCHANGED sendVars \/ UserSend \/ HeartbeatFires \/ Drain \/ Awaited
          \/ \E t \in Tokens : Breaks(t) \/ \E r \in Reactions : SocketConnects(t, r)
    BY DEF Next, vars, User, Timers, Microtasks, UserDisconnect, UserConnect, ReconnectFires,
           ConnectTimeout, HandshakeSettles, Microtask, PeerEnds, CloseEvent, Connects, Closes
  <1> QED
    BY <1>1, <1>2, <1>3, <1>4, <1>5, <1>6, <1>7, <1>8
-----------------------------------------------------------------------------
(* The inductive invariant, for every client.                               *)
THEOREM Invariance == Spec => []IInv
  <1>1. Init => IInv
    <2> SUFFICES ASSUME Init PROVE IInv
      OBVIOUS
    <2>1. ClientInv /\ SendInv
      BY ClientInit, SendInit
    <2>2. opts \in Options
      BY DEF Init
    <2> QED
      BY <2>1, <2>2 DEF IInv, TypeOK, ClientInv, Full, Base, SendInv, SendTypes
  <1>2. IInv /\ [Next]_vars => IInv'
    <2> SUFFICES ASSUME IInv, [Next]_vars PROVE IInv'
      OBVIOUS
    <2>1. ClientInv /\ SendInv /\ opts \in Options /\ c \in Client
      BY DEF IInv, TypeOK, SendInv, SendTypes
    <2>2. ClientInv' /\ SendInv'
      BY <2>1, ClientNext, SendNext
    <2>3. opts' = opts
      <3>1. User => opts' = opts
        BY DEF User, UserDisconnect, UserSend, UserConnect
      <3>2. Drain => opts' = opts
        BY DEF Drain, DrainItem, DrainBreaks, Refill, LoopEnds
      <3>3. Awaited => opts' = opts
        BY DEF Awaited, Delayed, PendingSettles, FlushSettles, SocketDrains
      <3>4. Timers => opts' = opts
        BY DEF Timers, HeartbeatFires, ReconnectFires, ConnectTimeout
      <3>5. ASSUME NEW t \in Tokens
            PROVE  /\ Microtasks(t) => opts' = opts
                   /\ Connects(t) \/ PeerEnds(t) => opts' = opts
                   /\ Breaks(t) => opts' = opts
                   /\ Closes(t) => opts' = opts
        <4>1. Microtasks(t) => opts' = opts
          BY DEF Microtasks, HandshakeSettles, Microtask
        <4>2. Connects(t) \/ PeerEnds(t) => opts' = opts
          BY DEF Connects, SocketConnects, PeerEnds
        <4>3. Breaks(t) => opts' = opts
          BY DEF Breaks, SocketFails
        <4>4. Closes(t) => opts' = opts
          BY DEF Closes, CloseEvent
        <4> QED
          BY <4>1, <4>2, <4>3, <4>4
      <3>6. UNCHANGED vars => opts' = opts
        BY DEF vars
      <3> QED
        BY <3>1, <3>2, <3>3, <3>4, <3>5, <3>6 DEF Next
    <2> QED
      BY <2>1, <2>2, <2>3 DEF IInv, TypeOK, ClientInv, Full, Base, SendInv, SendTypes
  <1> QED
    BY <1>1, <1>2, PTL DEF Spec

(* Every field keeps its type; the reconnect attempts stay within           *)
(* reconnect.maxAttempts, whatever it is.                                   *)
THEOREM ClientTypes == Spec => []TypeOK
  <1>1. IInv => TypeOK
    BY DEF IInv
  <1> QED
    BY <1>1, Invariance, PTL

(* handleClose announces the end of each socket at most once.               *)
THEOREM ClosedOnce == Spec => []CloseOnce
  <1>1. IInv => CloseOnce
    BY DEF IInv, ClientInv, Full, Base, Announced, CloseOnce
  <1> QED
    BY <1>1, Invariance, PTL

(* A client the application has closed has no socket and no framer until it *)
(* calls connect(), and a reconnect timer only if it was closed by a        *)
(* listener of 'reconnecting', which scheduleReconnect emits before it sets *)
(* the timer.                                                               *)
THEOREM DownStaysDown == Spec => []StaysDown
  <1>1. IInv => StaysDown
    BY DEF IInv, ClientInv, Full, Base, Down, StaysDown
  <1> QED
    BY <1>1, Invariance, PTL

(* A client that should be connected has a timer or a socket whose end will *)
(* be handled, unless it has given up.                                      *)
THEOREM NeverForgotten == Spec => []KeepsTrying
  <1>1. IInv => KeepsTrying
    BY DEF IInv, ClientInv, Full, Tracked, Wanted, KeepsTrying
  <1> QED
    BY <1>1, Invariance, PTL

(* The framer writes to the client's current socket or to a dead one.       *)
THEOREM FramerIsCurrent == Spec => []AttachedIsCurrent
  <1>1. IInv => AttachedIsCurrent
    BY DEF IInv, ClientInv, Full, Base, Current, AttachedIsCurrent
  <1> QED
    BY <1>1, Invariance, PTL

(* Messages are handed over in the order of their sending, each once.       *)
THEOREM OrderOfSends == Spec => []SentInOrder
  <1>1. IInv => SentInOrder
    BY DEF IInv, QueueInv, Ordered, Precedes, SentInOrder
  <1> QED
    BY <1>1, Invariance, PTL
=============================================================================
