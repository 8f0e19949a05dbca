-------------------------- MODULE DeviceFarmProofs --------------------------
(***************************************************************************)
(* Theorems about the fleet, for every number of devices and every bound.  *)
(*                                                                         *)
(* A callback changes one session, so the argument is about views.  Each   *)
(* lemma says of one operator that it keeps SessionInv and leaves the      *)
(* device scheduled; the step lemma then puts the view back into the farm. *)
(* A second pass in the same order, resting on the first, relates a        *)
(* session's state to its socket, what was written to what was             *)
(* acknowledged, the counters to the sessions, and the fleet to            *)
(* DeviceLifecycle.                                                        *)
(***************************************************************************)
EXTENDS DeviceFarm, FiniteSetTheorems, TLAPS

\* What holds of a session between any two operators of a callback.
SocketInv(s) ==
    /\ s \in Session
    /\ s.socket # NoSocket => s.socket = s.socketToken
    /\ \A t \in Tokens : s.wire[t].phase # "none" => s.socket = t

SessionInv(s) ==
    /\ SocketInv(s)
    /\ \A t \in Tokens : s.wire[t].phase = "opening" => s.state = "CONNECTING"
    /\ s.state = "STOPPED" <=> s.disposed
    /\ s.moving => s.state = "ONLINE"

ViewInv(v) == v \in View /\ SessionInv(v.dev)

\* The pump will come back to the device.
Scheduled(v) ==
    v.running => ~v.dev.disposed /\ v.dev.scheduleVersion \in v.dev.entries

LEMMA TokenFacts ==
    /\ 0 \in Tokens /\ NoSocket \notin Tokens
    /\ \A t \in Tokens : NextToken(t) \in Tokens
BY TokenSpaceAssumption DEF Tokens, NoSocket, NextToken

LEMMA VersionFacts ==
    /\ 0 \in Versions /\ 1 \in Versions
    /\ \A n \in Versions : NextVersion(n) \in Versions
BY VersionSpaceAssumption DEF Versions, NextVersion

LEMMA WireFacts ==
    /\ NoWire \in Wire
    /\ \A w \in Wire, p \in Phase : [w EXCEPT !.phase = p] \in Wire
BY DEF NoWire, Wire, Phase

-----------------------------------------------------------------------------
(* The helpers of a session                                                *)

\* Scheduling renews the version and enters it in the heap.
LEMMA ScheduleSession ==
    ASSUME NEW s \in Session, NEW n \in Versions
    PROVE  [s EXCEPT !.scheduleVersion = n, !.entries = @ \cup {n}] \in Session
BY DEF Session

LEMMA ScheduleLemma ==
    ASSUME NEW v, ViewInv(v)
    PROVE  /\ ViewInv(Schedule(v))
           /\ ~v.dev.disposed => Scheduled(Schedule(v))
           /\ Schedule(v).running = v.running
           /\ Schedule(v).dev.disposed = v.dev.disposed
<1>1. v \in View /\ v.dev \in Session /\ SessionInv(v.dev)
  BY DEF ViewInv, View
<1>2. CASE v.dev.disposed \/ ~v.running
  BY <1>1, <1>2 DEF Schedule, Scheduled, ViewInv
<1>3. CASE ~(v.dev.disposed \/ ~v.running)
  <2> DEFINE n == NextVersion(v.dev.scheduleVersion)
             s == [v.dev EXCEPT !.scheduleVersion = n, !.entries = @ \cup {n}]
  <2>1. n \in Versions
    BY <1>1, VersionFacts DEF Session
  <2>2. Schedule(v) = [v EXCEPT !.dev = s]
    BY <1>1, <1>3 DEF Schedule, View
  <2>3. s \in Session
    BY <1>1, <2>1, ScheduleSession
  <2>4. SessionInv(s) /\ s.scheduleVersion \in s.entries /\ s.disposed = v.dev.disposed
    BY <1>1, <2>1, <2>3 DEF SessionInv, SocketInv, Session
  <2> HIDE DEF n, s
  <2>5. Schedule(v) \in View /\ Schedule(v).dev = s
        /\ Schedule(v).running = v.running
    BY <1>1, <2>2, <2>3 DEF View
  <2> QED BY <1>3, <2>4, <2>5 DEF ViewInv, Scheduled
<1> QED BY <1>2, <1>3

LEMMA SetStateLemma ==
    ASSUME NEW v \in View, NEW s \in SessionState
    PROVE  /\ SetState(v, s) \in View
           /\ SetState(v, s).running = v.running
           /\ SetState(v, s).dev = [v.dev EXCEPT !.state = s]
<1>1. v.dev \in Session /\ v.dev.state \in SessionState /\ v.counts \in [SessionState -> Nat]
  BY DEF View, Session
<1>2. CASE v.dev.state = s
  BY <1>1, <1>2 DEF SetState, Session
<1>3. CASE v.dev.state # s
  <2> DEFINE c == [v.counts EXCEPT ![v.dev.state] = Decrement(@), ![s] = @ + 1]
             e == [v.dev EXCEPT !.state = s]
  <2>1. c \in [SessionState -> Nat]
    BY <1>1 DEF Decrement
  <2>2. e \in Session
    BY <1>1 DEF Session
  <2>3. SetState(v, s) = [v EXCEPT !.dev = e, !.counts = c]
    BY <1>1, <1>3 DEF SetState, View
  <2> HIDE DEF c, e
  <2>4. [v EXCEPT !.dev = e, !.counts = c] \in View
    BY <2>1, <2>2 DEF View
  <2>5. [v EXCEPT !.dev = e, !.counts = c].dev = e
    BY DEF View
  <2>6. [v EXCEPT !.dev = e, !.counts = c].running = v.running
    BY DEF View
  <2> QED BY <2>3, <2>4, <2>5, <2>6 DEF e
<1> QED BY <1>2, <1>3

LEMMA MarkSocketDisconnectedLemma ==
    ASSUME NEW v \in View
    PROVE  /\ MarkSocketDisconnected(v) \in View
           /\ MarkSocketDisconnected(v).running = v.running
           /\ MarkSocketDisconnected(v).dev = [v.dev EXCEPT !.socketConnected = FALSE]
<1>1. v.dev \in Session /\ v.tcp \in Nat
  BY DEF View
<1>2. CASE ~v.dev.socketConnected
  BY <1>1, <1>2 DEF MarkSocketDisconnected, Session
<1>3. CASE v.dev.socketConnected
  <2> DEFINE e == [v.dev EXCEPT !.socketConnected = FALSE]
             k == Decrement(v.tcp)
  <2>1. e \in Session
    BY <1>1 DEF Session
  <2>5. k \in Nat
    BY <1>1 DEF Decrement
  <2>2. MarkSocketDisconnected(v) = [v EXCEPT !.dev = e, !.tcp = k]
    BY <1>3 DEF MarkSocketDisconnected, View
  <2> HIDE DEF e, k
  <2>3. [v EXCEPT !.dev = e, !.tcp = k] \in View
    BY <2>1, <2>5 DEF View
  <2>4. /\ [v EXCEPT !.dev = e, !.tcp = k].dev = e
        /\ [v EXCEPT !.dev = e, !.tcp = k].running = v.running
    BY DEF View
  <2> QED BY <2>2, <2>3, <2>4 DEF e
<1> QED BY <1>2, <1>3

\* Whatever socket a session held, it holds none afterwards and none is open.
LEMMA DestroySocketLemma ==
    ASSUME NEW v \in View, SocketInv(v.dev)
    PROVE  LET r == DestroySocket(v) IN
           /\ r \in View /\ SocketInv(r.dev)
           /\ r.running = v.running
           /\ r.dev.socket = NoSocket
           /\ \A t \in Tokens : r.dev.wire[t].phase = "none"
           /\ r.dev.state = v.dev.state /\ r.dev.disposed = v.dev.disposed
           /\ r.dev.moving = v.dev.moving
<1>1. v.dev \in Session /\ v.dev.wire \in [Tokens -> Wire] /\ v.dev.socketToken \in Tokens
  BY DEF View, Session
<1> DEFINE k == v.dev.socket
           wire == IF k = NoSocket THEN v.dev.wire ELSE [v.dev.wire EXCEPT ![k] = NoWire]
           s == [v.dev EXCEPT !.wire = wire, !.socket = NoSocket,
                              !.socketToken = NextToken(@)]
           u == [v EXCEPT !.dev = s]
<1>2. wire \in [Tokens -> Wire]
  BY <1>1, WireFacts DEF Session
<1>3. \A t \in Tokens : wire[t].phase = "none"
  BY <1>1, TokenFacts DEF SocketInv, NoWire
<1>4. NextToken(v.dev.socketToken) \in Tokens
  BY <1>1, TokenFacts
<1>5. DestroySocket(v) = MarkSocketDisconnected(u)
  BY <1>1 DEF DestroySocket, View, Session
<1> HIDE DEF wire
<1>6. s \in Session
  BY <1>1, <1>2, <1>4 DEF Session
<1>7. /\ s.socket = NoSocket /\ s.wire = wire
      /\ s.state = v.dev.state /\ s.disposed = v.dev.disposed /\ s.moving = v.dev.moving
  BY <1>1 DEF Session
<1> HIDE DEF s
<1>8. u \in View /\ u.dev = s /\ u.running = v.running
  BY <1>6 DEF View
<1> HIDE DEF u
<1> DEFINE e == [s EXCEPT !.socketConnected = FALSE]
<1>9. /\ MarkSocketDisconnected(u) \in View
      /\ MarkSocketDisconnected(u).running = v.running
      /\ MarkSocketDisconnected(u).dev = e
  BY <1>8, MarkSocketDisconnectedLemma
<1>10. /\ e \in Session
       /\ e.socket = NoSocket /\ e.wire = wire
       /\ e.state = v.dev.state /\ e.disposed = v.dev.disposed /\ e.moving = v.dev.moving
  BY <1>6, <1>7 DEF Session
<1> HIDE DEF e
<1>11. SocketInv(e)
  BY <1>3, <1>10 DEF SocketInv
<1> QED BY <1>3, <1>5, <1>9, <1>10, <1>11

\* While the farm runs a reconnect leaves the device without a socket, in
\* BACKOFF, and scheduled, whatever it did before; otherwise it does nothing.
LEMMA BeginReconnectLemma ==
    ASSUME NEW v \in View, SocketInv(v.dev),
           v.dev.state = "STOPPED" <=> v.dev.disposed
    PROVE  LET r == BeginReconnect(v) IN
           /\ r.running = v.running
           /\ v.running /\ ~v.dev.disposed => ViewInv(r) /\ Scheduled(r)
           /\ ~v.running \/ v.dev.disposed => r = v
<1>1. CASE v.dev.disposed \/ ~v.running
  BY <1>1 DEF BeginReconnect
<1>2. CASE ~v.dev.disposed /\ v.running
  <2> DEFINE s == [v.dev EXCEPT !.moving = FALSE]
             u == [v EXCEPT !.dev = s]
             w == DestroySocket(u)
             x == SetState(w, "BACKOFF")
  <2>1. s \in Session /\ s.moving = FALSE /\ s.disposed = FALSE /\ SocketInv(s)
    BY <1>2 DEF View, Session, SocketInv
  <2>2. BeginReconnect(v) = Schedule(x)
    BY <1>2 DEF BeginReconnect, View
  <2> HIDE DEF s
  <2>3. u \in View /\ u.dev = s /\ u.running = v.running
    BY <2>1 DEF View
  <2> HIDE DEF u
  <2>4. /\ w \in View /\ SocketInv(w.dev) /\ w.running = v.running
        /\ w.dev.disposed = FALSE /\ w.dev.moving = FALSE
        /\ \A t \in Tokens : w.dev.wire[t].phase = "none"
    BY <2>1, <2>3, DestroySocketLemma
  <2> HIDE DEF w
  <2>5. /\ x \in View /\ x.running = v.running
        /\ x.dev = [w.dev EXCEPT !.state = "BACKOFF"]
    BY <2>4, SetStateLemma DEF SessionState
  <2> HIDE DEF x
  <2>6. ViewInv(x) /\ x.dev.disposed = FALSE
    BY <2>4, <2>5 DEF ViewInv, SessionInv, SocketInv, View, Session
  <2>7. ViewInv(Schedule(x)) /\ Scheduled(Schedule(x)) /\ Schedule(x).running = x.running
    BY <2>6, ScheduleLemma
  <2> QED BY <1>2, <2>2, <2>5, <2>7
<1> QED BY <1>1, <1>2 DEF View

-----------------------------------------------------------------------------
(* Writing                                                                 *)

\* r is what an operator made of v: an invariant view of the same farm, on
\* which the pump still comes back if it did, and the device is not disposed.
Kept(v, r) ==
    /\ ViewInv(r)
    /\ r.running = v.running
    /\ ~r.dev.disposed
    /\ Scheduled(v) => Scheduled(r)

LEMMA GiveUpLemma ==
    ASSUME NEW v, ViewInv(v), ~v.dev.disposed
    PROVE  Kept(v, BeginReconnect(v)) /\ Scheduled(BeginReconnect(v))
<1>1. v \in View /\ SocketInv(v.dev) /\ (v.dev.state = "STOPPED" <=> v.dev.disposed)
  BY DEF ViewInv, SessionInv
<1>2. v.running \in BOOLEAN
  BY <1>1 DEF View
<1> QED BY <1>1, <1>2, BeginReconnectLemma DEF Kept, Scheduled

LEMMA WrittenLemma ==
    ASSUME NEW v, ViewInv(v), ~v.dev.disposed, NEW kind, NEW result, CanWrite(v)
    PROVE  /\ Kept(v, Written(v, kind, result))
           /\ Written(v, kind, result).dev.state = v.dev.state
<1>1. v \in View /\ v.dev \in Session /\ SessionInv(v.dev)
  BY DEF ViewInv, View
<1> DEFINE k == v.dev.socket
           old == v.dev.wire[k]
           new == [old EXCEPT !.needDrain = (@ \/ result = "queued"),
                              !.logins = IF kind = "login" THEN @ + 1 ELSE @,
                              !.data = (@ \/ kind = "data")]
           wire == [v.dev.wire EXCEPT ![k] = new]
           queued == (result = "queued")
           s == [v.dev EXCEPT !.backpressured = queued, !.wire = wire]
<1>2. k \in Tokens /\ old \in Wire /\ v.dev.wire \in [Tokens -> Wire]
  BY <1>1 DEF CanWrite, Session
<1>3. new \in Wire /\ new.phase = old.phase
  <2> DEFINE drain == old.needDrain \/ result = "queued"
             logins == IF kind = "login" THEN old.logins + 1 ELSE old.logins
             data == old.data \/ kind = "data"
  <2>1. drain \in BOOLEAN /\ data \in BOOLEAN
    OBVIOUS
  <2>2. logins \in Nat
    BY <1>2 DEF Wire
  <2>3. new = [old EXCEPT !.needDrain = drain, !.logins = logins, !.data = data]
    BY <1>2 DEF Wire
  <2> HIDE DEF drain, logins, data, new
  <2> QED BY <1>2, <2>1, <2>2, <2>3 DEF Wire
<1>4. Written(v, kind, result) = [v EXCEPT !.dev = s]
  BY <1>1 DEF Written, View, Session
<1> HIDE DEF new
<1>5. wire \in [Tokens -> Wire] /\ \A t \in Tokens : wire[t].phase = v.dev.wire[t].phase
  BY <1>2, <1>3
<1> HIDE DEF wire
<1>6. queued \in BOOLEAN
  OBVIOUS
<1> HIDE DEF queued
<1>7. s \in Session
  BY <1>1, <1>5, <1>6 DEF Session
<1>8. /\ s.wire = wire /\ s.socket = v.dev.socket /\ s.socketToken = v.dev.socketToken
      /\ s.state = v.dev.state /\ s.disposed = v.dev.disposed /\ s.moving = v.dev.moving
      /\ s.scheduleVersion = v.dev.scheduleVersion /\ s.entries = v.dev.entries
  BY <1>1 DEF Session
<1> HIDE DEF s
<1>9. SessionInv(s)
  BY <1>1, <1>5, <1>7, <1>8 DEF SessionInv, SocketInv
<1>10. [v EXCEPT !.dev = s] \in View /\ [v EXCEPT !.dev = s].dev = s
       /\ [v EXCEPT !.dev = s].running = v.running
  BY <1>1, <1>7 DEF View
<1> QED BY <1>4, <1>8, <1>9, <1>10 DEF Kept, ViewInv, Scheduled

LEMMA WritePacketLemma ==
    ASSUME NEW v, ViewInv(v), ~v.dev.disposed, NEW kind, NEW result
    PROVE  /\ Kept(v, WritePacket(v, kind, result))
           /\ ~WriteSucceeds(v, result) => Scheduled(WritePacket(v, kind, result))
<1>1. CASE WriteSucceeds(v, result)
  BY <1>1, WrittenLemma DEF WritePacket, WriteSucceeds
<1>2. CASE ~WriteSucceeds(v, result)
  BY <1>2, GiveUpLemma DEF WritePacket
<1> QED BY <1>1, <1>2

LEMMA SendLoginLemma ==
    ASSUME NEW v, ViewInv(v), ~v.dev.disposed, NEW result,
           v.dev.state \in {"CONNECTING", "LOGIN_SENT"},
           \A t \in Tokens : v.dev.wire[t].phase # "opening"
    PROVE  Kept(v, SendLogin(v, result)) /\ Scheduled(SendLogin(v, result))
<1> DEFINE w == SetState(v, "LOGIN_SENT")
           u == [w EXCEPT !.dev.loginAttempts = @ + 1]
<1>1. v \in View /\ v.dev \in Session /\ SessionInv(v.dev)
  BY DEF ViewInv, View
<1>2. /\ w \in View /\ w.running = v.running
      /\ w.dev = [v.dev EXCEPT !.state = "LOGIN_SENT"]
  BY <1>1, SetStateLemma DEF SessionState
<1> HIDE DEF w
<1> DEFINE n == w.dev.loginAttempts + 1
           s == [w.dev EXCEPT !.loginAttempts = n]
<1>3. w.dev \in Session /\ n \in Nat /\ u = [w EXCEPT !.dev = s]
  BY <1>2 DEF View, Session
<1> HIDE DEF n
<1>4. s \in Session
  BY <1>3 DEF Session
<1>5. /\ s.state = "LOGIN_SENT" /\ s.wire = v.dev.wire
      /\ s.socket = v.dev.socket /\ s.socketToken = v.dev.socketToken
      /\ s.disposed = v.dev.disposed /\ s.moving = v.dev.moving
      /\ s.scheduleVersion = v.dev.scheduleVersion /\ s.entries = v.dev.entries
  BY <1>1, <1>2, <1>3 DEF Session
<1> HIDE DEF s
<1>6. SessionInv(s)
  BY <1>1, <1>4, <1>5 DEF SessionInv, SocketInv
<1>7. u \in View /\ u.dev = s /\ u.running = v.running
  BY <1>2, <1>3, <1>4 DEF View
<1>8. ViewInv(u) /\ ~u.dev.disposed
  BY <1>5, <1>6, <1>7 DEF ViewInv
<1>9. CASE ~v.dev.socketConnected
  BY <1>9, GiveUpLemma DEF SendLogin
<1>10. CASE v.dev.socketConnected /\ WriteSucceeds(u, result)
  <2> DEFINE x == Written(u, "login", result)
  <2> HIDE DEF u
  <2>1. SendLogin(v, result) = Schedule(x)
    BY <1>10 DEF SendLogin, u, w
  <2>2. ViewInv(x) /\ x.running = u.running /\ ~x.dev.disposed
    BY <1>8, <1>10, WrittenLemma DEF WriteSucceeds, Kept
  <2> HIDE DEF x
  <2>3. ViewInv(Schedule(x)) /\ Scheduled(Schedule(x)) /\ Schedule(x).running = x.running
        /\ ~Schedule(x).dev.disposed
    BY <2>2, ScheduleLemma
  <2> QED BY <1>7, <2>1, <2>2, <2>3 DEF Kept
<1>11. CASE v.dev.socketConnected /\ ~WriteSucceeds(u, result)
  <2>1. SendLogin(v, result) = BeginReconnect(u)
    BY <1>11 DEF SendLogin, w
  <2> QED BY <1>7, <1>8, <2>1, GiveUpLemma DEF Kept
<1> QED BY <1>9, <1>10, <1>11

LEMMA SendIfDueLemma ==
    ASSUME NEW v, ViewInv(v), ~v.dev.disposed, NEW isDue \in BOOLEAN, NEW result
    PROVE  /\ Kept(v, SendIfDue(v, isDue, result))
           /\ SendFails(v, isDue, result) => Scheduled(SendIfDue(v, isDue, result))
<1>1. CASE isDue
  BY <1>1, WritePacketLemma DEF SendIfDue, SendFails
<1>2. CASE ~isDue
  BY <1>2 DEF SendIfDue, SendFails, Kept
<1> QED BY <1>1, <1>2

LEMMA RescheduleLemma ==
    ASSUME NEW v, ViewInv(v), ~v.dev.disposed
    PROVE  Kept(v, Schedule(v)) /\ Scheduled(Schedule(v))
BY ScheduleLemma DEF Kept

LEMMA SendOnlinePacketsLemma ==
    ASSUME NEW v, ViewInv(v), ~v.dev.disposed, NEW due, NEW a, NEW b
    PROVE  LET r == SendOnlinePackets(v, due, a, b) IN
           Kept(v, r) /\ Scheduled(r)
<1> DEFINE hb == "heartbeat" \in due
           loc == "location" \in due
           h == SendIfDue(v, hb, a)
           l == SendIfDue(h, loc, b)
<1>0. hb \in BOOLEAN /\ loc \in BOOLEAN
  OBVIOUS
<1>1. Kept(v, h) /\ (SendFails(v, hb, a) => Scheduled(h))
  BY <1>0, SendIfDueLemma
<1>2. ViewInv(h) /\ ~h.dev.disposed
  BY <1>1 DEF Kept
<1>3. Kept(h, l) /\ (SendFails(h, loc, b) => Scheduled(l))
  BY <1>0, <1>2, SendIfDueLemma
<1>4. ViewInv(l) /\ ~l.dev.disposed
  BY <1>3 DEF Kept
<1>5. CASE v.dev.backpressured
  BY <1>5, RescheduleLemma DEF SendOnlinePackets
<1>6. CASE ~v.dev.backpressured /\ SendFails(v, hb, a)
  BY <1>1, <1>6 DEF SendOnlinePackets
<1>7. CASE ~v.dev.backpressured /\ ~SendFails(v, hb, a) /\ SendFails(h, loc, b)
  <2>1. SendOnlinePackets(v, due, a, b) = l
    BY <1>7 DEF SendOnlinePackets
  <2> QED BY <1>1, <1>3, <1>7, <2>1 DEF Kept
<1>8. CASE ~v.dev.backpressured /\ ~SendFails(v, hb, a) /\ ~SendFails(h, loc, b)
  <2>1. SendOnlinePackets(v, due, a, b) = Schedule(l)
    BY <1>8 DEF SendOnlinePackets
  <2> HIDE DEF h, l
  <2>2. Kept(l, Schedule(l)) /\ Scheduled(Schedule(l))
    BY <1>4, RescheduleLemma
  <2> QED BY <1>1, <1>3, <2>1, <2>2 DEF Kept
<1> QED BY <1>5, <1>6, <1>7, <1>8

-----------------------------------------------------------------------------
(* The callbacks                                                           *)

LEMMA ConnectLemma ==
    ASSUME NEW v, ViewInv(v), v.running, ~v.dev.disposed,
           v.dev.state \in {"PENDING", "BACKOFF"}, NEW dial
    PROVE  Kept(v, Connect(v, dial)) /\ Scheduled(Connect(v, dial))
<1> DEFINE w == DestroySocket(v)
           u == [w EXCEPT !.dev.loginAttempts = 0, !.dev.backpressured = FALSE]
           c == SetState(u, "CONNECTING")
           t == NextToken(c.dev.socketToken)
           n == [c EXCEPT !.dev.socketToken = t]
           o == [n EXCEPT !.dev.socket = t,
                          !.dev.wire[t] = [NoWire EXCEPT !.phase = "opening"]]
<1>1. v \in View /\ SocketInv(v.dev) /\ SessionInv(v.dev) /\ v.dev.moving \in BOOLEAN
  BY DEF ViewInv, SessionInv, View, Session
<1>2. /\ w \in View /\ w.running = v.running /\ w.dev \in Session
      /\ w.dev.socket = NoSocket /\ w.dev.disposed = v.dev.disposed
      /\ w.dev.moving = v.dev.moving
      /\ \A x \in Tokens : w.dev.wire[x].phase = "none"
  BY <1>1, DestroySocketLemma DEF SocketInv
<1>3. w.dev.moving = FALSE /\ w.dev.disposed = FALSE
  BY <1>1, <1>2 DEF SessionInv, Session
<1>4. Connect(v, dial) = CASE dial = "dialing"  -> Schedule(o)
                           [] dial = "noSocket" -> BeginReconnect(n)
                           [] OTHER             -> BeginReconnect(o)
  BY DEF Connect
<1> HIDE DEF w
\* After the reset: no socket, no wire, CONNECTING.
<1> DEFINE su == [w.dev EXCEPT !.loginAttempts = 0, !.backpressured = FALSE]
<1>5. /\ u = [w EXCEPT !.dev = su] /\ su \in Session
      /\ su.socket = NoSocket /\ su.disposed = FALSE /\ su.moving = FALSE
      /\ su.wire = w.dev.wire
  BY <1>2, <1>3 DEF View, Session
<1> HIDE DEF su
<1>6. u \in View /\ u.dev = su /\ u.running = v.running
  BY <1>2, <1>5 DEF View
<1> HIDE DEF u
<1>7. /\ c \in View /\ c.running = v.running
      /\ c.dev = [su EXCEPT !.state = "CONNECTING"]
  BY <1>6, SetStateLemma DEF SessionState
<1>8. /\ c.dev \in Session /\ c.dev.state = "CONNECTING" /\ c.dev.socket = NoSocket
      /\ c.dev.disposed = FALSE /\ c.dev.moving = FALSE /\ c.dev.wire = w.dev.wire
  BY <1>5, <1>7 DEF Session, SessionState
<1> HIDE DEF c
<1>9. t \in Tokens
  BY <1>8, TokenFacts DEF Session
<1> HIDE DEF t
\* A new token, and no socket yet.
<1> DEFINE sn == [c.dev EXCEPT !.socketToken = t]
<1>10. /\ n = [c EXCEPT !.dev = sn] /\ sn \in Session /\ sn.socketToken = t
       /\ sn.state = "CONNECTING" /\ sn.socket = NoSocket
       /\ sn.disposed = FALSE /\ sn.moving = FALSE /\ sn.wire = w.dev.wire
  BY <1>7, <1>8, <1>9 DEF View, Session
<1> HIDE DEF sn
<1>11. n \in View /\ n.dev = sn /\ n.running = v.running
  BY <1>7, <1>10 DEF View
<1> HIDE DEF n
<1>12. SessionInv(sn)
  BY <1>2, <1>10 DEF SessionInv, SocketInv
<1>13. ViewInv(n) /\ ~n.dev.disposed
  BY <1>10, <1>11, <1>12 DEF ViewInv
\* The socket under that token.
<1> DEFINE new == [NoWire EXCEPT !.phase = "opening"]
           wire == [sn.wire EXCEPT ![t] = new]
           so == [sn EXCEPT !.socket = t, !.wire = wire]
<1>14. new \in Wire /\ new.phase = "opening"
  BY DEF NoWire, Wire, Phase
<1> HIDE DEF new
<1>15. /\ wire \in [Tokens -> Wire]
       /\ \A x \in Tokens : wire[x].phase # "none" => x = t
  BY <1>2, <1>9, <1>10, <1>14 DEF Session
<1>16. o = [n EXCEPT !.dev = so]
  BY <1>10, <1>11 DEF View, Session, new
<1> HIDE DEF wire, o
<1>17. /\ so \in Session /\ so.socketToken = t /\ so.socket = t /\ so.wire = wire
       /\ so.state = "CONNECTING" /\ so.disposed = FALSE /\ so.moving = FALSE
  BY <1>9, <1>10, <1>15 DEF Session
<1> HIDE DEF so
<1>18. SessionInv(so)
  BY <1>15, <1>17 DEF SessionInv, SocketInv
<1>19. ViewInv(o) /\ ~o.dev.disposed /\ o.running = v.running
  <2>1. o \in View /\ o.dev = so /\ o.running = v.running
    BY <1>11, <1>16, <1>17 DEF View
  <2> QED BY <1>17, <1>18, <2>1 DEF ViewInv
<1>20. /\ Kept(o, Schedule(o)) /\ Scheduled(Schedule(o))
       /\ Kept(n, BeginReconnect(n)) /\ Scheduled(BeginReconnect(n))
       /\ Kept(o, BeginReconnect(o)) /\ Scheduled(BeginReconnect(o))
  BY <1>13, <1>19, RescheduleLemma, GiveUpLemma
<1>21. \/ Connect(v, dial) = Schedule(o)
       \/ Connect(v, dial) = BeginReconnect(n)
       \/ Connect(v, dial) = BeginReconnect(o)
  BY <1>4
<1> QED BY <1>11, <1>19, <1>20, <1>21 DEF Kept

LEMMA HandleDueLemma ==
    ASSUME NEW v, ViewInv(v), v.running, ~v.dev.disposed, NEW r \in HandleDue(v)
    PROVE  Kept(v, r) /\ Scheduled(r)
<1>1. v.dev.state \in SessionState /\ (v.dev.state = "STOPPED" <=> v.dev.disposed)
  BY DEF ViewInv, View, Session, SessionInv
<1>2. \A t \in Tokens : v.dev.wire[t].phase = "opening" => v.dev.state = "CONNECTING"
  BY DEF ViewInv, SessionInv
<1>3. CASE v.dev.state \in {"PENDING", "BACKOFF"}
  <2>1. PICK dial \in DialResult : r = Connect(v, dial)
    BY <1>3 DEF HandleDue
  <2> QED BY <1>3, <2>1, ConnectLemma
<1>4. CASE v.dev.state = "LOGIN_SENT" /\ LoginMayRetry(v)
  <2>1. PICK a \in WriteResult : r = SendLogin(v, a)
    BY <1>4 DEF HandleDue
  <2> QED BY <1>2, <1>4, <2>1, SendLoginLemma
<1>5. CASE v.dev.state = "CONNECTING" \/ (v.dev.state = "LOGIN_SENT" /\ ~LoginMayRetry(v))
  <2>1. r = BeginReconnect(v)
    BY <1>5 DEF HandleDue
  <2> QED BY <2>1, GiveUpLemma
<1>6. CASE v.dev.state = "ONLINE"
  <2>1. PICK due \in SUBSET Packets, a \in WriteResult, b \in WriteResult :
            r = SendOnlinePackets(v, due, a, b)
    BY <1>6 DEF HandleDue
  <2> QED BY <2>1, SendOnlinePacketsLemma
<1> QED BY <1>1, <1>3, <1>4, <1>5, <1>6 DEF SessionState

LEMMA PromoteOnlineLemma ==
    ASSUME NEW v, ViewInv(v), ~v.dev.disposed, v.dev.state = "LOGIN_SENT",
           NEW a, NEW b
    PROVE  Kept(v, PromoteOnline(v, a, b))
<1> DEFINE w == SetState(v, "ONLINE")
           s == [w.dev EXCEPT !.moving = TRUE]
           u == [w EXCEPT !.dev = s]
<1>1. v \in View /\ v.dev \in Session /\ SessionInv(v.dev)
  BY DEF ViewInv, View
<1>2. /\ w \in View /\ w.running = v.running
      /\ w.dev = [v.dev EXCEPT !.state = "ONLINE"]
  BY <1>1, SetStateLemma DEF SessionState
<1>3. [w EXCEPT !.dev.moving = TRUE] = u
  BY <1>2 DEF View
<1>4. PromoteOnline(v, a, b) = SendOnlinePackets(u, Packets, a, b)
  BY <1>3 DEF PromoteOnline
<1> HIDE DEF w
<1>5. /\ s \in Session /\ s.state = "ONLINE" /\ s.wire = v.dev.wire
      /\ s.socket = v.dev.socket /\ s.socketToken = v.dev.socketToken
      /\ s.disposed = v.dev.disposed
      /\ s.scheduleVersion = v.dev.scheduleVersion /\ s.entries = v.dev.entries
  BY <1>1, <1>2 DEF Session, SessionState
<1> HIDE DEF s
<1>6. SessionInv(s)
  BY <1>1, <1>5 DEF SessionInv, SocketInv
<1>7. ViewInv(u) /\ ~u.dev.disposed /\ u.running = v.running
  BY <1>2, <1>5, <1>6 DEF ViewInv, View
<1> HIDE DEF u
<1>8. Kept(u, SendOnlinePackets(u, Packets, a, b)) /\ Scheduled(SendOnlinePackets(u, Packets, a, b))
  BY <1>7, SendOnlinePacketsLemma
<1> QED BY <1>4, <1>7, <1>8 DEF Kept

\* An event of the network that leaves the socket in the phase it was in, or
\* takes it out of "opening", disturbs nothing the session relies on.
LEMMA RewireLemma ==
    ASSUME NEW v, ViewInv(v), NEW t \in Tokens, NEW w \in Wire,
           \/ w.phase = v.dev.wire[t].phase
           \/ w.phase = "none"
           \/ v.dev.wire[t].phase # "none" /\ w.phase # "opening"
    PROVE  LET r == [v EXCEPT !.dev.wire[t] = w] IN
           /\ ViewInv(r) /\ r.running = v.running
           /\ r.dev.wire = [v.dev.wire EXCEPT ![t] = w]
           /\ r.dev.state = v.dev.state /\ r.dev.disposed = v.dev.disposed
           /\ r.dev.socket = v.dev.socket /\ r.dev.socketToken = v.dev.socketToken
           /\ Scheduled(v) => Scheduled(r)
           /\ ~v.dev.disposed => Kept(v, r)
<1> DEFINE wire == [v.dev.wire EXCEPT ![t] = w]
           s == [v.dev EXCEPT !.wire = wire]
           r == [v EXCEPT !.dev = s]
<1>1. v \in View /\ v.dev \in Session /\ SessionInv(v.dev)
  BY DEF ViewInv, View
<1>2. v.dev.wire \in [Tokens -> Wire] /\ wire \in [Tokens -> Wire]
  BY <1>1 DEF Session
<1>3. [v EXCEPT !.dev.wire[t] = w] = r
  BY <1>1 DEF View, Session
<1>4. \A x \in Tokens : wire[x] = IF x = t THEN w ELSE v.dev.wire[x]
  BY <1>2
<1> HIDE DEF wire
<1>5. /\ s \in Session /\ s.wire = wire
      /\ s.state = v.dev.state /\ s.disposed = v.dev.disposed /\ s.moving = v.dev.moving
      /\ s.socket = v.dev.socket /\ s.socketToken = v.dev.socketToken
      /\ s.scheduleVersion = v.dev.scheduleVersion /\ s.entries = v.dev.entries
  BY <1>1, <1>2 DEF Session
<1> HIDE DEF s
<1>6. SessionInv(s)
  BY <1>1, <1>4, <1>5 DEF SessionInv, SocketInv
<1>7. r \in View /\ r.dev = s /\ r.running = v.running
  BY <1>1, <1>5 DEF View
<1> HIDE DEF r
<1> QED BY <1>3, <1>5, <1>6, <1>7 DEF ViewInv, Scheduled, Kept, wire

LEMMA OnFrameLemma ==
    ASSUME NEW v, ViewInv(v), ~v.dev.disposed, NEW token \in Tokens,
           NEW frame, NEW a, NEW b
    PROVE  Kept(v, OnFrame(v, token, frame, a, b))
<1> DEFINE u == IF frame = "loginAck" /\ v.dev.wire[token].phase = "open"
                THEN [v EXCEPT !.dev.wire[token].acked = TRUE] ELSE v
<1>1. Kept(v, u) /\ u.dev.state = v.dev.state
  <2>1. CASE ~(frame = "loginAck" /\ v.dev.wire[token].phase = "open")
    BY <2>1 DEF Kept
  <2>2. CASE frame = "loginAck" /\ v.dev.wire[token].phase = "open"
    <3> DEFINE new == [v.dev.wire[token] EXCEPT !.acked = TRUE]
    <3>1. v \in View /\ v.dev \in Session /\ SessionInv(v.dev)
      BY DEF ViewInv, View
    <3>2. new \in Wire /\ new.phase = v.dev.wire[token].phase
      BY <3>1 DEF Session, Wire
    <3>3. u = [v EXCEPT !.dev.wire[token] = new]
      BY <2>2, <3>1 DEF View, Session
    <3> HIDE DEF u, new
    <3> QED BY <3>2, <3>3, RewireLemma
  <2> QED BY <2>1, <2>2
<1> HIDE DEF u
<1>2. ViewInv(u) /\ ~u.dev.disposed
  BY <1>1 DEF Kept
<1>3. CASE frame = "loginAck" /\ u.dev.state = "LOGIN_SENT"
  <2>1. OnFrame(v, token, frame, a, b) = PromoteOnline(u, a, b)
    BY <1>3 DEF OnFrame, u
  <2> QED BY <1>1, <1>2, <1>3, <2>1, PromoteOnlineLemma DEF Kept
<1>4. CASE frame = "command"
  <2>1. OnFrame(v, token, frame, a, b) = HandleCommand(u, a)
    BY <1>4 DEF OnFrame, u
  <2>2. Kept(u, HandleCommand(u, a))
    BY <1>2, WritePacketLemma DEF HandleCommand, Kept
  <2> QED BY <1>1, <2>1, <2>2 DEF Kept
<1>5. CASE frame # "command" /\ ~(frame = "loginAck" /\ u.dev.state = "LOGIN_SENT")
  <2>1. OnFrame(v, token, frame, a, b) = u
    BY <1>5 DEF OnFrame, u
  <2> QED BY <1>1, <2>1
<1> QED BY <1>3, <1>4, <1>5

LEMMA OnDataLemma ==
    ASSUME NEW v, ViewInv(v), NEW token \in Tokens, NEW f, NEW g,
           NEW r \in OnData(v, token, f, g)
    PROVE  ViewInv(r) /\ r.running = v.running /\ (Scheduled(v) => Scheduled(r))
<1>1. CASE ~IsCurrentSocket(v, token)
  BY <1>1 DEF OnData
<1>2. CASE IsCurrentSocket(v, token)
  <2>1. ~v.dev.disposed
    BY <1>2 DEF IsCurrentSocket
  <2>2. PICK a \in WriteResult, b \in WriteResult, c \in WriteResult, e \in WriteResult :
            r = OnFrame(OnFrame(v, token, f, a, b), token, g, c, e)
    BY <1>2 DEF OnData
  <2> DEFINE u == OnFrame(v, token, f, a, b)
  <2>3. Kept(v, u)
    BY <2>1, OnFrameLemma
  <2>4. ViewInv(u) /\ ~u.dev.disposed
    BY <2>3 DEF Kept
  <2>5. r = OnFrame(u, token, g, c, e)
    BY <2>2
  <2> HIDE DEF u
  <2>6. Kept(u, r)
    BY <2>4, <2>5, OnFrameLemma
  <2> QED BY <2>3, <2>6 DEF Kept
<1> QED BY <1>1, <1>2

LEMMA OnErrorLemma ==
    ASSUME NEW v, ViewInv(v), NEW token
    PROVE  LET r == OnError(v, token) IN
           ViewInv(r) /\ r.running = v.running /\ (Scheduled(v) => Scheduled(r))
<1>1. CASE ~IsCurrentSocket(v, token)
  BY <1>1 DEF OnError
<1>2. CASE IsCurrentSocket(v, token)
  BY <1>2, GiveUpLemma DEF OnError, IsCurrentSocket, Kept
<1> QED BY <1>1, <1>2

LEMMA OnDrainLemma ==
    ASSUME NEW v, ViewInv(v), NEW token
    PROVE  LET r == OnDrain(v, token) IN
           ViewInv(r) /\ r.running = v.running /\ (Scheduled(v) => Scheduled(r))
<1> DEFINE s == [v.dev EXCEPT !.backpressured = FALSE]
           u == [v EXCEPT !.dev = s]
<1>1. v \in View /\ v.dev \in Session /\ SessionInv(v.dev)
  BY DEF ViewInv, View
<1>2. [v EXCEPT !.dev.backpressured = FALSE] = u
  BY <1>1 DEF View
<1>3. /\ s \in Session /\ s.wire = v.dev.wire
      /\ s.state = v.dev.state /\ s.disposed = v.dev.disposed /\ s.moving = v.dev.moving
      /\ s.socket = v.dev.socket /\ s.socketToken = v.dev.socketToken
      /\ s.scheduleVersion = v.dev.scheduleVersion /\ s.entries = v.dev.entries
  BY <1>1 DEF Session
<1>4. OnDrain(v, token) = IF ~IsCurrentSocket(v, token) THEN v
                          ELSE IF u.dev.state = "ONLINE" THEN Schedule(u) ELSE u
  BY <1>2 DEF OnDrain
<1> HIDE DEF s
<1>5. SessionInv(s)
  BY <1>1, <1>3 DEF SessionInv, SocketInv
<1>6. u \in View /\ u.dev = s /\ u.running = v.running
  BY <1>1, <1>3 DEF View
<1> HIDE DEF u
<1>7. ViewInv(u) /\ (Scheduled(v) => Scheduled(u)) /\ u.dev.disposed = v.dev.disposed
  BY <1>3, <1>5, <1>6 DEF ViewInv, Scheduled
<1>8. ~v.dev.disposed => Kept(u, Schedule(u)) /\ Scheduled(Schedule(u))
  BY <1>7, RescheduleLemma
<1> QED BY <1>4, <1>6, <1>7, <1>8 DEF Kept, IsCurrentSocket

\* The socket that closed was the session's only one.
LEMMA OnCloseLemma ==
    ASSUME NEW v, ViewInv(v), NEW token \in Tokens, v.dev.wire[token].phase = "none"
    PROVE  LET r == OnClose(v, token) IN
           ViewInv(r) /\ r.running = v.running /\ (Scheduled(v) => Scheduled(r))
<1>1. CASE ~IsCurrentSocket(v, token)
  BY <1>1 DEF OnClose
<1>2. CASE IsCurrentSocket(v, token)
  <2> DEFINE m == MarkSocketDisconnected(v)
             s == [m.dev EXCEPT !.socket = NoSocket]
             u == [m EXCEPT !.dev = s]
  <2>1. v \in View /\ v.dev \in Session /\ SessionInv(v.dev) /\ SocketInv(v.dev)
        /\ ~v.dev.disposed /\ v.dev.socket = token
    BY <1>2 DEF ViewInv, View, SessionInv, SocketInv, IsCurrentSocket
  <2>2. \A t \in Tokens : v.dev.wire[t].phase = "none"
    BY <2>1 DEF SocketInv
  <2>3. /\ m \in View /\ m.running = v.running
        /\ m.dev = [v.dev EXCEPT !.socketConnected = FALSE]
    BY <2>1, MarkSocketDisconnectedLemma
  <2>4. OnClose(v, token) = IF u.dev.state \in {"BACKOFF", "STOPPED"} THEN u
                            ELSE BeginReconnect(u)
    BY <1>2, <2>3 DEF OnClose, View
  <2> HIDE DEF m
  <2>5. /\ s \in Session /\ s.wire = v.dev.wire
        /\ s.state = v.dev.state /\ s.disposed = v.dev.disposed /\ s.moving = v.dev.moving
        /\ s.socket = NoSocket
        /\ s.scheduleVersion = v.dev.scheduleVersion /\ s.entries = v.dev.entries
    BY <2>1, <2>3 DEF Session
  <2> HIDE DEF s
  <2>6. SessionInv(s)
    BY <2>1, <2>2, <2>5 DEF SessionInv, SocketInv
  <2>7. u \in View /\ u.dev = s /\ u.running = v.running
    BY <2>3, <2>5 DEF View
  <2> HIDE DEF u
  <2>8. ViewInv(u) /\ (Scheduled(v) => Scheduled(u)) /\ ~u.dev.disposed
    BY <2>1, <2>5, <2>6, <2>7 DEF ViewInv, Scheduled
  <2>9. Kept(u, BeginReconnect(u))
    BY <2>8, GiveUpLemma
  <2> QED BY <2>4, <2>7, <2>8, <2>9 DEF Kept
<1> QED BY <1>1, <1>2

LEMMA OnConnectLemma ==
    ASSUME NEW v, ViewInv(v), NEW token \in Tokens, NEW a,
           v.dev.wire[token].phase = "open", v.dev.state = "CONNECTING"
    PROVE  LET r == OnConnect(v, token, a) IN
           ViewInv(r) /\ r.running = v.running /\ (Scheduled(v) => Scheduled(r))
<1>1. CASE ~IsCurrentSocket(v, token)
  BY <1>1 DEF OnConnect
<1>2. CASE IsCurrentSocket(v, token)
  <2> DEFINE s == [v.dev EXCEPT !.socketConnected = TRUE]
             k == v.tcp + 1
             u == [v EXCEPT !.dev = s, !.tcp = k]
  <2>1. v \in View /\ v.dev \in Session /\ SessionInv(v.dev) /\ ~v.dev.disposed
    BY <1>2 DEF ViewInv, View, IsCurrentSocket
  <2>2. \A t \in Tokens : v.dev.wire[t].phase # "opening"
    BY <2>1 DEF SessionInv, SocketInv
  <2>3. [v EXCEPT !.dev.socketConnected = TRUE, !.tcp = @ + 1] = u
    BY <2>1 DEF View
  <2>4. k \in Nat
    BY <2>1 DEF View
  <2>5. OnConnect(v, token, a) = SendLogin(u, a)
    BY <1>2, <2>3 DEF OnConnect
  <2> HIDE DEF k
  <2>6. s \in Session
    BY <2>1 DEF Session
  <2>7. /\ s.wire = v.dev.wire
        /\ s.state = v.dev.state /\ s.disposed = v.dev.disposed /\ s.moving = v.dev.moving
        /\ s.socket = v.dev.socket /\ s.socketToken = v.dev.socketToken
        /\ s.scheduleVersion = v.dev.scheduleVersion /\ s.entries = v.dev.entries
    BY <2>1 DEF Session
  <2> HIDE DEF s
  <2>8. SessionInv(s)
    BY <2>1, <2>6, <2>7 DEF SessionInv, SocketInv
  <2>9. u \in View /\ u.dev = s /\ u.running = v.running
    BY <2>1, <2>4, <2>6 DEF View
  <2> HIDE DEF u
  <2>10. ViewInv(u) /\ (Scheduled(v) => Scheduled(u)) /\ ~u.dev.disposed
    BY <2>1, <2>7, <2>8, <2>9 DEF ViewInv, Scheduled
  <2>11. Kept(u, SendLogin(u, a))
    BY <2>2, <2>7, <2>9, <2>10, SendLoginLemma
  <2> QED BY <2>5, <2>9, <2>10, <2>11 DEF Kept
<1> QED BY <1>1, <1>2

\* The last callback of a session; the farm no longer runs.
LEMMA DisposeLemma ==
    ASSUME NEW v, ViewInv(v)
    PROVE  ViewInv(Dispose(v)) /\ Dispose(v).running = v.running
<1>1. CASE v.dev.disposed
  BY <1>1 DEF Dispose
<1>2. CASE ~v.dev.disposed
  <2> DEFINE n == NextVersion(v.dev.scheduleVersion)
             s == [v.dev EXCEPT !.moving = FALSE, !.disposed = TRUE, !.scheduleVersion = n]
             u == [v EXCEPT !.dev = s]
             w == DestroySocket(u)
             x == SetState(w, "STOPPED")
  <2>1. v \in View /\ v.dev \in Session /\ SocketInv(v.dev) /\ n \in Versions
    BY VersionFacts DEF ViewInv, View, SessionInv, Session
  <2>2. Dispose(v) = x
    BY <1>2, <2>1 DEF Dispose, View
  <2> HIDE DEF n
  <2>3. s \in Session /\ s.moving = FALSE /\ s.disposed = TRUE /\ SocketInv(s)
    BY <2>1 DEF Session, SocketInv
  <2> HIDE DEF s
  <2>4. u \in View /\ u.dev = s /\ u.running = v.running
    BY <2>1, <2>3 DEF View
  <2> HIDE DEF u
  <2>5. /\ w \in View /\ SocketInv(w.dev) /\ w.running = v.running
        /\ w.dev.disposed = TRUE /\ w.dev.moving = FALSE
        /\ \A t \in Tokens : w.dev.wire[t].phase = "none"
    BY <2>3, <2>4, DestroySocketLemma
  <2> HIDE DEF w
  <2>6. /\ x \in View /\ x.running = v.running
        /\ x.dev = [w.dev EXCEPT !.state = "STOPPED"]
    BY <2>5, SetStateLemma DEF SessionState
  <2> HIDE DEF x
  <2>7. ViewInv(x)
    BY <2>5, <2>6 DEF ViewInv, SessionInv, SocketInv, View, Session
  <2> QED BY <2>2, <2>6, <2>7
<1> QED BY <1>1, <1>2

-----------------------------------------------------------------------------
(* The farm                                                                *)

\* The inductive invariant.
IInv ==
    /\ TypeOK
    /\ \A d \in Devices : SessionInv(session[d])
    /\ NoLostDevice

LEMMA ViewOfLemma ==
    ASSUME IInv, NEW d \in Devices
    PROVE  /\ ViewInv(ViewOf(d)) /\ ViewOf(d).dev = session[d]
           /\ ViewOf(d).running = Running
           /\ Scheduled(ViewOf(d))
<1>1. session[d] \in Session /\ tcpConnected \in Nat
      /\ stateCounts \in [SessionState -> Nat] /\ Running \in BOOLEAN
  BY DEF IInv, TypeOK, Running
<1>2. ViewOf(d) \in View /\ ViewOf(d).dev = session[d] /\ ViewOf(d).running = Running
  BY <1>1 DEF ViewOf, View
<1> QED BY <1>2 DEF IInv, ViewInv, Scheduled, NoLostDevice

\* A callback that keeps the view invariant and the schedule keeps IInv.
LEMMA ApplyLemma ==
    ASSUME IInv, NEW d \in Devices, NEW r, ViewInv(r), r.running = Running,
           Scheduled(r), Apply(d, r)
    PROVE  IInv'
<1>1. r.dev \in Session /\ SessionInv(r.dev) /\ r.tcp \in Nat
      /\ r.counts \in [SessionState -> Nat]
  BY DEF ViewInv, View
<1>2. session' = [session EXCEPT ![d] = r.dev] /\ session \in [Devices -> Session]
  BY DEF Apply, IInv, TypeOK
<1>3. \A e \in Devices : session'[e] = IF e = d THEN r.dev ELSE session[e]
  BY <1>2
<1>4. TypeOK'
  BY <1>1, <1>2 DEF Apply, IInv, TypeOK
<1>5. \A e \in Devices : SessionInv(session'[e])
  BY <1>1, <1>3 DEF IInv
<1>6. NoLostDevice'
  BY <1>3 DEF Apply, IInv, NoLostDevice, Running, Scheduled
<1> QED BY <1>4, <1>5, <1>6 DEF IInv

LEMMA CardinalityLemma ==
    ASSUME NEW D \in SUBSET Devices
    PROVE  Cardinality(D) \in Nat
<1>1. IsFiniteSet(Devices)
  BY DeviceCountAssumption, FS_Interval DEF Devices
<1> QED BY <1>1, FS_Subset, FS_CardinalityType

\* stop() leaves every session it disposes, and every other, as the invariant
\* wants it; the heap no longer matters because the farm does not run.
LEMMA DisposeAllLemma ==
    ASSUME IInv, NEW D \in SUBSET Devices, NEW heap \in [Devices -> SUBSET Versions],
           DisposeAll(D, heap)
    PROVE  /\ \A d \in Devices : SessionInv(session'[d])
           /\ session' \in [Devices -> Session]
           /\ tcpConnected' \in Nat
           /\ stateCounts' \in [SessionState -> Nat]
<1> DEFINE live == {d \in D : ~session[d].disposed}
           v(d) == [ViewOf(d) EXCEPT !.dev.entries = heap[d], !.running = FALSE]
           s(d) == IF d \in live THEN Dispose(v(d)).dev ELSE v(d).dev
<1>1. ASSUME NEW d \in Devices PROVE SessionInv(s(d)) /\ s(d) \in Session
  <2> DEFINE e == [session[d] EXCEPT !.entries = heap[d]]
             u == [ViewOf(d) EXCEPT !.dev = e, !.running = FALSE]
  <2>1. ViewInv(ViewOf(d)) /\ ViewOf(d).dev = session[d]
    BY ViewOfLemma
  <2>2. heap[d] \in SUBSET Versions
    OBVIOUS
  <2>3. v(d) = u
    BY <2>1 DEF ViewInv, View
  <2>4. /\ e \in Session /\ e.wire = session[d].wire
        /\ e.state = session[d].state /\ e.disposed = session[d].disposed
        /\ e.moving = session[d].moving
        /\ e.socket = session[d].socket /\ e.socketToken = session[d].socketToken
    BY <2>1, <2>2 DEF ViewInv, View, Session
  <2> HIDE DEF e
  <2>5. SessionInv(e)
    BY <2>1, <2>4 DEF ViewInv, SessionInv, SocketInv
  <2>6. u \in View /\ u.dev = e
    BY <2>1, <2>4 DEF ViewInv, View
  <2> HIDE DEF u, v
  <2>7. ViewInv(v(d)) /\ ViewInv(Dispose(v(d)))
    BY <2>3, <2>5, <2>6, DisposeLemma DEF ViewInv
  <2>8. s(d) = v(d).dev \/ s(d) = Dispose(v(d)).dev
    OBVIOUS
  <2> HIDE DEF s
  <2> QED BY <2>7, <2>8 DEF ViewInv, View
<1>2. session' = [d \in Devices |-> s(d)]
  BY DEF DisposeAll
<1> HIDE DEF s
<1>3. \A d \in Devices : session'[d] = s(d)
  BY <1>2
<1>4. tcpConnected \in Nat /\ stateCounts \in [SessionState -> Nat]
  BY DEF IInv, TypeOK
<1> DEFINE n == Cardinality({d \in live : session[d].socketConnected})
<1>5. n \in Nat
  BY CardinalityLemma
<1>6. tcpConnected' = IF tcpConnected > n THEN tcpConnected - n ELSE 0
  BY DEF DisposeAll
<1> HIDE DEF n
<1>7. tcpConnected' \in Nat
  BY <1>4, <1>5, <1>6
<1> DEFINE out(x) == Cardinality(InState(live, x))
           more(x) == Cardinality(live \ InState(live, x))
           k(x) == IF x = "STOPPED" THEN stateCounts[x] + more(x)
                   ELSE IF stateCounts[x] > out(x) THEN stateCounts[x] - out(x) ELSE 0
<1>8. \A x \in SessionState : out(x) \in Nat /\ more(x) \in Nat
  BY CardinalityLemma DEF InState
<1>9. stateCounts' = [x \in SessionState |-> k(x)]
  BY DEF DisposeAll
<1> HIDE DEF out, more
<1>10. \A x \in SessionState : k(x) \in Nat
  BY <1>4, <1>8
<1>11. stateCounts' \in [SessionState -> Nat]
  BY <1>9, <1>10
<1> QED BY <1>1, <1>2, <1>3, <1>7, <1>11

LEMMA InitIInv == Init => IInv
<1> SUFFICES ASSUME Init PROVE IInv
  OBVIOUS
<1>1. NewSession \in Session /\ SocketInv(NewSession)
  <2>1. NewSession.wire \in [Tokens -> Wire]
    BY WireFacts DEF NewSession
  <2>2. \A t \in Tokens : NewSession.wire[t].phase = "none"
    BY DEF NewSession, NoWire
  <2> QED BY <2>1, <2>2, TokenFacts, VersionFacts
          DEF NewSession, Session, SessionState, SocketInv, NoWire
<1>2. SessionInv(NewSession)
  BY <1>1, WireFacts DEF NewSession, SessionInv, NoWire
<1>3. TypeOK
  BY <1>1 DEF Init, TypeOK, FarmStatus
<1>4. NoLostDevice
  BY DEF Init, NoLostDevice, Running
<1> QED BY <1>2, <1>3, <1>4 DEF IInv, Init

LEMMA StartStep == IInv /\ Start => IInv'
<1> SUFFICES ASSUME IInv, Start PROVE IInv'
  OBVIOUS
<1> DEFINE s == [NewSession EXCEPT !.scheduleVersion = 1, !.entries = {1}]
<1>1. NewSession \in Session /\ SessionInv(NewSession)
  <2>1. NewSession.wire \in [Tokens -> Wire]
    BY WireFacts DEF NewSession
  <2>2. \A t \in Tokens : NewSession.wire[t].phase = "none"
    BY DEF NewSession, NoWire
  <2>3. NewSession \in Session
    BY <2>1, TokenFacts, VersionFacts DEF NewSession, Session, SessionState
  <2> QED BY <2>2, <2>3 DEF NewSession, SessionInv, SocketInv
<1>2. /\ s \in Session /\ s.scheduleVersion \in s.entries
      /\ s.wire = NewSession.wire /\ s.state = NewSession.state
      /\ s.disposed = FALSE /\ s.moving = NewSession.moving
      /\ s.socket = NewSession.socket /\ s.socketToken = NewSession.socketToken
  <2>1. NewSession.disposed = FALSE
    BY DEF NewSession
  <2> QED BY <1>1, <2>1, VersionFacts DEF Session
<1> HIDE DEF s
<1>3. SessionInv(s)
  BY <1>1, <1>2 DEF SessionInv, SocketInv, NewSession
<1>4. session' = [d \in Devices |-> s]
  BY DEF Start, s
<1>5. stateCounts' \in [SessionState -> Nat]
  <2>1. stateCounts \in [SessionState -> Nat] /\ "PENDING" \in SessionState
    BY DEF IInv, TypeOK, SessionState
  <2>2. stateCounts["PENDING"] + DeviceCount \in Nat
    BY <2>1, DeviceCountAssumption
  <2> QED BY <2>1, <2>2 DEF Start
<1>6. TypeOK'
  BY <1>2, <1>4, <1>5 DEF Start, IInv, TypeOK, FarmStatus
<1>7. NoLostDevice'
  BY <1>2, <1>4 DEF NoLostDevice
<1> QED BY <1>3, <1>4, <1>6, <1>7 DEF IInv

LEMMA StopStep == IInv /\ (Stop \/ StopChunk) => IInv'
<1> SUFFICES ASSUME IInv, Stop \/ StopChunk PROVE IInv'
  OBVIOUS
<1>1. PICK D \in SUBSET Devices, heap \in [Devices -> SUBSET Versions] : DisposeAll(D, heap)
  <2>1. CASE Stop
    <3>1. Chunk(0) \in SUBSET Devices /\ [d \in Devices |-> {}] \in [Devices -> SUBSET Versions]
      BY DEF Chunk
    <3> QED BY <2>1, <3>1 DEF Stop
  <2>2. CASE StopChunk
    <3>1. \A d \in Devices : session[d].entries \in SUBSET Versions
      BY DEF IInv, TypeOK, Session
    <3>2. Chunk(disposeFrom) \in SUBSET Devices
      BY DEF Chunk
    <3>3. [d \in Devices |-> session[d].entries] \in [Devices -> SUBSET Versions]
      BY <3>1
    <3> QED BY <2>2, <3>2, <3>3 DEF StopChunk
  <2> QED BY <2>1, <2>2
<1>2. /\ \A d \in Devices : SessionInv(session'[d])
      /\ session' \in [Devices -> Session]
      /\ tcpConnected' \in Nat
      /\ stateCounts' \in [SessionState -> Nat]
  BY <1>1, DisposeAllLemma
<1>3. /\ disposeFrom' \in Nat /\ status' \in {"stopping", "stopped"}
      /\ pumping' \in BOOLEAN
  <2>1. disposeFrom \in Nat /\ pumping \in BOOLEAN
    BY DEF IInv, TypeOK
  <2>2. PICK from \in Nat : Finish(from)
    BY <2>1, DisposeChunkAssumption DEF Stop, StopChunk
  <2>3. pumping' \in BOOLEAN
    BY <2>1 DEF Stop, StopChunk
  <2>4. disposeFrom' \in Nat /\ status' \in {"stopping", "stopped"}
    BY <2>2 DEF Finish
  <2> QED BY <2>3, <2>4
<1>4. TypeOK'
  BY <1>2, <1>3 DEF TypeOK, FarmStatus
<1>5. NoLostDevice'
  BY <1>3 DEF NoLostDevice, Running
<1> QED BY <1>2, <1>4, <1>5 DEF IInv

\* The entry the pump takes is the live one; the callback makes a new one.
LEMMA PumpStep ==
    ASSUME IInv, NEW d \in Devices, Pump(d)
    PROVE  IInv'
<1> DEFINE left == session[d].entries \ {session[d].scheduleVersion}
           s == [session[d] EXCEPT !.entries = left]
           v == [ViewOf(d) EXCEPT !.dev = s]
<1>1. ViewInv(ViewOf(d)) /\ ViewOf(d).dev = session[d] /\ ViewOf(d).running = Running
  BY ViewOfLemma
<1>2. Popped(d) = v
  BY <1>1 DEF Popped, ViewInv, View
<1>3. /\ s \in Session /\ s.wire = session[d].wire
      /\ s.state = session[d].state /\ s.disposed = session[d].disposed
      /\ s.moving = session[d].moving
      /\ s.socket = session[d].socket /\ s.socketToken = session[d].socketToken
  BY <1>1 DEF ViewInv, View, Session
<1> HIDE DEF s
<1>4. SessionInv(s)
  BY <1>1, <1>3 DEF ViewInv, SessionInv, SocketInv
<1>5. v \in View /\ v.dev = s /\ v.running = Running
  BY <1>1, <1>3 DEF ViewInv, View
<1> HIDE DEF v
<1>6. ViewInv(v) /\ v.running /\ ~v.dev.disposed
  BY <1>3, <1>4, <1>5 DEF ViewInv, Pump, DueEntry
<1>7. PICK r \in HandleDue(v) : Apply(d, r)
  BY <1>2 DEF Pump
<1>8. Kept(v, r) /\ Scheduled(r)
  BY <1>6, HandleDueLemma
<1> QED BY <1>5, <1>7, <1>8, ApplyLemma DEF Kept

LEMMA PumpStaleStep ==
    ASSUME IInv, NEW d \in Devices, PumpStale(d)
    PROVE  IInv'
<1>1. PICK n \in session[d].entries :
        /\ n # session[d].scheduleVersion \/ session[d].disposed
        /\ Apply(d, [ViewOf(d) EXCEPT !.dev.entries = @ \ {n}])
  BY DEF PumpStale
<1> DEFINE left == session[d].entries \ {n}
           s == [session[d] EXCEPT !.entries = left]
           v == [ViewOf(d) EXCEPT !.dev = s]
<1>2. /\ ViewInv(ViewOf(d)) /\ ViewOf(d).dev = session[d]
      /\ ViewOf(d).running = Running /\ Scheduled(ViewOf(d))
  BY ViewOfLemma
<1>3. [ViewOf(d) EXCEPT !.dev.entries = @ \ {n}] = v
  BY <1>2 DEF ViewInv, View
<1>4. /\ s \in Session /\ s.wire = session[d].wire
      /\ s.state = session[d].state /\ s.disposed = session[d].disposed
      /\ s.moving = session[d].moving
      /\ s.socket = session[d].socket /\ s.socketToken = session[d].socketToken
      /\ s.scheduleVersion = session[d].scheduleVersion /\ s.entries = left
  BY <1>2 DEF ViewInv, View, Session
<1> HIDE DEF s
<1>5. SessionInv(s)
  BY <1>2, <1>4 DEF ViewInv, SessionInv, SocketInv
<1>6. v \in View /\ v.dev = s /\ v.running = Running
  BY <1>2, <1>4 DEF ViewInv, View
<1> HIDE DEF v
<1>7. ViewInv(v) /\ Scheduled(v)
  BY <1>1, <1>2, <1>4, <1>5, <1>6 DEF ViewInv, Scheduled
<1> QED BY <1>1, <1>3, <1>6, <1>7, ApplyLemma

LEMMA NetEventStep ==
    ASSUME IInv, NEW d \in Devices, NetEvent(d)
    PROVE  IInv'
<1>1. PICK t \in Tokens :
        \/ \E a \in WriteResult : NetConnect(d, t, a)
        \/ \E f \in Frames, g \in Frames \cup {NoFrame} : NetData(d, t, f, g)
        \/ NetDrain(d, t)
        \/ NetEnd(d, t)
        \/ NetError(d, t)
        \/ NetClose(d, t)
  BY DEF NetEvent
<1> DEFINE v == ViewOf(d)
           old == session[d].wire[t]
           with(w) == [v EXCEPT !.dev.wire[t] = w]
           ended == [old EXCEPT !.phase = "dead"]
<1>2. /\ ViewInv(v) /\ v.dev = session[d] /\ v.running = Running /\ Scheduled(v)
      /\ v \in View /\ v.dev \in Session /\ old \in Wire
      /\ v.dev.wire[t] = old /\ SessionInv(session[d])
  <2>1. ViewInv(v) /\ v.dev = session[d] /\ v.running = Running /\ Scheduled(v)
    BY ViewOfLemma
  <2> QED BY <2>1 DEF ViewInv, View, Session
<1> HIDE DEF v
<1>3. ended \in Wire /\ ended.phase = "dead"
  BY <1>2 DEF Wire, Phase
<1>4. WithPhase(d, t, "dead") = with(ended)
  BY <1>2 DEF WithPhase, View, Session, v
<1> HIDE DEF ended
<1>5. CASE \E a \in WriteResult : NetConnect(d, t, a)
  <2> DEFINE w == [old EXCEPT !.phase = "open"]
             u == with(w)
  <2>1. PICK a \in WriteResult : NetConnect(d, t, a)
    BY <1>5
  <2>2. w \in Wire /\ w.phase = "open" /\ old.phase = "opening"
    BY <1>2, <2>1 DEF Wire, Phase, NetConnect
  <2>3. WithPhase(d, t, "open") = u
    BY <1>2 DEF WithPhase, View, Session, v
  <2>4. Apply(d, OnConnect(u, t, a))
    BY <2>1, <2>3 DEF NetConnect
  <2>5. /\ ViewInv(u) /\ u.running = v.running /\ (Scheduled(v) => Scheduled(u))
        /\ u.dev.wire = [v.dev.wire EXCEPT ![t] = w] /\ u.dev.state = v.dev.state
    BY <1>2, <2>2, RewireLemma
  <2> HIDE DEF w, u
  <2>6. u.dev.wire[t].phase = "open" /\ u.dev.state = "CONNECTING"
    BY <1>2, <2>2, <2>5 DEF SessionInv, Session
  <2> DEFINE r == OnConnect(u, t, a)
  <2>7. ViewInv(r) /\ r.running = u.running /\ (Scheduled(u) => Scheduled(r))
    BY <2>5, <2>6, OnConnectLemma
  <2> HIDE DEF r
  <2> QED BY <1>2, <2>4, <2>5, <2>7, ApplyLemma DEF r
<1>6. CASE \E f \in Frames, g \in Frames \cup {NoFrame} : NetData(d, t, f, g)
  <2>0. PICK f \in Frames, g \in Frames \cup {NoFrame} : NetData(d, t, f, g)
    BY <1>6
  <2>1. PICK r \in OnData(v, t, f, g) : Apply(d, r)
    BY <2>0 DEF NetData, v
  <2>2. ViewInv(r) /\ r.running = v.running /\ (Scheduled(v) => Scheduled(r))
    BY <1>2, <2>1, OnDataLemma
  <2> QED BY <1>2, <2>1, <2>2, ApplyLemma
<1>7. CASE NetDrain(d, t)
  <2> DEFINE w == [old EXCEPT !.needDrain = FALSE]
             u == with(w)
  <2>1. w \in Wire /\ w.phase = old.phase
    BY <1>2 DEF Wire
  <2>2. [ViewOf(d) EXCEPT !.dev.wire[t].needDrain = FALSE] = u
    BY <1>2 DEF View, Session, v
  <2>3. Apply(d, OnDrain(u, t))
    BY <1>7, <2>2 DEF NetDrain
  <2>4. w \in Wire /\ w.phase = v.dev.wire[t].phase
    BY <1>2, <2>1
  <2> HIDE DEF w
  <2>5. ViewInv(u) /\ u.running = v.running /\ (Scheduled(v) => Scheduled(u))
    BY <1>2, <2>4, RewireLemma
  <2> HIDE DEF u
  <2> DEFINE r == OnDrain(u, t)
  <2>6. ViewInv(r) /\ r.running = u.running /\ (Scheduled(u) => Scheduled(r))
    BY <2>5, OnDrainLemma
  <2> HIDE DEF r
  <2> QED BY <1>2, <2>5, <2>3, <2>6, ApplyLemma DEF r
<1>8. CASE NetEnd(d, t) \/ NetError(d, t)
  <2> DEFINE u == with(ended)
  <2>1. old.phase # "none"
    BY <1>8 DEF NetEnd, NetError
  <2>2. ViewInv(u) /\ u.running = v.running /\ (Scheduled(v) => Scheduled(u))
    BY <1>2, <1>3, <2>1, RewireLemma
  <2>3. Apply(d, u) \/ Apply(d, OnError(u, t))
    BY <1>4, <1>8 DEF NetEnd, NetError
  <2> HIDE DEF u
  <2> DEFINE r == OnError(u, t)
  <2>4. ViewInv(r) /\ r.running = u.running /\ (Scheduled(u) => Scheduled(r))
    BY <2>2, OnErrorLemma
  <2>5. CASE Apply(d, u)
    BY <1>2, <2>2, <2>5, ApplyLemma
  <2> HIDE DEF r
  <2>6. CASE Apply(d, OnError(u, t))
    BY <1>2, <2>2, <2>4, <2>6, ApplyLemma DEF r
  <2> QED BY <2>3, <2>5, <2>6
<1>9. CASE NetClose(d, t)
  <2> DEFINE u == with(NoWire)
  <2>1. /\ ViewInv(u) /\ u.running = v.running /\ (Scheduled(v) => Scheduled(u))
        /\ u.dev.wire = [v.dev.wire EXCEPT ![t] = NoWire]
    <3>1. NoWire \in Wire /\ NoWire.phase = "none"
      BY WireFacts DEF NoWire
    <3> DEFINE w == NoWire
    <3>2. w \in Wire /\ w.phase = "none"
      BY <3>1
    <3> HIDE DEF w
    <3>3. LET r == [v EXCEPT !.dev.wire[t] = w] IN
          /\ ViewInv(r) /\ r.running = v.running /\ (Scheduled(v) => Scheduled(r))
          /\ r.dev.wire = [v.dev.wire EXCEPT ![t] = w]
      BY <1>2, <3>2, RewireLemma
    <3> QED BY <3>3 DEF w
  <2>2. Apply(d, OnClose(u, t))
    BY <1>9 DEF NetClose, v
  <2> HIDE DEF u
  <2>3. u.dev.wire[t].phase = "none"
    BY <1>2, <2>1 DEF Session, NoWire
  <2> DEFINE r == OnClose(u, t)
  <2>4. ViewInv(r) /\ r.running = u.running /\ (Scheduled(u) => Scheduled(r))
    BY <2>1, <2>3, OnCloseLemma
  <2> HIDE DEF r
  <2> QED BY <1>2, <2>1, <2>2, <2>4, ApplyLemma DEF r
<1> QED BY <1>1, <1>5, <1>6, <1>7, <1>8, <1>9

LEMMA NextIInv == IInv /\ [Next]_vars => IInv'
<1> SUFFICES ASSUME IInv, [Next]_vars PROVE IInv'
  OBVIOUS
<1>1. CASE Start
  BY <1>1, StartStep
<1>2. CASE Activate
  BY <1>2 DEF Activate, IInv, TypeOK, NoLostDevice, Running
<1>3. CASE Stop \/ StopChunk
  BY <1>3, StopStep
<1>4. ASSUME NEW d \in Devices, Pump(d) PROVE IInv'
  BY <1>4, PumpStep
<1>5. ASSUME NEW d \in Devices, PumpStale(d) PROVE IInv'
  BY <1>5, PumpStaleStep
<1>6. ASSUME NEW d \in Devices, NetEvent(d) PROVE IInv'
  BY <1>6, NetEventStep
<1>7. CASE UNCHANGED vars
  BY <1>7 DEF vars, IInv, TypeOK, NoLostDevice, Running
<1> QED BY <1>1, <1>2, <1>3, <1>4, <1>5, <1>6, <1>7 DEF Next

LEMMA Invariance == Spec => []IInv
BY InitIInv, NextIInv, PTL DEF Spec

\* Every reachable state is well typed.
THEOREM TypeCorrect == Spec => []TypeOK
<1>1. IInv => TypeOK
  BY DEF IInv
<1> QED BY <1>1, Invariance, PTL

\* No callback of any session, in any interleaving with the pump and with
\* stop(), leaves a running device without an entry the pump will act on.
THEOREM NeverLost == Spec => []NoLostDevice
<1>1. IInv => NoLostDevice
  BY DEF IInv
<1> QED BY <1>1, Invariance, PTL

\* No socket is leaked: whatever is open is the current socket of its session.
THEOREM NeverLeaked == Spec => []SocketOwned
<1>1. IInv => SocketOwned
  BY TokenFacts DEF IInv, SessionInv, SocketInv, SocketOwned
<1> QED BY <1>1, Invariance, PTL

\* A vehicle advances only while its device is online.
THEOREM NeverMovesOffline == Spec => []MovesOnlyOnline
<1>1. IInv => MovesOnlyOnline
  BY DEF IInv, SessionInv, MovesOnlyOnline
<1> QED BY <1>1, Invariance, PTL

-----------------------------------------------------------------------------
(* What a session's socket, its flags and the counters have to do with each *)
(* other, in the same order: every operator, every callback, the farm.      *)

\* What was written on a connection, and in which order.
WiresSound(s) ==
    \A t \in Tokens :
        /\ s.wire[t].data => s.wire[t].acked
        /\ s.wire[t].acked => s.wire[t].logins > 0

Linked(s) ==
    /\ WiresSound(s)
    /\ s.disposed => s.socket = NoSocket
    /\ s.socketConnected =>
         s.socket # NoSocket /\ s.wire[s.socket].phase \in {"open", "dead"}
    /\ s.socket # NoSocket /\ s.state = "ONLINE" => s.wire[s.socket].acked

DrainOwed(s) ==
    s.socket # NoSocket /\ s.backpressured =>
        s.wire[s.socket].needDrain \/ s.wire[s.socket].phase = "dead"

LinkInv(s) == Linked(s) /\ DrainOwed(s)

\* The socket a session has in each state, while the farm runs.
Match(v) ==
    v.running =>
        /\ v.dev.state = "CONNECTING" =>
             v.dev.socket # NoSocket /\ v.dev.wire[v.dev.socket].phase = "opening"
        /\ v.dev.state \in {"LOGIN_SENT", "ONLINE"} => v.dev.socketConnected
        /\ v.dev.state \in {"PENDING", "BACKOFF", "STOPPED"} => v.dev.socket = NoSocket

\* What the counters come to without the device whose view is at hand.
Others == [tcp : Nat, counts : [SessionState -> Nat]]

Tally(v, o) ==
    /\ v.tcp = o.tcp + (IF v.dev.socketConnected THEN 1 ELSE 0)
    /\ \A s \in SessionState :
         v.counts[s] = o.counts[s] + (IF v.dev.state = s THEN 1 ELSE 0)

Sound(v, o) == Tally(v, o) /\ LinkInv(v.dev) /\ Match(v)

\* A write or a reconnect leaves the state alone or falls back to BACKOFF, adds
\* nothing to a connection but what it writes, and nothing at all to a farm
\* that does not run.
Fell(v, r) == r.dev.state = v.dev.state \/ (v.running /\ r.dev.state = "BACKOFF")

Quiet(v, r) ==
    /\ ~v.running => r.dev.entries = v.dev.entries
    /\ \A t \in Tokens :
         /\ ~v.running /\ r.dev.wire[t].phase # "none" => v.dev.wire[t].phase # "none"
         /\ r.dev.wire[t].phase = "open" =>
              /\ v.dev.wire[t].phase = "open"
              /\ r.dev.wire[t].logins >= v.dev.wire[t].logins

\* The fields these statements read.
Alike(v, r) ==
    /\ r.tcp = v.tcp /\ r.counts = v.counts /\ r.running = v.running
    /\ r.dev.state = v.dev.state /\ r.dev.disposed = v.dev.disposed
    /\ r.dev.socket = v.dev.socket /\ r.dev.wire = v.dev.wire
    /\ r.dev.socketConnected = v.dev.socketConnected
    /\ r.dev.backpressured = v.dev.backpressured

LEMMA AlikeLemma ==
    ASSUME NEW v, NEW r, Alike(v, r)
    PROVE  /\ \A o : Tally(v, o) => Tally(r, o)
           /\ Linked(v.dev) => Linked(r.dev)
           /\ LinkInv(v.dev) => LinkInv(r.dev)
           /\ Match(v) => Match(r)
<1>1. \A o : Tally(v, o) => Tally(r, o)
  BY DEF Alike, Tally
<1>2. Linked(v.dev) => Linked(r.dev)
  BY DEF Alike, Linked, WiresSound
<1>3. DrainOwed(v.dev) => DrainOwed(r.dev)
  BY DEF Alike, DrainOwed
<1>4. Match(v) => Match(r)
  BY DEF Alike, Match
<1> QED BY <1>1, <1>2, <1>3, <1>4 DEF LinkInv

LEMMA ScheduleAlike ==
    ASSUME NEW v \in View
    PROVE  /\ Alike(v, Schedule(v))
           /\ ~v.running => Schedule(v) = v
<1>1. v.dev \in Session
  BY DEF View
<1>2. CASE v.dev.disposed \/ ~v.running
  BY <1>2 DEF Schedule, Alike
<1>3. CASE ~(v.dev.disposed \/ ~v.running)
  <2> DEFINE n == NextVersion(v.dev.scheduleVersion)
             s == [v.dev EXCEPT !.scheduleVersion = n, !.entries = @ \cup {n}]
  <2>1. Schedule(v) = [v EXCEPT !.dev = s]
    BY <1>1, <1>3 DEF Schedule, View
  <2>2. /\ s.state = v.dev.state /\ s.disposed = v.dev.disposed
        /\ s.socket = v.dev.socket /\ s.wire = v.dev.wire
        /\ s.socketConnected = v.dev.socketConnected
        /\ s.backpressured = v.dev.backpressured
    BY <1>1 DEF Session
  <2> HIDE DEF s
  <2>3. LET r == [v EXCEPT !.dev = s] IN
        r.dev = s /\ r.tcp = v.tcp /\ r.counts = v.counts /\ r.running = v.running
    BY DEF View
  <2> QED BY <1>3, <2>1, <2>2, <2>3 DEF Alike
<1> QED BY <1>2, <1>3

\* The counts stay those of the sessions: a clamp at zero never bites.
LEMMA SetStateTally ==
    ASSUME NEW v \in View, NEW s \in SessionState, NEW o \in Others, Tally(v, o)
    PROVE  Tally(SetState(v, s), o)
<1>1. v.dev \in Session /\ v.dev.state \in SessionState /\ v.counts \in [SessionState -> Nat]
  BY DEF View, Session
<1>2. SetState(v, s).dev = [v.dev EXCEPT !.state = s]
  BY SetStateLemma
<1>3. /\ SetState(v, s).dev.state = s
      /\ SetState(v, s).dev.socketConnected = v.dev.socketConnected
  BY <1>1, <1>2 DEF Session
<1>4. CASE v.dev.state = s
  BY <1>4 DEF SetState
<1>5. CASE v.dev.state # s
  <2> DEFINE e == [v.dev EXCEPT !.state = s]
             c == [v.counts EXCEPT ![v.dev.state] = Decrement(@), ![s] = @ + 1]
  <2>1. SetState(v, s) = [v EXCEPT !.dev = e, !.counts = c]
    BY <1>1, <1>5 DEF SetState, View
  <2>2. \A x \in SessionState :
            c[x] = IF x = s THEN v.counts[x] + 1
                   ELSE IF x = v.dev.state THEN Decrement(v.counts[x])
                   ELSE v.counts[x]
    BY <1>1, <1>5
  <2>3. \A x \in SessionState : v.counts[x] = o.counts[x] + (IF v.dev.state = x THEN 1 ELSE 0)
    BY DEF Tally
  <2>4. \A x \in SessionState : o.counts[x] \in Nat
    BY DEF Others
  <2>5. \A x \in SessionState : c[x] = o.counts[x] + (IF s = x THEN 1 ELSE 0)
    BY <1>5, <2>2, <2>3, <2>4 DEF Decrement
  <2> HIDE DEF e, c
  <2>6. [v EXCEPT !.dev = e, !.counts = c].counts = c
        /\ [v EXCEPT !.dev = e, !.counts = c].tcp = v.tcp
    BY DEF View
  <2> QED BY <1>3, <2>1, <2>5, <2>6 DEF Tally
<1> QED BY <1>4, <1>5

LEMMA MarkSocketDisconnectedTally ==
    ASSUME NEW v \in View, NEW o \in Others, Tally(v, o)
    PROVE  Tally(MarkSocketDisconnected(v), o)
<1>1. v.dev \in Session /\ v.tcp \in Nat /\ o.tcp \in Nat
  BY DEF View, Others
<1>2. CASE ~v.dev.socketConnected
  BY <1>2 DEF MarkSocketDisconnected
<1>3. CASE v.dev.socketConnected
  <2> DEFINE e == [v.dev EXCEPT !.socketConnected = FALSE]
             k == Decrement(v.tcp)
  <2>1. MarkSocketDisconnected(v) = [v EXCEPT !.dev = e, !.tcp = k]
    BY <1>3 DEF MarkSocketDisconnected, View
  <2>2. k = o.tcp
    BY <1>1, <1>3 DEF Tally, Decrement
  <2>3. e.state = v.dev.state /\ e.socketConnected = FALSE
    BY <1>1 DEF Session
  <2> HIDE DEF e, k
  <2>4. LET r == [v EXCEPT !.dev = e, !.tcp = k] IN
        r.dev = e /\ r.tcp = k /\ r.counts = v.counts
    BY DEF View
  <2> QED BY <1>1, <2>1, <2>2, <2>3, <2>4 DEF Tally
<1> QED BY <1>2, <1>3

LEMMA DestroySocketSound ==
    ASSUME NEW v \in View, SocketInv(v.dev), NEW o \in Others, Tally(v, o),
           WiresSound(v.dev)
    PROVE  LET r == DestroySocket(v) IN
           /\ Tally(r, o)
           /\ WiresSound(r.dev)
           /\ r.dev.socketConnected = FALSE
           /\ r.dev.backpressured = v.dev.backpressured
           /\ r.dev.entries = v.dev.entries
<1>1. v.dev \in Session /\ v.dev.wire \in [Tokens -> Wire] /\ v.dev.socketToken \in Tokens
  BY DEF View, Session
<1> DEFINE k == v.dev.socket
           wire == IF k = NoSocket THEN v.dev.wire ELSE [v.dev.wire EXCEPT ![k] = NoWire]
           s == [v.dev EXCEPT !.wire = wire, !.socket = NoSocket,
                              !.socketToken = NextToken(@)]
           u == [v EXCEPT !.dev = s]
<1>2. \A t \in Tokens : wire[t] = v.dev.wire[t] \/ wire[t] = NoWire
  BY <1>1
<1>3. DestroySocket(v) = MarkSocketDisconnected(u)
  BY <1>1 DEF DestroySocket, View, Session
<1>4. wire \in [Tokens -> Wire]
  BY <1>1, WireFacts DEF Session
<1>5. NextToken(v.dev.socketToken) \in Tokens
  BY <1>1, TokenFacts
<1> HIDE DEF wire
<1>6. s \in Session
  BY <1>1, <1>4, <1>5 DEF Session
<1>7. /\ s.wire = wire /\ s.state = v.dev.state /\ s.entries = v.dev.entries
      /\ s.socketConnected = v.dev.socketConnected
      /\ s.backpressured = v.dev.backpressured
  BY <1>1 DEF Session
<1> HIDE DEF s
<1>8. /\ u \in View /\ u.dev = s
      /\ u.tcp = v.tcp /\ u.counts = v.counts /\ u.running = v.running
  BY <1>6 DEF View
<1>9. Tally(u, o)
  BY <1>7, <1>8 DEF Tally
<1> HIDE DEF u
<1>10. /\ Tally(MarkSocketDisconnected(u), o)
       /\ MarkSocketDisconnected(u).dev = [s EXCEPT !.socketConnected = FALSE]
  BY <1>8, <1>9, MarkSocketDisconnectedTally, MarkSocketDisconnectedLemma
<1> DEFINE e == [s EXCEPT !.socketConnected = FALSE]
<1>11. /\ e.wire = wire /\ e.socketConnected = FALSE
       /\ e.backpressured = v.dev.backpressured /\ e.entries = v.dev.entries
  BY <1>6, <1>7 DEF Session
<1> HIDE DEF e
<1>12. WiresSound(e)
  BY <1>2, <1>11 DEF WiresSound, NoWire
<1> QED BY <1>3, <1>10, <1>11, <1>12 DEF e

LEMMA QuietTransitive ==
    ASSUME NEW u \in View, NEW v \in View, NEW r \in View,
           Quiet(u, v), Quiet(v, r), v.running = u.running
    PROVE  Quiet(u, r)
<1>1. \A x \in View, t \in Tokens : x.dev.wire[t].logins \in Int
  BY DEF View, Session, Wire
<1>2. ASSUME NEW t \in Tokens, r.dev.wire[t].phase = "open"
      PROVE  /\ u.dev.wire[t].phase = "open"
             /\ r.dev.wire[t].logins >= u.dev.wire[t].logins
  <2>1. v.dev.wire[t].phase = "open" /\ r.dev.wire[t].logins >= v.dev.wire[t].logins
    BY <1>2 DEF Quiet
  <2>2. u.dev.wire[t].phase = "open" /\ v.dev.wire[t].logins >= u.dev.wire[t].logins
    BY <2>1 DEF Quiet
  <2> QED BY <1>1, <2>1, <2>2
<1> QED BY <1>2 DEF Quiet

LEMMA QuietReflexive ==
    ASSUME NEW v \in View
    PROVE  Quiet(v, v)
<1>1. \A t \in Tokens : v.dev.wire[t].logins \in Int
  BY DEF View, Session, Wire
<1> QED BY <1>1 DEF Quiet

LEMMA AlikeQuiet ==
    ASSUME NEW v \in View, NEW r, Alike(v, r),
           ~v.running => r.dev.entries = v.dev.entries
    PROVE  Quiet(v, r)
<1>1. \A t \in Tokens : v.dev.wire[t].logins \in Int
  BY DEF View, Session, Wire
<1> QED BY <1>1 DEF Quiet, Alike

\* Giving up a connection needs little of what was there before.
LEMMA BeginReconnectSound ==
    ASSUME NEW v \in View, SocketInv(v.dev),
           v.dev.state = "STOPPED" <=> v.dev.disposed, ~v.dev.disposed,
           NEW o \in Others, Tally(v, o), WiresSound(v.dev),
           ~v.running => LinkInv(v.dev)
    PROVE  LET r == BeginReconnect(v) IN
           Sound(r, o) /\ Fell(v, r) /\ Quiet(v, r)
<1>1. CASE ~v.running
  <2>1. BeginReconnect(v) = v
    BY <1>1 DEF BeginReconnect
  <2> QED BY <1>1, <2>1, QuietReflexive DEF Sound, Match, Fell
<1>2. CASE v.running
  <2> DEFINE s == [v.dev EXCEPT !.moving = FALSE]
             u == [v EXCEPT !.dev = s]
             w == DestroySocket(u)
             x == SetState(w, "BACKOFF")
  <2>1. s \in Session /\ SocketInv(s)
    BY DEF View, Session, SocketInv
  <2>2. BeginReconnect(v) = Schedule(x)
    BY <1>2 DEF BeginReconnect, View
  <2>3. /\ s.state = v.dev.state /\ s.disposed = v.dev.disposed
        /\ s.socket = v.dev.socket /\ s.wire = v.dev.wire
        /\ s.socketConnected = v.dev.socketConnected
        /\ s.backpressured = v.dev.backpressured
    BY DEF View, Session
  <2> HIDE DEF s
  <2>4. u \in View /\ u.dev = s /\ u.running = v.running
        /\ u.tcp = v.tcp /\ u.counts = v.counts
    BY <2>1 DEF View
  <2> HIDE DEF u
  <2>5. Alike(v, u)
    BY <2>3, <2>4 DEF Alike
  <2>6. Tally(u, o) /\ WiresSound(u.dev) /\ SocketInv(u.dev)
    BY <2>1, <2>3, <2>4, <2>5, AlikeLemma DEF WiresSound
  <2>7. /\ w \in View /\ w.running = v.running /\ w.dev.disposed = FALSE
        /\ w.dev.socket = NoSocket /\ Tally(w, o) /\ WiresSound(w.dev)
        /\ w.dev.socketConnected = FALSE
        /\ \A t \in Tokens : w.dev.wire[t].phase = "none"
    <3>1. s.disposed = FALSE
      BY <2>1, <2>3 DEF Session
    <3>2. /\ w \in View /\ w.running = u.running /\ w.dev.disposed = u.dev.disposed
          /\ w.dev.socket = NoSocket
          /\ \A t \in Tokens : w.dev.wire[t].phase = "none"
      BY <2>4, <2>6, DestroySocketLemma
    <3>3. Tally(w, o) /\ WiresSound(w.dev) /\ w.dev.socketConnected = FALSE
      BY <2>4, <2>6, DestroySocketSound
    <3> QED BY <2>4, <3>1, <3>2, <3>3
  <2> HIDE DEF w
  <2>8. /\ x \in View /\ x.running = v.running /\ Tally(x, o)
        /\ x.dev = [w.dev EXCEPT !.state = "BACKOFF"]
    BY <2>7, SetStateLemma, SetStateTally DEF SessionState
  <2> HIDE DEF x
  <2>9. /\ x.dev.state = "BACKOFF" /\ x.dev.socket = NoSocket
        /\ x.dev.socketConnected = FALSE /\ x.dev.wire = w.dev.wire
    BY <2>7, <2>8 DEF View, Session
  <2>10. Sound(x, o)
    BY <2>7, <2>8, <2>9 DEF Sound, LinkInv, Linked, WiresSound, DrainOwed, Match
  <2>11. Alike(x, Schedule(x))
    BY <2>8, ScheduleAlike
  <2>12. Sound(Schedule(x), o)
    BY <2>10, <2>11, AlikeLemma DEF Sound
  <2>13. Schedule(x).dev.state = "BACKOFF" /\ Schedule(x).dev.wire = w.dev.wire
    BY <2>9, <2>11 DEF Alike
  <2> QED BY <1>2, <2>2, <2>7, <2>12, <2>13 DEF Fell, Quiet
<1> QED BY <1>1, <1>2

-----------------------------------------------------------------------------
(* Writing                                                                 *)

LEMMA WrittenSound ==
    ASSUME NEW v, ViewInv(v), NEW kind \in {"login", "data"}, NEW result, CanWrite(v),
           NEW o \in Others, Tally(v, o), LinkInv(v.dev),
           kind = "data" => v.dev.state = "ONLINE"
    PROVE  LET r == Written(v, kind, result) IN
           /\ Tally(r, o) /\ LinkInv(r.dev)
           /\ Match(v) => Match(r)
           /\ r.dev.state = v.dev.state
           /\ r.running = v.running
           /\ r.dev.socketConnected = v.dev.socketConnected
           /\ Quiet(v, r)
<1> DEFINE k == v.dev.socket
           old == v.dev.wire[k]
           drain == old.needDrain \/ result = "queued"
           logins == IF kind = "login" THEN old.logins + 1 ELSE old.logins
           data == old.data \/ kind = "data"
           new == [old EXCEPT !.needDrain = drain, !.logins = logins, !.data = data]
           wire == [v.dev.wire EXCEPT ![k] = new]
           queued == (result = "queued")
           s == [v.dev EXCEPT !.backpressured = queued, !.wire = wire]
           r == [v EXCEPT !.dev = s]
<1>1. v \in View /\ v.dev \in Session /\ SessionInv(v.dev)
  BY DEF ViewInv, View
<1>2. k \in Tokens /\ old \in Wire /\ v.dev.wire \in [Tokens -> Wire]
  BY <1>1 DEF CanWrite, Session
<1>3. Written(v, kind, result) = r
  BY <1>1, <1>2 DEF Written, View, Session, Wire
<1>4. /\ old.logins \in Nat /\ logins \in Nat /\ logins >= old.logins
      /\ kind = "login" => logins > 0
  BY <1>2 DEF Wire
<1>5. /\ old.acked => old.logins > 0
      /\ old.data => old.acked
  BY <1>2 DEF LinkInv, Linked, WiresSound
<1>5a. kind = "data" => old.acked
  BY <1>2, TokenFacts DEF LinkInv, Linked
<1>6. /\ new.phase = old.phase /\ new.needDrain = drain /\ new.logins = logins
      /\ new.acked = old.acked /\ new.data = data
  BY <1>2 DEF Wire
<1>7. (new.data => new.acked) /\ (new.acked => new.logins > 0)
  <2>1. CASE kind = "login"
    BY <1>4, <1>5, <1>6, <2>1
  <2>2. CASE kind = "data"
    BY <1>4, <1>5, <1>5a, <1>6, <2>2
  <2> QED BY <2>1, <2>2
<1>8. queued => new.needDrain
  BY <1>6
<1>9. new.logins >= old.logins /\ new.phase = old.phase /\ new.acked = old.acked
  BY <1>4, <1>6
<1> HIDE DEF new
<1>10. \A t \in Tokens : wire[t] = IF t = k THEN new ELSE v.dev.wire[t]
  BY <1>2
<1> HIDE DEF wire, queued
<1>11. /\ s.wire = wire /\ s.socket = k /\ s.state = v.dev.state
       /\ s.disposed = v.dev.disposed /\ s.socketConnected = v.dev.socketConnected
       /\ s.backpressured = queued /\ s.entries = v.dev.entries
  BY <1>1 DEF Session
<1> HIDE DEF s
<1>12. r.dev = s /\ r.tcp = v.tcp /\ r.counts = v.counts /\ r.running = v.running
  BY <1>1 DEF View
<1> HIDE DEF r
<1>13. Tally(r, o)
  BY <1>11, <1>12 DEF Tally
<1>14. WiresSound(s)
  BY <1>7, <1>10, <1>11 DEF WiresSound, LinkInv, Linked
<1>15. Linked(s)
  BY <1>2, <1>9, <1>10, <1>11, <1>14 DEF LinkInv, Linked
<1>16. DrainOwed(s)
  BY <1>2, <1>8, <1>10, <1>11 DEF DrainOwed
<1>17. Match(v) => Match(r)
  BY <1>2, <1>9, <1>10, <1>11, <1>12 DEF Match
<1>18. Quiet(v, r)
  <2>1. \A t \in Tokens : v.dev.wire[t].logins \in Int
    BY <1>1 DEF Session, Wire
  <2> QED BY <1>2, <1>9, <1>10, <1>11, <1>12, <2>1 DEF Quiet
<1> QED BY <1>3, <1>11, <1>12, <1>13, <1>15, <1>16, <1>17, <1>18 DEF LinkInv

LEMMA GiveUpSound ==
    ASSUME NEW v, ViewInv(v), ~v.dev.disposed, NEW o \in Others,
           Tally(v, o), LinkInv(v.dev)
    PROVE  LET r == BeginReconnect(v) IN
           Sound(r, o) /\ Fell(v, r) /\ Quiet(v, r)
<1>1. v \in View /\ SocketInv(v.dev) /\ (v.dev.state = "STOPPED" <=> v.dev.disposed)
      /\ WiresSound(v.dev)
  BY DEF ViewInv, SessionInv, LinkInv, Linked
<1> QED BY <1>1, BeginReconnectSound

LEMMA WritePacketSound ==
    ASSUME NEW v, ViewInv(v), ~v.dev.disposed, NEW result, NEW o \in Others,
           Sound(v, o), v.dev.state = "ONLINE"
    PROVE  LET r == WritePacket(v, "data", result) IN
           /\ Sound(r, o) /\ Fell(v, r) /\ Quiet(v, r)
           /\ WriteSucceeds(v, result) => r.dev.state = "ONLINE"
<1>1. Tally(v, o) /\ LinkInv(v.dev) /\ Match(v)
  BY DEF Sound
<1>2. CASE WriteSucceeds(v, result)
  <2>1. CanWrite(v)
    BY <1>2 DEF WriteSucceeds
  <2> DEFINE r == Written(v, "data", result)
  <2>2. /\ Tally(r, o) /\ LinkInv(r.dev) /\ Match(r) /\ r.dev.state = v.dev.state
        /\ Quiet(v, r)
    BY <1>1, <2>1, WrittenSound
  <2>3. WritePacket(v, "data", result) = r
    BY <1>2 DEF WritePacket
  <2> HIDE DEF r
  <2> QED BY <2>2, <2>3 DEF Sound, Fell
<1>3. CASE ~WriteSucceeds(v, result)
  BY <1>1, <1>3, GiveUpSound DEF WritePacket
<1> QED BY <1>2, <1>3

LEMMA SendLoginSound ==
    ASSUME NEW v, ViewInv(v), ~v.dev.disposed, NEW result, NEW o \in Others,
           Tally(v, o), LinkInv(v.dev),
           v.dev.state \in {"CONNECTING", "LOGIN_SENT"},
           v.dev.socketConnected \/ Match(v),
           \A t \in Tokens : v.dev.wire[t].phase # "opening"
    PROVE  LET r == SendLogin(v, result) IN
           /\ Sound(r, o) /\ Quiet(v, r)
           /\ Fell(v, r) \/ r.dev.state = "LOGIN_SENT"
<1> DEFINE w == SetState(v, "LOGIN_SENT")
           u == [w EXCEPT !.dev.loginAttempts = @ + 1]
<1>1. v \in View /\ v.dev \in Session /\ SessionInv(v.dev)
  BY DEF ViewInv, View
<1>2. /\ w \in View /\ w.running = v.running /\ Tally(w, o)
      /\ w.dev = [v.dev EXCEPT !.state = "LOGIN_SENT"]
  BY <1>1, SetStateLemma, SetStateTally DEF SessionState
<1> HIDE DEF w
<1> DEFINE n == w.dev.loginAttempts + 1
           s == [w.dev EXCEPT !.loginAttempts = n]
<1>3. w.dev \in Session /\ n \in Nat /\ u = [w EXCEPT !.dev = s]
  BY <1>2 DEF View, Session
<1> HIDE DEF n
<1>4. s \in Session
  BY <1>3 DEF Session
<1>5. /\ s.state = "LOGIN_SENT" /\ s.wire = v.dev.wire
      /\ s.socket = v.dev.socket /\ s.socketToken = v.dev.socketToken
      /\ s.disposed = v.dev.disposed /\ s.moving = v.dev.moving
      /\ s.socketConnected = v.dev.socketConnected
      /\ s.backpressured = v.dev.backpressured /\ s.entries = v.dev.entries
      /\ w.dev.state = "LOGIN_SENT" /\ w.dev.socketConnected = v.dev.socketConnected
  BY <1>1, <1>2, <1>3 DEF Session
<1> HIDE DEF s
<1>6. SessionInv(s) /\ LinkInv(s)
  BY <1>1, <1>4, <1>5 DEF SessionInv, SocketInv, LinkInv, Linked, WiresSound, DrainOwed
<1>7. u \in View /\ u.dev = s /\ u.running = v.running
      /\ u.tcp = w.tcp /\ u.counts = w.counts
  BY <1>2, <1>3, <1>4 DEF View
<1>8. ViewInv(u) /\ ~u.dev.disposed /\ LinkInv(u.dev) /\ Tally(u, o)
  BY <1>2, <1>5, <1>6, <1>7 DEF ViewInv, Tally
<1>9. v.dev.socketConnected => Match(u)
  BY <1>5, <1>7 DEF Match
<1>9a. Quiet(v, u)
  <2>1. \A t \in Tokens : v.dev.wire[t].logins \in Int
    BY <1>1 DEF Session, Wire
  <2> QED BY <1>5, <1>7, <2>1 DEF Quiet
<1>10. CASE ~v.dev.socketConnected
  BY <1>10, GiveUpSound DEF SendLogin
<1>11. CASE v.dev.socketConnected /\ WriteSucceeds(u, result)
  <2> DEFINE x == Written(u, "login", result)
  <2> HIDE DEF u
  <2>1. SendLogin(v, result) = Schedule(x)
    BY <1>11 DEF SendLogin, u, w
  <2>2. /\ Tally(x, o) /\ LinkInv(x.dev) /\ Match(x) /\ x.dev.state = "LOGIN_SENT"
        /\ Quiet(u, x) /\ x.running = u.running
    BY <1>5, <1>7, <1>8, <1>9, <1>11, WrittenSound DEF WriteSucceeds
  <2>3. x \in View
    BY <1>8, <1>11, WrittenLemma DEF WriteSucceeds, Kept, ViewInv
  <2> HIDE DEF x
  <2>4. Alike(x, Schedule(x)) /\ (~x.running => Schedule(x) = x)
    BY <2>3, ScheduleAlike
  <2>5. Sound(Schedule(x), o)
    BY <2>2, <2>4, AlikeLemma DEF Sound
  <2>6. Quiet(x, Schedule(x))
    BY <2>3, <2>4, AlikeQuiet
  <2>7. Schedule(x) \in View
    BY <1>8, <1>11, <2>1, SendLoginLemma DEF Kept, ViewInv
  <2>8. Quiet(u, Schedule(x))
    BY <1>7, <2>2, <2>3, <2>6, <2>7, QuietTransitive
  <2>9. Quiet(v, Schedule(x))
    BY <1>1, <1>7, <1>9a, <2>7, <2>8, QuietTransitive
  <2>10. Schedule(x).dev.state = "LOGIN_SENT"
    BY <2>2, <2>4 DEF Alike
  <2> QED BY <2>1, <2>5, <2>9, <2>10
<1>12. CASE v.dev.socketConnected /\ ~WriteSucceeds(u, result)
  <2>1. SendLogin(v, result) = BeginReconnect(u)
    BY <1>12 DEF SendLogin, w
  <2> HIDE DEF u
  <2> DEFINE r == BeginReconnect(u)
  <2>2. Sound(r, o) /\ Fell(u, r) /\ Quiet(u, r)
    BY <1>8, GiveUpSound
  <2>3. r \in View
    BY <1>8, GiveUpLemma DEF Kept, ViewInv
  <2> HIDE DEF r
  <2>4. Quiet(v, r)
    BY <1>1, <1>7, <1>9a, <2>2, <2>3, QuietTransitive
  <2> QED BY <1>5, <1>7, <2>1, <2>2, <2>4 DEF Fell, r
<1> QED BY <1>10, <1>11, <1>12

LEMMA SendIfDueSound ==
    ASSUME NEW v, ViewInv(v), ~v.dev.disposed, NEW isDue \in BOOLEAN, NEW result,
           NEW o \in Others, Sound(v, o), v.dev.state = "ONLINE"
    PROVE  LET r == SendIfDue(v, isDue, result) IN
           /\ Sound(r, o) /\ Fell(v, r) /\ Quiet(v, r)
           /\ ~SendFails(v, isDue, result) => r.dev.state = "ONLINE"
<1>1. CASE isDue
  BY <1>1, WritePacketSound DEF SendIfDue, SendFails
<1>2. CASE ~isDue
  BY <1>2, QuietReflexive DEF SendIfDue, SendFails, Fell, ViewInv
<1> QED BY <1>1, <1>2

LEMMA RescheduleSound ==
    ASSUME NEW v, ViewInv(v), NEW o, Sound(v, o)
    PROVE  LET r == Schedule(v) IN
           /\ r \in View /\ r.running = v.running
           /\ Sound(r, o) /\ r.dev.state = v.dev.state /\ Quiet(v, r)
<1>1. v \in View
  BY DEF ViewInv
<1>2. Alike(v, Schedule(v)) /\ (~v.running => Schedule(v) = v)
  BY <1>1, ScheduleAlike
<1>3. Schedule(v) \in View /\ Schedule(v).running = v.running
  BY ScheduleLemma DEF ViewInv
<1>4. Quiet(v, Schedule(v))
  BY <1>1, <1>2, AlikeQuiet
<1>5. Sound(Schedule(v), o)
  BY <1>2, AlikeLemma DEF Sound
<1> QED BY <1>2, <1>3, <1>4, <1>5 DEF Alike

LEMMA SendOnlinePacketsSound ==
    ASSUME NEW v, ViewInv(v), ~v.dev.disposed, NEW due, NEW a, NEW b,
           NEW o \in Others, Sound(v, o), v.dev.state = "ONLINE"
    PROVE  LET r == SendOnlinePackets(v, due, a, b) IN
           Sound(r, o) /\ Fell(v, r) /\ Quiet(v, r)
<1> DEFINE hb == "heartbeat" \in due
           loc == "location" \in due
           h == SendIfDue(v, hb, a)
           l == SendIfDue(h, loc, b)
           r == SendOnlinePackets(v, due, a, b)
<1>0. hb \in BOOLEAN /\ loc \in BOOLEAN
  OBVIOUS
<1>1. /\ Sound(h, o) /\ Fell(v, h) /\ Quiet(v, h)
      /\ ~SendFails(v, hb, a) => h.dev.state = "ONLINE"
  BY <1>0, SendIfDueSound
<1>2. ViewInv(h) /\ ~h.dev.disposed /\ h.running = v.running /\ h \in View /\ v \in View
  BY <1>0, SendIfDueLemma DEF Kept, ViewInv
<1>3. CASE v.dev.backpressured
  BY <1>3, RescheduleSound DEF SendOnlinePackets, Fell
<1>4. CASE ~v.dev.backpressured /\ SendFails(v, hb, a)
  BY <1>1, <1>4 DEF SendOnlinePackets
<1>5. CASE ~v.dev.backpressured /\ ~SendFails(v, hb, a)
  <2>1. /\ Sound(l, o) /\ Fell(h, l) /\ Quiet(h, l)
        /\ ~SendFails(h, loc, b) => l.dev.state = "ONLINE"
    BY <1>0, <1>1, <1>2, <1>5, SendIfDueSound
  <2>2. ViewInv(l) /\ l.running = v.running /\ l \in View
    BY <1>0, <1>2, SendIfDueLemma DEF Kept, ViewInv
  <2>3. r = IF SendFails(h, loc, b) THEN l ELSE Schedule(l)
    BY <1>5 DEF SendOnlinePackets
  <2> HIDE DEF h, l
  <2>4. Quiet(v, l) /\ Fell(v, l)
    BY <1>1, <1>2, <1>5, <2>1, <2>2, QuietTransitive DEF Fell
  <2>5. /\ Schedule(l) \in View /\ Sound(Schedule(l), o) /\ Quiet(l, Schedule(l))
        /\ Schedule(l).dev.state = l.dev.state
    BY <2>1, <2>2, RescheduleSound
  <2>6. Quiet(v, Schedule(l)) /\ Fell(v, Schedule(l))
    BY <1>2, <2>2, <2>4, <2>5, QuietTransitive DEF Fell
  <2> QED BY <2>1, <2>3, <2>4, <2>5, <2>6
<1> QED BY <1>3, <1>4, <1>5

-----------------------------------------------------------------------------
(* The callbacks                                                           *)

\* Where a callback may take the state of a session.
Progress(v, r) ==
    \/ Fell(v, r)
    \/ v.running /\ v.dev.state \in {"PENDING", "BACKOFF"} /\ r.dev.state = "CONNECTING"
    \/ v.dev.state = "CONNECTING" /\ r.dev.state = "LOGIN_SENT"
    \/ v.dev.state = "LOGIN_SENT" /\ r.dev.state = "ONLINE"

LEMMA ConnectSound ==
    ASSUME NEW v, ViewInv(v), v.running, ~v.dev.disposed,
           v.dev.state \in {"PENDING", "BACKOFF"}, NEW dial,
           NEW o \in Others, Tally(v, o), LinkInv(v.dev)
    PROVE  LET r == Connect(v, dial) IN Sound(r, o) /\ Progress(v, r)
<1> DEFINE w == DestroySocket(v)
           u == [w EXCEPT !.dev.loginAttempts = 0, !.dev.backpressured = FALSE]
           c == SetState(u, "CONNECTING")
           t == NextToken(c.dev.socketToken)
           n == [c EXCEPT !.dev.socketToken = t]
           p == [n EXCEPT !.dev.socket = t,
                          !.dev.wire[t] = [NoWire EXCEPT !.phase = "opening"]]
<1>1. v \in View /\ SocketInv(v.dev) /\ WiresSound(v.dev)
  BY DEF ViewInv, SessionInv, LinkInv, Linked
<1>2. /\ w \in View /\ w.running = v.running /\ w.dev \in Session
      /\ w.dev.socket = NoSocket /\ w.dev.disposed = v.dev.disposed
      /\ w.dev.state = v.dev.state
      /\ \A x \in Tokens : w.dev.wire[x].phase = "none"
  BY <1>1, DestroySocketLemma DEF SocketInv
<1>2a. Tally(w, o) /\ WiresSound(w.dev) /\ w.dev.socketConnected = FALSE
  BY <1>1, DestroySocketSound
<1>3. w.dev.disposed = FALSE
  BY <1>1, <1>2 DEF Session
<1>4. Connect(v, dial) = CASE dial = "dialing"  -> Schedule(p)
                           [] dial = "noSocket" -> BeginReconnect(n)
                           [] OTHER             -> BeginReconnect(p)
  BY DEF Connect
<1> HIDE DEF w
<1> DEFINE su == [w.dev EXCEPT !.loginAttempts = 0, !.backpressured = FALSE]
<1>5. /\ u = [w EXCEPT !.dev = su] /\ su \in Session
      /\ su.socket = NoSocket /\ su.disposed = FALSE
      /\ su.wire = w.dev.wire /\ su.state = w.dev.state
      /\ su.socketConnected = FALSE /\ su.backpressured = FALSE
  BY <1>2, <1>2a, <1>3 DEF View, Session
<1> HIDE DEF su
<1>6. u \in View /\ u.dev = su /\ u.running = v.running /\ u.tcp = w.tcp /\ u.counts = w.counts
  BY <1>2, <1>5 DEF View
<1>6a. Tally(u, o)
  BY <1>2a, <1>5, <1>6 DEF Tally
<1> HIDE DEF u
<1>7. /\ c \in View /\ c.running = v.running /\ Tally(c, o)
      /\ c.dev = [su EXCEPT !.state = "CONNECTING"]
  BY <1>6, <1>6a, SetStateLemma, SetStateTally DEF SessionState
<1>8. /\ c.dev \in Session /\ c.dev.state = "CONNECTING" /\ c.dev.socket = NoSocket
      /\ c.dev.disposed = FALSE /\ c.dev.wire = w.dev.wire
      /\ c.dev.socketConnected = FALSE /\ c.dev.backpressured = FALSE
  BY <1>5, <1>7 DEF Session, SessionState
<1> HIDE DEF c
<1>9. t \in Tokens
  BY <1>8, TokenFacts DEF Session
<1> HIDE DEF t
<1> DEFINE sn == [c.dev EXCEPT !.socketToken = t]
<1>10. /\ n = [c EXCEPT !.dev = sn] /\ sn \in Session
       /\ sn.state = "CONNECTING" /\ sn.socket = NoSocket /\ sn.socketToken = t
       /\ sn.disposed = FALSE /\ sn.wire = w.dev.wire
       /\ sn.socketConnected = FALSE /\ sn.backpressured = FALSE
  BY <1>7, <1>8, <1>9 DEF View, Session
<1> HIDE DEF sn
<1>11. /\ n \in View /\ n.dev = sn /\ n.running = v.running
       /\ n.tcp = c.tcp /\ n.counts = c.counts
  BY <1>7, <1>10 DEF View
<1> HIDE DEF n
<1>12. Tally(n, o) /\ WiresSound(n.dev) /\ SocketInv(n.dev)
  BY <1>2, <1>2a, <1>7, <1>8, <1>10, <1>11 DEF Tally, WiresSound, SocketInv
<1> DEFINE new == [NoWire EXCEPT !.phase = "opening"]
           wire == [sn.wire EXCEPT ![t] = new]
           so == [sn EXCEPT !.socket = t, !.wire = wire]
<1>13. /\ new \in Wire /\ new.phase = "opening"
       /\ new.data = FALSE /\ new.acked = FALSE
  BY DEF NoWire, Wire, Phase
<1>14. p = [n EXCEPT !.dev = so]
  BY <1>10, <1>11 DEF View, Session
<1> HIDE DEF new
<1>15. /\ wire \in [Tokens -> Wire]
       /\ \A x \in Tokens : wire[x] = IF x = t THEN new ELSE w.dev.wire[x]
  BY <1>9, <1>10, <1>13 DEF Session
<1> HIDE DEF wire, p
<1>16. /\ so \in Session /\ so.socket = t /\ so.wire = wire /\ so.socketToken = t
       /\ so.state = "CONNECTING" /\ so.disposed = FALSE
       /\ so.socketConnected = FALSE /\ so.backpressured = FALSE
  BY <1>9, <1>10, <1>15 DEF Session
<1> HIDE DEF so
<1>17. /\ p \in View /\ p.dev = so /\ p.running = v.running
       /\ p.tcp = n.tcp /\ p.counts = n.counts
  BY <1>11, <1>14, <1>16 DEF View
<1>18. Tally(p, o)
  BY <1>10, <1>11, <1>12, <1>16, <1>17 DEF Tally
<1>19. WiresSound(p.dev) /\ SocketInv(p.dev)
  BY <1>2, <1>2a, <1>13, <1>15, <1>16, <1>17 DEF WiresSound, SocketInv
<1>20. LinkInv(p.dev) /\ Match(p)
  BY <1>9, <1>13, <1>15, <1>16, <1>17, <1>19, TokenFacts
     DEF LinkInv, Linked, DrainOwed, Match
<1>21. CASE dial = "dialing"
  <2>1. Alike(p, Schedule(p))
    BY <1>17, ScheduleAlike
  <2>2. Sound(Schedule(p), o)
    BY <1>18, <1>20, <2>1, AlikeLemma DEF Sound
  <2> QED BY <1>4, <1>16, <1>17, <1>21, <2>1, <2>2 DEF Progress, Alike
<1>22. CASE dial = "noSocket"
  <2>1. Sound(BeginReconnect(n), o) /\ Fell(n, BeginReconnect(n))
    BY <1>10, <1>11, <1>12, BeginReconnectSound
  <2> QED BY <1>4, <1>10, <1>11, <1>22, <2>1 DEF Fell, Progress
<1>23. CASE dial # "dialing" /\ dial # "noSocket"
  <2>1. Sound(BeginReconnect(p), o) /\ Fell(p, BeginReconnect(p))
    BY <1>16, <1>17, <1>18, <1>19, BeginReconnectSound
  <2> QED BY <1>4, <1>16, <1>17, <1>23, <2>1 DEF Fell, Progress
<1> QED BY <1>21, <1>22, <1>23

LEMMA HandleDueSound ==
    ASSUME NEW v, ViewInv(v), v.running, ~v.dev.disposed, NEW r \in HandleDue(v),
           NEW o \in Others, Sound(v, o)
    PROVE  Sound(r, o) /\ Progress(v, r)
<1>0. Tally(v, o) /\ LinkInv(v.dev) /\ Match(v)
  BY DEF Sound
<1>1. v.dev.state \in SessionState /\ (v.dev.state = "STOPPED" <=> v.dev.disposed)
  BY DEF ViewInv, View, Session, SessionInv
<1>2. \A t \in Tokens : v.dev.wire[t].phase = "opening" => v.dev.state = "CONNECTING"
  BY DEF ViewInv, SessionInv
<1>3. CASE v.dev.state \in {"PENDING", "BACKOFF"}
  <2>1. PICK dial \in DialResult : r = Connect(v, dial)
    BY <1>3 DEF HandleDue
  <2> QED BY <1>0, <1>3, <2>1, ConnectSound
<1>4. CASE v.dev.state = "LOGIN_SENT" /\ LoginMayRetry(v)
  <2>1. PICK a \in WriteResult : r = SendLogin(v, a)
    BY <1>4 DEF HandleDue
  <2>2. \A t \in Tokens : v.dev.wire[t].phase # "opening"
    BY <1>2, <1>4
  <2>3. Sound(r, o) /\ (Fell(v, r) \/ r.dev.state = "LOGIN_SENT")
    BY <1>0, <1>4, <2>1, <2>2, SendLoginSound
  <2> QED BY <1>4, <2>3 DEF Progress, Fell
<1>5. CASE v.dev.state = "CONNECTING" \/ (v.dev.state = "LOGIN_SENT" /\ ~LoginMayRetry(v))
  <2>1. r = BeginReconnect(v)
    BY <1>5 DEF HandleDue
  <2> QED BY <1>0, <2>1, GiveUpSound DEF Progress
<1>6. CASE v.dev.state = "ONLINE"
  <2>1. PICK due \in SUBSET Packets, a \in WriteResult, b \in WriteResult :
            r = SendOnlinePackets(v, due, a, b)
    BY <1>6 DEF HandleDue
  <2> QED BY <1>6, <2>1, SendOnlinePacketsSound DEF Progress
<1> QED BY <1>1, <1>3, <1>4, <1>5, <1>6 DEF SessionState

LEMMA PromoteOnlineSound ==
    ASSUME NEW v, ViewInv(v), ~v.dev.disposed, v.dev.state = "LOGIN_SENT",
           NEW a, NEW b, NEW o \in Others, Sound(v, o),
           v.dev.socket # NoSocket => v.dev.wire[v.dev.socket].acked
    PROVE  LET r == PromoteOnline(v, a, b) IN
           /\ Sound(r, o) /\ Quiet(v, r)
           /\ r.dev.state = "ONLINE" \/ (v.running /\ r.dev.state = "BACKOFF")
<1> DEFINE w == SetState(v, "ONLINE")
           s == [w.dev EXCEPT !.moving = TRUE]
           u == [w EXCEPT !.dev = s]
<1>1. v \in View /\ v.dev \in Session /\ SessionInv(v.dev)
      /\ Tally(v, o) /\ LinkInv(v.dev) /\ Match(v)
  BY DEF ViewInv, View, Sound
<1>2. /\ w \in View /\ w.running = v.running /\ Tally(w, o)
      /\ w.dev = [v.dev EXCEPT !.state = "ONLINE"]
  BY <1>1, SetStateLemma, SetStateTally DEF SessionState
<1>3. PromoteOnline(v, a, b) = SendOnlinePackets(u, Packets, a, b)
  BY <1>2 DEF PromoteOnline, View
<1> HIDE DEF w
<1>4. /\ s \in Session /\ s.state = "ONLINE" /\ s.wire = v.dev.wire
      /\ s.socket = v.dev.socket /\ s.socketToken = v.dev.socketToken
      /\ s.disposed = v.dev.disposed /\ s.socketConnected = v.dev.socketConnected
      /\ s.backpressured = v.dev.backpressured /\ s.entries = v.dev.entries
      /\ w.dev.state = "ONLINE" /\ w.dev.socketConnected = v.dev.socketConnected
  BY <1>1, <1>2 DEF Session, SessionState
<1> HIDE DEF s
<1>5. SessionInv(s)
  BY <1>1, <1>4 DEF SessionInv, SocketInv
<1>6. LinkInv(s)
  BY <1>1, <1>4 DEF LinkInv, Linked, WiresSound, DrainOwed
<1>7. /\ u \in View /\ u.dev = s /\ u.running = v.running
      /\ u.tcp = w.tcp /\ u.counts = w.counts
  BY <1>2, <1>4 DEF View
<1> HIDE DEF u
<1>8. Sound(u, o)
  <2>1. Tally(u, o)
    <3>1. u.tcp = w.tcp /\ u.counts = w.counts /\ u.dev.state = w.dev.state
          /\ u.dev.socketConnected = w.dev.socketConnected /\ Tally(w, o)
      BY <1>2, <1>4, <1>7
    <3> QED BY <3>1 DEF Tally
  <2>2. Match(u)
    BY <1>1, <1>4, <1>7 DEF Match
  <2> QED BY <1>6, <1>7, <2>1, <2>2 DEF Sound
<1>9. ViewInv(u) /\ ~u.dev.disposed
  BY <1>4, <1>5, <1>7 DEF ViewInv
<1>10. Quiet(v, u)
  <2>1. \A t \in Tokens : v.dev.wire[t].logins \in Int
    BY <1>1 DEF Session, Wire
  <2> QED BY <1>4, <1>7, <2>1 DEF Quiet
<1> DEFINE r == SendOnlinePackets(u, Packets, a, b)
<1>11. Sound(r, o) /\ Fell(u, r) /\ Quiet(u, r)
  BY <1>4, <1>7, <1>8, <1>9, SendOnlinePacketsSound
<1>12. r \in View
  BY <1>9, SendOnlinePacketsLemma DEF Kept, ViewInv
<1> HIDE DEF r
<1>13. Quiet(v, r)
  BY <1>1, <1>7, <1>10, <1>11, <1>12, QuietTransitive
<1> QED BY <1>3, <1>4, <1>7, <1>11, <1>13 DEF Fell, r

\* What a frame does to the state: at most an acknowledged login, or a fall.
FrameStep(v, r) ==
    Fell(v, r) \/ (v.dev.state = "LOGIN_SENT" /\ r.dev.state = "ONLINE")

\* A login acknowledgement answers a login that was sent on the connection.
Answers(v, token, frame) ==
    frame = "loginAck" /\ v.dev.wire[token].phase = "open" =>
        v.dev.wire[token].logins > 0

LEMMA OnFrameSound ==
    ASSUME NEW v, ViewInv(v), ~v.dev.disposed, NEW token \in Tokens,
           NEW frame, NEW a, NEW b, NEW o \in Others, Sound(v, o),
           Answers(v, token, frame),
           v.dev.state = "LOGIN_SENT" => v.dev.wire[token].phase = "open"
    PROVE  LET r == OnFrame(v, token, frame, a, b) IN
           /\ Sound(r, o) /\ FrameStep(v, r) /\ Quiet(v, r)
           /\ r.dev.state = "LOGIN_SENT" =>
                r.dev.wire[token].phase = v.dev.wire[token].phase
<1> DEFINE fits == frame = "loginAck" /\ v.dev.wire[token].phase = "open"
           u == IF fits THEN [v EXCEPT !.dev.wire[token].acked = TRUE] ELSE v
<1>0. v \in View /\ v.dev \in Session /\ SessionInv(v.dev)
      /\ Tally(v, o) /\ LinkInv(v.dev) /\ Match(v)
  BY DEF ViewInv, View, Sound
<1>1. /\ ViewInv(u) /\ ~u.dev.disposed /\ u \in View /\ u.running = v.running
      /\ u.dev.state = v.dev.state /\ u.dev.socket = v.dev.socket
      /\ Sound(u, o) /\ Quiet(v, u)
      /\ fits => u.dev.wire[token].acked
      /\ u.dev.wire[token].phase = v.dev.wire[token].phase
  <2>1. CASE ~fits
    BY <1>0, <2>1, QuietReflexive
  <2>2. CASE fits
    <3> DEFINE new == [v.dev.wire[token] EXCEPT !.acked = TRUE]
               wire == [v.dev.wire EXCEPT ![token] = new]
               s == [v.dev EXCEPT !.wire = wire]
    <3>1. /\ new \in Wire /\ new.phase = v.dev.wire[token].phase /\ new.acked = TRUE
          /\ new.logins = v.dev.wire[token].logins /\ new.logins > 0 /\ new.logins \in Nat
          /\ new.needDrain = v.dev.wire[token].needDrain
      BY <1>0, <2>2 DEF Session, Wire, Answers
    <3>2. u = [v EXCEPT !.dev.wire[token] = new]
      BY <1>0, <2>2 DEF View, Session
    <3>2a. u = [v EXCEPT !.dev = s]
      BY <1>0, <2>2 DEF View, Session
    <3>2b. new \in Wire /\ new.phase = v.dev.wire[token].phase
      BY <3>1
    <3> HIDE DEF u, new
    <3>3. ViewInv(u) /\ u.dev.disposed = v.dev.disposed
      BY <3>2, <3>2b, RewireLemma
    <3>4. \A t \in Tokens : wire[t] = IF t = token THEN new ELSE v.dev.wire[t]
      BY <1>0 DEF Session
    <3> HIDE DEF wire
    <3>5. /\ s.wire = wire /\ s.state = v.dev.state /\ s.socket = v.dev.socket
          /\ s.disposed = v.dev.disposed /\ s.socketConnected = v.dev.socketConnected
          /\ s.backpressured = v.dev.backpressured /\ s.entries = v.dev.entries
      BY <1>0 DEF Session
    <3> HIDE DEF s
    <3>6. u.dev = s /\ u.tcp = v.tcp /\ u.counts = v.counts /\ u.running = v.running
      BY <1>0, <3>2a DEF View
    <3>7. v.dev.socket \in Tokens \cup {NoSocket}
      BY <1>0 DEF Session
    <3>8. LinkInv(s)
      BY <1>0, <3>1, <3>4, <3>5, <3>7 DEF LinkInv, Linked, WiresSound, DrainOwed
    <3>9. Tally(u, o) /\ Match(u)
      BY <1>0, <3>1, <3>4, <3>5, <3>6, <3>7 DEF Tally, Match
    <3>10. Quiet(v, u)
      <4>1. \A t \in Tokens : v.dev.wire[t].logins \in Int
        BY <1>0 DEF Session, Wire
      <4> QED BY <3>1, <3>4, <3>5, <3>6, <4>1 DEF Quiet
    <3>11. /\ u.dev.wire[token].acked /\ ~u.dev.disposed
           /\ u.dev.wire[token].phase = v.dev.wire[token].phase
      BY <3>1, <3>4, <3>5, <3>6
    <3> QED BY <3>3, <3>5, <3>6, <3>8, <3>9, <3>10, <3>11 DEF Sound, ViewInv
  <2> QED BY <2>1, <2>2
<1> HIDE DEF u
<1>2. CASE frame = "loginAck" /\ u.dev.state = "LOGIN_SENT"
  <2> DEFINE r == PromoteOnline(u, a, b)
  <2>1. OnFrame(v, token, frame, a, b) = r
    BY <1>2 DEF OnFrame, u
  <2>2. u.dev.socket # NoSocket => u.dev.wire[u.dev.socket].acked
    BY <1>0, <1>1, <1>2 DEF SessionInv, SocketInv
  <2>3. /\ Sound(r, o) /\ Quiet(u, r)
        /\ r.dev.state = "ONLINE" \/ (u.running /\ r.dev.state = "BACKOFF")
    BY <1>1, <1>2, <2>2, PromoteOnlineSound
  <2>4. r \in View
    BY <1>1, <1>2, PromoteOnlineLemma DEF Kept, ViewInv
  <2> HIDE DEF r
  <2>5. Quiet(v, r)
    BY <1>0, <1>1, <2>3, <2>4, QuietTransitive
  <2> QED BY <1>1, <1>2, <2>1, <2>3, <2>5 DEF FrameStep, Fell
<1>3. CASE frame = "command"
  <2> DEFINE r == HandleCommand(u, a)
  <2>1. OnFrame(v, token, frame, a, b) = r
    BY <1>3 DEF OnFrame, u
  <2>2. CASE u.dev.state # "ONLINE"
    BY <1>1, <2>1, <2>2 DEF HandleCommand, FrameStep, Fell
  <2>3. CASE u.dev.state = "ONLINE"
    <3>1. r = WritePacket(u, "data", a)
      BY <2>3 DEF HandleCommand
    <3>2. Sound(r, o) /\ Fell(u, r) /\ Quiet(u, r)
      BY <1>1, <2>3, <3>1, WritePacketSound
    <3>3. r \in View
      BY <1>1, <3>1, WritePacketLemma DEF Kept, ViewInv
    <3> HIDE DEF r
    <3>4. Quiet(v, r)
      BY <1>0, <1>1, <3>2, <3>3, QuietTransitive
    <3> QED BY <1>1, <2>1, <2>3, <3>2, <3>4 DEF FrameStep, Fell
  <2> QED BY <2>2, <2>3
<1>4. CASE frame # "command" /\ ~(frame = "loginAck" /\ u.dev.state = "LOGIN_SENT")
  <2>1. OnFrame(v, token, frame, a, b) = u
    BY <1>4 DEF OnFrame, u
  <2> QED BY <1>1, <2>1 DEF FrameStep, Fell
<1> QED BY <1>2, <1>3, <1>4

LEMMA OnDataSound ==
    ASSUME NEW v, ViewInv(v), NEW token \in Tokens, NEW f, NEW g,
           v.dev.wire[token].phase = "open",
           Answers(v, token, f), Answers(v, token, g),
           NEW o \in Others, Sound(v, o), NEW r \in OnData(v, token, f, g)
    PROVE  Sound(r, o) /\ Progress(v, r) /\ Quiet(v, r)
<1>0. v \in View
  BY DEF ViewInv
<1>1. CASE ~IsCurrentSocket(v, token)
  BY <1>0, <1>1, QuietReflexive DEF OnData, Progress, Fell
<1>2. CASE IsCurrentSocket(v, token)
  <2>1. ~v.dev.disposed
    BY <1>2 DEF IsCurrentSocket
  <2>2. PICK a \in WriteResult, b \in WriteResult, c \in WriteResult, e \in WriteResult :
            r = OnFrame(OnFrame(v, token, f, a, b), token, g, c, e)
    BY <1>2 DEF OnData
  <2> DEFINE u == OnFrame(v, token, f, a, b)
  <2>3. ViewInv(u) /\ ~u.dev.disposed /\ u \in View /\ u.running = v.running
    BY <2>1, OnFrameLemma DEF Kept, ViewInv
  <2>4. /\ Sound(u, o) /\ FrameStep(v, u) /\ Quiet(v, u)
        /\ u.dev.state = "LOGIN_SENT" => u.dev.wire[token].phase = "open"
    BY <2>1, OnFrameSound
  <2>5. r = OnFrame(u, token, g, c, e)
    BY <2>2
  <2> HIDE DEF u
  <2>6. Answers(u, token, g)
    <3>1. v.dev.wire[token].logins \in Int /\ u.dev.wire[token].logins \in Int
      BY <1>0, <2>3 DEF View, Session, Wire
    <3> QED BY <2>4, <3>1 DEF Answers, Quiet
  <2>8. r \in View /\ r.running = v.running
    BY <2>3, <2>5, OnFrameLemma DEF Kept, ViewInv
  <2>9. Sound(r, o) /\ FrameStep(u, r) /\ Quiet(u, r)
    BY <2>3, <2>4, <2>5, <2>6, OnFrameSound
  <2>10. Quiet(v, r)
    BY <1>0, <2>3, <2>4, <2>8, <2>9, QuietTransitive
  <2>11. Progress(v, r)
    BY <2>3, <2>4, <2>9 DEF FrameStep, Fell, Progress
  <2> QED BY <2>9, <2>10, <2>11
<1> QED BY <1>1, <1>2

\* The sockets of a session that is not disposed are current.
LEMMA OwnerIsCurrent ==
    ASSUME NEW v, ViewInv(v), LinkInv(v.dev), NEW token \in Tokens,
           v.dev.wire[token].phase # "none"
    PROVE  /\ IsCurrentSocket(v, token)
           /\ v.dev.socket = token
           /\ ~v.dev.disposed
<1>1. v.dev.socket = token
  BY DEF ViewInv, SessionInv, SocketInv
<1> QED BY <1>1, TokenFacts
        DEF ViewInv, SessionInv, SocketInv, LinkInv, Linked, IsCurrentSocket

\* v as an event of the network leaves it: one socket is now w.
LEMMA RewireSound ==
    ASSUME NEW v, ViewInv(v), NEW o, Sound(v, o), NEW t \in Tokens, NEW w \in Wire,
           v.dev.wire[t].phase # "none",
           w.acked = v.dev.wire[t].acked, w.data = v.dev.wire[t].data,
           w.logins = v.dev.wire[t].logins,
           w.phase \in {v.dev.wire[t].phase, "open", "dead"},
           w.phase = "open" => v.dev.wire[t].phase # "dead"
    PROVE  LET r == [v EXCEPT !.dev.wire[t] = w] IN
           /\ ViewInv(r) /\ r \in View /\ Tally(r, o) /\ Linked(r.dev)
           /\ w.phase = "dead" \/ w.needDrain = v.dev.wire[t].needDrain => LinkInv(r.dev)
           /\ v.dev.wire[t].phase # "opening" => Match(r)
           /\ r.running = v.running /\ r.dev.state = v.dev.state
           /\ r.dev.socketConnected = v.dev.socketConnected
           /\ r.dev.socket = t /\ r.dev.wire = [v.dev.wire EXCEPT ![t] = w]
           /\ r.dev.entries = v.dev.entries
           /\ r.dev.backpressured = v.dev.backpressured
           /\ IsCurrentSocket(r, t)
<1> DEFINE wire == [v.dev.wire EXCEPT ![t] = w]
           s == [v.dev EXCEPT !.wire = wire]
           r == [v EXCEPT !.dev = s]
<1>1. v \in View /\ v.dev \in Session /\ LinkInv(v.dev) /\ Tally(v, o) /\ Match(v)
  BY DEF ViewInv, View, Sound
<1>2. v.dev.wire \in [Tokens -> Wire]
  BY <1>1 DEF Session
<1>3. [v EXCEPT !.dev.wire[t] = w] = r
  BY <1>1 DEF View, Session
<1>4. IsCurrentSocket(v, t) /\ v.dev.socket = t /\ ~v.dev.disposed
  BY <1>1, OwnerIsCurrent
<1>5. \A x \in Tokens : wire[x] = IF x = t THEN w ELSE v.dev.wire[x]
  BY <1>2
<1>6. ViewInv(r)
  <2>1. w.phase = v.dev.wire[t].phase \/ w.phase # "opening"
    OBVIOUS
  <2> HIDE DEF r
  <2>2. LET x == [v EXCEPT !.dev.wire[t] = w] IN ViewInv(x)
    BY <2>1, RewireLemma
  <2> QED BY <1>3, <2>2
<1> HIDE DEF wire
<1>7. /\ s.wire = wire /\ s.state = v.dev.state /\ s.socket = t
      /\ s.socketToken = v.dev.socketToken
      /\ s.disposed = FALSE /\ s.socketConnected = v.dev.socketConnected
      /\ s.backpressured = v.dev.backpressured /\ s.entries = v.dev.entries
  BY <1>1, <1>4 DEF Session
<1> HIDE DEF s
<1>8. r.dev = s /\ r.tcp = v.tcp /\ r.counts = v.counts /\ r.running = v.running
  BY <1>1 DEF View
<1> HIDE DEF r
<1>9. Tally(r, o)
  BY <1>1, <1>7, <1>8 DEF Tally
<1>10. Linked(s)
  BY <1>1, <1>4, <1>5, <1>7 DEF LinkInv, Linked, WiresSound
<1>11. w.phase = "dead" \/ w.needDrain = v.dev.wire[t].needDrain => DrainOwed(s)
  BY <1>1, <1>4, <1>5, <1>7 DEF LinkInv, DrainOwed
<1>12. v.dev.wire[t].phase # "opening" => Match(r)
  BY <1>1, <1>4, <1>7, <1>8 DEF Match
<1>13. IsCurrentSocket(r, t)
  BY <1>4, <1>7, <1>8 DEF IsCurrentSocket
<1> QED BY <1>3, <1>6, <1>7, <1>8, <1>9, <1>10, <1>11, <1>12, <1>13
        DEF LinkInv, ViewInv, wire

LEMMA OnErrorSound ==
    ASSUME NEW v, ViewInv(v), NEW token, IsCurrentSocket(v, token),
           NEW o \in Others, Tally(v, o), LinkInv(v.dev)
    PROVE  LET r == OnError(v, token) IN
           Sound(r, o) /\ Progress(v, r) /\ Quiet(v, r)
BY GiveUpSound DEF OnError, IsCurrentSocket, Progress

\* 'drain' takes back the backpressure the socket no longer owes anything for.
LEMMA OnDrainSound ==
    ASSUME NEW v, ViewInv(v), NEW token, IsCurrentSocket(v, token),
           NEW o \in Others, Tally(v, o), Linked(v.dev), Match(v)
    PROVE  LET r == OnDrain(v, token) IN
           Sound(r, o) /\ Progress(v, r) /\ Quiet(v, r)
<1> DEFINE s == [v.dev EXCEPT !.backpressured = FALSE]
           u == [v EXCEPT !.dev = s]
           r == OnDrain(v, token)
<1>1. v \in View /\ v.dev \in Session /\ SessionInv(v.dev)
  BY DEF ViewInv, View
<1>2. r = IF u.dev.state = "ONLINE" THEN Schedule(u) ELSE u
  BY <1>1 DEF OnDrain, View
<1>3. /\ s \in Session /\ s.wire = v.dev.wire /\ s.moving = v.dev.moving
      /\ s.state = v.dev.state /\ s.disposed = v.dev.disposed
      /\ s.socket = v.dev.socket /\ s.socketToken = v.dev.socketToken
      /\ s.socketConnected = v.dev.socketConnected
      /\ s.entries = v.dev.entries /\ s.backpressured = FALSE
  BY <1>1 DEF Session
<1> HIDE DEF s
<1>4. SessionInv(s)
  BY <1>1, <1>3 DEF SessionInv, SocketInv
<1>5. LinkInv(s)
  BY <1>3 DEF LinkInv, Linked, WiresSound, DrainOwed
<1>6. /\ u \in View /\ u.dev = s /\ u.running = v.running
      /\ u.tcp = v.tcp /\ u.counts = v.counts
  BY <1>1, <1>3 DEF View
<1> HIDE DEF u
<1>7. ViewInv(u) /\ Sound(u, o)
  BY <1>3, <1>4, <1>5, <1>6 DEF ViewInv, Sound, Tally, Match
<1>8. Quiet(v, u)
  <2>1. \A t \in Tokens : v.dev.wire[t].logins \in Int
    BY <1>1 DEF Session, Wire
  <2> QED BY <1>3, <1>6, <2>1 DEF Quiet
<1>9. /\ Schedule(u) \in View /\ Sound(Schedule(u), o)
      /\ Schedule(u).dev.state = u.dev.state /\ Quiet(u, Schedule(u))
  BY <1>7, RescheduleSound
<1>10. Quiet(v, Schedule(u))
  BY <1>1, <1>6, <1>8, <1>9, QuietTransitive
<1> HIDE DEF r
<1> QED BY <1>2, <1>3, <1>6, <1>7, <1>8, <1>9, <1>10 DEF Progress, Fell, r

\* By the time 'close' arrives the socket is gone; the session lets go of it.
LEMMA OnCloseSound ==
    ASSUME NEW v, ViewInv(v), NEW token \in Tokens, IsCurrentSocket(v, token),
           v.dev.socket = token, v.dev.wire[token].phase = "none",
           NEW o \in Others, Tally(v, o), WiresSound(v.dev)
    PROVE  LET r == OnClose(v, token) IN
           Sound(r, o) /\ Progress(v, r) /\ Quiet(v, r)
<1> DEFINE m == MarkSocketDisconnected(v)
           s == [m.dev EXCEPT !.socket = NoSocket]
           u == [m EXCEPT !.dev = s]
           r == OnClose(v, token)
<1>1. v \in View /\ v.dev \in Session /\ SessionInv(v.dev) /\ ~v.dev.disposed
  BY DEF ViewInv, View, IsCurrentSocket
<1>2. /\ m \in View /\ m.running = v.running /\ Tally(m, o)
      /\ m.dev = [v.dev EXCEPT !.socketConnected = FALSE]
  BY <1>1, MarkSocketDisconnectedLemma, MarkSocketDisconnectedTally
<1>3. r = IF u.dev.state \in {"BACKOFF", "STOPPED"} THEN u ELSE BeginReconnect(u)
  BY <1>2 DEF OnClose, View
<1> HIDE DEF m
<1>4. /\ s \in Session /\ s.wire = v.dev.wire /\ s.moving = v.dev.moving
      /\ s.state = v.dev.state /\ s.disposed = v.dev.disposed
      /\ s.socket = NoSocket /\ s.socketConnected = FALSE
      /\ s.entries = v.dev.entries
      /\ m.dev.state = v.dev.state /\ m.dev.socketConnected = FALSE
  BY <1>1, <1>2 DEF Session
<1> HIDE DEF s
<1>5. SessionInv(s)
  <2>1. \A t \in Tokens : s.wire[t].phase = "none"
    BY <1>1, <1>4 DEF SessionInv, SocketInv
  <2> QED BY <1>1, <1>4, <2>1 DEF SessionInv, SocketInv
<1>6. LinkInv(s)
  BY <1>4 DEF LinkInv, Linked, WiresSound, DrainOwed
<1>7. /\ u \in View /\ u.dev = s /\ u.running = v.running
      /\ u.tcp = m.tcp /\ u.counts = m.counts
  BY <1>2, <1>4 DEF View
<1> HIDE DEF u
<1>8. ViewInv(u) /\ ~u.dev.disposed /\ LinkInv(u.dev)
  BY <1>1, <1>4, <1>5, <1>6, <1>7 DEF ViewInv
<1>9. Tally(u, o)
  <2>1. u.tcp = m.tcp /\ u.counts = m.counts /\ u.dev.state = m.dev.state
        /\ u.dev.socketConnected = m.dev.socketConnected /\ Tally(m, o)
    BY <1>2, <1>4, <1>7
  <2> QED BY <2>1 DEF Tally
<1>10. Quiet(v, u)
  <2>1. \A t \in Tokens : v.dev.wire[t].logins \in Int
    BY <1>1 DEF Session, Wire
  <2> QED BY <1>4, <1>7, <2>1 DEF Quiet
<1> DEFINE q == BeginReconnect(u)
<1>11. Sound(q, o) /\ Fell(u, q) /\ Quiet(u, q)
  BY <1>8, <1>9, GiveUpSound
<1>12. q \in View
  BY <1>8, GiveUpLemma DEF Kept, ViewInv
<1> HIDE DEF q, r
<1>13. Quiet(v, q)
  BY <1>1, <1>7, <1>10, <1>11, <1>12, QuietTransitive
<1>14. CASE u.dev.state \in {"BACKOFF", "STOPPED"}
  <2>1. Match(u)
    BY <1>4, <1>7, <1>14 DEF Match
  <2> QED BY <1>3, <1>4, <1>7, <1>8, <1>9, <1>10, <1>14, <2>1 DEF Sound, Progress, Fell, r
<1>15. CASE u.dev.state \notin {"BACKOFF", "STOPPED"}
  BY <1>3, <1>4, <1>7, <1>11, <1>13, <1>15 DEF Progress, Fell, q, r
<1> QED BY <1>14, <1>15

LEMMA OnConnectSound ==
    ASSUME NEW v, ViewInv(v), NEW token \in Tokens, NEW a, IsCurrentSocket(v, token),
           v.dev.socket = token, v.dev.wire[token].phase = "open",
           v.dev.state = "CONNECTING", ~v.dev.socketConnected,
           NEW o \in Others, Tally(v, o), LinkInv(v.dev)
    PROVE  LET r == OnConnect(v, token, a) IN
           Sound(r, o) /\ Progress(v, r) /\ Quiet(v, r)
<1> DEFINE s == [v.dev EXCEPT !.socketConnected = TRUE]
           k == v.tcp + 1
           u == [v EXCEPT !.dev = s, !.tcp = k]
           r == OnConnect(v, token, a)
<1>1. v \in View /\ v.dev \in Session /\ SessionInv(v.dev) /\ ~v.dev.disposed
  BY DEF ViewInv, View, IsCurrentSocket
<1>2. \A t \in Tokens : v.dev.wire[t].phase # "opening"
  BY <1>1 DEF SessionInv, SocketInv
<1>3. r = SendLogin(u, a)
  BY <1>1 DEF OnConnect, View
<1>4. k \in Nat /\ k = v.tcp + 1 /\ v.tcp \in Nat
  BY <1>1 DEF View
<1> HIDE DEF k
<1>5. /\ s \in Session /\ s.wire = v.dev.wire /\ s.moving = v.dev.moving
      /\ s.state = v.dev.state /\ s.disposed = v.dev.disposed
      /\ s.socket = token /\ s.socketToken = v.dev.socketToken
      /\ s.socketConnected = TRUE /\ s.entries = v.dev.entries
      /\ s.backpressured = v.dev.backpressured
  BY <1>1 DEF Session
<1> HIDE DEF s
<1>6. SessionInv(s)
  BY <1>1, <1>5 DEF SessionInv, SocketInv
<1>7. LinkInv(s)
  BY <1>1, <1>5, TokenFacts DEF LinkInv, Linked, WiresSound, DrainOwed
<1>8. /\ u \in View /\ u.dev = s /\ u.running = v.running
      /\ u.tcp = k /\ u.counts = v.counts
  BY <1>1, <1>4, <1>5 DEF View
<1> HIDE DEF u
<1>9. ViewInv(u) /\ ~u.dev.disposed /\ LinkInv(u.dev)
  BY <1>1, <1>5, <1>6, <1>7, <1>8 DEF ViewInv
<1>10. Tally(u, o)
  BY <1>4, <1>5, <1>8 DEF Tally, Others
<1>11. Quiet(v, u)
  <2>1. \A t \in Tokens : v.dev.wire[t].logins \in Int
    BY <1>1 DEF Session, Wire
  <2> QED BY <1>5, <1>8, <2>1 DEF Quiet
<1>12. /\ u.dev.state = "CONNECTING" /\ u.dev.socketConnected
       /\ \A t \in Tokens : u.dev.wire[t].phase # "opening"
  BY <1>2, <1>5, <1>8
<1> DEFINE q == SendLogin(u, a)
<1>13. Sound(q, o) /\ Quiet(u, q) /\ (Fell(u, q) \/ q.dev.state = "LOGIN_SENT")
  BY <1>9, <1>10, <1>12, SendLoginSound
<1>14. q \in View
  BY <1>9, <1>12, SendLoginLemma DEF Kept, ViewInv
<1> HIDE DEF q, r
<1>15. Quiet(v, q)
  BY <1>1, <1>8, <1>11, <1>13, <1>14, QuietTransitive
<1> QED BY <1>3, <1>5, <1>8, <1>13, <1>15 DEF Progress, Fell, q, r

LEMMA DisposeSound ==
    ASSUME NEW v, ViewInv(v), ~v.dev.disposed, WiresSound(v.dev),
           NEW o \in Others, Tally(v, o)
    PROVE  LET s == Dispose(v).dev IN
           /\ s.state = "STOPPED" /\ s.disposed /\ s.socketConnected = FALSE
           /\ s.entries = v.dev.entries
           /\ \A t \in Tokens : s.wire[t].phase = "none"
           /\ LinkInv(s)
<1> DEFINE n == NextVersion(v.dev.scheduleVersion)
           s == [v.dev EXCEPT !.moving = FALSE, !.disposed = TRUE, !.scheduleVersion = n]
           u == [v EXCEPT !.dev = s]
           w == DestroySocket(u)
           x == SetState(w, "STOPPED")
<1>1. v \in View /\ v.dev \in Session /\ SocketInv(v.dev) /\ n \in Versions
  BY VersionFacts DEF ViewInv, View, SessionInv, Session
<1>2. Dispose(v) = x
  BY <1>1 DEF Dispose, View
<1> HIDE DEF n
<1>3. /\ s \in Session /\ s.disposed = TRUE /\ s.wire = v.dev.wire
      /\ s.socket = v.dev.socket /\ s.state = v.dev.state
      /\ s.socketConnected = v.dev.socketConnected /\ s.entries = v.dev.entries
  BY <1>1 DEF Session
<1>4. SocketInv(s) /\ WiresSound(s)
  BY <1>1, <1>3 DEF SocketInv, WiresSound, Session
<1> HIDE DEF s
<1>5. u \in View /\ u.dev = s /\ u.tcp = v.tcp /\ u.counts = v.counts
  BY <1>1, <1>3 DEF View
<1>6. Tally(u, o)
  BY <1>3, <1>5 DEF Tally
<1> HIDE DEF u
<1>7. /\ w \in View /\ w.dev.socket = NoSocket /\ w.dev.disposed = u.dev.disposed
      /\ \A t \in Tokens : w.dev.wire[t].phase = "none"
  BY <1>4, <1>5, DestroySocketLemma
<1>8. WiresSound(w.dev) /\ w.dev.socketConnected = FALSE /\ w.dev.entries = u.dev.entries
  BY <1>4, <1>5, <1>6, DestroySocketSound
<1> HIDE DEF w
<1>9. x \in View /\ x.dev = [w.dev EXCEPT !.state = "STOPPED"]
  BY <1>7, SetStateLemma DEF SessionState
<1> HIDE DEF x
<1>10. /\ x.dev.state = "STOPPED" /\ x.dev.disposed = TRUE /\ x.dev.socket = NoSocket
       /\ x.dev.socketConnected = FALSE /\ x.dev.entries = v.dev.entries
       /\ x.dev.wire = w.dev.wire
  BY <1>3, <1>5, <1>7, <1>8, <1>9 DEF View, Session
<1>11. LinkInv(x.dev)
  BY <1>8, <1>10 DEF LinkInv, Linked, WiresSound, DrainOwed
<1> QED BY <1>2, <1>7, <1>10, <1>11

-----------------------------------------------------------------------------
(* The farm                                                                *)

\* Where stop() has got to.
StopInv ==
    /\ status = "idle" =>
         /\ tcpConnected = 0
         /\ \A s \in SessionState : stateCounts[s] = 0
         /\ session = [d \in Devices |-> NewSession]
    /\ status \in {"stopping", "stopped"} =>
         \A d \in Devices :
            /\ session[d].entries = {}
            /\ session[d].disposed <=> d < disposeFrom
    /\ status = "stopping" => disposeFrom < DeviceCount
    /\ status = "stopped" => disposeFrom >= DeviceCount

\* The second inductive invariant, on top of the first.
FleetInv ==
    /\ \A d \in Devices : LinkInv(session[d]) /\ Match(ViewOf(d))
    /\ CountersExact
    /\ StopInv

ConnectedIn(D) == {d \in D : session[d].socketConnected}

OthersOf(d) ==
    [tcp |-> Cardinality(ConnectedIn(Devices \ {d})),
     counts |-> [s \in SessionState |-> Cardinality(InState(Devices \ {d}, s))]]

LEMMA DevicesFinite == ASSUME NEW D \in SUBSET Devices PROVE IsFiniteSet(D)
<1>1. IsFiniteSet(Devices)
  BY DeviceCountAssumption, FS_Interval DEF Devices
<1> QED BY <1>1, FS_Subset

\* A set of devices with and without one of them.
LEMMA WithoutOne ==
    ASSUME NEW D \in SUBSET Devices, NEW d \in Devices
    PROVE  /\ Cardinality(D) = Cardinality(D \ {d}) + (IF d \in D THEN 1 ELSE 0)
           /\ Cardinality(D \ {d}) \in Nat
<1>1. IsFiniteSet(D) /\ IsFiniteSet(D \ {d})
  BY DevicesFinite
<1>2. Cardinality(D) \in Nat /\ Cardinality(D \ {d}) \in Nat
  BY <1>1, FS_CardinalityType
<1>3. Cardinality(D \ {d}) = IF d \in D THEN Cardinality(D) - 1 ELSE Cardinality(D)
  BY <1>1, FS_RemoveElement
<1> QED BY <1>2, <1>3

LEMMA OthersType ==
    ASSUME NEW d \in Devices
    PROVE  OthersOf(d) \in Others
<1> DEFINE k == Cardinality(ConnectedIn(Devices \ {d}))
           c(s) == Cardinality(InState(Devices \ {d}, s))
<1>1. k \in Nat
  BY CardinalityLemma DEF ConnectedIn
<1>2. \A s \in SessionState : c(s) \in Nat
  BY CardinalityLemma DEF InState
<1> HIDE DEF k, c
<1>3. [s \in SessionState |-> c(s)] \in [SessionState -> Nat]
  BY <1>2
<1>4. OthersOf(d) = [tcp |-> k, counts |-> [s \in SessionState |-> c(s)]]
  BY DEF OthersOf, k, c
<1> QED BY <1>1, <1>3, <1>4 DEF Others

LEMMA FarmTally ==
    ASSUME IInv, CountersExact, status # "idle", NEW d \in Devices
    PROVE  Tally(ViewOf(d), OthersOf(d))
<1> DEFINE on == {e \in Devices : session[e].socketConnected}
           in(s) == {e \in Devices : session[e].state = s}
<1>1. ConnectedIn(Devices \ {d}) = on \ {d}
  BY DEF ConnectedIn
<1>2. \A s : InState(Devices \ {d}, s) = in(s) \ {d}
  BY DEF InState
<1>3. tcpConnected = Cardinality(on \ {d}) + (IF session[d].socketConnected THEN 1 ELSE 0)
  BY WithoutOne DEF CountersExact
<1>4. ASSUME NEW s \in SessionState
      PROVE  stateCounts[s] = Cardinality(in(s) \ {d}) + (IF session[d].state = s THEN 1 ELSE 0)
  <2>1. stateCounts[s] = Cardinality(in(s))
    BY DEF CountersExact
  <2>2. in(s) \in SUBSET Devices
    OBVIOUS
  <2>3. Cardinality(in(s)) = Cardinality(in(s) \ {d}) + (IF d \in in(s) THEN 1 ELSE 0)
    BY <2>2, WithoutOne
  <2> QED BY <2>1, <2>3
<1>5. OthersOf(d).tcp = Cardinality(on \ {d})
  BY <1>1 DEF OthersOf
<1>6. \A s \in SessionState : OthersOf(d).counts[s] = Cardinality(in(s) \ {d})
  BY <1>2 DEF OthersOf
<1>7. ViewOf(d).dev = session[d] /\ ViewOf(d).tcp = tcpConnected
      /\ ViewOf(d).counts = stateCounts
  BY DEF ViewOf
<1> QED BY <1>3, <1>4, <1>5, <1>6, <1>7 DEF Tally

\* No session of a farm that does not run is scheduled or gets a socket.
Calm(v, r) ==
    ~v.running =>
        /\ r.dev.entries = v.dev.entries
        /\ \A t \in Tokens :
             r.dev.wire[t].phase # "none" => v.dev.wire[t].phase # "none"

\* What every callback does, as the farm sees it.
DeviceStep(d, r) ==
    /\ Apply(d, r)
    /\ status # "idle" /\ ~session[d].disposed
    /\ ViewInv(r) /\ r.running = Running
    /\ Sound(r, OthersOf(d))
    /\ Progress(ViewOf(d), r)
    /\ Calm(ViewOf(d), r)

LEMMA DeviceStepTally ==
    ASSUME IInv, NEW d \in Devices, NEW r, DeviceStep(d, r)
    PROVE  CountersExact'
<1> DEFINE on == {e \in Devices : session'[e].socketConnected}
           in(s) == {e \in Devices : session'[e].state = s}
<1>1. \A e \in Devices : session'[e] = IF e = d THEN r.dev ELSE session[e]
  BY DEF DeviceStep, Apply, IInv, TypeOK
<1>2. tcpConnected' = r.tcp /\ stateCounts' = r.counts /\ status' = status
  BY DEF DeviceStep, Apply
<1>3. ConnectedIn(Devices \ {d}) = on \ {d}
  BY <1>1 DEF ConnectedIn
<1>4. \A s : InState(Devices \ {d}, s) = in(s) \ {d}
  BY <1>1 DEF InState
<1>5. Tally(r, OthersOf(d))
  BY DEF DeviceStep, Sound
<1>6. tcpConnected' = Cardinality(on)
  <2>1. Cardinality(on) = Cardinality(on \ {d}) + (IF r.dev.socketConnected THEN 1 ELSE 0)
    BY <1>1, WithoutOne
  <2>2. OthersOf(d).tcp = Cardinality(on \ {d})
    BY <1>3 DEF OthersOf
  <2> QED BY <1>2, <1>5, <2>1, <2>2 DEF Tally
<1>7. ASSUME NEW s \in SessionState PROVE stateCounts'[s] = Cardinality(in(s))
  <2>1. Cardinality(in(s)) = Cardinality(in(s) \ {d}) + (IF r.dev.state = s THEN 1 ELSE 0)
    BY <1>1, WithoutOne
  <2>2. OthersOf(d).counts[s] = Cardinality(in(s) \ {d})
    BY <1>4 DEF OthersOf
  <2> QED BY <1>2, <1>5, <2>1, <2>2 DEF Tally
<1> QED BY <1>6, <1>7 DEF CountersExact

LEMMA DeviceStepFleet ==
    ASSUME IInv, FleetInv, NEW d \in Devices, NEW r, DeviceStep(d, r)
    PROVE  FleetInv'
<1>1. \A e \in Devices : session'[e] = IF e = d THEN r.dev ELSE session[e]
  BY DEF DeviceStep, Apply, IInv, TypeOK
<1>2. status' = status /\ disposeFrom' = disposeFrom
  BY DEF DeviceStep, Apply
<1>3. \A e \in Devices : LinkInv(session'[e])
  BY <1>1 DEF DeviceStep, Sound, FleetInv
<1>4. \A e \in Devices : Match(ViewOf(e))'
  <2>1. \A e \in Devices : /\ ViewOf(e).dev = session[e] /\ ViewOf(e).running = Running
                           /\ ViewOf(e)'.dev = session'[e] /\ ViewOf(e)'.running = Running'
    BY DEF ViewOf
  <2>2. Running' = Running /\ Match(r) /\ r.running = Running
    BY <1>2 DEF Running, DeviceStep, Sound
  <2>3. \A e \in Devices : Match(ViewOf(e))
    BY DEF FleetInv
  <2> QED BY <1>1, <2>1, <2>2, <2>3 DEF Match
<1>5. CountersExact'
  BY DeviceStepTally DEF FleetInv
<1>6. StopInv'
  <2>1. status # "idle" /\ ~session[d].disposed
    BY DEF DeviceStep
  <2>2. ~r.dev.disposed
    <3>1. session[d].state # "STOPPED" /\ ViewOf(d).dev = session[d]
      BY <2>1 DEF IInv, SessionInv, ViewOf
    <3>2. r.dev.state # "STOPPED"
      BY <3>1 DEF DeviceStep, Progress, Fell
    <3> QED BY <3>2 DEF DeviceStep, ViewInv, SessionInv
  <2>3. ~Running => r.dev.entries = session[d].entries
    BY DEF DeviceStep, Calm, ViewOf
  <2> QED BY <1>1, <1>2, <2>1, <2>2, <2>3 DEF StopInv, FleetInv, Running
<1> QED BY <1>3, <1>4, <1>5, <1>6 DEF FleetInv

LEMMA SoundView ==
    ASSUME IInv, FleetInv, status # "idle", NEW d \in Devices
    PROVE  /\ ViewInv(ViewOf(d)) /\ ViewOf(d) \in View
           /\ ViewOf(d).dev = session[d] /\ ViewOf(d).running = Running
           /\ Sound(ViewOf(d), OthersOf(d))
           /\ OthersOf(d) \in Others
<1>1. ViewInv(ViewOf(d)) /\ ViewOf(d).dev = session[d] /\ ViewOf(d).running = Running
  BY ViewOfLemma
<1>2. LinkInv(session[d]) /\ Match(ViewOf(d))
  BY DEF FleetInv
<1>3. Tally(ViewOf(d), OthersOf(d))
  BY FarmTally DEF FleetInv
<1> QED BY <1>1, <1>2, <1>3, OthersType DEF Sound, ViewInv

LEMMA PumpSound ==
    ASSUME IInv, FleetInv, NEW d \in Devices, Pump(d)
    PROVE  \E r : DeviceStep(d, r)
<1> DEFINE left == session[d].entries \ {session[d].scheduleVersion}
           s == [session[d] EXCEPT !.entries = left]
           v == [ViewOf(d) EXCEPT !.dev = s]
           o == OthersOf(d)
<1>0. Running /\ status # "idle" /\ ~session[d].disposed
  BY DEF Pump, DueEntry, Running
<1>1. /\ ViewInv(ViewOf(d)) /\ ViewOf(d) \in View
      /\ ViewOf(d).dev = session[d] /\ ViewOf(d).running = Running
      /\ Sound(ViewOf(d), o) /\ o \in Others
  BY <1>0, SoundView
<1>2. Popped(d) = v
  BY <1>1 DEF Popped, View
<1>3. /\ s \in Session /\ s.wire = session[d].wire
      /\ s.state = session[d].state /\ s.disposed = session[d].disposed
      /\ s.moving = session[d].moving
      /\ s.socket = session[d].socket /\ s.socketToken = session[d].socketToken
      /\ s.socketConnected = session[d].socketConnected
      /\ s.backpressured = session[d].backpressured
  BY <1>1 DEF View, Session
<1> HIDE DEF s, o
<1>4. SessionInv(s)
  BY <1>1, <1>3 DEF ViewInv, SessionInv, SocketInv
<1>5. /\ v \in View /\ v.dev = s /\ v.running = ViewOf(d).running
      /\ v.tcp = ViewOf(d).tcp /\ v.counts = ViewOf(d).counts
  BY <1>1, <1>3 DEF View
<1> HIDE DEF v
<1>6. ViewInv(v) /\ v.running /\ ~v.dev.disposed
  BY <1>0, <1>1, <1>3, <1>4, <1>5 DEF ViewInv
<1>7. Sound(v, o)
  <2>1. Alike(ViewOf(d), v)
    BY <1>1, <1>3, <1>5 DEF Alike
  <2> QED BY <1>1, <2>1, AlikeLemma DEF Sound
<1>8. PICK r \in HandleDue(v) : Apply(d, r)
  BY <1>2 DEF Pump
<1>9. Kept(v, r)
  BY <1>6, HandleDueLemma
<1>10. Sound(r, o) /\ Progress(v, r)
  BY <1>1, <1>6, <1>7, HandleDueSound
<1>11. Progress(ViewOf(d), r)
  BY <1>1, <1>3, <1>5, <1>10 DEF Progress, Fell
<1>12. DeviceStep(d, r)
  BY <1>0, <1>1, <1>5, <1>8, <1>9, <1>10, <1>11 DEF DeviceStep, Kept, Calm, o
<1> QED BY <1>12

LEMMA PumpStaleSound ==
    ASSUME IInv, FleetInv, NEW d \in Devices, PumpStale(d)
    PROVE  \E r : DeviceStep(d, r)
<1>0. Running /\ status # "idle" /\ ~session[d].disposed
  BY DEF PumpStale, Running, IInv, NoLostDevice
<1>1. PICK n \in session[d].entries :
        Apply(d, [ViewOf(d) EXCEPT !.dev.entries = @ \ {n}])
  BY DEF PumpStale
<1> DEFINE left == session[d].entries \ {n}
           s == [session[d] EXCEPT !.entries = left]
           v == [ViewOf(d) EXCEPT !.dev = s]
           o == OthersOf(d)
<1>2. /\ ViewInv(ViewOf(d)) /\ ViewOf(d) \in View
      /\ ViewOf(d).dev = session[d] /\ ViewOf(d).running = Running
      /\ Sound(ViewOf(d), o) /\ o \in Others
  BY <1>0, SoundView
<1>3. [ViewOf(d) EXCEPT !.dev.entries = @ \ {n}] = v
  BY <1>2 DEF View
<1>4. /\ s \in Session /\ s.wire = session[d].wire
      /\ s.state = session[d].state /\ s.disposed = session[d].disposed
      /\ s.moving = session[d].moving
      /\ s.socket = session[d].socket /\ s.socketToken = session[d].socketToken
      /\ s.socketConnected = session[d].socketConnected
      /\ s.backpressured = session[d].backpressured
  BY <1>2 DEF View, Session
<1> HIDE DEF s, o
<1>5. SessionInv(s)
  BY <1>2, <1>4 DEF ViewInv, SessionInv, SocketInv
<1>6. /\ v \in View /\ v.dev = s /\ v.running = ViewOf(d).running
      /\ v.tcp = ViewOf(d).tcp /\ v.counts = ViewOf(d).counts
  BY <1>2, <1>4 DEF View
<1> HIDE DEF v
<1>7. Alike(ViewOf(d), v)
  BY <1>2, <1>4, <1>6 DEF Alike
<1>8. Sound(v, o) /\ Progress(ViewOf(d), v)
  BY <1>2, <1>7, AlikeLemma DEF Sound, Progress, Fell, Alike
<1>9. DeviceStep(d, v)
  BY <1>0, <1>1, <1>2, <1>3, <1>5, <1>6, <1>8 DEF DeviceStep, ViewInv, Calm, o
<1> QED BY <1>9

LEMMA NetEventSound ==
    ASSUME IInv, FleetInv, NEW d \in Devices, NetEvent(d)
    PROVE  \E r : DeviceStep(d, r)
<1>1. PICK t \in Tokens :
        \/ \E a \in WriteResult : NetConnect(d, t, a)
        \/ \E f \in Frames, g \in Frames \cup {NoFrame} : NetData(d, t, f, g)
        \/ NetDrain(d, t)
        \/ NetEnd(d, t)
        \/ NetError(d, t)
        \/ NetClose(d, t)
  BY DEF NetEvent
<1> DEFINE v == ViewOf(d)
           old == session[d].wire[t]
           with(w) == [v EXCEPT !.dev.wire[t] = w]
           ended == [old EXCEPT !.phase = "dead"]
           o == OthersOf(d)
<1>2. old.phase # "none"
  BY <1>1 DEF NetConnect, NetData, NetDrain, NetEnd, NetError, NetClose
<1>3. status # "idle"
  BY <1>2 DEF FleetInv, StopInv, NewSession, NoWire
<1>4. /\ ViewInv(v) /\ v \in View /\ v.dev = session[d] /\ v.running = Running
      /\ Sound(v, o) /\ o \in Others
  BY <1>3, SoundView
<1>5. /\ v.dev \in Session /\ v.dev.wire \in [Tokens -> Wire]
      /\ old \in Wire /\ v.dev.wire[t] = old
      /\ LinkInv(v.dev) /\ SessionInv(v.dev) /\ Tally(v, o)
  BY <1>4 DEF View, Session, Sound, ViewInv
<1> HIDE DEF v, o
<1>6. IsCurrentSocket(v, t) /\ v.dev.socket = t /\ ~v.dev.disposed
  BY <1>2, <1>4, <1>5, OwnerIsCurrent
\* It is enough that the callback does what every callback does to the view.
<1>7. ASSUME NEW r, Apply(d, r), ViewInv(r), r.running = v.running, Sound(r, o),
             Progress(v, r), Calm(v, r)
      PROVE  \E x : DeviceStep(d, x)
  <2>1. DeviceStep(d, r)
    BY <1>3, <1>4, <1>6, <1>7 DEF DeviceStep, v, o
  <2> QED BY <2>1
<1>8. ASSUME NEW u, NEW r, Progress(u, r), Quiet(u, r),
             u.running = v.running, u.dev.state = v.dev.state,
             u.dev.entries = v.dev.entries,
             \A x \in Tokens : u.dev.wire[x].phase # "none" => v.dev.wire[x].phase # "none"
      PROVE  Progress(v, r) /\ Calm(v, r)
  BY <1>8 DEF Progress, Fell, Quiet, Calm
<1>9. ASSUME NEW w \in Wire
      PROVE  \A x \in Tokens : [v.dev.wire EXCEPT ![t] = w][x].phase # "none"
                                 => v.dev.wire[x].phase # "none"
  BY <1>2, <1>5
<1>10. /\ ended \in Wire /\ ended.phase = "dead" /\ ended.acked = old.acked
       /\ ended.data = old.data /\ ended.logins = old.logins
  BY <1>5 DEF Wire, Phase
<1>11. WithPhase(d, t, "dead") = with(ended)
  BY <1>5 DEF WithPhase, View, Session, v
<1> HIDE DEF ended
<1>12. CASE \E a \in WriteResult : NetConnect(d, t, a)
  <2> DEFINE w == [old EXCEPT !.phase = "open"]
             u == with(w)
  <2>1. PICK a \in WriteResult : NetConnect(d, t, a)
    BY <1>12
  <2>2. /\ w \in Wire /\ w.phase = "open" /\ w.acked = old.acked /\ w.data = old.data
        /\ w.logins = old.logins /\ w.needDrain = old.needDrain
    BY <1>5 DEF Wire, Phase
  <2>2a. old.phase = "opening"
    BY <2>1 DEF NetConnect
  <2>3. WithPhase(d, t, "open") = u
    BY <1>5 DEF WithPhase, View, Session, v
  <2>4. Apply(d, OnConnect(u, t, a))
    BY <2>1, <2>3 DEF NetConnect
  <2> HIDE DEF w
  <2>5. /\ ViewInv(u) /\ u \in View /\ Tally(u, o) /\ LinkInv(u.dev)
        /\ u.running = v.running /\ u.dev.state = v.dev.state
        /\ u.dev.socketConnected = v.dev.socketConnected
        /\ u.dev.socket = t /\ u.dev.wire = [v.dev.wire EXCEPT ![t] = w]
        /\ u.dev.entries = v.dev.entries /\ IsCurrentSocket(u, t)
    BY <1>4, <1>5, <2>2, <2>2a, RewireSound
  <2> HIDE DEF u
  <2>6. u.dev.state = "CONNECTING" /\ u.dev.wire[t].phase = "open"
    BY <1>5, <2>2, <2>2a, <2>5 DEF SessionInv
  <2>7. ~u.dev.socketConnected
    BY <1>5, <1>6, <2>2a, <2>5 DEF LinkInv, Linked
  <2> DEFINE r == OnConnect(u, t, a)
  <2>8. Sound(r, o) /\ Progress(u, r) /\ Quiet(u, r)
    BY <1>4, <2>5, <2>6, <2>7, OnConnectSound
  <2>9. ViewInv(r) /\ r.running = u.running
    <3>1. ViewInv(u)
      BY <2>5
    <3> QED BY <2>6, <3>1, OnConnectLemma
  <2> HIDE DEF r
  <2>9a. \A x \in Tokens : u.dev.wire[x].phase # "none" => v.dev.wire[x].phase # "none"
    BY <1>9, <2>2, <2>5
  <2>10. Progress(v, r) /\ Calm(v, r)
    BY <1>8, <2>5, <2>8, <2>9a
  <2> QED BY <1>7, <2>4, <2>5, <2>8, <2>9, <2>10 DEF r
<1>13. CASE \E f \in Frames, g \in Frames \cup {NoFrame} : NetData(d, t, f, g)
  <2>1. PICK f \in Frames, g \in Frames \cup {NoFrame} : NetData(d, t, f, g)
    BY <1>13
  <2>2. PICK r \in OnData(v, t, f, g) : Apply(d, r)
    BY <2>1 DEF NetData, v
  <2>3. old.phase = "open" /\ Answers(v, t, f) /\ Answers(v, t, g)
    BY <1>5, <2>1 DEF NetData, Answers
  <2>4. Sound(r, o) /\ Progress(v, r) /\ Quiet(v, r)
    BY <1>4, <1>5, <2>3, OnDataSound
  <2>5. ViewInv(r) /\ r.running = v.running
    BY <1>4, OnDataLemma
  <2>6. Calm(v, r)
    BY <2>4 DEF Quiet, Calm
  <2> QED BY <1>7, <2>2, <2>4, <2>5, <2>6
<1>14. CASE NetDrain(d, t)
  <2> DEFINE w == [old EXCEPT !.needDrain = FALSE]
             u == with(w)
  <2>1. /\ w \in Wire /\ w.phase = old.phase /\ w.acked = old.acked /\ w.data = old.data
        /\ w.logins = old.logins
    BY <1>5 DEF Wire
  <2>1a. old.phase = "open"
    BY <1>14 DEF NetDrain
  <2>2. [ViewOf(d) EXCEPT !.dev.wire[t].needDrain = FALSE] = u
    BY <1>5 DEF View, Session, v
  <2>3. Apply(d, OnDrain(u, t))
    BY <1>14, <2>2 DEF NetDrain
  <2> HIDE DEF w
  <2>4. /\ ViewInv(u) /\ Tally(u, o) /\ Linked(u.dev) /\ Match(u)
        /\ u.running = v.running /\ u.dev.state = v.dev.state
        /\ u.dev.wire = [v.dev.wire EXCEPT ![t] = w]
        /\ u.dev.entries = v.dev.entries /\ IsCurrentSocket(u, t)
    BY <1>4, <1>5, <2>1, <2>1a, RewireSound
  <2> HIDE DEF u
  <2> DEFINE r == OnDrain(u, t)
  <2>5. Sound(r, o) /\ Progress(u, r) /\ Quiet(u, r)
    BY <1>4, <2>4, OnDrainSound
  <2>6. ViewInv(r) /\ r.running = u.running
    BY <2>4, OnDrainLemma
  <2> HIDE DEF r
  <2>6a. \A x \in Tokens : u.dev.wire[x].phase # "none" => v.dev.wire[x].phase # "none"
    BY <1>9, <2>1, <2>4
  <2>7. Progress(v, r) /\ Calm(v, r)
    BY <1>8, <2>4, <2>5, <2>6a
  <2> QED BY <1>7, <2>3, <2>4, <2>5, <2>6, <2>7 DEF r
<1>15. CASE NetEnd(d, t) \/ NetError(d, t)
  <2> DEFINE u == with(ended)
  <2>1. /\ ViewInv(u) /\ u \in View /\ Tally(u, o) /\ LinkInv(u.dev)
        /\ old.phase # "opening" => Match(u)
        /\ u.running = v.running /\ u.dev.state = v.dev.state
        /\ u.dev.wire = [v.dev.wire EXCEPT ![t] = ended]
        /\ u.dev.entries = v.dev.entries /\ IsCurrentSocket(u, t)
    BY <1>2, <1>4, <1>5, <1>10, RewireSound
  <2>2. \/ old.phase = "open" /\ Apply(d, u)
        \/ Apply(d, OnError(u, t))
    BY <1>11, <1>15 DEF NetEnd, NetError
  <2> HIDE DEF u
  <2>3. \A x \in Tokens : u.dev.wire[x].phase # "none" => v.dev.wire[x].phase # "none"
    BY <1>9, <1>10, <2>1
  <2>4. CASE old.phase = "open" /\ Apply(d, u)
    <3>1. Sound(u, o)
      BY <2>1, <2>4 DEF Sound
    <3>2. Progress(u, u) /\ Quiet(u, u)
      BY <2>1, QuietReflexive DEF Progress, Fell
    <3>3. Progress(v, u) /\ Calm(v, u)
      BY <1>8, <2>1, <2>3, <3>2
    <3> QED BY <1>7, <2>1, <2>4, <3>1, <3>3
  <2>5. CASE Apply(d, OnError(u, t))
    <3> DEFINE r == OnError(u, t)
    <3>1. Sound(r, o) /\ Progress(u, r) /\ Quiet(u, r)
      BY <1>4, <2>1, OnErrorSound
    <3>2. ViewInv(r) /\ r.running = u.running
      BY <2>1, OnErrorLemma
    <3> HIDE DEF r
    <3>3. Progress(v, r) /\ Calm(v, r)
      BY <1>8, <2>1, <2>3, <3>1
    <3> QED BY <1>7, <2>1, <2>5, <3>1, <3>2, <3>3 DEF r
  <2> QED BY <2>2, <2>4, <2>5
<1>16. CASE NetClose(d, t)
  <2> DEFINE wire == [v.dev.wire EXCEPT ![t] = NoWire]
             s == [v.dev EXCEPT !.wire = wire]
             u == [v EXCEPT !.dev = s]
  <2>1. Apply(d, OnClose(u, t))
    <3>1. [v EXCEPT !.dev.wire[t] = NoWire] = u
      BY <1>4, <1>5 DEF View, Session
    <3> QED BY <1>16, <3>1 DEF NetClose, v
  <2>2. ViewInv(u)
    <3>1. NoWire \in Wire /\ NoWire.phase = "none"
      BY WireFacts DEF NoWire
    <3> DEFINE w == NoWire
    <3>2. w \in Wire /\ w.phase = "none"
      BY <3>1
    <3> HIDE DEF w
    <3>3. LET r == [v EXCEPT !.dev.wire[t] = w] IN ViewInv(r)
      BY <1>4, <3>2, RewireLemma
    <3>4. [v EXCEPT !.dev.wire[t] = w] = u
      BY <1>4, <1>5 DEF View, Session, w
    <3> QED BY <3>3, <3>4
  <2>3. \A x \in Tokens : wire[x] = IF x = t THEN NoWire ELSE v.dev.wire[x]
    BY <1>5
  <2> HIDE DEF wire
  <2>4. /\ s.wire = wire /\ s.state = v.dev.state /\ s.socket = t
        /\ s.socketToken = v.dev.socketToken /\ s.disposed = v.dev.disposed
        /\ s.socketConnected = v.dev.socketConnected /\ s.entries = v.dev.entries
    BY <1>5, <1>6 DEF Session
  <2> HIDE DEF s
  <2>5. u.dev = s /\ u.running = v.running /\ u.tcp = v.tcp /\ u.counts = v.counts
    BY <1>4 DEF View
  <2> HIDE DEF u
  <2>6. Tally(u, o)
    BY <1>5, <2>4, <2>5 DEF Tally
  <2>7. WiresSound(u.dev) /\ u.dev.wire[t].phase = "none" /\ u.dev.socket = t
    BY <1>5, <2>3, <2>4, <2>5 DEF LinkInv, Linked, WiresSound, NoWire
  <2>8. IsCurrentSocket(u, t)
    BY <1>6, <2>4, <2>5 DEF IsCurrentSocket
  <2> DEFINE r == OnClose(u, t)
  <2>9. Sound(r, o) /\ Progress(u, r) /\ Quiet(u, r)
    BY <1>4, <2>2, <2>6, <2>7, <2>8, OnCloseSound
  <2>10. ViewInv(r) /\ r.running = u.running
    BY <2>2, <2>7, OnCloseLemma
  <2> HIDE DEF r
  <2>11. Progress(v, r) /\ Calm(v, r)
    BY <1>2, <1>5, <1>8, <2>3, <2>4, <2>5, <2>9
  <2> QED BY <1>7, <2>1, <2>5, <2>9, <2>10, <2>11 DEF r
<1> QED BY <1>1, <1>12, <1>13, <1>14, <1>15, <1>16

LEMMA DisposeAllShape ==
    ASSUME IInv, FleetInv, status # "idle",
           NEW D \in SUBSET Devices, NEW heap \in [Devices -> SUBSET Versions],
           DisposeAll(D, heap), NEW d \in Devices
    PROVE  /\ LinkInv(session'[d])
           /\ session'[d].entries = heap[d]
           /\ \/ /\ d \in D /\ ~session[d].disposed
                 /\ session'[d].state = "STOPPED" /\ session'[d].disposed
                 /\ session'[d].socketConnected = FALSE
                 /\ \A t \in Tokens : session'[d].wire[t].phase = "none"
              \/ /\ d \notin D \/ session[d].disposed
                 /\ session'[d].state = session[d].state
                 /\ session'[d].disposed = session[d].disposed
                 /\ session'[d].socketConnected = session[d].socketConnected
                 /\ session'[d].wire = session[d].wire
<1> DEFINE live == {e \in D : ~session[e].disposed}
           x == [ViewOf(d) EXCEPT !.dev.entries = heap[d], !.running = FALSE]
           s == [session[d] EXCEPT !.entries = heap[d]]
           v == [ViewOf(d) EXCEPT !.dev = s, !.running = FALSE]
           o == OthersOf(d)
<1>1. /\ ViewInv(ViewOf(d)) /\ ViewOf(d) \in View /\ ViewOf(d).dev = session[d]
      /\ Sound(ViewOf(d), o) /\ o \in Others
  BY SoundView
<1>2. x = v
  BY <1>1 DEF View
<1>3. session'[d] = IF d \in live THEN Dispose(v).dev ELSE v.dev
  <2>1. session'[d] = IF d \in live THEN Dispose(x).dev ELSE x.dev
    BY DEF DisposeAll
  <2> QED BY <1>2, <2>1
<1>4. heap[d] \in SUBSET Versions
  OBVIOUS
<1>5. /\ s \in Session /\ s.wire = session[d].wire /\ s.entries = heap[d]
      /\ s.state = session[d].state /\ s.disposed = session[d].disposed
      /\ s.moving = session[d].moving
      /\ s.socket = session[d].socket /\ s.socketToken = session[d].socketToken
      /\ s.socketConnected = session[d].socketConnected
      /\ s.backpressured = session[d].backpressured
  BY <1>1, <1>4 DEF View, Session
<1> HIDE DEF s, o, x
<1>6. SessionInv(s)
  BY <1>1, <1>5 DEF ViewInv, SessionInv, SocketInv
<1>7. LinkInv(s)
  BY <1>1, <1>5 DEF Sound, LinkInv, Linked, WiresSound, DrainOwed
<1>8. /\ v \in View /\ v.dev = s
      /\ v.tcp = ViewOf(d).tcp /\ v.counts = ViewOf(d).counts
  BY <1>1, <1>5 DEF View
<1> HIDE DEF v
<1>9. ViewInv(v) /\ WiresSound(v.dev)
  BY <1>6, <1>7, <1>8 DEF ViewInv, LinkInv, Linked
<1>10. Tally(v, o)
  BY <1>1, <1>5, <1>8 DEF Sound, Tally
<1>11. CASE d \in live
  <2>1. ~v.dev.disposed
    BY <1>5, <1>8, <1>11
  <2> DEFINE q == Dispose(v).dev
  <2>2. /\ q.state = "STOPPED" /\ q.disposed /\ q.socketConnected = FALSE
        /\ q.entries = v.dev.entries
        /\ \A t \in Tokens : q.wire[t].phase = "none"
        /\ LinkInv(q)
    BY <1>1, <1>9, <1>10, <2>1, DisposeSound
  <2>3. session'[d] = q
    BY <1>3, <1>11
  <2> HIDE DEF q
  <2> QED BY <1>5, <1>8, <1>11, <2>2, <2>3
<1>12. CASE d \notin live
  <2>1. session'[d] = s
    BY <1>3, <1>8, <1>12
  <2>2. d \notin D \/ session[d].disposed
    BY <1>12
  <2> HIDE DEF live
  <2> QED BY <1>5, <1>7, <2>1, <2>2
<1> QED BY <1>11, <1>12

LEMMA DisjointSizes ==
    ASSUME NEW S, NEW T, IsFiniteSet(S), IsFiniteSet(T), S \cap T = {}
    PROVE  Cardinality(S \cup T) = Cardinality(S) + Cardinality(T)
<1>1. Cardinality(S \cup T) = Cardinality(S) + Cardinality(T) - Cardinality(S \cap T)
  BY FS_Union
<1>2. Cardinality(S) \in Nat /\ Cardinality(T) \in Nat
  BY FS_CardinalityType
<1>3. Cardinality(S \cap T) = 0
  BY FS_EmptySet
<1> QED BY <1>1, <1>2, <1>3

\* Taking a part away never needs the clamp at zero.
LEMMA RemainderSize ==
    ASSUME NEW S, NEW T, IsFiniteSet(S), T \subseteq S
    PROVE  Cardinality(S \ T) = IF Cardinality(S) > Cardinality(T)
                                THEN Cardinality(S) - Cardinality(T) ELSE 0
<1>1. IsFiniteSet(T) /\ IsFiniteSet(S \ T)
  BY FS_Subset
<1>2. (S \ T) \cap T = {} /\ (S \ T) \cup T = S
  OBVIOUS
<1>3. Cardinality((S \ T) \cup T) = Cardinality(S \ T) + Cardinality(T)
  BY <1>1, <1>2, DisjointSizes
<1>4. Cardinality(S) = Cardinality(S \ T) + Cardinality(T)
  BY <1>2, <1>3
<1>5. Cardinality(S) \in Nat /\ Cardinality(T) \in Nat /\ Cardinality(S \ T) \in Nat
  BY <1>1, FS_CardinalityType
<1> QED BY <1>4, <1>5

LEMMA DisposeAllTally ==
    ASSUME IInv, FleetInv, status # "idle",
           NEW D \in SUBSET Devices, NEW heap \in [Devices -> SUBSET Versions],
           DisposeAll(D, heap)
    PROVE  CountersExact'
<1> DEFINE live == {d \in D : ~session[d].disposed}
           on == {d \in Devices : session[d].socketConnected}
           on1 == {d \in Devices : session'[d].socketConnected}
           off == {d \in live : session[d].socketConnected}
           in(s) == {d \in Devices : session[d].state = s}
           in1(s) == {d \in Devices : session'[d].state = s}
           out(s) == InState(live, s)
<1>1. ASSUME NEW d \in Devices
      PROVE  session'[d].socketConnected = (IF d \in live THEN FALSE ELSE session[d].socketConnected)
  BY DisposeAllShape
<1>2. ASSUME NEW d \in Devices
      PROVE  session'[d].state = (IF d \in live THEN "STOPPED" ELSE session[d].state)
  BY DisposeAllShape
<1>3. \A d \in live : session[d].state # "STOPPED"
  BY DEF IInv, SessionInv
<1>4. tcpConnected = Cardinality(on)
  BY DEF FleetInv, CountersExact
<1>5. \A s \in SessionState : stateCounts[s] = Cardinality(in(s))
  BY DEF FleetInv, CountersExact
<1>6. tcpConnected' = IF tcpConnected > Cardinality(off)
                      THEN tcpConnected - Cardinality(off) ELSE 0
  BY DEF DisposeAll
<1>7. ASSUME NEW s \in SessionState
      PROVE  stateCounts'[s] =
               IF s = "STOPPED" THEN stateCounts[s] + Cardinality(live \ out(s))
               ELSE IF stateCounts[s] > Cardinality(out(s))
                    THEN stateCounts[s] - Cardinality(out(s)) ELSE 0
  BY DEF DisposeAll
<1>8. tcpConnected' = Cardinality(on1)
  <2>1. off \subseteq on /\ on1 = on \ off
    BY <1>1
  <2>2. IsFiniteSet(on)
    BY DevicesFinite
  <2>3. Cardinality(on1) = IF Cardinality(on) > Cardinality(off)
                           THEN Cardinality(on) - Cardinality(off) ELSE 0
    BY <2>1, <2>2, RemainderSize
  <2> QED BY <1>4, <1>6, <2>3
<1>9. ASSUME NEW s \in SessionState PROVE stateCounts'[s] = Cardinality(in1(s))
  <2>1. stateCounts[s] = Cardinality(in(s))
    BY <1>5
  <2>2. CASE s = "STOPPED"
    <3>1. out(s) = {} /\ in(s) \cap live = {} /\ in1(s) = in(s) \cup live
      BY <1>2, <1>3, <2>2 DEF InState
    <3>2. IsFiniteSet(in(s)) /\ IsFiniteSet(live)
      BY DevicesFinite
    <3>3. Cardinality(in1(s)) = Cardinality(in(s)) + Cardinality(live)
      BY <3>1, <3>2, DisjointSizes
    <3>4. stateCounts'[s] = stateCounts[s] + Cardinality(live)
      BY <1>7, <2>2, <3>1
    <3> QED BY <2>1, <3>3, <3>4
  <2>3. CASE s # "STOPPED"
    <3>1. out(s) \subseteq in(s) /\ in1(s) = in(s) \ out(s)
      BY <1>2, <2>3 DEF InState
    <3>2. IsFiniteSet(in(s))
      BY DevicesFinite
    <3>3. Cardinality(in1(s)) = IF Cardinality(in(s)) > Cardinality(out(s))
                                THEN Cardinality(in(s)) - Cardinality(out(s)) ELSE 0
      BY <3>1, <3>2, RemainderSize
    <3>4. stateCounts'[s] = IF stateCounts[s] > Cardinality(out(s))
                            THEN stateCounts[s] - Cardinality(out(s)) ELSE 0
      BY <1>7, <2>3
    <3> QED BY <2>1, <3>3, <3>4
  <2> QED BY <2>2, <2>3
<1> QED BY <1>8, <1>9 DEF CountersExact

\* Both ways into DisposeAll, with what stop() makes of the chunk it is at.
LEMMA StopChunks ==
    ASSUME IInv, FleetInv, Stop \/ StopChunk
    PROVE  /\ status # "idle"
           /\ \E D \in SUBSET Devices, heap \in [Devices -> SUBSET Versions] :
                /\ DisposeAll(D, heap)
                /\ \A d \in Devices : heap[d] = {}
                /\ \A d \in Devices :
                     d < disposeFrom' <=> d \in D \/ session[d].disposed
                /\ D # {}
           /\ Finish(disposeFrom')
<1>1. disposeFrom \in Nat /\ DisposeChunk \in Nat /\ DisposeChunk > 0
      /\ DeviceCount \in Nat /\ DeviceCount > 0
  BY DisposeChunkAssumption, DeviceCountAssumption DEF IInv, TypeOK
<1>2. CASE Stop
  <2> DEFINE heap == [d \in Devices |-> {}]
  <2>1. DisposeAll(Chunk(0), heap) /\ disposeFrom' = DisposeChunk /\ Finish(disposeFrom')
        /\ status = "running"
    BY <1>2 DEF Stop, Finish, Running
  <2>2. \A d \in Devices : ~session[d].disposed
    BY <2>1 DEF IInv, NoLostDevice, Running
  <2>3. /\ \A d \in Devices : d \in Chunk(0) <=> d < DisposeChunk
        /\ Chunk(0) \in SUBSET Devices /\ 0 \in Chunk(0)
    BY <1>1 DEF Chunk, Devices
  <2>4. heap \in [Devices -> SUBSET Versions] /\ \A d \in Devices : heap[d] = {}
    OBVIOUS
  <2> HIDE DEF heap
  <2> QED BY <2>1, <2>2, <2>3, <2>4
<1>3. CASE StopChunk
  <2> DEFINE heap == [d \in Devices |-> session[d].entries]
  <2>1. DisposeAll(Chunk(disposeFrom), heap) /\ disposeFrom' = disposeFrom + DisposeChunk
        /\ Finish(disposeFrom') /\ status = "stopping"
    BY <1>3 DEF StopChunk, Finish
  <2>2. /\ \A d \in Devices : session[d].entries = {}
                              /\ (session[d].disposed <=> d < disposeFrom)
        /\ disposeFrom < DeviceCount
    BY <2>1 DEF FleetInv, StopInv
  <2>3. \A d \in Devices : d < disposeFrom + DisposeChunk
                             <=> d \in Chunk(disposeFrom) \/ session[d].disposed
    BY <1>1, <2>2 DEF Chunk, Devices
  <2>4. Chunk(disposeFrom) \in SUBSET Devices /\ disposeFrom \in Chunk(disposeFrom)
    BY <1>1, <2>2 DEF Chunk, Devices
  <2>5. heap \in [Devices -> SUBSET Versions] /\ \A d \in Devices : heap[d] = {}
    BY <2>2
  <2> HIDE DEF heap
  <2> QED BY <2>1, <2>3, <2>4, <2>5
<1> QED BY <1>2, <1>3

LEMMA StopFleet ==
    ASSUME IInv, FleetInv, Stop \/ StopChunk
    PROVE  FleetInv'
<1>1. status # "idle" /\ Finish(disposeFrom')
  BY StopChunks
<1>2. PICK D \in SUBSET Devices, heap \in [Devices -> SUBSET Versions] :
        /\ DisposeAll(D, heap)
        /\ \A d \in Devices : heap[d] = {}
        /\ \A d \in Devices : d < disposeFrom' <=> d \in D \/ session[d].disposed
  BY StopChunks
<1>3. \A d \in Devices : /\ LinkInv(session'[d]) /\ session'[d].entries = {}
                         /\ session'[d].disposed <=> d < disposeFrom'
  BY <1>1, <1>2, DisposeAllShape
<1>4. CountersExact'
  BY <1>1, <1>2, DisposeAllTally
<1>5. status' \in {"stopping", "stopped"} /\ ~Running'
      /\ (status' = "stopped" => disposeFrom' >= DeviceCount)
      /\ (status' = "stopping" => ~(disposeFrom' >= DeviceCount))
  BY <1>1 DEF Finish, Running
<1>6. disposeFrom' \in Nat
  BY StopStep DEF IInv, TypeOK
<1>7. StopInv'
  BY <1>3, <1>5, <1>6, DeviceCountAssumption DEF StopInv
<1>8. \A d \in Devices : Match(ViewOf(d))'
  BY <1>5 DEF Match, ViewOf
<1> QED BY <1>3, <1>4, <1>7, <1>8 DEF FleetInv

LEMMA InitFleet == Init => FleetInv
<1> SUFFICES ASSUME Init PROVE FleetInv
  OBVIOUS
<1>1. \A d \in Devices : session[d] = NewSession
  BY DEF Init
<1>2. LinkInv(NewSession) /\ NewSession.socketConnected = FALSE
  BY DEF NewSession, LinkInv, Linked, WiresSound, DrainOwed, NoWire
<1>3. \A d \in Devices : Match(ViewOf(d))
  BY DEF Init, Match, ViewOf, Running
<1>4. CountersExact
  <2>1. {d \in Devices : session[d].socketConnected} = {}
    BY <1>1, <1>2
  <2>2. Cardinality({}) = 0
    BY FS_EmptySet
  <2>3. tcpConnected = 0 /\ status = "idle"
    BY DEF Init
  <2> QED BY <2>1, <2>2, <2>3 DEF CountersExact
<1>5. StopInv
  BY DEF Init, StopInv
<1> QED BY <1>1, <1>2, <1>3, <1>4, <1>5 DEF FleetInv

LEMMA StartFleet ==
    ASSUME IInv, FleetInv, Start
    PROVE  FleetInv'
<1> DEFINE s == [NewSession EXCEPT !.scheduleVersion = 1, !.entries = {1}]
<1>1. /\ s.state = "PENDING" /\ s.socket = NoSocket /\ s.socketConnected = FALSE
      /\ s.wire = NewSession.wire /\ s.disposed = FALSE /\ s.backpressured = FALSE
  BY DEF NewSession
<1>2. \A d \in Devices : session'[d] = s
  BY DEF Start
<1> HIDE DEF s
<1>3. LinkInv(s)
  BY <1>1 DEF LinkInv, Linked, WiresSound, DrainOwed, NewSession, NoWire
<1>4. status = "idle" /\ status' = "running" /\ tcpConnected' = tcpConnected
      /\ stateCounts' = [stateCounts EXCEPT !["PENDING"] = @ + DeviceCount]
  BY DEF Start
<1>5. \A d \in Devices : Match(ViewOf(d))'
  <2>1. \A d \in Devices : ViewOf(d)'.dev = session'[d]
    BY DEF ViewOf
  <2> QED BY <1>1, <1>2, <2>1 DEF Match
<1>6. CountersExact'
  <2>1. tcpConnected' = 0
    BY <1>4 DEF FleetInv, StopInv
  <2>2. {d \in Devices : session'[d].socketConnected} = {}
    BY <1>1, <1>2
  <2>3. Cardinality({}) = 0
    BY FS_EmptySet
  <2>4. ASSUME NEW x \in SessionState
        PROVE  stateCounts'[x] = Cardinality({d \in Devices : session'[d].state = x})
    <3>1. stateCounts \in [SessionState -> Nat] /\ stateCounts[x] = 0
      BY <1>4 DEF IInv, TypeOK, FleetInv, StopInv
    <3>2. stateCounts'[x] = IF x = "PENDING" THEN 0 + DeviceCount ELSE 0
      BY <1>4, <3>1
    <3>3. CASE x = "PENDING"
      <4>1. {d \in Devices : session'[d].state = x} = Devices
        BY <1>1, <1>2, <3>3
      <4>2. Cardinality(Devices) = DeviceCount
        BY FS_Interval, DeviceCountAssumption DEF Devices
      <4> QED BY <3>2, <3>3, <4>1, <4>2, DeviceCountAssumption
    <3>4. CASE x # "PENDING"
      <4>1. {d \in Devices : session'[d].state = x} = {}
        BY <1>1, <1>2, <3>4
      <4> QED BY <2>3, <3>2, <3>4, <4>1
    <3> QED BY <3>3, <3>4
  <2> QED BY <2>1, <2>2, <2>3, <2>4 DEF CountersExact
<1>7. StopInv'
  BY <1>4 DEF StopInv
<1> QED BY <1>2, <1>3, <1>5, <1>6, <1>7 DEF FleetInv

\* Every step is one of five kinds.
LEMMA StepKinds ==
    ASSUME IInv, FleetInv, [Next]_vars
    PROVE  \/ Start
           \/ Stop \/ StopChunk
           \/ Activate
           \/ \E d \in Devices : \E r : DeviceStep(d, r)
           \/ UNCHANGED vars
BY PumpSound, PumpStaleSound, NetEventSound DEF Next

LEMMA NextFleet == IInv /\ FleetInv /\ [Next]_vars => FleetInv'
<1> SUFFICES ASSUME IInv, FleetInv, [Next]_vars PROVE FleetInv'
  OBVIOUS
<1>1. CASE Start
  BY <1>1, StartFleet
<1>2. CASE Stop \/ StopChunk
  BY <1>2, StopFleet
<1>3. CASE Activate \/ UNCHANGED vars
  <2>1. /\ session' = session /\ tcpConnected' = tcpConnected
        /\ stateCounts' = stateCounts /\ status' = status /\ disposeFrom' = disposeFrom
    BY <1>3 DEF Activate, vars
  <2> QED BY <2>1 DEF FleetInv, ViewOf, Running, CountersExact, StopInv
<1>4. ASSUME NEW d \in Devices, NEW r, DeviceStep(d, r) PROVE FleetInv'
  BY <1>4, DeviceStepFleet
<1> QED BY <1>1, <1>2, <1>3, <1>4, StepKinds

LEMMA FleetInvariance == Spec => [](IInv /\ FleetInv)
<1>1. Init => IInv /\ FleetInv
  BY InitIInv, InitFleet
<1>2. IInv /\ FleetInv /\ [Next]_vars => (IInv /\ FleetInv)'
  BY NextIInv, NextFleet
<1> QED BY <1>1, <1>2, PTL DEF Spec

\* The connection machine and the sockets never drift apart.
THEOREM SocketsMatch == Spec => []StateMatchesSocket
<1>1. IInv /\ FleetInv => StateMatchesSocket
  <2> SUFFICES ASSUME IInv, FleetInv, NEW d \in Devices
               PROVE  LET s == session[d]
                          phase == IF s.socket = NoSocket THEN "none"
                                   ELSE s.wire[s.socket].phase
                      IN  /\ s.socketConnected => phase \in {"open", "dead"}
                          /\ Running =>
                               CASE s.state = "CONNECTING" -> phase = "opening" /\ ~s.socketConnected
                                 [] s.state \in {"LOGIN_SENT", "ONLINE"} -> s.socketConnected
                                 [] OTHER -> phase = "none" /\ ~s.socketConnected
    BY DEF StateMatchesSocket
  <2>1. LinkInv(session[d]) /\ Match(ViewOf(d))
    BY DEF FleetInv
  <2>2. session[d].state \in SessionState
    BY DEF IInv, TypeOK, Session
  <2>3. ViewOf(d).dev = session[d] /\ ViewOf(d).running = Running
    BY DEF ViewOf
  <2> QED BY <2>1, <2>2, <2>3 DEF LinkInv, Linked, Match, SessionState
<1> QED BY <1>1, FleetInvariance, PTL

\* The counters the dashboard shows are those of the sessions, and the clamps
\* at zero never hide a mistake.
THEOREM CountersAreExact == Spec => []CountersExact
<1>1. IInv /\ FleetInv => CountersExact
  BY DEF FleetInv
<1> QED BY <1>1, FleetInvariance, PTL

\* No packet goes out on a connection before its login was acknowledged.
THEOREM LoginComesFirst == Spec => []DataOnlyAfterLogin
<1>1. IInv /\ FleetInv => DataOnlyAfterLogin
  BY DEF FleetInv, LinkInv, Linked, WiresSound, DataOnlyAfterLogin
<1> QED BY <1>1, FleetInvariance, PTL

\* A session never waits for a 'drain' that nobody owes it.
THEOREM DrainIsOwed == Spec => []NoLostDrain
<1>1. IInv /\ FleetInv => NoLostDrain
  BY DEF FleetInv, LinkInv, DrainOwed, NoLostDrain
<1> QED BY <1>1, FleetInvariance, PTL

\* When stop() has resolved nothing of the fleet is left.
THEOREM StopIsComplete == Spec => []StopLeavesNothing
<1>1. IInv /\ FleetInv => StopLeavesNothing
  <2> SUFFICES ASSUME IInv, FleetInv, status = "stopped" PROVE StopLeavesNothing
    BY DEF StopLeavesNothing
  <2>1. ASSUME NEW d \in Devices
        PROVE  /\ session[d].state = "STOPPED" /\ session[d].disposed
               /\ session[d].entries = {} /\ ~session[d].socketConnected
               /\ \A t \in Tokens : session[d].wire[t].phase = "none"
    <3>1. disposeFrom >= DeviceCount /\ session[d].entries = {}
          /\ (session[d].disposed <=> d < disposeFrom)
      BY DEF FleetInv, StopInv
    <3>2. session[d].disposed
      BY <3>1, DeviceCountAssumption DEF Devices, IInv, TypeOK
    <3>3. session[d].socket = NoSocket /\ ~session[d].socketConnected
      BY <3>2 DEF FleetInv, LinkInv, Linked
    <3>4. SessionInv(session[d])
      BY DEF IInv
    <3> QED BY <3>1, <3>2, <3>3, <3>4, TokenFacts DEF SessionInv, SocketInv
  <2>2. {d \in Devices : session[d].socketConnected} = {}
    BY <2>1
  <2>3. tcpConnected = 0
    BY <2>2, FS_EmptySet DEF FleetInv, CountersExact
  <2> QED BY <2>1, <2>3 DEF StopLeavesNothing
<1> QED BY <1>1, FleetInvariance, PTL

\* Between the chunks of stop() no callback schedules a device or opens a socket.
THEOREM StoppingOpensNothing == Spec => StopOpensNothing
<1> DEFINE A == status = "stopping" =>
                  \A d \in Devices : session'[d].entries = {} /\ Sockets(d)' \subseteq Sockets(d)
<1>1. IInv /\ FleetInv /\ [Next]_vars => [A]_vars
  <2> SUFFICES ASSUME IInv, FleetInv, [Next]_vars, status = "stopping", NEW d \in Devices
               PROVE  session'[d].entries = {} /\ Sockets(d)' \subseteq Sockets(d)
    OBVIOUS
  <2>1. session[d].entries = {}
    BY DEF FleetInv, StopInv
  <2>2. CASE StopChunk
    <3>1. PICK D \in SUBSET Devices, heap \in [Devices -> SUBSET Versions] :
            DisposeAll(D, heap) /\ \A e \in Devices : heap[e] = {}
      BY <2>2, StopChunks
    <3> QED BY <3>1, DisposeAllShape DEF Sockets
  <2>3. CASE \E e \in Devices : \E r : DeviceStep(e, r)
    <3>1. PICK e \in Devices : \E r : DeviceStep(e, r)
      BY <2>3
    <3>2. PICK r : DeviceStep(e, r)
      BY <3>1
    <3>3. session'[d] = IF d = e THEN r.dev ELSE session[d]
      BY <3>2 DEF DeviceStep, Apply, IInv, TypeOK
    <3>4. Calm(ViewOf(e), r) /\ ViewOf(e).dev = session[e] /\ ~ViewOf(e).running
      BY <3>2 DEF DeviceStep, ViewOf, Running
    <3> QED BY <2>1, <3>3, <3>4 DEF Calm, Sockets
  <2>4. CASE UNCHANGED vars
    BY <2>1, <2>4 DEF vars, Sockets
  <2> QED BY <2>2, <2>3, <2>4, StepKinds DEF Start, Stop, Activate, Running
<1>2. Spec => [][A]_vars
  BY <1>1, FleetInvariance, PTL DEF Spec
<1> QED BY <1>2 DEF StopOpensNothing

-----------------------------------------------------------------------------
(* The fleet implements DeviceLifecycle                                    *)

LEMMA DeviceStepMaps ==
    ASSUME IInv, FleetInv, NEW d \in Devices, NEW r, DeviceStep(d, r)
    PROVE  [Lifecycle!Next]_<<[e \in Devices |-> LifeOf(session[e])], FarmLife>>
<1> DEFINE life == [e \in Devices |-> LifeOf(session[e])]
           from == session[d].state
           to == r.dev.state
<1>1. \A e \in Devices : session'[e] = IF e = d THEN r.dev ELSE session[e]
  BY DEF DeviceStep, Apply, IInv, TypeOK
<1>2. life' = [life EXCEPT ![d] = LifeOf(r.dev)]
  BY <1>1
<1>3. status' = status /\ FarmLife' = FarmLife
  BY DEF DeviceStep, Apply, FarmLife
<1>4. status \in {"running", "stopping"}
  <2>1. disposeFrom >= DeviceCount => d < disposeFrom
    BY DeviceCountAssumption DEF Devices, IInv, TypeOK
  <2>2. status \in FarmStatus
    BY DEF IInv, TypeOK
  <2> QED BY <2>1, <2>2 DEF DeviceStep, FleetInv, StopInv, FarmStatus
<1>5. from \in SessionState \ {"STOPPED"}
  BY DEF DeviceStep, IInv, TypeOK, Session, SessionInv
<1>6. \/ to = from
      \/ Running /\ to = "BACKOFF"
      \/ Running /\ from \in {"PENDING", "BACKOFF"} /\ to = "CONNECTING"
      \/ from = "CONNECTING" /\ to = "LOGIN_SENT"
      \/ from = "LOGIN_SENT" /\ to = "ONLINE"
  BY DEF DeviceStep, Progress, Fell, ViewOf
<1>7. life[d] = LifeOf(session[d])
  OBVIOUS
<1> HIDE DEF life
<1>8. FarmLife \in {"open", "closing"} /\ (Running => FarmLife = "open")
  BY <1>4 DEF FarmLife, Running
<1>9. \A S, x : LifeOf(session[d]) \in S /\ LifeOf(r.dev) = x => Lifecycle!Move(d, S, x)
  BY <1>2, <1>3, <1>7 DEF Lifecycle!Move, life
<1>10. CASE Running /\ to = "BACKOFF" /\ from \notin {"PENDING", "BACKOFF"}
  <2>1. LifeOf(session[d]) \in Lifecycle!Unsettled \cup {"online"} /\ LifeOf(r.dev) = "waiting"
    BY <1>5, <1>10 DEF LifeOf, Lifecycle!Unsettled, SessionState
  <2>2. Lifecycle!Lost(d)
    BY <1>8, <1>9, <1>10, <2>1 DEF Lifecycle!Lost
  <2> QED BY <2>2 DEF Lifecycle!Next
<1>11. CASE Running /\ from \in {"PENDING", "BACKOFF"} /\ to = "CONNECTING"
  <2>1. LifeOf(session[d]) = "waiting" /\ LifeOf(r.dev) = "dialing"
    BY <1>11 DEF LifeOf
  <2>2. Lifecycle!Attempt(d)
    BY <1>8, <1>9, <1>11, <2>1 DEF Lifecycle!Attempt
  <2> QED BY <2>2 DEF Lifecycle!Next
<1>12. CASE from = "CONNECTING" /\ to = "LOGIN_SENT"
  <2>1. LifeOf(session[d]) = "dialing" /\ LifeOf(r.dev) = "identifying"
    BY <1>12 DEF LifeOf
  <2>2. Lifecycle!Accepted(d)
    BY <1>8, <1>9, <2>1 DEF Lifecycle!Accepted
  <2> QED BY <2>2 DEF Lifecycle!Next
<1>13. CASE from = "LOGIN_SENT" /\ to = "ONLINE"
  <2>1. LifeOf(session[d]) = "identifying" /\ LifeOf(r.dev) = "online"
    BY <1>13 DEF LifeOf
  <2>2. Lifecycle!Identified(d)
    BY <1>8, <1>9, <2>1 DEF Lifecycle!Identified
  <2> QED BY <2>2 DEF Lifecycle!Next
<1>14. CASE to = from \/ (to = "BACKOFF" /\ from \in {"PENDING", "BACKOFF"})
  <2>1. LifeOf(r.dev) = LifeOf(session[d])
    BY <1>14 DEF LifeOf
  <2>2. life' = life
    BY <1>2, <1>7, <2>1 DEF life
  <2> QED BY <1>3, <2>2 DEF life
<1> QED BY <1>6, <1>10, <1>11, <1>12, <1>13, <1>14

LEMMA StopMaps ==
    ASSUME IInv, FleetInv, Stop \/ StopChunk
    PROVE  Lifecycle!Close
<1> DEFINE life == [e \in Devices |-> LifeOf(session[e])]
<1>1. status # "idle" /\ Finish(disposeFrom')
  BY StopChunks
<1>2. PICK D \in SUBSET Devices, heap \in [Devices -> SUBSET Versions] :
        /\ DisposeAll(D, heap)
        /\ \A d \in Devices : d < disposeFrom' <=> d \in D \/ session[d].disposed
        /\ D # {}
  BY StopChunks
<1>3. \A d \in Devices : session'[d].state = IF d \in D THEN "STOPPED" ELSE session[d].state
  <2> SUFFICES ASSUME NEW d \in Devices
               PROVE session'[d].state = IF d \in D THEN "STOPPED" ELSE session[d].state
    OBVIOUS
  <2>1. session[d].state = "STOPPED" <=> session[d].disposed
    BY DEF IInv, SessionInv
  <2> QED BY <1>1, <1>2, <2>1, DisposeAllShape
<1>5. \A d \in Devices : LifeOf(session'[d]) = IF d \in D THEN "stopped" ELSE LifeOf(session[d])
  BY <1>3 DEF LifeOf
<1>6. life' = [d \in Devices |-> IF d \in D THEN "stopped" ELSE life[d]]
  BY <1>5
<1>7. FarmLife \in {"open", "closing"}
  BY DEF Stop, StopChunk, Running, FarmLife
<1>8. (\A d \in Devices : life'[d] = "stopped") <=> disposeFrom' >= DeviceCount
  <2>1. \A d \in Devices : LifeOf(session'[d]) = "stopped" <=> session'[d].state = "STOPPED"
    <3>1. \A d \in Devices : session'[d].state \in SessionState
      BY StopStep DEF IInv, TypeOK, Session
    <3> QED BY <3>1 DEF LifeOf, SessionState
  <2>2. \A d \in Devices : session'[d].state = "STOPPED" <=> d < disposeFrom'
    <3>1. \A d \in Devices : session[d].state = "STOPPED" <=> session[d].disposed
      BY DEF IInv, SessionInv
    <3> QED BY <1>2, <1>3, <3>1
  <2>3. (\A d \in Devices : d < disposeFrom') <=> disposeFrom' >= DeviceCount
    <3>1. disposeFrom' \in Nat
      BY StopStep DEF IInv, TypeOK
    <3>2. DeviceCount - 1 \in Devices
      BY DeviceCountAssumption DEF Devices
    <3> QED BY <3>1, <3>2, DeviceCountAssumption DEF Devices
  <2>4. \A d \in Devices : life'[d] = LifeOf(session'[d])
    OBVIOUS
  <2> HIDE DEF life
  <2> QED BY <2>1, <2>2, <2>3, <2>4
<1>9. FarmLife' = IF \A d \in Devices : life'[d] = "stopped" THEN "closed" ELSE "closing"
  BY <1>1, <1>8 DEF Finish, FarmLife
<1>10. D \in (SUBSET Devices) \ {{}}
  BY <1>2
<1> QED BY <1>6, <1>7, <1>9, <1>10 DEF Lifecycle!Close

LEMMA StartMaps ==
    ASSUME IInv, FleetInv, Start
    PROVE  Lifecycle!Open
<1>1. \A d \in Devices : session[d].state = "PENDING"
  BY DEF Start, FleetInv, StopInv, NewSession
<1>2. \A d \in Devices : session'[d].state = "PENDING"
  BY DEF Start, NewSession
<1>3. \A d \in Devices : LifeOf(session'[d]) = LifeOf(session[d])
  BY <1>1, <1>2 DEF LifeOf
<1>4. FarmLife = "idle" /\ FarmLife' = "open"
  BY DEF Start, FarmLife
<1> QED BY <1>3, <1>4 DEF Lifecycle!Open

LEMMA InitMaps == Init => Lifecycle!Init
BY DEF Init, Lifecycle!Init, LifeOf, FarmLife, NewSession

\* Whatever the pump, stop() and the network do, the fleet behaves as
\* DeviceLifecycle promises.
THEOREM FleetImplementsLifecycle == Spec => ImplementsLifecycle
<1>1. IInv /\ FleetInv /\ [Next]_vars => [Lifecycle!Next]_<<[d \in Devices |-> LifeOf(session[d])], FarmLife>>
  <2> SUFFICES ASSUME IInv, FleetInv, [Next]_vars PROVE [Lifecycle!Next]_<<[d \in Devices |-> LifeOf(session[d])], FarmLife>>
    OBVIOUS
  <2>1. CASE Start
    BY <2>1, StartMaps DEF Lifecycle!Next
  <2>2. CASE Stop \/ StopChunk
    BY <2>2, StopMaps DEF Lifecycle!Next
  <2>3. CASE Activate \/ UNCHANGED vars
    BY <2>3 DEF Activate, vars, FarmLife
  <2>4. ASSUME NEW e \in Devices, NEW r, DeviceStep(e, r) PROVE [Lifecycle!Next]_<<[d \in Devices |-> LifeOf(session[d])], FarmLife>>
    BY <2>4, DeviceStepMaps
  <2> QED BY <2>1, <2>2, <2>3, <2>4, StepKinds
<1>2. Spec => Lifecycle!Init /\ [][Lifecycle!Next]_<<[d \in Devices |-> LifeOf(session[d])], FarmLife>>
  BY <1>1, InitMaps, FleetInvariance, PTL DEF Spec
<1>3. Lifecycle!Spec <=> Lifecycle!Init /\ [][Lifecycle!Next]_<<[d \in Devices |-> LifeOf(session[d])], FarmLife>>
  BY DEF Lifecycle!Spec
<1> QED BY <1>2, <1>3, PTL DEF ImplementsLifecycle
=============================================================================
