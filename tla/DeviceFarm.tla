----------------------------- MODULE DeviceFarm -----------------------------
(***************************************************************************)
(* The fleet of virtual GT06 trackers: the scheduler of device-farm.js and *)
(* the connection state machine every device runs, device-session.js.      *)
(*                                                                         *)
(* Node runs one callback at a time, so a callback is one action: a timer  *)
(* entry the pump takes off the heap, an event of a socket, start, a chunk *)
(* of stop.  The callbacks of a session are operators from a view to a     *)
(* view: the record of one device, the two counters of the farm a session  *)
(* updates, and whether the farm runs.  What the platform decides (a write *)
(* is accepted, queued or throws; which packets are due) is an argument.   *)
(*                                                                         *)
(* Deadlines are abstract: any entry of the heap may be the next one due.  *)
(* socketToken and scheduleVersion are unbounded in the code and are only  *)
(* compared for equality; here they count modulo TokenSpace and            *)
(* VersionSpace.  A superseded entry whose number comes round again is     *)
(* forgotten: the pump could only have skipped it.                         *)
(*                                                                         *)
(* An operator whose name ends in _Fault is the operator after it with a   *)
(* fault seeded in it; no other definition uses it.  The properties are    *)
(* checked to notice.                                                      *)
(***************************************************************************)
EXTENDS Integers, FiniteSets

CONSTANTS
    DeviceCount,        \* devices of the fleet
    DisposeChunk,       \* sessions stop() disposes before it yields
    MaxLoginAttempts,   \* config.maxLoginAttempts
    TokenSpace,         \* bound: distinct socket tokens
    VersionSpace        \* bound: distinct schedule versions

ASSUME DeviceCountAssumption == DeviceCount \in Nat \ {0}
ASSUME DisposeChunkAssumption == DisposeChunk \in Nat \ {0}
ASSUME MaxLoginAttemptsAssumption == MaxLoginAttempts \in Nat \ {0}
ASSUME TokenSpaceAssumption == TokenSpace \in Nat /\ TokenSpace >= 2
ASSUME VersionSpaceAssumption == VersionSpace \in Nat /\ VersionSpace >= 2

Devices == 0 .. DeviceCount - 1
Tokens == 0 .. TokenSpace - 1
Versions == 0 .. VersionSpace - 1
NoSocket == -1

SessionState ==
    {"PENDING", "CONNECTING", "LOGIN_SENT", "ONLINE", "BACKOFF", "STOPPED"}
FarmStatus == {"idle", "running", "stopping", "stopped"}

\* What socket.write does: true, false (queued under backpressure), or throws.
WriteResult == {"accepted", "queued", "throws"}
\* How #connect ends: a socket that dials, no socket, a socket that throws.
DialResult == {"dialing", "noSocket", "throws"}
Packets == {"heartbeat", "location"}
Frames == {"loginAck", "command"}
NoFrame == "none"

(***************************************************************************)
(* A socket as the operating system and the server see it.  "dead" is a    *)
(* destroyed socket whose 'close' event has not been delivered yet.        *)
(* logins and data count what was written on it, acked says that a login   *)
(* acknowledgement arrived on it.                                          *)
(***************************************************************************)
Phase == {"none", "opening", "open", "dead"}
Wire == [phase : Phase, needDrain : BOOLEAN, logins : Nat,
         acked : BOOLEAN, data : BOOLEAN]
NoWire == [phase |-> "none", needDrain |-> FALSE, logins |-> 0,
           acked |-> FALSE, data |-> FALSE]

Session == [state : SessionState, socket : Tokens \cup {NoSocket},
            socketToken : Tokens, socketConnected : BOOLEAN,
            loginAttempts : Nat, backpressured : BOOLEAN,
            scheduleVersion : Versions, disposed : BOOLEAN,
            moving : BOOLEAN,           \* the route's transport is available
            entries : SUBSET Versions,  \* its entries in the farm's heap
            wire : [Tokens -> Wire]]    \* its sockets, by token

NewSession == [state |-> "PENDING", socket |-> NoSocket, socketToken |-> 0,
               socketConnected |-> FALSE, loginAttempts |-> 0,
               backpressured |-> FALSE, scheduleVersion |-> 0,
               disposed |-> FALSE, moving |-> FALSE, entries |-> {},
               wire |-> [t \in Tokens |-> NoWire]]

VARIABLES
    session,        \* the sessions, by index
    tcpConnected,   \* stats.tcpConnected
    stateCounts,    \* sessions per state, as the farm counts them
    status,         \* "stopped" is the code's 'idle' after a stop
    pumping,        \* the pump timer is armed
    disposeFrom     \* the next index stop() disposes

vars == <<session, tcpConnected, stateCounts, status, pumping, disposeFrom>>

Running == status = "running"

-----------------------------------------------------------------------------
(* Views and the helpers of a session                                      *)

View == [dev : Session, tcp : Nat, counts : [SessionState -> Nat],
         running : BOOLEAN]

ViewOf(d) == [dev |-> session[d], tcp |-> tcpConnected,
              counts |-> stateCounts, running |-> Running]

Decrement(n) == IF n > 0 THEN n - 1 ELSE 0
NextToken(t) == IF t = TokenSpace - 1 THEN 0 ELSE t + 1
NextVersion(n) == IF n = VersionSpace - 1 THEN 0 ELSE n + 1

SetState_Fault(v, s) == \* the previous state keeps its count
    [v EXCEPT !.dev.state = s, !.counts = [@ EXCEPT ![s] = @ + 1]]

SetState(v, s) ==
    IF v.dev.state = s THEN v
    ELSE [v EXCEPT !.dev.state = s,
                   !.counts = [v.counts EXCEPT ![v.dev.state] = Decrement(@),
                                               ![s] = @ + 1]]

MarkSocketDisconnected_Fault(v) == \* counts a disconnect twice
    [v EXCEPT !.dev.socketConnected = FALSE, !.tcp = Decrement(v.tcp)]

MarkSocketDisconnected_ClampFault(v) == \* and below zero
    [v EXCEPT !.dev.socketConnected = FALSE, !.tcp = @ - 1]

MarkSocketDisconnected(v) ==
    IF ~v.dev.socketConnected THEN v
    ELSE [v EXCEPT !.dev.socketConnected = FALSE, !.tcp = Decrement(v.tcp)]

DestroySocket_Fault(v) == \* forgets the socket, does not destroy it
    MarkSocketDisconnected([v EXCEPT !.dev.socket = NoSocket,
                                     !.dev.socketToken = NextToken(@)])

DestroySocket(v) ==
    LET w == IF v.dev.socket = NoSocket THEN v
             ELSE [v EXCEPT !.dev.wire[v.dev.socket] = NoWire]
    IN  MarkSocketDisconnected([w EXCEPT !.dev.socket = NoSocket,
                                         !.dev.socketToken = NextToken(@)])

Schedule_Fault(v) == \* whether the farm runs is not checked
    IF v.dev.disposed THEN v
    ELSE [v EXCEPT
            !.dev.scheduleVersion = NextVersion(@),
            !.dev.entries = @ \cup {NextVersion(v.dev.scheduleVersion)}]

Schedule(v) ==
    IF v.dev.disposed \/ ~v.running THEN v
    ELSE [v EXCEPT
            !.dev.scheduleVersion = NextVersion(@),
            !.dev.entries = @ \cup {NextVersion(v.dev.scheduleVersion)}]

BeginReconnect_SocketFault(v) == \* the old socket is kept
    IF v.dev.disposed \/ ~v.running \/ v.dev.state = "STOPPED" THEN v
    ELSE Schedule(SetState([v EXCEPT !.dev.moving = FALSE], "BACKOFF"))

BeginReconnect_MovingFault(v) == \* the route is not told
    IF v.dev.disposed \/ ~v.running \/ v.dev.state = "STOPPED" THEN v
    ELSE Schedule(SetState(DestroySocket(v), "BACKOFF"))

BeginReconnect_RetryFault(v) == \* the retry is not scheduled
    IF v.dev.disposed \/ ~v.running \/ v.dev.state = "STOPPED" THEN v
    ELSE SetState(DestroySocket([v EXCEPT !.dev.moving = FALSE]), "BACKOFF")

BeginReconnect_HandshakeFault(v) == \* only an online device reconnects
    IF v.dev.disposed \/ ~v.running \/ v.dev.state # "ONLINE" THEN v
    ELSE Schedule(SetState(DestroySocket([v EXCEPT !.dev.moving = FALSE]),
                           "BACKOFF"))

BeginReconnect(v) ==
    IF v.dev.disposed \/ ~v.running \/ v.dev.state = "STOPPED" THEN v
    ELSE Schedule(SetState(DestroySocket([v EXCEPT !.dev.moving = FALSE]),
                           "BACKOFF"))

IsCurrentSocket(v, token) ==
    ~v.dev.disposed /\ token = v.dev.socketToken /\ v.dev.socket # NoSocket

-----------------------------------------------------------------------------
(* Writing                                                                 *)

CanWrite(v) ==
    /\ v.dev.socket # NoSocket
    /\ v.dev.socketConnected
    /\ v.dev.wire[v.dev.socket].phase # "dead"

WriteSucceeds(v, result) == CanWrite(v) /\ result # "throws"

\* The packet reaches the socket: kind is "login" or "data".
Written(v, kind, result) ==
    LET old == v.dev.wire[v.dev.socket] IN
    [v EXCEPT
        !.dev.backpressured = (result = "queued"),
        !.dev.wire[v.dev.socket] =
            [old EXCEPT !.needDrain = (@ \/ result = "queued"),
                        !.logins = IF kind = "login" THEN @ + 1 ELSE @,
                        !.data = (@ \/ kind = "data")]]

WritePacket(v, kind, result) ==
    IF WriteSucceeds(v, result) THEN Written(v, kind, result)
    ELSE BeginReconnect(v)

SendLogin(v, result) ==
    LET u == [SetState(v, "LOGIN_SENT") EXCEPT !.dev.loginAttempts = @ + 1]
    IN  IF ~v.dev.socketConnected THEN BeginReconnect(v)
        ELSE IF WriteSucceeds(u, result)
        THEN Schedule(Written(u, "login", result))
        ELSE BeginReconnect(u)

\* A packet that is due is written, and a failed write ends the callback.
SendIfDue(v, isDue, result) == IF isDue THEN WritePacket(v, "data", result) ELSE v
SendFails(v, isDue, result) == isDue /\ ~WriteSucceeds(v, result)

SendOnlinePackets_Fault(v, due, hb, loc) == \* waits for 'drain' unscheduled
    LET h == SendIfDue(v, "heartbeat" \in due, hb)
        l == SendIfDue(h, "location" \in due, loc)
    IN  IF v.dev.backpressured THEN v
        ELSE IF SendFails(v, "heartbeat" \in due, hb) THEN h
        ELSE IF SendFails(h, "location" \in due, loc) THEN l
        ELSE Schedule(l)

SendOnlinePackets(v, due, hb, loc) ==
    LET h == SendIfDue(v, "heartbeat" \in due, hb)
        l == SendIfDue(h, "location" \in due, loc)
    IN  IF v.dev.backpressured THEN Schedule(v)
        ELSE IF SendFails(v, "heartbeat" \in due, hb) THEN h
        ELSE IF SendFails(h, "location" \in due, loc) THEN l
        ELSE Schedule(l)

-----------------------------------------------------------------------------
(* The callbacks of a session                                              *)

Connect(v, dial) ==
    LET c == SetState([DestroySocket(v) EXCEPT !.dev.loginAttempts = 0,
                                               !.dev.backpressured = FALSE],
                      "CONNECTING")
        t == NextToken(c.dev.socketToken)
        n == [c EXCEPT !.dev.socketToken = t]
        o == [n EXCEPT !.dev.socket = t,
                       !.dev.wire[t] = [NoWire EXCEPT !.phase = "opening"]]
    IN  CASE dial = "dialing"  -> Schedule(o)
          [] dial = "noSocket" -> BeginReconnect(n)
          [] OTHER             -> BeginReconnect(o)

LoginMayRetry(v) == v.dev.loginAttempts < MaxLoginAttempts

\* The views the next action of a session can lead to.
HandleDue(v) ==
    IF v.dev.disposed \/ ~v.running THEN {v}
    ELSE CASE v.dev.state \in {"PENDING", "BACKOFF"} ->
                {Connect(v, dial) : dial \in DialResult}
           [] v.dev.state = "CONNECTING" -> {BeginReconnect(v)}
           [] v.dev.state = "LOGIN_SENT" ->
                IF LoginMayRetry(v) THEN {SendLogin(v, a) : a \in WriteResult}
                ELSE {BeginReconnect(v)}
           [] v.dev.state = "ONLINE" ->
                {SendOnlinePackets(v, due, a, b) :
                    due \in SUBSET Packets, a \in WriteResult, b \in WriteResult}
           [] OTHER -> {v}

OnConnect(v, token, a) ==
    IF ~IsCurrentSocket(v, token) THEN v
    ELSE SendLogin([v EXCEPT !.dev.socketConnected = TRUE, !.tcp = @ + 1], a)

PromoteOnline(v, a, b) ==
    SendOnlinePackets([SetState(v, "ONLINE") EXCEPT !.dev.moving = TRUE],
                      Packets, a, b)

HandleCommand_Fault(v, a) == WritePacket(v, "data", a) \* in any state

HandleCommand(v, a) ==
    IF v.dev.state # "ONLINE" THEN v ELSE WritePacket(v, "data", a)

\* One frame of a chunk, on the socket it arrived on.
OnFrame(v, token, frame, a, b) ==
    LET u == IF frame = "loginAck" /\ v.dev.wire[token].phase = "open"
             THEN [v EXCEPT !.dev.wire[token].acked = TRUE] ELSE v
    IN  CASE frame = "loginAck" /\ u.dev.state = "LOGIN_SENT"
               -> PromoteOnline(u, a, b)
          [] frame = "command" -> HandleCommand(u, a)
          [] OTHER -> u

\* The views a chunk of one or two frames can lead to; the token is checked
\* once, before the first frame.
OnData(v, token, first, second) ==
    LET After(u, f) == {OnFrame(u, token, f, a, b) : a, b \in WriteResult}
    IN  IF ~IsCurrentSocket(v, token) THEN {v}
        ELSE UNION {After(u, second) : u \in After(v, first)}

OnDrain_Fault(v, token) == \* a drain during login is lost
    IF ~IsCurrentSocket(v, token) \/ v.dev.state # "ONLINE" THEN v
    ELSE Schedule([v EXCEPT !.dev.backpressured = FALSE])

OnDrain(v, token) ==
    LET u == [v EXCEPT !.dev.backpressured = FALSE]
    IN  IF ~IsCurrentSocket(v, token) THEN v
        ELSE IF u.dev.state = "ONLINE" THEN Schedule(u) ELSE u

OnError(v, token) ==
    IF ~IsCurrentSocket(v, token) THEN v ELSE BeginReconnect(v)

OnClose(v, token) ==
    LET u == [MarkSocketDisconnected(v) EXCEPT !.dev.socket = NoSocket]
    IN  IF ~IsCurrentSocket(v, token) THEN v
        ELSE IF u.dev.state \in {"BACKOFF", "STOPPED"} THEN u
        ELSE BeginReconnect(u)

Dispose(v) ==
    IF v.dev.disposed THEN v
    ELSE SetState(DestroySocket([v EXCEPT
                    !.dev.moving = FALSE, !.dev.disposed = TRUE,
                    !.dev.scheduleVersion = NextVersion(@)]), "STOPPED")

-----------------------------------------------------------------------------
(* The farm                                                                *)

Init ==
    /\ session = [d \in Devices |-> NewSession]
    /\ tcpConnected = 0
    /\ stateCounts = [s \in SessionState |-> 0]
    /\ status = "idle"
    /\ pumping = FALSE
    /\ disposeFrom = 0

\* A callback of device d turned its view into r.
Apply(d, r) ==
    /\ session' = [session EXCEPT ![d] = r.dev]
    /\ tcpConnected' = r.tcp
    /\ stateCounts' = r.counts
    /\ UNCHANGED <<status, pumping, disposeFrom>>

\* The worker makes a farm per run and starts it with its pump deferred.
Start ==
    /\ status = "idle"
    /\ status' = "running"
    /\ stateCounts' = [stateCounts EXCEPT !["PENDING"] = @ + DeviceCount]
    /\ session' = [d \in Devices |->
                     [NewSession EXCEPT !.scheduleVersion = 1, !.entries = {1}]]
    /\ UNCHANGED <<tcpConnected, pumping, disposeFrom>>

Activate ==
    /\ Running /\ ~pumping
    /\ pumping' = TRUE
    /\ UNCHANGED <<session, tcpConnected, stateCounts, status, disposeFrom>>

\* The pump takes the entry device d is waiting for off the heap.
DueEntry(d) ==
    /\ Running /\ pumping
    /\ ~session[d].disposed
    /\ session[d].scheduleVersion \in session[d].entries

Popped(d) == [ViewOf(d) EXCEPT !.dev.entries = @ \ {session[d].scheduleVersion}]

Pump(d) ==
    /\ DueEntry(d)
    /\ \E r \in HandleDue(Popped(d)) : Apply(d, r)

\* The pump takes an entry that has been superseded, and drops it.
PumpStale(d) ==
    /\ Running /\ pumping
    /\ \E n \in session[d].entries :
        /\ n # session[d].scheduleVersion \/ session[d].disposed
        /\ Apply(d, [ViewOf(d) EXCEPT !.dev.entries = @ \ {n}])

\* The sessions of one chunk of stop(), disposed one after the other.
Chunk(from) == {d \in Devices : from <= d /\ d < from + DisposeChunk}
InState(D, s) == {d \in D : session[d].state = s}

DisposeAll(D, heap) ==
    LET live == {d \in D : ~session[d].disposed} IN
    /\ session' = [d \in Devices |->
                     LET v == [ViewOf(d) EXCEPT !.dev.entries = heap[d],
                                                !.running = FALSE]
                     IN  IF d \in live THEN Dispose(v).dev ELSE v.dev]
    /\ LET n == Cardinality({d \in live : session[d].socketConnected})
       IN  tcpConnected' = IF tcpConnected > n THEN tcpConnected - n ELSE 0
    /\ stateCounts' = [s \in SessionState |->
         LET out == Cardinality(InState(live, s))
             left == IF stateCounts[s] > out THEN stateCounts[s] - out ELSE 0
         IN  IF s = "STOPPED" THEN stateCounts[s] + Cardinality(live \ InState(live, s))
             ELSE left]

Finish_Fault(from) == \* the last chunk is one device short
    /\ disposeFrom' = from
    /\ status' = IF from + 1 >= DeviceCount THEN "stopped" ELSE "stopping"

Finish(from) ==
    /\ disposeFrom' = from
    /\ status' = IF from >= DeviceCount THEN "stopped" ELSE "stopping"

Stop ==
    /\ Running
    /\ pumping' = FALSE
    /\ DisposeAll(Chunk(0), [d \in Devices |-> {}])
    /\ Finish(DisposeChunk)

StopChunk ==
    /\ status = "stopping"
    /\ DisposeAll(Chunk(disposeFrom), [d \in Devices |-> session[d].entries])
    /\ Finish(disposeFrom + DisposeChunk)
    /\ UNCHANGED pumping

-----------------------------------------------------------------------------
(* What the network does to the socket of device d that carries token t.   *)

WithPhase(d, t, p) == [ViewOf(d) EXCEPT !.dev.wire[t].phase = p]

NetConnect(d, t, a) ==
    /\ session[d].wire[t].phase = "opening"
    /\ Apply(d, OnConnect(WithPhase(d, t, "open"), t, a))

\* The server acknowledges a login only on a connection that carried one.
NetData(d, t, first, second) ==
    /\ session[d].wire[t].phase = "open"
    /\ "loginAck" \in {first, second} => session[d].wire[t].logins > 0
    /\ \E r \in OnData(ViewOf(d), t, first, second) : Apply(d, r)

NetDrain(d, t) ==
    /\ session[d].wire[t].phase = "open" /\ session[d].wire[t].needDrain
    /\ Apply(d, OnDrain([ViewOf(d) EXCEPT !.dev.wire[t].needDrain = FALSE], t))

\* The peer ends the connection; 'close' is delivered by a later callback.
NetEnd(d, t) ==
    /\ session[d].wire[t].phase = "open"
    /\ Apply(d, WithPhase(d, t, "dead"))

NetError(d, t) ==
    /\ session[d].wire[t].phase \in {"opening", "open"}
    /\ Apply(d, OnError(WithPhase(d, t, "dead"), t))

NetClose(d, t) ==
    /\ session[d].wire[t].phase = "dead"
    /\ Apply(d, OnClose([ViewOf(d) EXCEPT !.dev.wire[t] = NoWire], t))

NetEvent(d) ==
    \E t \in Tokens :
        \/ \E a \in WriteResult : NetConnect(d, t, a)
        \/ \E f \in Frames, g \in Frames \cup {NoFrame} : NetData(d, t, f, g)
        \/ NetDrain(d, t)
        \/ NetEnd(d, t)
        \/ NetError(d, t)
        \/ NetClose(d, t)

Next ==
    \/ Start
    \/ Activate
    \/ Stop
    \/ StopChunk
    \/ \E d \in Devices : Pump(d) \/ PumpStale(d) \/ NetEvent(d)

Spec == Init /\ [][Next]_vars

-----------------------------------------------------------------------------
(* Safety                                                                  *)

TypeOK ==
    /\ session \in [Devices -> Session]
    /\ tcpConnected \in Nat
    /\ stateCounts \in [SessionState -> Nat]
    /\ status \in FarmStatus
    /\ pumping \in BOOLEAN
    /\ disposeFrom \in Nat

\* While the farm runs, every device has an entry in the heap that the pump
\* will not skip: no callback forgets to schedule the next one (the pump pops
\* the entry before it calls handleDue, and nothing else revives a device).
NoLostDevice ==
    Running => \A d \in Devices :
        ~session[d].disposed /\ session[d].scheduleVersion \in session[d].entries

\* Every socket that is open, dialling or waiting for its 'close' is the one
\* its session holds, under the session's current token: reconnecting leaks
\* no socket, and no event of an earlier connection can reach a later one.
SocketOwned ==
    \A d \in Devices, t \in Tokens :
        session[d].wire[t].phase # "none" =>
            session[d].socket = t /\ session[d].socketToken = t

\* The converse, and the state a socket may be in for each session state of a
\* running farm: the connection machine and the socket never drift apart.
StateMatchesSocket ==
    \A d \in Devices :
        LET s == session[d]
            phase == IF s.socket = NoSocket THEN "none" ELSE s.wire[s.socket].phase
        IN  /\ s.socketConnected => phase \in {"open", "dead"}
            /\ Running =>
                CASE s.state = "CONNECTING" -> phase = "opening" /\ ~s.socketConnected
                  [] s.state \in {"LOGIN_SENT", "ONLINE"} -> s.socketConnected
                  [] OTHER -> phase = "none" /\ ~s.socketConnected

\* stats.tcpConnected and the counts per state, which the dashboard shows, are
\* kept by increments and decrements scattered over the callbacks and clamped
\* at zero, so that a mistake would stay hidden; they are those of the sessions.
CountersExact ==
    /\ tcpConnected = Cardinality({d \in Devices : session[d].socketConnected})
    /\ status # "idle" => \A s \in SessionState :
           stateCounts[s] = Cardinality({d \in Devices : session[d].state = s})

\* Location, heartbeat and command packets go out only on a connection on
\* which this device has sent its login and received an acknowledgement.
DataOnlyAfterLogin ==
    \A d \in Devices, t \in Tokens :
        session[d].wire[t].data =>
            session[d].wire[t].logins > 0 /\ session[d].wire[t].acked

\* A session that holds back its packets because of backpressure is going to
\* be told to go on: its socket still owes it a 'drain', or has gone.
NoLostDrain ==
    \A d \in Devices :
        LET s == session[d] IN
        s.backpressured /\ s.socket # NoSocket =>
            s.wire[s.socket].needDrain \/ s.wire[s.socket].phase = "dead"

\* The vehicle of a device advances only while the device is online.
MovesOnlyOnline ==
    \A d \in Devices : session[d].moving => session[d].state = "ONLINE"

\* When stop() has resolved, every session is stopped, every socket destroyed,
\* nothing is scheduled and the connection count is zero.
StopLeavesNothing ==
    status = "stopped" =>
        /\ tcpConnected = 0
        /\ \A d \in Devices :
            LET s == session[d] IN
            /\ s.state = "STOPPED" /\ s.disposed /\ s.entries = {}
            /\ \A t \in Tokens : s.wire[t].phase = "none"

Sockets(d) == {t \in Tokens : session[d].wire[t].phase # "none"}

\* Once stop() has begun, no callback that runs between its chunks schedules a
\* device or opens a socket.
StopOpensNothing ==
    [][status = "stopping" =>
         \A d \in Devices : session'[d].entries = {} /\ Sockets(d)' \subseteq Sockets(d)]_vars

-----------------------------------------------------------------------------
(* Liveness                                                                *)

\* Node's timers fire and its setImmediate callbacks run: the pump comes to
\* every entry, and stop() to every chunk.  This is WF_vars(Pump(d)) and
\* WF_vars(StopChunk) with ENABLED spelled out: both actions are possible, and
\* change the state, whenever their guards hold.
Scheduling ==
    /\ \A d \in Devices : []<>(~DueEntry(d)) \/ []<><<session'[d] # session[d] /\ Pump(d)>>_vars
    /\ []<>(status # "stopping") \/ []<><<StopChunk>>_vars

FairSpec == Spec /\ Scheduling

\* A session and the farm as DeviceLifecycle sees them.
LifeOf(s) ==
    CASE s.state \in {"PENDING", "BACKOFF"} -> "waiting"
      [] s.state = "CONNECTING" -> "dialing"
      [] s.state = "LOGIN_SENT" -> "identifying"
      [] s.state = "ONLINE" -> "online"
      [] OTHER -> "stopped"

FarmLife ==
    CASE status = "running" -> "open"
      [] status = "stopping" -> "closing"
      [] status = "stopped" -> "closed"
      [] OTHER -> "idle"

Lifecycle == INSTANCE DeviceLifecycle WITH
    life <- [d \in Devices |-> LifeOf(session[d])], farm <- FarmLife

\* The fleet keeps its promise: no device goes online without identifying
\* itself, none starts or falls back once stop() has begun, stopped is for good.
ImplementsLifecycle == Lifecycle!Spec

\* And, whatever the server does, a handshake that was begun ends (online, or
\* waiting for the next try) as long as the farm runs, and a stop completes.
ImplementsFairLifecycle == Lifecycle!FairSpec
=============================================================================
