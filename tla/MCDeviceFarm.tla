---------------------------- MODULE MCDeviceFarm ----------------------------
(***************************************************************************)
(* Liveness of the fleet: the environment a device needs to come online.   *)
(***************************************************************************)
EXTENDS DeviceFarm

MustDial(d) == DueEntry(d) /\ session[d].state \in {"PENDING", "BACKOFF"}
Dials(d) == MustDial(d) /\ Pump(d) /\ session'[d].state = "CONNECTING"

Dialling(d) == session[d].state = "CONNECTING"
Accepts(d) == Dialling(d) /\ NetEvent(d) /\ session'[d].state = "LOGIN_SENT"

LoggingIn(d) ==
    /\ session[d].state = "LOGIN_SENT" /\ session[d].socket # NoSocket
    /\ session[d].wire[session[d].socket].phase = "open"
Acknowledges(d) == LoggingIn(d) /\ NetEvent(d) /\ session'[d].state = "ONLINE"

\* A server that can be reached by device d and answers it: a device that dials
\* again and again opens a socket, is accepted, and is acknowledged, some time.
\* Strong fairness of the three actions, each with its guard for ENABLED.
WorkingServer(d) ==
    /\ <>[](~MustDial(d)) \/ []<><<Dials(d)>>_vars
    /\ <>[](~Dialling(d)) \/ []<><<Accepts(d)>>_vars
    /\ <>[](~LoggingIn(d)) \/ []<><<Acknowledges(d)>>_vars

\* A device whose server answers some time comes online, however often it is
\* refused, cut off or left without an answer before, and whatever the servers
\* of the other devices do.
ComesOnline ==
    \A d \in Devices :
        WorkingServer(d) => (pumping ~> (session[d].state = "ONLINE" \/ ~Running))
=============================================================================
