-------------------------- MODULE DeviceLifecycle --------------------------
(***************************************************************************)
(* What the fleet promises an operator, without sockets, timers or         *)
(* counters: while the farm is open a device waits, dials, identifies      *)
(* itself and is online, and falls back to waiting from any of these; once *)
(* the farm is closing no device starts anew or goes back, devices only    *)
(* finish what they were doing until they are stopped, for good.           *)
(***************************************************************************)
CONSTANT Devices

VARIABLES life, farm

Life == {"waiting", "dialing", "identifying", "online", "stopped"}
Unsettled == {"dialing", "identifying"}

Init ==
    /\ life = [d \in Devices |-> "waiting"]
    /\ farm = "idle"

Move(d, from, to) ==
    /\ life[d] \in from
    /\ life' = [life EXCEPT ![d] = to]
    /\ UNCHANGED farm

Open == farm = "idle" /\ farm' = "open" /\ UNCHANGED life

Attempt(d) == farm = "open" /\ Move(d, {"waiting"}, "dialing")
Accepted(d) == farm \in {"open", "closing"} /\ Move(d, {"dialing"}, "identifying")
Identified(d) == farm \in {"open", "closing"} /\ Move(d, {"identifying"}, "online")
Lost(d) == farm = "open" /\ Move(d, Unsettled \cup {"online"}, "waiting")

\* Closing stops the devices a group at a time.
Close ==
    /\ farm \in {"open", "closing"}
    /\ \E D \in (SUBSET Devices) \ {{}} :
        life' = [d \in Devices |-> IF d \in D THEN "stopped" ELSE life[d]]
    /\ farm' = IF \A d \in Devices : life'[d] = "stopped" THEN "closed" ELSE "closing"

Next ==
    \/ Open
    \/ Close
    \/ \E d \in Devices : Attempt(d) \/ Accepted(d) \/ Identified(d) \/ Lost(d)

Spec == Init /\ [][Next]_<<life, farm>>

\* An attempt is settled: the device gets online or waits for its next try.
Settle(d) == life[d] \in Unsettled /\ (Lost(d) \/ Identified(d))

FairSpec ==
    /\ Spec
    /\ \A d \in Devices : WF_<<life, farm>>(farm = "open" /\ Settle(d))
    /\ WF_<<life, farm>>(farm = "closing" /\ Close)
=============================================================================
