-------------------------- MODULE SimulatorControl --------------------------
(***************************************************************************)
(* Starting and stopping a transmission: the IPC handlers of main.js, the  *)
(* controller of simulator-controller.js, and the worker thread that runs  *)
(* the farm, worker.js.                                                    *)
(*                                                                         *)
(* The main process and each worker are threads that exchange messages in  *)
(* order; within a thread a callback is one action, and an await splits a  *)
(* handler.  A call is one invocation of simulator:start, simulator:stop   *)
(* or before-quit; it makes at most one request to a worker, so the call   *)
(* is also the request's id.  The dashboard's two flags are here too: it   *)
(* offers Start only when idle and Stop only when running.                 *)
(*                                                                         *)
(* The farm is reduced to whether it transmits, and the vehicles to one    *)
(* counter of moves (position) that a checkpoint stores.                   *)
(*                                                                         *)
(* An operator whose name ends in _Fault is the operator after it with a   *)
(* fault seeded in it; no other definition uses it.                        *)
(***************************************************************************)
EXTENDS Integers, Sequences

CONSTANTS
    WorkerCount,    \* bound: worker threads made in a behaviour
    CallCount,      \* bound: IPC calls made in a behaviour
    MaxMoves,       \* bound: moves of the vehicles of one worker
    Modes,          \* movement modes tried
    Patient         \* after a fatal error, the operator starts again only
                    \* when the failed worker's thread is gone

ASSUME WorkerCountAssumption == WorkerCount \in Nat \ {0}
ASSUME CallCountAssumption == CallCount \in Nat \ {0}
ASSUME MaxMovesAssumption == MaxMoves \in Nat
ASSUME ModesAssumption == Modes \subseteq {"synthetic", "real-road"}
ASSUME PatientAssumption == Patient \in BOOLEAN

Workers == 1 .. WorkerCount
Calls == 1 .. CallCount
None == 0

VARIABLES
    main,   \* the main process: controller, IPC handlers, dashboard
    thread  \* the worker threads

vars == <<main, thread>>

Main == [worker : Workers \cup {None},  \* controller.worker
         running : BOOLEAN,             \* controller.running
         pending : SUBSET Calls,        \* controller.pending, by call
         startPending : BOOLEAN,        \* simulatorStartPending
         quitting : BOOLEAN,            \* shutdownInProgress
         open : BOOLEAN,                \* the application has not exited
         shown : BOOLEAN,               \* the dashboard shows "running"
         terminating : SUBSET Workers,  \* terminate() has been called
         call : [Calls ->
             [kind : {"none", "start", "stop", "quit"},
              stage : {"unused", "checking", "requested", "terminating", "done"},
              awaits : Workers \cup {None}]]]

Message == [type : {"start", "stop", "started", "stopped", "error",
                    "fatal", "failure", "exit"},
            id : Calls \cup {None}]

Thread == [life : {"unborn", "running", "exited", "gone"},
           mode : {"synthetic", "real-road"},
           in : Seq(Message), out : Seq(Message),
           starting : {"no", "loading", "restoring", "saving"},
           startId : Calls \cup {None},
           stopping : {"no", "farm", "inFlight", "saving", "closing"},
           stopId : Calls \cup {None},
           farm : {"none", "created", "deferred", "active", "stopped"},
           store : {"none", "open", "closing"},
           queue : Seq([by : {"start", "timer", "stop"}, position : 0 .. MaxMoves]),
           timer : BOOLEAN,
           inFlight : BOOLEAN,          \* checkpointInFlight
           position : 0 .. MaxMoves,
           durable : -1 .. MaxMoves,    \* the newest checkpoint, -1 if none
           failed : BOOLEAN]            \* has thrown an uncaught exception

NewThread == [life |-> "unborn", mode |-> "synthetic", in |-> <<>>, out |-> <<>>,
              starting |-> "no", startId |-> None,
              stopping |-> "no", stopId |-> None,
              farm |-> "none", store |-> "none", queue |-> <<>>,
              timer |-> FALSE, inFlight |-> FALSE, position |-> 0,
              durable |-> -1, failed |-> FALSE]

Init ==
    /\ main = [worker |-> None, running |-> FALSE, pending |-> {},
               startPending |-> FALSE, quitting |-> FALSE, open |-> TRUE,
               shown |-> FALSE, terminating |-> {},
               call |-> [c \in Calls |->
                   [kind |-> "none", stage |-> "unused", awaits |-> None]]]
    /\ thread = [w \in Workers |-> NewThread]

-----------------------------------------------------------------------------
(* The controller                                                          *)

Terminate_Fault(m) == [m EXCEPT !.worker = None] \* forgets terminate()

Terminate(m) ==
    [m EXCEPT !.worker = None,
              !.terminating = @ \cup ({m.worker} \ {None})]

\* The requests of the calls in S have been settled and not by 'started': each
\* call goes on to #terminateWorker.  The first made gets the worker to wait
\* for, those after it find none.
Release(m, S) ==
    LET first(c) == \A e \in S : c <= e
        stops(c) == m.call[c].kind \in {"stop", "quit"}
        t == IF S = {} THEN m ELSE Terminate(m)
    IN  [t EXCEPT
            !.pending = @ \ S,
            !.running = @ /\ ~\E c \in S : stops(c),
            !.call = [c \in Calls |->
                IF c \in S
                THEN [m.call[c] EXCEPT !.stage = "terminating",
                                       !.awaits = IF first(c) THEN m.worker ELSE None]
                ELSE m.call[c]]]

Started(m, c) ==
    [m EXCEPT !.pending = @ \ {c}, !.running = TRUE, !.startPending = FALSE,
              !.shown = TRUE, !.call[c].stage = "done"]

OnReply(m, msg) ==
    IF msg.id \notin m.pending THEN m
    ELSE IF msg.type = "started" THEN Started(m, msg.id)
    ELSE Release(m, {msg.id})

\* The handler terminates the worker before the rejected calls go on.
OnFatal(m) ==
    LET t == Terminate([m EXCEPT !.shown = FALSE, !.running = FALSE])
    IN  Release(t, m.pending)

OnWorkerFailure(m) ==
    [Release([m EXCEPT !.shown = FALSE], m.pending) EXCEPT !.running = FALSE]

OnWorkerExit(m) ==
    LET t == [m EXCEPT !.worker = None, !.running = FALSE]
    IN  IF m.worker = None THEN t
        ELSE Release([t EXCEPT !.shown = FALSE], m.pending)

OnMessage(m, msg) ==
    CASE msg.type = "fatal"   -> OnFatal(m)
      [] msg.type = "failure" -> OnWorkerFailure(m)
      [] msg.type = "exit"    -> OnWorkerExit(m)
      [] OTHER                -> OnReply(m, msg)

\* A message, an 'error' or an 'exit' of a worker reaches the main process.
\* What is left of a thread that has ended is forgotten.
Deliver(w) ==
    /\ main.open /\ thread[w].out # <<>>
    /\ LET msg == Head(thread[w].out) IN
       /\ main' = OnMessage(main, msg)
       /\ thread' = [thread EXCEPT ![w] =
                       IF msg.type = "exit" THEN [NewThread EXCEPT !.life = "gone"]
                       ELSE [thread[w] EXCEPT !.out = Tail(@)]]

Timeout_Fault(c) == \* a stop may wait for ever
    /\ main.open /\ c \in main.pending /\ main.call[c].kind = "start"
    /\ main' = Release(main, {c})
    /\ UNCHANGED thread

\* Thirty seconds without an answer.
Timeout(c) ==
    /\ main.open /\ c \in main.pending
    /\ main' = Release(main, {c})
    /\ UNCHANGED thread

-----------------------------------------------------------------------------
(* The IPC handlers                                                        *)

Busy == \E c \in Calls : /\ main.call[c].kind \in {"start", "stop"}
                         /\ main.call[c].stage # "done"
NextCall(c) == /\ main.call[c].stage = "unused"
               /\ \A e \in 1 .. c - 1 : main.call[e].stage # "unused"
NextWorker(w) == /\ thread[w].life = "unborn"
                 /\ \A e \in 1 .. w - 1 : thread[e].life # "unborn"

Request(m, c, kind) ==
    [m EXCEPT !.pending = @ \cup {c},
              !.call[c] = [kind |-> kind, stage |-> "requested", awaits |-> None]]

ClickStart(c) ==
    /\ main.open /\ ~main.shown /\ ~Busy /\ NextCall(c)
    /\ ~main.running /\ main.worker = None /\ ~main.startPending
    /\ Patient => \A w \in Workers : thread[w].life \in {"unborn", "gone"}
    /\ main' = [main EXCEPT !.startPending = TRUE,
                            !.call[c] = [kind |-> "start", stage |-> "checking",
                                         awaits |-> None]]
    /\ UNCHANGED thread

\* Packs, coverage or settings.json fail.
StartRefused(c) ==
    /\ main.open /\ main.call[c].stage = "checking"
    /\ main' = [main EXCEPT !.startPending = FALSE, !.call[c].stage = "done"]
    /\ UNCHANGED thread

Launch(c, w, mode) ==
    /\ main.open /\ main.call[c].stage = "checking" /\ NextWorker(w)
    /\ main' = [Request(main, c, "start") EXCEPT !.worker = w]
    /\ thread' = [thread EXCEPT ![w] =
                    [NewThread EXCEPT !.life = "running", !.mode = mode,
                                      !.in = <<[type |-> "start", id |-> c]>>]]

PostStop(w, c) ==
    [thread EXCEPT ![w].in = Append(@, [type |-> "stop", id |-> c])]

ClickStop(c) ==
    /\ main.open /\ main.shown /\ ~Busy /\ ~main.startPending
    /\ IF main.worker = None
       THEN main' = [main EXCEPT !.shown = FALSE] /\ UNCHANGED thread
       ELSE /\ NextCall(c)
            /\ main' = Request(main, c, "stop")
            /\ thread' = PostStop(main.worker, c)

\* before-quit; nothing stops the user quitting while a start or stop runs.
Quit(c) ==
    /\ main.open /\ ~main.quitting /\ NextCall(c)
    /\ IF main.worker = None
       THEN /\ main' = [main EXCEPT !.quitting = TRUE, !.open = FALSE]
            /\ UNCHANGED thread
       ELSE /\ main' = [Request(main, c, "quit") EXCEPT !.quitting = TRUE]
            /\ thread' = PostStop(main.worker, c)

Terminated_Fault(c) == \* a failed start leaves simulatorStartPending set
    LET k == main.call[c] IN
    /\ main.open /\ k.stage = "terminating"
    /\ k.awaits # None => thread[k.awaits].life = "gone"
    /\ main' = [main EXCEPT !.call[c].stage = "done",
                            !.shown = @ /\ k.kind # "stop",
                            !.open = k.kind # "quit"]
    /\ UNCHANGED thread

\* The worker a call waits for is gone, and the call returns.
Terminated(c) ==
    LET k == main.call[c] IN
    /\ main.open /\ k.stage = "terminating"
    /\ k.awaits # None => thread[k.awaits].life = "gone"
    /\ main' = [main EXCEPT
                  !.call[c].stage = "done",
                  !.startPending = @ /\ k.kind # "start",
                  !.shown = @ /\ k.kind # "stop",
                  !.open = k.kind # "quit"]
    /\ UNCHANGED thread

-----------------------------------------------------------------------------
(* The worker's handlers, as operators on the record of its thread         *)

Reply(k, type, id) == [k EXCEPT !.out = Append(@, [type |-> type, id |-> id])]

StartFails(k) == Reply([k EXCEPT !.starting = "no"], "error", k.startId)
StartDone(k) == Reply([k EXCEPT !.starting = "no", !.farm = "active"], "started", k.startId)

Save(k, who) ==
    [k EXCEPT !.queue = Append(@, [by |-> who, position |-> k.position])]

OnStart(k, id) ==
    IF k.mode = "synthetic" THEN StartDone([k EXCEPT !.startId = id])
    ELSE [k EXCEPT !.starting = "loading", !.startId = id]

\* The route packs have been loaded, or not.
PacksLoaded(k) ==
    {StartFails(k), [k EXCEPT !.starting = "restoring", !.store = "open"]}

Restored_Fault(k) == \* the farm transmits before its first checkpoint
    {StartFails(k), [Save(k, "start") EXCEPT !.starting = "saving", !.farm = "active"]}

\* checkpointStore.load() has returned, or failed, and the fleet has been
\* placed, or could not be.  A stop may have closed the store in between.
Restored(k) ==
    {StartFails(k), StartFails([k EXCEPT !.farm = "created"])} \cup
    {CASE k.store = "none"    -> StartDone(k)
       [] k.store = "closing" -> StartFails([k EXCEPT !.farm = "deferred"])
       [] OTHER -> [Save(k, "start") EXCEPT !.starting = "saving", !.farm = "deferred"]}

StopDone_Fault(k) == \* keeps the closed store
    Reply([k EXCEPT !.stopping = "no", !.store = "closed"], "stopped", k.stopId)

StopDone(k) == Reply([k EXCEPT !.stopping = "no", !.store = "none"], "stopped", k.stopId)
StopClose(k) == IF k.store = "none" THEN StopDone(k)
                ELSE [k EXCEPT !.stopping = "closing", !.store = "closing"]

StopSave_Fault(k) == \* no last checkpoint when the store has one already
    IF k.farm # "none" /\ k.store # "none" /\ k.durable < 0
    THEN [Save(k, "stop") EXCEPT !.stopping = "saving"]
    ELSE StopClose([k EXCEPT !.farm = "none"])

StopSave(k) ==
    IF k.farm # "none" /\ k.store # "none"
    THEN [Save(k, "stop") EXCEPT !.stopping = "saving"]
    ELSE StopClose([k EXCEPT !.farm = "none"])

StopFarmStopped(k) ==
    IF k.inFlight THEN [k EXCEPT !.stopping = "inFlight"] ELSE StopSave(k)

\* A stop that finds another in progress returns without an answer.
OnStop(k, id) ==
    IF k.stopping # "no" THEN k
    ELSE LET s == [k EXCEPT !.stopId = id, !.timer = FALSE]
         IN  IF k.farm = "none" THEN StopFarmStopped(s)
             ELSE [s EXCEPT !.stopping = "farm",
                            !.farm = IF @ = "created" THEN @ ELSE "stopped"]

StartSaved(k) ==
    IF k.farm = "deferred" THEN StartDone([k EXCEPT !.timer = TRUE]) ELSE StartFails(k)

\* The checkpoint at the head of the queue has been written, or not, and the
\* handler that waits for it goes on.
SaveSettled(k, ok) ==
    LET job == Head(k.queue)
        s == [k EXCEPT !.queue = Tail(@), !.durable = IF ok THEN job.position ELSE @]
        t == [s EXCEPT !.inFlight = FALSE]
    IN  CASE job.by = "start" -> IF ok THEN StartSaved(s) ELSE StartFails(s)
          [] job.by = "timer" -> IF k.stopping = "inFlight" THEN StopSave(t) ELSE t
          [] OTHER -> IF ok THEN StopClose([s EXCEPT !.farm = "none"])
                      ELSE Reply([s EXCEPT !.stopping = "no"], "error", k.stopId)

-----------------------------------------------------------------------------
(* The worker's actions                                                    *)

Runs(w) == main.open /\ thread[w].life = "running"
Become(w, k) == thread' = [thread EXCEPT ![w] = k] /\ UNCHANGED main

Take(w) ==
    LET k == thread[w]
        msg == Head(k.in)
        s == [k EXCEPT !.in = Tail(@)]
    IN  /\ Runs(w) /\ k.in # <<>>
        /\ Become(w, IF msg.type = "start" THEN OnStart(s, msg.id) ELSE OnStop(s, msg.id))

Load(w) ==
    /\ Runs(w) /\ thread[w].starting = "loading"
    /\ \E k \in PacksLoaded(thread[w]) : Become(w, k)

Restore(w) ==
    /\ Runs(w) /\ thread[w].starting = "restoring"
    /\ \E k \in Restored(thread[w]) : Become(w, k)

Write(w) ==
    /\ Runs(w) /\ thread[w].queue # <<>>
    /\ \E ok \in BOOLEAN : Become(w, SaveSettled(thread[w], ok))

Checkpoint(w) ==
    /\ Runs(w) /\ thread[w].timer /\ thread[w].farm # "none" /\ ~thread[w].inFlight
    /\ Become(w, [Save(thread[w], "timer") EXCEPT !.inFlight = TRUE])

FarmStopped(w) ==
    /\ Runs(w) /\ thread[w].stopping = "farm"
    /\ Become(w, StopFarmStopped(thread[w]))

StoreClosed(w) ==
    /\ Runs(w) /\ thread[w].stopping = "closing" /\ thread[w].queue = <<>>
    /\ Become(w, StopDone(thread[w]))

Move(w) ==
    /\ Runs(w) /\ thread[w].farm = "active" /\ thread[w].position < MaxMoves
    /\ Become(w, [thread[w] EXCEPT !.position = @ + 1])

\* An uncaught exception is reported, and the worker goes on.
Throw(w) ==
    /\ Runs(w) /\ ~thread[w].failed
    /\ Become(w, Reply([thread[w] EXCEPT !.failed = TRUE], "fatal", None))

\* The thread runs out of memory.
Crash(w) ==
    /\ Runs(w) /\ ~thread[w].failed
    /\ Become(w, Reply(Reply([thread[w] EXCEPT !.life = "exited", !.failed = TRUE],
                             "failure", None), "exit", None))

Die(w) ==
    /\ Runs(w) /\ w \in main.terminating
    /\ Become(w, Reply([thread[w] EXCEPT !.life = "exited"], "exit", None))

Next ==
    \/ \E c \in Calls :
        \/ ClickStart(c)
        \/ StartRefused(c)
        \/ \E w \in Workers, mode \in Modes : Launch(c, w, mode)
        \/ ClickStop(c)
        \/ Quit(c)
        \/ Terminated(c)
        \/ Timeout(c)
    \/ \E w \in Workers :
        \/ Deliver(w)
        \/ Take(w)
        \/ Load(w)
        \/ Restore(w)
        \/ Write(w)
        \/ Checkpoint(w)
        \/ FarmStopped(w)
        \/ StoreClosed(w)
        \/ Move(w)
        \/ Throw(w)
        \/ Crash(w)
        \/ Die(w)

Spec == Init /\ [][Next]_vars

\* The main process runs its callbacks and timers and terminate() ends a
\* thread.  Nothing is assumed of a worker's own steps: it may hang.
Fairness ==
    /\ \A c \in Calls :
        /\ WF_vars(\E w \in Workers, mode \in Modes : Launch(c, w, mode))
        /\ WF_vars(StartRefused(c))
        /\ WF_vars(Terminated(c))
        /\ WF_vars(Timeout(c))
    /\ \A w \in Workers : WF_vars(Deliver(w)) /\ WF_vars(Die(w))

FairSpec == Spec /\ Fairness

-----------------------------------------------------------------------------
(* Properties                                                              *)

TypeOK == main \in Main /\ thread \in [Workers -> Thread]

\* When the dashboard shows no transmission and no call is in progress, every
\* worker has ended or has been told to: a start that failed at any step, a
\* stop that failed or timed out, and a fatal error all get rid of the thread.
NothingLeftRunning ==
    main.open /\ ~main.shown /\ ~Busy =>
        \A w \in Workers : thread[w].life = "running" => w \in main.terminating

\* When the dashboard is idle the application can be started again: none of
\* the four flags a start looks at has been left set (a thread that crashed is
\* let go of when its exit arrives).
IdleMeansStartable ==
    main.open /\ ~main.quitting /\ ~main.shown /\ ~Busy =>
        /\ ~main.running /\ ~main.startPending
        /\ main.worker # None => thread[main.worker].life = "exited"

\* A farm is let go only when the last positions of its vehicles are on disk.
StopSavesLast ==
    \A w \in Workers :
        thread[w].mode = "real-road" /\ thread[w].farm = "none" =>
            thread[w].position = 0 \/ thread[w].durable = thread[w].position

\* A real-road fleet moves only after its first checkpoint is on disk.
DurableBeforeMoving ==
    \A w \in Workers :
        thread[w].farm = "active" /\ thread[w].store = "open" => thread[w].durable >= 0

\* Every start and stop is answered and quitting ends the application, even
\* when the worker hangs or never answers.
Answered ==
    /\ Busy ~> ~Busy \/ ~main.open
    /\ main.quitting ~> ~main.open

\* docs/ACCEPTANCE-CRITERIA.md, 11: stopping closes the worker "without
\* leaving transmission running".  When a stop has been answered and nothing
\* has been asked since, the only workers that transmit are being terminated.
Transmits(w) == thread[w].life = "running" /\ thread[w].farm = "active"

StopEndsTransmission ==
    \A c \in Calls :
        /\ main.call[c].kind = "stop" /\ main.call[c].stage = "done"
        /\ \A e \in Calls : e > c => main.call[e].stage = "unused"
        => \A w \in Workers : Transmits(w) => w \in main.terminating
=============================================================================
