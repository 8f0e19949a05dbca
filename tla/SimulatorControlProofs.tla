----------------------- MODULE SimulatorControlProofs -----------------------
(***************************************************************************)
(* What SimulatorControl keeps for any number of threads, calls and moves. *)
(*                                                                         *)
(* The work is in three parts.  Local says what is true of the record of   *)
(* one thread whatever the others do, and every operator of the worker     *)
(* keeps it: that alone gives the types and DurableBeforeMoving.  QuitOf   *)
(* ties a thread to the requests that wait for it: quitting is the only    *)
(* way to stop a thread whose start is not answered, and the answer to     *)
(* that stop is then ahead of the one to the start.  PatientInv is about   *)
(* the main process, when the operator starts again only after the last    *)
(* thread has gone: one thread at a time, one start or stop at a time, and *)
(* every thread that runs is held by the controller or being terminated.   *)
(*                                                                         *)
(* Becomes(w, n) and Sound(n, k, m, held) are the interface between the    *)
(* parts: a step of a worker replaces its thread by a sound one, whoever   *)
(* holds it.                                                               *)
(***************************************************************************)
EXTENDS SimulatorControl, SequenceTheorems, TLAPS

-----------------------------------------------------------------------------
(* Queues and the types of the worker's operators                          *)

MessageTypes == {"start", "stop", "started", "stopped", "error", "fatal", "failure", "exit"}
Job == [by : {"start", "timer", "stop"}, position : 0 .. MaxMoves]

\* What appending to a mailbox or a queue and taking its head do to its elements.
LEMMA AppendElems ==
    ASSUME NEW S, NEW s \in Seq(S), NEW e \in S
    PROVE  /\ Append(s, e) \in Seq(S)
           /\ Len(Append(s, e)) = Len(s) + 1
           /\ \A i \in 1 .. Len(s) : Append(s, e)[i] = s[i]
           /\ Append(s, e)[Len(s) + 1] = e
<1>1. Len(s) \in Nat
  BY LenProperties
<1> QED
  BY <1>1, AppendProperties

\* Taking the head of a queue leaves the others one place earlier.
LEMMA TailElems ==
    ASSUME NEW S, NEW s \in Seq(S), s # <<>>
    PROVE  /\ Tail(s) \in Seq(S) /\ Head(s) \in S /\ Head(s) = s[1]
           /\ Len(s) \in Nat /\ Len(s) >= 1 /\ Len(Tail(s)) = Len(s) - 1
           /\ \A i \in 1 .. Len(s) - 1 : Tail(s)[i] = s[i + 1]
<1>1. Len(s) \in Nat /\ Len(s) # 0
  BY LenProperties, EmptySeq
<1>2. \A i \in 1 .. Len(Tail(s)) : Tail(s)[i] = s[i + 1]
  BY HeadTailProperties
<1> QED
  BY <1>1, <1>2, HeadTailProperties

\* The fields of a thread, and what may be put into each.
LEMMA FieldTypes ==
    ASSUME NEW k \in Thread
    PROVE
        /\ k.life \in {"unborn", "running", "exited", "gone"}
        /\ \A v \in {"unborn", "running", "exited", "gone"} :
             [k EXCEPT !.life = v] \in Thread
        /\ k.in \in Seq(Message)
        /\ \A v \in Seq(Message) : [k EXCEPT !.in = v] \in Thread
        /\ k.out \in Seq(Message)
        /\ \A v \in Seq(Message) : [k EXCEPT !.out = v] \in Thread
        /\ k.starting \in {"no", "loading", "restoring", "saving"}
        /\ \A v \in {"no", "loading", "restoring", "saving"} :
             [k EXCEPT !.starting = v] \in Thread
        /\ k.startId \in Calls \cup {None}
        /\ \A v \in Calls \cup {None} : [k EXCEPT !.startId = v] \in Thread
        /\ k.stopping \in {"no", "farm", "inFlight", "saving", "closing"}
        /\ \A v \in {"no", "farm", "inFlight", "saving", "closing"} :
             [k EXCEPT !.stopping = v] \in Thread
        /\ k.stopId \in Calls \cup {None}
        /\ \A v \in Calls \cup {None} : [k EXCEPT !.stopId = v] \in Thread
        /\ k.farm \in {"none", "created", "deferred", "active", "stopped"}
        /\ \A v \in {"none", "created", "deferred", "active", "stopped"} :
             [k EXCEPT !.farm = v] \in Thread
        /\ k.store \in {"none", "open", "closing"}
        /\ \A v \in {"none", "open", "closing"} : [k EXCEPT !.store = v] \in Thread
        /\ k.queue \in Seq(Job)
        /\ \A v \in Seq(Job) : [k EXCEPT !.queue = v] \in Thread
        /\ k.timer \in BOOLEAN
        /\ \A v \in BOOLEAN : [k EXCEPT !.timer = v] \in Thread
        /\ k.inFlight \in BOOLEAN
        /\ \A v \in BOOLEAN : [k EXCEPT !.inFlight = v] \in Thread
        /\ k.position \in 0 .. MaxMoves
        /\ \A v \in 0 .. MaxMoves : [k EXCEPT !.position = v] \in Thread
        /\ k.durable \in -1 .. MaxMoves
        /\ \A v \in -1 .. MaxMoves : [k EXCEPT !.durable = v] \in Thread
        /\ k.failed \in BOOLEAN
        /\ \A v \in BOOLEAN : [k EXCEPT !.failed = v] \in Thread
<1> DEFINE Life == {"unborn", "running", "exited", "gone"}
           Starting == {"no", "loading", "restoring", "saving"}
           Stopping == {"no", "farm", "inFlight", "saving", "closing"}
           Farm == {"none", "created", "deferred", "active", "stopped"}
           Store == {"none", "open", "closing"}
<1> DEFINE Mode == {"synthetic", "real-road"}
<1>0. Thread = [life : Life, mode : Mode, in : Seq(Message), out : Seq(Message),
                starting : Starting, startId : Calls \cup {None},
                stopping : Stopping, stopId : Calls \cup {None},
                farm : Farm, store : Store, queue : Seq(Job), timer : BOOLEAN,
                inFlight : BOOLEAN, position : 0 .. MaxMoves,
                durable : -1 .. MaxMoves, failed : BOOLEAN]
  BY DEF Thread, Job
<1> HIDE DEF Life, Starting, Stopping, Farm, Store, Mode
<1>1. k.life \in Life /\ \A v \in Life : [k EXCEPT !.life = v] \in Thread
  BY <1>0
<1>2. k.in \in Seq(Message) /\ \A v \in Seq(Message) : [k EXCEPT !.in = v] \in Thread
  BY <1>0
<1>3. k.out \in Seq(Message) /\ \A v \in Seq(Message) : [k EXCEPT !.out = v] \in Thread
  BY <1>0
<1>4. k.starting \in Starting /\ \A v \in Starting : [k EXCEPT !.starting = v] \in Thread
  BY <1>0
<1>5. k.startId \in Calls \cup {None} /\ \A v \in Calls \cup {None} : [k EXCEPT !.startId = v] \in Thread
  BY <1>0
<1>6. k.stopping \in Stopping /\ \A v \in Stopping : [k EXCEPT !.stopping = v] \in Thread
  BY <1>0
<1>7. k.stopId \in Calls \cup {None} /\ \A v \in Calls \cup {None} : [k EXCEPT !.stopId = v] \in Thread
  BY <1>0
<1>8. k.farm \in Farm /\ \A v \in Farm : [k EXCEPT !.farm = v] \in Thread
  BY <1>0
<1>9. k.store \in Store /\ \A v \in Store : [k EXCEPT !.store = v] \in Thread
  BY <1>0
<1>10. k.queue \in Seq(Job) /\ \A v \in Seq(Job) : [k EXCEPT !.queue = v] \in Thread
  BY <1>0
<1>11. k.timer \in BOOLEAN /\ \A v \in BOOLEAN : [k EXCEPT !.timer = v] \in Thread
  BY <1>0
<1>12. k.inFlight \in BOOLEAN /\ \A v \in BOOLEAN : [k EXCEPT !.inFlight = v] \in Thread
  BY <1>0
<1>13. k.position \in 0 .. MaxMoves /\ \A v \in 0 .. MaxMoves : [k EXCEPT !.position = v] \in Thread
  BY <1>0
<1>14. k.durable \in -1 .. MaxMoves /\ \A v \in -1 .. MaxMoves : [k EXCEPT !.durable = v] \in Thread
  BY <1>0
<1>15. k.failed \in BOOLEAN /\ \A v \in BOOLEAN : [k EXCEPT !.failed = v] \in Thread
  BY <1>0
<1> QED
  BY <1>1, <1>2, <1>3, <1>4, <1>5, <1>6, <1>7, <1>8,
     <1>9, <1>10, <1>11, <1>12, <1>13, <1>14, <1>15
     DEF Life, Starting, Stopping, Farm, Store

\* Each of the worker's operators turns a thread into a thread: a reply.
LEMMA ReplyType ==
    ASSUME NEW k \in Thread, NEW type \in MessageTypes, NEW id \in Calls \cup {None}
    PROVE  Reply(k, type, id) \in Thread
<1>1. [type |-> type, id |-> id] \in Message
  BY DEF Message, MessageTypes
<1>2. Append(k.out, [type |-> type, id |-> id]) \in Seq(Message)
  BY <1>1, AppendProperties, FieldTypes
<1> QED
  BY <1>2, FieldTypes DEF Reply

\* A start that fails.
LEMMA StartFailsType == \A k \in Thread : StartFails(k) \in Thread
<1> SUFFICES ASSUME NEW k \in Thread PROVE StartFails(k) \in Thread
  OBVIOUS
<1>1. [k EXCEPT !.starting = "no"] \in Thread /\ k.startId \in Calls \cup {None}
  BY FieldTypes
<1> QED
  BY <1>1, ReplyType DEF StartFails, MessageTypes

\* A start that succeeds.
LEMMA StartDoneType == \A k \in Thread : StartDone(k) \in Thread
<1> SUFFICES ASSUME NEW k \in Thread PROVE StartDone(k) \in Thread
  OBVIOUS
<1>1. [k EXCEPT !.starting = "no", !.farm = "active"] \in Thread /\ k.startId \in Calls \cup {None}
  BY FieldTypes
<1> QED
  BY <1>1, ReplyType DEF StartDone, MessageTypes

\* A stop that is over.
LEMMA StopDoneType == \A k \in Thread : StopDone(k) \in Thread
<1> SUFFICES ASSUME NEW k \in Thread PROVE StopDone(k) \in Thread
  OBVIOUS
<1>1. [k EXCEPT !.stopping = "no", !.store = "none"] \in Thread /\ k.stopId \in Calls \cup {None}
  BY FieldTypes
<1> QED
  BY <1>1, ReplyType DEF StopDone, MessageTypes

\* A checkpoint that is asked for.
LEMMA SaveType ==
    ASSUME NEW k \in Thread, NEW who \in {"start", "timer", "stop"}
    PROVE  Save(k, who) \in Thread
<1>1. [by |-> who, position |-> k.position] \in Job
  BY FieldTypes DEF Job
<1>2. Append(k.queue, [by |-> who, position |-> k.position]) \in Seq(Job)
  BY <1>1, AppendProperties, FieldTypes
<1> QED
  BY <1>2, FieldTypes DEF Save

\* The store that a stop closes.
LEMMA StopCloseType == \A k \in Thread : StopClose(k) \in Thread
BY StopDoneType, FieldTypes DEF StopClose

\* The last checkpoint.
LEMMA StopSaveType == \A k \in Thread : StopSave(k) \in Thread
<1> SUFFICES ASSUME NEW k \in Thread PROVE StopSave(k) \in Thread
  OBVIOUS
<1>1. Save(k, "stop") \in Thread
  BY SaveType
<1>2. [Save(k, "stop") EXCEPT !.stopping = "saving"] \in Thread
  BY <1>1, FieldTypes
<1>3. [k EXCEPT !.farm = "none"] \in Thread
  BY FieldTypes
<1> QED
  BY <1>2, <1>3, StopCloseType DEF StopSave

\* The farm has stopped.
LEMMA StopFarmStoppedType == \A k \in Thread : StopFarmStopped(k) \in Thread
BY FieldTypes, StopSaveType DEF StopFarmStopped

\* A start is taken.
LEMMA OnStartType ==
    ASSUME NEW k \in Thread, NEW id \in Calls \cup {None}
    PROVE  OnStart(k, id) \in Thread
<1>1. [k EXCEPT !.startId = id] \in Thread
  BY FieldTypes
<1>2. StartDone([k EXCEPT !.startId = id]) \in Thread
  BY <1>1, StartDoneType
<1>3. [k EXCEPT !.starting = "loading", !.startId = id] \in Thread
  BY FieldTypes
<1> QED
  BY <1>2, <1>3 DEF OnStart

\* A stop is taken.
LEMMA OnStopType ==
    ASSUME NEW k \in Thread, NEW id \in Calls \cup {None}
    PROVE  OnStop(k, id) \in Thread
<1> DEFINE s == [k EXCEPT !.stopId = id, !.timer = FALSE]
<1>1. s \in Thread
  BY FieldTypes
<1> HIDE DEF s
<1>2. [s EXCEPT !.stopping = "farm", !.farm = IF @ = "created" THEN @ ELSE "stopped"] \in Thread
  <2>1. [s EXCEPT !.stopping = "farm"] \in Thread
    BY <1>1, FieldTypes
  <2>2. [s EXCEPT !.stopping = "farm"].farm = s.farm
    BY <1>1 DEF Thread
  <2>3. (IF s.farm = "created" THEN s.farm ELSE "stopped") \in
            {"none", "created", "deferred", "active", "stopped"}
    OBVIOUS
  <2> QED
    BY <2>1, <2>2, <2>3, FieldTypes
<1>3. StopFarmStopped(s) \in Thread
  BY <1>1, StopFarmStoppedType
<1> QED
  BY <1>2, <1>3 DEF OnStop, s

\* The route packs have been loaded, or not.
LEMMA PacksLoadedType == \A k \in Thread : PacksLoaded(k) \subseteq Thread
<1> SUFFICES ASSUME NEW k \in Thread PROVE PacksLoaded(k) \subseteq Thread
  OBVIOUS
<1>1. [k EXCEPT !.starting = "restoring", !.store = "open"] \in Thread
  BY FieldTypes
<1> QED
  BY <1>1, StartFailsType DEF PacksLoaded

\* The fleet has been placed, or not.
LEMMA RestoredType == \A k \in Thread : Restored(k) \subseteq Thread
<1> SUFFICES ASSUME NEW k \in Thread PROVE Restored(k) \subseteq Thread
  OBVIOUS
<1>1. /\ [k EXCEPT !.farm = "created"] \in Thread
      /\ [k EXCEPT !.farm = "deferred"] \in Thread
  BY FieldTypes
<1>2. Save(k, "start") \in Thread
  BY SaveType
<1>3. [Save(k, "start") EXCEPT !.starting = "saving", !.farm = "deferred"] \in Thread
  BY <1>2, FieldTypes
<1>4. StartFails(k) \in Thread /\ StartFails([k EXCEPT !.farm = "created"]) \in Thread
  BY <1>1, StartFailsType
<1>5. StartDone(k) \in Thread /\ StartFails([k EXCEPT !.farm = "deferred"]) \in Thread
  BY <1>1, StartFailsType, StartDoneType
<1> QED
  BY <1>3, <1>4, <1>5 DEF Restored

\* The first checkpoint is on disk.
LEMMA StartSavedType == \A k \in Thread : StartSaved(k) \in Thread
<1> SUFFICES ASSUME NEW k \in Thread PROVE StartSaved(k) \in Thread
  OBVIOUS
<1>1. [k EXCEPT !.timer = TRUE] \in Thread
  BY FieldTypes
<1> QED
  BY <1>1, StartDoneType, StartFailsType DEF StartSaved

\* The job at the head of the queue is taken off it.
LEMMA HeadJob ==
    ASSUME NEW k \in Thread, k.queue # <<>>
    PROVE  /\ Head(k.queue) \in Job /\ Head(k.queue) = k.queue[1]
           /\ Tail(k.queue) \in Seq(Job) /\ Len(k.queue) >= 1
<1>1. k.queue \in Seq(Job)
  BY FieldTypes
<1> QED
  BY <1>1, HeadTailProperties, EmptySeq, LenProperties

\* A checkpoint has been written, or not.
LEMMA SaveSettledType ==
    ASSUME NEW k \in Thread, k.queue # <<>>, NEW ok \in BOOLEAN
    PROVE  SaveSettled(k, ok) \in Thread
<1> DEFINE job == Head(k.queue)
           s == [k EXCEPT !.queue = Tail(@), !.durable = IF ok THEN job.position ELSE @]
           t == [s EXCEPT !.inFlight = FALSE]
<1>1. job.position \in -1 .. MaxMoves /\ Tail(k.queue) \in Seq(Job)
  <2>1. job \in Job /\ Tail(k.queue) \in Seq(Job)
    BY HeadJob
  <2> HIDE DEF job
  <2>2. job.position \in 0 .. MaxMoves
    BY <2>1 DEF Job
  <2> QED
    BY <2>1, <2>2, MaxMovesAssumption
<1>2. s \in Thread
  <2>1. [k EXCEPT !.queue = Tail(@)] \in Thread
    BY <1>1, FieldTypes
  <2>2. (IF ok THEN job.position ELSE k.durable) \in -1 .. MaxMoves
    BY <1>1, FieldTypes
  <2>3. [[k EXCEPT !.queue = Tail(@)] EXCEPT !.durable = IF ok THEN job.position ELSE k.durable] \in Thread
    BY <2>1, <2>2, FieldTypes
  <2> QED
    BY <2>3
<1> HIDE DEF s
<1>3. t \in Thread
  BY <1>2, FieldTypes
<1>4. StopClose([s EXCEPT !.farm = "none"]) \in Thread
  BY <1>2, StopCloseType, FieldTypes
<1>5. Reply([s EXCEPT !.stopping = "no"], "error", k.stopId) \in Thread
  BY <1>2, ReplyType, FieldTypes DEF MessageTypes
<1>6. StartSaved(s) \in Thread /\ StartFails(s) \in Thread
  BY <1>2, StartSavedType, StartFailsType
<1>7. StopSave(t) \in Thread
  BY <1>3, StopSaveType
<1> HIDE DEF t
<1> QED
  BY <1>3, <1>4, <1>5, <1>6, <1>7 DEF SaveSettled, s, t

-----------------------------------------------------------------------------
(* What is true of one thread whatever the other threads and calls do      *)

\* No message of a thread still asks it to start.
NoStart(k) == \A i \in 1 .. Len(k.in) : k.in[i].type # "start"

\* A thread before its 'start' is taken.
Fresh(k) ==
    /\ k.starting = "no" /\ k.stopping = "no" /\ k.stopId = None
    /\ k.farm = "none" /\ k.store = "none" /\ k.queue = <<>>
    /\ k.position = 0 /\ ~k.timer /\ ~k.inFlight

\* How the messages of a thread go with its life.
MailInv(k) ==
    /\ k.life \in {"unborn", "gone"} => k.out = <<>> /\ Fresh(k)
    /\ \A i \in 1 .. Len(k.out) : k.out[i].type \in {"failure", "exit"} => k.life = "exited"
    /\ \A i \in 1 .. Len(k.in) :
        /\ k.in[i].type \in {"start", "stop"} /\ k.in[i].id \in Calls
        /\ k.in[i].type = "start" => i = 1 /\ Fresh(k)

\* A start ends before the farm transmits, and the farm transmits with an open
\* store only after a checkpoint.
StartInv(k) ==
    /\ k.starting \in {"loading", "restoring"} => k.farm = "none"
    /\ k.starting = "loading" => k.store = "none"
    /\ k.starting = "restoring" => k.store # "none" \/ k.stopId # None
    /\ k.starting # "no" => k.farm # "active" /\ k.position = 0
    /\ k.farm = "active" /\ k.store = "open" => k.durable >= 0
    /\ k.farm \in {"created", "deferred"} => k.position = 0
    /\ k.timer => k.farm = "active"
    /\ k.inFlight => k.farm \in {"active", "stopped"}

\* Where a stop is, and what it has done by then.
StopInv(k) ==
    /\ k.stopping \in {"farm", "inFlight", "saving"} => k.farm \in {"stopped", "created"}
    /\ k.stopping = "saving" => ~k.inFlight
    /\ k.stopping = "closing" => k.store = "closing" /\ k.farm \in {"none", "created", "deferred"}
    /\ k.stopping # "no" => ~k.timer /\ k.stopId # None
    /\ k.store = "closing" => k.stopping = "closing"

\* Nothing is written of a farm that is let go or into a store that is not
\* there; the last job is the stop's, and the timer has one job at a time.
QueueInv(k) ==
    /\ k.farm = "none" \/ k.store = "none" \/ k.stopping = "closing" => k.queue = <<>>
    /\ k.store = "none" => ~k.timer
    /\ \A i \in 1 .. Len(k.queue) :
        /\ k.queue[i].by = "stop" =>
            i = Len(k.queue) /\ k.queue[i].position = k.position /\ k.stopping = "saving"
        /\ k.queue[i].by = "timer" => k.inFlight
    /\ \A i, j \in 1 .. Len(k.queue) :
        k.queue[i].by = "timer" /\ k.queue[j].by = "timer" => i = j

Local(k) == MailInv(k) /\ StartInv(k) /\ StopInv(k) /\ QueueInv(k)

\* The last positions of a real-road fleet are on disk when it is let go.
LastInv(k) ==
    k.mode = "real-road" =>
        /\ k.farm = "stopped" => k.store # "none" \/ k.position = 0
        /\ k.farm = "none" => k.position = 0 \/ k.durable = k.position

-----------------------------------------------------------------------------
(* What quitting does to a thread, held by the main process or not         *)

\* The start of a thread is asked for and not answered.
Asked(k) == k.starting # "no" \/ ~NoStart(k)

\* A real-road farm that transmits without a store: a stop has closed it.
Bare(k) == k.mode = "real-road" /\ k.farm = "active" /\ k.store = "none"

\* Message i of the thread ends a call that waits for it, and not with 'started'.
Ends(k, i, m) == k.out[i].type # "started" /\ k.out[i].id \in m.pending

\* Only quitting stops a thread whose start is not answered, and only once.
OneStop(k, m, held) ==
    /\ \A i \in 1 .. Len(k.out) : k.out[i].type # "started"
    /\ \A i, j \in 1 .. Len(k.in) : k.in[i].type = "stop" /\ k.in[j].type = "stop" => i = j
    /\ \A i \in 1 .. Len(k.in) : k.in[i].type = "stop" =>
        /\ m.quitting /\ k.stopId = None
        /\ held => k.in[i].id \in m.pending
    /\ held => ~m.shown
    /\ k.stopId # None => /\ m.quitting
                          /\ held => k.stopId \in m.pending

AskedQuit(k, m, held) == Asked(k) => OneStop(k, m, held)

\* The answer to that stop is sent before the one to the start.
EndedQuit(k, m, held) ==
    Asked(k) /\ held /\ k.stopId # None /\ k.stopping = "no" =>
        \E i \in 1 .. Len(k.out) : Ends(k, i, m)

BareQuit(k, m, held) ==
    Bare(k) =>
        /\ m.quitting /\ k.stopping = "no"
        /\ \A i \in 1 .. Len(k.in) : k.in[i].type # "stop"
        /\ held =>
            /\ ~m.shown
            /\ \E i \in 1 .. Len(k.out) :
                Ends(k, i, m) /\ \A j \in 1 .. i : k.out[j].type # "started"

QuitOf(k, m, held) == AskedQuit(k, m, held) /\ EndedQuit(k, m, held) /\ BareQuit(k, m, held)

-----------------------------------------------------------------------------
(* How a step changes a thread                                             *)

Fields == {"life", "mode", "in", "out", "starting", "startId", "stopping", "stopId",
           "farm", "store", "queue", "timer", "inFlight", "position", "durable", "failed"}

\* A step turns the thread k into n and changes at most these fields.
Same(n, k, changed) == \A f \in Fields \ changed : n[f] = k[f]

Answer(type, id) == [type |-> type, id |-> id]
Sends(n, k, type, id) == n.out = Append(k.out, Answer(type, id))

\* Every thread record has these fields.
LEMMA Dom == \A k \in Thread : DOMAIN k = Fields
BY DEF Thread, Fields

\* A thread that has begun holds no 'start' any more.
LEMMA BegunNoStart ==
    ASSUME NEW k, MailInv(k), ~Fresh(k)
    PROVE  NoStart(k)
BY DEF MailInv, NoStart

\* A step that leaves the mailbox alone keeps the mail invariant, also when it
\* sends an ordinary message.
LEMMA MailKept ==
    ASSUME NEW k, NEW n, MailInv(k), NoStart(k), k.life = "running",
           n.life = k.life, n.in = k.in, n.out = k.out
    PROVE  MailInv(n)
BY DEF MailInv, NoStart

\* A reply keeps what is known of the messages of a thread.
LEMMA MailSent ==
    ASSUME NEW k \in Thread, NEW n, MailInv(k), NoStart(k), k.life = "running",
           n.life = k.life, n.in = k.in,
           NEW type \in MessageTypes \ {"failure", "exit"}, NEW id \in Calls \cup {None},
           Sends(n, k, type, id)
    PROVE  MailInv(n)
<1>1. \A i \in 1 .. Len(n.out) : n.out[i].type \notin {"failure", "exit"}
  <2>1. \A i \in 1 .. Len(k.out) : k.out[i].type \notin {"failure", "exit"}
    BY DEF MailInv
  <2>2. Answer(type, id) \in Message /\ Answer(type, id).type = type
    BY DEF Answer, Message, MessageTypes
  <2>3. k.out \in Seq(Message) /\ Len(k.out) \in Nat
    BY FieldTypes, LenProperties
  <2>4. /\ Len(n.out) = Len(k.out) + 1
        /\ \A i \in 1 .. Len(k.out) : n.out[i] = k.out[i]
        /\ n.out[Len(k.out) + 1] = Answer(type, id)
    BY <2>2, <2>3, AppendElems DEF Sends
  <2>5. \A i \in 1 .. Len(n.out) : i \in 1 .. Len(k.out) \/ i = Len(k.out) + 1
    BY <2>3, <2>4
  <2>6. type \notin {"failure", "exit"}
    OBVIOUS
  <2> QED
    BY <2>1, <2>2, <2>4, <2>5, <2>6
<1> QED
  BY <1>1 DEF MailInv, NoStart

\* What taking the head off the queue leaves in it.
LEMMA QueueTail ==
    ASSUME NEW k \in Thread, NEW n, QueueInv(k), k.queue # <<>>, n.queue = Tail(k.queue)
    PROVE  /\ k.queue[1].by # "stop" =>
                \A i \in 1 .. Len(n.queue) :
                    n.queue[i].by = "stop" =>
                        i = Len(n.queue) /\ n.queue[i].position = k.position /\ k.stopping = "saving"
           /\ k.queue[1].by = "stop" => n.queue = <<>>
           /\ k.queue[1].by = "timer" => \A i \in 1 .. Len(n.queue) : n.queue[i].by # "timer"
           /\ \A i \in 1 .. Len(n.queue) : n.queue[i].by = "timer" => k.inFlight
           /\ \A i, j \in 1 .. Len(n.queue) :
                n.queue[i].by = "timer" /\ n.queue[j].by = "timer" => i = j
           /\ Head(k.queue) = k.queue[1] /\ Head(k.queue) \in Job
<1>1. k.queue \in Seq(Job)
  BY FieldTypes
<1>2. /\ n.queue \in Seq(Job) /\ Head(k.queue) \in Job /\ Head(k.queue) = k.queue[1]
      /\ Len(k.queue) \in Nat /\ Len(k.queue) >= 1 /\ Len(n.queue) = Len(k.queue) - 1
      /\ \A i \in 1 .. Len(k.queue) - 1 : n.queue[i] = k.queue[i + 1]
  BY <1>1, TailElems
<1>3. k.queue[1].by = "stop" => n.queue = <<>>
  BY <1>2, EmptySeq DEF QueueInv
<1>4. \A i \in 1 .. Len(n.queue) : i + 1 \in 1 .. Len(k.queue) /\ n.queue[i] = k.queue[i + 1]
  BY <1>2
<1>5. \A i \in 1 .. Len(n.queue) : n.queue[i].by = "timer" => k.inFlight
  BY <1>4 DEF QueueInv
<1>6. \A i, j \in 1 .. Len(n.queue) :
         n.queue[i].by = "timer" /\ n.queue[j].by = "timer" => i = j
  BY <1>2, <1>4 DEF QueueInv
<1>7. k.queue[1].by = "timer" => \A i \in 1 .. Len(n.queue) : n.queue[i].by # "timer"
  BY <1>2, <1>4 DEF QueueInv
<1>8. k.queue[1].by # "stop" =>
        \A i \in 1 .. Len(n.queue) :
            n.queue[i].by = "stop" =>
                i = Len(n.queue) /\ n.queue[i].position = k.position /\ k.stopping = "saving"
  BY <1>2, <1>4 DEF QueueInv
<1> QED
  BY <1>2, <1>3, <1>5, <1>6, <1>7, <1>8

\* What a job at the end of the queue adds to it.
LEMMA QueueAppend ==
    ASSUME NEW k \in Thread, NEW n, NEW who \in {"start", "timer", "stop"},
           n.queue = Append(k.queue, [by |-> who, position |-> k.position])
    PROVE  /\ Len(n.queue) = Len(k.queue) + 1 /\ Len(k.queue) \in Nat
           /\ \A i \in 1 .. Len(k.queue) : n.queue[i] = k.queue[i]
           /\ n.queue[Len(k.queue) + 1].by = who
           /\ n.queue[Len(k.queue) + 1].position = k.position
<1>1. [by |-> who, position |-> k.position] \in Job
  BY FieldTypes DEF Job
<1>2. k.queue \in Seq(Job) /\ Len(k.queue) \in Nat
  BY FieldTypes, LenProperties
<1>3. n.queue[Len(k.queue) + 1] = [by |-> who, position |-> k.position]
  BY <1>1, <1>2, AppendElems
<1> QED
  BY <1>1, <1>2, <1>3, AppendElems

\* What sending a message adds to those of a thread.
LEMMA SentIs ==
    ASSUME NEW k \in Thread, NEW n, NEW type \in MessageTypes, NEW id \in Calls \cup {None},
           Sends(n, k, type, id)
    PROVE  /\ Len(k.out) \in Nat /\ Len(n.out) = Len(k.out) + 1
           /\ \A i \in 1 .. Len(k.out) : i \in 1 .. Len(n.out) /\ n.out[i] = k.out[i]
           /\ n.out[Len(n.out)].type = type /\ n.out[Len(n.out)].id = id
           /\ \A i \in 1 .. Len(n.out) : i \in 1 .. Len(k.out) \/ i = Len(n.out)
<1>1. Answer(type, id) \in Message /\ Answer(type, id).type = type /\ Answer(type, id).id = id
  BY DEF Answer, Message, MessageTypes
<1>2. k.out \in Seq(Message) /\ Len(k.out) \in Nat
  BY FieldTypes, LenProperties
<1>3. /\ Len(n.out) = Len(k.out) + 1
      /\ \A i \in 1 .. Len(k.out) : n.out[i] = k.out[i]
      /\ n.out[Len(k.out) + 1] = Answer(type, id)
  BY <1>1, <1>2, AppendElems DEF Sends
<1> QED
  BY <1>1, <1>2, <1>3

\* A thread that leaves its mailbox and its stop alone keeps what quitting
\* asks of it: first when it sends nothing, then when it answers.
LEMMA SilentQuit ==
    ASSUME NEW k, NEW n, NEW m, NEW held, n.in = k.in, n.out = k.out
    PROVE  /\ NoStart(k) <=> NoStart(n)
           /\ n.stopId = k.stopId /\ OneStop(k, m, held) => OneStop(n, m, held)
           /\ \A i \in 1 .. Len(k.out) : Ends(k, i, m) => i \in 1 .. Len(n.out) /\ Ends(n, i, m)
           /\ (Bare(n) => Bare(k)) /\ n.stopping = k.stopping /\ BareQuit(k, m, held) => BareQuit(n, m, held)
<1>1. NoStart(k) <=> NoStart(n)
  BY DEF NoStart
<1>2. n.stopId = k.stopId /\ OneStop(k, m, held) => OneStop(n, m, held)
  BY DEF OneStop
<1>3. \A i \in 1 .. Len(k.out) : Ends(k, i, m) => i \in 1 .. Len(n.out) /\ Ends(n, i, m)
  BY DEF Ends
<1>4. (Bare(n) => Bare(k)) /\ n.stopping = k.stopping /\ BareQuit(k, m, held) => BareQuit(n, m, held)
  BY DEF BareQuit, Ends
<1> QED
  BY <1>1, <1>2, <1>3, <1>4

\* A reply after which quitting asks no more of the thread than before.
LEMMA SentQuit ==
    ASSUME NEW k \in Thread, NEW n, NEW m, NEW held, n.in = k.in,
           NEW type \in MessageTypes, NEW id \in Calls \cup {None}, Sends(n, k, type, id)
    PROVE  /\ NoStart(k) <=> NoStart(n)
           /\ type # "started" /\ n.stopId = k.stopId /\ OneStop(k, m, held) => OneStop(n, m, held)
           /\ \A i \in 1 .. Len(k.out) : Ends(k, i, m) => i \in 1 .. Len(n.out) /\ Ends(n, i, m)
           /\ type # "started" /\ id \in m.pending => \E i \in 1 .. Len(n.out) : Ends(n, i, m)
           /\ (Bare(n) => Bare(k)) /\ n.stopping = k.stopping /\ BareQuit(k, m, held) => BareQuit(n, m, held)
<1>1. /\ Len(k.out) \in Nat /\ Len(n.out) = Len(k.out) + 1
      /\ \A i \in 1 .. Len(k.out) : i \in 1 .. Len(n.out) /\ n.out[i] = k.out[i]
      /\ n.out[Len(n.out)].type = type /\ n.out[Len(n.out)].id = id
      /\ \A i \in 1 .. Len(n.out) : i \in 1 .. Len(k.out) \/ i = Len(n.out)
  BY SentIs
<1>2. NoStart(k) <=> NoStart(n)
  BY DEF NoStart
<1>3. ASSUME type # "started", n.stopId = k.stopId, OneStop(k, m, held)
      PROVE  OneStop(n, m, held)
  <2>1. \A i \in 1 .. Len(n.out) : n.out[i].type # "started"
    BY <1>1, <1>3 DEF OneStop
  <2> QED
    BY <1>3, <2>1 DEF OneStop
<1>4. \A i \in 1 .. Len(k.out) : Ends(k, i, m) => i \in 1 .. Len(n.out) /\ Ends(n, i, m)
  BY <1>1 DEF Ends
<1>5. ASSUME type # "started", id \in m.pending PROVE \E i \in 1 .. Len(n.out) : Ends(n, i, m)
  <2>1. Len(n.out) \in 1 .. Len(n.out)
    BY <1>1
  <2> QED
    BY <1>1, <1>5, <2>1 DEF Ends
<1>6. ASSUME Bare(n) => Bare(k), n.stopping = k.stopping, BareQuit(k, m, held)
      PROVE  BareQuit(n, m, held)
  <2>1. ASSUME NEW i \in 1 .. Len(k.out), Ends(k, i, m), \A j \in 1 .. i : k.out[j].type # "started"
        PROVE  i \in 1 .. Len(n.out) /\ Ends(n, i, m) /\ \A j \in 1 .. i : n.out[j].type # "started"
    <3>1. \A j \in 1 .. i : j \in 1 .. Len(k.out)
      BY <1>1
    <3> QED
      BY <1>1, <1>4, <2>1, <3>1
  <2> QED
    BY <1>6, <2>1 DEF BareQuit
<1> QED
  BY <1>2, <1>3, <1>4, <1>5, <1>6

\* A step that keeps the mailbox and the stop, and the start if it is asked for.
LEMMA KeptQuit ==
    ASSUME NEW k, NEW n, NEW m, NEW held, AskedQuit(k, m, held),
           NoStart(k) <=> NoStart(n), n.starting # "no" => k.starting # "no",
           OneStop(k, m, held) => OneStop(n, m, held)
    PROVE  AskedQuit(n, m, held) /\ (Asked(n) => Asked(k))
BY DEF AskedQuit, Asked

-----------------------------------------------------------------------------
(* What each operator of the worker keeps                                  *)

\* A start that fails.
LEMMA StartFailsLocal ==
    ASSUME NEW k \in Thread, NEW m, NEW held,
           Local(k), NoStart(k), k.life = "running"
    PROVE  /\ Local(StartFails(k))
           /\ LastInv(k) => LastInv(StartFails(k))
           /\ QuitOf(k, m, held) => QuitOf(StartFails(k), m, held)
<1> DEFINE n == StartFails(k)
<1>1. /\ Same(n, k, {"starting", "out"})
      /\ n.starting = "no"
      /\ Sends(n, k, "error", k.startId)
  BY Dom DEF n, StartFails, Reply, Sends, Answer, Same, Fields
<1> HIDE DEF n
<1>M. n.life = k.life /\ n.in = k.in /\ MailInv(k)
  BY <1>1 DEF Same, Fields, Local
<1>N. k.startId \in Calls \cup {None} /\ k.stopId \in Calls \cup {None}
  BY FieldTypes
<1>2. MailInv(n)
  BY <1>1, <1>M, <1>N, MailSent DEF MessageTypes
<1>3. StartInv(n)
  BY <1>1, MaxMovesAssumption DEF Same, Fields, Local, StartInv, StopInv, QueueInv
<1>4. StopInv(n)
  BY <1>1 DEF Same, Fields, Local, StartInv, StopInv, QueueInv
<1>5. QueueInv(n)
  BY <1>1 DEF Same, Fields, Local, StartInv, StopInv, QueueInv
<1>6. LastInv(k) => LastInv(n)
  BY <1>1 DEF Same, Fields, Local, StartInv, StopInv, QueueInv, LastInv
<1>7. ASSUME QuitOf(k, m, held) PROVE QuitOf(n, m, held)
  <2>1. AskedQuit(n, m, held) /\ EndedQuit(n, m, held)
    <3>1. n.in = k.in /\ n.starting = "no"
      BY <1>1 DEF Same, Fields, Local, StartInv, StopInv, QueueInv
    <3> QED
      BY <3>1 DEF AskedQuit, EndedQuit, Asked, NoStart
  <2>3. k.startId \in Calls \cup {None} /\ k.stopId \in Calls \cup {None}
    BY FieldTypes
  <2>4. n.in = k.in
    BY <1>1 DEF Same, Fields, Local, StartInv, StopInv, QueueInv
  <2>9. BareQuit(n, m, held)
    <3>1. (Bare(n) => Bare(k)) /\ n.stopping = k.stopping
      BY <1>1 DEF Same, Fields, Local, StartInv, StopInv, QueueInv, Bare
    <3>2. BareQuit(k, m, held)
      BY <1>7 DEF QuitOf
    <3> QED
      BY <1>1, <2>4, <3>1, <3>2, <2>3, SentQuit DEF MessageTypes
  <2> QED
    BY <2>1, <2>9 DEF QuitOf
<1> QED
  BY <1>2, <1>3, <1>4, <1>5, <1>6, <1>7 DEF Local, n

\* The route packs are loaded.
LEMMA LoadedLocal ==
    ASSUME NEW k \in Thread, NEW m, NEW held,
           Local(k), NoStart(k), k.life = "running",
           k.starting = "loading"
    PROVE  /\ Local([k EXCEPT !.starting = "restoring", !.store = "open"])
           /\ LastInv(k) => LastInv([k EXCEPT !.starting = "restoring", !.store = "open"])
           /\ QuitOf(k, m, held) => QuitOf([k EXCEPT !.starting = "restoring", !.store = "open"], m, held)
<1> DEFINE n == [k EXCEPT !.starting = "restoring", !.store = "open"]
<1>1. /\ Same(n, k, {"starting", "store"})
      /\ n.starting = "restoring" /\ n.store = "open"
  BY Dom DEF n, Same, Fields
<1> HIDE DEF n
<1>M. n.life = k.life /\ n.in = k.in /\ MailInv(k) /\ n.out = k.out
  BY <1>1 DEF Same, Fields, Local
<1>2. MailInv(n)
  BY <1>M, MailKept
<1>3. StartInv(n)
  BY <1>1, MaxMovesAssumption DEF Same, Fields, Local, StartInv, StopInv, QueueInv
<1>4. StopInv(n)
  BY <1>1 DEF Same, Fields, Local, StartInv, StopInv, QueueInv
<1>5. QueueInv(n)
  BY <1>1 DEF Same, Fields, Local, StartInv, StopInv, QueueInv
<1>6. LastInv(k) => LastInv(n)
  BY <1>1 DEF Same, Fields, Local, StartInv, StopInv, QueueInv, LastInv
<1>7. ASSUME QuitOf(k, m, held) PROVE QuitOf(n, m, held)
  <2>2. BareQuit(n, m, held)
    BY <1>1 DEF Same, Fields, Local, StartInv, StopInv, QueueInv, BareQuit, Bare
  <2>4. n.in = k.in /\ n.stopId = k.stopId /\ (n.starting # "no" => k.starting # "no") /\ n.out = k.out
    BY <1>1 DEF Same, Fields, Local, StartInv, StopInv, QueueInv
  <2>5. /\ NoStart(k) <=> NoStart(n)
        /\ OneStop(k, m, held) => OneStop(n, m, held)
        /\ \A i \in 1 .. Len(k.out) : Ends(k, i, m) => i \in 1 .. Len(n.out) /\ Ends(n, i, m)
    BY <1>1, <2>4, SilentQuit
  <2>6. AskedQuit(k, m, held)
    BY <1>7 DEF QuitOf
  <2>7. AskedQuit(n, m, held) /\ (Asked(n) => Asked(k))
    BY <2>4, <2>5, <2>6, KeptQuit
  <2>8. EndedQuit(n, m, held)
    <3>1. n.stopId = k.stopId /\ n.stopping = k.stopping
      BY <1>1 DEF Same, Fields, Local, StartInv, StopInv, QueueInv
    <3> QED
      BY <1>7, <2>5, <2>7, <3>1 DEF QuitOf, EndedQuit
  <2> QED
    BY <2>7, <2>8, <2>2 DEF QuitOf
<1> QED
  BY <1>2, <1>3, <1>4, <1>5, <1>6, <1>7 DEF Local, n

\* The fleet could not be placed.
LEMMA CreatedLocal ==
    ASSUME NEW k \in Thread, NEW m, NEW held,
           Local(k), NoStart(k), k.life = "running",
           k.starting = "restoring"
    PROVE  /\ Local(StartFails([k EXCEPT !.farm = "created"]))
           /\ LastInv(k) => LastInv(StartFails([k EXCEPT !.farm = "created"]))
           /\ QuitOf(k, m, held) => QuitOf(StartFails([k EXCEPT !.farm = "created"]), m, held)
<1> DEFINE n == StartFails([k EXCEPT !.farm = "created"])
<1>1. /\ Same(n, k, {"starting", "farm", "out"})
      /\ n.starting = "no" /\ n.farm = "created"
      /\ Sends(n, k, "error", k.startId)
  BY Dom DEF n, StartFails, Reply, Sends, Answer, Same, Fields
<1> HIDE DEF n
<1>M. n.life = k.life /\ n.in = k.in /\ MailInv(k)
  BY <1>1 DEF Same, Fields, Local
<1>N. k.startId \in Calls \cup {None} /\ k.stopId \in Calls \cup {None}
  BY FieldTypes
<1>2. MailInv(n)
  BY <1>1, <1>M, <1>N, MailSent DEF MessageTypes
<1>3. StartInv(n)
  BY <1>1, MaxMovesAssumption DEF Same, Fields, Local, StartInv, StopInv, QueueInv
<1>4. StopInv(n)
  BY <1>1 DEF Same, Fields, Local, StartInv, StopInv, QueueInv
<1>5. QueueInv(n)
  BY <1>1 DEF Same, Fields, Local, StartInv, StopInv, QueueInv
<1>6. LastInv(k) => LastInv(n)
  BY <1>1 DEF Same, Fields, Local, StartInv, StopInv, QueueInv, LastInv
<1>7. ASSUME QuitOf(k, m, held) PROVE QuitOf(n, m, held)
  <2>1. AskedQuit(n, m, held) /\ EndedQuit(n, m, held)
    <3>1. n.in = k.in /\ n.starting = "no"
      BY <1>1 DEF Same, Fields, Local, StartInv, StopInv, QueueInv
    <3> QED
      BY <3>1 DEF AskedQuit, EndedQuit, Asked, NoStart
  <2>2. BareQuit(n, m, held)
    BY <1>1 DEF Same, Fields, Local, StartInv, StopInv, QueueInv, BareQuit, Bare
  <2> QED
    BY <2>1, <2>2 DEF QuitOf
<1> QED
  BY <1>2, <1>3, <1>4, <1>5, <1>6, <1>7 DEF Local, n

\* The fleet is placed, but the store is being closed.
LEMMA DeferredLocal ==
    ASSUME NEW k \in Thread, NEW m, NEW held,
           Local(k), NoStart(k), k.life = "running",
           k.starting = "restoring"
    PROVE  /\ Local(StartFails([k EXCEPT !.farm = "deferred"]))
           /\ LastInv(k) => LastInv(StartFails([k EXCEPT !.farm = "deferred"]))
           /\ QuitOf(k, m, held) => QuitOf(StartFails([k EXCEPT !.farm = "deferred"]), m, held)
<1> DEFINE n == StartFails([k EXCEPT !.farm = "deferred"])
<1>1. /\ Same(n, k, {"starting", "farm", "out"})
      /\ n.starting = "no" /\ n.farm = "deferred"
      /\ Sends(n, k, "error", k.startId)
  BY Dom DEF n, StartFails, Reply, Sends, Answer, Same, Fields
<1> HIDE DEF n
<1>M. n.life = k.life /\ n.in = k.in /\ MailInv(k)
  BY <1>1 DEF Same, Fields, Local
<1>N. k.startId \in Calls \cup {None} /\ k.stopId \in Calls \cup {None}
  BY FieldTypes
<1>2. MailInv(n)
  BY <1>1, <1>M, <1>N, MailSent DEF MessageTypes
<1>3. StartInv(n)
  BY <1>1, MaxMovesAssumption DEF Same, Fields, Local, StartInv, StopInv, QueueInv
<1>4. StopInv(n)
  BY <1>1 DEF Same, Fields, Local, StartInv, StopInv, QueueInv
<1>5. QueueInv(n)
  BY <1>1 DEF Same, Fields, Local, StartInv, StopInv, QueueInv
<1>6. LastInv(k) => LastInv(n)
  BY <1>1 DEF Same, Fields, Local, StartInv, StopInv, QueueInv, LastInv
<1>7. ASSUME QuitOf(k, m, held) PROVE QuitOf(n, m, held)
  <2>1. AskedQuit(n, m, held) /\ EndedQuit(n, m, held)
    <3>1. n.in = k.in /\ n.starting = "no"
      BY <1>1 DEF Same, Fields, Local, StartInv, StopInv, QueueInv
    <3> QED
      BY <3>1 DEF AskedQuit, EndedQuit, Asked, NoStart
  <2>2. BareQuit(n, m, held)
    BY <1>1 DEF Same, Fields, Local, StartInv, StopInv, QueueInv, BareQuit, Bare
  <2> QED
    BY <2>1, <2>2 DEF QuitOf
<1> QED
  BY <1>2, <1>3, <1>4, <1>5, <1>6, <1>7 DEF Local, n

\* The fleet is placed, and a stop has closed the store.
LEMMA BareStartLocal ==
    ASSUME NEW k \in Thread, NEW m, NEW held,
           Local(k), NoStart(k), k.life = "running",
           k.starting = "restoring" /\ k.store = "none"
    PROVE  /\ Local(StartDone(k))
           /\ LastInv(k) => LastInv(StartDone(k))
           /\ QuitOf(k, m, held) => QuitOf(StartDone(k), m, held)
<1> DEFINE n == StartDone(k)
<1>1. /\ Same(n, k, {"starting", "farm", "out"})
      /\ n.starting = "no" /\ n.farm = "active"
      /\ Sends(n, k, "started", k.startId)
  BY Dom DEF n, StartDone, Reply, Sends, Answer, Same, Fields
<1> HIDE DEF n
<1>M. n.life = k.life /\ n.in = k.in /\ MailInv(k)
  BY <1>1 DEF Same, Fields, Local
<1>N. k.startId \in Calls \cup {None} /\ k.stopId \in Calls \cup {None}
  BY FieldTypes
<1>2. MailInv(n)
  BY <1>1, <1>M, <1>N, MailSent DEF MessageTypes
<1>3. StartInv(n)
  BY <1>1, MaxMovesAssumption DEF Same, Fields, Local, StartInv, StopInv, QueueInv
<1>4. StopInv(n)
  BY <1>1 DEF Same, Fields, Local, StartInv, StopInv, QueueInv
<1>5. QueueInv(n)
  BY <1>1 DEF Same, Fields, Local, StartInv, StopInv, QueueInv
<1>6. LastInv(k) => LastInv(n)
  BY <1>1 DEF Same, Fields, Local, StartInv, StopInv, QueueInv, LastInv
<1>7. ASSUME QuitOf(k, m, held) PROVE QuitOf(n, m, held)
  <2>1. AskedQuit(n, m, held) /\ EndedQuit(n, m, held)
    <3>1. n.in = k.in /\ n.starting = "no"
      BY <1>1 DEF Same, Fields, Local, StartInv, StopInv, QueueInv
    <3> QED
      BY <3>1 DEF AskedQuit, EndedQuit, Asked, NoStart
  <2>2. k.startId \in Calls \cup {None} /\ k.stopping \in {"no", "farm", "inFlight", "saving", "closing"}
    BY FieldTypes
  <2>3. /\ Len(k.out) \in Nat
        /\ \A i \in 1 .. Len(k.out) : i \in 1 .. Len(n.out) /\ n.out[i] = k.out[i]
    BY <1>1, <2>2, SentIs DEF MessageTypes
  <2>4. n.in = k.in /\ n.stopping = "no" /\ k.stopping = "no" /\ k.stopId # None
    BY <1>1, <2>2 DEF Same, Fields, Local, StartInv, StopInv
  <2>5. OneStop(k, m, held)
    BY <1>7 DEF QuitOf, AskedQuit, Asked
  <2>6. m.quitting /\ (held => ~m.shown) /\ \A i \in 1 .. Len(n.in) : n.in[i].type # "stop"
    BY <2>4, <2>5 DEF OneStop
  <2>7. ASSUME held
        PROVE  \E i \in 1 .. Len(n.out) :
                  Ends(n, i, m) /\ \A j \in 1 .. i : n.out[j].type # "started"
    <3>1. PICK i \in 1 .. Len(k.out) : Ends(k, i, m)
      BY <1>7, <2>4, <2>7 DEF QuitOf, EndedQuit, Asked
    <3>2. \A j \in 1 .. i : j \in 1 .. Len(k.out)
      BY <2>3
    <3> QED
      BY <2>3, <2>5, <3>1, <3>2 DEF OneStop, Ends
  <2>9. BareQuit(n, m, held)
    BY <2>4, <2>6, <2>7 DEF BareQuit
  <2> QED
    BY <2>1, <2>9 DEF QuitOf
<1> QED
  BY <1>2, <1>3, <1>4, <1>5, <1>6, <1>7 DEF Local, n

\* The fleet is placed, and its first checkpoint is queued.
LEMMA FirstSaveLocal ==
    ASSUME NEW k \in Thread, NEW m, NEW held,
           Local(k), NoStart(k), k.life = "running",
           k.starting = "restoring" /\ k.store = "open"
    PROVE  /\ Local([Save(k, "start") EXCEPT !.starting = "saving", !.farm = "deferred"])
           /\ LastInv(k) => LastInv([Save(k, "start") EXCEPT !.starting = "saving", !.farm = "deferred"])
           /\ QuitOf(k, m, held) => QuitOf([Save(k, "start") EXCEPT !.starting = "saving", !.farm = "deferred"], m, held)
<1> DEFINE n == [Save(k, "start") EXCEPT !.starting = "saving", !.farm = "deferred"]
<1>1. /\ Same(n, k, {"starting", "farm", "queue"})
      /\ n.starting = "saving" /\ n.farm = "deferred"
      /\ n.queue = Append(k.queue, [by |-> "start", position |-> k.position])
  BY Dom DEF n, Save, Same, Fields
<1> HIDE DEF n
<1>M. n.life = k.life /\ n.in = k.in /\ MailInv(k) /\ n.out = k.out
  BY <1>1 DEF Same, Fields, Local
<1>2. MailInv(n)
  BY <1>M, MailKept
<1>3. StartInv(n)
  BY <1>1, MaxMovesAssumption DEF Same, Fields, Local, StartInv, StopInv, QueueInv
<1>4. StopInv(n)
  BY <1>1 DEF Same, Fields, Local, StartInv, StopInv, QueueInv
<1>5. QueueInv(n)
  <2>1. k.queue = <<>>
    BY DEF Local, StartInv, QueueInv
  <2>2. /\ Len(n.queue) = Len(k.queue) + 1 /\ Len(k.queue) = 0
        /\ n.queue[Len(k.queue) + 1].by = "start"
    BY <1>1, <2>1, QueueAppend, EmptySeq
  <2> QED
    BY <1>1, <2>2 DEF Same, Fields, Local, StartInv, StopInv, QueueInv
<1>6. LastInv(k) => LastInv(n)
  BY <1>1 DEF Same, Fields, Local, StartInv, StopInv, QueueInv, LastInv
<1>7. ASSUME QuitOf(k, m, held) PROVE QuitOf(n, m, held)
  <2>2. BareQuit(n, m, held)
    BY <1>1 DEF Same, Fields, Local, StartInv, StopInv, QueueInv, BareQuit, Bare
  <2>4. n.in = k.in /\ n.stopId = k.stopId /\ (n.starting # "no" => k.starting # "no") /\ n.out = k.out
    BY <1>1 DEF Same, Fields, Local, StartInv, StopInv, QueueInv
  <2>5. /\ NoStart(k) <=> NoStart(n)
        /\ OneStop(k, m, held) => OneStop(n, m, held)
        /\ \A i \in 1 .. Len(k.out) : Ends(k, i, m) => i \in 1 .. Len(n.out) /\ Ends(n, i, m)
    BY <1>1, <2>4, SilentQuit
  <2>6. AskedQuit(k, m, held)
    BY <1>7 DEF QuitOf
  <2>7. AskedQuit(n, m, held) /\ (Asked(n) => Asked(k))
    BY <2>4, <2>5, <2>6, KeptQuit
  <2>8. EndedQuit(n, m, held)
    <3>1. n.stopId = k.stopId /\ n.stopping = k.stopping
      BY <1>1 DEF Same, Fields, Local, StartInv, StopInv, QueueInv
    <3> QED
      BY <1>7, <2>5, <2>7, <3>1 DEF QuitOf, EndedQuit
  <2> QED
    BY <2>7, <2>8, <2>2 DEF QuitOf
<1> QED
  BY <1>2, <1>3, <1>4, <1>5, <1>6, <1>7 DEF Local, n

\* A stop queues the last checkpoint.
LEMMA StopSavingLocal ==
    ASSUME NEW k \in Thread, NEW m, NEW held,
           Local(k), NoStart(k), k.life = "running", ~k.timer, ~k.inFlight, k.stopId # None,
           k.stopping \in {"farm", "inFlight"} \/ (k.stopping = "no" /\ k.farm = "none"),
           k.farm # "none" /\ k.store # "none"
    PROVE  /\ Local([Save(k, "stop") EXCEPT !.stopping = "saving"])
           /\ LastInv(k) => LastInv([Save(k, "stop") EXCEPT !.stopping = "saving"])
           /\ AskedQuit(k, m, held) => QuitOf([Save(k, "stop") EXCEPT !.stopping = "saving"], m, held)
<1> DEFINE n == [Save(k, "stop") EXCEPT !.stopping = "saving"]
<1>1. /\ Same(n, k, {"stopping", "queue"})
      /\ n.stopping = "saving"
      /\ n.queue = Append(k.queue, [by |-> "stop", position |-> k.position])
  BY Dom DEF n, Save, Same, Fields
<1> HIDE DEF n
<1>M. n.life = k.life /\ n.in = k.in /\ MailInv(k) /\ n.out = k.out
  BY <1>1 DEF Same, Fields, Local
<1>2. MailInv(n)
  BY <1>M, MailKept
<1>3. StartInv(n)
  BY <1>1, MaxMovesAssumption DEF Same, Fields, Local, StartInv, StopInv, QueueInv
<1>4. StopInv(n)
  BY <1>1 DEF Same, Fields, Local, StartInv, StopInv, QueueInv
<1>5. QueueInv(n)
  <2>1. /\ Len(n.queue) = Len(k.queue) + 1 /\ Len(k.queue) \in Nat
        /\ \A i \in 1 .. Len(k.queue) : n.queue[i] = k.queue[i]
        /\ n.queue[Len(k.queue) + 1].by = "stop"
        /\ n.queue[Len(k.queue) + 1].position = k.position
    BY <1>1, QueueAppend
  <2>2. \A i \in 1 .. Len(k.queue) : k.queue[i].by \notin {"stop", "timer"}
    BY DEF Local, QueueInv, StopInv
  <2> QED
    BY <1>1, <2>1, <2>2 DEF Same, Fields, Local, StartInv, StopInv, QueueInv
<1>6. LastInv(k) => LastInv(n)
  BY <1>1 DEF Same, Fields, Local, StartInv, StopInv, QueueInv, LastInv
<1>7. ASSUME AskedQuit(k, m, held) PROVE QuitOf(n, m, held)
  <2>2. BareQuit(n, m, held)
    BY <1>1 DEF Same, Fields, Local, StartInv, StopInv, QueueInv, BareQuit, Bare
  <2>4. n.in = k.in /\ n.stopId = k.stopId /\ (n.starting # "no" => k.starting # "no") /\ n.out = k.out
    BY <1>1 DEF Same, Fields, Local, StartInv, StopInv, QueueInv
  <2>5. /\ NoStart(k) <=> NoStart(n)
        /\ OneStop(k, m, held) => OneStop(n, m, held)
        /\ \A i \in 1 .. Len(k.out) : Ends(k, i, m) => i \in 1 .. Len(n.out) /\ Ends(n, i, m)
    BY <1>1, <2>4, SilentQuit
  <2>6. AskedQuit(k, m, held)
    BY <1>7 DEF QuitOf
  <2>7. AskedQuit(n, m, held) /\ (Asked(n) => Asked(k))
    BY <2>4, <2>5, <2>6, KeptQuit
  <2>8. EndedQuit(n, m, held)
    BY <1>1 DEF EndedQuit
  <2> QED
    BY <2>7, <2>8, <2>2 DEF QuitOf
<1> QED
  BY <1>2, <1>3, <1>4, <1>5, <1>6, <1>7 DEF Local, n

\* A stop lets the farm go and closes the store.
LEMMA StopClosingLocal ==
    ASSUME NEW k \in Thread, NEW m, NEW held,
           Local(k), NoStart(k), k.life = "running", ~k.timer, ~k.inFlight, k.stopId # None,
           k.store # "none" /\ k.farm = "none"
    PROVE  /\ Local(StopClose([k EXCEPT !.farm = "none"]))
           /\ LastInv(k) => LastInv(StopClose([k EXCEPT !.farm = "none"]))
           /\ AskedQuit(k, m, held) => QuitOf(StopClose([k EXCEPT !.farm = "none"]), m, held)
<1> DEFINE n == StopClose([k EXCEPT !.farm = "none"])
<1>1. /\ Same(n, k, {"farm", "stopping", "store"})
      /\ n.stopping = "closing" /\ n.store = "closing" /\ n.farm = "none"
  BY Dom DEF n, StopClose, Same, Fields
<1> HIDE DEF n
<1>M. n.life = k.life /\ n.in = k.in /\ MailInv(k) /\ n.out = k.out
  BY <1>1 DEF Same, Fields, Local
<1>2. MailInv(n)
  BY <1>M, MailKept
<1>3. StartInv(n)
  BY <1>1, MaxMovesAssumption DEF Same, Fields, Local, StartInv, StopInv, QueueInv
<1>4. StopInv(n)
  BY <1>1 DEF Same, Fields, Local, StartInv, StopInv, QueueInv
<1>5. QueueInv(n)
  BY <1>1 DEF Same, Fields, Local, StartInv, StopInv, QueueInv
<1>6. LastInv(k) => LastInv(n)
  BY <1>1 DEF Same, Fields, Local, StartInv, StopInv, QueueInv, LastInv
<1>7. ASSUME AskedQuit(k, m, held) PROVE QuitOf(n, m, held)
  <2>2. BareQuit(n, m, held)
    BY <1>1 DEF Same, Fields, Local, StartInv, StopInv, QueueInv, BareQuit, Bare
  <2>4. n.in = k.in /\ n.stopId = k.stopId /\ (n.starting # "no" => k.starting # "no") /\ n.out = k.out
    BY <1>1 DEF Same, Fields, Local, StartInv, StopInv, QueueInv
  <2>5. /\ NoStart(k) <=> NoStart(n)
        /\ OneStop(k, m, held) => OneStop(n, m, held)
        /\ \A i \in 1 .. Len(k.out) : Ends(k, i, m) => i \in 1 .. Len(n.out) /\ Ends(n, i, m)
    BY <1>1, <2>4, SilentQuit
  <2>6. AskedQuit(k, m, held)
    BY <1>7 DEF QuitOf
  <2>7. AskedQuit(n, m, held) /\ (Asked(n) => Asked(k))
    BY <2>4, <2>5, <2>6, KeptQuit
  <2>8. EndedQuit(n, m, held)
    BY <1>1 DEF EndedQuit
  <2> QED
    BY <2>7, <2>8, <2>2 DEF QuitOf
<1> QED
  BY <1>2, <1>3, <1>4, <1>5, <1>6, <1>7 DEF Local, n

\* A stop lets the farm go, and there is no store.
LEMMA StopEndsLocal ==
    ASSUME NEW k \in Thread, NEW m, NEW held,
           Local(k), NoStart(k), k.life = "running", ~k.timer, ~k.inFlight, k.stopId # None,
           k.store = "none" /\ k.farm # "active"
    PROVE  /\ Local(StopClose([k EXCEPT !.farm = "none"]))
           /\ LastInv(k) => LastInv(StopClose([k EXCEPT !.farm = "none"]))
           /\ AskedQuit(k, m, held) => QuitOf(StopClose([k EXCEPT !.farm = "none"]), m, held)
<1> DEFINE n == StopClose([k EXCEPT !.farm = "none"])
<1>1. /\ Same(n, k, {"farm", "stopping", "store", "out"})
      /\ n.stopping = "no" /\ n.store = "none" /\ n.farm = "none"
      /\ Sends(n, k, "stopped", k.stopId)
  BY Dom DEF n, StopClose, StopDone, Reply, Sends, Answer, Same, Fields
<1> HIDE DEF n
<1>T. k.farm \in {"none", "created", "deferred", "active", "stopped"}
  BY FieldTypes
<1>M. n.life = k.life /\ n.in = k.in /\ MailInv(k)
  BY <1>1 DEF Same, Fields, Local
<1>N. k.startId \in Calls \cup {None} /\ k.stopId \in Calls \cup {None}
  BY FieldTypes
<1>2. MailInv(n)
  BY <1>1, <1>M, <1>N, MailSent DEF MessageTypes
<1>3. StartInv(n)
  BY <1>1, <1>T, MaxMovesAssumption DEF Same, Fields, Local, StartInv, StopInv, QueueInv
<1>4. StopInv(n)
  BY <1>1, <1>T DEF Same, Fields, Local, StartInv, StopInv, QueueInv
<1>5. QueueInv(n)
  BY <1>1, <1>T DEF Same, Fields, Local, StartInv, StopInv, QueueInv
<1>6. LastInv(k) => LastInv(n)
  BY <1>1, <1>T DEF Same, Fields, Local, StartInv, StopInv, QueueInv, LastInv
<1>7. ASSUME AskedQuit(k, m, held) PROVE QuitOf(n, m, held)
  <2>2. BareQuit(n, m, held)
    BY <1>1, <1>T DEF Same, Fields, Local, StartInv, StopInv, QueueInv, BareQuit, Bare
  <2>3. k.startId \in Calls \cup {None} /\ k.stopId \in Calls \cup {None}
    BY FieldTypes
  <2>4. n.in = k.in /\ n.stopId = k.stopId /\ (n.starting # "no" => k.starting # "no")
    BY <1>1, <1>T DEF Same, Fields, Local, StartInv, StopInv, QueueInv
  <2>5. /\ NoStart(k) <=> NoStart(n)
        /\ OneStop(k, m, held) => OneStop(n, m, held)
        /\ \A i \in 1 .. Len(k.out) : Ends(k, i, m) => i \in 1 .. Len(n.out) /\ Ends(n, i, m)
        /\ k.stopId \in m.pending => \E i \in 1 .. Len(n.out) : Ends(n, i, m)
    BY <1>1, <2>4, <2>3, SentQuit DEF MessageTypes
  <2>6. AskedQuit(k, m, held)
    BY <1>7 DEF QuitOf
  <2>7. AskedQuit(n, m, held) /\ (Asked(n) => Asked(k))
    BY <2>4, <2>5, <2>6, KeptQuit
  <2>8. EndedQuit(n, m, held)
    BY <2>4, <2>5, <2>6, <2>7 DEF EndedQuit, AskedQuit, OneStop
  <2> QED
    BY <2>7, <2>8, <2>2 DEF QuitOf
<1> QED
  BY <1>2, <1>3, <1>4, <1>5, <1>6, <1>7 DEF Local, n

\* The store is closed, and the stop is answered.
LEMMA StopDoneLocal ==
    ASSUME NEW k \in Thread, NEW m, NEW held,
           Local(k), NoStart(k), k.life = "running",
           k.stopping = "closing" /\ k.queue = <<>>
    PROVE  /\ Local(StopDone(k))
           /\ LastInv(k) => LastInv(StopDone(k))
           /\ AskedQuit(k, m, held) => QuitOf(StopDone(k), m, held)
<1> DEFINE n == StopDone(k)
<1>1. /\ Same(n, k, {"stopping", "store", "out"})
      /\ n.stopping = "no" /\ n.store = "none"
      /\ Sends(n, k, "stopped", k.stopId)
  BY Dom DEF n, StopDone, Reply, Sends, Answer, Same, Fields
<1> HIDE DEF n
<1>M. n.life = k.life /\ n.in = k.in /\ MailInv(k)
  BY <1>1 DEF Same, Fields, Local
<1>N. k.startId \in Calls \cup {None} /\ k.stopId \in Calls \cup {None}
  BY FieldTypes
<1>2. MailInv(n)
  BY <1>1, <1>M, <1>N, MailSent DEF MessageTypes
<1>3. StartInv(n)
  BY <1>1, MaxMovesAssumption DEF Same, Fields, Local, StartInv, StopInv, QueueInv
<1>4. StopInv(n)
  BY <1>1 DEF Same, Fields, Local, StartInv, StopInv, QueueInv
<1>5. QueueInv(n)
  BY <1>1 DEF Same, Fields, Local, StartInv, StopInv, QueueInv
<1>6. LastInv(k) => LastInv(n)
  BY <1>1 DEF Same, Fields, Local, StartInv, StopInv, QueueInv, LastInv
<1>7. ASSUME AskedQuit(k, m, held) PROVE QuitOf(n, m, held)
  <2>2. BareQuit(n, m, held)
    BY <1>1 DEF Same, Fields, Local, StartInv, StopInv, QueueInv, BareQuit, Bare
  <2>3. k.startId \in Calls \cup {None} /\ k.stopId \in Calls \cup {None}
    BY FieldTypes
  <2>4. n.in = k.in /\ n.stopId = k.stopId /\ (n.starting # "no" => k.starting # "no")
    BY <1>1 DEF Same, Fields, Local, StartInv, StopInv, QueueInv
  <2>5. /\ NoStart(k) <=> NoStart(n)
        /\ OneStop(k, m, held) => OneStop(n, m, held)
        /\ \A i \in 1 .. Len(k.out) : Ends(k, i, m) => i \in 1 .. Len(n.out) /\ Ends(n, i, m)
        /\ k.stopId \in m.pending => \E i \in 1 .. Len(n.out) : Ends(n, i, m)
    BY <1>1, <2>4, <2>3, SentQuit DEF MessageTypes
  <2>6. AskedQuit(k, m, held)
    BY <1>7 DEF QuitOf
  <2>7. AskedQuit(n, m, held) /\ (Asked(n) => Asked(k))
    BY <2>4, <2>5, <2>6, KeptQuit
  <2>8. EndedQuit(n, m, held)
    BY <2>4, <2>5, <2>6, <2>7 DEF EndedQuit, AskedQuit, OneStop
  <2> QED
    BY <2>7, <2>8, <2>2 DEF QuitOf
<1> QED
  BY <1>2, <1>3, <1>4, <1>5, <1>6, <1>7 DEF Local, n

\* A stop whose farm transmits no more and whose timer job is settled goes on.
LEMMA StopSaveLocal ==
    ASSUME NEW k \in Thread,
           Local(k), NoStart(k), k.life = "running", ~k.timer, ~k.inFlight, k.stopId # None,
           k.stopping \in {"farm", "inFlight"} \/ (k.stopping = "no" /\ k.farm = "none"),
           NEW m, NEW held
    PROVE  /\ Local(StopSave(k))
           /\ LastInv(k) => LastInv(StopSave(k))
           /\ AskedQuit(k, m, held) => QuitOf(StopSave(k), m, held)
<1>1. CASE k.farm # "none" /\ k.store # "none"
  BY <1>1, StopSavingLocal DEF StopSave
<1>2. CASE k.farm = "none" /\ k.store # "none"
  BY <1>2, StopClosingLocal DEF StopSave
<1>3. CASE k.store = "none"
  <2>1. k.farm # "active"
    BY DEF Local, StopInv
  <2> QED
    BY <1>3, <2>1, StopEndsLocal DEF StopSave
<1> QED
  BY <1>1, <1>2, <1>3

\* A stop waits for the timer's checkpoint.
LEMMA StopWaitsLocal ==
    ASSUME NEW k \in Thread, NEW m, NEW held,
           Local(k), NoStart(k), k.life = "running",
           k.stopping = "farm" /\ k.inFlight
    PROVE  /\ Local([k EXCEPT !.stopping = "inFlight"])
           /\ LastInv(k) => LastInv([k EXCEPT !.stopping = "inFlight"])
           /\ AskedQuit(k, m, held) => QuitOf([k EXCEPT !.stopping = "inFlight"], m, held)
<1> DEFINE n == [k EXCEPT !.stopping = "inFlight"]
<1>1. /\ Same(n, k, {"stopping"})
      /\ n.stopping = "inFlight"
  BY Dom DEF n, Same, Fields
<1> HIDE DEF n
<1>M. n.life = k.life /\ n.in = k.in /\ MailInv(k) /\ n.out = k.out
  BY <1>1 DEF Same, Fields, Local
<1>2. MailInv(n)
  BY <1>M, MailKept
<1>3. StartInv(n)
  BY <1>1, MaxMovesAssumption DEF Same, Fields, Local, StartInv, StopInv, QueueInv
<1>4. StopInv(n)
  BY <1>1 DEF Same, Fields, Local, StartInv, StopInv, QueueInv
<1>5. QueueInv(n)
  BY <1>1 DEF Same, Fields, Local, StartInv, StopInv, QueueInv
<1>6. LastInv(k) => LastInv(n)
  BY <1>1 DEF Same, Fields, Local, StartInv, StopInv, QueueInv, LastInv
<1>7. ASSUME AskedQuit(k, m, held) PROVE QuitOf(n, m, held)
  <2>2. BareQuit(n, m, held)
    BY <1>1 DEF Same, Fields, Local, StartInv, StopInv, QueueInv, BareQuit, Bare
  <2>4. n.in = k.in /\ n.stopId = k.stopId /\ (n.starting # "no" => k.starting # "no") /\ n.out = k.out
    BY <1>1 DEF Same, Fields, Local, StartInv, StopInv, QueueInv
  <2>5. /\ NoStart(k) <=> NoStart(n)
        /\ OneStop(k, m, held) => OneStop(n, m, held)
        /\ \A i \in 1 .. Len(k.out) : Ends(k, i, m) => i \in 1 .. Len(n.out) /\ Ends(n, i, m)
    BY <1>1, <2>4, SilentQuit
  <2>6. AskedQuit(k, m, held)
    BY <1>7 DEF QuitOf
  <2>7. AskedQuit(n, m, held) /\ (Asked(n) => Asked(k))
    BY <2>4, <2>5, <2>6, KeptQuit
  <2>8. EndedQuit(n, m, held)
    BY <1>1 DEF EndedQuit
  <2> QED
    BY <2>7, <2>8, <2>2 DEF QuitOf
<1> QED
  BY <1>2, <1>3, <1>4, <1>5, <1>6, <1>7 DEF Local, n

\* The last checkpoint is not written, and the stop fails.
LEMMA SaveFailsLocal ==
    ASSUME NEW k \in Thread, NEW m, NEW held,
           Local(k), NoStart(k), k.life = "running",
           k.queue # <<>> /\ k.queue[1].by = "stop"
    PROVE  /\ Local(Reply([[k EXCEPT !.queue = Tail(k.queue)] EXCEPT !.stopping = "no"], "error", k.stopId))
           /\ LastInv(k) => LastInv(Reply([[k EXCEPT !.queue = Tail(k.queue)] EXCEPT !.stopping = "no"], "error", k.stopId))
           /\ AskedQuit(k, m, held) => QuitOf(Reply([[k EXCEPT !.queue = Tail(k.queue)] EXCEPT !.stopping = "no"], "error", k.stopId), m, held)
<1> DEFINE n == Reply([[k EXCEPT !.queue = Tail(k.queue)] EXCEPT !.stopping = "no"], "error", k.stopId)
<1>1. /\ Same(n, k, {"queue", "stopping", "out"})
      /\ n.stopping = "no" /\ n.queue = Tail(k.queue)
      /\ Sends(n, k, "error", k.stopId)
  BY Dom DEF n, Reply, Sends, Answer, Same, Fields
<1> HIDE DEF n
<1>T. n.queue = <<>>
  BY <1>1, QueueTail DEF Local
<1>M. n.life = k.life /\ n.in = k.in /\ MailInv(k)
  BY <1>1 DEF Same, Fields, Local
<1>N. k.startId \in Calls \cup {None} /\ k.stopId \in Calls \cup {None}
  BY FieldTypes
<1>2. MailInv(n)
  BY <1>1, <1>M, <1>N, MailSent DEF MessageTypes
<1>3. StartInv(n)
  BY <1>1, <1>T, MaxMovesAssumption DEF Same, Fields, Local, StartInv, StopInv, QueueInv
<1>4. StopInv(n)
  BY <1>1, <1>T DEF Same, Fields, Local, StartInv, StopInv, QueueInv
<1>5. QueueInv(n)
  BY <1>1, <1>T DEF Same, Fields, Local, StartInv, StopInv, QueueInv
<1>6. LastInv(k) => LastInv(n)
  BY <1>1, <1>T DEF Same, Fields, Local, StartInv, StopInv, QueueInv, LastInv
<1>7. ASSUME AskedQuit(k, m, held) PROVE QuitOf(n, m, held)
  <2>2. BareQuit(n, m, held)
    BY <1>1, <1>T DEF Same, Fields, Local, StartInv, StopInv, QueueInv, BareQuit, Bare
  <2>3. k.startId \in Calls \cup {None} /\ k.stopId \in Calls \cup {None}
    BY FieldTypes
  <2>4. n.in = k.in /\ n.stopId = k.stopId /\ (n.starting # "no" => k.starting # "no")
    BY <1>1, <1>T DEF Same, Fields, Local, StartInv, StopInv, QueueInv
  <2>5. /\ NoStart(k) <=> NoStart(n)
        /\ OneStop(k, m, held) => OneStop(n, m, held)
        /\ \A i \in 1 .. Len(k.out) : Ends(k, i, m) => i \in 1 .. Len(n.out) /\ Ends(n, i, m)
        /\ k.stopId \in m.pending => \E i \in 1 .. Len(n.out) : Ends(n, i, m)
    BY <1>1, <2>4, <2>3, SentQuit DEF MessageTypes
  <2>6. AskedQuit(k, m, held)
    BY <1>7 DEF QuitOf
  <2>7. AskedQuit(n, m, held) /\ (Asked(n) => Asked(k))
    BY <2>4, <2>5, <2>6, KeptQuit
  <2>8. EndedQuit(n, m, held)
    BY <2>4, <2>5, <2>6, <2>7 DEF EndedQuit, AskedQuit, OneStop
  <2> QED
    BY <2>7, <2>8, <2>2 DEF QuitOf
<1> QED
  BY <1>2, <1>3, <1>4, <1>5, <1>6, <1>7 DEF Local, n

\* The checkpoint at the head of the queue is settled, and no handler goes on yet.
LEMMA SettledLocal ==
    ASSUME NEW k \in Thread, NEW m, NEW held,
           NEW v \in -1 .. MaxMoves, v = k.durable \/ v >= 0,
           Local(k), NoStart(k), k.life = "running",
           k.queue # <<>> /\ k.queue[1].by # "stop"
    PROVE  /\ Local([k EXCEPT !.queue = Tail(k.queue), !.durable = v])
           /\ LastInv(k) => LastInv([k EXCEPT !.queue = Tail(k.queue), !.durable = v])
           /\ QuitOf(k, m, held) => QuitOf([k EXCEPT !.queue = Tail(k.queue), !.durable = v], m, held)
<1> DEFINE n == [k EXCEPT !.queue = Tail(k.queue), !.durable = v]
<1>1. /\ Same(n, k, {"queue", "durable"})
      /\ n.queue = Tail(k.queue) /\ n.durable = v
  BY Dom DEF n, Same, Fields
<1> HIDE DEF n
<1>T. /\ \A i \in 1 .. Len(n.queue) :
            n.queue[i].by = "stop" =>
                i = Len(n.queue) /\ n.queue[i].position = k.position /\ k.stopping = "saving"
      /\ \A i \in 1 .. Len(n.queue) : n.queue[i].by = "timer" => k.inFlight
      /\ \A i, j \in 1 .. Len(n.queue) :
            n.queue[i].by = "timer" /\ n.queue[j].by = "timer" => i = j
  BY <1>1, QueueTail DEF Local
<1>F. /\ k.farm # "none" /\ k.store # "none" /\ k.stopping # "closing"
      /\ k.stopping \in {"no", "farm", "inFlight", "saving", "closing"}
  BY FieldTypes DEF Local, QueueInv
<1>M. n.life = k.life /\ n.in = k.in /\ MailInv(k) /\ n.out = k.out
  BY <1>1 DEF Same, Fields, Local
<1>2. MailInv(n)
  BY <1>M, MailKept
<1>3. StartInv(n)
  BY <1>1, <1>T, <1>F, MaxMovesAssumption DEF Same, Fields, Local, StartInv, StopInv, QueueInv
<1>4. StopInv(n)
  BY <1>1, <1>T, <1>F DEF Same, Fields, Local, StartInv, StopInv, QueueInv
<1>5. QueueInv(n)
  BY <1>1, <1>T, <1>F DEF Same, Fields, Local, StartInv, StopInv, QueueInv
<1>6. LastInv(k) => LastInv(n)
  BY <1>1, <1>T, <1>F DEF Same, Fields, Local, StartInv, StopInv, QueueInv, LastInv
<1>7. ASSUME QuitOf(k, m, held) PROVE QuitOf(n, m, held)
  <2>2. BareQuit(n, m, held)
    BY <1>1, <1>T, <1>F DEF Same, Fields, Local, StartInv, StopInv, QueueInv, BareQuit, Bare
  <2>4. n.in = k.in /\ n.stopId = k.stopId /\ (n.starting # "no" => k.starting # "no") /\ n.out = k.out
    BY <1>1, <1>T, <1>F DEF Same, Fields, Local, StartInv, StopInv, QueueInv
  <2>5. /\ NoStart(k) <=> NoStart(n)
        /\ OneStop(k, m, held) => OneStop(n, m, held)
        /\ \A i \in 1 .. Len(k.out) : Ends(k, i, m) => i \in 1 .. Len(n.out) /\ Ends(n, i, m)
    BY <1>1, <2>4, SilentQuit
  <2>6. AskedQuit(k, m, held)
    BY <1>7 DEF QuitOf
  <2>7. AskedQuit(n, m, held) /\ (Asked(n) => Asked(k))
    BY <2>4, <2>5, <2>6, KeptQuit
  <2>8. EndedQuit(n, m, held)
    <3>1. n.stopId = k.stopId /\ n.stopping = k.stopping
      BY <1>1, <1>T, <1>F DEF Same, Fields, Local, StartInv, StopInv, QueueInv
    <3> QED
      BY <1>7, <2>5, <2>7, <3>1 DEF QuitOf, EndedQuit
  <2> QED
    BY <2>7, <2>8, <2>2 DEF QuitOf
<1> QED
  BY <1>2, <1>3, <1>4, <1>5, <1>6, <1>7 DEF Local, n

\* The first checkpoint is on disk, and the farm transmits.
LEMMA FirstSavedLocal ==
    ASSUME NEW k \in Thread, NEW m, NEW held,
           NEW v \in 0 .. MaxMoves,
           Local(k), NoStart(k), k.life = "running",
           k.queue # <<>> /\ k.queue[1].by # "stop" /\ k.farm = "deferred"
    PROVE  /\ Local(StartDone([[k EXCEPT !.queue = Tail(k.queue), !.durable = v] EXCEPT !.timer = TRUE]))
           /\ LastInv(k) => LastInv(StartDone([[k EXCEPT !.queue = Tail(k.queue), !.durable = v] EXCEPT !.timer = TRUE]))
           /\ QuitOf(k, m, held) => QuitOf(StartDone([[k EXCEPT !.queue = Tail(k.queue), !.durable = v] EXCEPT !.timer = TRUE]), m, held)
<1> DEFINE n == StartDone([[k EXCEPT !.queue = Tail(k.queue), !.durable = v] EXCEPT !.timer = TRUE])
<1>1. /\ Same(n, k, {"queue", "durable", "timer", "starting", "farm", "out"})
      /\ n.queue = Tail(k.queue) /\ n.durable = v /\ n.timer
      /\ n.starting = "no" /\ n.farm = "active"
      /\ Sends(n, k, "started", k.startId)
  BY Dom DEF n, StartDone, Reply, Sends, Answer, Same, Fields
<1> HIDE DEF n
<1>T. /\ \A i \in 1 .. Len(n.queue) :
            n.queue[i].by = "stop" =>
                i = Len(n.queue) /\ n.queue[i].position = k.position /\ k.stopping = "saving"
      /\ \A i \in 1 .. Len(n.queue) : n.queue[i].by = "timer" => k.inFlight
      /\ \A i, j \in 1 .. Len(n.queue) :
            n.queue[i].by = "timer" /\ n.queue[j].by = "timer" => i = j
  BY <1>1, QueueTail DEF Local
<1>F. /\ k.farm # "none" /\ k.store # "none" /\ k.stopping # "closing"
      /\ k.stopping \in {"no", "farm", "inFlight", "saving", "closing"}
  BY FieldTypes DEF Local, QueueInv
<1>M. n.life = k.life /\ n.in = k.in /\ MailInv(k)
  BY <1>1 DEF Same, Fields, Local
<1>N. k.startId \in Calls \cup {None} /\ k.stopId \in Calls \cup {None}
  BY FieldTypes
<1>2. MailInv(n)
  BY <1>1, <1>M, <1>N, MailSent DEF MessageTypes
<1>3. StartInv(n)
  BY <1>1, <1>T, <1>F, MaxMovesAssumption DEF Same, Fields, Local, StartInv, StopInv, QueueInv
<1>4. StopInv(n)
  BY <1>1, <1>T, <1>F DEF Same, Fields, Local, StartInv, StopInv, QueueInv
<1>5. QueueInv(n)
  BY <1>1, <1>T, <1>F DEF Same, Fields, Local, StartInv, StopInv, QueueInv
<1>6. LastInv(k) => LastInv(n)
  BY <1>1, <1>T, <1>F DEF Same, Fields, Local, StartInv, StopInv, QueueInv, LastInv
<1>7. ASSUME QuitOf(k, m, held) PROVE QuitOf(n, m, held)
  <2>1. AskedQuit(n, m, held) /\ EndedQuit(n, m, held)
    <3>1. n.in = k.in /\ n.starting = "no"
      BY <1>1, <1>T, <1>F DEF Same, Fields, Local, StartInv, StopInv, QueueInv
    <3> QED
      BY <3>1 DEF AskedQuit, EndedQuit, Asked, NoStart
  <2>2. BareQuit(n, m, held)
    BY <1>1, <1>T, <1>F DEF Same, Fields, Local, StartInv, StopInv, QueueInv, BareQuit, Bare
  <2> QED
    BY <2>1, <2>2 DEF QuitOf
<1> QED
  BY <1>2, <1>3, <1>4, <1>5, <1>6, <1>7 DEF Local, n

\* The timer's checkpoint is settled.
LEMMA TimerSavedLocal ==
    ASSUME NEW k \in Thread, NEW m, NEW held,
           NEW v \in -1 .. MaxMoves, v = k.durable \/ v >= 0,
           Local(k), NoStart(k), k.life = "running",
           k.queue # <<>> /\ k.queue[1].by = "timer"
    PROVE  /\ Local([[k EXCEPT !.queue = Tail(k.queue), !.durable = v] EXCEPT !.inFlight = FALSE])
           /\ LastInv(k) => LastInv([[k EXCEPT !.queue = Tail(k.queue), !.durable = v] EXCEPT !.inFlight = FALSE])
           /\ QuitOf(k, m, held) => QuitOf([[k EXCEPT !.queue = Tail(k.queue), !.durable = v] EXCEPT !.inFlight = FALSE], m, held)
<1> DEFINE n == [[k EXCEPT !.queue = Tail(k.queue), !.durable = v] EXCEPT !.inFlight = FALSE]
<1>1. /\ Same(n, k, {"queue", "durable", "inFlight"})
      /\ n.queue = Tail(k.queue) /\ n.durable = v /\ ~n.inFlight
  BY Dom DEF n, Same, Fields
<1> HIDE DEF n
<1>T. /\ \A i \in 1 .. Len(n.queue) :
            n.queue[i].by = "stop" =>
                i = Len(n.queue) /\ n.queue[i].position = k.position /\ k.stopping = "saving"
      /\ \A i \in 1 .. Len(n.queue) : n.queue[i].by # "timer"
  BY <1>1, QueueTail DEF Local
<1>F. /\ k.farm # "none" /\ k.store # "none" /\ k.stopping # "closing"
      /\ k.stopping \in {"no", "farm", "inFlight", "saving", "closing"}
  BY FieldTypes DEF Local, QueueInv
<1>M. n.life = k.life /\ n.in = k.in /\ MailInv(k) /\ n.out = k.out
  BY <1>1 DEF Same, Fields, Local
<1>2. MailInv(n)
  BY <1>M, MailKept
<1>3. StartInv(n)
  BY <1>1, <1>T, <1>F, MaxMovesAssumption DEF Same, Fields, Local, StartInv, StopInv, QueueInv
<1>4. StopInv(n)
  BY <1>1, <1>T, <1>F DEF Same, Fields, Local, StartInv, StopInv, QueueInv
<1>5. QueueInv(n)
  BY <1>1, <1>T, <1>F DEF Same, Fields, Local, StartInv, StopInv, QueueInv
<1>6. LastInv(k) => LastInv(n)
  BY <1>1, <1>T, <1>F DEF Same, Fields, Local, StartInv, StopInv, QueueInv, LastInv
<1>7. ASSUME QuitOf(k, m, held) PROVE QuitOf(n, m, held)
  <2>2. BareQuit(n, m, held)
    BY <1>1, <1>T, <1>F DEF Same, Fields, Local, StartInv, StopInv, QueueInv, BareQuit, Bare
  <2>4. n.in = k.in /\ n.stopId = k.stopId /\ (n.starting # "no" => k.starting # "no") /\ n.out = k.out
    BY <1>1, <1>T, <1>F DEF Same, Fields, Local, StartInv, StopInv, QueueInv
  <2>5. /\ NoStart(k) <=> NoStart(n)
        /\ OneStop(k, m, held) => OneStop(n, m, held)
        /\ \A i \in 1 .. Len(k.out) : Ends(k, i, m) => i \in 1 .. Len(n.out) /\ Ends(n, i, m)
    BY <1>1, <2>4, SilentQuit
  <2>6. AskedQuit(k, m, held)
    BY <1>7 DEF QuitOf
  <2>7. AskedQuit(n, m, held) /\ (Asked(n) => Asked(k))
    BY <2>4, <2>5, <2>6, KeptQuit
  <2>8. EndedQuit(n, m, held)
    <3>1. n.stopId = k.stopId /\ n.stopping = k.stopping
      BY <1>1, <1>T, <1>F DEF Same, Fields, Local, StartInv, StopInv, QueueInv
    <3> QED
      BY <1>7, <2>5, <2>7, <3>1 DEF QuitOf, EndedQuit
  <2> QED
    BY <2>7, <2>8, <2>2 DEF QuitOf
<1> QED
  BY <1>2, <1>3, <1>4, <1>5, <1>6, <1>7 DEF Local, n

\* The last checkpoint is on disk, and the stop closes the store.
LEMMA LastSavedLocal ==
    ASSUME NEW k \in Thread, NEW m, NEW held,
           NEW v, v = k.queue[1].position,
           Local(k), NoStart(k), k.life = "running",
           k.queue # <<>> /\ k.queue[1].by = "stop"
    PROVE  /\ Local(StopClose([[k EXCEPT !.queue = Tail(k.queue), !.durable = v] EXCEPT !.farm = "none"]))
           /\ LastInv(k) => LastInv(StopClose([[k EXCEPT !.queue = Tail(k.queue), !.durable = v] EXCEPT !.farm = "none"]))
           /\ AskedQuit(k, m, held) => QuitOf(StopClose([[k EXCEPT !.queue = Tail(k.queue), !.durable = v] EXCEPT !.farm = "none"]), m, held)
<1> DEFINE n == StopClose([[k EXCEPT !.queue = Tail(k.queue), !.durable = v] EXCEPT !.farm = "none"])
<1>F. k.store # "none"
  BY DEF Local, QueueInv
<1>1. /\ Same(n, k, {"queue", "durable", "farm", "stopping", "store"})
      /\ n.queue = Tail(k.queue) /\ n.durable = v /\ n.farm = "none"
      /\ n.stopping = "closing" /\ n.store = "closing"
  BY Dom, <1>F DEF n, StopClose, Same, Fields
<1> HIDE DEF n
<1>T. n.queue = <<>> /\ ~k.inFlight /\ ~k.timer /\ k.stopId # None /\ v = k.position
  <2>1. n.queue = <<>>
    BY <1>1, QueueTail DEF Local
  <2>2. k.stopping = "saving" /\ k.queue[1].position = k.position
    <3>1. k.queue \in Seq(Job)
      BY FieldTypes
    <3>2. Len(k.queue) \in Nat /\ Len(k.queue) >= 1
      BY <3>1, TailElems
    <3> QED
      BY <3>2 DEF Local, QueueInv
  <2> QED
    BY <2>1, <2>2 DEF Local, StopInv
<1>M. n.life = k.life /\ n.in = k.in /\ MailInv(k) /\ n.out = k.out
  BY <1>1 DEF Same, Fields, Local
<1>2. MailInv(n)
  BY <1>M, MailKept
<1>3. StartInv(n)
  BY <1>1, <1>T, MaxMovesAssumption DEF Same, Fields, Local, StartInv, StopInv, QueueInv
<1>4. StopInv(n)
  BY <1>1, <1>T DEF Same, Fields, Local, StartInv, StopInv, QueueInv
<1>5. QueueInv(n)
  BY <1>1, <1>T DEF Same, Fields, Local, StartInv, StopInv, QueueInv
<1>6. LastInv(k) => LastInv(n)
  BY <1>1, <1>T DEF Same, Fields, Local, StartInv, StopInv, QueueInv, LastInv
<1>7. ASSUME AskedQuit(k, m, held) PROVE QuitOf(n, m, held)
  <2>2. BareQuit(n, m, held)
    BY <1>1, <1>T DEF Same, Fields, Local, StartInv, StopInv, QueueInv, BareQuit, Bare
  <2>4. n.in = k.in /\ n.stopId = k.stopId /\ (n.starting # "no" => k.starting # "no") /\ n.out = k.out
    BY <1>1, <1>T DEF Same, Fields, Local, StartInv, StopInv, QueueInv
  <2>5. /\ NoStart(k) <=> NoStart(n)
        /\ OneStop(k, m, held) => OneStop(n, m, held)
        /\ \A i \in 1 .. Len(k.out) : Ends(k, i, m) => i \in 1 .. Len(n.out) /\ Ends(n, i, m)
    BY <1>1, <2>4, SilentQuit
  <2>6. AskedQuit(k, m, held)
    BY <1>7 DEF QuitOf
  <2>7. AskedQuit(n, m, held) /\ (Asked(n) => Asked(k))
    BY <2>4, <2>5, <2>6, KeptQuit
  <2>8. EndedQuit(n, m, held)
    BY <1>1, <1>T DEF EndedQuit
  <2> QED
    BY <2>7, <2>8, <2>2 DEF QuitOf
<1> QED
  BY <1>2, <1>3, <1>4, <1>5, <1>6, <1>7 DEF Local, n

\* The timer queues a checkpoint.
LEMMA CheckpointLocal ==
    ASSUME NEW k \in Thread, NEW m, NEW held,
           Local(k), NoStart(k), k.life = "running",
           k.timer /\ k.farm # "none" /\ ~k.inFlight
    PROVE  /\ Local([Save(k, "timer") EXCEPT !.inFlight = TRUE])
           /\ LastInv(k) => LastInv([Save(k, "timer") EXCEPT !.inFlight = TRUE])
           /\ QuitOf(k, m, held) => QuitOf([Save(k, "timer") EXCEPT !.inFlight = TRUE], m, held)
<1> DEFINE n == [Save(k, "timer") EXCEPT !.inFlight = TRUE]
<1>1. /\ Same(n, k, {"queue", "inFlight"})
      /\ n.queue = Append(k.queue, [by |-> "timer", position |-> k.position]) /\ n.inFlight
  BY Dom DEF n, Save, Same, Fields
<1> HIDE DEF n
<1>M. n.life = k.life /\ n.in = k.in /\ MailInv(k) /\ n.out = k.out
  BY <1>1 DEF Same, Fields, Local
<1>2. MailInv(n)
  BY <1>M, MailKept
<1>3. StartInv(n)
  BY <1>1, MaxMovesAssumption DEF Same, Fields, Local, StartInv, StopInv, QueueInv
<1>4. StopInv(n)
  BY <1>1 DEF Same, Fields, Local, StartInv, StopInv, QueueInv
<1>5. QueueInv(n)
  <2>1. /\ Len(n.queue) = Len(k.queue) + 1 /\ Len(k.queue) \in Nat
        /\ \A i \in 1 .. Len(k.queue) : n.queue[i] = k.queue[i]
        /\ n.queue[Len(k.queue) + 1].by = "timer"
    BY <1>1, QueueAppend
  <2>2. \A i \in 1 .. Len(k.queue) : k.queue[i].by \notin {"stop", "timer"}
    BY DEF Local, QueueInv, StopInv
  <2>3. \A i, j \in 1 .. Len(n.queue) :
           n.queue[i].by = "timer" /\ n.queue[j].by = "timer" => i = j
    <3>1. \A i \in 1 .. Len(n.queue) : n.queue[i].by = "timer" => i = Len(k.queue) + 1
      BY <2>1, <2>2
    <3> QED
      BY <3>1
  <2>4. \A i \in 1 .. Len(n.queue) : n.queue[i].by # "stop"
    BY <2>1, <2>2
  <2> QED
    BY <1>1, <2>3, <2>4 DEF Same, Fields, Local, StartInv, StopInv, QueueInv
<1>6. LastInv(k) => LastInv(n)
  BY <1>1 DEF Same, Fields, Local, StartInv, StopInv, QueueInv, LastInv
<1>7. ASSUME QuitOf(k, m, held) PROVE QuitOf(n, m, held)
  <2>1. AskedQuit(n, m, held) /\ EndedQuit(n, m, held)
    <3>1. n.in = k.in /\ n.starting = "no"
      BY <1>1 DEF Same, Fields, Local, StartInv, StopInv, QueueInv
    <3> QED
      BY <3>1 DEF AskedQuit, EndedQuit, Asked, NoStart
  <2>2. BareQuit(n, m, held)
    BY <1>1 DEF Same, Fields, Local, StartInv, StopInv, QueueInv, BareQuit, Bare
  <2> QED
    BY <2>1, <2>2 DEF QuitOf
<1> QED
  BY <1>2, <1>3, <1>4, <1>5, <1>6, <1>7 DEF Local, n

\* The fleet moves.
LEMMA MoveLocal ==
    ASSUME NEW k \in Thread, NEW m, NEW held,
           Local(k), NoStart(k), k.life = "running",
           k.farm = "active"
    PROVE  /\ Local([k EXCEPT !.position = @ + 1])
           /\ LastInv(k) => LastInv([k EXCEPT !.position = @ + 1])
           /\ QuitOf(k, m, held) => QuitOf([k EXCEPT !.position = @ + 1], m, held)
<1> DEFINE n == [k EXCEPT !.position = @ + 1]
<1>1. /\ Same(n, k, {"position"})
      /\ n.position = k.position + 1
  BY Dom DEF n, Same, Fields
<1> HIDE DEF n
<1>M. n.life = k.life /\ n.in = k.in /\ MailInv(k) /\ n.out = k.out
  BY <1>1 DEF Same, Fields, Local
<1>2. MailInv(n)
  BY <1>M, MailKept
<1>3. StartInv(n)
  BY <1>1, MaxMovesAssumption DEF Same, Fields, Local, StartInv, StopInv, QueueInv
<1>4. StopInv(n)
  BY <1>1 DEF Same, Fields, Local, StartInv, StopInv, QueueInv
<1>5. QueueInv(n)
  BY <1>1 DEF Same, Fields, Local, StartInv, StopInv, QueueInv
<1>6. LastInv(k) => LastInv(n)
  BY <1>1 DEF Same, Fields, Local, StartInv, StopInv, QueueInv, LastInv
<1>7. ASSUME QuitOf(k, m, held) PROVE QuitOf(n, m, held)
  <2>1. AskedQuit(n, m, held) /\ EndedQuit(n, m, held)
    <3>1. n.in = k.in /\ n.starting = "no"
      BY <1>1 DEF Same, Fields, Local, StartInv, StopInv, QueueInv
    <3> QED
      BY <3>1 DEF AskedQuit, EndedQuit, Asked, NoStart
  <2>4. n.in = k.in /\ n.out = k.out
    BY <1>1 DEF Same, Fields, Local, StartInv, StopInv, QueueInv
  <2>9. BareQuit(n, m, held)
    <3>1. (Bare(n) => Bare(k)) /\ n.stopping = k.stopping
      BY <1>1 DEF Same, Fields, Local, StartInv, StopInv, QueueInv, Bare
    <3>2. BareQuit(k, m, held)
      BY <1>7 DEF QuitOf
    <3> QED
      BY <1>1, <2>4, <3>1, <3>2, SilentQuit
  <2> QED
    BY <2>1, <2>9 DEF QuitOf
<1> QED
  BY <1>2, <1>3, <1>4, <1>5, <1>6, <1>7 DEF Local, n

\* An exception is reported.
LEMMA ThrowLocal ==
    ASSUME NEW k \in Thread, NEW m, NEW held,
           Local(k),
           k.life = "running"
    PROVE  /\ Local(Reply([k EXCEPT !.failed = TRUE], "fatal", None))
           /\ LastInv(k) => LastInv(Reply([k EXCEPT !.failed = TRUE], "fatal", None))
           /\ QuitOf(k, m, held) => QuitOf(Reply([k EXCEPT !.failed = TRUE], "fatal", None), m, held)
<1> DEFINE n == Reply([k EXCEPT !.failed = TRUE], "fatal", None)
<1>1. /\ Same(n, k, {"failed", "out"})
      /\ Sends(n, k, "fatal", None)
  BY Dom DEF n, Reply, Sends, Answer, Same, Fields
<1> HIDE DEF n
<1>2. MailInv(n)
  <2>1. Answer("fatal", None) \in Message /\ Answer("fatal", None).type = "fatal"
    BY DEF Answer, Message
  <2>2. k.out \in Seq(Message) /\ Len(k.out) \in Nat
    BY FieldTypes, LenProperties
  <2>3. \A i \in 1 .. Len(n.out) : n.out[i].type \notin {"failure", "exit"}
    BY <1>1, <2>1, <2>2, AppendElems DEF Sends, Local, MailInv
  <2> QED
    BY <1>1, <2>3 DEF Same, Fields, Local, MailInv, Fresh
<1>3. StartInv(n)
  BY <1>1, MaxMovesAssumption DEF Same, Fields, Local, StartInv, StopInv, QueueInv
<1>4. StopInv(n)
  BY <1>1 DEF Same, Fields, Local, StartInv, StopInv, QueueInv
<1>5. QueueInv(n)
  BY <1>1 DEF Same, Fields, Local, StartInv, StopInv, QueueInv
<1>6. LastInv(k) => LastInv(n)
  BY <1>1 DEF Same, Fields, Local, StartInv, StopInv, QueueInv, LastInv
<1>7. ASSUME QuitOf(k, m, held) PROVE QuitOf(n, m, held)
  <2>3. k.startId \in Calls \cup {None} /\ k.stopId \in Calls \cup {None}
    BY FieldTypes
  <2>4. n.in = k.in /\ n.stopId = k.stopId /\ (n.starting # "no" => k.starting # "no")
    BY <1>1 DEF Same, Fields, Local, StartInv, StopInv, QueueInv
  <2>5. /\ NoStart(k) <=> NoStart(n)
        /\ OneStop(k, m, held) => OneStop(n, m, held)
        /\ \A i \in 1 .. Len(k.out) : Ends(k, i, m) => i \in 1 .. Len(n.out) /\ Ends(n, i, m)
    BY <1>1, <2>4, <2>3, SentQuit DEF MessageTypes
  <2>6. AskedQuit(k, m, held)
    BY <1>7 DEF QuitOf
  <2>7. AskedQuit(n, m, held) /\ (Asked(n) => Asked(k))
    BY <2>4, <2>5, <2>6, KeptQuit
  <2>8. EndedQuit(n, m, held)
    <3>1. n.stopId = k.stopId /\ n.stopping = k.stopping
      BY <1>1 DEF Same, Fields, Local, StartInv, StopInv, QueueInv
    <3> QED
      BY <1>7, <2>5, <2>7, <3>1 DEF QuitOf, EndedQuit
  <2>9. BareQuit(n, m, held)
    <3>1. (Bare(n) => Bare(k)) /\ n.stopping = k.stopping
      BY <1>1 DEF Same, Fields, Local, StartInv, StopInv, QueueInv, Bare
    <3>2. BareQuit(k, m, held)
      BY <1>7 DEF QuitOf
    <3> QED
      BY <1>1, <2>4, <3>1, <3>2, <2>3, SentQuit DEF MessageTypes
  <2> QED
    BY <2>7, <2>8, <2>9 DEF QuitOf
<1> QED
  BY <1>2, <1>3, <1>4, <1>5, <1>6, <1>7 DEF Local, n

\* A thread ends.
LEMMA EndLocal ==
    ASSUME NEW k \in Thread,
           NEW out, NEW failed,
           Local(k),
           k.life = "running"
    PROVE  /\ Local([[[k EXCEPT !.life = "exited"] EXCEPT !.failed = failed] EXCEPT !.out = out])
           /\ LastInv(k) => LastInv([[[k EXCEPT !.life = "exited"] EXCEPT !.failed = failed] EXCEPT !.out = out])
<1> DEFINE n == [[[k EXCEPT !.life = "exited"] EXCEPT !.failed = failed] EXCEPT !.out = out]
<1>1. /\ Same(n, k, {"life", "failed", "out"})
      /\ n.life = "exited"
  BY Dom DEF n, Same, Fields
<1> HIDE DEF n
<1>2. MailInv(n)
  BY <1>1 DEF Same, Fields, Local, MailInv, Fresh
<1>3. StartInv(n)
  BY <1>1, MaxMovesAssumption DEF Same, Fields, Local, StartInv, StopInv, QueueInv
<1>4. StopInv(n)
  BY <1>1 DEF Same, Fields, Local, StartInv, StopInv, QueueInv
<1>5. QueueInv(n)
  BY <1>1 DEF Same, Fields, Local, StartInv, StopInv, QueueInv
<1>6. LastInv(k) => LastInv(n)
  BY <1>1 DEF Same, Fields, Local, StartInv, StopInv, QueueInv, LastInv
<1> QED
  BY <1>2, <1>3, <1>4, <1>5, <1>6 DEF Local, n

\* A message that no handler answers is taken.
LEMMA TakenLocal ==
    ASSUME NEW k \in Thread,
           Local(k),
           k.life = "running" /\ k.in # <<>>
    PROVE  /\ Local([k EXCEPT !.in = Tail(@)])
           /\ LastInv(k) => LastInv([k EXCEPT !.in = Tail(@)])
<1> DEFINE n == [k EXCEPT !.in = Tail(@)]
<1>1. /\ Same(n, k, {"in"})
      /\ n.in = Tail(k.in)
  BY Dom DEF n, Same, Fields
<1> HIDE DEF n
<1>2. MailInv(n)
  <2>1. k.in \in Seq(Message)
    BY FieldTypes
  <2>2. /\ Len(k.in) \in Nat /\ Len(n.in) = Len(k.in) - 1
        /\ \A i \in 1 .. Len(k.in) - 1 : n.in[i] = k.in[i + 1]
    BY <1>1, <2>1, TailElems
  <2>3. \A i \in 1 .. Len(n.in) : i + 1 \in 1 .. Len(k.in) /\ n.in[i] = k.in[i + 1]
    BY <2>2
  <2>4. \A i \in 1 .. Len(n.in) :
            n.in[i].type \in {"start", "stop"} /\ n.in[i].type # "start" /\ n.in[i].id \in Calls
    <3> SUFFICES ASSUME NEW i \in 1 .. Len(n.in)
                 PROVE  /\ n.in[i].type \in {"start", "stop"} /\ n.in[i].type # "start"
                        /\ n.in[i].id \in Calls
      OBVIOUS
    <3>1. i + 1 \in 1 .. Len(k.in) /\ n.in[i] = k.in[i + 1] /\ i + 1 # 1
      BY <2>2, <2>3
    <3> QED
      BY <3>1 DEF Local, MailInv
  <2> QED
    BY <1>1, <2>4 DEF Same, Fields, Local, MailInv, Fresh
<1>3. StartInv(n)
  BY <1>1, MaxMovesAssumption DEF Same, Fields, Local, StartInv, StopInv, QueueInv
<1>4. StopInv(n)
  BY <1>1 DEF Same, Fields, Local, StartInv, StopInv, QueueInv
<1>5. QueueInv(n)
  BY <1>1 DEF Same, Fields, Local, StartInv, StopInv, QueueInv
<1>6. LastInv(k) => LastInv(n)
  BY <1>1 DEF Same, Fields, Local, StartInv, StopInv, QueueInv, LastInv
<1> QED
  BY <1>2, <1>3, <1>4, <1>5, <1>6 DEF Local, n

\* A request to stop is sent to a thread.
LEMMA PostLocal ==
    ASSUME NEW k \in Thread,
           NEW c \in Calls,
           Local(k)
    PROVE  /\ Local([k EXCEPT !.in = Append(@, [type |-> "stop", id |-> c])])
           /\ LastInv(k) => LastInv([k EXCEPT !.in = Append(@, [type |-> "stop", id |-> c])])
<1> DEFINE n == [k EXCEPT !.in = Append(@, [type |-> "stop", id |-> c])]
<1>1. /\ Same(n, k, {"in"})
      /\ n.in = Append(k.in, [type |-> "stop", id |-> c])
  BY Dom DEF n, Same, Fields
<1> HIDE DEF n
<1>2. MailInv(n)
  <2>1. /\ [type |-> "stop", id |-> c] \in Message
        /\ [type |-> "stop", id |-> c].type = "stop" /\ [type |-> "stop", id |-> c].id = c
    BY DEF Message
  <2>2. k.in \in Seq(Message) /\ Len(k.in) \in Nat
    BY FieldTypes, LenProperties
  <2>3. /\ Len(n.in) = Len(k.in) + 1 /\ \A i \in 1 .. Len(k.in) : n.in[i] = k.in[i]
        /\ n.in[Len(k.in) + 1] = [type |-> "stop", id |-> c]
    BY <1>1, <2>1, <2>2, AppendElems
  <2>4. \A i \in 1 .. Len(n.in) :
            /\ n.in[i].type \in {"start", "stop"} /\ n.in[i].id \in Calls
            /\ n.in[i].type = "start" => i = 1 /\ Fresh(k)
    BY <2>1, <2>2, <2>3 DEF Local, MailInv
  <2> QED
    BY <1>1, <2>4 DEF Same, Fields, Local, MailInv, Fresh
<1>3. StartInv(n)
  BY <1>1, MaxMovesAssumption DEF Same, Fields, Local, StartInv, StopInv, QueueInv
<1>4. StopInv(n)
  BY <1>1 DEF Same, Fields, Local, StartInv, StopInv, QueueInv
<1>5. QueueInv(n)
  BY <1>1 DEF Same, Fields, Local, StartInv, StopInv, QueueInv
<1>6. LastInv(k) => LastInv(n)
  BY <1>1 DEF Same, Fields, Local, StartInv, StopInv, QueueInv, LastInv
<1> QED
  BY <1>2, <1>3, <1>4, <1>5, <1>6 DEF Local, n

\* The main process takes a message of a thread.
LEMMA ReadLocal ==
    ASSUME NEW k \in Thread,
           Local(k),
           k.out # <<>>
    PROVE  /\ Local([k EXCEPT !.out = Tail(@)])
           /\ LastInv(k) => LastInv([k EXCEPT !.out = Tail(@)])
<1> DEFINE n == [k EXCEPT !.out = Tail(@)]
<1>1. /\ Same(n, k, {"out"})
      /\ n.out = Tail(k.out)
  BY Dom DEF n, Same, Fields
<1> HIDE DEF n
<1>2. MailInv(n)
  <2>1. k.out \in Seq(Message)
    BY FieldTypes
  <2>2. \A i \in 1 .. Len(n.out) : i + 1 \in 1 .. Len(k.out) /\ n.out[i] = k.out[i + 1]
    BY <1>1, <2>1, TailElems
  <2> QED
    BY <1>1, <2>2 DEF Same, Fields, Local, MailInv, Fresh
<1>3. StartInv(n)
  BY <1>1, MaxMovesAssumption DEF Same, Fields, Local, StartInv, StopInv, QueueInv
<1>4. StopInv(n)
  BY <1>1 DEF Same, Fields, Local, StartInv, StopInv, QueueInv
<1>5. QueueInv(n)
  BY <1>1 DEF Same, Fields, Local, StartInv, StopInv, QueueInv
<1>6. LastInv(k) => LastInv(n)
  BY <1>1 DEF Same, Fields, Local, StartInv, StopInv, QueueInv, LastInv
<1> QED
  BY <1>2, <1>3, <1>4, <1>5, <1>6 DEF Local, n

\* A real-road start is taken.
LEMMA BeginLocal ==
    ASSUME NEW k \in Thread, NEW m, NEW held,
           NEW id \in Calls,
           Local(k), NoStart(k), k.life = "running",
           Fresh(k)
    PROVE  /\ Local([k EXCEPT !.starting = "loading", !.startId = id])
           /\ LastInv(k) => LastInv([k EXCEPT !.starting = "loading", !.startId = id])
           /\ OneStop(k, m, held) => QuitOf([k EXCEPT !.starting = "loading", !.startId = id], m, held)
<1> DEFINE n == [k EXCEPT !.starting = "loading", !.startId = id]
<1>1. /\ Same(n, k, {"starting", "startId"})
      /\ n.starting = "loading"
  BY Dom DEF n, Same, Fields
<1> HIDE DEF n
<1>M. n.life = k.life /\ n.in = k.in /\ MailInv(k) /\ n.out = k.out
  BY <1>1 DEF Same, Fields, Local
<1>2. MailInv(n)
  BY <1>M, MailKept
<1>3. StartInv(n)
  BY <1>1, MaxMovesAssumption DEF Same, Fields, Local, Fresh, StartInv, StopInv, QueueInv
<1>4. StopInv(n)
  BY <1>1 DEF Same, Fields, Local, Fresh, StartInv, StopInv, QueueInv
<1>5. QueueInv(n)
  BY <1>1 DEF Same, Fields, Local, Fresh, StartInv, StopInv, QueueInv
<1>6. LastInv(k) => LastInv(n)
  BY <1>1 DEF Same, Fields, Local, Fresh, StartInv, StopInv, QueueInv, LastInv
<1>7. ASSUME OneStop(k, m, held) PROVE QuitOf(n, m, held)
  <2>1. n.in = k.in /\ n.out = k.out /\ n.stopId = None /\ k.stopId = None /\ ~Bare(n)
    BY <1>1 DEF Same, Fields, Fresh, Bare
  <2>2. OneStop(n, m, held)
    BY <1>7, <2>1, SilentQuit
  <2> QED
    BY <2>1, <2>2 DEF QuitOf, AskedQuit, EndedQuit, BareQuit
<1> QED
  BY <1>2, <1>3, <1>4, <1>5, <1>6, <1>7 DEF Local, n

\* A synthetic start is taken, and the farm transmits.
LEMMA BeginSyntheticLocal ==
    ASSUME NEW k \in Thread, NEW m, NEW held,
           NEW id \in Calls,
           Local(k), NoStart(k), k.life = "running",
           Fresh(k), k.mode = "synthetic"
    PROVE  /\ Local(StartDone([k EXCEPT !.startId = id]))
           /\ LastInv(k) => LastInv(StartDone([k EXCEPT !.startId = id]))
           /\ OneStop(k, m, held) => QuitOf(StartDone([k EXCEPT !.startId = id]), m, held)
<1> DEFINE n == StartDone([k EXCEPT !.startId = id])
<1>1. /\ Same(n, k, {"starting", "startId", "farm", "out"})
      /\ n.starting = "no" /\ n.farm = "active"
      /\ Sends(n, k, "started", id)
  BY Dom DEF n, StartDone, Reply, Sends, Answer, Same, Fields
<1> HIDE DEF n
<1>M. n.life = k.life /\ n.in = k.in /\ MailInv(k)
  BY <1>1 DEF Same, Fields, Local
<1>N. k.startId \in Calls \cup {None} /\ k.stopId \in Calls \cup {None}
  BY FieldTypes
<1>2. MailInv(n)
  BY <1>1, <1>M, <1>N, MailSent DEF MessageTypes
<1>3. StartInv(n)
  BY <1>1, MaxMovesAssumption DEF Same, Fields, Local, Fresh, StartInv, StopInv, QueueInv
<1>4. StopInv(n)
  BY <1>1 DEF Same, Fields, Local, Fresh, StartInv, StopInv, QueueInv
<1>5. QueueInv(n)
  BY <1>1 DEF Same, Fields, Local, Fresh, StartInv, StopInv, QueueInv
<1>6. LastInv(k) => LastInv(n)
  BY <1>1 DEF Same, Fields, Local, Fresh, StartInv, StopInv, QueueInv, LastInv
<1>7. ASSUME OneStop(k, m, held) PROVE QuitOf(n, m, held)
  <2>1. AskedQuit(n, m, held) /\ EndedQuit(n, m, held)
    <3>1. n.in = k.in /\ n.starting = "no"
      BY <1>1 DEF Same, Fields, Local, Fresh, StartInv, StopInv, QueueInv
    <3> QED
      BY <3>1 DEF AskedQuit, EndedQuit, Asked, NoStart
  <2>2. BareQuit(n, m, held)
    BY <1>1 DEF Same, Fields, Local, Fresh, StartInv, StopInv, QueueInv, BareQuit, Bare
  <2> QED
    BY <2>1, <2>2 DEF QuitOf
<1> QED
  BY <1>2, <1>3, <1>4, <1>5, <1>6, <1>7 DEF Local, n

\* A stop begins: the timer is cleared.
LEMMA StopBegunLocal ==
    ASSUME NEW k \in Thread,
           NEW id \in Calls,
           Local(k), NoStart(k), k.life = "running",
           k.stopping = "no"
    PROVE  /\ Local([k EXCEPT !.stopId = id, !.timer = FALSE])
           /\ LastInv(k) => LastInv([k EXCEPT !.stopId = id, !.timer = FALSE])
<1> DEFINE n == [k EXCEPT !.stopId = id, !.timer = FALSE]
<1>1. /\ Same(n, k, {"stopId", "timer"})
      /\ n.stopId = id /\ ~n.timer
  BY Dom DEF n, Same, Fields
<1> HIDE DEF n
<1>M. n.life = k.life /\ n.in = k.in /\ MailInv(k) /\ n.out = k.out
  BY <1>1 DEF Same, Fields, Local
<1>2. MailInv(n)
  BY <1>M, MailKept
<1>3. StartInv(n)
  BY <1>1, MaxMovesAssumption DEF Same, Fields, Local, Calls, None, StartInv, StopInv, QueueInv
<1>4. StopInv(n)
  BY <1>1 DEF Same, Fields, Local, Calls, None, StartInv, StopInv, QueueInv
<1>5. QueueInv(n)
  BY <1>1 DEF Same, Fields, Local, Calls, None, StartInv, StopInv, QueueInv
<1>6. LastInv(k) => LastInv(n)
  BY <1>1 DEF Same, Fields, Local, Calls, None, StartInv, StopInv, QueueInv, LastInv
<1> QED
  BY <1>2, <1>3, <1>4, <1>5, <1>6 DEF Local, n

\* A stop stops the farm.
LEMMA FarmStopsLocal ==
    ASSUME NEW k \in Thread, NEW m, NEW held,
           Local(k), NoStart(k), k.life = "running",
           k.stopping = "no" /\ k.farm # "none" /\ ~k.timer /\ k.stopId # None
    PROVE  /\ Local([k EXCEPT !.stopping = "farm", !.farm = IF @ = "created" THEN @ ELSE "stopped"])
           /\ ~Bare(k) /\ LastInv(k) => LastInv([k EXCEPT !.stopping = "farm", !.farm = IF @ = "created" THEN @ ELSE "stopped"])
           /\ AskedQuit(k, m, held) => QuitOf([k EXCEPT !.stopping = "farm", !.farm = IF @ = "created" THEN @ ELSE "stopped"], m, held)
<1> DEFINE n == [k EXCEPT !.stopping = "farm", !.farm = IF @ = "created" THEN @ ELSE "stopped"]
<1>1. /\ Same(n, k, {"stopping", "farm"})
      /\ n.stopping = "farm" /\ n.farm = (IF k.farm = "created" THEN "created" ELSE "stopped")
  BY Dom DEF n, Same, Fields
<1> HIDE DEF n
<1>T. k.farm \in {"none", "created", "deferred", "active", "stopped"}
  BY FieldTypes
<1>M. n.life = k.life /\ n.in = k.in /\ MailInv(k) /\ n.out = k.out
  BY <1>1 DEF Same, Fields, Local
<1>2. MailInv(n)
  BY <1>M, MailKept
<1>3. StartInv(n)
  BY <1>1, <1>T, MaxMovesAssumption DEF Same, Fields, Local, StartInv, StopInv, QueueInv
<1>4. StopInv(n)
  BY <1>1, <1>T DEF Same, Fields, Local, StartInv, StopInv, QueueInv
<1>5. QueueInv(n)
  BY <1>1, <1>T DEF Same, Fields, Local, StartInv, StopInv, QueueInv
<1>6. ~Bare(k) /\ LastInv(k) => LastInv(n)
  BY <1>1, <1>T DEF Same, Fields, Local, StartInv, StopInv, QueueInv, LastInv, Bare
<1>7. ASSUME AskedQuit(k, m, held) PROVE QuitOf(n, m, held)
  <2>2. BareQuit(n, m, held)
    BY <1>1, <1>T DEF Same, Fields, Local, StartInv, StopInv, QueueInv, BareQuit, Bare
  <2>4. n.in = k.in /\ n.stopId = k.stopId /\ (n.starting # "no" => k.starting # "no") /\ n.out = k.out
    BY <1>1, <1>T DEF Same, Fields, Local, StartInv, StopInv, QueueInv
  <2>5. /\ NoStart(k) <=> NoStart(n)
        /\ OneStop(k, m, held) => OneStop(n, m, held)
        /\ \A i \in 1 .. Len(k.out) : Ends(k, i, m) => i \in 1 .. Len(n.out) /\ Ends(n, i, m)
    BY <1>1, <2>4, SilentQuit
  <2>6. AskedQuit(k, m, held)
    BY <1>7 DEF QuitOf
  <2>7. AskedQuit(n, m, held) /\ (Asked(n) => Asked(k))
    BY <2>4, <2>5, <2>6, KeptQuit
  <2>8. EndedQuit(n, m, held)
    BY <1>1, <1>T DEF EndedQuit
  <2> QED
    BY <2>7, <2>8, <2>2 DEF QuitOf
<1> QED
  BY <1>2, <1>3, <1>4, <1>5, <1>6, <1>7 DEF Local, n

\* A message at the head of a thread's mailbox is taken off it.
LEMMA TakenIs ==
    ASSUME NEW k \in Thread, MailInv(k), k.in # <<>>, NEW n, n = [k EXCEPT !.in = Tail(@)]
    PROVE  /\ Same(n, k, {"in"}) /\ n.in = Tail(k.in) /\ NoStart(n) /\ n \in Thread
           /\ Head(k.in) = k.in[1] /\ Head(k.in).type \in {"start", "stop"} /\ Head(k.in).id \in Calls
           /\ Head(k.in).type = "start" => Fresh(k)
           /\ Len(k.in) \in Nat /\ Len(n.in) = Len(k.in) - 1 /\ Len(k.in) >= 1
           /\ \A i \in 1 .. Len(n.in) : i + 1 \in 1 .. Len(k.in) /\ n.in[i] = k.in[i + 1]
<1>1. k.in \in Seq(Message)
  BY FieldTypes
<1>2. Same(n, k, {"in"}) /\ n.in = Tail(k.in)
  BY Dom DEF Same, Fields
<1>3. /\ Tail(k.in) \in Seq(Message) /\ Head(k.in) = k.in[1]
      /\ Len(k.in) \in Nat /\ Len(n.in) = Len(k.in) - 1 /\ Len(k.in) >= 1
      /\ \A i \in 1 .. Len(k.in) - 1 : n.in[i] = k.in[i + 1]
  BY <1>1, <1>2, TailElems
<1>4. n \in Thread
  BY <1>3, FieldTypes
<1>5. \A i \in 1 .. Len(n.in) : i + 1 \in 1 .. Len(k.in) /\ i + 1 # 1 /\ n.in[i] = k.in[i + 1]
  BY <1>3
<1>6. NoStart(n)
  BY <1>5 DEF MailInv, NoStart
<1>7. 1 \in 1 .. Len(k.in)
  BY <1>3
<1>8. /\ k.in[1].type \in {"start", "stop"} /\ k.in[1].id \in Calls
      /\ k.in[1].type = "start" => Fresh(k)
  BY <1>7 DEF MailInv
<1> QED
  BY <1>2, <1>3, <1>4, <1>5, <1>6, <1>8

\* What taking a message leaves of what quitting asks.
LEMMA TakenQuit ==
    ASSUME NEW k, NEW n, NEW m, NEW held, Same(n, k, {"in"}), NoStart(n),
           \A i \in 1 .. Len(n.in) : i + 1 \in 1 .. Len(k.in) /\ n.in[i] = k.in[i + 1]
    PROVE  /\ OneStop(k, m, held) => OneStop(n, m, held)
           /\ QuitOf(k, m, held) => QuitOf(n, m, held)
<1>1. /\ n.out = k.out /\ n.stopId = k.stopId /\ n.stopping = k.stopping
      /\ n.starting = k.starting /\ (Bare(n) <=> Bare(k))
  BY DEF Same, Fields, Bare
<1>2. ASSUME OneStop(k, m, held) PROVE OneStop(n, m, held)
  <2>1. \A i, j \in 1 .. Len(n.in) : n.in[i].type = "stop" /\ n.in[j].type = "stop" => i = j
    <3> SUFFICES ASSUME NEW i \in 1 .. Len(n.in), NEW j \in 1 .. Len(n.in),
                        n.in[i].type = "stop", n.in[j].type = "stop"
                 PROVE  i = j
      OBVIOUS
    <3>1. i + 1 = j + 1
      BY <1>2 DEF OneStop
    <3> QED
      BY <3>1
  <2>2. \A i \in 1 .. Len(n.in) : n.in[i].type = "stop" =>
            m.quitting /\ k.stopId = None /\ (held => n.in[i].id \in m.pending)
    BY <1>2 DEF OneStop
  <2> QED
    BY <1>1, <1>2, <2>1, <2>2 DEF OneStop
<1>3. ASSUME QuitOf(k, m, held) PROVE QuitOf(n, m, held)
  <2>1. Asked(n) => Asked(k)
    BY <1>1 DEF Asked
  <2>2. AskedQuit(n, m, held)
    BY <1>2, <1>3, <2>1 DEF QuitOf, AskedQuit
  <2>3. EndedQuit(n, m, held)
    BY <1>1, <1>3, <2>1 DEF QuitOf, EndedQuit, Ends
  <2>4. BareQuit(n, m, held)
    <3>1. BareQuit(k, m, held)
      BY <1>3 DEF QuitOf
    <3>2. (\A i \in 1 .. Len(k.in) : k.in[i].type # "stop") =>
            \A i \in 1 .. Len(n.in) : n.in[i].type # "stop"
      OBVIOUS
    <3> QED
      BY <1>1, <3>1, <3>2 DEF BareQuit, Ends
  <2> QED
    BY <2>2, <2>3, <2>4 DEF QuitOf
<1> QED
  BY <1>2, <1>3

\* What a thread does with a 'start' and with a 'stop'.
LEMMA TakeStartLocal ==
    ASSUME NEW k \in Thread, NEW m, NEW held, Local(k), k.life = "running", k.in # <<>>,
           NEW s, s = [k EXCEPT !.in = Tail(@)], Head(k.in).type = "start"
    PROVE  /\ Local(OnStart(s, Head(k.in).id))
           /\ LastInv(k) => LastInv(OnStart(s, Head(k.in).id))
           /\ QuitOf(k, m, held) => QuitOf(OnStart(s, Head(k.in).id), m, held)
<1>1. /\ Same(s, k, {"in"}) /\ NoStart(s) /\ s \in Thread
      /\ Head(k.in) = k.in[1] /\ Head(k.in).id \in Calls /\ Fresh(k)
      /\ Len(k.in) \in Nat /\ Len(k.in) >= 1
      /\ \A i \in 1 .. Len(s.in) : i + 1 \in 1 .. Len(k.in) /\ s.in[i] = k.in[i + 1]
  BY TakenIs DEF Local
<1>2. Local(s) /\ s.life = "running" /\ (LastInv(k) => LastInv(s)) /\ Fresh(s)
  BY <1>1, TakenLocal DEF Same, Fields, Fresh
<1>3. Asked(k)
  BY <1>1 DEF Asked, NoStart
<1>4. QuitOf(k, m, held) => OneStop(s, m, held)
  BY <1>1, <1>3, TakenQuit DEF QuitOf, AskedQuit
<1>5. CASE s.mode = "synthetic"
  BY <1>1, <1>2, <1>4, <1>5, BeginSyntheticLocal DEF OnStart
<1>6. CASE s.mode # "synthetic"
  BY <1>1, <1>2, <1>4, <1>6, BeginLocal DEF OnStart
<1> QED
  BY <1>5, <1>6

\* A thread takes a stop.
LEMMA TakeStopLocal ==
    ASSUME NEW k \in Thread, NEW m, NEW held, Local(k), k.life = "running", k.in # <<>>,
           NEW s, s = [k EXCEPT !.in = Tail(@)], Head(k.in).type # "start"
    PROVE  /\ Local(OnStop(s, Head(k.in).id))
           /\ LastInv(k) /\ QuitOf(k, m, held) => LastInv(OnStop(s, Head(k.in).id))
           /\ QuitOf(k, m, held) => QuitOf(OnStop(s, Head(k.in).id), m, held)
<1> DEFINE id == Head(k.in).id
           z == [s EXCEPT !.stopId = id, !.timer = FALSE]
<1>1. /\ Same(s, k, {"in"}) /\ NoStart(s) /\ s \in Thread
      /\ Head(k.in) = k.in[1] /\ id \in Calls /\ Head(k.in).type = "stop"
      /\ Len(k.in) \in Nat /\ Len(k.in) >= 1
      /\ \A i \in 1 .. Len(s.in) : i + 1 \in 1 .. Len(k.in) /\ s.in[i] = k.in[i + 1]
  BY TakenIs DEF Local
<1>2. /\ Local(s) /\ s.life = "running" /\ (LastInv(k) => LastInv(s))
      /\ QuitOf(k, m, held) => QuitOf(s, m, held)
  <2>1. Local(s) /\ (LastInv(k) => LastInv(s))
    BY TakenLocal
  <2>2. s.life = "running"
    BY <1>1 DEF Same, Fields
  <2>3. QuitOf(k, m, held) => QuitOf(s, m, held)
    BY <1>1, TakenQuit
  <2> QED
    BY <2>1, <2>2, <2>3
<1>3. k.in[1].id = id
  BY <1>1
<1> HIDE DEF id
<1>4. CASE s.stopping # "no"
  BY <1>2, <1>4 DEF OnStop, id
<1>5. CASE s.stopping = "no"
  <2>1. /\ Same(z, s, {"stopId", "timer"}) /\ z.stopId = id /\ ~z.timer
    BY <1>1, Dom DEF Same, Fields
  <2>2. z \in Thread
    BY <1>1, FieldTypes
  <2>3. Local(z) /\ (LastInv(s) => LastInv(z))
    BY <1>1, <1>2, <1>5, StopBegunLocal
  <2>4. OnStop(s, id) = IF s.farm = "none" THEN StopFarmStopped(z)
                        ELSE [z EXCEPT !.stopping = "farm",
                                       !.farm = IF @ = "created" THEN @ ELSE "stopped"]
    BY <1>5 DEF OnStop
  <2> HIDE DEF z
  <2>5. /\ z.in = s.in /\ z.out = s.out /\ z.life = s.life /\ z.stopping = s.stopping
        /\ z.farm = s.farm /\ z.starting = s.starting /\ (Bare(z) <=> Bare(s))
    BY <2>1 DEF Same, Fields, Bare
  <2>6. z.stopId # None /\ NoStart(z)
    BY <1>1, <2>1, <2>5 DEF NoStart, Calls, None
  <2>7. QuitOf(k, m, held) => ~Bare(z)
    <3>1. QuitOf(k, m, held) => ~Bare(k)
      BY <1>1 DEF QuitOf, BareQuit
    <3> QED
      BY <1>1, <2>5, <3>1 DEF Bare, Same, Fields
  <2>8. QuitOf(k, m, held) => AskedQuit(z, m, held)
    <3> SUFFICES ASSUME QuitOf(k, m, held), Asked(z) PROVE OneStop(z, m, held)
      BY DEF AskedQuit
    <3>1. Asked(k)
      BY <1>1, <2>5, <2>6 DEF Asked, Same, Fields
    <3>2. OneStop(k, m, held)
      BY <3>1 DEF QuitOf, AskedQuit
    <3>3. \A i \in 1 .. Len(z.in) : z.in[i].type # "stop"
      <4> SUFFICES ASSUME NEW i \in 1 .. Len(z.in) PROVE z.in[i].type # "stop"
        OBVIOUS
      <4>1. i + 1 \in 1 .. Len(k.in) /\ z.in[i] = k.in[i + 1] /\ i + 1 # 1
        BY <1>1, <2>5
      <4> QED
        BY <1>1, <3>2, <4>1 DEF OneStop
    <3>4. 1 \in 1 .. Len(k.in) /\ k.in[1].type = "stop"
      BY <1>1
    <3>5. m.quitting /\ (held => id \in m.pending)
      BY <1>3, <3>2, <3>4 DEF OneStop
    <3>6. z.out = k.out
      BY <1>1, <2>5 DEF Same, Fields
    <3> QED
      BY <2>1, <3>2, <3>3, <3>5, <3>6 DEF OneStop
  <2>9. CASE s.farm # "none"
    <3> DEFINE r == [z EXCEPT !.stopping = "farm", !.farm = IF @ = "created" THEN @ ELSE "stopped"]
    <3>1. /\ Local(r) /\ (~Bare(z) /\ LastInv(z) => LastInv(r))
          /\ AskedQuit(z, m, held) => QuitOf(r, m, held)
      BY <1>2, <1>5, <2>1, <2>2, <2>3, <2>5, <2>6, <2>9, FarmStopsLocal
    <3> HIDE DEF r
    <3>2. OnStop(s, id) = r
      BY <2>4, <2>9 DEF r
    <3> QED
      BY <1>2, <2>3, <2>7, <2>8, <3>1, <3>2 DEF id
  <2>10. CASE s.farm = "none"
    <3>1. ~z.inFlight
      BY <2>3, <2>5, <2>10 DEF Local, StartInv
    <3>2. /\ Local(StopSave(z)) /\ (LastInv(z) => LastInv(StopSave(z)))
          /\ AskedQuit(z, m, held) => QuitOf(StopSave(z), m, held)
      BY <1>2, <1>5, <2>1, <2>2, <2>3, <2>5, <2>6, <2>10, <3>1, StopSaveLocal
    <3>3. OnStop(s, id) = StopSave(z)
      BY <2>4, <2>10, <3>1 DEF StopFarmStopped
    <3> QED
      BY <1>2, <2>3, <2>8, <3>2, <3>3 DEF id
  <2> QED
    BY <2>9, <2>10
<1> QED
  BY <1>4, <1>5

\* Each way the packs, the checkpoint and the fleet of a start can turn out.
LEMMA LoadLocal ==
    ASSUME NEW k \in Thread, NEW m, NEW held, Local(k), k.life = "running", k.starting = "loading",
           NEW n \in PacksLoaded(k)
    PROVE  Local(n) /\ (LastInv(k) => LastInv(n)) /\ (QuitOf(k, m, held) => QuitOf(n, m, held))
<1>1. NoStart(k)
  BY BegunNoStart DEF Local, Fresh
<1>2. CASE n = StartFails(k)
  BY <1>1, <1>2, StartFailsLocal
<1>3. CASE n = [k EXCEPT !.starting = "restoring", !.store = "open"]
  BY <1>1, <1>3, LoadedLocal
<1> QED
  BY <1>2, <1>3 DEF PacksLoaded

\* A thread places its fleet, or cannot.
LEMMA RestoreLocal ==
    ASSUME NEW k \in Thread, NEW m, NEW held, Local(k), k.life = "running", k.starting = "restoring",
           NEW n \in Restored(k)
    PROVE  Local(n) /\ (LastInv(k) => LastInv(n)) /\ (QuitOf(k, m, held) => QuitOf(n, m, held))
<1> DEFINE Goal(x) == Local(x) /\ (LastInv(k) => LastInv(x)) /\ (QuitOf(k, m, held) => QuitOf(x, m, held))
<1>1. NoStart(k)
  BY BegunNoStart DEF Local, Fresh
<1>2. n = StartFails(k) => Goal(n)
  BY <1>1, StartFailsLocal
<1>3. n = StartFails([k EXCEPT !.farm = "created"]) => Goal(n)
  BY <1>1, CreatedLocal
<1>4. n = StartFails([k EXCEPT !.farm = "deferred"]) => Goal(n)
  BY <1>1, DeferredLocal
<1>5. k.store = "none" /\ n = StartDone(k) => Goal(n)
  BY <1>1, BareStartLocal
<1>6. k.store = "open" /\ n = [Save(k, "start") EXCEPT !.starting = "saving", !.farm = "deferred"] => Goal(n)
  <2> DEFINE r == [Save(k, "start") EXCEPT !.starting = "saving", !.farm = "deferred"]
  <2>1. ASSUME k.store = "open" PROVE Goal(r)
    BY <1>1, <2>1, FirstSaveLocal
  <2> HIDE DEF r
  <2>2. n = r => (Goal(n) <=> Goal(r))
    OBVIOUS
  <2> QED
    BY <2>1, <2>2 DEF r
<1>7. k.store \in {"none", "open", "closing"}
  BY FieldTypes
<1> QED
  BY <1>2, <1>3, <1>4, <1>5, <1>6, <1>7 DEF Restored

\* The handlers that go on when the head of the queue is settled.
LEMMA WriteLocal ==
    ASSUME NEW k \in Thread, NEW m, NEW held, Local(k), k.life = "running", k.queue # <<>>, NEW ok \in BOOLEAN
    PROVE  /\ Local(SaveSettled(k, ok))
           /\ LastInv(k) => LastInv(SaveSettled(k, ok))
           /\ QuitOf(k, m, held) => QuitOf(SaveSettled(k, ok), m, held)
<1> DEFINE Goal(x) == Local(x) /\ (LastInv(k) => LastInv(x)) /\ (QuitOf(k, m, held) => QuitOf(x, m, held))
           job == Head(k.queue)
           v == IF ok THEN job.position ELSE k.durable
           s == [k EXCEPT !.queue = Tail(k.queue), !.durable = v]
           t == [s EXCEPT !.inFlight = FALSE]
<1>1. /\ job = k.queue[1] /\ job.by \in {"start", "timer", "stop"} /\ job.position \in 0 .. MaxMoves
      /\ Tail(k.queue) \in Seq(Job)
  <2>1. job \in Job /\ job = k.queue[1] /\ Tail(k.queue) \in Seq(Job)
    BY HeadJob
  <2> HIDE DEF job
  <2> QED
    BY <2>1 DEF Job
<1>2. SaveSettled(k, ok) =
        CASE job.by = "start" -> IF ok THEN StartSaved(s) ELSE StartFails(s)
          [] job.by = "timer" -> IF k.stopping = "inFlight" THEN StopSave(t) ELSE t
          [] OTHER -> IF ok THEN StopClose([s EXCEPT !.farm = "none"])
                      ELSE Reply([s EXCEPT !.stopping = "no"], "error", k.stopId)
  BY DEF SaveSettled
<1>3. NoStart(k)
  BY BegunNoStart DEF Local, Fresh
<1> HIDE DEF job
<1>4. v \in -1 .. MaxMoves /\ (v = k.durable \/ v >= 0) /\ (ok => v \in 0 .. MaxMoves /\ v = job.position)
  <2>1. k.durable \in -1 .. MaxMoves
    BY FieldTypes
  <2> QED
    BY <1>1, <2>1, MaxMovesAssumption
<1>5. ~ok => s = [k EXCEPT !.queue = Tail(k.queue)]
  BY Dom DEF Thread
<1> HIDE DEF v
<1>6. s \in Thread
  BY <1>1, <1>4, FieldTypes
<1>7. Same(s, k, {"queue", "durable"})
  BY Dom DEF Same, Fields
<1>8. NoStart(s) /\ s.life = "running"
  BY <1>3, <1>7 DEF Same, Fields, NoStart
<1>9. CASE job.by = "start"
  <2>1. Goal(s)
    BY <1>1, <1>3, <1>4, <1>9, SettledLocal
  <2>2. ok /\ k.farm = "deferred" => Goal(StartDone([s EXCEPT !.timer = TRUE]))
    BY <1>1, <1>3, <1>4, <1>9, FirstSavedLocal
  <2>3. s.farm = k.farm
    BY <1>7 DEF Same, Fields
  <2> HIDE DEF s
  <2>4. Goal(StartFails(s))
    BY <1>6, <1>8, <2>1, StartFailsLocal
  <2> QED
    BY <1>2, <1>9, <2>2, <2>3, <2>4 DEF StartSaved
<1>10. CASE job.by = "timer"
  <2>1. Goal(t)
    BY <1>1, <1>3, <1>4, <1>10, TimerSavedLocal
  <2>2. /\ Same(t, k, {"queue", "durable", "inFlight"}) /\ ~t.inFlight /\ t \in Thread
    <3>1. t \in Thread
      BY <1>6, FieldTypes
    <3> QED
      BY <3>1, Dom DEF Same, Fields
  <2> HIDE DEF t
  <2>3. NoStart(t) /\ t.life = "running"
    BY <1>3, <2>2 DEF Same, Fields, NoStart
  <2>4. CASE k.stopping = "inFlight"
    <3>1. t.stopping = "inFlight" /\ ~t.timer /\ t.stopId # None
      BY <2>2, <2>4 DEF Same, Fields, Local, StopInv
    <3>2. Goal(StopSave(t))
      <4>1. t \in Thread /\ ~t.inFlight
        BY <2>2
      <4>2. NoStart(t) /\ t.life = "running" /\ ~t.timer /\ t.stopId # None
        BY <2>3, <3>1
      <4>3. t.stopping \in {"farm", "inFlight"} \/ (t.stopping = "no" /\ t.farm = "none")
        BY <3>1
      <4>4. /\ Local(StopSave(t)) /\ (LastInv(t) => LastInv(StopSave(t)))
            /\ AskedQuit(t, m, held) => QuitOf(StopSave(t), m, held)
        BY <2>1, <4>1, <4>2, <4>3, StopSaveLocal
      <4> QED
        BY <2>1, <4>4 DEF QuitOf
    <3>3. SaveSettled(k, ok) = StopSave(t)
      BY <1>2, <1>10, <2>4
    <3> QED
      BY <3>2, <3>3
  <2> QED
    BY <1>2, <1>10, <2>1, <2>4
<1>11. CASE job.by = "stop"
  <2>1. ok => Goal(StopClose([s EXCEPT !.farm = "none"]))
    <3> SUFFICES ASSUME ok PROVE Goal(StopClose([s EXCEPT !.farm = "none"]))
      OBVIOUS
    <3>1. k.queue[1].by = "stop" /\ v = k.queue[1].position
      BY <1>1, <1>4, <1>11
    <3>2. /\ Local(StopClose([s EXCEPT !.farm = "none"]))
          /\ LastInv(k) => LastInv(StopClose([s EXCEPT !.farm = "none"]))
          /\ AskedQuit(k, m, held) => QuitOf(StopClose([s EXCEPT !.farm = "none"]), m, held)
      BY <1>3, <3>1, LastSavedLocal
    <3> QED
      BY <3>2 DEF QuitOf
  <2>2. ~ok => Goal(Reply([s EXCEPT !.stopping = "no"], "error", k.stopId))
    <3> SUFFICES ASSUME ~ok PROVE Goal(Reply([s EXCEPT !.stopping = "no"], "error", k.stopId))
      OBVIOUS
    <3> DEFINE r == Reply([[k EXCEPT !.queue = Tail(k.queue)] EXCEPT !.stopping = "no"], "error", k.stopId)
    <3>1. /\ Local(r) /\ (LastInv(k) => LastInv(r))
          /\ AskedQuit(k, m, held) => QuitOf(r, m, held)
      BY <1>1, <1>3, <1>11, SaveFailsLocal
    <3>2. Reply([s EXCEPT !.stopping = "no"], "error", k.stopId) = r
      BY <1>5
    <3> HIDE DEF r
    <3> QED
      BY <3>1, <3>2 DEF QuitOf
  <2> QED
    BY <1>2, <1>11, <2>1, <2>2
<1> QED
  BY <1>1, <1>9, <1>10, <1>11

\* No handler ends the thread or changes its mode.
LEMMA LifeKept ==
    ASSUME NEW k \in Thread, NEW id, NEW ok \in BOOLEAN
    PROVE  /\ OnStart(k, id).life = k.life /\ OnStop(k, id).life = k.life
           /\ SaveSettled(k, ok).life = k.life /\ StopFarmStopped(k).life = k.life
           /\ \A n \in PacksLoaded(k) \cup Restored(k) : n.life = k.life
<1>1. DOMAIN k = Fields
  BY Dom
<1>2. \A x : DOMAIN x = Fields => StopSave(x).life = x.life
  BY DEF StopSave, StopClose, StopDone, Save, Reply, Fields
<1>3. \A x : DOMAIN x = Fields => StartFails(x).life = x.life /\ StartDone(x).life = x.life
  BY DEF StartFails, StartDone, Reply, Fields
<1>4. OnStart(k, id).life = k.life
  BY <1>1, <1>3 DEF OnStart, StartDone, Reply, Fields
<1>5. OnStop(k, id).life = k.life
  BY <1>1, <1>2 DEF OnStop, StopFarmStopped, Fields
<1>6. StopFarmStopped(k).life = k.life
  BY <1>1, <1>2 DEF StopFarmStopped, Fields
<1>7. \A n \in PacksLoaded(k) \cup Restored(k) : n.life = k.life
  <2>1. \A n \in PacksLoaded(k) : n.life = k.life
    BY <1>1, <1>3 DEF PacksLoaded, Fields
  <2>2. \A farm : /\ [k EXCEPT !.farm = farm].life = k.life
                  /\ DOMAIN [k EXCEPT !.farm = farm] = Fields
    BY <1>1 DEF Fields
  <2>3. [Save(k, "start") EXCEPT !.starting = "saving", !.farm = "deferred"].life = k.life
    BY <1>1 DEF Save, Fields
  <2>4. ASSUME NEW n \in Restored(k) PROVE n.life = k.life
    <3>1. \/ n = StartFails(k) \/ n = StartDone(k)
          \/ n = StartFails([k EXCEPT !.farm = "created"])
          \/ n = StartFails([k EXCEPT !.farm = "deferred"])
          \/ n = [Save(k, "start") EXCEPT !.starting = "saving", !.farm = "deferred"]
      BY DEF Restored
    <3>2. \A farm : StartFails([k EXCEPT !.farm = farm]).life = k.life
      BY <1>3, <2>2
    <3> QED
      BY <1>1, <1>3, <2>3, <3>1, <3>2
  <2> QED
    BY <2>1, <2>4
<1>8. SaveSettled(k, ok).life = k.life
  BY <1>1, <1>2, <1>3 DEF SaveSettled, StartSaved, StartFails, StartDone, StopClose, StopDone, Reply, Fields
<1> QED
  BY <1>4, <1>5, <1>6, <1>7, <1>8

-----------------------------------------------------------------------------
(* The steps of a worker                                                   *)

\* A step of a thread that runs turns its record into n.
Becomes(w, n) ==
    /\ n \in Thread /\ thread' = [thread EXCEPT ![w] = n] /\ main' = main
    /\ thread[w].life = "running" /\ n.life \in {"running", "exited"}

\* The step keeps the invariants of the thread.
Sound(n, k, m, held) ==
    /\ Local(n)
    /\ LastInv(k) /\ QuitOf(k, m, held) => LastInv(n) /\ QuitOf(n, m, held)

\* Every action of a worker is such a step: it takes a message.
LEMMA TakeStep ==
    ASSUME NEW w \in Workers, thread[w] \in Thread, Local(thread[w]), Take(w), NEW m, NEW held
    PROVE  \E n : Becomes(w, n) /\ Sound(n, thread[w], m, held)
<1> DEFINE k == thread[w]
           s == [k EXCEPT !.in = Tail(@)]
           msg == Head(k.in)
           n == IF msg.type = "start" THEN OnStart(s, msg.id) ELSE OnStop(s, msg.id)
<1>1. /\ k \in Thread /\ Local(k) /\ k.life = "running" /\ k.in # <<>>
      /\ thread' = [thread EXCEPT ![w] = n] /\ main' = main
  BY DEF Take, Runs, Become
<1> HIDE DEF k
<1>2. s \in Thread /\ msg.id \in Calls /\ s.life = k.life
  <2>1. s \in Thread /\ msg.id \in Calls /\ Same(s, k, {"in"})
    BY <1>1, TakenIs DEF Local
  <2> QED
    BY <2>1 DEF Same, Fields
<1>3. Sound(n, k, m, held)
  BY <1>1, TakeStartLocal, TakeStopLocal DEF Sound
<1>4. n \in Thread /\ n.life = k.life
  BY <1>2, OnStartType, OnStopType, LifeKept
<1> QED
  BY <1>1, <1>3, <1>4 DEF Becomes, k

\* It has loaded the route packs.
LEMMA LoadStep ==
    ASSUME NEW w \in Workers, thread[w] \in Thread, Local(thread[w]), Load(w), NEW m, NEW held
    PROVE  \E n : Becomes(w, n) /\ Sound(n, thread[w], m, held)
<1>1. PICK n \in PacksLoaded(thread[w]) : Become(w, n)
  BY DEF Load
<1>2. thread[w].life = "running" /\ thread[w].starting = "loading"
  BY DEF Load, Runs
<1>3. Sound(n, thread[w], m, held)
  BY <1>2, LoadLocal DEF Sound
<1>4. n \in Thread /\ n.life = thread[w].life
  BY PacksLoadedType, LifeKept
<1> QED
  BY <1>1, <1>2, <1>3, <1>4 DEF Becomes, Become

\* It has restored a checkpoint.
LEMMA RestoreStep ==
    ASSUME NEW w \in Workers, thread[w] \in Thread, Local(thread[w]), Restore(w), NEW m, NEW held
    PROVE  \E n : Becomes(w, n) /\ Sound(n, thread[w], m, held)
<1>1. PICK n \in Restored(thread[w]) : Become(w, n)
  BY DEF Restore
<1>2. thread[w].life = "running" /\ thread[w].starting = "restoring"
  BY DEF Restore, Runs
<1>3. Sound(n, thread[w], m, held)
  BY <1>2, RestoreLocal DEF Sound
<1>4. n \in Thread /\ n.life = thread[w].life
  BY RestoredType, LifeKept
<1> QED
  BY <1>1, <1>2, <1>3, <1>4 DEF Becomes, Become

\* It has written a checkpoint.
LEMMA WriteStep ==
    ASSUME NEW w \in Workers, thread[w] \in Thread, Local(thread[w]), Write(w), NEW m, NEW held
    PROVE  \E n : Becomes(w, n) /\ Sound(n, thread[w], m, held)
<1>1. PICK ok \in BOOLEAN : Become(w, SaveSettled(thread[w], ok))
  BY DEF Write
<1>2. thread[w].life = "running" /\ thread[w].queue # <<>>
  BY DEF Write, Runs
<1>3. Sound(SaveSettled(thread[w], ok), thread[w], m, held)
  BY <1>2, WriteLocal DEF Sound
<1>4. /\ SaveSettled(thread[w], ok) \in Thread
      /\ SaveSettled(thread[w], ok).life = thread[w].life
  BY <1>2, SaveSettledType, LifeKept
<1> QED
  BY <1>1, <1>2, <1>3, <1>4 DEF Becomes, Become

\* Its farm has stopped.
LEMMA FarmStoppedStep ==
    ASSUME NEW w \in Workers, thread[w] \in Thread, Local(thread[w]), FarmStopped(w), NEW m, NEW held
    PROVE  \E n : Becomes(w, n) /\ Sound(n, thread[w], m, held)
<1> DEFINE k == thread[w]
<1>1. /\ k \in Thread /\ Local(k) /\ k.life = "running" /\ k.stopping = "farm"
      /\ Become(w, StopFarmStopped(k))
  BY DEF FarmStopped, Runs
<1> HIDE DEF k
<1>2. NoStart(k) /\ ~k.timer /\ k.stopId # None
  BY <1>1, BegunNoStart DEF Local, Fresh, StopInv
<1>3. Sound(StopFarmStopped(k), k, m, held)
  <2>1. CASE k.inFlight
    BY <1>1, <1>2, <2>1, StopWaitsLocal DEF Sound, StopFarmStopped, QuitOf
  <2>2. CASE ~k.inFlight
    BY <1>1, <1>2, <2>2, StopSaveLocal DEF Sound, StopFarmStopped, QuitOf
  <2> QED
    BY <2>1, <2>2
<1>4. StopFarmStopped(k) \in Thread /\ StopFarmStopped(k).life = k.life
  BY <1>1, StopFarmStoppedType, LifeKept
<1> QED
  BY <1>1, <1>3, <1>4 DEF Becomes, Become, k

\* Its store is closed.
LEMMA StoreClosedStep ==
    ASSUME NEW w \in Workers, thread[w] \in Thread, Local(thread[w]), StoreClosed(w), NEW m, NEW held
    PROVE  \E n : Becomes(w, n) /\ Sound(n, thread[w], m, held)
<1> DEFINE k == thread[w]
<1>1. /\ k \in Thread /\ Local(k) /\ k.life = "running" /\ k.stopping = "closing" /\ k.queue = <<>>
      /\ Become(w, StopDone(k))
  BY DEF StoreClosed, Runs
<1> HIDE DEF k
<1>2. NoStart(k)
  BY <1>1, BegunNoStart DEF Local, Fresh
<1>3. Sound(StopDone(k), k, m, held)
  BY <1>1, <1>2, StopDoneLocal DEF Sound, QuitOf
<1>4. StopDone(k) \in Thread /\ StopDone(k).life = k.life
  <2>1. StopDone(k) \in Thread
    BY <1>1, StopDoneType
  <2>2. StopDone(k).life = k.life
    BY <1>1, Dom DEF StopDone, Reply, Fields
  <2> QED
    BY <2>1, <2>2
<1> QED
  BY <1>1, <1>3, <1>4 DEF Becomes, Become, k

\* Its timer asks for a checkpoint.
LEMMA CheckpointStep ==
    ASSUME NEW w \in Workers, thread[w] \in Thread, Local(thread[w]), Checkpoint(w), NEW m, NEW held
    PROVE  \E n : Becomes(w, n) /\ Sound(n, thread[w], m, held)
<1> DEFINE k == thread[w]
           n == [Save(k, "timer") EXCEPT !.inFlight = TRUE]
<1>1. /\ k \in Thread /\ Local(k) /\ k.life = "running" /\ k.timer /\ k.farm # "none" /\ ~k.inFlight
      /\ thread' = [thread EXCEPT ![w] = n] /\ main' = main
  BY DEF Checkpoint, Runs, Become
<1> HIDE DEF k
<1>2. NoStart(k)
  BY <1>1, BegunNoStart DEF Local, Fresh
<1>3. Sound(n, k, m, held)
  BY <1>1, <1>2, CheckpointLocal DEF Sound
<1>4. n \in Thread
  BY <1>1, SaveType, FieldTypes
<1>5. n.life = k.life
  BY <1>1, Dom DEF Save, Fields
<1> QED
  BY <1>1, <1>3, <1>4, <1>5 DEF Becomes, k

\* Its vehicles move.
LEMMA MoveStep ==
    ASSUME NEW w \in Workers, thread[w] \in Thread, Local(thread[w]), Move(w), NEW m, NEW held
    PROVE  \E n : Becomes(w, n) /\ Sound(n, thread[w], m, held)
<1> DEFINE k == thread[w]
           n == [k EXCEPT !.position = @ + 1]
<1>1. /\ k \in Thread /\ Local(k) /\ k.life = "running" /\ k.farm = "active" /\ k.position < MaxMoves
      /\ thread' = [thread EXCEPT ![w] = n] /\ main' = main
  BY DEF Move, Runs, Become
<1> HIDE DEF k
<1>2. NoStart(k)
  BY <1>1, BegunNoStart DEF Local, Fresh
<1>3. Sound(n, k, m, held)
  BY <1>1, <1>2, MoveLocal DEF Sound
<1>4. n \in Thread
  <2>1. k.position \in 0 .. MaxMoves
    BY <1>1, FieldTypes
  <2>2. k.position + 1 \in 0 .. MaxMoves
    BY <1>1, <2>1, MaxMovesAssumption
  <2> QED
    BY <1>1, <2>2, FieldTypes
<1>5. n.life = k.life
  BY <1>1, Dom DEF Fields
<1> QED
  BY <1>1, <1>3, <1>4, <1>5 DEF Becomes, k

\* A thread that only reports something keeps what quitting asks of it.
LEMMA ReportQuit ==
    ASSUME NEW k \in Thread, NEW n, NEW m, NEW held, NEW type \in MessageTypes \ {"started"},
           Same(n, k, {"life", "failed", "out"}), Sends(n, k, type, None), QuitOf(k, m, held)
    PROVE  QuitOf(n, m, held)
<1>1. /\ n.in = k.in /\ n.stopId = k.stopId /\ n.stopping = k.stopping /\ n.starting = k.starting
      /\ (Bare(n) <=> Bare(k))
  BY DEF Same, Fields, Bare
<1>2. /\ NoStart(k) <=> NoStart(n)
      /\ OneStop(k, m, held) => OneStop(n, m, held)
      /\ \A i \in 1 .. Len(k.out) : Ends(k, i, m) => i \in 1 .. Len(n.out) /\ Ends(n, i, m)
      /\ BareQuit(k, m, held) => BareQuit(n, m, held)
  BY <1>1, SentQuit
<1>3. AskedQuit(n, m, held) /\ (Asked(n) => Asked(k))
  BY <1>1, <1>2, KeptQuit DEF QuitOf
<1>4. EndedQuit(n, m, held)
  BY <1>1, <1>2, <1>3 DEF QuitOf, EndedQuit
<1> QED
  BY <1>2, <1>3, <1>4 DEF QuitOf

\* It throws.
LEMMA ThrowStep ==
    ASSUME NEW w \in Workers, thread[w] \in Thread, Local(thread[w]), Throw(w), NEW m, NEW held
    PROVE  \E n : Becomes(w, n) /\ Sound(n, thread[w], m, held)
<1> DEFINE k == thread[w]
           n == Reply([k EXCEPT !.failed = TRUE], "fatal", None)
<1>1. /\ k \in Thread /\ Local(k) /\ k.life = "running"
      /\ thread' = [thread EXCEPT ![w] = n] /\ main' = main
  BY DEF Throw, Runs, Become
<1> HIDE DEF k
<1>2. Sound(n, k, m, held)
  BY <1>1, ThrowLocal DEF Sound
<1>3. n \in Thread
  <2>1. [k EXCEPT !.failed = TRUE] \in Thread
    BY <1>1, FieldTypes
  <2> QED
    BY <2>1, ReplyType DEF MessageTypes
<1>4. n.life = k.life
  BY <1>1, Dom DEF Reply, Fields
<1> QED
  BY <1>1, <1>2, <1>3, <1>4 DEF Becomes, k

\* It runs out of memory.
LEMMA CrashStep ==
    ASSUME NEW w \in Workers, thread[w] \in Thread, Local(thread[w]), Crash(w), NEW m, NEW held
    PROVE  \E n : Becomes(w, n) /\ Sound(n, thread[w], m, held)
<1> DEFINE k == thread[w]
           x == [k EXCEPT !.life = "exited", !.failed = TRUE]
           y == Reply(x, "failure", None)
           n == Reply(y, "exit", None)
<1>1. /\ k \in Thread /\ Local(k) /\ k.life = "running"
      /\ thread' = [thread EXCEPT ![w] = n] /\ main' = main
  BY DEF Crash, Runs, Become
<1> HIDE DEF k
<1>2. x \in Thread /\ y \in Thread /\ n \in Thread
  <2>1. x \in Thread
    BY <1>1, FieldTypes
  <2>2. y \in Thread
    BY <2>1, ReplyType DEF MessageTypes
  <2>3. n \in Thread
    BY <2>2, ReplyType DEF MessageTypes
  <2> QED
    BY <2>1, <2>2, <2>3
<1>3. PICK e : e = [[[k EXCEPT !.life = "exited"] EXCEPT !.failed = TRUE] EXCEPT !.out = n.out]
  OBVIOUS
<1>4. Local(n) /\ (LastInv(k) => LastInv(n))
  <2>1. Local(e) /\ (LastInv(k) => LastInv(e))
    BY <1>1, <1>3, EndLocal
  <2>2. n = e
    BY <1>1, <1>3, Dom DEF Reply, Thread
  <2> HIDE DEF n
  <2> QED
    BY <2>1, <2>2
<1>5. /\ Same(y, k, {"life", "failed", "out"}) /\ Sends(y, k, "failure", None)
      /\ Same(n, y, {"life", "failed", "out"}) /\ Sends(n, y, "exit", None) /\ n.life = "exited"
  BY <1>1, Dom DEF Same, Fields, Reply, Sends, Answer
<1>6. QuitOf(k, m, held) => QuitOf(y, m, held)
  BY <1>1, <1>5, ReportQuit DEF MessageTypes
<1>7. QuitOf(y, m, held) => QuitOf(n, m, held)
  BY <1>2, <1>5, ReportQuit DEF MessageTypes
<1> QED
  BY <1>1, <1>2, <1>4, <1>5, <1>6, <1>7 DEF Becomes, Sound, k

\* It is terminated.
LEMMA DieStep ==
    ASSUME NEW w \in Workers, thread[w] \in Thread, Local(thread[w]), Die(w), NEW m, NEW held
    PROVE  \E n : Becomes(w, n) /\ Sound(n, thread[w], m, held)
<1> DEFINE k == thread[w]
           n == Reply([k EXCEPT !.life = "exited"], "exit", None)
<1>1. /\ k \in Thread /\ Local(k) /\ k.life = "running"
      /\ thread' = [thread EXCEPT ![w] = n] /\ main' = main
  BY DEF Die, Runs, Become
<1> HIDE DEF k
<1>2. n \in Thread
  <2>1. [k EXCEPT !.life = "exited"] \in Thread
    BY <1>1, FieldTypes
  <2> QED
    BY <2>1, ReplyType DEF MessageTypes
<1>3. PICK e : e = [[[k EXCEPT !.life = "exited"] EXCEPT !.failed = k.failed] EXCEPT !.out = n.out]
  OBVIOUS
<1>4. Local(n) /\ (LastInv(k) => LastInv(n))
  <2>1. Local(e) /\ (LastInv(k) => LastInv(e))
    BY <1>1, <1>3, EndLocal
  <2>2. n = e
    BY <1>1, <1>3, Dom DEF Reply, Thread
  <2> HIDE DEF n
  <2> QED
    BY <2>1, <2>2
<1>5. Same(n, k, {"life", "failed", "out"}) /\ Sends(n, k, "exit", None) /\ n.life = "exited"
  BY <1>1, Dom DEF Same, Fields, Reply, Sends, Answer
<1>6. QuitOf(k, m, held) => QuitOf(n, m, held)
  BY <1>1, <1>5, ReportQuit DEF MessageTypes
<1> QED
  BY <1>1, <1>2, <1>4, <1>5, <1>6 DEF Becomes, Sound, k

\* Every step of a worker is one of these.
WorkerStep(w) ==
    \/ Take(w) \/ Load(w) \/ Restore(w) \/ Write(w) \/ Checkpoint(w) \/ FarmStopped(w)
    \/ StoreClosed(w) \/ Move(w) \/ Throw(w) \/ Crash(w) \/ Die(w)

\* Whatever a worker does, its thread stays sound.
LEMMA WorkerSteps ==
    ASSUME NEW w \in Workers, thread[w] \in Thread, Local(thread[w]), WorkerStep(w),
           NEW m, NEW held
    PROVE  \E n : Becomes(w, n) /\ Sound(n, thread[w], m, held)
BY TakeStep, LoadStep, RestoreStep, WriteStep, CheckpointStep, FarmStoppedStep, StoreClosedStep,
   MoveStep, ThrowStep, CrashStep, DieStep DEF WorkerStep

-----------------------------------------------------------------------------
(* The main process                                                        *)

CallRecord == [kind : {"none", "start", "stop", "quit"},
               stage : {"unused", "checking", "requested", "terminating", "done"},
               awaits : Workers \cup {None}]

\* The fields of the main record, and what may be put into each.
LEMMA MainTypes ==
    ASSUME NEW m \in Main
    PROVE
        /\ m.worker \in Workers \cup {None}
        /\ \A v \in Workers \cup {None} : [m EXCEPT !.worker = v] \in Main
        /\ m.running \in BOOLEAN
        /\ \A v \in BOOLEAN : [m EXCEPT !.running = v] \in Main
        /\ m.pending \in SUBSET Calls
        /\ \A v \in SUBSET Calls : [m EXCEPT !.pending = v] \in Main
        /\ m.startPending \in BOOLEAN
        /\ \A v \in BOOLEAN : [m EXCEPT !.startPending = v] \in Main
        /\ m.quitting \in BOOLEAN
        /\ \A v \in BOOLEAN : [m EXCEPT !.quitting = v] \in Main
        /\ m.open \in BOOLEAN
        /\ \A v \in BOOLEAN : [m EXCEPT !.open = v] \in Main
        /\ m.shown \in BOOLEAN
        /\ \A v \in BOOLEAN : [m EXCEPT !.shown = v] \in Main
        /\ m.terminating \in SUBSET Workers
        /\ \A v \in SUBSET Workers : [m EXCEPT !.terminating = v] \in Main
        /\ m.call \in [Calls -> CallRecord]
        /\ \A v \in [Calls -> CallRecord] : [m EXCEPT !.call = v] \in Main
<1>1. m.worker \in Workers \cup {None} /\ \A v \in Workers \cup {None} : [m EXCEPT !.worker = v] \in Main
  BY DEF Main
<1>2. m.running \in BOOLEAN /\ \A v \in BOOLEAN : [m EXCEPT !.running = v] \in Main
  BY DEF Main
<1>3. m.pending \in SUBSET Calls /\ \A v \in SUBSET Calls : [m EXCEPT !.pending = v] \in Main
  BY DEF Main
<1>4. m.startPending \in BOOLEAN /\ \A v \in BOOLEAN : [m EXCEPT !.startPending = v] \in Main
  BY DEF Main
<1>5. m.quitting \in BOOLEAN /\ \A v \in BOOLEAN : [m EXCEPT !.quitting = v] \in Main
  BY DEF Main
<1>6. m.open \in BOOLEAN /\ \A v \in BOOLEAN : [m EXCEPT !.open = v] \in Main
  BY DEF Main
<1>7. m.shown \in BOOLEAN /\ \A v \in BOOLEAN : [m EXCEPT !.shown = v] \in Main
  BY DEF Main
<1>8. m.terminating \in SUBSET Workers /\ \A v \in SUBSET Workers : [m EXCEPT !.terminating = v] \in Main
  BY DEF Main
<1>9. m.call \in [Calls -> CallRecord] /\ \A v \in [Calls -> CallRecord] : [m EXCEPT !.call = v] \in Main
  BY DEF Main, CallRecord
<1> QED
  BY <1>1, <1>2, <1>3, <1>4, <1>5, <1>6, <1>7, <1>8, <1>9

MainFields == {"worker", "running", "pending", "startPending", "quitting", "open", "shown",
               "terminating", "call"}
SameMain(n, m, changed) == \A f \in MainFields \ changed : n[f] = m[f]

\* Every main record has these fields.
LEMMA DomMain == \A m \in Main : DOMAIN m = MainFields
BY DEF Main, MainFields

\* The fields of a call.
LEMMA CallTypes ==
    ASSUME NEW m \in Main, NEW c \in Calls
    PROVE  /\ m.call[c] \in CallRecord /\ DOMAIN m.call = Calls
           /\ m.call[c].kind \in {"none", "start", "stop", "quit"}
           /\ m.call[c].stage \in {"unused", "checking", "requested", "terminating", "done"}
           /\ \A stage \in {"unused", "checking", "requested", "terminating", "done"} :
                [m.call[c] EXCEPT !.stage = stage] \in CallRecord
           /\ \A r \in CallRecord : [m.call EXCEPT ![c] = r] \in [Calls -> CallRecord]
<1>1. m.call \in [Calls -> CallRecord]
  BY MainTypes
<1>2. m.call[c] \in CallRecord /\ DOMAIN m.call = Calls
  BY <1>1
<1> QED
  BY <1>1, <1>2 DEF CallRecord

\* What each step of the controller does to the main record.
LEMMA TerminateIs ==
    ASSUME NEW m \in Main
    PROVE  /\ Terminate(m) \in Main
           /\ SameMain(Terminate(m), m, {"worker", "terminating"})
           /\ Terminate(m).worker = None
           /\ Terminate(m).terminating = m.terminating \cup ({m.worker} \ {None})
<1>1. m.terminating \cup ({m.worker} \ {None}) \in SUBSET Workers /\ None \in Workers \cup {None}
  BY MainTypes
<1>2. Terminate(m) \in Main
  BY <1>1, MainTypes DEF Terminate
<1> QED
  BY <1>2, DomMain DEF Terminate, SameMain, MainFields

\* The requests of S are settled, and their calls go on to terminate the worker.
LEMMA ReleaseIs ==
    ASSUME NEW m \in Main, NEW S \in SUBSET Calls, NEW r, r = Release(m, S)
    PROVE  /\ r \in Main
           /\ r.worker = IF S = {} THEN m.worker ELSE None
           /\ r.terminating = IF S = {} THEN m.terminating
                              ELSE m.terminating \cup ({m.worker} \ {None})
           /\ r.pending = m.pending \ S
           /\ r.running => m.running /\ ~\E c \in S : m.call[c].kind \in {"stop", "quit"}
           /\ r.startPending = m.startPending /\ r.quitting = m.quitting
           /\ r.open = m.open /\ r.shown = m.shown
           /\ \A c \in Calls :
                /\ r.call[c].kind = m.call[c].kind
                /\ r.call[c].stage = IF c \in S THEN "terminating" ELSE m.call[c].stage
<1> DEFINE first(c) == \A e \in S : c <= e
           t == IF S = {} THEN m ELSE Terminate(m)
           call == [c \in Calls |->
                       IF c \in S
                       THEN [m.call[c] EXCEPT !.stage = "terminating",
                                              !.awaits = IF first(c) THEN m.worker ELSE None]
                       ELSE m.call[c]]
           running == m.running /\ ~\E c \in S : m.call[c].kind \in {"stop", "quit"}
           n == [t EXCEPT !.pending = m.pending \ S, !.running = running, !.call = call]
<1>1. t \in Main /\ t.pending = m.pending /\ t.running = m.running
      /\ SameMain(t, m, {"worker", "terminating"})
      /\ t.worker = (IF S = {} THEN m.worker ELSE None)
      /\ t.terminating = (IF S = {} THEN m.terminating ELSE m.terminating \cup ({m.worker} \ {None}))
  BY TerminateIs DEF SameMain, MainFields
<1>2. r = n
  <2>1. Release(m, S) = [t EXCEPT !.pending = @ \ S,
            !.running = @ /\ ~\E c \in S : m.call[c].kind \in {"stop", "quit"},
            !.call = call]
    BY DEF Release
  <2> QED
    BY <2>1, <1>1
<1> HIDE DEF t
<1>3. \A c \in Calls : /\ call[c] \in CallRecord /\ call[c].kind = m.call[c].kind
                       /\ call[c].stage = IF c \in S THEN "terminating" ELSE m.call[c].stage
  <2> SUFFICES ASSUME NEW c \in Calls
               PROVE  /\ call[c] \in CallRecord /\ call[c].kind = m.call[c].kind
                      /\ call[c].stage = IF c \in S THEN "terminating" ELSE m.call[c].stage
    OBVIOUS
  <2>1. m.call[c] \in CallRecord /\ m.worker \in Workers \cup {None}
    BY CallTypes, MainTypes
  <2>2. CASE c \in S
    <3>1. PICK a \in Workers \cup {None} : a = IF first(c) THEN m.worker ELSE None
      BY <2>1
    <3>2. call[c] = [m.call[c] EXCEPT !.stage = "terminating", !.awaits = a]
      BY <2>2, <3>1
    <3> HIDE DEF call
    <3> QED
      BY <2>1, <2>2, <3>2 DEF CallRecord
  <2>3. CASE c \notin S
    BY <2>1, <2>3
  <2> QED
    BY <2>2, <2>3
<1>4. call \in [Calls -> CallRecord]
  BY <1>3
<1> HIDE DEF call
<1>5. running \in BOOLEAN /\ m.pending \ S \in SUBSET Calls
  BY MainTypes
<1> HIDE DEF running
<1>6. n \in Main
  BY <1>1, <1>4, <1>5, MainTypes
<1>7. /\ n.pending = m.pending \ S /\ n.running = running /\ n.call = call
      /\ SameMain(n, t, {"pending", "running", "call"})
  BY <1>1, DomMain DEF SameMain, MainFields
<1> HIDE DEF n
<1>8. /\ n.worker = t.worker /\ n.terminating = t.terminating
      /\ n.startPending = m.startPending /\ n.quitting = m.quitting
      /\ n.open = m.open /\ n.shown = m.shown
  BY <1>1, <1>7 DEF SameMain, MainFields
<1> QED
  BY <1>1, <1>2, <1>3, <1>6, <1>7, <1>8 DEF running

\* The calls of S go on to wait for the worker to be gone, and nothing else of
\* the calls or the application's flags changes.
Settles(n, m, S) ==
    /\ n \in Main
    /\ n.pending = m.pending \ S
    /\ n.startPending = m.startPending /\ n.quitting = m.quitting /\ n.open = m.open
    /\ \A c \in Calls :
        /\ n.call[c].kind = m.call[c].kind
        /\ n.call[c].stage = IF c \in S THEN "terminating" ELSE m.call[c].stage

\* The worker is let go of, and terminated.
LetsGo(n, m) ==
    n.worker = None /\ n.terminating = m.terminating \cup ({m.worker} \ {None})

\* What Release does, in the words of Settles and LetsGo.
LEMMA ReleaseSettles ==
    ASSUME NEW m \in Main, NEW S \in SUBSET Calls, NEW n, n = Release(m, S)
    PROVE  /\ Settles(n, m, S) /\ n.shown = m.shown
           /\ n.running => m.running /\ ~\E c \in S : m.call[c].kind \in {"stop", "quit"}
           /\ S = {} => n.worker = m.worker /\ n.terminating = m.terminating
           /\ S # {} => LetsGo(n, m)
<1>1. /\ n \in Main
      /\ n.worker = IF S = {} THEN m.worker ELSE None
      /\ n.terminating = IF S = {} THEN m.terminating
                         ELSE m.terminating \cup ({m.worker} \ {None})
      /\ n.pending = m.pending \ S
      /\ n.running => m.running /\ ~\E c \in S : m.call[c].kind \in {"stop", "quit"}
      /\ n.startPending = m.startPending /\ n.quitting = m.quitting
      /\ n.open = m.open /\ n.shown = m.shown
      /\ \A c \in Calls :
           /\ n.call[c].kind = m.call[c].kind
           /\ n.call[c].stage = IF c \in S THEN "terminating" ELSE m.call[c].stage
  BY ReleaseIs
<1> QED
  BY <1>1 DEF Settles, LetsGo

\* A start is answered.
LEMMA StartedIs ==
    ASSUME NEW m \in Main, NEW c \in Calls, NEW n, n = Started(m, c)
    PROVE  /\ n \in Main /\ SameMain(n, m, {"pending", "running", "startPending", "shown", "call"})
           /\ n.pending = m.pending \ {c} /\ n.running /\ ~n.startPending /\ n.shown
           /\ \A e \in Calls :
                /\ n.call[e].kind = m.call[e].kind
                /\ n.call[e].stage = IF e = c THEN "done" ELSE m.call[e].stage
<1> DEFINE call == [m.call EXCEPT ![c].stage = "done"]
<1>1. \A e \in Calls : m.call[e] \in CallRecord /\ DOMAIN m.call = Calls
  BY CallTypes
<1>2. call = [m.call EXCEPT ![c] = [m.call[c] EXCEPT !.stage = "done"]]
  OBVIOUS
<1>3. [m.call[c] EXCEPT !.stage = "done"] \in CallRecord
  BY CallTypes
<1>4. call \in [Calls -> CallRecord]
  BY <1>2, <1>3, CallTypes
<1>5. \A e \in Calls : /\ call[e].kind = m.call[e].kind
                       /\ call[e].stage = IF e = c THEN "done" ELSE m.call[e].stage
  BY <1>1 DEF CallRecord
<1>6. n = [m EXCEPT !.pending = @ \ {c}, !.running = TRUE, !.startPending = FALSE,
                    !.shown = TRUE, !.call = call]
  BY DEF Started
<1> HIDE DEF call
<1>7. m.pending \ {c} \in SUBSET Calls
  BY MainTypes
<1>8. n \in Main
  <2>1. [m EXCEPT !.pending = @ \ {c}, !.running = TRUE, !.startPending = FALSE] \in Main
    BY <1>7, MainTypes
  <2>2. PICK x \in Main :
            x = [m EXCEPT !.pending = @ \ {c}, !.running = TRUE, !.startPending = FALSE]
    BY <2>1
  <2>3. [x EXCEPT !.shown = TRUE, !.call = call] \in Main
    BY <1>4, MainTypes
  <2>4. n = [x EXCEPT !.shown = TRUE, !.call = call]
    BY <1>6, <2>2
  <2> QED
    BY <2>3, <2>4
<1> QED
  BY <1>5, <1>6, <1>8, DomMain DEF SameMain, MainFields

\* A call makes its request.
LEMMA RequestIs ==
    ASSUME NEW m \in Main, NEW c \in Calls, NEW kind \in {"start", "stop", "quit"}
    PROVE  /\ Request(m, c, kind) \in Main
           /\ SameMain(Request(m, c, kind), m, {"pending", "call"})
           /\ Request(m, c, kind).pending = m.pending \cup {c}
           /\ \A e \in Calls :
                /\ Request(m, c, kind).call[e].kind = IF e = c THEN kind ELSE m.call[e].kind
                /\ Request(m, c, kind).call[e].stage =
                      IF e = c THEN "requested" ELSE m.call[e].stage
<1> DEFINE n == Request(m, c, kind)
<1> DEFINE r == [kind |-> kind, stage |-> "requested", awaits |-> None]
           call == [m.call EXCEPT ![c] = r]
<1>1. r \in CallRecord /\ r.kind = kind /\ r.stage = "requested"
  BY DEF CallRecord
<1> HIDE DEF r
<1>2. call \in [Calls -> CallRecord] /\ DOMAIN m.call = Calls
  BY <1>1, CallTypes
<1>3. \A e \in Calls : /\ call[e].kind = IF e = c THEN kind ELSE m.call[e].kind
                       /\ call[e].stage = IF e = c THEN "requested" ELSE m.call[e].stage
  BY <1>1, <1>2
<1>4. n = [m EXCEPT !.pending = @ \cup {c}, !.call = call]
  BY DEF Request, r
<1> HIDE DEF call, n
<1>5. m.pending \cup {c} \in SUBSET Calls
  BY MainTypes
<1>6. n \in Main
  <2>1. [m EXCEPT !.pending = m.pending \cup {c}, !.call = call] \in Main
    BY <1>2, <1>5, MainTypes
  <2> QED
    BY <1>4, <2>1
<1>7. SameMain(n, m, {"pending", "call"}) /\ n.pending = m.pending \cup {c} /\ n.call = call
  BY <1>4, <1>6, DomMain DEF SameMain, MainFields
<1> QED
  BY <1>3, <1>6, <1>7 DEF n

\* A fatal error settles every request and terminates the worker.
LEMMA FatalIs ==
    ASSUME NEW m \in Main, NEW n, n = OnFatal(m)
    PROVE  Settles(n, m, m.pending) /\ LetsGo(n, m) /\ ~n.running /\ ~n.shown
<1> DEFINE u == [m EXCEPT !.shown = FALSE, !.running = FALSE]
           t == Terminate(u)
<1>1. u \in Main /\ SameMain(u, m, {"shown", "running"}) /\ ~u.shown /\ ~u.running
  <2>1. u \in Main
    BY MainTypes
  <2> QED
    BY <2>1, DomMain DEF SameMain, MainFields
<1>2. n = Release(t, m.pending)
  BY DEF OnFatal
<1> HIDE DEF u
<1>3. /\ t \in Main /\ SameMain(t, u, {"worker", "terminating"}) /\ t.worker = None
      /\ t.terminating = u.terminating \cup ({u.worker} \ {None})
  BY <1>1, TerminateIs
<1> HIDE DEF t
<1>4. /\ ~t.shown /\ ~t.running /\ t.pending = m.pending /\ t.call = m.call
      /\ t.startPending = m.startPending /\ t.quitting = m.quitting /\ t.open = m.open
      /\ t.terminating = m.terminating \cup ({m.worker} \ {None})
  BY <1>1, <1>3 DEF SameMain, MainFields
<1>5. m.pending \in SUBSET Calls
  BY MainTypes
<1>6. /\ Settles(n, t, m.pending) /\ n.shown = t.shown /\ (n.running => t.running)
      /\ m.pending = {} => n.worker = t.worker /\ n.terminating = t.terminating
      /\ m.pending # {} => LetsGo(n, t)
  <2>1. t \in Main
    BY <1>3
  <2> QED
    BY <1>2, <1>5, <2>1, ReleaseSettles
<1>7. LetsGo(n, m)
  BY <1>3, <1>4, <1>6 DEF LetsGo
<1>8. Settles(n, m, m.pending)
  BY <1>4, <1>6 DEF Settles
<1> QED
  BY <1>4, <1>6, <1>7, <1>8

\* An error of the thread terminates the worker if a request waits for it.
LEMMA FailureIs ==
    ASSUME NEW m \in Main, NEW n, n = OnWorkerFailure(m)
    PROVE  /\ Settles(n, m, m.pending) /\ ~n.running /\ ~n.shown
           /\ m.pending = {} => n.worker = m.worker /\ n.terminating = m.terminating
           /\ m.pending # {} => LetsGo(n, m)
<1> DEFINE u == [m EXCEPT !.shown = FALSE]
           r == Release(u, m.pending)
<1>1. u \in Main /\ SameMain(u, m, {"shown"}) /\ ~u.shown
  <2>1. u \in Main
    BY MainTypes
  <2> QED
    BY <2>1, DomMain DEF SameMain, MainFields
<1>2. n = [r EXCEPT !.running = FALSE]
  BY DEF OnWorkerFailure
<1> HIDE DEF u
<1>3. m.pending \in SUBSET Calls
  BY MainTypes
<1>4. /\ Settles(r, u, m.pending) /\ r.shown = u.shown
      /\ m.pending = {} => r.worker = u.worker /\ r.terminating = u.terminating
      /\ m.pending # {} => LetsGo(r, u)
  BY <1>1, <1>3, ReleaseSettles
<1> HIDE DEF r
<1>5. r \in Main
  BY <1>4 DEF Settles
<1>6. n \in Main /\ SameMain(n, r, {"running"}) /\ ~n.running
  <2>1. n \in Main
    BY <1>2, <1>5, MainTypes
  <2> QED
    BY <1>2, <1>5, <2>1, DomMain DEF SameMain, MainFields
<1>7. /\ u.pending = m.pending /\ u.call = m.call /\ u.worker = m.worker
      /\ u.startPending = m.startPending /\ u.quitting = m.quitting /\ u.open = m.open
      /\ u.terminating = m.terminating
  BY <1>1 DEF SameMain, MainFields
<1>8. /\ n.pending = r.pending /\ n.call = r.call /\ n.worker = r.worker /\ n.shown = r.shown
      /\ n.startPending = r.startPending /\ n.quitting = r.quitting /\ n.open = r.open
      /\ n.terminating = r.terminating
  BY <1>6 DEF SameMain, MainFields
<1> QED
  BY <1>1, <1>4, <1>6, <1>7, <1>8 DEF Settles, LetsGo

\* The exit of the thread lets go of the worker without terminating it.
LEMMA ExitIs ==
    ASSUME NEW m \in Main, NEW n, n = OnWorkerExit(m)
    PROVE  /\ ~n.running /\ n.worker = None /\ n.terminating = m.terminating
           /\ m.worker = None => Settles(n, m, {}) /\ n.shown = m.shown
           /\ m.worker # None => Settles(n, m, m.pending) /\ ~n.shown
<1> DEFINE t == [m EXCEPT !.worker = None, !.running = FALSE]
           u == [t EXCEPT !.shown = FALSE]
<1>1. /\ t \in Main /\ SameMain(t, m, {"worker", "running"}) /\ t.worker = None /\ ~t.running
  <2>1. t \in Main
    BY MainTypes
  <2> QED
    BY <2>1, DomMain DEF SameMain, MainFields
<1>2. n = IF m.worker = None THEN t ELSE Release(u, m.pending)
  BY DEF OnWorkerExit
<1> HIDE DEF t
<1>3. u \in Main /\ SameMain(u, t, {"shown"}) /\ ~u.shown
  <2>1. u \in Main
    BY <1>1, MainTypes
  <2> QED
    BY <1>1, <2>1, DomMain DEF SameMain, MainFields
<1> HIDE DEF u
<1>4. /\ t.pending = m.pending /\ t.call = m.call /\ t.shown = m.shown
      /\ t.startPending = m.startPending /\ t.quitting = m.quitting /\ t.open = m.open
      /\ t.terminating = m.terminating
  BY <1>1 DEF SameMain, MainFields
<1>5. CASE m.worker = None
  BY <1>1, <1>2, <1>4, <1>5 DEF Settles
<1>6. CASE m.worker # None
  <2>1. /\ u.pending = t.pending /\ u.call = t.call /\ u.worker = None /\ ~u.running
        /\ u.startPending = t.startPending /\ u.quitting = t.quitting /\ u.open = t.open
        /\ u.terminating = t.terminating
    BY <1>1, <1>3 DEF SameMain, MainFields
  <2>2. m.pending \in SUBSET Calls
    BY MainTypes
  <2>3. /\ Settles(n, u, m.pending) /\ n.shown = u.shown /\ (n.running => u.running)
        /\ m.pending = {} => n.worker = u.worker /\ n.terminating = u.terminating
        /\ m.pending # {} => LetsGo(n, u)
    <3>1. u \in Main /\ n = Release(u, m.pending)
      BY <1>2, <1>3, <1>6
    <3> QED
      BY <2>2, <3>1, ReleaseSettles
  <2>4. n.worker = None /\ n.terminating = m.terminating
    BY <1>4, <2>1, <2>3 DEF LetsGo
  <2> QED
    BY <1>3, <1>4, <1>6, <2>1, <2>3, <2>4 DEF Settles
<1> QED
  BY <1>5, <1>6

-----------------------------------------------------------------------------
(* The steps of the main process                                           *)

\* The record of one call is replaced.
PutCall(m, c, r) == [m EXCEPT !.call[c] = r]

\* A call is replaced and nothing else.
LEMMA CallPut ==
    ASSUME NEW m \in Main, NEW c \in Calls, NEW r \in CallRecord
    PROVE  /\ PutCall(m, c, r) \in Main /\ SameMain(PutCall(m, c, r), m, {"call"})
           /\ \A e \in Calls : PutCall(m, c, r).call[e] = IF e = c THEN r ELSE m.call[e]
<1> DEFINE call == [m.call EXCEPT ![c] = r]
<1>1. m.call \in [Calls -> CallRecord]
  BY MainTypes
<1>2. /\ call \in [Calls -> CallRecord]
      /\ \A e \in Calls : call[e] = IF e = c THEN r ELSE m.call[e]
  BY <1>1
<1>3. PutCall(m, c, r) = [m EXCEPT !.call = call]
  BY DEF PutCall
<1> HIDE DEF call
<1>4. PutCall(m, c, r) \in Main
  BY <1>2, <1>3, MainTypes
<1>5. PutCall(m, c, r).call = call /\ SameMain(PutCall(m, c, r), m, {"call"})
  BY <1>3, DomMain DEF SameMain, MainFields
<1> QED
  BY <1>2, <1>4, <1>5

\* What each action of a call does: a start begins.
LEMMA ClickStartIs ==
    ASSUME TypeOK, NEW c \in Calls, ClickStart(c)
    PROVE  /\ main' \in Main /\ SameMain(main', main, {"call", "startPending"}) /\ thread' = thread
           /\ main'.startPending
           /\ \A e \in Calls :
                /\ main'.call[e].kind = IF e = c THEN "start" ELSE main.call[e].kind
                /\ main'.call[e].stage = IF e = c THEN "checking" ELSE main.call[e].stage
<1>1. main \in Main
  BY DEF TypeOK
<1>2. PICK r \in CallRecord : r = [kind |-> "start", stage |-> "checking", awaits |-> None]
  BY DEF CallRecord
<1>3. PICK x : x = PutCall(main, c, r)
  OBVIOUS
<1>4. /\ x \in Main /\ SameMain(x, main, {"call"})
      /\ \A e \in Calls : x.call[e] = IF e = c THEN r ELSE main.call[e]
  BY <1>1, <1>2, <1>3, CallPut
<1>5. main' = [x EXCEPT !.startPending = TRUE] /\ thread' = thread
  BY <1>2, <1>3 DEF ClickStart, PutCall
<1>6. main' \in Main
  BY <1>4, <1>5, MainTypes
<1>7. SameMain(main', x, {"startPending"}) /\ main'.startPending
  BY <1>4, <1>5, DomMain DEF SameMain, MainFields
<1>8. main'.call = x.call /\ SameMain(main', main, {"call", "startPending"})
  BY <1>4, <1>7 DEF SameMain, MainFields
<1>9. r.kind = "start" /\ r.stage = "checking"
  BY <1>2
<1> QED
  BY <1>4, <1>5, <1>6, <1>7, <1>8, <1>9

\* A start is refused.
LEMMA StartRefusedIs ==
    ASSUME TypeOK, NEW c \in Calls, StartRefused(c)
    PROVE  /\ main' \in Main /\ SameMain(main', main, {"call", "startPending"}) /\ thread' = thread
           /\ ~main'.startPending
           /\ \A e \in Calls :
                /\ main'.call[e].kind = main.call[e].kind
                /\ main'.call[e].stage = IF e = c THEN "done" ELSE main.call[e].stage
<1>1. main \in Main
  BY DEF TypeOK
<1>2. PICK r \in CallRecord : r = [main.call[c] EXCEPT !.stage = "done"]
  BY <1>1, CallTypes
<1>3. PICK x : x = PutCall(main, c, r)
  OBVIOUS
<1>4. /\ x \in Main /\ SameMain(x, main, {"call"})
      /\ \A e \in Calls : x.call[e] = IF e = c THEN r ELSE main.call[e]
  BY <1>1, <1>2, <1>3, CallPut
<1>5. main' = [x EXCEPT !.startPending = FALSE] /\ thread' = thread
  BY <1>2, <1>3 DEF StartRefused, PutCall
<1>6. main' \in Main
  BY <1>4, <1>5, MainTypes
<1>7. SameMain(main', x, {"startPending"}) /\ ~main'.startPending
  BY <1>4, <1>5, DomMain DEF SameMain, MainFields
<1>8. r.kind = main.call[c].kind /\ r.stage = "done"
  <2>1. main.call[c] \in CallRecord
    BY <1>1, CallTypes
  <2> QED
    BY <1>2, <2>1 DEF CallRecord
<1>9. main'.call = x.call /\ SameMain(main', main, {"call", "startPending"})
  BY <1>4, <1>7 DEF SameMain, MainFields
<1> QED
  BY <1>4, <1>5, <1>6, <1>7, <1>8, <1>9

\* A worker is made.
LEMMA LaunchIs ==
    ASSUME TypeOK, NEW c \in Calls, NEW w \in Workers, NEW mode \in Modes, Launch(c, w, mode)
    PROVE  /\ main' \in Main /\ SameMain(main', main, {"call", "pending", "worker"})
           /\ main'.worker = w /\ main'.pending = main.pending \cup {c}
           /\ \A e \in Calls :
                /\ main'.call[e].kind = IF e = c THEN "start" ELSE main.call[e].kind
                /\ main'.call[e].stage = IF e = c THEN "requested" ELSE main.call[e].stage
<1>1. main \in Main
  BY DEF TypeOK
<1> DEFINE x == Request(main, c, "start")
<1>3. /\ x \in Main /\ SameMain(x, main, {"pending", "call"})
      /\ x.pending = main.pending \cup {c}
      /\ \A e \in Calls :
           /\ x.call[e].kind = IF e = c THEN "start" ELSE main.call[e].kind
           /\ x.call[e].stage = IF e = c THEN "requested" ELSE main.call[e].stage
  BY <1>1, RequestIs
<1>4. main' = [x EXCEPT !.worker = w]
  BY DEF Launch
<1> HIDE DEF x
<1>5. main' \in Main
  BY <1>3, <1>4, MainTypes
<1>6. SameMain(main', x, {"worker"}) /\ main'.worker = w
  BY <1>3, <1>4, DomMain DEF SameMain, MainFields
<1> QED
  BY <1>3, <1>5, <1>6 DEF SameMain, MainFields

\* A thread may be of either mode.
LEMMA ModeType ==
    ASSUME NEW k \in Thread, NEW mode \in {"synthetic", "real-road"}
    PROVE  [k EXCEPT !.mode = mode] \in Thread
BY DEF Thread

\* The thread that a launch makes.
LEMMA LaunchedThread ==
    ASSUME TypeOK, NEW c \in Calls, NEW w \in Workers, NEW mode \in Modes, Launch(c, w, mode)
    PROVE  \E n \in Thread :
              /\ thread' = [thread EXCEPT ![w] = n] /\ Local(n) /\ LastInv(n)
              /\ n.life = "running" /\ n.in = <<[type |-> "start", id |-> c]>> /\ n.out = <<>>
              /\ Fresh(n)
<1> DEFINE msg == [type |-> "start", id |-> c]
           n == [NewThread EXCEPT !.life = "running", !.mode = mode, !.in = <<msg>>]
<1>1. thread' = [thread EXCEPT ![w] = n]
  BY DEF Launch
<1>2. /\ msg \in Message /\ msg.type = "start" /\ msg.id = c /\ mode \in {"synthetic", "real-road"}
  BY ModesAssumption DEF Message
<1>3. <<msg>> \in Seq(Message) /\ Len(<<msg>>) = 1 /\ <<msg>>[1] = msg
  BY <1>2
<1>4. NewThread \in Thread
  BY MaxMovesAssumption DEF NewThread, Thread, None
<1>5. n \in Thread
  <2>1. PICK v \in Seq(Message) : v = <<msg>>
    BY <1>3
  <2>2. n = [[NewThread EXCEPT !.life = "running"] EXCEPT !.mode = mode, !.in = v]
    BY <2>1
  <2>3. [NewThread EXCEPT !.life = "running"] \in Thread
    BY <1>4, FieldTypes
  <2>4. \A x \in Thread : [x EXCEPT !.mode = mode] \in Thread
    <3> SUFFICES ASSUME NEW x \in Thread PROVE [x EXCEPT !.mode = mode] \in Thread
      OBVIOUS
    <3> QED
      BY <1>2, ModeType
  <2>5. \A x \in Thread : [x EXCEPT !.in = v] \in Thread
    BY FieldTypes
  <2> HIDE DEF n
  <2> QED
    BY <2>2, <2>3, <2>4, <2>5
<1>6. /\ n.life = "running" /\ n.in = <<msg>> /\ n.out = <<>> /\ Fresh(n) /\ n.queue = <<>>
      /\ n.mode = mode /\ Len(n.out) = 0 /\ Len(n.queue) = 0 /\ n.durable = -1
  BY DEF NewThread, Fresh
<1> HIDE DEF n, msg
<1>7. MailInv(n)
  BY <1>2, <1>3, <1>6 DEF MailInv
<1>8. StartInv(n) /\ StopInv(n) /\ QueueInv(n) /\ LastInv(n)
  BY <1>6 DEF Fresh, StartInv, StopInv, QueueInv, LastInv
<1> QED
  BY <1>1, <1>5, <1>6, <1>7, <1>8 DEF Local, msg

\* A call returns.
LEMMA TerminatedIs ==
    ASSUME TypeOK, NEW c \in Calls, Terminated(c)
    PROVE  /\ main' \in Main /\ SameMain(main', main, {"call", "startPending", "shown", "open"})
           /\ thread' = thread
           /\ main'.startPending => main.startPending /\ main.call[c].kind # "start"
           /\ main'.shown => main.shown
           /\ main.shown /\ main.call[c].kind # "stop" => main'.shown
           /\ \A e \in Calls :
                /\ main'.call[e].kind = main.call[e].kind
                /\ main'.call[e].stage = IF e = c THEN "done" ELSE main.call[e].stage
<1>1. main \in Main
  BY DEF TypeOK
<1>2. PICK r \in CallRecord : r = [main.call[c] EXCEPT !.stage = "done"]
  BY <1>1, CallTypes
<1>3. PICK x : x = PutCall(main, c, r)
  OBVIOUS
<1>4. /\ x \in Main /\ SameMain(x, main, {"call"})
      /\ \A e \in Calls : x.call[e] = IF e = c THEN r ELSE main.call[e]
  BY <1>1, <1>2, <1>3, CallPut
<1> DEFINE p == main.startPending /\ main.call[c].kind # "start"
           s == main.shown /\ main.call[c].kind # "stop"
           o == main.call[c].kind # "quit"
<1>5. main' = [x EXCEPT !.startPending = p, !.shown = s, !.open = o] /\ thread' = thread
  <2>1. main' = [x EXCEPT !.startPending = @ /\ main.call[c].kind # "start",
                          !.shown = @ /\ main.call[c].kind # "stop", !.open = o]
    BY <1>2, <1>3 DEF Terminated, PutCall
  <2>2. x.startPending = main.startPending /\ x.shown = main.shown
    BY <1>4 DEF SameMain, MainFields
  <2> QED
    BY <2>1, <2>2 DEF Terminated
<1>6. p \in BOOLEAN /\ s \in BOOLEAN /\ o \in BOOLEAN
  OBVIOUS
<1>7. (p => main.startPending /\ main.call[c].kind # "start") /\ (s <=> main.shown /\ main.call[c].kind # "stop")
  OBVIOUS
<1> HIDE DEF p, s, o
<1>8. main' \in Main
  BY <1>4, <1>5, <1>6, MainTypes
<1>9. /\ SameMain(main', x, {"startPending", "shown", "open"})
      /\ main'.startPending = p /\ main'.shown = s
  BY <1>4, <1>5, DomMain DEF SameMain, MainFields
<1>10. r.kind = main.call[c].kind /\ r.stage = "done"
  <2>1. main.call[c] \in CallRecord
    BY <1>1, CallTypes
  <2> QED
    BY <1>2, <2>1 DEF CallRecord
<1>11. SameMain(main', main, {"call", "startPending", "shown", "open"})
  BY <1>4, <1>9 DEF SameMain, MainFields
<1>12. \A e \in Calls : main'.call[e] = IF e = c THEN r ELSE main.call[e]
  BY <1>4, <1>9 DEF SameMain, MainFields
<1> QED
  BY <1>5, <1>7, <1>8, <1>9, <1>10, <1>11, <1>12

\* A request to stop is put into a thread's mailbox.
LEMMA PostIs ==
    ASSUME TypeOK, NEW w \in Workers, NEW c \in Calls, Local(thread[w])
    PROVE  LET n == [thread[w] EXCEPT !.in = Append(@, [type |-> "stop", id |-> c])] IN
           /\ n \in Thread /\ PostStop(w, c) = [thread EXCEPT ![w] = n]
           /\ Local(n) /\ (LastInv(thread[w]) => LastInv(n))
           /\ Same(n, thread[w], {"in"})
<1> DEFINE k == thread[w]
           msg == [type |-> "stop", id |-> c]
           n == [k EXCEPT !.in = Append(@, msg)]
<1>1. k \in Thread /\ Local(k)
  BY DEF TypeOK
<1>2. PostStop(w, c) = [thread EXCEPT ![w] = n]
  BY DEF PostStop
<1> HIDE DEF k
<1>3. Local(n) /\ (LastInv(k) => LastInv(n))
  BY <1>1, PostLocal
<1>4. Same(n, k, {"in"})
  BY <1>1, Dom DEF Same, Fields
<1>5. n \in Thread
  <2>1. k.in \in Seq(Message) /\ msg \in Message
    BY <1>1, FieldTypes DEF Message
  <2>2. Append(k.in, msg) \in Seq(Message)
    BY <2>1, AppendElems
  <2> QED
    BY <1>1, <2>2, FieldTypes
<1> QED
  BY <1>2, <1>3, <1>4, <1>5 DEF k

\* The main process takes a message of a thread.
LEMMA ReadIs ==
    ASSUME TypeOK, NEW w \in Workers, Local(thread[w]), Deliver(w)
    PROVE  /\ Head(thread[w].out) = thread[w].out[1] /\ Head(thread[w].out) \in Message
           /\ Len(thread[w].out) \in Nat /\ Len(thread[w].out) >= 1
           /\ main' = OnMessage(main, Head(thread[w].out))
           /\ thread[w].life \in {"running", "exited"}
           /\ \E n \in Thread :
                /\ thread' = [thread EXCEPT ![w] = n]
                /\ Local(n) /\ (LastInv(thread[w]) => LastInv(n))
                /\ Head(thread[w].out).type = "exit" =>
                     thread[w].life = "exited" /\ n.life = "gone" /\ n = [NewThread EXCEPT !.life = "gone"]
                /\ Head(thread[w].out).type # "exit" =>
                     /\ Same(n, thread[w], {"out"}) /\ n.out = Tail(thread[w].out)
                     /\ Len(n.out) = Len(thread[w].out) - 1
                     /\ \A i \in 1 .. Len(n.out) :
                           i + 1 \in 1 .. Len(thread[w].out) /\ n.out[i] = thread[w].out[i + 1]
<1> DEFINE k == thread[w]
           msg == Head(k.out)
           n == IF msg.type = "exit" THEN [NewThread EXCEPT !.life = "gone"]
                ELSE [k EXCEPT !.out = Tail(@)]
<1>1. /\ k \in Thread /\ Local(k) /\ k.out # <<>> /\ main' = OnMessage(main, msg)
      /\ thread' = [thread EXCEPT ![w] = n]
  <2>1. k \in Thread /\ Local(k)
    BY DEF TypeOK
  <2>2. k.out # <<>> /\ main' = OnMessage(main, msg)
    BY DEF Deliver
  <2>3. thread' = [thread EXCEPT ![w] = n]
    BY DEF Deliver
  <2> QED
    BY <2>1, <2>2, <2>3
<1> HIDE DEF k
<1>2. /\ k.out \in Seq(Message) /\ msg \in Message /\ msg = k.out[1] /\ Tail(k.out) \in Seq(Message)
      /\ Len(k.out) \in Nat /\ Len(k.out) >= 1 /\ Len(Tail(k.out)) = Len(k.out) - 1
      /\ \A i \in 1 .. Len(k.out) - 1 : Tail(k.out)[i] = k.out[i + 1]
  <2>1. k.out \in Seq(Message)
    BY <1>1, FieldTypes
  <2> QED
    BY <1>1, <2>1, TailElems
<1>3. k.life \in {"running", "exited"}
  BY <1>1, FieldTypes DEF Local, MailInv
<1>4. msg.type = "exit" => k.life = "exited"
  <2>1. 1 \in 1 .. Len(k.out)
    BY <1>2
  <2> QED
    BY <1>1, <1>2, <2>1 DEF Local, MailInv
<1> HIDE DEF msg
<1>5. CASE msg.type = "exit"
  <2>1. n = [NewThread EXCEPT !.life = "gone"]
    BY <1>5
  <2>2. NewThread \in Thread
    BY MaxMovesAssumption DEF NewThread, Thread, None
  <2>3. n \in Thread
    BY <2>1, <2>2, FieldTypes
  <2>4. /\ n.life = "gone" /\ n.in = <<>> /\ n.out = <<>> /\ Fresh(n)
        /\ Len(n.in) = 0 /\ Len(n.out) = 0 /\ Len(n.queue) = 0 /\ n.durable = -1
    <3>1. /\ n.life = "gone" /\ n.in = <<>> /\ n.out = <<>> /\ n.queue = <<>>
          /\ n.starting = "no" /\ n.stopping = "no" /\ n.stopId = None
          /\ n.farm = "none" /\ n.store = "none" /\ n.position = 0 /\ n.durable = -1
      BY <2>1 DEF NewThread
    <3>2. ~n.timer /\ ~n.inFlight
      BY <2>1 DEF NewThread
    <3> QED
      BY <3>1, <3>2 DEF Fresh
  <2> HIDE DEF n
  <2>5. MailInv(n)
    BY <2>4 DEF MailInv
  <2>6. StartInv(n) /\ StopInv(n) /\ QueueInv(n) /\ LastInv(n)
    BY <2>4 DEF Fresh, StartInv, StopInv, QueueInv, LastInv
  <2> QED
    BY <1>1, <1>2, <1>3, <1>4, <1>5, <2>1, <2>3, <2>4, <2>5, <2>6 DEF Local, k, msg
<1>6. CASE msg.type # "exit"
  <2>1. n = [k EXCEPT !.out = Tail(@)]
    BY <1>6
  <2>2. n \in Thread /\ Local(n) /\ (LastInv(k) => LastInv(n))
    <3>1. n \in Thread
      <4>1. PICK v \in Seq(Message) : v = Tail(k.out)
        BY <1>2
      <4>2. [k EXCEPT !.out = v] \in Thread
        BY <1>1, FieldTypes
      <4>3. n = [k EXCEPT !.out = v]
        BY <2>1, <4>1
      <4> QED
        BY <4>2, <4>3
    <3>2. Local([k EXCEPT !.out = Tail(@)]) /\ (LastInv(k) => LastInv([k EXCEPT !.out = Tail(@)]))
      BY <1>1, ReadLocal
    <3> QED
      BY <2>1, <3>1, <3>2
  <2>3. Same(n, k, {"out"}) /\ n.out = Tail(k.out)
    BY <1>1, <2>1, Dom DEF Same, Fields
  <2> HIDE DEF n
  <2>4. /\ Len(n.out) = Len(k.out) - 1
        /\ \A i \in 1 .. Len(n.out) : i + 1 \in 1 .. Len(k.out) /\ n.out[i] = k.out[i + 1]
    BY <1>2, <2>3
  <2> QED
    BY <1>1, <1>2, <1>3, <1>6, <2>2, <2>3, <2>4 DEF k, msg
<1> QED
  BY <1>5, <1>6

\* What the message does to the main process.
LEMMA MessageIs ==
    ASSUME TypeOK, NEW msg \in Message, NEW n, n = OnMessage(main, msg)
    PROVE  /\ n \in Main
           /\ \/ n = main /\ msg.id \notin main.pending /\ msg.type \notin {"fatal", "failure", "exit"}
              \/ /\ msg.type = "started" /\ msg.id \in main.pending /\ n = Started(main, msg.id)
              \/ /\ msg.type \notin {"started", "fatal", "failure", "exit"} /\ msg.id \in main.pending
                 /\ n = Release(main, {msg.id})
              \/ msg.type = "fatal" /\ n = OnFatal(main)
              \/ msg.type = "failure" /\ n = OnWorkerFailure(main)
              \/ msg.type = "exit" /\ n = OnWorkerExit(main)
<1>1. main \in Main /\ main.pending \in SUBSET Calls
  BY MainTypes DEF TypeOK
<1>2. CASE msg.type = "fatal"
  BY <1>1, <1>2, FatalIs DEF OnMessage, Settles
<1>3. CASE msg.type = "failure"
  BY <1>1, <1>3, FailureIs DEF OnMessage, Settles
<1>4. CASE msg.type = "exit"
  BY <1>1, <1>4, ExitIs DEF OnMessage, Settles
<1>5. CASE msg.type \notin {"fatal", "failure", "exit"}
  <2>1. n = OnReply(main, msg)
    BY <1>5 DEF OnMessage
  <2>2. CASE msg.id \notin main.pending
    BY <1>1, <1>5, <2>1, <2>2 DEF OnReply
  <2>3. CASE msg.id \in main.pending
    <3>1. msg.id \in Calls /\ {msg.id} \in SUBSET Calls
      BY <1>1, <2>3
    <3>2. CASE msg.type = "started"
      BY <1>1, <2>1, <2>3, <3>1, <3>2, StartedIs DEF OnReply
    <3>3. CASE msg.type # "started"
      BY <1>1, <1>5, <2>1, <2>3, <3>1, <3>3, ReleaseSettles DEF OnReply, Settles
    <3> QED
      BY <3>2, <3>3
  <2> QED
    BY <2>2, <2>3
<1> QED
  BY <1>2, <1>3, <1>4, <1>5

\* The user clicks Stop.
LEMMA ClickStopIs ==
    ASSUME TypeOK, NEW c \in Calls, ClickStop(c)
    PROVE  \/ /\ main.worker = None /\ thread' = thread
              /\ main' \in Main /\ SameMain(main', main, {"shown"}) /\ ~main'.shown
           \/ /\ main.worker \in Workers /\ thread' = PostStop(main.worker, c)
              /\ main.call[c].stage = "unused"
              /\ main' \in Main /\ SameMain(main', main, {"pending", "call"})
              /\ main'.pending = main.pending \cup {c}
              /\ \A e \in Calls :
                   /\ main'.call[e].kind = IF e = c THEN "stop" ELSE main.call[e].kind
                   /\ main'.call[e].stage = IF e = c THEN "requested" ELSE main.call[e].stage
<1>1. main \in Main /\ main.worker \in Workers \cup {None}
  BY MainTypes DEF TypeOK
<1>2. CASE main.worker = None
  <2>1. main' = [main EXCEPT !.shown = FALSE] /\ thread' = thread
    BY <1>2 DEF ClickStop
  <2>2. main' \in Main
    BY <1>1, <2>1, MainTypes
  <2> QED
    BY <1>1, <1>2, <2>1, <2>2, DomMain DEF SameMain, MainFields
<1>3. CASE main.worker # None
  <2> DEFINE x == Request(main, c, "stop")
  <2>1. /\ main' = x /\ thread' = PostStop(main.worker, c)
        /\ main.call[c].stage = "unused"
    BY <1>3 DEF ClickStop, NextCall
  <2>2. /\ x \in Main /\ SameMain(x, main, {"pending", "call"})
        /\ x.pending = main.pending \cup {c}
        /\ \A e \in Calls :
             /\ x.call[e].kind = IF e = c THEN "stop" ELSE main.call[e].kind
             /\ x.call[e].stage = IF e = c THEN "requested" ELSE main.call[e].stage
    BY <1>1, RequestIs
  <2> HIDE DEF x
  <2> QED
    BY <1>1, <1>3, <2>1, <2>2
<1> QED
  BY <1>2, <1>3

\* The user quits.
LEMMA QuitIs ==
    ASSUME TypeOK, NEW c \in Calls, Quit(c)
    PROVE  \/ /\ main.worker = None /\ thread' = thread
              /\ main' \in Main /\ SameMain(main', main, {"quitting", "open"}) /\ main'.quitting
           \/ /\ main.worker \in Workers /\ thread' = PostStop(main.worker, c)
              /\ main' \in Main /\ SameMain(main', main, {"pending", "call", "quitting"})
              /\ main'.quitting /\ main'.pending = main.pending \cup {c}
              /\ \A e \in Calls :
                   /\ main'.call[e].kind = IF e = c THEN "quit" ELSE main.call[e].kind
                   /\ main'.call[e].stage = IF e = c THEN "requested" ELSE main.call[e].stage
<1>1. main \in Main /\ main.worker \in Workers \cup {None}
  BY MainTypes DEF TypeOK
<1>2. CASE main.worker = None
  <2>1. main' = [main EXCEPT !.quitting = TRUE, !.open = FALSE] /\ thread' = thread
    BY <1>2 DEF Quit
  <2>2. main' \in Main
    BY <1>1, <2>1, MainTypes
  <2> QED
    BY <1>1, <1>2, <2>1, <2>2, DomMain DEF SameMain, MainFields
<1>3. CASE main.worker # None
  <2> DEFINE x == Request(main, c, "quit")
  <2>1. /\ main' = [x EXCEPT !.quitting = TRUE] /\ thread' = PostStop(main.worker, c)
    BY <1>3 DEF Quit
  <2>2. /\ x \in Main /\ SameMain(x, main, {"pending", "call"})
        /\ x.pending = main.pending \cup {c}
        /\ \A e \in Calls :
             /\ x.call[e].kind = IF e = c THEN "quit" ELSE main.call[e].kind
             /\ x.call[e].stage = IF e = c THEN "requested" ELSE main.call[e].stage
    BY <1>1, RequestIs
  <2> HIDE DEF x
  <2>3. main' \in Main
    BY <2>1, <2>2, MainTypes
  <2>4. SameMain(main', x, {"quitting"}) /\ main'.quitting
    BY <2>1, <2>2, DomMain DEF SameMain, MainFields
  <2>5. SameMain(main', main, {"pending", "call", "quitting"}) /\ main'.pending = x.pending /\ main'.call = x.call
    BY <2>2, <2>4 DEF SameMain, MainFields
  <2> QED
    BY <1>1, <1>3, <2>1, <2>2, <2>3, <2>4, <2>5
<1> QED
  BY <1>2, <1>3

-----------------------------------------------------------------------------
(* What holds whatever the operator does                                   *)

BaseInv == TypeOK /\ \A w \in Workers : Local(thread[w])

\* No thread has been made when the application starts.
LEMMA NewThreads ==
    /\ NewThread \in Thread /\ Local(NewThread) /\ LastInv(NewThread) /\ Fresh(NewThread)
    /\ NewThread.life = "unborn" /\ NewThread.in = <<>> /\ NewThread.out = <<>>
    /\ NewThread.mode = "synthetic"
<1>1. NewThread \in Thread
  BY MaxMovesAssumption DEF NewThread, Thread, None
<1>2. /\ Fresh(NewThread) /\ NewThread.in = <<>> /\ NewThread.out = <<>>
      /\ Len(NewThread.in) = 0 /\ Len(NewThread.out) = 0 /\ Len(NewThread.queue) = 0
      /\ NewThread.mode = "synthetic" /\ NewThread.life = "unborn" /\ NewThread.durable = -1
  BY DEF NewThread, Fresh
<1>3. MailInv(NewThread)
  BY <1>2 DEF MailInv
<1>4. StartInv(NewThread) /\ StopInv(NewThread) /\ QueueInv(NewThread) /\ LastInv(NewThread)
  BY <1>2 DEF Fresh, StartInv, StopInv, QueueInv, LastInv
<1> QED
  BY <1>1, <1>2, <1>3, <1>4 DEF Local

\* The invariant of the threads holds at first.
LEMMA BaseInit == Init => BaseInv
<1> SUFFICES ASSUME Init PROVE BaseInv
  OBVIOUS
<1>1. thread \in [Workers -> Thread] /\ \A w \in Workers : Local(thread[w])
  BY NewThreads DEF Init
<1>2. main \in Main
  BY DEF Init, Main, None
<1> QED
  BY <1>1, <1>2 DEF BaseInv, TypeOK

\* A step changes one thread at most.
LEMMA BaseOne ==
    ASSUME BaseInv, main' \in Main, NEW w \in Workers, NEW n \in Thread,
           thread' = [thread EXCEPT ![w] = n], Local(n)
    PROVE  BaseInv'
<1>1. thread' \in [Workers -> Thread] /\ \A v \in Workers : thread'[v] = IF v = w THEN n ELSE thread[v]
  BY DEF BaseInv, TypeOK
<1>2. \A v \in Workers : Local(thread'[v])
  BY <1>1 DEF BaseInv
<1> QED
  BY <1>1, <1>2 DEF BaseInv, TypeOK

\* A step that changes no thread keeps it.
LEMMA BaseNone ==
    ASSUME BaseInv, main' \in Main, thread' = thread
    PROVE  BaseInv'
BY DEF BaseInv, TypeOK

\* The steps a call takes.
CallStep(c) ==
    \/ ClickStart(c) \/ StartRefused(c) \/ ClickStop(c) \/ Quit(c) \/ Terminated(c) \/ Timeout(c)
    \/ \E w \in Workers, mode \in Modes : Launch(c, w, mode)

\* Time is up for a request.
LEMMA TimeoutIs ==
    ASSUME TypeOK, NEW c \in Calls, Timeout(c)
    PROVE  /\ c \in main.pending /\ thread' = thread
           /\ Settles(main', main, {c}) /\ LetsGo(main', main) /\ main'.shown = main.shown
           /\ main'.running => main.running /\ main.call[c].kind \notin {"stop", "quit"}
<1>1. main \in Main /\ {c} \in SUBSET Calls /\ {c} # {}
  BY DEF TypeOK
<1>2. main' = Release(main, {c}) /\ c \in main.pending /\ thread' = thread
  BY DEF Timeout
<1>3. /\ Settles(main', main, {c}) /\ main'.shown = main.shown
      /\ main'.running => main.running /\ ~\E e \in {c} : main.call[e].kind \in {"stop", "quit"}
      /\ {c} # {} => LetsGo(main', main)
  BY <1>1, <1>2, ReleaseSettles
<1> QED
  BY <1>1, <1>2, <1>3

\* The steps of a call keep it.
LEMMA BaseCall ==
    ASSUME BaseInv, NEW c \in Calls, CallStep(c)
    PROVE  BaseInv'
<1> USE DEF BaseInv
<1>1. CASE ClickStart(c)
  BY <1>1, ClickStartIs, BaseNone
<1>2. CASE StartRefused(c)
  BY <1>2, StartRefusedIs, BaseNone
<1>3. CASE ClickStop(c)
  <2>1. CASE thread' = thread
    BY <1>3, <2>1, ClickStopIs, BaseNone
  <2>2. CASE main.worker \in Workers /\ thread' = PostStop(main.worker, c)
    BY <1>3, <2>2, ClickStopIs, PostIs, BaseOne
  <2> QED
    BY <1>3, <2>1, <2>2, ClickStopIs
<1>4. CASE Quit(c)
  <2>1. CASE thread' = thread
    BY <1>4, <2>1, QuitIs, BaseNone
  <2>2. CASE main.worker \in Workers /\ thread' = PostStop(main.worker, c)
    BY <1>4, <2>2, QuitIs, PostIs, BaseOne
  <2> QED
    BY <1>4, <2>1, <2>2, QuitIs
<1>5. CASE Terminated(c)
  BY <1>5, TerminatedIs, BaseNone
<1>6. CASE Timeout(c)
  BY <1>6, TimeoutIs, BaseNone DEF Settles
<1>7. ASSUME NEW w \in Workers, NEW mode \in Modes, Launch(c, w, mode) PROVE BaseInv'
  BY <1>7, LaunchIs, LaunchedThread, BaseOne
<1> QED
  BY <1>1, <1>2, <1>3, <1>4, <1>5, <1>6, <1>7 DEF CallStep

\* The messages and the steps of a worker keep it.
LEMMA BaseWorker ==
    ASSUME BaseInv, NEW w \in Workers, Deliver(w) \/ WorkerStep(w)
    PROVE  BaseInv'
<1>1. CASE Deliver(w)
  <2>1. /\ TypeOK /\ Local(thread[w]) /\ Head(thread[w].out) \in Message
        /\ main' = OnMessage(main, Head(thread[w].out))
    BY <1>1, ReadIs DEF BaseInv
  <2>2. main' \in Main
    BY <2>1, MessageIs
  <2>3. \E n \in Thread : thread' = [thread EXCEPT ![w] = n] /\ Local(n)
    BY <1>1, <2>1, ReadIs
  <2> QED
    BY <2>2, <2>3, BaseOne
<1>2. CASE WorkerStep(w)
  <2>1. thread[w] \in Thread /\ Local(thread[w]) /\ main \in Main
    BY DEF BaseInv, TypeOK
  <2>2. PICK n : Becomes(w, n) /\ Sound(n, thread[w], main, TRUE)
    BY <1>2, <2>1, WorkerSteps
  <2>3. main' \in Main /\ n \in Thread /\ thread' = [thread EXCEPT ![w] = n] /\ Local(n)
    BY <2>1, <2>2 DEF Becomes, Sound
  <2> QED
    BY <2>3, BaseOne
<1> QED
  BY <1>1, <1>2

\* Every step is of a call or of a worker.
LEMMA NextIs ==
    ASSUME Next
    PROVE  (\E c \in Calls : CallStep(c)) \/ (\E w \in Workers : Deliver(w) \/ WorkerStep(w))
BY DEF Next, CallStep, WorkerStep

\* Every step keeps it.
LEMMA BaseStep == BaseInv /\ [Next]_vars => BaseInv'
<1> SUFFICES ASSUME BaseInv, [Next]_vars PROVE BaseInv'
  OBVIOUS
<1>1. CASE UNCHANGED vars
  BY <1>1 DEF vars, BaseInv, TypeOK
<1>2. CASE Next
  BY <1>2, NextIs, BaseCall, BaseWorker
<1> QED
  BY <1>1, <1>2

\* The types of the main process and of the threads.
THEOREM ControllerTypes == Spec => []TypeOK
<1>1. BaseInv => TypeOK
  BY DEF BaseInv
<1> QED
  BY <1>1, BaseInit, BaseStep, PTL DEF Spec

\* No real-road fleet moves before its first checkpoint is on disk.
THEOREM FleetsMoveAfterACheckpoint == Spec => []DurableBeforeMoving
<1>1. BaseInv => DurableBeforeMoving
  BY DEF BaseInv, DurableBeforeMoving, Local, StartInv
<1> QED
  BY <1>1, BaseInit, BaseStep, PTL DEF Spec
-----------------------------------------------------------------------------
(* One thread at a time: what a patient operator makes of the whole        *)

Live(w) == thread[w].life \in {"running", "exited"}
Ongoing(c) == main.call[c].kind \in {"start", "stop"} /\ main.call[c].stage # "done"

\* A thread is made when no other is left, and the controller holds it until
\* it is terminated.
OneThread ==
    /\ \A v, w \in Workers : Live(v) /\ Live(w) => v = w
    /\ \A c \in Calls : main.call[c].stage = "checking" => \A w \in Workers : ~Live(w)
    /\ main.worker # None => Live(main.worker)

\* A call that waits for an answer is pending, and a start or a stop ends
\* before the next begins; only quitting does not wait for it.
CallInv ==
    /\ \A c \in Calls :
        /\ c \in main.pending <=> main.call[c].stage = "requested"
        /\ main.call[c].stage = "unused" <=> main.call[c].kind = "none"
        /\ main.call[c].stage = "checking" => main.call[c].kind = "start"
        /\ main.call[c].kind = "quit" => main.quitting
    /\ \A c, e \in Calls : Ongoing(c) /\ Ongoing(e) => c = e

\* The controller holds every thread that runs and is not being terminated.
HoldInv ==
    /\ \A w \in Workers : thread[w].life = "running" => w = main.worker \/ w \in main.terminating
    /\ main.worker # None /\ thread[main.worker].life = "running" =>
        main.shown \/ \E c \in main.pending : main.call[c].kind = "start"
    /\ \A c \in Calls :
        /\ main.call[c].stage = "terminating" /\ main.call[c].kind # "quit" => main.worker = None
        /\ main.call[c].stage = "checking" => ~main.shown

\* A start or a stop that is under way.
Starts(c) == main.call[c].kind = "start" /\ main.call[c].stage # "done"

\* The flags of the controller and the dashboard, until the user quits.
IdleInv ==
    /\ main.startPending => \E c \in Calls : Starts(c)
    /\ ~main.quitting =>
        /\ main.pending # {} => main.worker # None
        /\ main.worker = None => ~main.running
        /\ main.running => main.shown
        /\ main.running => \A c \in Calls : ~Starts(c)

\* What quitting does to the thread that the controller holds.
HeldInv ==
    \A w \in Workers : LastInv(thread[w]) /\ QuitOf(thread[w], main, main.worker = w)

PatientInv == OneThread /\ CallInv /\ HoldInv /\ IdleInv /\ HeldInv

-----------------------------------------------------------------------------
(* Steps that ask no more of a thread                                      *)

\* What quitting asks of a thread is kept when the main process quits, lets go
\* of the thread, makes a request or leaves the idle view.
LEMMA QuitKept ==
    ASSUME NEW k, NEW m, NEW n, NEW h, NEW g, QuitOf(k, m, h), m.quitting => n.quitting,
           g => h /\ m.pending \subseteq n.pending /\ (n.shown => m.shown)
    PROVE  QuitOf(k, n, g)
<1>1. AskedQuit(k, n, g)
  BY DEF QuitOf, AskedQuit, OneStop
<1>2. g => \A i \in 1 .. Len(k.out) : Ends(k, i, m) => Ends(k, i, n)
  BY DEF Ends
<1>3. EndedQuit(k, n, g)
  BY <1>2 DEF QuitOf, EndedQuit
<1>4. BareQuit(k, n, g)
  BY <1>2 DEF QuitOf, BareQuit
<1> QED
  BY <1>1, <1>3, <1>4 DEF QuitOf

\* Nothing is asked of a thread before its start or after its end.
LEMMA QuitNothing ==
    ASSUME NEW k, NEW m, NEW h, ~Asked(k), ~Bare(k)
    PROVE  QuitOf(k, m, h)
BY DEF QuitOf, AskedQuit, EndedQuit, BareQuit

\* The message that the main process reads ends no call that the thread's
\* stop waits for.
LEMMA QuitRead ==
    ASSUME NEW k \in Thread, NEW n \in Thread, NEW m, NEW h, QuitOf(k, m, h),
           Same(n, k, {"out"}), Len(n.out) = Len(k.out) - 1, Len(k.out) \in Nat, Len(k.out) >= 1,
           \A i \in 1 .. Len(n.out) : i + 1 \in 1 .. Len(k.out) /\ n.out[i] = k.out[i + 1],
           h => ~Ends(k, 1, m)
    PROVE  QuitOf(n, m, h)
<1>1. /\ n.in = k.in /\ n.stopId = k.stopId /\ n.stopping = k.stopping /\ n.starting = k.starting
      /\ n.mode = k.mode /\ n.farm = k.farm /\ n.store = k.store
  BY DEF Same, Fields
<1>2. (Asked(n) <=> Asked(k)) /\ (Bare(n) <=> Bare(k))
  BY <1>1 DEF Asked, NoStart, Bare
<1>3. AskedQuit(n, m, h)
  BY <1>1, <1>2 DEF QuitOf, AskedQuit, OneStop
<1>4. \A i \in 1 .. Len(k.out) : h /\ Ends(k, i, m) => i - 1 \in 1 .. Len(n.out) /\ Ends(n, i - 1, m)
  <2> SUFFICES ASSUME NEW i \in 1 .. Len(k.out), h, Ends(k, i, m)
               PROVE  i - 1 \in 1 .. Len(n.out) /\ Ends(n, i - 1, m)
    OBVIOUS
  <2>1. i # 1
    OBVIOUS
  <2>2. i - 1 \in 1 .. Len(n.out) /\ i - 1 + 1 = i
    BY <2>1
  <2>3. n.out[i - 1] = k.out[i]
    BY <2>2
  <2> QED
    BY <2>2, <2>3 DEF Ends
<1>5. EndedQuit(n, m, h)
  BY <1>1, <1>2, <1>4 DEF QuitOf, EndedQuit
<1>6. ASSUME Bare(n), h
      PROVE  \E i \in 1 .. Len(n.out) : Ends(n, i, m) /\ \A j \in 1 .. i : n.out[j].type # "started"
  <2>1. PICK i \in 1 .. Len(k.out) : Ends(k, i, m) /\ \A j \in 1 .. i : k.out[j].type # "started"
    BY <1>2, <1>6 DEF QuitOf, BareQuit
  <2>2. i - 1 \in 1 .. Len(n.out) /\ Ends(n, i - 1, m)
    BY <1>4, <1>6, <2>1
  <2>3. \A j \in 1 .. i - 1 : n.out[j].type # "started"
    <3> SUFFICES ASSUME NEW j \in 1 .. i - 1 PROVE n.out[j].type # "started"
      OBVIOUS
    <3>1. j \in 1 .. Len(n.out) /\ j + 1 \in 1 .. i
      BY <2>2
    <3> QED
      BY <2>1, <3>1
  <2> QED
    BY <2>2, <2>3
<1>7. BareQuit(n, m, h)
  BY <1>1, <1>2, <1>6 DEF QuitOf, BareQuit
<1> QED
  BY <1>3, <1>5, <1>7 DEF QuitOf

\* A step asks no more of the thread w than the state before it.
Eases(w) ==
    /\ main.quitting => main'.quitting
    /\ main'.worker = w => /\ main.worker = w
                           /\ main.pending \subseteq main'.pending
                           /\ main'.shown => main.shown

\* A step that changes no thread keeps what quitting asks of them.
LEMMA HeldNone ==
    ASSUME HeldInv, thread' = thread, \A w \in Workers : Eases(w)
    PROVE  HeldInv'
<1> SUFFICES ASSUME NEW w \in Workers
             PROVE  LastInv(thread[w]) /\ QuitOf(thread[w], main', main'.worker = w)
  BY DEF HeldInv
<1>1. LastInv(thread[w]) /\ QuitOf(thread[w], main, main.worker = w) /\ Eases(w)
  BY DEF HeldInv
<1>2. QuitOf(thread[w], main', main'.worker = w)
  BY <1>1, QuitKept DEF Eases
<1> QED
  BY <1>1, <1>2

\* A step that changes one thread keeps it when it does so for that thread.
LEMMA HeldOne ==
    ASSUME HeldInv, TypeOK, NEW w \in Workers, NEW n, thread' = [thread EXCEPT ![w] = n],
           LastInv(n), QuitOf(n, main', main'.worker = w),
           \A v \in Workers \ {w} : Eases(v)
    PROVE  HeldInv'
<1> SUFFICES ASSUME NEW v \in Workers
             PROVE  LastInv(thread'[v]) /\ QuitOf(thread'[v], main', main'.worker = v)
  BY DEF HeldInv
<1>1. CASE v = w
  <2>1. thread'[v] = n
    BY <1>1 DEF TypeOK
  <2> QED
    BY <1>1, <2>1
<1>2. CASE v # w
  <2>1. thread'[v] = thread[v]
    BY <1>2 DEF TypeOK
  <2>2. LastInv(thread[v]) /\ QuitOf(thread[v], main, main.worker = v) /\ Eases(v)
    BY <1>2 DEF HeldInv
  <2>3. QuitOf(thread[v], main', main'.worker = v)
    BY <2>2, QuitKept DEF Eases
  <2> QED
    BY <2>1, <2>2, <2>3
<1> QED
  BY <1>1, <1>2

-----------------------------------------------------------------------------
(* Every step keeps it                                                     *)

PInv == BaseInv /\ Patient /\ PatientInv

\* A call keeps its kind and goes on to a stage.
Moves(c, stage) ==
    \A e \in Calls :
        /\ main'.call[e].kind = main.call[e].kind
        /\ main'.call[e].stage = IF e = c THEN stage ELSE main.call[e].stage

\* A call is made of a kind, and put at a stage.
Makes(c, kind, stage) ==
    \A e \in Calls :
        /\ main'.call[e].kind = IF e = c THEN kind ELSE main.call[e].kind
        /\ main'.call[e].stage = IF e = c THEN stage ELSE main.call[e].stage

\* Each step of a call keeps the invariant: a start begins.
LEMMA ClickStartKeeps ==
    ASSUME PInv, NEW c \in Calls, ClickStart(c)
    PROVE  PatientInv'
<1>1. /\ TypeOK /\ BaseInv /\ OneThread /\ CallInv /\ HoldInv /\ IdleInv /\ HeldInv /\ Patient
  BY DEF PInv, PatientInv, BaseInv
<1>2. /\ ~main.shown /\ ~Busy /\ main.call[c].stage = "unused" /\ ~main.running
      /\ main.worker = None /\ \A w \in Workers : ~Live(w)
  BY <1>1 DEF ClickStart, NextCall, Live
<1>3. /\ SameMain(main', main, {"call", "startPending"}) /\ thread' = thread
      /\ main'.startPending /\ Makes(c, "start", "checking")
  BY <1>1, ClickStartIs DEF Makes
<1>4. /\ main'.worker = main.worker /\ main'.pending = main.pending /\ main'.running = main.running
      /\ main'.quitting = main.quitting /\ main'.shown = main.shown
      /\ main'.terminating = main.terminating
  BY <1>3 DEF SameMain, MainFields
<1>5. OneThread'
  BY <1>1, <1>2, <1>3, <1>4 DEF OneThread, Live
<1>6. CallInv'
  BY <1>1, <1>2, <1>3, <1>4 DEF CallInv, Ongoing, Busy, Makes
<1>7. HoldInv'
  BY <1>1, <1>2, <1>3, <1>4 DEF HoldInv, Makes, Live
<1>8. IdleInv'
  BY <1>1, <1>2, <1>3, <1>4 DEF IdleInv, Starts, Makes
<1>9. HeldInv'
  BY <1>1, <1>3, <1>4, HeldNone DEF Eases
<1> QED
  BY <1>5, <1>6, <1>7, <1>8, <1>9 DEF PatientInv

\* A start is refused.
LEMMA StartRefusedKeeps ==
    ASSUME PInv, NEW c \in Calls, StartRefused(c)
    PROVE  PatientInv'
<1>1. /\ TypeOK /\ BaseInv /\ OneThread /\ CallInv /\ HoldInv /\ IdleInv /\ HeldInv
  BY DEF PInv, PatientInv, BaseInv
<1>2. /\ main.call[c].stage = "checking" /\ main.call[c].kind = "start"
      /\ main.pending \subseteq Calls
  BY <1>1, MainTypes DEF StartRefused, CallInv, TypeOK
<1>3. /\ SameMain(main', main, {"call", "startPending"}) /\ thread' = thread
      /\ ~main'.startPending /\ Moves(c, "done")
  BY <1>1, StartRefusedIs DEF Moves
<1>4. /\ main'.worker = main.worker /\ main'.pending = main.pending /\ main'.running = main.running
      /\ main'.quitting = main.quitting /\ main'.shown = main.shown
      /\ main'.terminating = main.terminating
  BY <1>3 DEF SameMain, MainFields
<1>5. OneThread'
  BY <1>1, <1>2, <1>3, <1>4 DEF OneThread, Live, Moves
<1>6. CallInv'
  BY <1>1, <1>2, <1>3, <1>4 DEF CallInv, Ongoing, Moves
<1>7. HoldInv'
  BY <1>1, <1>2, <1>3, <1>4 DEF HoldInv, Moves, Live
<1>8. IdleInv'
  BY <1>1, <1>2, <1>3, <1>4 DEF IdleInv, Starts, Moves
<1>9. HeldInv'
  BY <1>1, <1>3, <1>4, HeldNone DEF Eases
<1> QED
  BY <1>5, <1>6, <1>7, <1>8, <1>9 DEF PatientInv

\* A worker is made: no thread is left when it is.
LEMMA LaunchKeeps ==
    ASSUME PInv, NEW c \in Calls, NEW w \in Workers, NEW mode \in Modes, Launch(c, w, mode)
    PROVE  PatientInv'
<1>1. /\ TypeOK /\ BaseInv /\ OneThread /\ CallInv /\ HoldInv /\ IdleInv /\ HeldInv
  BY DEF PInv, PatientInv, BaseInv
<1>2. /\ main.call[c].stage = "checking" /\ main.call[c].kind = "start" /\ ~main.shown
      /\ (\A v \in Workers : ~Live(v)) /\ Ongoing(c) /\ w # None
  <2>1. main.call[c].stage = "checking"
    BY DEF Launch
  <2> QED
    BY <1>1, <2>1 DEF CallInv, HoldInv, OneThread, Ongoing, Workers, None
<1>3. /\ SameMain(main', main, {"call", "pending", "worker"}) /\ main'.worker = w
      /\ main'.pending = main.pending \cup {c} /\ Makes(c, "start", "requested")
  BY <1>1, LaunchIs DEF Makes
<1>4. PICK n \in Thread :
         /\ thread' = [thread EXCEPT ![w] = n] /\ Local(n) /\ LastInv(n)
         /\ n.life = "running" /\ n.in = <<[type |-> "start", id |-> c]>> /\ n.out = <<>> /\ Fresh(n)
  BY <1>1, LaunchedThread
<1>5. /\ main'.running = main.running /\ main'.quitting = main.quitting
      /\ main'.startPending = main.startPending
      /\ main'.shown = main.shown /\ main'.terminating = main.terminating
  BY <1>3 DEF SameMain, MainFields
<1>6. \A v \in Workers : thread'[v] = IF v = w THEN n ELSE thread[v]
  BY <1>1, <1>4 DEF TypeOK
<1>7. \A v \in Workers : thread'[v].life \in {"running", "exited"} => v = w
  BY <1>2, <1>6 DEF Live
<1>8. \A e \in Calls : main'.call[e].stage # "checking"
  <2> SUFFICES ASSUME NEW e \in Calls, main'.call[e].stage = "checking" PROVE FALSE
    OBVIOUS
  <2>1. e # c /\ main.call[e].stage = "checking"
    BY <1>3 DEF Makes
  <2>2. Ongoing(e)
    BY <1>1, <2>1 DEF CallInv, Ongoing
  <2> QED
    BY <1>1, <1>2, <2>1, <2>2 DEF CallInv
<1>9. OneThread'
  BY <1>3, <1>4, <1>6, <1>7, <1>8 DEF OneThread, Live
<1>10. CallInv'
  BY <1>1, <1>2, <1>3, <1>5 DEF CallInv, Ongoing, Makes
<1>11. HoldInv'
  <2>1. \A v \in Workers : thread'[v].life = "running" => v = main'.worker
    BY <1>3, <1>7
  <2>2. c \in main'.pending /\ main'.call[c].kind = "start"
    BY <1>3 DEF Makes
  <2>3. ASSUME NEW e \in Calls, main'.call[e].stage = "terminating", main'.call[e].kind # "quit"
        PROVE  FALSE
    <3>1. e # c /\ main.call[e].stage = "terminating" /\ main.call[e].kind # "quit"
      BY <1>3, <2>3 DEF Makes
    <3>2. main.call[e].kind \in {"start", "stop"}
      BY <1>1, <3>1, CallTypes DEF TypeOK, CallInv
    <3> QED
      BY <1>1, <1>2, <3>1, <3>2 DEF CallInv, Ongoing
  <2> QED
    BY <1>8, <2>1, <2>2, <2>3 DEF HoldInv
<1>12. IdleInv'
  BY <1>1, <1>2, <1>3, <1>5 DEF IdleInv, Starts, Makes
<1>13. HeldInv'
  <2>1. Len(n.in) = 1 /\ n.in[1].type = "start" /\ Len(n.out) = 0
    BY <1>4
  <2>2. QuitOf(n, main', main'.worker = w)
    <3>1. OneStop(n, main', main'.worker = w)
      BY <1>2, <1>4, <1>5, <2>1 DEF OneStop, Fresh
    <3>2. ~Bare(n) /\ n.stopId = None
      BY <1>4 DEF Bare, Fresh
    <3> QED
      BY <3>1, <3>2 DEF QuitOf, AskedQuit, EndedQuit, BareQuit
  <2>3. \A v \in Workers \ {w} : Eases(v)
    BY <1>3, <1>5 DEF Eases
  <2> QED
    BY <1>1, <1>4, <2>2, <2>3, HeldOne
<1> QED
  BY <1>9, <1>10, <1>11, <1>12, <1>13 DEF PatientInv

Alive == {"running", "exited"}

\* A step that makes no thread and lets no other be held keeps them single.
LEMMA OneThreadKept ==
    ASSUME OneThread,
           \A v \in Workers : thread'[v].life \in Alive => thread[v].life \in Alive,
           \A e \in Calls : main'.call[e].stage = "checking" => main.call[e].stage = "checking",
           main'.worker # None => /\ main'.worker = main.worker
                                  /\ thread[main.worker].life \in Alive => thread'[main.worker].life \in Alive
    PROVE  OneThread'
<1>1. \A v, w \in Workers : thread'[v].life \in Alive /\ thread'[w].life \in Alive => v = w
  BY DEF OneThread, Live, Alive
<1>2. \A c \in Calls : main'.call[c].stage = "checking" => \A w \in Workers : thread'[w].life \notin Alive
  BY DEF OneThread, Live, Alive
<1>3. main'.worker # None => thread'[main'.worker].life \in Alive
  BY DEF OneThread, Live, Alive
<1> QED
  BY <1>1, <1>2, <1>3 DEF OneThread, Live, Alive

\* The user clicks Stop: the view is idle until a start has been answered.
LEMMA ClickStopKeeps ==
    ASSUME PInv, NEW c \in Calls, ClickStop(c)
    PROVE  PatientInv'
<1>1. /\ TypeOK /\ BaseInv /\ OneThread /\ CallInv /\ HoldInv /\ IdleInv /\ HeldInv
      /\ main.pending \subseteq Calls
  BY MainTypes DEF PInv, PatientInv, BaseInv, TypeOK
<1>2. main.shown /\ ~Busy
  BY DEF ClickStop
<1>3. CASE main.worker = None
  <2>1. thread' = thread /\ SameMain(main', main, {"shown"}) /\ ~main'.shown
    BY <1>1, <1>3, ClickStopIs DEF Workers, None
  <2>2. /\ main'.worker = main.worker /\ main'.pending = main.pending /\ main'.running = main.running
        /\ main'.quitting = main.quitting /\ main'.call = main.call
        /\ main'.terminating = main.terminating /\ main'.startPending = main.startPending
    BY <2>1 DEF SameMain, MainFields
  <2>3. OneThread'
    BY <1>1, <2>1, <2>2 DEF OneThread, Live
  <2>4. CallInv'
    BY <1>1, <2>1, <2>2 DEF CallInv, Ongoing
  <2>5. HoldInv'
    BY <1>1, <1>3, <2>1, <2>2 DEF HoldInv
  <2>6. IdleInv'
    BY <1>1, <1>3, <2>1, <2>2 DEF IdleInv, Starts
  <2>7. HeldInv'
    BY <1>1, <2>1, <2>2, HeldNone DEF Eases
  <2> QED
    BY <2>3, <2>4, <2>5, <2>6, <2>7 DEF PatientInv
<1>4. CASE main.worker # None
  <2> DEFINE w == main.worker
  <2>1. /\ w \in Workers /\ thread' = PostStop(w, c) /\ main.call[c].stage = "unused"
        /\ SameMain(main', main, {"pending", "call"})
        /\ main'.pending = main.pending \cup {c} /\ Makes(c, "stop", "requested")
    BY <1>1, <1>4, ClickStopIs DEF Makes
  <2>2. /\ main'.worker = main.worker /\ main'.running = main.running
        /\ main'.quitting = main.quitting /\ main'.shown = main.shown
        /\ main'.terminating = main.terminating /\ main'.startPending = main.startPending
    BY <2>1 DEF SameMain, MainFields
  <2>20. main.worker = w
    OBVIOUS
  <2> HIDE DEF w
  <2> DEFINE k == thread[w]
             n == [k EXCEPT !.in = Append(@, [type |-> "stop", id |-> c])]
  <2>3. /\ n \in Thread /\ thread' = [thread EXCEPT ![w] = n]
        /\ LastInv(k) => LastInv(n)
        /\ Same(n, k, {"in"}) /\ k \in Thread
    BY <1>1, <2>1, PostIs DEF BaseInv, TypeOK
  <2>4. n.in = Append(k.in, [type |-> "stop", id |-> c])
    BY <2>3, FieldTypes, Dom DEF Fields
  <2> HIDE DEF n
  <2>5. \A v \in Workers : thread'[v].life = thread[v].life
    BY <1>1, <2>3 DEF TypeOK, Same, Fields
  <2>6. OneThread'
    <3>1. \A e \in Calls : main'.call[e].stage = "checking" => main.call[e].stage = "checking"
      BY <2>1 DEF Makes
    <3> QED
      BY <1>1, <2>1, <2>2, <2>5, <2>20, <3>1, OneThreadKept
  <2>7. CallInv'
    BY <1>1, <1>2, <2>1, <2>2 DEF CallInv, Ongoing, Busy, Makes
  <2>8. HoldInv'
    <3>1. \A e \in Calls : e # c => main'.call[e].stage \notin {"checking"}
      BY <1>1, <1>2, <2>1 DEF CallInv, Busy, Makes
    <3>2. ASSUME NEW e \in Calls, main'.call[e].stage = "terminating", main'.call[e].kind # "quit"
          PROVE  FALSE
      <4>1. e # c /\ main.call[e].stage = "terminating" /\ main.call[e].kind # "quit"
        BY <2>1, <3>2 DEF Makes
      <4>2. main.call[e].kind \in {"start", "stop"}
        BY <1>1, <4>1, CallTypes DEF TypeOK, CallInv
      <4> QED
        BY <1>2, <4>1, <4>2 DEF Busy
    <3>3. main'.shown /\ main'.call[c].stage = "requested"
      BY <1>2, <2>1, <2>2 DEF Makes
    <3> QED
      BY <1>1, <2>2, <2>5, <3>1, <3>2, <3>3 DEF HoldInv
  <2>9. IdleInv'
    BY <1>1, <1>4, <2>1, <2>2 DEF IdleInv, Starts, Makes, CallInv
  <2>10. HeldInv'
    <3>1. LastInv(k) /\ QuitOf(k, main, main.worker = w)
      BY <1>1, <2>1 DEF HeldInv
    <3>2. ~Asked(k)
      BY <1>2, <3>1 DEF QuitOf, AskedQuit, OneStop, w
    <3>3. ~Bare(k)
      BY <1>2, <3>1 DEF QuitOf, BareQuit, w
    <3>4. ~Asked(n)
      <4>1. k.in \in Seq(Message) /\ [type |-> "stop", id |-> c] \in Message
        BY <2>3, FieldTypes DEF Message
      <4>2. \A i \in 1 .. Len(n.in) : n.in[i].type # "start"
        BY <2>4, <3>2, <4>1, AppendElems DEF Asked, NoStart
      <4>3. n.starting = k.starting
        BY <2>3 DEF Same, Fields
      <4> QED
        BY <3>2, <4>2, <4>3 DEF Asked, NoStart
    <3>5. ~Bare(n)
      BY <2>3, <3>3 DEF Bare, Same, Fields
    <3>6. \A v \in Workers \ {w} : Eases(v)
      BY <2>1, <2>2 DEF Eases
    <3>7. QuitOf(n, main', main'.worker = w)
      BY <3>4, <3>5, QuitNothing
    <3>8. LastInv(n)
      BY <2>3, <3>1
    <3> QED
      BY <1>1, <2>1, <2>3, <3>6, <3>7, <3>8, HeldOne
  <2> QED
    BY <2>6, <2>7, <2>8, <2>9, <2>10 DEF PatientInv
<1> QED
  BY <1>3, <1>4

\* The user quits, for the first time.
LEMMA QuitKeeps ==
    ASSUME PInv, NEW c \in Calls, Quit(c)
    PROVE  PatientInv'
<1>1. /\ TypeOK /\ BaseInv /\ OneThread /\ CallInv /\ HoldInv /\ IdleInv /\ HeldInv
      /\ main.pending \subseteq Calls
  BY MainTypes DEF PInv, PatientInv, BaseInv, TypeOK
<1>2. ~main.quitting /\ main.call[c].stage = "unused"
  BY DEF Quit, NextCall
<1>3. CASE main.worker = None
  <2>1. thread' = thread /\ SameMain(main', main, {"quitting", "open"}) /\ main'.quitting
    BY <1>1, <1>3, QuitIs DEF Workers, None
  <2>2. /\ main'.worker = main.worker /\ main'.pending = main.pending /\ main'.running = main.running
        /\ main'.shown = main.shown /\ main'.call = main.call
        /\ main'.terminating = main.terminating /\ main'.startPending = main.startPending
    BY <2>1 DEF SameMain, MainFields
  <2>3. OneThread'
    BY <1>1, <2>1, <2>2 DEF OneThread, Live
  <2>4. CallInv'
    BY <1>1, <2>1, <2>2 DEF CallInv, Ongoing
  <2>5. HoldInv'
    BY <1>1, <1>3, <2>1, <2>2 DEF HoldInv
  <2>6. IdleInv'
    BY <1>1, <1>3, <2>1, <2>2 DEF IdleInv, Starts
  <2>7. HeldInv'
    BY <1>1, <2>1, <2>2, HeldNone DEF Eases
  <2> QED
    BY <2>3, <2>4, <2>5, <2>6, <2>7 DEF PatientInv
<1>4. CASE main.worker # None
  <2> DEFINE w == main.worker
  <2>1. /\ w \in Workers /\ thread' = PostStop(w, c) /\ main'.quitting
        /\ SameMain(main', main, {"pending", "call", "quitting"})
        /\ main'.pending = main.pending \cup {c} /\ Makes(c, "quit", "requested")
    BY <1>1, <1>4, QuitIs DEF Makes
  <2>2. /\ main'.worker = main.worker /\ main'.running = main.running
        /\ main'.shown = main.shown
        /\ main'.terminating = main.terminating /\ main'.startPending = main.startPending
    BY <2>1 DEF SameMain, MainFields
  <2>20. main.worker = w
    OBVIOUS
  <2> HIDE DEF w
  <2> DEFINE k == thread[w]
             msg == [type |-> "stop", id |-> c]
             n == [k EXCEPT !.in = Append(@, msg)]
  <2>3. /\ n \in Thread /\ thread' = [thread EXCEPT ![w] = n]
        /\ LastInv(k) => LastInv(n)
        /\ Same(n, k, {"in"}) /\ k \in Thread
    BY <1>1, <2>1, PostIs DEF BaseInv, TypeOK
  <2>4. n.in = Append(k.in, msg)
    BY <2>3, FieldTypes, Dom DEF Fields
  <2> HIDE DEF n
  <2>5. \A v \in Workers : thread'[v].life = thread[v].life
    BY <1>1, <2>3 DEF TypeOK, Same, Fields
  <2>6. OneThread'
    <3>1. \A e \in Calls : main'.call[e].stage = "checking" => main.call[e].stage = "checking"
      BY <2>1 DEF Makes
    <3> QED
      BY <1>1, <2>1, <2>2, <2>5, <2>20, <3>1, OneThreadKept
  <2>7. CallInv'
    BY <1>1, <1>2, <2>1, <2>2 DEF CallInv, Ongoing, Makes
  <2>8. HoldInv'
    <3>1. \A v \in Workers : thread'[v].life = "running" => v = main'.worker \/ v \in main'.terminating
      BY <1>1, <2>2, <2>5 DEF HoldInv
    <3>2. ASSUME thread'[w].life = "running"
          PROVE  main'.shown \/ \E e \in main'.pending : main'.call[e].kind = "start"
      <4>1. CASE main.shown
        BY <2>2, <4>1
      <4>2. CASE ~main.shown
        <5>1. PICK e \in main.pending : main.call[e].kind = "start"
          BY <1>1, <1>4, <2>1, <2>5, <2>20, <3>2, <4>2 DEF HoldInv
        <5>2. e # c /\ e \in Calls
          BY <1>1, <1>2, <5>1 DEF CallInv
        <5> QED
          BY <2>1, <5>1, <5>2 DEF Makes
      <4> QED
        BY <4>1, <4>2
    <3>3. \A e \in Calls :
            /\ main'.call[e].stage = "terminating" /\ main'.call[e].kind # "quit" => main'.worker = None
            /\ main'.call[e].stage = "checking" => ~main'.shown
      BY <1>1, <2>1, <2>2 DEF HoldInv, Makes
    <3> QED
      BY <2>2, <2>20, <3>1, <3>2, <3>3 DEF HoldInv
  <2>9. IdleInv'
    BY <1>1, <1>2, <2>1, <2>2 DEF IdleInv, Starts, Makes, CallInv
  <2>10. HeldInv'
    <3>1. LastInv(k) /\ QuitOf(k, main, main.worker = w)
      BY <1>1, <2>1 DEF HeldInv
    <3>2. ~Bare(k)
      BY <1>2, <3>1 DEF QuitOf, BareQuit
    <3>3. Asked(k) => OneStop(k, main, TRUE)
      BY <2>20, <3>1 DEF QuitOf, AskedQuit
    <3>4. /\ n.stopId = k.stopId /\ n.stopping = k.stopping /\ n.starting = k.starting
          /\ n.out = k.out /\ ~Bare(n)
      BY <2>3, <3>2 DEF Same, Fields, Bare
    <3>5. /\ Len(n.in) = Len(k.in) + 1 /\ n.in[Len(k.in) + 1] = msg /\ Len(k.in) \in Nat
          /\ \A i \in 1 .. Len(k.in) : n.in[i] = k.in[i]
      <4>1. k.in \in Seq(Message) /\ msg \in Message
        BY <2>3, FieldTypes DEF Message
      <4> QED
        BY <2>4, <4>1, AppendElems
    <3>6. Asked(n) => Asked(k)
      <4>1. msg.type = "stop"
        OBVIOUS
      <4>2. \A i \in 1 .. Len(n.in) : i = Len(k.in) + 1 \/ i \in 1 .. Len(k.in)
        BY <3>5
      <4> QED
        BY <3>4, <3>5, <4>1, <4>2 DEF Asked, NoStart
    <3>7. ASSUME Asked(k)
          PROVE  OneStop(n, main', main'.worker = w) /\ n.stopId = None
      <4>1. OneStop(k, main, TRUE)
        BY <3>3, <3>7
      <4>2. /\ \A i \in 1 .. Len(k.in) : k.in[i].type # "stop"
            /\ k.stopId = None /\ ~main.shown
            /\ \A i \in 1 .. Len(k.out) : k.out[i].type # "started"
        BY <1>2, <4>1 DEF OneStop
      <4>3. \A i \in 1 .. Len(n.in) : n.in[i].type = "stop" => i = Len(k.in) + 1 /\ n.in[i].id = c
        BY <3>5, <4>2
      <4> QED
        BY <2>1, <2>2, <3>4, <4>2, <4>3 DEF OneStop
    <3>8. QuitOf(n, main', main'.worker = w)
      BY <3>4, <3>6, <3>7 DEF QuitOf, AskedQuit, EndedQuit, BareQuit
    <3>9. \A v \in Workers \ {w} : Eases(v)
      BY <2>1, <2>2, <2>20 DEF Eases
    <3>10. LastInv(n)
      BY <2>3, <3>1
    <3> QED
      BY <1>1, <2>1, <2>3, <3>8, <3>9, <3>10, HeldOne
  <2> QED
    BY <2>6, <2>7, <2>8, <2>9, <2>10 DEF PatientInv
<1> QED
  BY <1>3, <1>4

\* The requests that are settled were pending, so their calls have been made.
LEMMA SettledCalls ==
    ASSUME PInv, NEW S \in SUBSET main.pending, Settles(main', main, S)
    PROVE  /\ CallInv'
           /\ main'.startPending => \E c \in Calls : Starts(c)'
           /\ \A c \in Calls : main'.call[c].stage = "checking" => main.call[c].stage = "checking"
           /\ main'.quitting = main.quitting /\ main'.pending = main.pending \ S
<1>1. CallInv /\ IdleInv
  BY DEF PInv, PatientInv
<1>2. /\ main'.startPending = main.startPending /\ main'.quitting = main.quitting
      /\ main'.pending = main.pending \ S
      /\ \A c \in Calls :
           /\ main'.call[c].kind = main.call[c].kind
           /\ main'.call[c].stage = IF c \in S THEN "terminating" ELSE main.call[c].stage
  BY DEF Settles
<1>3. CallInv'
  BY <1>1, <1>2 DEF CallInv, Ongoing
<1>4. main'.startPending => \E c \in Calls : Starts(c)'
  BY <1>1, <1>2 DEF IdleInv, Starts
<1> QED
  BY <1>2, <1>3, <1>4

\* A thread that is let go of is terminated.
LEMMA LetGoHolds ==
    ASSUME PInv, NEW S \in SUBSET main.pending, Settles(main', main, S), LetsGo(main', main),
           main'.shown => main.shown,
           \A v \in Workers : thread'[v].life = "running" => thread[v].life = "running"
    PROVE  HoldInv'
<1>1. HoldInv /\ main.worker \in Workers \cup {None}
  BY MainTypes DEF PInv, PatientInv, BaseInv, TypeOK
<1>2. \A v \in Workers : thread'[v].life = "running" => v \in main'.terminating
  BY <1>1 DEF HoldInv, LetsGo, Workers, None
<1>3. main'.worker = None
  BY DEF LetsGo
<1>4. \A c \in Calls : main'.call[c].stage = "checking" => ~main'.shown
  BY <1>1 DEF HoldInv, Settles
<1> QED
  BY <1>2, <1>3, <1>4 DEF HoldInv

\* Until the user quits, a request that is settled was the only one.
LEMMA OneSettledIdle ==
    ASSUME PInv, NEW c \in main.pending, Settles(main', main, {c}), main'.worker = None,
           main'.running => main.running /\ main.call[c].kind \notin {"stop", "quit"}
    PROVE  IdleInv'
<1>1. CallInv /\ IdleInv /\ c \in Calls /\ main \in Main
  BY MainTypes DEF PInv, PatientInv, BaseInv, TypeOK
<1>2. /\ main'.startPending => \E e \in Calls : Starts(e)'
      /\ main'.quitting = main.quitting /\ main'.pending = main.pending \ {c}
  BY SettledCalls
<1>3. ASSUME ~main.quitting PROVE main'.pending = {} /\ ~main'.running
  <2>1. \A e \in main.pending : e \in Calls /\ Ongoing(e)
    BY <1>1, <1>3, CallTypes, MainTypes DEF CallInv, Ongoing
  <2>2. main'.pending = {}
    BY <1>1, <1>2, <2>1 DEF CallInv
  <2>3. main.call[c].kind = "start" => Starts(c)
    BY <1>1 DEF Starts, CallInv
  <2>4. main.call[c].kind \in {"start", "stop"}
    BY <2>1 DEF Ongoing
  <2>5. ~main'.running
    BY <1>1, <1>3, <2>3, <2>4 DEF IdleInv
  <2> QED
    BY <2>2, <2>5
<1> QED
  BY <1>2, <1>3 DEF IdleInv

\* Nothing is pending when every request has been settled.
LEMMA AllSettledIdle ==
    ASSUME PInv, Settles(main', main, main.pending), ~main'.running
    PROVE  IdleInv'
<1>1. main'.startPending => \E e \in Calls : Starts(e)'
  BY SettledCalls
<1>2. main'.pending = {}
  BY DEF Settles
<1> QED
  BY <1>1, <1>2 DEF IdleInv

\* A request has not been answered in time.
LEMMA TimeoutKeeps ==
    ASSUME PInv, NEW c \in Calls, Timeout(c)
    PROVE  PatientInv'
<1>1. TypeOK /\ OneThread /\ HeldInv
  BY DEF PInv, PatientInv, BaseInv
<1>2. /\ c \in main.pending /\ thread' = thread
      /\ Settles(main', main, {c}) /\ LetsGo(main', main) /\ main'.shown = main.shown
      /\ main'.running => main.running /\ main.call[c].kind \notin {"stop", "quit"}
  BY <1>1, TimeoutIs
<1>3. main'.worker = None
  BY <1>2 DEF LetsGo
<1>4. {c} \in SUBSET main.pending
  BY <1>2
<1>5. /\ CallInv' /\ main'.quitting = main.quitting
      /\ \A e \in Calls : main'.call[e].stage = "checking" => main.call[e].stage = "checking"
  BY <1>2, <1>4, SettledCalls
<1>6. HoldInv'
  BY <1>2, <1>4, LetGoHolds
<1>7. IdleInv'
  BY <1>2, <1>3, OneSettledIdle
<1>8. OneThread'
  BY <1>1, <1>2, <1>3, <1>5, OneThreadKept
<1>9. HeldInv'
  BY <1>1, <1>2, <1>3, <1>5, HeldNone DEF Eases, Workers, None
<1> QED
  BY <1>5, <1>6, <1>7, <1>8, <1>9 DEF PatientInv

\* A call returns, and a stop shows the dashboard idle.
LEMMA TerminatedKeeps ==
    ASSUME PInv, NEW c \in Calls, Terminated(c)
    PROVE  PatientInv'
<1>1. /\ TypeOK /\ OneThread /\ CallInv /\ HoldInv /\ IdleInv /\ HeldInv /\ main.pending \subseteq Calls
  BY MainTypes DEF PInv, PatientInv, BaseInv, TypeOK
<1>2. main.call[c].stage = "terminating"
  BY DEF Terminated
<1>3. /\ SameMain(main', main, {"call", "startPending", "shown", "open"}) /\ thread' = thread
      /\ main'.startPending => main.startPending /\ main.call[c].kind # "start"
      /\ main'.shown => main.shown
      /\ main.shown /\ main.call[c].kind # "stop" => main'.shown
      /\ Moves(c, "done")
  BY <1>1, TerminatedIs DEF Moves
<1>4. /\ main'.worker = main.worker /\ main'.pending = main.pending /\ main'.running = main.running
      /\ main'.quitting = main.quitting /\ main'.terminating = main.terminating
  BY <1>3 DEF SameMain, MainFields
<1>5. main.call[c].kind = "stop" => main.worker = None
  BY <1>1, <1>2 DEF HoldInv
<1>6. CallInv'
  BY <1>1, <1>2, <1>3, <1>4 DEF CallInv, Ongoing, Moves
<1>7. OneThread'
  <2>1. \A e \in Calls : main'.call[e].stage = "checking" => main.call[e].stage = "checking"
    BY <1>3 DEF Moves
  <2> QED
    BY <1>1, <1>3, <1>4, <2>1, OneThreadKept
<1>8. HoldInv'
  <2>1. ASSUME main'.worker # None, thread[main.worker].life = "running"
        PROVE  main'.shown \/ \E e \in main'.pending : main'.call[e].kind = "start"
    <3>1. CASE main.shown
      BY <1>3, <1>4, <1>5, <2>1, <3>1
    <3>2. CASE ~main.shown
      <4>1. PICK e \in main.pending : main.call[e].kind = "start"
        BY <1>1, <1>4, <2>1, <3>2 DEF HoldInv
      <4> QED
        BY <1>1, <1>3, <1>4, <4>1 DEF Moves
    <3> QED
      BY <3>1, <3>2
  <2>2. \A e \in Calls :
          /\ main'.call[e].stage = "terminating" /\ main'.call[e].kind # "quit" => main'.worker = None
          /\ main'.call[e].stage = "checking" => ~main'.shown
    BY <1>1, <1>3, <1>4 DEF HoldInv, Moves
  <2> QED
    BY <1>1, <1>3, <1>4, <2>1, <2>2 DEF HoldInv
<1>9. IdleInv'
  <2>1. main'.startPending => \E e \in Calls : Starts(e)'
    BY <1>1, <1>3 DEF IdleInv, Starts, Moves
  <2>2. ~main.quitting /\ main.running => main'.shown
    BY <1>1, <1>3, <1>5 DEF IdleInv
  <2>3. \A e \in Calls : Starts(e)' => Starts(e)
    BY <1>3 DEF Starts, Moves
  <2> QED
    BY <1>1, <1>4, <2>1, <2>2, <2>3 DEF IdleInv
<1>10. HeldInv'
  BY <1>1, <1>3, <1>4, HeldNone DEF Eases
<1> QED
  BY <1>6, <1>7, <1>8, <1>9, <1>10 DEF PatientInv

\* The worker takes a step.
LEMMA WorkerKeeps ==
    ASSUME PInv, NEW w \in Workers, WorkerStep(w)
    PROVE  PatientInv'
<1>1. /\ TypeOK /\ OneThread /\ CallInv /\ HoldInv /\ IdleInv /\ HeldInv
      /\ thread[w] \in Thread /\ Local(thread[w])
  BY DEF PInv, PatientInv, BaseInv, TypeOK
<1>2. PICK n : Becomes(w, n) /\ Sound(n, thread[w], main, main.worker = w)
  BY <1>1, WorkerSteps
<1>3. /\ thread' = [thread EXCEPT ![w] = n] /\ main' = main
      /\ thread[w].life = "running" /\ n.life \in {"running", "exited"}
  BY <1>2 DEF Becomes
<1>4. \A v \in Workers : thread'[v] = IF v = w THEN n ELSE thread[v]
  BY <1>1, <1>3 DEF TypeOK
<1>5. OneThread'
  BY <1>1, <1>3, <1>4, OneThreadKept DEF Alive
<1>6. CallInv' /\ IdleInv'
  BY <1>1, <1>3 DEF CallInv, IdleInv, Ongoing, Starts
<1>7. HoldInv'
  <2>1. main.worker \in Workers \cup {None}
    BY <1>1, MainTypes DEF TypeOK
  <2> QED
    BY <1>1, <1>3, <1>4, <2>1 DEF HoldInv
<1>8. HeldInv'
  <2>1. LastInv(n) /\ QuitOf(n, main', main'.worker = w)
    BY <1>1, <1>2, <1>3 DEF HeldInv, Sound
  <2> QED
    BY <1>1, <1>3, <2>1, HeldOne DEF Eases
<1> QED
  BY <1>5, <1>6, <1>7, <1>8 DEF PatientInv

\* What the main process reads of a thread, and what is left of the thread.
LEMMA DeliverIs ==
    ASSUME PInv, NEW w \in Workers, Deliver(w)
    PROVE  LET k == thread[w]
               msg == k.out[1]
           IN  /\ msg \in Message /\ main' = OnMessage(main, msg) /\ Live(w) /\ k \in Thread
               /\ msg.type \in {"failure", "exit"} => k.life = "exited"
               /\ \A v \in Workers : main.worker = v => v = w
               /\ \E n \in Thread :
                    /\ thread' = [thread EXCEPT ![w] = n] /\ LastInv(n)
                    /\ msg.type = "exit" => ~Asked(n) /\ ~Bare(n) /\ n.life = "gone"
                    /\ msg.type # "exit" =>
                         /\ n.life = k.life
                         /\ \A m, h : QuitOf(k, m, h) /\ (h => ~Ends(k, 1, m)) => QuitOf(n, m, h)
<1> DEFINE k == thread[w]
           msg == Head(k.out)
<1>1. /\ TypeOK /\ OneThread /\ Local(k) /\ LastInv(k) /\ k \in Thread
  BY DEF PInv, PatientInv, BaseInv, TypeOK, HeldInv
<1>2. /\ msg = k.out[1] /\ msg \in Message /\ main' = OnMessage(main, msg)
      /\ Len(k.out) \in Nat /\ Len(k.out) >= 1 /\ k.life \in {"running", "exited"}
  BY <1>1, ReadIs
<1>3. PICK n \in Thread :
         /\ thread' = [thread EXCEPT ![w] = n]
         /\ Local(n) /\ (LastInv(k) => LastInv(n))
         /\ msg.type = "exit" => k.life = "exited" /\ n.life = "gone" /\ n = [NewThread EXCEPT !.life = "gone"]
         /\ msg.type # "exit" =>
              /\ Same(n, k, {"out"}) /\ n.out = Tail(k.out)
              /\ Len(n.out) = Len(k.out) - 1
              /\ \A i \in 1 .. Len(n.out) : i + 1 \in 1 .. Len(k.out) /\ n.out[i] = k.out[i + 1]
  BY <1>1, ReadIs
<1>4. Live(w) /\ \A v \in Workers : main.worker = v => v = w
  BY <1>1, <1>2 DEF Live, OneThread, Workers, None
<1>5. msg.type \in {"failure", "exit"} => k.life = "exited"
  BY <1>1, <1>2 DEF Local, MailInv
<1>6. ASSUME msg.type = "exit" PROVE ~Asked(n) /\ ~Bare(n) /\ n.life = "gone"
  <2>1. n = [NewThread EXCEPT !.life = "gone"]
    BY <1>3, <1>6
  <2>2. n.starting = "no" /\ n.farm = "none" /\ Len(n.in) = 0 /\ n.life = "gone"
    BY <2>1 DEF NewThread
  <2> QED
    BY <2>2 DEF Asked, NoStart, Bare
<1>7. ASSUME msg.type # "exit"
      PROVE  /\ n.life = k.life
             /\ \A m, h : QuitOf(k, m, h) /\ (h => ~Ends(k, 1, m)) => QuitOf(n, m, h)
  <2>1. n.life = k.life
    BY <1>3, <1>7 DEF Same, Fields
  <2>2. ASSUME NEW m, NEW h, QuitOf(k, m, h), h => ~Ends(k, 1, m) PROVE QuitOf(n, m, h)
    BY <1>1, <1>2, <1>3, <1>7, <2>2, QuitRead
  <2> QED
    BY <2>1, <2>2
<1>8. LastInv(n)
  BY <1>1, <1>3
<1> QED
  BY <1>1, <1>2, <1>3, <1>4, <1>5, <1>6, <1>7, <1>8

\* The main process reads a message that is not for it or has been waited for
\* too long.
LEMMA DeliverNothing ==
    ASSUME PInv, NEW w \in Workers, NEW n \in Thread, thread' = [thread EXCEPT ![w] = n],
           n.life = thread[w].life, LastInv(n), QuitOf(n, main, main.worker = w), main' = main
    PROVE  PatientInv'
<1>1. TypeOK /\ OneThread /\ CallInv /\ HoldInv /\ IdleInv /\ HeldInv /\ main.worker \in Workers \cup {None}
  BY MainTypes DEF PInv, PatientInv, BaseInv, TypeOK
<1>2. \A v \in Workers : thread'[v].life = thread[v].life
  BY <1>1 DEF TypeOK
<1>3. OneThread'
  BY <1>1, <1>2, OneThreadKept
<1>4. CallInv' /\ IdleInv'
  BY <1>1 DEF CallInv, IdleInv, Ongoing, Starts
<1>5. HoldInv'
  BY <1>1, <1>2 DEF HoldInv
<1>6. HeldInv'
  BY <1>1, HeldOne DEF Eases
<1> QED
  BY <1>3, <1>4, <1>5, <1>6 DEF PatientInv

\* The start of the held thread is answered.
LEMMA DeliverStarted ==
    ASSUME PInv, NEW w \in Workers, NEW n \in Thread, thread' = [thread EXCEPT ![w] = n],
           n.life = thread[w].life, LastInv(n), \A h : (h => main.worker = w) => QuitOf(n, main', h),
           Live(w), \A v \in Workers : main.worker = v => v = w,
           NEW c \in main.pending, main' = Started(main, c)
    PROVE  PatientInv'
<1>1. /\ TypeOK /\ OneThread /\ CallInv /\ HoldInv /\ IdleInv /\ HeldInv
      /\ main.worker \in Workers \cup {None} /\ main \in Main /\ c \in Calls /\ main.pending \subseteq Calls
  BY MainTypes DEF PInv, PatientInv, BaseInv, TypeOK
<1>2. /\ SameMain(main', main, {"pending", "running", "startPending", "shown", "call"})
      /\ main'.pending = main.pending \ {c} /\ main'.running /\ ~main'.startPending /\ main'.shown
      /\ Moves(c, "done")
  BY <1>1, StartedIs DEF Moves
<1>3. /\ main'.worker = main.worker /\ main'.terminating = main.terminating
      /\ main'.quitting = main.quitting
  BY <1>2 DEF SameMain, MainFields
<1>4. \A v \in Workers : thread'[v].life = thread[v].life
  BY <1>1 DEF TypeOK
<1>5. \A e \in Calls : main'.call[e].stage # "checking" /\ main.call[e].stage # "checking"
  BY <1>1, <1>2 DEF OneThread, Moves
<1>6. OneThread'
  BY <1>1, <1>3, <1>4, <1>5, OneThreadKept
<1>7. CallInv'
  BY <1>1, <1>2, <1>3 DEF CallInv, Ongoing, Moves
<1>8. HoldInv'
  BY <1>1, <1>2, <1>3, <1>4, <1>5 DEF HoldInv, Moves
<1>9. IdleInv'
  <2>1. ASSUME ~main.quitting, NEW e \in Calls, Starts(e)' PROVE FALSE
    <3>1. e # c /\ main.call[e].kind = "start" /\ main.call[e].stage # "done"
      BY <1>2, <2>1 DEF Starts, Moves
    <3>2. main.call[c].kind \in {"start", "stop"} /\ main.call[c].stage = "requested"
      BY <1>1, <2>1, CallTypes DEF CallInv
    <3> QED
      BY <1>1, <3>1, <3>2 DEF CallInv, Ongoing
  <2>2. ~main.quitting => main.worker # None
    BY <1>1 DEF IdleInv
  <2> QED
    BY <1>2, <1>3, <2>1, <2>2 DEF IdleInv
<1>10. HeldInv'
  <2>1. QuitOf(n, main', main'.worker = w)
    BY <1>3
  <2>2. \A v \in Workers \ {w} : Eases(v)
    BY <1>3 DEF Eases
  <2> QED
    BY <1>1, <2>1, <2>2, HeldOne
<1> QED
  BY <1>6, <1>7, <1>8, <1>9, <1>10 DEF PatientInv

\* The main process lets go of the thread, or of none.
LEMMA DeliverLetsGo ==
    ASSUME PInv, NEW w \in Workers, NEW n \in Thread, thread' = [thread EXCEPT ![w] = n],
           n.life \in {thread[w].life, "gone"}, LastInv(n), QuitOf(n, main', FALSE),
           main'.worker = None, NEW S \in SUBSET main.pending, Settles(main', main, S),
           HoldInv', IdleInv'
    PROVE  PatientInv'
<1>1. TypeOK /\ OneThread /\ HeldInv
  BY DEF PInv, PatientInv, BaseInv
<1>2. /\ CallInv' /\ main'.quitting = main.quitting
      /\ \A c \in Calls : main'.call[c].stage = "checking" => main.call[c].stage = "checking"
  BY SettledCalls
<1>3. \A v \in Workers : thread'[v] = IF v = w THEN n ELSE thread[v]
  BY <1>1 DEF TypeOK
<1>4. OneThread'
  <2>1. \A v \in Workers : thread'[v].life \in Alive => thread[v].life \in Alive
    BY <1>3 DEF Alive
  <2> QED
    BY <1>1, <1>2, <2>1, OneThreadKept
<1>5. HeldInv'
  <2>1. main'.worker # w /\ \A v \in Workers : main'.worker # v
    BY DEF Workers, None
  <2>2. (main'.worker = w) = FALSE
    BY <2>1
  <2>3. QuitOf(n, main', main'.worker = w)
    BY <2>2
  <2> QED
    BY <1>1, <1>2, <2>1, <2>3, HeldOne DEF Eases
<1> QED
  BY <1>2, <1>4, <1>5 DEF PatientInv

\* An error of a thread from which nothing is awaited: the controller holds
\* the thread until its exit arrives.
LEMMA DeliverFailure ==
    ASSUME PInv, NEW w \in Workers, NEW n \in Thread, thread' = [thread EXCEPT ![w] = n],
           n.life = thread[w].life, n.life # "running", LastInv(n),
           QuitOf(n, main', main'.worker = w), \A v \in Workers : main.worker = v => v = w,
           Settles(main', main, {}), main.pending = {}, main'.worker = main.worker,
           main'.terminating = main.terminating, ~main'.running, ~main'.shown
    PROVE  PatientInv'
<1>1. TypeOK /\ OneThread /\ HoldInv /\ IdleInv /\ HeldInv /\ main.worker \in Workers \cup {None}
  BY MainTypes DEF PInv, PatientInv, BaseInv, TypeOK
<1>2. /\ CallInv' /\ main'.quitting = main.quitting /\ main'.pending = {}
      /\ \A c \in Calls : main'.call[c].stage = "checking" => main.call[c].stage = "checking"
      /\ main'.startPending => \E c \in Calls : Starts(c)'
  BY SettledCalls
<1>3. \A v \in Workers : thread'[v] = IF v = w THEN n ELSE thread[v]
  BY <1>1 DEF TypeOK
<1>4. OneThread'
  BY <1>1, <1>2, <1>3, OneThreadKept
<1>5. HoldInv'
  <2>1. \A v \in Workers : thread'[v].life = "running" => v \in main'.terminating
    BY <1>1, <1>3 DEF HoldInv
  <2>2. main'.worker # None => thread'[main'.worker].life # "running"
    BY <1>1, <1>3
  <2>3. \A c \in Calls : main'.call[c].stage = "terminating" /\ main'.call[c].kind # "quit" => main'.worker = None
    BY <1>1 DEF HoldInv, Settles
  <2> QED
    BY <2>1, <2>2, <2>3 DEF HoldInv
<1>6. IdleInv'
  BY <1>2 DEF IdleInv
<1>7. HeldInv'
  <2>1. \A v \in Workers \ {w} : Eases(v)
    BY <1>2 DEF Eases
  <2> QED
    BY <1>1, <2>1, HeldOne
<1> QED
  BY <1>2, <1>4, <1>5, <1>6, <1>7 DEF PatientInv

\* The main process takes a message.
LEMMA DeliverKeeps ==
    ASSUME PInv, NEW w \in Workers, Deliver(w)
    PROVE  PatientInv'
<1> DEFINE k == thread[w]
           msg == k.out[1]
<1>1. /\ TypeOK /\ CallInv /\ HoldInv /\ IdleInv /\ HeldInv /\ main \in Main /\ main.pending \in SUBSET Calls
      /\ main.worker \in Workers \cup {None}
  BY MainTypes DEF PInv, PatientInv, BaseInv, TypeOK
<1>2. /\ msg \in Message /\ main' = OnMessage(main, msg) /\ Live(w)
      /\ msg.type \in {"failure", "exit"} => k.life = "exited"
      /\ \A v \in Workers : main.worker = v => v = w
  BY DeliverIs
<1>3. PICK n \in Thread :
         /\ thread' = [thread EXCEPT ![w] = n] /\ LastInv(n)
         /\ msg.type = "exit" => ~Asked(n) /\ ~Bare(n) /\ n.life = "gone"
         /\ msg.type # "exit" =>
              /\ n.life = k.life
              /\ \A m, h : QuitOf(k, m, h) /\ (h => ~Ends(k, 1, m)) => QuitOf(n, m, h)
  BY DeliverIs
<1>4. QuitOf(k, main, main.worker = w)
  BY <1>1 DEF HeldInv
<1>5. \A v \in Workers : thread'[v] = IF v = w THEN n ELSE thread[v]
  BY <1>1, <1>3 DEF TypeOK
<1>6. \A v \in Workers : thread'[v].life = "running" => thread[v].life = "running"
  BY <1>3, <1>5
<1>7. main'.quitting = main.quitting => QuitOf(n, main', FALSE)
  <2>1. CASE msg.type = "exit"
    BY <1>3, <2>1, QuitNothing
  <2>2. CASE msg.type # "exit"
    <3> SUFFICES ASSUME main'.quitting = main.quitting PROVE QuitOf(n, main', FALSE)
      OBVIOUS
    <3>1. QuitOf(k, main', FALSE)
      BY <1>4, QuitKept
    <3> QED
      BY <1>3, <2>2, <3>1
  <2> QED
    BY <2>1, <2>2
<1>8. ASSUME NEW S \in SUBSET main.pending, Settles(main', main, S), LetsGo(main', main),
             main'.shown => main.shown, IdleInv', msg.type # "exit"
      PROVE  PatientInv'
  <2>1. HoldInv'
    BY <1>6, <1>8, LetGoHolds
  <2>2. main'.worker = None /\ main'.quitting = main.quitting
    BY <1>8 DEF LetsGo, Settles
  <2>3. n.life \in {k.life, "gone"} /\ QuitOf(n, main', FALSE)
    BY <1>3, <1>7, <1>8, <2>2
  <2> QED
    BY <1>3, <1>8, <2>1, <2>2, <2>3, DeliverLetsGo
<1>9. \/ main' = main /\ msg.id \notin main.pending /\ msg.type \notin {"fatal", "failure", "exit"}
      \/ /\ msg.type = "started" /\ msg.id \in main.pending /\ main' = Started(main, msg.id)
      \/ /\ msg.type \notin {"started", "fatal", "failure", "exit"} /\ msg.id \in main.pending
         /\ main' = Release(main, {msg.id})
      \/ msg.type = "fatal" /\ main' = OnFatal(main)
      \/ msg.type = "failure" /\ main' = OnWorkerFailure(main)
      \/ msg.type = "exit" /\ main' = OnWorkerExit(main)
  BY <1>1, <1>2, MessageIs
<1>10. CASE main' = main /\ msg.id \notin main.pending /\ msg.type \notin {"fatal", "failure", "exit"}
  <2>1. ~Ends(k, 1, main)
    BY <1>10 DEF Ends
  <2>2. n.life = k.life /\ QuitOf(n, main, main.worker = w)
    BY <1>3, <1>4, <1>10, <2>1
  <2> QED
    BY <1>3, <1>10, <2>2, DeliverNothing
<1>11. CASE msg.type = "started" /\ msg.id \in main.pending /\ main' = Started(main, msg.id)
  <2>1. main'.quitting = main.quitting
    BY <1>1, <1>11, StartedIs DEF SameMain, MainFields
  <2>2. ASSUME NEW h, h => main.worker = w PROVE QuitOf(n, main', h)
    <3>1. QuitOf(k, main', h)
      <4>1. CASE h
        <5>1. 1 \in 1 .. Len(k.out)
          <6>1. k.out # <<>> /\ k.out \in Seq(Message)
            BY <1>1, FieldTypes DEF Deliver, TypeOK
          <6> QED
            BY <6>1, LenProperties, EmptySeq
        <5>2. ~Asked(k)
          BY <1>4, <1>11, <5>1 DEF QuitOf, AskedQuit, OneStop
        <5>3. ~Bare(k)
          BY <1>4, <1>11, <2>2, <4>1 DEF QuitOf, BareQuit
        <5> QED
          BY <5>2, <5>3, QuitNothing
      <4>2. CASE ~h
        BY <1>4, <2>1, <4>2, QuitKept
      <4> QED
        BY <4>1, <4>2
    <3>2. ~Ends(k, 1, main')
      BY <1>11 DEF Ends
    <3> QED
      BY <1>3, <1>11, <3>1, <3>2
  <2>3. n.life = k.life
    BY <1>3, <1>11
  <2> QED
    BY <1>2, <1>3, <1>11, <2>2, <2>3, DeliverStarted
<1>12. CASE /\ msg.type \notin {"started", "fatal", "failure", "exit"} /\ msg.id \in main.pending
            /\ main' = Release(main, {msg.id})
  <2> DEFINE S == {msg.id}
  <2>1. S \in SUBSET Calls /\ S # {} /\ S \in SUBSET main.pending
    BY <1>1, <1>12
  <2>2. /\ Settles(main', main, S) /\ main'.shown = main.shown
        /\ main'.running => main.running /\ ~\E c \in S : main.call[c].kind \in {"stop", "quit"}
        /\ LetsGo(main', main)
    BY <1>1, <1>12, <2>1, ReleaseSettles
  <2>3. main'.worker = None
    BY <2>2 DEF LetsGo
  <2>4. IdleInv'
    BY <1>12, <2>2, <2>3, OneSettledIdle
  <2> QED
    BY <1>8, <1>12, <2>1, <2>2, <2>4
<1>13. CASE msg.type = "fatal" /\ main' = OnFatal(main)
  <2>1. Settles(main', main, main.pending) /\ LetsGo(main', main) /\ ~main'.running /\ ~main'.shown
    BY <1>1, <1>13, FatalIs
  <2>2. IdleInv'
    BY <2>1, AllSettledIdle
  <2> QED
    BY <1>8, <1>13, <2>1, <2>2
<1>14. CASE msg.type = "failure" /\ main' = OnWorkerFailure(main)
  <2>1. /\ Settles(main', main, main.pending) /\ ~main'.running /\ ~main'.shown
        /\ main.pending = {} => main'.worker = main.worker /\ main'.terminating = main.terminating
        /\ main.pending # {} => LetsGo(main', main)
    BY <1>1, <1>14, FailureIs
  <2>2. IdleInv'
    BY <2>1, AllSettledIdle
  <2>3. CASE main.pending # {}
    BY <1>8, <1>14, <2>1, <2>2, <2>3
  <2>4. CASE main.pending = {}
    <3>1. n.life = k.life /\ n.life # "running"
      BY <1>2, <1>3, <1>14
    <3>2. Settles(main', main, {}) /\ main'.quitting = main.quitting /\ main'.pending = main.pending
      BY <2>1, <2>4 DEF Settles
    <3>3. QuitOf(k, main', main'.worker = w)
      BY <1>4, <2>1, <2>4, <3>2, QuitKept
    <3>4. ~Ends(k, 1, main')
      BY <2>4, <3>2 DEF Ends
    <3>5. QuitOf(n, main', main'.worker = w)
      BY <1>3, <1>14, <3>3, <3>4
    <3> QED
      BY <1>2, <1>3, <2>1, <2>4, <3>1, <3>2, <3>5, DeliverFailure
  <2> QED
    BY <2>3, <2>4
<1>15. CASE msg.type = "exit" /\ main' = OnWorkerExit(main)
  <2>1. /\ ~main'.running /\ main'.worker = None /\ main'.terminating = main.terminating
        /\ main.worker = None => Settles(main', main, {}) /\ main'.shown = main.shown
        /\ main.worker # None => Settles(main', main, main.pending) /\ ~main'.shown
    BY <1>1, <1>15, ExitIs
  <2>2. PICK S \in SUBSET main.pending : Settles(main', main, S)
    BY <2>1
  <2>3. HoldInv'
    <3>1. \A v \in Workers : thread'[v].life = "running" => v \in main'.terminating
      BY <1>1, <1>2, <1>3, <1>5, <1>15, <2>1 DEF HoldInv
    <3>2. \A c \in Calls : main'.call[c].stage = "checking" => ~main'.shown
      BY <1>1, <2>1, <2>2 DEF HoldInv, Settles
    <3> QED
      BY <2>1, <3>1, <3>2 DEF HoldInv
  <2>4. IdleInv'
    <3>1. CASE main.worker # None
      BY <2>1, <3>1, AllSettledIdle
    <3>2. CASE main.worker = None
      <4>1. /\ main'.startPending => \E c \in Calls : Starts(c)'
            /\ main'.quitting = main.quitting /\ main'.pending = main.pending \ S
        BY <2>2, SettledCalls
      <4> QED
        BY <1>1, <2>1, <3>2, <4>1 DEF IdleInv
    <3> QED
      BY <3>1, <3>2
  <2>5. main'.quitting = main.quitting
    BY <2>2 DEF Settles
  <2> QED
    BY <1>3, <1>7, <1>15, <2>1, <2>2, <2>3, <2>4, <2>5, DeliverLetsGo
<1> QED
  BY <1>9, <1>10, <1>11, <1>12, <1>13, <1>14, <1>15

\* The invariant holds at first.
LEMMA PatientInit == Init => PatientInv
<1> SUFFICES ASSUME Init PROVE PatientInv
  OBVIOUS
<1>1. /\ main.worker = None /\ ~main.running /\ main.pending = {} /\ ~main.startPending
      /\ ~main.quitting /\ ~main.shown
      /\ \A c \in Calls : main.call[c].kind = "none" /\ main.call[c].stage = "unused"
  BY DEF Init
<1>2. \A w \in Workers : thread[w] = NewThread
  BY DEF Init
<1>3. OneThread
  BY <1>1, <1>2, NewThreads DEF OneThread, Live
<1>4. CallInv
  BY <1>1 DEF CallInv, Ongoing
<1>5. HoldInv
  BY <1>1, <1>2, NewThreads DEF HoldInv
<1>6. IdleInv
  BY <1>1 DEF IdleInv
<1>7. ~Asked(NewThread) /\ ~Bare(NewThread)
  BY DEF NewThread, Asked, NoStart, Bare
<1>8. HeldInv
  BY <1>2, <1>7, NewThreads, QuitNothing DEF HeldInv
<1> QED
  BY <1>3, <1>4, <1>5, <1>6, <1>8 DEF PatientInv

\* Every step keeps it.
LEMMA PatientStep == PInv /\ [Next]_vars => PInv'
<1> SUFFICES ASSUME PInv, [Next]_vars PROVE PInv'
  OBVIOUS
<1>1. BaseInv'
  BY BaseStep DEF PInv
<1>2. Patient'
  BY DEF PInv
<1>3. PatientInv'
  <2>1. CASE UNCHANGED vars
    <3>1. PatientInv /\ main' = main /\ thread' = thread
      BY <2>1 DEF PInv, vars
    <3>2. OneThread' /\ HoldInv'
      BY <3>1 DEF PatientInv, OneThread, HoldInv, Live
    <3>3. CallInv' /\ IdleInv'
      BY <3>1 DEF PatientInv, CallInv, IdleInv, Ongoing, Starts
    <3>4. HeldInv'
      BY <3>1 DEF PatientInv, HeldInv
    <3> QED
      BY <3>2, <3>3, <3>4 DEF PatientInv
  <2>2. CASE \E c \in Calls : CallStep(c)
    BY <2>2, ClickStartKeeps, StartRefusedKeeps, LaunchKeeps, ClickStopKeeps, QuitKeeps,
       TerminatedKeeps, TimeoutKeeps DEF CallStep
  <2>3. CASE \E w \in Workers : Deliver(w) \/ WorkerStep(w)
    BY <2>3, DeliverKeeps, WorkerKeeps
  <2> QED
    BY <2>1, <2>2, <2>3, NextIs
<1> QED
  BY <1>1, <1>2, <1>3 DEF PInv

\* The invariant of a patient operator.
THEOREM OneThreadAtATime == ASSUME Patient PROVE Spec => [](BaseInv /\ PatientInv)
<1>1. Init => PInv
  BY BaseInit, PatientInit DEF PInv
<1>2. PInv => BaseInv /\ PatientInv
  BY DEF PInv
<1> QED
  BY <1>1, <1>2, PatientStep, PTL DEF Spec

\* When the dashboard is idle and no call is in progress the controller holds no
\* thread that runs.
LEMMA RunningHeld ==
    ASSUME BaseInv, PatientInv, ~main.shown, ~Busy, NEW w \in Workers, thread[w].life = "running"
    PROVE  w # main.worker
<1>1. HoldInv /\ CallInv /\ main.pending \subseteq Calls
  BY MainTypes DEF PatientInv, BaseInv, TypeOK
<1>2. ASSUME NEW c \in main.pending, main.call[c].kind = "start" PROVE FALSE
  BY <1>1, <1>2 DEF CallInv, Busy
<1> QED
  BY <1>1, <1>2 DEF HoldInv, Workers, None

\* When the dashboard is idle and no call is in progress, every worker has ended
\* or is being terminated.
THEOREM NoThreadIsLeft == ASSUME Patient PROVE Spec => []NothingLeftRunning
<1>1. BaseInv /\ PatientInv => NothingLeftRunning
  BY RunningHeld DEF NothingLeftRunning, PatientInv, HoldInv
<1> QED
  BY <1>1, OneThreadAtATime, PTL

\* When the dashboard is idle, the four flags a start looks at are clear.
THEOREM IdleCanStart == ASSUME Patient PROVE Spec => []IdleMeansStartable
<1>1. BaseInv /\ PatientInv => IdleMeansStartable
  <2> SUFFICES ASSUME BaseInv, PatientInv, ~main.quitting, ~main.shown, ~Busy
               PROVE  /\ ~main.running /\ ~main.startPending
                      /\ main.worker # None => thread[main.worker].life = "exited"
    BY DEF IdleMeansStartable
  <2>1. OneThread /\ IdleInv /\ main.worker \in Workers \cup {None}
    BY MainTypes DEF PatientInv, BaseInv, TypeOK
  <2>2. ~main.running
    BY <2>1 DEF IdleInv
  <2>3. ~main.startPending
    BY <2>1 DEF IdleInv, Starts, Busy
  <2>4. main.worker # None => thread[main.worker].life = "exited"
    BY <2>1, RunningHeld DEF OneThread, Live
  <2> QED
    BY <2>2, <2>3, <2>4
<1> QED
  BY <1>1, OneThreadAtATime, PTL

\* A farm is let go only when the last positions of its vehicles are on disk.
THEOREM LastPositionsAreSaved == ASSUME Patient PROVE Spec => []StopSavesLast
<1>1. PatientInv => StopSavesLast
  BY DEF PatientInv, HeldInv, LastInv, StopSavesLast
<1> QED
  BY <1>1, OneThreadAtATime, PTL
=============================================================================
