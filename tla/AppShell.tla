------------------------------ MODULE AppShell ------------------------------
(***************************************************************************)
(* The main process: the requests of the dashboard (main/main.js), the     *)
(* settings file (main/settings-store.js), the progress of a preparation   *)
(* and its status file (main/road-preparation-progress.js and              *)
(* road-preparation-status-store.js), over the route pack store.           *)
(*                                                                         *)
(* Any request may come at any time, each kind once: the handlers' own     *)
(* flags exclude what must not overlap.  They do not exclude a request     *)
(* during settings:save, which sets no flag.  Overlapping says whether     *)
(* the dashboard makes one: it does not from its main screen (app.js:741   *)
(* awaits each call), it may from its settings form (app.js:937), whose    *)
(* button only a preparation disables.                                     *)
(*                                                                         *)
(* What the coordinator, the worker and the graph manager do is in modules *)
(* of their own: here a preparation writes packs, and a worker runs.  An   *)
(* operator whose name ends in _Fault is the operator after it with a      *)
(* fault seeded in it; no other definition uses it.                        *)
(***************************************************************************)
EXTENDS RoutePackStore

CONSTANTS
    Hosts,       \* destinations: all that settings hold besides the selection
    Overlapping

ASSUME ShellAssumption ==
    /\ Callers = {"select", "prepare"} /\ Hosts # {} /\ Overlapping \in BOOLEAN

VARIABLES
    settings,   \* SettingsStore.settings
    file,       \* settings.json
    temporary,  \* settings.json.tmp
    saving,     \* the saves in progress, by handler
    handler,    \* where each handler is
    wanted,     \* digests of road:select-pack still to be selected, and all of them
    worker,     \* the settings the simulation runs with, or None
    progress,   \* RoadPreparationProgress of the preparation
    status,     \* preparation-status.json
    kept,       \* ghost: the last pack of each region a call selected
    outcome,    \* ghost: how the last preparation ended, or that it runs
    unsaved     \* ghost: the last status could not be written

settingsVars == <<settings, file, temporary, saving>>
statusVars == <<progress, status, outcome, unsaved>>
vars == <<storeVars, settingsVars, statusVars, handler, wanted, worker, kept>>

\* Pressing save twice makes a second request of the first handler.
Handlers == {"save", "save2", "start", "select", "prepare"}
Selectable == {S \in SUBSET Packs : \A p, q \in S : p # q => p.region # q.region}
Settings == [host : Hosts, selected : SUBSET Packs]
Default == [host |-> CHOOSE h \in Hosts : TRUE, selected |-> {}]

Save == [at : {"idle", "write", "rename", "adopt", "done", "failed"}, value : Settings]
NoSave == [at |-> "idle", value |-> Default]
NoStatus == [state |-> "none", saved |-> 0]

Active(h) == handler[h] # "idle"
SaveInProgress == \E h \in Handlers : saving[h].at \in {"write", "rename", "adopt"}
Move(h, step) == handler' = [handler EXCEPT ![h] = step]

Init ==
    /\ StoreInit
    /\ settings = Default /\ file = Default
    /\ temporary = {} /\ saving = [h \in Handlers |-> NoSave]
    /\ handler = [h \in Handlers |-> "idle"]
    /\ wanted = [left |-> {}, all |-> {}]
    /\ worker = None
    /\ progress = NoStatus /\ status = NoStatus /\ outcome = "none" /\ unsaved = FALSE
    /\ kept = NoSelection

-----------------------------------------------------------------------------
(* SettingsStore.save: write the temporary file, rename it, adopt          *)

BeginSave(h, value) ==
    /\ saving' = [saving EXCEPT ![h] = [at |-> "write", value |-> value]]
    /\ UNCHANGED <<settings, file, temporary>>

WriteTemporary(h) ==
    /\ saving[h].at = "write"
    /\ temporary' = {saving[h].value}
    /\ saving' = [saving EXCEPT ![h].at = "rename"]
    /\ UNCHANGED <<settings, file>>

\* The name of the temporary file is fixed: another save may have moved it.
RenameTemporary(h) ==
    /\ saving[h].at = "rename"
    /\ IF temporary = {}
       THEN saving' = [saving EXCEPT ![h].at = "failed"] /\ UNCHANGED <<file, temporary>>
       ELSE /\ file' = CHOOSE s \in temporary : TRUE
            /\ temporary' = {}
            /\ saving' = [saving EXCEPT ![h].at = "adopt"]
    /\ UNCHANGED <<settings>>

Adopt(h) ==
    /\ saving[h].at = "adopt"
    /\ settings' = saving[h].value
    /\ saving' = [saving EXCEPT ![h].at = "done"]
    /\ UNCHANGED <<file, temporary>>

\* A disk that refuses the write or the rename.
SaveFails(h) ==
    /\ saving[h].at \in {"write", "rename"} /\ faults < MaxFaults
    /\ faults' = faults + 1
    /\ saving' = [saving EXCEPT ![h] = [NoSave EXCEPT !.at = "failed"]]
    /\ UNCHANGED <<settings, file, temporary>>

SaveStep(h) ==
    /\ \/ (WriteTemporary(h) \/ RenameTemporary(h) \/ Adopt(h)) /\ UNCHANGED faults
       \/ SaveFails(h)
    /\ UNCHANGED <<blob, packs, index, call, rotten, statusVars, handler, wanted, worker,
                   kept>>

EndSave(h) == saving' = [saving EXCEPT ![h] = NoSave]

-----------------------------------------------------------------------------
(* The flags of the handlers                                               *)

SimulatorStartPending == Active("start")
RoadPackSelectionPending == Active("select")
PreparationController == Active("prepare")
SimulatorWorker_Fault == Active("start") \* a worker that has started no longer counts
SimulatorWorker == worker # None

Exclusive_Fault == ~(SimulatorWorker \/ SimulatorStartPending \/ RoadPackSelectionPending)

\* The condition of settings:save, road:select-pack and road:prepare.
Exclusive ==
    ~(SimulatorWorker \/ SimulatorStartPending \/ PreparationController
      \/ RoadPackSelectionPending)

Request(h) ==
    /\ ~Active(h)
    /\ Overlapping \/ ~SaveInProgress

-----------------------------------------------------------------------------
(* settings:save                                                           *)

RequestSave(h) ==
    /\ h = "save" \/ (Overlapping /\ h = "save2")
    /\ Request(h)
    /\ Exclusive
    /\ \E host \in Hosts : BeginSave(h, [settings EXCEPT !.host = host])
    /\ Move(h, "saving")
    /\ UNCHANGED <<storeVars, statusVars, wanted, worker, kept>>

AnswerSave(h) ==
    /\ h \in {"save", "save2"} /\ handler[h] = "saving" /\ saving[h].at \in {"done", "failed"}
    /\ EndSave(h) /\ Move(h, "idle")
    /\ UNCHANGED <<settings, file, temporary, storeVars, statusVars, wanted,
                   worker, kept>>

-----------------------------------------------------------------------------
(* simulator:start, and the end of the worker                              *)

RequestStart ==
    /\ Request("start")
    /\ ~(SimulatorWorker \/ PreparationController \/ RoadPackSelectionPending)
    /\ Move("start", "load")
    /\ UNCHANGED <<storeVars, settingsVars, statusVars, wanted, worker, kept>>

\* One pack for every region, or an error; then the settings are saved.
StartLoads ==
    /\ handler["start"] = "load"
    /\ \E host \in Hosts :
        /\ {p.region : p \in settings.selected} = Regions
        /\ \A p \in settings.selected : Loadable(p)
        /\ BeginSave("start", [settings EXCEPT !.host = host])
    /\ Move("start", "saving")
    /\ UNCHANGED <<storeVars, statusVars, wanted, worker, kept>>

StartLaunches ==
    /\ handler["start"] = "saving" /\ saving["start"].at = "done"
    /\ worker' = saving["start"].value
    /\ EndSave("start") /\ Move("start", "launching")
    /\ UNCHANGED <<settings, file, temporary, storeVars, statusVars, wanted,
                   kept>>

\* The packs do not load, the save fails, or the worker runs or fails.
AnswerStart ==
    /\ \/ handler["start"] = "load" /\ UNCHANGED worker
       \/ handler["start"] = "saving" /\ saving["start"].at = "failed" /\ UNCHANGED worker
       \/ handler["start"] = "launching" /\ worker' \in {worker, None}
    /\ EndSave("start") /\ Move("start", "idle")
    /\ UNCHANGED <<settings, file, temporary, storeVars, statusVars, wanted,
                   kept>>

\* simulator:stop, or a worker that fails.
WorkerEnds ==
    /\ worker # None /\ worker' = None
    /\ UNCHANGED <<storeVars, settingsVars, statusVars, handler, wanted, kept>>

-----------------------------------------------------------------------------
(* road:select-pack                                                        *)

RequestSelect ==
    /\ Request("select") /\ Exclusive
    /\ \E digests \in Selectable :
        digests \subseteq packs /\ wanted' = [left |-> digests, all |-> digests]
    /\ Move("select", "load")
    /\ UNCHANGED <<storeVars, settingsVars, statusVars, worker, kept>>

\* Every pack must load; the dashboard has asked when the selection changes.
SelectLoads ==
    /\ handler["select"] = "load"
    /\ \A p \in wanted.all : Loadable(p)
    /\ Move("select", "selecting")
    /\ UNCHANGED <<storeVars, settingsVars, statusVars, wanted, worker, kept>>

SelectNext ==
    /\ handler["select"] = "selecting" /\ At("select", "idle") /\ wanted.left # {}
    /\ LET p == CHOOSE q \in wanted.left : TRUE
       IN  BeginSelect("select", p) /\ wanted' = [wanted EXCEPT !.left = @ \ {p}]
    /\ UNCHANGED <<blob, packs, index, rotten, faults, settingsVars, statusVars, handler,
                   worker, kept>>

Selected(c) ==
    /\ At(c, "done")
    /\ call' = [call EXCEPT ![c] = NoCall]
    /\ kept' = [kept EXCEPT ![Pack(c).region] = Pack(c)]

SelectedNext ==
    /\ Selected("select")
    /\ UNCHANGED <<blob, packs, index, rotten, faults, settingsVars, statusVars, handler,
                   wanted, worker>>

SelectSaves ==
    /\ handler["select"] = "selecting" /\ At("select", "idle") /\ wanted.left = {}
    /\ BeginSave("select", [settings EXCEPT !.selected = wanted.all])
    /\ Move("select", "saving")
    /\ UNCHANGED <<storeVars, statusVars, wanted, worker, kept>>

AnswerSelect ==
    /\ \/ handler["select"] = "load"
       \/ handler["select"] = "selecting" /\ At("select", "failed")
       \/ handler["select"] = "saving" /\ saving["select"].at \in {"done", "failed"}
    /\ EndSave("select") /\ Move("select", "idle")
    /\ call' = [call EXCEPT !["select"] = NoCall]
    /\ wanted' = [left |-> {}, all |-> {}]
    /\ UNCHANGED <<blob, packs, index, rotten, faults, settings, file, temporary,
                   statusVars, worker, kept>>

-----------------------------------------------------------------------------
(* road:prepare, its progress and its status file                          *)

\* A status that cannot be written is only logged.
Persist(s) ==
    \/ status' = s /\ unsaved' = FALSE /\ UNCHANGED faults
    \/ faults < MaxFaults /\ faults' = faults + 1 /\ unsaved' = TRUE /\ UNCHANGED status

Stored == UNCHANGED <<blob, packs, index, rotten>>

RequestPrepare ==
    /\ Request("prepare") /\ Exclusive
    /\ progress' = [state |-> "running", saved |-> status.saved]
    /\ Persist(progress')
    /\ outcome' = "running"
    /\ Move("prepare", "working")
    /\ Stored /\ UNCHANGED <<call, settingsVars, wanted, worker, kept>>

\* The coordinator adds routes to the selected pack of a region, or to an empty
\* one when that is damaged.
PrepareWrites ==
    /\ handler["prepare"] = "working" /\ At("prepare", "idle")
    /\ \E p \in Packs :
        /\ Listed(p.region) => Catalogue(p.region) \subseteq p.blobs
        /\ BeginWrite("prepare", p)
    /\ Stored /\ UNCHANGED <<faults, settingsVars, statusVars, handler, wanted, worker,
                             kept>>

\* Routes count as saved when the pack that holds them is written.
RoutesSaved ==
    Cardinality(UNION {index[r].blobs : r \in {r \in Regions : index[r] # None /\ Listed(r)}})

PrepareSaved_Fault == \* routes are counted when they are accepted
    /\ handler["prepare"] = "working" /\ At("prepare", "check")
    /\ progress' = [progress EXCEPT !.saved = @ + 1] /\ Persist(progress')
    /\ call' = call /\ kept' = kept
    /\ Stored /\ UNCHANGED <<outcome, settingsVars, handler, wanted, worker>>

PrepareSaved ==
    /\ Selected("prepare")
    /\ progress' = [progress EXCEPT !.saved = RoutesSaved] /\ Persist(progress')
    /\ Stored /\ UNCHANGED <<outcome, settingsVars, handler, wanted, worker>>

\* It ends with a result (ready stands for all: they are recorded alike) or with an
\* error; a cancellation, noticed between two calls of the store, is one of either.
PrepareEnds ==
    /\ handler["prepare"] = "working" /\ call["prepare"].at \in {"idle", "failed"}
    /\ outcome' = IF At("prepare", "failed") THEN "blocked" ELSE "ready"
    /\ progress' = [progress EXCEPT !.state = outcome']
    /\ Persist(progress')
    /\ call' = [call EXCEPT !["prepare"] = NoCall]
    /\ Move("prepare", "stopping")
    /\ Stored /\ UNCHANGED <<settingsVars, wanted, worker, kept>>

\* The routing session is stopped and the controller forgotten.
AnswerPrepare ==
    /\ handler["prepare"] = "stopping"
    /\ Move("prepare", "idle") /\ progress' = NoStatus
    /\ UNCHANGED <<storeVars, settingsVars, status, outcome, unsaved, wanted, worker,
                   kept>>

\* What road:coverage shows of the last preparation.
ShownState == IF status.state = "running" THEN "interrupted" ELSE status.state

-----------------------------------------------------------------------------
(* The end of the program, in an orderly way or not, and the next start    *)

\* A temporary file left behind is overwritten by the next save.
Restart ==
    /\ settings' = file /\ temporary' = {} /\ UNCHANGED file
    /\ saving' = [h \in Handlers |-> NoSave]
    /\ handler' = [h \in Handlers |-> "idle"]
    /\ wanted' = [left |-> {}, all |-> {}]
    /\ call' = [c \in Callers |-> NoCall]
    /\ worker' = None /\ progress' = NoStatus
    /\ kept' = index
    /\ UNCHANGED <<blob, packs, index, rotten, status, unsaved>>

Exit_Fault == worker = None /\ Restart /\ UNCHANGED <<outcome, faults>>

\* before-quit cancels the preparation and stops the worker, and waits for both.
\* The handlers do not look at its flag: what is begun meanwhile is not waited
\* for, and then the program ends as it does in a crash.
Exit ==
    /\ worker = None /\ ~Active("prepare")
    /\ Restart /\ UNCHANGED <<outcome, faults>>

Crash ==
    /\ faults < MaxFaults /\ faults' = faults + 1
    /\ outcome' = IF outcome = "running" THEN "interrupted" ELSE outcome
    /\ Restart

Disk ==
    /\ \/ \E c \in Callers : StoreStep(c)
       \/ BlobDamaged
    /\ UNCHANGED <<settingsVars, statusVars, handler, wanted, worker, kept>>

Next ==
    \/ \E h \in Handlers : SaveStep(h) \/ RequestSave(h) \/ AnswerSave(h)
    \/ RequestStart \/ StartLoads \/ StartLaunches \/ AnswerStart \/ WorkerEnds
    \/ RequestSelect \/ SelectLoads \/ SelectNext \/ SelectedNext \/ SelectSaves \/ AnswerSelect
    \/ RequestPrepare \/ PrepareWrites \/ PrepareSaved \/ PrepareEnds \/ AnswerPrepare
    \/ Exit \/ Crash \/ Disk

Spec == Init /\ [][Next]_vars

-----------------------------------------------------------------------------
(* Properties                                                              *)

TypeOK ==
    /\ StoreTypeOK
    /\ settings \in Settings /\ file \in Settings
    /\ temporary \subseteq Settings /\ saving \in [Handlers -> Save]
    /\ DOMAIN handler = Handlers /\ wanted.left \subseteq wanted.all
    /\ worker \in Settings \cup {None} /\ unsaved \in BOOLEAN
    /\ kept \in Selections

Committed(r) == {Pack(c) : c \in {c \in Callers : At(c, "done") /\ Pack(c).region = r}}

\* What a preparation or a selection has selected for a region stays selected
\* until another call selects for that region, although every call reads the
\* whole index and writes it back, and although the program may end between any
\* two steps; and the index names complete packs only.
SelectionsKept ==
    /\ TypeOK /\ IndexComplete
    /\ \A r \in Regions : index[r] \in {kept[r]} \cup Committed(r)

\* While a simulation runs, the settings in memory and on disk are those it was
\* started with: a restart after a crash finds the packs and the seed that
\* identify its checkpoint.
RunsWhatIsSaved == worker # None => worker = settings /\ worker = file

RoutesInPacks == Cardinality(UNION {p.blobs : p \in packs})

\* After a preparation its status says how it ended, through a restart of the
\* program too, unless it could not be written; a program that ends in an orderly
\* way lets the preparation that runs finish; and no more routes are shown as saved
\* than there are in packs on disk.
StatusTruthful ==
    /\ handler["prepare"] # "working" => outcome # "running" /\ (unsaved \/ ShownState = outcome)
    /\ status.saved <= RoutesInPacks

\* Saved settings are those a restart loads (tests/settings-store.test.js:10).
SavedSettingsReload == ~SaveInProgress => file = settings
=============================================================================
