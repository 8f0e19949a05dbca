--------------------------- MODULE AppShellProofs ---------------------------
(***************************************************************************)
(* What AppShell keeps for any number of regions, packs, hosts and faults: *)
(* the selection of a region, the settings a simulation runs with, and     *)
(* what the status of a preparation tells.                                 *)
(*                                                                         *)
(* The calls of the pack store read the whole index and write it back, and *)
(* nothing in the store keeps two of them apart.  The handlers do: FlagsInv*)
(* says that selecting and preparing exclude each other, so that the index *)
(* a call has read is still the index when it writes (PacksInv).           *)
(***************************************************************************)
EXTENDS AppShell, FiniteSetTheorems, TLAPS

-----------------------------------------------------------------------------
(* The inductive invariant                                                 *)

HandlerSteps == {"idle", "load", "saving", "launching", "selecting", "working", "stopping"}

Statuses == [state : {"none", "running", "ready", "blocked"}, saved : Nat]

ShellTypes ==
    /\ settings \in Settings /\ file \in Settings /\ temporary \in SUBSET Settings
    /\ saving \in [Handlers -> Save] /\ handler \in [Handlers -> HandlerSteps]
    /\ wanted \in [left : SUBSET Packs, all : SUBSET Packs]
    /\ worker \in Settings \cup {None} /\ unsaved \in BOOLEAN /\ kept \in Selections
    /\ progress \in Statuses /\ status \in Statuses

WantedInv == wanted.left \subseteq wanted.all

TypeInv == StoreTypeOK /\ ShellTypes /\ WantedInv

\* Selecting packs and preparing routes exclude each other, and each makes its
\* calls of the store in one of its steps: at most one call is in progress.
FlagsInv ==
    /\ ~Active("select") \/ ~Active("prepare")
    /\ At("select", "idle") \/ handler["select"] = "selecting"
    /\ At("prepare", "idle") \/ handler["prepare"] = "working"

Complete(p) == \A b \in p.blobs \ rotten : blob[b] = "good"

\* A pack whose directory is in place is complete; a call comes to the index only
\* with such a pack, and nothing has written the index since the call read it.
PacksInv ==
    /\ \A p \in packs : Complete(p)
    /\ \A r \in Regions : index[r] # None => index[r] \in packs /\ index[r].region = r
    /\ \A c \in Callers :
        /\ ~At(c, "idle") /\ ~At(c, "failed") => Pack(c) \in Packs
        /\ At(c, "rename") => Complete(Pack(c))
        /\ call[c].at \in {"read", "commit", "done"} => Pack(c) \in packs
        /\ At(c, "commit") => call[c].seen = index
        /\ At(c, "done") => index[Pack(c).region] = Pack(c)

KeptInv == \A r \in Regions : index[r] \in {kept[r]} \cup Committed(r)

\* The save of a start is the only one, from the write to the launch.
StartSave ==
    LET s == saving["start"] IN
    /\ s.at = "rename" => temporary = {s.value}
    /\ s.at \in {"adopt", "done"} => file = s.value
    /\ s.at = "done" => settings = s.value

SavesInv ==
    /\ \A h \in Handlers : saving[h].at # "idle" => handler[h] = "saving"
    /\ ~Active("start") \/ ~Active("select")
    /\ ~Active("save2") /\ handler["save"] \in {"idle", "saving"}
    /\ saving["save"].at \in {"write", "rename", "adopt"} =>
        ~Active("start") /\ ~Active("select")
    /\ Active("prepare") =>
        saving["save"].at \notin {"write", "rename", "adopt"} /\ ~Active("start")
    /\ StartSave
    /\ worker # None =>
        /\ worker = settings /\ worker = file
        /\ ~SaveInProgress /\ handler["start"] \in {"idle", "launching"}
        /\ ~Active("select") /\ ~Active("prepare")

\* A preparation runs as long as its handler is at work, and its status was
\* written with each change of its progress, or could not be.
StatusInv ==
    /\ handler["prepare"] = "working" <=> outcome = "running"
    /\ outcome = "running" => progress.state = "running" /\ (unsaved \/ status.state = "running")
    /\ outcome # "running" => unsaved \/ ShownState = outcome
    /\ progress.saved <= RoutesInPacks /\ status.saved <= RoutesInPacks

\* With one save at a time, SavesInv holds too.
ShellInv == TypeInv /\ FlagsInv /\ PacksInv /\ KeptInv /\ StatusInv

-----------------------------------------------------------------------------
(* Records and calls                                                       *)

\* The values the handlers go back to have their types.
LEMMA DefaultType == Default \in Settings /\ NoSave \in Save
BY ShellAssumption DEF Default, Settings, NoSave, Save

\* So have those of the store.
LEMMA NoCallType == NoSelection \in Selections /\ NoCall \in Call
BY DEF NoSelection, Selections, NoCall, Call

\* While one call of the store is in progress there is no other.
LEMMA OtherIdle ==
    FlagsInv => \A c, d \in Callers : c # d /\ ~At(c, "idle") => At(d, "idle")
BY ShellAssumption DEF FlagsInv, Active

\* A step of a call keeps the types of the store.
LEMMA StoreStepType ==
    ASSUME StoreTypeOK, PacksInv, NEW c \in Callers, StoreStep(c)
    PROVE  StoreTypeOK'
<1> USE NoCallType, StoreAssumption DEF StoreTypeOK
<1>1. CASE Check(c)
  BY <1>1 DEF Check, Goto, Call
<1>2. CASE WriteBlob(c)
  BY <1>2 DEF WriteBlob
<1>3. CASE BlobsWritten(c)
  BY <1>3 DEF BlobsWritten, Goto, Call
<1>4. CASE RenameDirectory(c)
  BY <1>4 DEF RenameDirectory, Goto, Call, PacksInv, At, Pack
<1>5. CASE Load(c)
  BY <1>5 DEF Load, Goto, Call
<1>6. CASE ReadIndex(c)
  BY <1>6 DEF ReadIndex, Call
<1>7. CASE CommitIndex(c)
  <2>1. Pack(c) \in Packs
    BY <1>7 DEF CommitIndex, PacksInv, At, Pack
  <2>2. index' \in Selections
    BY <1>7, <2>1 DEF CommitIndex, Selections, Call
  <2>3. call' \in [Callers -> Call]
    BY <1>7 DEF CommitIndex, Call
  <2> QED
    BY <1>7, <2>2, <2>3 DEF CommitIndex
<1>8. CASE CallFails(c)
  BY <1>8 DEF CallFails, Call
<1> QED
  BY <1>1, <1>2, <1>3, <1>4, <1>5, <1>6, <1>7, <1>8 DEF StoreStep

\* A step of a call is of a call in progress, and changes no other.
LEMMA StoreStepCalls ==
    ASSUME StoreTypeOK, NEW c \in Callers, StoreStep(c)
    PROVE  ~At(c, "idle") /\ ~At(c, "failed") /\ \A d \in Callers \ {c} : call'[d] = call[d]
BY DEF StoreStep, Check, WriteBlob, BlobsWritten, RenameDirectory, Load, ReadIndex,
   CommitIndex,
       CallFails, Busy, Goto, At, StoreTypeOK

\* A damaged blob keeps the types of the store.
LEMMA BlobDamagedType == StoreTypeOK /\ BlobDamaged => StoreTypeOK'
BY StoreAssumption DEF StoreTypeOK, BlobDamaged

-----------------------------------------------------------------------------
(* Types                                                                   *)

\* Every step keeps the types of the store.
LEMMA StoreTypeStep == StoreTypeOK /\ ShellTypes /\ PacksInv /\ [Next]_vars => StoreTypeOK'
<1> SUFFICES ASSUME StoreTypeOK, ShellTypes, PacksInv, [Next]_vars PROVE StoreTypeOK'
  OBVIOUS
<1>0. ASSUME UNCHANGED storeVars PROVE StoreTypeOK'
  BY <1>0 DEF storeVars, StoreTypeOK
<1>1. ASSUME NEW h \in Handlers, SaveStep(h) PROVE StoreTypeOK'
  BY <1>1, StoreAssumption, ShellAssumption, NoCallType DEF SaveStep, statusVars,
     WriteTemporary, RenameTemporary, Adopt, SaveFails, StoreTypeOK, Call
<1>2. CASE SelectNext
  <2> DEFINE p == CHOOSE q \in wanted.left : TRUE
  <2>1. wanted.left # {} /\ BeginSelect("select", p)
    BY <1>2 DEF SelectNext
  <2>2. p \in wanted.left
    BY <2>1
  <2>3. p \in Packs
    BY <2>2 DEF ShellTypes
  <2> HIDE DEF p
  <2>4. call' \in [Callers -> Call]
    BY <2>1, <2>3, NoCallType DEF BeginSelect, StoreTypeOK, Call
  <2> QED
    BY <1>2, <2>4 DEF SelectNext, StoreTypeOK
<1>3. CASE SelectedNext
  BY <1>3, StoreAssumption, ShellAssumption, NoCallType
    DEF SelectedNext, settingsVars, statusVars, Selected, StoreTypeOK, Call
<1>4. CASE AnswerSelect
  BY <1>4, StoreAssumption, ShellAssumption, NoCallType
    DEF AnswerSelect, statusVars, EndSave, Move, StoreTypeOK, Call
<1>5. CASE RequestPrepare
  BY <1>5, StoreAssumption, ShellAssumption, NoCallType
    DEF RequestPrepare, settingsVars, Persist, Stored, Move, StoreTypeOK, Call
<1>6. CASE PrepareWrites
  BY <1>6, StoreAssumption, ShellAssumption, NoCallType
    DEF PrepareWrites, settingsVars, statusVars, BeginWrite, Stored, StoreTypeOK, Call
<1>7. CASE PrepareSaved
  BY <1>7, StoreAssumption, ShellAssumption, NoCallType
    DEF PrepareSaved, settingsVars, Selected, Persist, Stored, StoreTypeOK, Call
<1>8. CASE PrepareEnds
  BY <1>8, StoreAssumption, ShellAssumption, NoCallType
    DEF PrepareEnds, settingsVars, Persist, Stored, Move, StoreTypeOK, Call
<1>9. CASE Exit
  BY <1>9, StoreAssumption, ShellAssumption, NoCallType DEF Exit, Restart, StoreTypeOK, Call
<1>10. CASE Crash
  BY <1>10, StoreAssumption, ShellAssumption, NoCallType DEF Crash, Restart, StoreTypeOK, Call
<1>11. CASE Disk
  BY <1>11, StoreStepType, BlobDamagedType DEF Disk
<1>12. ASSUME NEW h \in Handlers, RequestSave(h) PROVE StoreTypeOK'
  BY <1>0, <1>12 DEF RequestSave, storeVars, statusVars, BeginSave, Move
<1>13. ASSUME NEW h \in Handlers, AnswerSave(h) PROVE StoreTypeOK'
  BY <1>0, <1>13 DEF AnswerSave, storeVars, statusVars, EndSave, Move
<1>14. CASE \/ RequestStart \/ StartLoads \/ StartLaunches \/ AnswerStart \/ WorkerEnds
            \/ RequestSelect \/ SelectLoads \/ SelectSaves \/ AnswerPrepare
            \/ UNCHANGED vars
  BY <1>0, <1>14 DEF vars, RequestStart, StartLoads, StartLaunches, AnswerStart, WorkerEnds,
     RequestSelect, SelectLoads, SelectSaves, AnswerPrepare, storeVars, settingsVars,
     statusVars, Stored
<1> QED
  BY <1>1, <1>2, <1>3, <1>4, <1>5, <1>6, <1>7, <1>8, <1>9, <1>10, <1>11, <1>12, <1>13,
     <1>14 DEF Next

\* The routes that count as saved are routes of packs on disk.
LEMMA RoutesBounded ==
    ASSUME StoreTypeOK, PacksInv
    PROVE  RoutesSaved \in Nat /\ RoutesInPacks \in Nat /\ RoutesSaved <= RoutesInPacks
<1> DEFINE listed == UNION {index[r].blobs : r \in {r \in Regions : index[r] # None /\ Listed(r)}}
           packed == UNION {p.blobs : p \in packs}
<1>1. listed \subseteq packed
  BY DEF PacksInv
<1>2. packed \subseteq Blobs
  BY StoreAssumption DEF StoreTypeOK
<1>3. RoutesSaved = Cardinality(listed) /\ RoutesInPacks = Cardinality(packed)
  BY DEF RoutesSaved, RoutesInPacks
<1> HIDE DEF listed, packed
<1>4. IsFiniteSet(packed)
  BY <1>2, FS_Subset, StoreAssumption
<1>5. IsFiniteSet(listed) /\ Cardinality(listed) <= Cardinality(packed)
  BY <1>1, <1>4, FS_Subset
<1> QED
  BY <1>3, <1>4, <1>5, FS_CardinalityType

\* The routes of the packs on disk can be counted.
LEMMA PacksNumber == StoreTypeOK => RoutesInPacks \in Nat
<1> SUFFICES ASSUME StoreTypeOK PROVE RoutesInPacks \in Nat
  OBVIOUS
<1>1. UNION {p.blobs : p \in packs} \subseteq Blobs
  BY StoreAssumption DEF StoreTypeOK
<1>2. IsFiniteSet(UNION {p.blobs : p \in packs})
  BY <1>1, FS_Subset, StoreAssumption
<1> QED
  BY <1>2, FS_CardinalityType DEF RoutesInPacks

\* Packs that are added take no route away.
LEMMA MoreRoutes ==
    ASSUME StoreTypeOK, StoreTypeOK', packs \subseteq packs'
    PROVE  RoutesInPacks <= RoutesInPacks' /\ RoutesInPacks' \in Nat
<1> DEFINE old == UNION {p.blobs : p \in packs}
           new == UNION {p.blobs : p \in packs'}
<1>1. old \subseteq new
  OBVIOUS
<1>2. new \subseteq Blobs
  BY StoreAssumption DEF StoreTypeOK
<1>3. RoutesInPacks = Cardinality(old) /\ RoutesInPacks' = Cardinality(new)
  BY DEF RoutesInPacks
<1> HIDE DEF old, new
<1>4. IsFiniteSet(new)
  BY <1>2, FS_Subset, StoreAssumption
<1>5. Cardinality(old) <= Cardinality(new)
  BY <1>1, <1>4, FS_Subset
<1> QED
  BY <1>3, <1>4, <1>5, FS_CardinalityType

\* Every step keeps the types of the handlers, the settings and the status.
LEMMA ShellTypeStep == StoreTypeOK /\ ShellTypes /\ PacksInv /\ [Next]_vars => ShellTypes'
<1> SUFFICES ASSUME StoreTypeOK, ShellTypes, PacksInv, [Next]_vars PROVE ShellTypes'
  OBVIOUS
<1>1. ASSUME NEW h \in Handlers, SaveStep(h) PROVE ShellTypes'
  <2>1. CASE WriteTemporary(h)
    BY <1>1, <2>1 DEF SaveStep, WriteTemporary, statusVars, ShellTypes, Save
  <2>2. CASE RenameTemporary(h)
    <3>1. temporary # {} => (CHOOSE s \in temporary : TRUE) \in temporary
      OBVIOUS
    <3>2. file' \in Settings /\ temporary' \in SUBSET Settings
      BY <2>2, <3>1 DEF RenameTemporary, ShellTypes
    <3>3. saving' \in [Handlers -> Save]
      BY <2>2 DEF RenameTemporary, ShellTypes, Save
    <3> QED
      BY <1>1, <2>2, <3>2, <3>3 DEF SaveStep, RenameTemporary, statusVars, ShellTypes
  <2>3. CASE Adopt(h)
    BY <1>1, <2>3 DEF SaveStep, Adopt, statusVars, ShellTypes, Save
  <2>4. CASE SaveFails(h)
    <3>1. [NoSave EXCEPT !.at = "failed"] \in Save
      BY DefaultType DEF Save
    <3>2. saving' \in [Handlers -> Save]
      BY <2>4, <3>1 DEF SaveFails, ShellTypes
    <3> QED
      BY <1>1, <2>4, <3>2 DEF SaveStep, SaveFails, statusVars, ShellTypes
  <2> QED
    BY <1>1, <2>1, <2>2, <2>3, <2>4 DEF SaveStep
<1>2. ASSUME NEW h \in Handlers, RequestSave(h) PROVE ShellTypes'
  BY <1>2, DefaultType, RoutesBounded DEF RequestSave, storeVars, statusVars, BeginSave,
     Move, StoreTypeOK, ShellTypes, Settings, Save, Handlers, HandlerSteps, NoStatus, Statuses
<1>3. ASSUME NEW h \in Handlers, AnswerSave(h) PROVE ShellTypes'
  BY <1>3, DefaultType, RoutesBounded DEF AnswerSave, storeVars, statusVars, EndSave, Move,
     StoreTypeOK, ShellTypes, Settings, Save, Handlers, HandlerSteps, NoStatus, Statuses
<1>4. CASE RequestStart
  BY <1>4, DefaultType, RoutesBounded DEF RequestStart, storeVars, settingsVars, statusVars,
     Move, StoreTypeOK, ShellTypes, Settings, Save, Handlers, HandlerSteps, NoStatus, Statuses
<1>5. CASE StartLoads
  BY <1>5, DefaultType, RoutesBounded DEF StartLoads, storeVars, statusVars, BeginSave, Move,
     StoreTypeOK, ShellTypes, Settings, Save, Handlers, HandlerSteps, NoStatus, Statuses
<1>6. CASE StartLaunches
  BY <1>6, DefaultType, RoutesBounded DEF StartLaunches, storeVars, statusVars, EndSave,
     Move, StoreTypeOK, ShellTypes, Settings, Save, Handlers, HandlerSteps, NoStatus, Statuses
<1>7. CASE AnswerStart
  BY <1>7, DefaultType, RoutesBounded DEF AnswerStart, storeVars, statusVars, EndSave, Move,
     StoreTypeOK, ShellTypes, Settings, Save, Handlers, HandlerSteps, NoStatus, Statuses
<1>8. CASE WorkerEnds
  BY <1>8, DefaultType, RoutesBounded DEF WorkerEnds, storeVars, settingsVars, statusVars,
     StoreTypeOK, ShellTypes, Settings, Save, Handlers, HandlerSteps, NoStatus, Statuses
<1>9. CASE RequestSelect
  BY <1>9, DefaultType, RoutesBounded DEF RequestSelect, storeVars, settingsVars, statusVars,
     Move, StoreTypeOK, ShellTypes, Settings, Save, Handlers, HandlerSteps, NoStatus, Statuses
<1>10. CASE SelectLoads
  BY <1>10, DefaultType, RoutesBounded DEF SelectLoads, storeVars, settingsVars, statusVars,
     Move, StoreTypeOK, ShellTypes, Settings, Save, Handlers, HandlerSteps, NoStatus, Statuses
<1>11. CASE SelectNext
  BY <1>11, DefaultType, RoutesBounded DEF SelectNext, settingsVars, statusVars, BeginSelect,
     StoreTypeOK, ShellTypes, Settings, Save, Handlers, HandlerSteps, NoStatus, Statuses
<1>12. CASE SelectedNext
  <2>1. Pack("select") \in Packs
    BY <1>12, ShellAssumption DEF SelectedNext, Selected, PacksInv, At
  <2>2. kept' \in Selections
    BY <1>12, <2>1 DEF SelectedNext, Selected, ShellTypes, Selections
  <2> QED
    BY <1>12, <2>2 DEF SelectedNext, settingsVars, statusVars, ShellTypes
<1>13. CASE SelectSaves
  BY <1>13, DefaultType, RoutesBounded DEF SelectSaves, storeVars, statusVars, BeginSave,
     Move, StoreTypeOK, ShellTypes, Settings, Save, Handlers, HandlerSteps, NoStatus, Statuses
<1>14. CASE AnswerSelect
  BY <1>14, DefaultType, RoutesBounded DEF AnswerSelect, statusVars, EndSave, Move,
     StoreTypeOK, ShellTypes, Settings, Save, Handlers, HandlerSteps, NoStatus, Statuses
<1>15. CASE RequestPrepare
  <2>1. progress' \in Statuses
    BY <1>15 DEF RequestPrepare, ShellTypes, Statuses
  <2>2. status' \in Statuses /\ unsaved' \in BOOLEAN
    BY <1>15, <2>1 DEF RequestPrepare, Persist, ShellTypes
  <2>3. handler' \in [Handlers -> HandlerSteps]
    BY <1>15 DEF RequestPrepare, Move, ShellTypes, Handlers, HandlerSteps
  <2> QED
    BY <1>15, <2>1, <2>2, <2>3 DEF RequestPrepare, settingsVars, ShellTypes
<1>16. CASE PrepareWrites
  BY <1>16, DefaultType, RoutesBounded DEF PrepareWrites, settingsVars, statusVars,
     BeginWrite, Stored, StoreTypeOK, ShellTypes, Settings, Save, Handlers, HandlerSteps,
     NoStatus, Statuses
<1>17. CASE PrepareSaved
  <2>1. Pack("prepare") \in Packs
    BY <1>17, ShellAssumption DEF PrepareSaved, Selected, PacksInv, At
  <2>2. kept' \in Selections
    BY <1>17, <2>1 DEF PrepareSaved, Selected, ShellTypes, Selections
  <2>3. progress' \in Statuses
    BY <1>17, RoutesBounded DEF PrepareSaved, ShellTypes, Statuses
  <2>4. status' \in Statuses /\ unsaved' \in BOOLEAN
    BY <1>17, <2>3 DEF PrepareSaved, Persist, ShellTypes
  <2> QED
    BY <1>17, <2>2, <2>3, <2>4 DEF PrepareSaved, settingsVars, ShellTypes
<1>18. CASE PrepareEnds
  BY <1>18, DefaultType, RoutesBounded DEF PrepareEnds, settingsVars, Persist, Stored, Move,
     StoreTypeOK, ShellTypes, Settings, Save, Handlers, HandlerSteps, NoStatus, Statuses
<1>19. CASE AnswerPrepare
  BY <1>19, DefaultType, RoutesBounded DEF AnswerPrepare, storeVars, settingsVars, Move,
     StoreTypeOK, ShellTypes, Settings, Save, Handlers, HandlerSteps, NoStatus, Statuses
<1>20. CASE Exit
  BY <1>20, DefaultType, RoutesBounded DEF Exit, Restart, StoreTypeOK, ShellTypes, Settings,
     Save, Handlers, HandlerSteps, NoStatus, Statuses
<1>21. CASE Crash
  BY <1>21, DefaultType, RoutesBounded DEF Crash, Restart, StoreTypeOK, ShellTypes, Settings,
     Save, Handlers, HandlerSteps, NoStatus, Statuses
<1>22. CASE Disk
  BY <1>22, DefaultType, RoutesBounded DEF Disk, settingsVars, statusVars, StoreTypeOK,
     ShellTypes, Settings, Save, Handlers, HandlerSteps, NoStatus, Statuses
<1>23. CASE UNCHANGED vars
  BY <1>23 DEF vars, storeVars, settingsVars, statusVars, Stored, StoreTypeOK, ShellTypes,
     Settings, Save, Handlers, HandlerSteps, NoStatus, Statuses
<1> QED
  BY <1>1, <1>2, <1>3, <1>4, <1>5, <1>6, <1>7, <1>8, <1>9, <1>10, <1>11, <1>12, <1>13, <1>14,
     <1>15, <1>16, <1>17, <1>18, <1>19, <1>20, <1>21, <1>22, <1>23 DEF Next

\* What is still to be selected was asked for.
LEMMA WantedStep == ShellTypes /\ WantedInv /\ [Next]_vars => WantedInv'
<1> SUFFICES ASSUME ShellTypes, WantedInv, [Next]_vars PROVE WantedInv'
  OBVIOUS
<1>0. ASSUME UNCHANGED wanted PROVE WantedInv'
  BY <1>0 DEF ShellTypes, WantedInv
<1>1. CASE RequestSelect
  BY <1>1 DEF RequestSelect, storeVars, settingsVars, statusVars, Move, ShellTypes, WantedInv
<1>2. CASE SelectNext
  BY <1>2 DEF SelectNext, settingsVars, statusVars, BeginSelect, ShellTypes, WantedInv
<1>3. CASE AnswerSelect
  BY <1>3 DEF AnswerSelect, statusVars, EndSave, Move, ShellTypes, WantedInv
<1>4. CASE Exit
  BY <1>4 DEF Exit, Restart, ShellTypes, WantedInv
<1>5. CASE Crash
  BY <1>5 DEF Crash, Restart, ShellTypes, WantedInv
<1>6. ASSUME NEW h \in Handlers, SaveStep(h) PROVE WantedInv'
  BY <1>0, <1>6 DEF SaveStep, statusVars, WriteTemporary, RenameTemporary, Adopt, SaveFails
<1>7. ASSUME NEW h \in Handlers, RequestSave(h) PROVE WantedInv'
  BY <1>0, <1>7 DEF RequestSave, storeVars, statusVars, BeginSave, Move
<1>8. ASSUME NEW h \in Handlers, AnswerSave(h) PROVE WantedInv'
  BY <1>0, <1>8 DEF AnswerSave, storeVars, statusVars, EndSave, Move
<1>9. CASE \/ RequestStart \/ StartLoads \/ StartLaunches \/ AnswerStart \/ WorkerEnds
            \/ SelectLoads \/ SelectedNext \/ SelectSaves \/ RequestPrepare \/ PrepareWrites
            \/ PrepareSaved \/ PrepareEnds \/ AnswerPrepare \/ Disk \/ UNCHANGED vars
  BY <1>0, <1>9 DEF vars, RequestStart, StartLoads, StartLaunches, AnswerStart, WorkerEnds,
     SelectLoads, SelectedNext, SelectSaves, RequestPrepare, PrepareWrites, PrepareSaved,
     PrepareEnds, AnswerPrepare, Disk, storeVars, settingsVars, statusVars, Stored
<1> QED
  BY <1>1, <1>2, <1>3, <1>4, <1>5, <1>6, <1>7, <1>8, <1>9 DEF Next

-----------------------------------------------------------------------------
(* The flags, the store and the selection                                  *)

\* Every step keeps selecting and preparing apart.
LEMMA FlagsStep == TypeInv /\ FlagsInv /\ [Next]_vars => FlagsInv'
<1> SUFFICES ASSUME TypeInv, FlagsInv, [Next]_vars PROVE FlagsInv'
  OBVIOUS
<1>0. ASSUME UNCHANGED <<handler, call>> PROVE FlagsInv'
  BY <1>0 DEF FlagsInv, TypeInv, StoreTypeOK, ShellTypes, Handlers, Active, At, NoCall, Call,
     Request, Exclusive, PreparationController, RoadPackSelectionPending
<1>1. ASSUME NEW h \in Handlers, RequestSave(h) PROVE FlagsInv'
  BY <1>1, ShellAssumption DEF RequestSave, storeVars, statusVars, BeginSave, Move, FlagsInv,
     TypeInv, StoreTypeOK, ShellTypes, Handlers, Active, At, NoCall, Call, Request,
     Exclusive, PreparationController, RoadPackSelectionPending
<1>2. ASSUME NEW h \in Handlers, AnswerSave(h) PROVE FlagsInv'
  BY <1>2, ShellAssumption DEF AnswerSave, storeVars, statusVars, EndSave, Move, FlagsInv,
     TypeInv, StoreTypeOK, ShellTypes, Handlers, Active, At, NoCall, Call, Request,
     Exclusive, PreparationController, RoadPackSelectionPending
<1>3. CASE RequestStart
  BY <1>3, ShellAssumption DEF RequestStart, storeVars, settingsVars, statusVars, Move,
     FlagsInv, TypeInv, StoreTypeOK, ShellTypes, Handlers, Active, At, NoCall, Call, Request,
     Exclusive, PreparationController, RoadPackSelectionPending
<1>4. CASE StartLoads
  BY <1>4, ShellAssumption DEF StartLoads, storeVars, statusVars, BeginSave, Move, FlagsInv,
     TypeInv, StoreTypeOK, ShellTypes, Handlers, Active, At, NoCall, Call, Request,
     Exclusive, PreparationController, RoadPackSelectionPending
<1>5. CASE StartLaunches
  BY <1>5, ShellAssumption DEF StartLaunches, storeVars, statusVars, EndSave, Move, FlagsInv,
     TypeInv, StoreTypeOK, ShellTypes, Handlers, Active, At, NoCall, Call, Request,
     Exclusive, PreparationController, RoadPackSelectionPending
<1>6. CASE AnswerStart
  BY <1>6, ShellAssumption DEF AnswerStart, storeVars, statusVars, EndSave, Move, FlagsInv,
     TypeInv, StoreTypeOK, ShellTypes, Handlers, Active, At, NoCall, Call, Request,
     Exclusive, PreparationController, RoadPackSelectionPending
<1>7. CASE RequestSelect
  BY <1>7, ShellAssumption DEF RequestSelect, storeVars, settingsVars, statusVars, Move,
     FlagsInv, TypeInv, StoreTypeOK, ShellTypes, Handlers, Active, At, NoCall, Call, Request,
     Exclusive, PreparationController, RoadPackSelectionPending
<1>8. CASE SelectLoads
  BY <1>8, ShellAssumption DEF SelectLoads, storeVars, settingsVars, statusVars, Move,
     FlagsInv, TypeInv, StoreTypeOK, ShellTypes, Handlers, Active, At, NoCall, Call, Request,
     Exclusive, PreparationController, RoadPackSelectionPending
<1>9. CASE SelectNext
  BY <1>9, ShellAssumption DEF SelectNext, settingsVars, statusVars, BeginSelect, FlagsInv,
     TypeInv, StoreTypeOK, ShellTypes, Handlers, Active, At, NoCall, Call, Request,
     Exclusive, PreparationController, RoadPackSelectionPending
<1>10. CASE SelectedNext
  BY <1>10, ShellAssumption DEF SelectedNext, settingsVars, statusVars, Selected, FlagsInv,
     TypeInv, StoreTypeOK, ShellTypes, Handlers, Active, At, NoCall, Call, Request,
     Exclusive, PreparationController, RoadPackSelectionPending
<1>11. CASE SelectSaves
  BY <1>11, ShellAssumption DEF SelectSaves, storeVars, statusVars, BeginSave, Move,
     FlagsInv, TypeInv, StoreTypeOK, ShellTypes, Handlers, Active, At, NoCall, Call, Request,
     Exclusive, PreparationController, RoadPackSelectionPending
<1>12. CASE AnswerSelect
  BY <1>12, ShellAssumption DEF AnswerSelect, statusVars, EndSave, Move, FlagsInv, TypeInv,
     StoreTypeOK, ShellTypes, Handlers, Active, At, NoCall, Call, Request, Exclusive,
     PreparationController, RoadPackSelectionPending
<1>13. CASE RequestPrepare
  BY <1>13, ShellAssumption DEF RequestPrepare, settingsVars, Persist, Stored, Move,
     FlagsInv, TypeInv, StoreTypeOK, ShellTypes, Handlers, Active, At, NoCall, Call, Request,
     Exclusive, PreparationController, RoadPackSelectionPending
<1>14. CASE PrepareWrites
  BY <1>14, ShellAssumption DEF PrepareWrites, settingsVars, statusVars, BeginWrite, Stored,
     FlagsInv, TypeInv, StoreTypeOK, ShellTypes, Handlers, Active, At, NoCall, Call, Request,
     Exclusive, PreparationController, RoadPackSelectionPending
<1>15. CASE PrepareSaved
  BY <1>15, ShellAssumption DEF PrepareSaved, settingsVars, Selected, Persist, Stored,
     FlagsInv, TypeInv, StoreTypeOK, ShellTypes, Handlers, Active, At, NoCall, Call, Request,
     Exclusive, PreparationController, RoadPackSelectionPending
<1>16. CASE PrepareEnds
  BY <1>16, ShellAssumption DEF PrepareEnds, settingsVars, Persist, Stored, Move, FlagsInv,
     TypeInv, StoreTypeOK, ShellTypes, Handlers, Active, At, NoCall, Call, Request,
     Exclusive, PreparationController, RoadPackSelectionPending
<1>17. CASE AnswerPrepare
  BY <1>17, ShellAssumption DEF AnswerPrepare, storeVars, settingsVars, Move, FlagsInv,
     TypeInv, StoreTypeOK, ShellTypes, Handlers, Active, At, NoCall, Call, Request,
     Exclusive, PreparationController, RoadPackSelectionPending
<1>18. CASE Exit
  BY <1>18, ShellAssumption DEF Exit, Restart, FlagsInv, TypeInv, StoreTypeOK, ShellTypes,
     Handlers, Active, At, NoCall, Call, Request, Exclusive, PreparationController,
     RoadPackSelectionPending
<1>19. CASE Crash
  BY <1>19, ShellAssumption DEF Crash, Restart, FlagsInv, TypeInv, StoreTypeOK, ShellTypes,
     Handlers, Active, At, NoCall, Call, Request, Exclusive, PreparationController,
     RoadPackSelectionPending
<1>20. CASE Disk
  <2>1. handler' = handler
    BY <1>20 DEF Disk
  <2>2. CASE BlobDamaged
    BY <2>1, <2>2 DEF BlobDamaged, FlagsInv, Active, At
  <2>3. ASSUME NEW c \in Callers, StoreStep(c) PROVE FlagsInv'
    BY <2>1, <2>3, StoreStepCalls, ShellAssumption DEF FlagsInv, Active, At, TypeInv
  <2> QED
    BY <1>20, <2>2, <2>3 DEF Disk
<1>21. ASSUME NEW h \in Handlers, SaveStep(h) PROVE FlagsInv'
  BY <1>0, <1>21 DEF SaveStep, statusVars, WriteTemporary, RenameTemporary, Adopt, SaveFails
<1>22. CASE \/ WorkerEnds \/ UNCHANGED vars
  BY <1>0, <1>22 DEF vars, WorkerEnds, storeVars, settingsVars, statusVars, Stored
<1> QED
  BY <1>1, <1>2, <1>3, <1>4, <1>5, <1>6, <1>7, <1>8, <1>9, <1>10, <1>11, <1>12, <1>13, <1>14,
     <1>15, <1>16, <1>17, <1>18, <1>19, <1>20, <1>21, <1>22 DEF Next

\* A step of a call comes to the index with a complete pack, and writes an index
\* that nothing has written since it was read.
LEMMA CallPacks ==
    ASSUME StoreTypeOK, PacksInv, FlagsInv, NEW c \in Callers, StoreStep(c)
    PROVE  PacksInv'
<1> USE StoreAssumption DEF PacksInv, At, Pack, StoreTypeOK, Complete, Call
<1>1. CASE Check(c)
  BY <1>1 DEF Check, Goto, Loadable, NotFound, Corrupt, Damage
<1>2. CASE WriteBlob(c)
  BY <1>2 DEF WriteBlob
<1>3. CASE BlobsWritten(c)
  BY <1>3 DEF BlobsWritten, Goto
<1>4. CASE RenameDirectory(c)
  BY <1>4 DEF RenameDirectory, Goto
<1>5. CASE Load(c)
  BY <1>5 DEF Load, Goto, Loadable
<1>6. CASE ReadIndex(c)
  BY <1>6 DEF ReadIndex
<1>7. CASE CommitIndex(c)
  <2>1. /\ Pack(c) \in packs /\ Pack(c) \in Packs /\ packs' = packs
        /\ index' = [index EXCEPT ![Pack(c).region] = Pack(c)]
    BY <1>7 DEF CommitIndex
  <2>2. Pack(c).region \in Regions
    BY <2>1
  <2>3. /\ index'[Pack(c).region] = Pack(c)
        /\ \A r \in Regions : index'[r] # None => index'[r] \in packs' /\ index'[r].region = r
    BY <2>1, <2>2 DEF Selections
  <2>4. call'[c].at = "done" /\ call'[c].pack = call[c].pack
    BY <1>7 DEF CommitIndex
  <2>5. \A d \in Callers \ {c} : call'[d].at = "idle"
    BY <1>7, OtherIdle DEF CommitIndex
  <2>6. \A p \in packs' : Complete(p)'
    BY <1>7 DEF CommitIndex
  <2>7. ASSUME NEW d \in Callers
        PROVE  (/\ ~At(d, "idle") /\ ~At(d, "failed") => Pack(d) \in Packs
                /\ At(d, "rename") => Complete(Pack(d))
                /\ call[d].at \in {"read", "commit", "done"} => Pack(d) \in packs
                /\ At(d, "commit") => call[d].seen = index
                /\ At(d, "done") => index[Pack(d).region] = Pack(d))'
    <3>1. CASE d = c
      BY <3>1, <2>1, <2>3, <2>4
    <3>2. CASE d # c
      BY <3>2, <2>5
    <3> QED
      BY <3>1, <3>2
  <2> QED
    BY <2>3, <2>6, <2>7
<1>8. CASE CallFails(c)
  BY <1>8 DEF CallFails
<1> QED
  BY <1>1, <1>2, <1>3, <1>4, <1>5, <1>6, <1>7, <1>8 DEF StoreStep

\* So does every step.
LEMMA PacksStep == TypeInv /\ FlagsInv /\ PacksInv /\ [Next]_vars => PacksInv'
<1> SUFFICES ASSUME TypeInv, FlagsInv, PacksInv, [Next]_vars PROVE PacksInv'
  OBVIOUS
<1>0. ASSUME UNCHANGED <<blob, packs, index, call, rotten>> PROVE PacksInv'
  BY <1>0 DEF PacksInv, TypeInv, StoreTypeOK, ShellTypes, At, Pack, NoCall, Call, Complete
<1>1. CASE SelectNext
  BY <1>1, ShellAssumption DEF SelectNext, settingsVars, statusVars, BeginSelect, PacksInv,
     TypeInv, StoreTypeOK, ShellTypes, At, Pack, NoCall, Call, Complete
<1>2. CASE SelectedNext
  BY <1>2, ShellAssumption DEF SelectedNext, settingsVars, statusVars, Selected, PacksInv,
     TypeInv, StoreTypeOK, ShellTypes, At, Pack, NoCall, Call, Complete
<1>3. CASE AnswerSelect
  BY <1>3, ShellAssumption DEF AnswerSelect, statusVars, EndSave, Move, PacksInv, TypeInv,
     StoreTypeOK, ShellTypes, At, Pack, NoCall, Call, Complete
<1>4. CASE PrepareWrites
  BY <1>4, ShellAssumption DEF PrepareWrites, settingsVars, statusVars, BeginWrite, Stored,
     PacksInv, TypeInv, StoreTypeOK, ShellTypes, At, Pack, NoCall, Call, Complete
<1>5. CASE PrepareSaved
  BY <1>5, ShellAssumption DEF PrepareSaved, settingsVars, Selected, Persist, Stored,
     PacksInv, TypeInv, StoreTypeOK, ShellTypes, At, Pack, NoCall, Call, Complete
<1>6. CASE PrepareEnds
  BY <1>6, ShellAssumption DEF PrepareEnds, settingsVars, Persist, Stored, Move, PacksInv,
     TypeInv, StoreTypeOK, ShellTypes, At, Pack, NoCall, Call, Complete
<1>7. CASE RequestPrepare
  BY <1>7, ShellAssumption DEF RequestPrepare, settingsVars, Persist, Stored, Move, PacksInv,
     TypeInv, StoreTypeOK, ShellTypes, At, Pack, NoCall, Call, Complete
<1>8. CASE Exit
  BY <1>8, ShellAssumption DEF Exit, Restart, PacksInv, TypeInv, StoreTypeOK, ShellTypes, At,
     Pack, NoCall, Call, Complete
<1>9. CASE Crash
  BY <1>9, ShellAssumption DEF Crash, Restart, PacksInv, TypeInv, StoreTypeOK, ShellTypes,
     At, Pack, NoCall, Call, Complete
<1>10. CASE Disk
  <2>1. CASE BlobDamaged
    BY <2>1 DEF BlobDamaged, TypeInv, StoreTypeOK, PacksInv, Complete, At, Pack
  <2>2. ASSUME NEW c \in Callers, StoreStep(c) PROVE PacksInv'
    BY <2>2, CallPacks DEF TypeInv
  <2> QED
    BY <1>10, <2>1, <2>2 DEF Disk
<1>11. ASSUME NEW h \in Handlers, SaveStep(h) PROVE PacksInv'
  BY <1>0, <1>11 DEF SaveStep, statusVars, WriteTemporary, RenameTemporary, Adopt, SaveFails
<1>12. ASSUME NEW h \in Handlers, RequestSave(h) PROVE PacksInv'
  BY <1>0, <1>12 DEF RequestSave, storeVars, statusVars, BeginSave, Move
<1>13. ASSUME NEW h \in Handlers, AnswerSave(h) PROVE PacksInv'
  BY <1>0, <1>13 DEF AnswerSave, storeVars, statusVars, EndSave, Move
<1>14. CASE \/ RequestStart \/ StartLoads \/ StartLaunches \/ AnswerStart \/ WorkerEnds
            \/ RequestSelect \/ SelectLoads \/ SelectSaves \/ AnswerPrepare
            \/ UNCHANGED vars
  BY <1>0, <1>14 DEF vars, RequestStart, StartLoads, StartLaunches, AnswerStart, WorkerEnds,
     RequestSelect, SelectLoads, SelectSaves, AnswerPrepare, storeVars, settingsVars,
     statusVars, Stored
<1> QED
  BY <1>1, <1>2, <1>3, <1>4, <1>5, <1>6, <1>7, <1>8, <1>9, <1>10, <1>11, <1>12, <1>13,
     <1>14 DEF Next

\* A caller that takes note of its selection finds it in the index.
LEMMA SelectedKeeps ==
    ASSUME TypeInv, FlagsInv, PacksInv, KeptInv, NEW c \in Callers, Selected(c), index' = index
    PROVE  KeptInv'
<1> DEFINE p == Pack(c)
<1>1. At(c, "done") /\ p \in Packs /\ p.region \in Regions /\ index[p.region] = p
  BY StoreAssumption DEF Selected, PacksInv, At
<1>2. kept' = [kept EXCEPT ![p.region] = p]
  BY DEF Selected
<1>3. \A d \in Callers \ {c} : ~At(d, "done")
  BY <1>1, OtherIdle DEF At
<1> HIDE DEF p
<1>4. ASSUME NEW r \in Regions PROVE index'[r] = kept'[r]
  <2>1. CASE r = p.region
    BY <2>1, <1>1, <1>2 DEF TypeInv, ShellTypes, Selections
  <2>2. CASE r # p.region
    <3>1. Committed(r) = {}
      BY <2>2, <1>3 DEF Committed, p
    <3>2. index[r] = kept[r]
      BY <3>1 DEF KeptInv
    <3> QED
      BY <3>2, <2>2, <1>1, <1>2 DEF TypeInv, ShellTypes, Selections
  <2> QED
    BY <2>1, <2>2
<1> QED
  BY <1>4 DEF KeptInv

\* A step of a call changes the selection of its own region only.
LEMMA CallKeeps ==
    ASSUME TypeInv, FlagsInv, PacksInv, KeptInv, NEW c \in Callers, StoreStep(c), kept' = kept
    PROVE  KeptInv'
<1> USE DEF TypeInv, StoreTypeOK
<1>1. ~At(c, "idle")
  BY StoreStepCalls
<1>2. \A d \in Callers \ {c} : call[d].at = "idle" /\ call'[d] = call[d]
  BY <1>1, OtherIdle, StoreStepCalls DEF At
<1>3. call[c].at # "done"
  BY DEF StoreStep, Check, WriteBlob, BlobsWritten, RenameDirectory, Load, ReadIndex,
     CommitIndex,
         CallFails, Busy, At
<1>4. \A r \in Regions : index[r] = kept[r]
  BY <1>2, <1>3 DEF KeptInv, Committed, At
<1>5. CASE CommitIndex(c)
  <2>1. /\ Pack(c) \in Packs /\ index' = [index EXCEPT ![Pack(c).region] = Pack(c)]
        /\ call'[c].at = "done" /\ call'[c].pack = call[c].pack
    BY <1>5 DEF CommitIndex, PacksInv, At, Pack, Call
  <2>2. ASSUME NEW r \in Regions PROVE index'[r] \in {kept'[r]} \cup Committed(r)'
    <3>1. CASE r = Pack(c).region
      <4>1. index'[r] = Pack(c)
        BY <2>1, <3>1 DEF Selections
      <4>2. At(c, "done")' /\ Pack(c)' = Pack(c)
        BY <2>1 DEF At, Pack
      <4>3. Pack(c)' \in Committed(r)'
        BY <4>2, <3>1 DEF Committed
      <4> QED
        BY <4>1, <4>2, <4>3
    <3>2. CASE r # Pack(c).region
      BY <3>2, <2>1, <1>4 DEF Selections
    <3> QED
      BY <3>1, <3>2
  <2> QED
    BY <2>2 DEF KeptInv
<1>6. CASE ~CommitIndex(c)
  <2>1. index' = index
    BY <1>6 DEF StoreStep, Check, WriteBlob, BlobsWritten, RenameDirectory, Load, ReadIndex,
       CallFails
  <2> QED
    BY <2>1, <1>4 DEF KeptInv
<1> QED
  BY <1>5, <1>6

\* Every step keeps the selections.
LEMMA KeptStep == TypeInv /\ FlagsInv /\ PacksInv /\ KeptInv /\ [Next]_vars => KeptInv'
<1> SUFFICES ASSUME TypeInv, FlagsInv, PacksInv, KeptInv, [Next]_vars PROVE KeptInv'
  OBVIOUS
<1>0. ASSUME UNCHANGED <<index, call, kept>> PROVE KeptInv'
  BY <1>0 DEF KeptInv, Committed, FlagsInv, PacksInv, TypeInv, StoreTypeOK, ShellTypes, At,
     Pack, NoCall, Call
<1>1. CASE SelectNext
  BY <1>1, ShellAssumption, StoreAssumption DEF SelectNext, settingsVars, statusVars,
     BeginSelect, KeptInv, Committed, FlagsInv, PacksInv, TypeInv, StoreTypeOK, ShellTypes,
     At, Pack, NoCall, Call
<1>2. CASE SelectedNext
  BY <1>2, SelectedKeeps, ShellAssumption DEF SelectedNext
<1>3. CASE AnswerSelect
  BY <1>3, ShellAssumption, StoreAssumption DEF AnswerSelect, statusVars, EndSave, Move,
     KeptInv, Committed, FlagsInv, PacksInv, TypeInv, StoreTypeOK, ShellTypes, At, Pack,
     NoCall, Call
<1>4. CASE PrepareWrites
  BY <1>4, ShellAssumption, StoreAssumption DEF PrepareWrites, settingsVars, statusVars,
     BeginWrite, Stored, KeptInv, Committed, FlagsInv, PacksInv, TypeInv, StoreTypeOK,
     ShellTypes, At, Pack, NoCall, Call
<1>5. CASE PrepareSaved
  BY <1>5, SelectedKeeps, ShellAssumption DEF PrepareSaved, Stored
<1>6. CASE PrepareEnds
  BY <1>6, ShellAssumption, StoreAssumption DEF PrepareEnds, settingsVars, Persist, Stored,
     Move, KeptInv, Committed, FlagsInv, PacksInv, TypeInv, StoreTypeOK, ShellTypes, At,
     Pack, NoCall, Call
<1>7. CASE RequestPrepare
  BY <1>7, ShellAssumption, StoreAssumption DEF RequestPrepare, settingsVars, Persist,
     Stored, Move, KeptInv, Committed, FlagsInv, PacksInv, TypeInv, StoreTypeOK, ShellTypes,
     At, Pack, NoCall, Call
<1>8. CASE Exit
  BY <1>8, ShellAssumption, StoreAssumption DEF Exit, Restart, KeptInv, Committed, FlagsInv,
     PacksInv, TypeInv, StoreTypeOK, ShellTypes, At, Pack, NoCall, Call
<1>9. CASE Crash
  BY <1>9, ShellAssumption, StoreAssumption DEF Crash, Restart, KeptInv, Committed, FlagsInv,
     PacksInv, TypeInv, StoreTypeOK, ShellTypes, At, Pack, NoCall, Call
<1>10. CASE Disk
  <2>1. kept' = kept
    BY <1>10 DEF Disk
  <2>2. CASE BlobDamaged
    BY <2>1, <2>2 DEF BlobDamaged, KeptInv, Committed, At, Pack
  <2>3. ASSUME NEW c \in Callers, StoreStep(c) PROVE KeptInv'
    BY <2>1, <2>3, CallKeeps
  <2> QED
    BY <1>10, <2>2, <2>3 DEF Disk
<1>11. ASSUME NEW h \in Handlers, SaveStep(h) PROVE KeptInv'
  BY <1>0, <1>11 DEF SaveStep, statusVars, WriteTemporary, RenameTemporary, Adopt, SaveFails
<1>12. ASSUME NEW h \in Handlers, RequestSave(h) PROVE KeptInv'
  BY <1>0, <1>12 DEF RequestSave, storeVars, statusVars, BeginSave, Move
<1>13. ASSUME NEW h \in Handlers, AnswerSave(h) PROVE KeptInv'
  BY <1>0, <1>13 DEF AnswerSave, storeVars, statusVars, EndSave, Move
<1>14. CASE \/ RequestStart \/ StartLoads \/ StartLaunches \/ AnswerStart \/ WorkerEnds
            \/ RequestSelect \/ SelectLoads \/ SelectSaves \/ AnswerPrepare
            \/ UNCHANGED vars
  BY <1>0, <1>14 DEF vars, RequestStart, StartLoads, StartLaunches, AnswerStart, WorkerEnds,
     RequestSelect, SelectLoads, SelectSaves, AnswerPrepare, storeVars, settingsVars,
     statusVars, Stored
<1> QED
  BY <1>1, <1>2, <1>3, <1>4, <1>5, <1>6, <1>7, <1>8, <1>9, <1>10, <1>11, <1>12, <1>13,
     <1>14 DEF Next

-----------------------------------------------------------------------------
(* The settings and the status                                             *)

\* When requests do not overlap a save, every step keeps the settings of a start
\* those in memory and on disk: a save ends before the next begins.
LEMMA SavesStep == ~Overlapping /\ TypeInv /\ SavesInv /\ [Next]_vars => SavesInv'
<1> SUFFICES ASSUME ~Overlapping, TypeInv, SavesInv, [Next]_vars PROVE SavesInv'
  OBVIOUS
<1>0. ASSUME UNCHANGED <<settings, file, temporary, saving, handler, worker>> PROVE SavesInv'
  BY <1>0 DEF SavesInv, StartSave, SaveInProgress, TypeInv, ShellTypes, Settings, Save,
     Handlers, Active, NoSave, Request, Exclusive, SimulatorWorker, SimulatorStartPending,
     RoadPackSelectionPending, PreparationController
<1>1. ASSUME NEW h \in Handlers, SaveStep(h) PROVE SavesInv'
  BY <1>1, ShellAssumption DEF SaveStep, statusVars, WriteTemporary, RenameTemporary, Adopt,
     SaveFails, SavesInv, StartSave, SaveInProgress, TypeInv, ShellTypes, Settings, Save,
     Handlers, Active, NoSave, Request, Exclusive, SimulatorWorker, SimulatorStartPending,
     RoadPackSelectionPending, PreparationController
<1>2. ASSUME NEW h \in Handlers, RequestSave(h) PROVE SavesInv'
  BY <1>2, ShellAssumption DEF RequestSave, storeVars, statusVars, BeginSave, Move, SavesInv,
     StartSave, SaveInProgress, TypeInv, ShellTypes, Settings, Save, Handlers, Active,
     NoSave, Request, Exclusive, SimulatorWorker, SimulatorStartPending,
     RoadPackSelectionPending, PreparationController
<1>3. ASSUME NEW h \in Handlers, AnswerSave(h) PROVE SavesInv'
  BY <1>3, ShellAssumption DEF AnswerSave, storeVars, statusVars, EndSave, Move, SavesInv,
     StartSave, SaveInProgress, TypeInv, ShellTypes, Settings, Save, Handlers, Active,
     NoSave, Request, Exclusive, SimulatorWorker, SimulatorStartPending,
     RoadPackSelectionPending, PreparationController
<1>4. CASE RequestStart
  BY <1>4, ShellAssumption DEF RequestStart, storeVars, settingsVars, statusVars, Move,
     SavesInv, StartSave, SaveInProgress, TypeInv, ShellTypes, Settings, Save, Handlers,
     Active, NoSave, Request, Exclusive, SimulatorWorker, SimulatorStartPending,
     RoadPackSelectionPending, PreparationController
<1>5. CASE StartLoads
  BY <1>5, ShellAssumption DEF StartLoads, storeVars, statusVars, BeginSave, Move, SavesInv,
     StartSave, SaveInProgress, TypeInv, ShellTypes, Settings, Save, Handlers, Active,
     NoSave, Request, Exclusive, SimulatorWorker, SimulatorStartPending,
     RoadPackSelectionPending, PreparationController
<1>6. CASE StartLaunches
  BY <1>6, ShellAssumption DEF StartLaunches, storeVars, statusVars, EndSave, Move, SavesInv,
     StartSave, SaveInProgress, TypeInv, ShellTypes, Settings, Save, Handlers, Active,
     NoSave, Request, Exclusive, SimulatorWorker, SimulatorStartPending,
     RoadPackSelectionPending, PreparationController
<1>7. CASE AnswerStart
  BY <1>7, ShellAssumption DEF AnswerStart, storeVars, statusVars, EndSave, Move, SavesInv,
     StartSave, SaveInProgress, TypeInv, ShellTypes, Settings, Save, Handlers, Active,
     NoSave, Request, Exclusive, SimulatorWorker, SimulatorStartPending,
     RoadPackSelectionPending, PreparationController
<1>8. CASE WorkerEnds
  BY <1>8, ShellAssumption DEF WorkerEnds, storeVars, settingsVars, statusVars, SavesInv,
     StartSave, SaveInProgress, TypeInv, ShellTypes, Settings, Save, Handlers, Active,
     NoSave, Request, Exclusive, SimulatorWorker, SimulatorStartPending,
     RoadPackSelectionPending, PreparationController
<1>9. CASE RequestSelect
  BY <1>9, ShellAssumption DEF RequestSelect, storeVars, settingsVars, statusVars, Move,
     SavesInv, StartSave, SaveInProgress, TypeInv, ShellTypes, Settings, Save, Handlers,
     Active, NoSave, Request, Exclusive, SimulatorWorker, SimulatorStartPending,
     RoadPackSelectionPending, PreparationController
<1>10. CASE SelectLoads
  BY <1>10, ShellAssumption DEF SelectLoads, storeVars, settingsVars, statusVars, Move,
     SavesInv, StartSave, SaveInProgress, TypeInv, ShellTypes, Settings, Save, Handlers,
     Active, NoSave, Request, Exclusive, SimulatorWorker, SimulatorStartPending,
     RoadPackSelectionPending, PreparationController
<1>11. CASE SelectSaves
  BY <1>11, ShellAssumption DEF SelectSaves, storeVars, statusVars, BeginSave, Move,
     SavesInv, StartSave, SaveInProgress, TypeInv, ShellTypes, Settings, Save, Handlers,
     Active, NoSave, Request, Exclusive, SimulatorWorker, SimulatorStartPending,
     RoadPackSelectionPending, PreparationController
<1>12. CASE AnswerSelect
  BY <1>12, ShellAssumption DEF AnswerSelect, statusVars, EndSave, Move, SavesInv, StartSave,
     SaveInProgress, TypeInv, ShellTypes, Settings, Save, Handlers, Active, NoSave, Request,
     Exclusive, SimulatorWorker, SimulatorStartPending, RoadPackSelectionPending,
     PreparationController
<1>13. CASE RequestPrepare
  BY <1>13, ShellAssumption DEF RequestPrepare, settingsVars, Persist, Stored, Move,
     SavesInv, StartSave, SaveInProgress, TypeInv, ShellTypes, Settings, Save, Handlers,
     Active, NoSave, Request, Exclusive, SimulatorWorker, SimulatorStartPending,
     RoadPackSelectionPending, PreparationController
<1>14. CASE PrepareEnds
  BY <1>14, ShellAssumption DEF PrepareEnds, settingsVars, Persist, Stored, Move, SavesInv,
     StartSave, SaveInProgress, TypeInv, ShellTypes, Settings, Save, Handlers, Active,
     NoSave, Request, Exclusive, SimulatorWorker, SimulatorStartPending,
     RoadPackSelectionPending, PreparationController
<1>15. CASE AnswerPrepare
  BY <1>15, ShellAssumption DEF AnswerPrepare, storeVars, settingsVars, Move, SavesInv,
     StartSave, SaveInProgress, TypeInv, ShellTypes, Settings, Save, Handlers, Active,
     NoSave, Request, Exclusive, SimulatorWorker, SimulatorStartPending,
     RoadPackSelectionPending, PreparationController
<1>16. CASE Exit
  BY <1>16, ShellAssumption DEF Exit, Restart, SavesInv, StartSave, SaveInProgress, TypeInv,
     ShellTypes, Settings, Save, Handlers, Active, NoSave, Request, Exclusive,
     SimulatorWorker, SimulatorStartPending, RoadPackSelectionPending, PreparationController
<1>17. CASE Crash
  BY <1>17, ShellAssumption DEF Crash, Restart, SavesInv, StartSave, SaveInProgress, TypeInv,
     ShellTypes, Settings, Save, Handlers, Active, NoSave, Request, Exclusive,
     SimulatorWorker, SimulatorStartPending, RoadPackSelectionPending, PreparationController
<1>18. CASE \/ SelectNext \/ SelectedNext \/ PrepareWrites \/ PrepareSaved \/ Disk
            \/ UNCHANGED vars
  BY <1>0, <1>18 DEF vars, SelectNext, SelectedNext, PrepareWrites, PrepareSaved, Disk,
     settingsVars, statusVars, Stored, storeVars
<1> QED
  BY <1>1, <1>2, <1>3, <1>4, <1>5, <1>6, <1>7, <1>8, <1>9, <1>10, <1>11, <1>12, <1>13, <1>14,
     <1>15, <1>16, <1>17, <1>18 DEF Next

\* Every step keeps the status file that of the preparation.
LEMMA StatusStep ==
    TypeInv /\ TypeInv' /\ FlagsInv /\ PacksInv /\ StatusInv /\ [Next]_vars => StatusInv'
<1> SUFFICES ASSUME TypeInv, TypeInv', FlagsInv, PacksInv, StatusInv, [Next]_vars PROVE StatusInv'
  OBVIOUS
<1>0. ASSUME UNCHANGED <<packs, handler, progress, status, outcome, unsaved>> PROVE StatusInv'
  BY <1>0 DEF StatusInv, ShownState, NoStatus, TypeInv, ShellTypes, Statuses, Handlers,
     Active, RoutesInPacks
<1>1. CASE RequestPrepare
  BY <1>1, PacksNumber DEF RequestPrepare, settingsVars, Persist, Stored, Move, StatusInv,
     ShownState, NoStatus, TypeInv, ShellTypes, Statuses, Handlers, Active, RoutesInPacks
<1>2. CASE PrepareSaved
  <2>1. /\ handler' = handler /\ outcome' = outcome /\ packs' = packs
        /\ progress' = [progress EXCEPT !.saved = RoutesSaved] /\ Persist(progress')
    BY <1>2 DEF PrepareSaved, Stored
  <2>2. progress'.state = progress.state /\ progress'.saved = RoutesSaved
    BY <2>1 DEF TypeInv, ShellTypes, Statuses
  <2>3. RoutesSaved <= RoutesInPacks /\ RoutesInPacks' = RoutesInPacks
    BY <2>1, RoutesBounded DEF TypeInv, RoutesInPacks
  <2>4. \/ status' = progress' /\ unsaved' = FALSE
        \/ status' = status /\ unsaved' = TRUE
    BY <2>1 DEF Persist
  <2>5. outcome # "running" => handler["prepare"] # "working"
    BY DEF StatusInv
  <2>6. outcome = "running"
    BY <1>2 DEF PrepareSaved, Selected, FlagsInv, StatusInv, At
  <2> QED
    BY <2>1, <2>2, <2>3, <2>4, <2>6 DEF StatusInv
<1>3. CASE PrepareEnds
  BY <1>3, PacksNumber DEF PrepareEnds, settingsVars, Persist, Stored, Move, StatusInv,
     ShownState, NoStatus, TypeInv, ShellTypes, Statuses, Handlers, Active, RoutesInPacks
<1>4. CASE AnswerPrepare
  BY <1>4, PacksNumber DEF AnswerPrepare, storeVars, settingsVars, Move, StatusInv,
     ShownState, NoStatus, TypeInv, ShellTypes, Statuses, Handlers, Active, RoutesInPacks
<1>5. CASE Exit
  BY <1>5, PacksNumber DEF Exit, Restart, StatusInv, ShownState, NoStatus, TypeInv,
     ShellTypes, Statuses, Handlers, Active, RoutesInPacks
<1>6. CASE Crash
  BY <1>6, PacksNumber DEF Crash, Restart, StatusInv, ShownState, NoStatus, TypeInv,
     ShellTypes, Statuses, Handlers, Active, RoutesInPacks
<1>7. CASE Disk
  <2>1. packs \subseteq packs'
    BY <1>7 DEF Disk, StoreStep, BlobDamaged, Check, WriteBlob, BlobsWritten,
       RenameDirectory, Load,
             ReadIndex, CommitIndex, CallFails
  <2>2. RoutesInPacks \in Nat /\ RoutesInPacks <= RoutesInPacks' /\ RoutesInPacks' \in Nat
    <3>1. RoutesInPacks <= RoutesInPacks' /\ RoutesInPacks' \in Nat
      BY <2>1, MoreRoutes DEF TypeInv
    <3>2. RoutesInPacks \in Nat
      BY PacksNumber DEF TypeInv
    <3> QED
      BY <3>1, <3>2
  <2>3. progress.saved \in Nat /\ status.saved \in Nat
    BY DEF TypeInv, ShellTypes, Statuses
  <2>4. UNCHANGED <<handler, progress, status, outcome, unsaved>>
    BY <1>7 DEF Disk, statusVars
  <2> QED
    BY <2>2, <2>3, <2>4 DEF StatusInv, ShownState
<1>8. ASSUME NEW h \in Handlers, RequestSave(h) PROVE StatusInv'
  BY <1>8, PacksNumber DEF RequestSave, storeVars, statusVars, BeginSave, Move, StatusInv,
     ShownState, NoStatus, TypeInv, ShellTypes, Statuses, Handlers, Active, RoutesInPacks
<1>9. ASSUME NEW h \in Handlers, AnswerSave(h) PROVE StatusInv'
  BY <1>9, PacksNumber DEF AnswerSave, storeVars, statusVars, EndSave, Move, StatusInv,
     ShownState, NoStatus, TypeInv, ShellTypes, Statuses, Handlers, Active, RoutesInPacks
<1>10. CASE RequestStart
  BY <1>10, PacksNumber DEF RequestStart, storeVars, settingsVars, statusVars, Move,
     StatusInv, ShownState, NoStatus, TypeInv, ShellTypes, Statuses, Handlers, Active,
     RoutesInPacks
<1>11. CASE StartLoads
  BY <1>11, PacksNumber DEF StartLoads, storeVars, statusVars, BeginSave, Move, StatusInv,
     ShownState, NoStatus, TypeInv, ShellTypes, Statuses, Handlers, Active, RoutesInPacks
<1>12. CASE StartLaunches
  BY <1>12, PacksNumber DEF StartLaunches, storeVars, statusVars, EndSave, Move, StatusInv,
     ShownState, NoStatus, TypeInv, ShellTypes, Statuses, Handlers, Active, RoutesInPacks
<1>13. CASE AnswerStart
  BY <1>13, PacksNumber DEF AnswerStart, storeVars, statusVars, EndSave, Move, StatusInv,
     ShownState, NoStatus, TypeInv, ShellTypes, Statuses, Handlers, Active, RoutesInPacks
<1>14. CASE RequestSelect
  BY <1>14, PacksNumber DEF RequestSelect, storeVars, settingsVars, statusVars, Move,
     StatusInv, ShownState, NoStatus, TypeInv, ShellTypes, Statuses, Handlers, Active,
     RoutesInPacks
<1>15. CASE SelectLoads
  BY <1>15, PacksNumber DEF SelectLoads, storeVars, settingsVars, statusVars, Move,
     StatusInv, ShownState, NoStatus, TypeInv, ShellTypes, Statuses, Handlers, Active,
     RoutesInPacks
<1>16. CASE SelectSaves
  BY <1>16, PacksNumber DEF SelectSaves, storeVars, statusVars, BeginSave, Move, StatusInv,
     ShownState, NoStatus, TypeInv, ShellTypes, Statuses, Handlers, Active, RoutesInPacks
<1>17. CASE AnswerSelect
  BY <1>17, PacksNumber DEF AnswerSelect, statusVars, EndSave, Move, StatusInv, ShownState,
     NoStatus, TypeInv, ShellTypes, Statuses, Handlers, Active, RoutesInPacks
<1>18. ASSUME NEW h \in Handlers, SaveStep(h) PROVE StatusInv'
  BY <1>0, <1>18 DEF SaveStep, statusVars, WriteTemporary, RenameTemporary, Adopt, SaveFails
<1>19. CASE \/ WorkerEnds \/ SelectNext \/ SelectedNext \/ PrepareWrites \/ UNCHANGED vars
  BY <1>0, <1>19 DEF vars, WorkerEnds, SelectNext, SelectedNext, PrepareWrites, storeVars,
     settingsVars, statusVars, Stored
<1> QED
  BY <1>1, <1>2, <1>3, <1>4, <1>5, <1>6, <1>7, <1>8, <1>9, <1>10, <1>11, <1>12, <1>13, <1>14,
     <1>15, <1>16, <1>17, <1>18, <1>19 DEF Next

-----------------------------------------------------------------------------
(* The theorems                                                            *)

\* The program starts with typed state ...
LEMMA InitTypes == Init => TypeInv
<1> SUFFICES ASSUME Init PROVE TypeInv
  OBVIOUS
<1>1. StoreTypeOK
  BY NoCallType, StoreAssumption DEF Init, StoreInit, StoreTypeOK
<1>2. ShellTypes
  BY NoCallType, DefaultType
  DEF Init, ShellTypes, HandlerSteps, NoStatus, Statuses
<1> QED
  BY <1>1, <1>2 DEF Init, TypeInv, WantedInv

\* ... and in the invariant,
LEMMA InitShellInv == Init => ShellInv
<1> SUFFICES ASSUME Init PROVE ShellInv
  OBVIOUS
<1>1. TypeInv
  BY InitTypes
<1>2. FlagsInv /\ PacksInv /\ KeptInv
  BY ShellAssumption DEF Init, StoreInit, FlagsInv, PacksInv, KeptInv, Active, Handlers, At,
     NoCall,
     NoSelection
<1>3. StatusInv
  BY <1>1, PacksNumber DEF Init, StatusInv, ShownState, NoStatus, Handlers, TypeInv
<1> QED
  BY <1>1, <1>2, <1>3 DEF ShellInv

\* which every step keeps.
LEMMA ShellStep == ShellInv /\ [Next]_vars => ShellInv'
<1>1. ShellInv /\ [Next]_vars => TypeInv'
  BY StoreTypeStep, ShellTypeStep, WantedStep DEF ShellInv, TypeInv
<1> QED
  BY <1>1, FlagsStep, PacksStep, KeptStep, StatusStep DEF ShellInv

\* It holds of every reachable state.
THEOREM ShellInvariant == Spec => []ShellInv
BY InitShellInv, ShellStep, PTL DEF Spec

\* A selection lasts until another call selects for its region, and the index
\* names complete packs only, wherever the program ends between two steps.
THEOREM SelectionsAreKept == Spec => []SelectionsKept
<1>1. ShellInv => SelectionsKept
  <2> SUFFICES ASSUME ShellInv PROVE SelectionsKept
    OBVIOUS
  <2>1. TypeOK
    BY DEF ShellInv, TypeInv, ShellTypes, WantedInv, TypeOK
  <2>2. IndexComplete
    BY StoreAssumption DEF ShellInv, PacksInv, Complete, IndexComplete
  <2> QED
    BY <2>1, <2>2 DEF ShellInv, KeptInv, SelectionsKept
<1> QED
  BY <1>1, ShellInvariant, PTL

\* When no request is made during a save, a simulation runs with the settings in
\* memory and on disk.  (With overlapping requests it may not: run
\* settings_overlap shows two saves that interfere.)
THEOREM RunsOnSavedSettings ==
    ASSUME ~Overlapping
    PROVE  Spec => []RunsWhatIsSaved
<1>1. Init => SavesInv
  BY DEF Init, SavesInv, StartSave, SaveInProgress, NoSave, Active, Handlers
<1>2. ShellInv /\ SavesInv /\ [Next]_vars => SavesInv'
  BY SavesStep DEF ShellInv
<1>3. SavesInv => RunsWhatIsSaved
  BY DEF SavesInv, RunsWhatIsSaved
<1> QED
  BY <1>1, <1>2, <1>3, ShellInvariant, PTL DEF Spec

\* The status of a preparation says how it ended unless it could not be written,
\* and shows no more routes as saved than there are in packs.
THEOREM StatusIsTruthful == Spec => []StatusTruthful
<1>1. ShellInv => StatusTruthful
  BY DEF ShellInv, StatusInv, StatusTruthful
<1> QED
  BY <1>1, ShellInvariant, PTL
=============================================================================
