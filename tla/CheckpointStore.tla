--------------------------- MODULE CheckpointStore ---------------------------
(***************************************************************************)
(* The generations of vehicle checkpoints of one run, main/                *)
(* road-checkpoint-store.js, on a disk that can fail.                      *)
(*                                                                         *)
(* A checkpoint is a snapshot, numbered in the order save() was called.    *)
(* A save is cut where the code awaits: the temporary file is written and  *)
(* synced, renamed, the directory is synced, and old generations are       *)
(* unlinked one by one.  The process may crash between any two of these,   *)
(* and the power may fail, which keeps or undoes each directory change     *)
(* since the last sync.  A file may be damaged later, and reading a good   *)
(* one may fail.  Temporary files never count as generations.              *)
(*                                                                         *)
(* An operator whose name ends in _Fault is the operator after it with a   *)
(* fault seeded in it; no other definition uses it.                        *)
(***************************************************************************)
EXTENDS Integers, Sequences, FiniteSets

CONSTANTS
    MaxGenerations, \* generations kept
    MaxSaves,       \* bound: snapshots saved in a behaviour
    MaxFaults       \* bound: files damaged, misread or not unlinked

ASSUME MaxGenerationsAssumption == MaxGenerations \in Nat /\ MaxGenerations >= 2
ASSUME MaxSavesAssumption == MaxSaves \in Nat
ASSUME MaxFaultsAssumption == MaxFaults \in Nat

Generations == 1 .. MaxSaves \* every generation comes from a save of its own
Snapshots == 1 .. MaxSaves
Absent == 0
Corrupt == -1
Content == Snapshots \cup {Absent, Corrupt}

VARIABLES
    disk,   \* the directory as the process sees it
    safe,   \* the directory as of its last sync
    store,  \* the store of the process, when there is one
    issued, \* snapshots handed to save()
    acked,  \* the newest snapshot whose save() has succeeded
    acks,   \* how many have
    lost,   \* files damaged or misread
    failed  \* unlinks that failed

vars == <<disk, safe, store, issued, acked, acks, lost, failed>>

Store == [up : BOOLEAN, loaded : BOOLEAN,
          latest : Generations \cup {0},     \* latestFileGeneration
          corrupt : SUBSET Generations,      \* corruptGenerations
          queue : Seq(Snapshots),            \* saves that have not settled
          step : {"idle", "written", "renamed", "pruning"},
          victims : SUBSET Generations,      \* left to unlink
          last : Snapshots \cup {0},         \* lastOperation ...
          lastFailed : BOOLEAN,              \* ... and whether it was rejected
          closing : BOOLEAN, closed : BOOLEAN]

NewStore == [up |-> FALSE, loaded |-> FALSE, latest |-> 0, corrupt |-> {},
             queue |-> <<>>, step |-> "idle", victims |-> {}, last |-> 0,
             lastFailed |-> FALSE, closing |-> FALSE, closed |-> FALSE]

Files(dir) == {g \in Generations : dir[g] # Absent}
Above(F, g) == {f \in F : f > g}
Newest(F) == CHOOSE g \in F : Above(F, g) = {}

Init ==
    /\ disk = [g \in Generations |-> Absent]
    /\ safe = disk
    /\ store = NewStore
    /\ issued = 0 /\ acked = 0 /\ acks = 0 /\ lost = 0 /\ failed = 0

-----------------------------------------------------------------------------
(* Opening and loading                                                     *)

Open ==
    /\ ~store.up
    /\ store' = [NewStore EXCEPT !.up = TRUE]
    /\ UNCHANGED <<disk, safe, issued, acked, acks, lost, failed>>

\* The save at the head of the queue, if any, waited for what just failed.
Rejected(s) ==
    IF s.queue = <<>> THEN s
    ELSE [s EXCEPT !.step = "idle", !.victims = {}, !.queue = Tail(@),
                   !.lastFailed = @ \/ Head(s.queue) = s.last]

LatestFile_Fault(F, found) == Newest(IF found = {} THEN F ELSE found)
LatestFile(F, found) == Newest(F)

\* #load reads the files from the newest down to the first intact one; it
\* takes those it cannot use for corrupt.  The files of misread are intact
\* but reading them fails.
Load(misread) ==
    LET F == Files(disk)
        bad == {g \in F : disk[g] = Corrupt} \cup misread
        tried(g) == Above(F, g) \subseteq bad
        found == {g \in F \ bad : tried(g)}
        known == [store EXCEPT !.corrupt = @ \cup {g \in bad : tried(g)}]
    IN  /\ store.up /\ ~store.closed /\ ~store.loaded /\ store.step = "idle"
        /\ misread \subseteq F /\ \A g \in misread : disk[g] # Corrupt /\ tried(g)
        /\ lost' = lost + Cardinality(misread) /\ lost' <= MaxFaults
        /\ store' = IF F = {} THEN [store EXCEPT !.loaded = TRUE]
                    ELSE IF found = {} THEN Rejected([known EXCEPT !.latest = LatestFile(F, found)])
                    ELSE [known EXCEPT !.loaded = TRUE, !.latest = LatestFile(F, found)]
        /\ UNCHANGED <<disk, safe, issued, acked, acks, failed>>

\* Reading generation g, reached after corrupt ones, is refused, or it is of
\* another schema or other route packs.
LoadRefused(g) ==
    LET F == Files(disk) IN
    /\ store.up /\ ~store.closed /\ ~store.loaded /\ store.step = "idle"
    /\ g \in F
    /\ \A h \in Above(F, g) : disk[h] = Corrupt
    /\ store' = Rejected([store EXCEPT !.latest = Newest(F),
                                      !.corrupt = @ \cup Above(F, g)])
    /\ UNCHANGED <<disk, safe, issued, acked, acks, lost, failed>>

-----------------------------------------------------------------------------
(* Saving                                                                  *)

Save ==
    /\ store.up /\ ~store.closing /\ issued < MaxSaves
    /\ issued' = issued + 1
    /\ store' = [store EXCEPT !.queue = Append(@, issued + 1),
                              !.last = issued + 1, !.lastFailed = FALSE]
    /\ UNCHANGED <<disk, safe, acked, acks, lost, failed>>

Saving == store.up /\ store.loaded /\ store.queue # <<>>

Generation_Fault == store.latest + 2 \* skips a number

Generation == store.latest + 1

Write ==
    /\ Saving /\ store.step = "idle"
    /\ store' = [store EXCEPT !.step = "written"]
    /\ UNCHANGED <<disk, safe, issued, acked, acks, lost, failed>>

Rename ==
    /\ Saving /\ store.step = "written"
    /\ disk' = [disk EXCEPT ![Generation] = Head(store.queue)]
    /\ store' = [store EXCEPT !.step = "renamed"]
    /\ UNCHANGED <<safe, issued, acked, acks, lost, failed>>

\* An error before or after the rename; the generation is not used up.
Fail ==
    /\ store.step \in {"written", "renamed"}
    /\ store' = Rejected(store)
    /\ UNCHANGED <<disk, safe, issued, acked, acks, lost, failed>>

\* What prune unlinks: the corrupt, and the intact beyond the newest few.
Victims_FewFault(F) == \* keeps one intact generation too few
    LET good == F \ store.corrupt
    IN  (F \cap store.corrupt) \cup
        {g \in good : Cardinality(Above(good, g)) + 1 >= MaxGenerations}

Victims(F) ==
    LET good == F \ store.corrupt
    IN  (F \cap store.corrupt) \cup
        {g \in good : Cardinality(Above(good, g)) >= MaxGenerations}

SyncDirectory_Fault == \* the directory is not synced
    /\ store.step = "renamed"
    /\ store' = [store EXCEPT !.step = "pruning", !.latest = Generation,
                              !.victims = Victims(Files(disk))]
    /\ UNCHANGED <<disk, safe, issued, acked, acks, lost, failed>>

SyncDirectory ==
    /\ store.step = "renamed"
    /\ safe' = disk
    /\ store' = [store EXCEPT !.step = "pruning", !.latest = Generation,
                              !.victims = Victims(Files(disk))]
    /\ UNCHANGED <<disk, issued, acked, acks, lost, failed>>

Unlink ==
    /\ store.step = "pruning" /\ store.victims # {}
    /\ LET g == Newest(store.victims) IN
       /\ disk' = [disk EXCEPT ![g] = Absent]
       /\ store' = [store EXCEPT !.victims = @ \ {g}, !.corrupt = @ \ {g}]
    /\ UNCHANGED <<safe, issued, acked, acks, lost, failed>>

\* The directory cannot be listed, or a file not unlinked.
PruneFails ==
    /\ store.step = "pruning" /\ lost + failed < MaxFaults
    /\ failed' = failed + 1
    /\ store' = Rejected(store)
    /\ UNCHANGED <<disk, safe, issued, acked, acks, lost>>

Acknowledge ==
    /\ store.step = "pruning" /\ store.victims = {}
    /\ acked' = Head(store.queue) /\ acks' = acks + 1
    /\ store' = [store EXCEPT !.step = "idle", !.queue = Tail(@)]
    /\ UNCHANGED <<disk, safe, issued, lost, failed>>

Close ==
    /\ store.up /\ ~store.closing
    /\ store' = [store EXCEPT !.closing = TRUE]
    /\ UNCHANGED <<disk, safe, issued, acked, acks, lost, failed>>

Closed_Fault == \* does not wait for the queue
    /\ store.closing /\ ~store.closed /\ ~store.lastFailed
    /\ store' = [store EXCEPT !.closed = TRUE]
    /\ UNCHANGED <<disk, safe, issued, acked, acks, lost, failed>>

\* The queue has been flushed; close() fails when the last save has failed.
Closed ==
    /\ store.closing /\ ~store.closed /\ ~store.lastFailed /\ store.queue = <<>>
    /\ store' = [store EXCEPT !.closed = TRUE]
    /\ UNCHANGED <<disk, safe, issued, acked, acks, lost, failed>>

-----------------------------------------------------------------------------
(* What may happen to the process and the disk                             *)

Crash ==
    /\ store.up
    /\ store' = NewStore
    /\ UNCHANGED <<disk, safe, issued, acked, acks, lost, failed>>

\* Each directory change since the last sync is kept or undone.
PowerLoss ==
    /\ \E kept \in SUBSET {g \in Generations : disk[g] # safe[g]} :
        disk' = [g \in Generations |-> IF g \in kept THEN disk[g] ELSE safe[g]]
    /\ safe' = disk'
    /\ store' = NewStore
    /\ UNCHANGED <<issued, acked, acks, lost, failed>>

Damage(g) ==
    /\ lost + failed < MaxFaults
    /\ disk[g] \in Snapshots
    /\ disk' = [disk EXCEPT ![g] = Corrupt]
    /\ safe' = [safe EXCEPT ![g] = IF @ = Absent THEN Absent ELSE Corrupt]
    /\ lost' = lost + 1
    /\ UNCHANGED <<store, issued, acked, acks, failed>>

Next ==
    \/ Open
    \/ \E misread \in SUBSET Generations : Load(misread)
    \/ \E g \in Generations : LoadRefused(g)
    \/ Save
    \/ Write
    \/ Rename
    \/ Fail
    \/ SyncDirectory
    \/ Unlink
    \/ PruneFails
    \/ Acknowledge
    \/ Close
    \/ Closed
    \/ Crash
    \/ PowerLoss
    \/ \E g \in Generations : Damage(g)

Spec == Init /\ [][Next]_vars

-----------------------------------------------------------------------------
(* Properties                                                              *)

TypeOK ==
    /\ disk \in [Generations -> Content] /\ safe \in [Generations -> Content]
    /\ store \in Store
    /\ issued \in 0 .. MaxSaves /\ acked \in 0 .. MaxSaves
    /\ acks \in Nat /\ lost \in Nat /\ failed \in Nat

\* Whatever of the directory survives a power loss at this instant, a load
\* finds the newest acknowledged snapshot or a later one, as long as no file
\* was damaged or misread.
AckedSurvives ==
    lost = 0 /\ acked > 0 =>
        \E g \in Generations :
            /\ disk[g] >= acked /\ safe[g] >= acked
            /\ \A h \in Above(Generations, g), dir \in {disk, safe} :
                dir[h] = Absent \/ dir[h] >= acked

Intact(dir) == {g \in Generations : dir[g] \in Snapshots}

\* Losing files costs the store its generations one by one: however saves,
\* crashes and losses alternate, what is left to fall back on is all of the
\* generations it keeps but for those that were lost.
FallsBack ==
    \A dir \in {disk, safe} :
        \/ Cardinality(Intact(dir)) + lost >= MaxGenerations
        \/ Cardinality(Intact(dir)) + lost >= acks

\* The generation a save is about to be renamed to has never been
\* acknowledged: no name is used for two checkpoints a caller relies on.
FreshName ==
    store.up /\ store.loaded /\ store.step \in {"idle", "written"} =>
        \A g \in Generations : g > store.latest =>
            disk[g] = Absent \/ disk[g] = Corrupt \/ disk[g] > acked

\* close() resolves only when the last snapshot it was given is on disk.
CloseFlushes == store.closed => store.last = 0 \/ acked = store.last
=============================================================================
