--------------------------- MODULE RoutePackStore ---------------------------
(***************************************************************************)
(* The store of verified route packs: road/route-pack-store.js.            *)
(*                                                                         *)
(* A pack is a directory of a region, named by its digest, whose manifest  *)
(* refers to route blobs that packs share.  The inventory index names the  *)
(* selected pack of each region.  Nothing serialises the calls: a call     *)
(* reads the index, then replaces it, with an await in between.            *)
(*                                                                         *)
(* The end of the process is considered, not the loss of power: what was   *)
(* renamed stays renamed.                                                  *)
(*                                                                         *)
(* An operator whose name ends in _Fault is the operator after it with a   *)
(* fault seeded in it; no other definition uses it.                        *)
(***************************************************************************)
EXTENDS Integers, FiniteSets

CONSTANTS
    Regions,
    Blobs,      \* route geometries, named by the checksum of their bytes
    Packs,      \* records of a region and the blobs of its routes
    Callers,    \* who has a call in progress, at most one each
    None,       \* no pack
    MaxFaults   \* bound of damaged files and failed calls

ASSUME StoreAssumption ==
    /\ MaxFaults \in Nat
    /\ IsFiniteSet(Blobs) /\ None \notin Packs
    /\ \A p \in Packs : p.region \in Regions /\ p.blobs \subseteq Blobs /\ p.blobs # {}

VARIABLES
    blob,    \* the file of each blob: missing, good, or not what its name says
    packs,   \* packs whose directory is in place
    index,   \* inventory-index.json: the selected pack of each region
    call,    \* the calls in progress
    rotten,  \* ghost: the blobs damaged on disk since they were written
    faults   \* faults so far

storeVars == <<blob, packs, index, call, rotten, faults>>

Selections == [Regions -> Packs \cup {None}]
NoSelection == [r \in Regions |-> None]

\* seen is the index a call has read and will write back with its own change.
Call == [at : {"idle", "check", "load", "blobs", "rename", "read", "commit", "done", "failed"},
         pack : Packs \cup {None}, seen : Selections]
NoCall == [at |-> "idle", pack |-> None, seen |-> NoSelection]

\* loadPack verifies the manifest, then every blob.
Damage(p, how) == {b \in p.blobs : blob[b] = how}
Loadable(p) == p \in packs /\ Damage(p, "missing") = {} /\ Damage(p, "bad") = {}
\* A missing blob looks to the caller like a pack that is not there.
NotFound(p) == p \notin packs \/ Damage(p, "missing") # {}
Corrupt(p) == p \in packs /\ Damage(p, "bad") # {}

At(c, step) == call[c].at = step
Goto(c, step) == call' = [call EXCEPT ![c].at = step]
Pack(c) == call[c].pack

StoreInit ==
    /\ blob = [b \in Blobs |-> "missing"]
    /\ packs = {} /\ index = NoSelection /\ rotten = {}
    /\ call = [c \in Callers |-> NoCall]
    /\ faults = 0

-----------------------------------------------------------------------------
(* writePack, and selectPack of a pack that exists                         *)

BeginWrite(c, p) ==
    /\ At(c, "idle")
    /\ call' = [call EXCEPT ![c] = [at |-> "check", pack |-> p, seen |-> NoSelection]]

BeginSelect(c, p) ==
    /\ At(c, "idle")
    /\ call' = [call EXCEPT ![c] = [at |-> "load", pack |-> p, seen |-> NoSelection]]

\* The same routes may have been packed before; a damaged pack is not replaced.
Check(c) ==
    /\ At(c, "check")
    /\ \/ Loadable(Pack(c)) /\ Goto(c, "read")
       \/ NotFound(Pack(c)) /\ Goto(c, "blobs")
       \/ Corrupt(Pack(c)) /\ Goto(c, "failed")
    /\ UNCHANGED <<blob, packs, index, rotten, faults>>

\* A blob that is there and intact is kept, a damaged one is replaced.
WriteBlob(c) ==
    /\ At(c, "blobs")
    /\ \E b \in Pack(c).blobs :
        /\ blob[b] # "good"
        /\ blob' = [blob EXCEPT ![b] = "good"]
        /\ rotten' = rotten \ {b}
    /\ UNCHANGED <<packs, index, call, faults>>

BlobsWritten(c) ==
    /\ At(c, "blobs")
    /\ \A b \in Pack(c).blobs : blob[b] = "good"
    /\ Goto(c, "rename")
    /\ UNCHANGED <<blob, packs, index, rotten, faults>>

\* The rename fails when the directory is there; it is then loaded again.
RenameDirectory(c) ==
    /\ At(c, "rename")
    /\ packs' = packs \cup {Pack(c)}
    /\ Goto(c, IF Pack(c) \notin packs \/ Loadable(Pack(c)) THEN "read" ELSE "failed")
    /\ UNCHANGED <<blob, index, rotten, faults>>

Load(c) ==
    /\ At(c, "load")
    /\ Goto(c, IF Loadable(Pack(c)) THEN "read" ELSE "failed")
    /\ UNCHANGED <<blob, packs, index, rotten, faults>>

ReadIndex(c) ==
    /\ At(c, "read")
    /\ call' = [call EXCEPT ![c].at = "commit", ![c].seen = index]
    /\ UNCHANGED <<blob, packs, index, rotten, faults>>

CommitIndex_Fault(c) == \* the entries of other regions are not carried over
    /\ At(c, "commit")
    /\ index' = [NoSelection EXCEPT ![Pack(c).region] = Pack(c)]
    /\ Goto(c, "done")
    /\ UNCHANGED <<blob, packs, rotten, faults>>

CommitIndex(c) ==
    /\ At(c, "commit")
    /\ index' = [call[c].seen EXCEPT ![Pack(c).region] = Pack(c)]
    /\ call' = [call EXCEPT ![c].at = "done", ![c].seen = NoSelection]
    /\ UNCHANGED <<blob, packs, rotten, faults>>

Busy(c) == call[c].at \notin {"idle", "done", "failed"}

\* Any read or write may fail; temporary files are removed.
CallFails(c) ==
    /\ Busy(c) /\ faults < MaxFaults
    /\ call' = [call EXCEPT ![c] = [NoCall EXCEPT !.at = "failed"]]
    /\ faults' = faults + 1
    /\ UNCHANGED <<blob, packs, index, rotten>>

StoreStep(c) ==
    \/ Check(c) \/ WriteBlob(c) \/ BlobsWritten(c) \/ RenameDirectory(c)
    \/ Load(c) \/ ReadIndex(c) \/ CommitIndex(c) \/ CallFails(c)

BlobDamaged ==
    /\ faults < MaxFaults
    /\ \E b \in Blobs, how \in {"missing", "bad"} :
        blob[b] = "good" /\ blob' = [blob EXCEPT ![b] = how] /\ rotten' = rotten \cup {b}
    /\ faults' = faults + 1
    /\ UNCHANGED <<packs, index, call>>

\* listPacks of one region: the selected pack, or an error when it is damaged.
Catalogue(r) == IF index[r] = None THEN {} ELSE index[r].blobs
Listed(r) == index[r] # None => Loadable(index[r])

-----------------------------------------------------------------------------
(* Properties                                                              *)

StoreTypeOK ==
    /\ blob \in [Blobs -> {"missing", "good", "bad"}]
    /\ packs \subseteq Packs /\ index \in Selections /\ rotten \subseteq Blobs
    /\ call \in [Callers -> Call] /\ faults \in 0 .. MaxFaults

\* The index names packs of their own region that are complete on disk, but for
\* what the disk lost since: a pack is selected only after its directory, and the
\* directory in place only after its blobs.
IndexComplete ==
    \A r \in Regions : index[r] # None =>
        /\ index[r] \in packs /\ index[r].region = r
        /\ \A b \in index[r].blobs \ rotten : blob[b] = "good"
=============================================================================
