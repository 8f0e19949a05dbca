------------------------- MODULE LocalRoutingProofs -------------------------
(***************************************************************************)
(* What LocalRouting keeps for any number of regions, extracts, graphs,    *)
(* services and faults: a preparation routes on whole graphs of its own    *)
(* regions, and the service processes are those of its pool.               *)
(*                                                                         *)
(* The three properties rest on one inductive invariant, IInv.  Routes     *)
(* come from the right graph because a region keeps the graph it was bound *)
(* to while the others are built (BoundInv) and a request exists only      *)
(* between the end of ensureGraphs and the end of routing (RequestInv).    *)
(***************************************************************************)
EXTENDS LocalRouting, FiniteSetTheorems, TLAPS

-----------------------------------------------------------------------------
(* The inductive invariant                                                 *)

PrepSteps == {"idle", "index", "next", "sources", "download", "build", "rename", "bind",
              "session", "routing", "stop"}
RequestSteps == {"service", "launch", "probe", "fetch", "oneshot"}
\* The steps at which ensureGraphs works at a region.
AtRegion == prep.at \in {"sources", "download", "build", "rename", "bind"}

Graphs == [state : {"none", "whole", "untiled", "unreadable"},
           days : SUBSET (Days \cup {Bad, None})]
Preps == [at : PrepSteps, wanted : Configs \cup {{}}, pending : SUBSET Regions,
          region : Regions \cup {None}, sources : SUBSET Extracts,
          left : SUBSET Extracts, got : Extracts \cup {None}]
Requests == [at : RequestSteps, region : Regions, key : Keys]

TypeInv ==
    /\ published \in [Extracts -> Days]
    /\ file \in [Extracts -> Days \cup {Bad, None}]
    /\ metadata \in [Extracts -> Days \cup {None}]
    /\ index = None \/ index \subseteq Regions
    /\ graph \in [Keys -> Graphs]
    /\ binding \in [Ids -> {None} \cup [region : Regions, key : Keys]]
    /\ saved \in Configs /\ regions \in Configs \cup {{}} /\ coverage \in Configs \cup {None}
    /\ prep \in Preps
    /\ services \in SUBSET Keys /\ failures \in SUBSET Keys
    /\ child \in [Keys -> {"none", "alive", "dead"}]
    /\ request \in {NoRequest} \cup Requests
    /\ faults \in 0 .. MaxFaults

\* ensureGraphs works at a pending region with one of its two choices of
\* extracts; those it is done with are intact, and of one day once they are merged.
EnsureInv ==
    /\ prep.pending \subseteq prep.wanted /\ prep.left \subseteq prep.sources
    /\ prep.at \notin {"download", "stop"} => prep.left = {}
    /\ AtRegion => /\ prep.region \in prep.pending
                   /\ prep.sources \in {Cover(prep.region), {Single(prep.region)}}
    /\ prep.at = "download" =>
        /\ \A e \in prep.sources \ prep.left : file[e] \in Days
        /\ prep.got # None => file[prep.got] \in Days
    /\ prep.at \in {"build", "rename"} =>
        /\ \A e \in prep.sources : file[e] \in Days
        /\ SameDay(prep.sources)
    /\ prep.at = "bind" => Verified(Key)
    /\ prep.at \in {"session", "routing"} => prep.pending = {}

\* A region is bound to graphs of its own place only, so that the next region's
\* graph replaces none of those a preparation is done with.
BoundInv ==
    /\ \A i \in Ids : binding[i] # None => binding[i].key.region = binding[i].region
    /\ \A k \in Keys : graph[k].state # "none" => \E day \in Days : graph[k].days = {day}
    /\ prep.at \notin {"idle", "stop"} =>
        \A r \in prep.wanted \ prep.pending : BoundTo(r) /\ Verified(binding[r.id].key)

\* A request is in progress only while the preparation asks for routes.
RequestInv ==
    request.at # "none" =>
        /\ prep.at = "routing"
        /\ request.key.region = request.region /\ Verified(request.key)

\* What a request has launched is in the map of services until the session is
\* stopped, and what runs is in it.
PoolInv ==
    /\ request.at \in {"launch", "probe", "fetch"} => request.key \in services
    /\ \A k \in Keys : child[k] # "none" => k \in services
    /\ services # {} => prep.at \in {"routing", "stop"}
    /\ IsFiniteSet(services) /\ Cardinality(services) <= MaxServices

IInv == TypeInv /\ EnsureInv /\ BoundInv /\ RequestInv /\ PoolInv

-----------------------------------------------------------------------------
(* What the choices of ensureGraphs are                                    *)

\* Either choice of extracts for a region makes the key of a graph ...
LEMMA KeyType ==
    ASSUME NEW r \in Regions, NEW s \in {Cover(r), {Single(r)}}
    PROVE  [sources |-> s, region |-> r] \in Keys
<1> DEFINE Own == {[sources |-> Cover(r), region |-> r], [sources |-> {Single(r)}, region |-> r]}
<1>1. [sources |-> s, region |-> r] \in Own
  OBVIOUS
<1>2. Own \in {{[sources |-> Cover(q), region |-> q], [sources |-> {Single(q)}, region |-> q]} :
                q \in Regions}
  OBVIOUS
<1> HIDE DEF Own
<1> QED
  BY <1>1, <1>2 DEF Keys

\* ... of extracts that can be downloaded.
LEMMA SourcesType ==
    ASSUME NEW r \in Regions, NEW s \in {Cover(r), {Single(r)}}
    PROVE  s \subseteq Extracts
BY RoutingAssumption

\* A region is bound under its id.
LEMMA IdType == \A r \in Regions : r.id \in Ids
BY DEF Ids

\* So is the graph that is being made.
LEMMA KeyInvType == TypeInv /\ EnsureInv /\ AtRegion => Key \in Keys /\ prep.region \in Regions
<1> SUFFICES ASSUME TypeInv, EnsureInv, AtRegion PROVE Key \in Keys /\ prep.region \in Regions
  OBVIOUS
<1>1. prep.region \in Regions /\ prep.sources \in {Cover(prep.region), {Single(prep.region)}}
  BY DEF TypeInv, Preps, EnsureInv
<1> QED
  BY <1>1, KeyType DEF Key

-----------------------------------------------------------------------------
(* The steps                                                               *)

\* Every step keeps the types.
LEMMA TypeStep == TypeInv /\ EnsureInv /\ [Next]_vars => TypeInv'
<1> SUFFICES ASSUME TypeInv, EnsureInv, [Next]_vars PROVE TypeInv'
  OBVIOUS
<1>0. CASE UNCHANGED vars
  BY <1>0 DEF vars, maps, graphs, managed, TypeInv, Days, Bad, NoRequest, Preps, Requests,
     Graphs, PrepSteps, RequestSteps
<1>1. CASE SaveSettings
  BY <1>1, RoutingAssumption DEF SaveSettings, maps, graphs, managed, TypeInv, Days, Bad,
     NoRequest, Preps, Requests, Graphs, PrepSteps, RequestSteps
<1>2. CASE Publish
  BY <1>2, RoutingAssumption DEF Publish, graphs, managed, TypeInv, Days, Bad, NoRequest,
     Preps, Requests, Graphs, PrepSteps, RequestSteps
<1>3. CASE CoverageStarts
  BY <1>3, RoutingAssumption DEF CoverageStarts, maps, graphs, managed, TypeInv, Days, Bad,
     NoRequest, Preps, Requests, Graphs, PrepSteps, RequestSteps
<1>4. CASE CoverageSetsRegions
  BY <1>4, RoutingAssumption DEF CoverageSetsRegions, maps, graphs, managed, TypeInv, Days,
     Bad, NoRequest, Preps, Requests, Graphs, PrepSteps, RequestSteps
<1>5. CASE EnsureGraphs
  BY <1>5, RoutingAssumption DEF EnsureGraphs, maps, graphs, managed, NoPrep, TypeInv, Days,
     Bad, NoRequest, Preps, Requests, Graphs, PrepSteps, RequestSteps
<1>6. CASE LoadCachedIndex
  BY <1>6, RoutingAssumption DEF LoadCachedIndex, graphs, managed, Step, TypeInv, Days, Bad,
     NoRequest, Preps, Requests, Graphs, PrepSteps, RequestSteps
<1>7. CASE SelectSources
  <2>1. PICK r \in prep.pending :
            /\ index' = IF r \in index THEN index ELSE Regions
            /\ prep' = [prep EXCEPT !.at = "sources", !.region = r, !.sources = Cover(r)]
    BY <1>7 DEF SelectSources
  <2>2. r \in Regions /\ Cover(r) \in SUBSET Extracts
    BY RoutingAssumption DEF TypeInv, Preps
  <2>3. prep' \in Preps
    BY <2>1, <2>2 DEF TypeInv, Preps, PrepSteps
  <2>4. index' = None \/ index' \subseteq Regions
    BY <2>1 DEF TypeInv
  <2> QED
    BY <1>7, <2>3, <2>4 DEF SelectSources, graphs, managed, TypeInv
<1>8. CASE BuildSources
  BY <1>8, RoutingAssumption DEF BuildSources, maps, graphs, managed, TypeInv, Days, Bad,
     NoRequest, Preps, Requests, Graphs, PrepSteps, RequestSteps
<1>9. CASE UseCached
  <2>1. prep' \in Preps
    BY <1>9 DEF UseCached, TypeInv, Preps, PrepSteps
  <2> QED
    BY <1>9, <2>1 DEF UseCached, maps, graphs, managed, TypeInv
<1>10. CASE DownloadExtract
  BY <1>10, RoutingAssumption DEF DownloadExtract, graphs, managed, TypeInv, Days, Bad,
     NoRequest, Preps, Requests, Graphs, PrepSteps, RequestSteps
<1>11. CASE SaveMetadata
  <2>1. prep' \in Preps
    BY <1>11 DEF SaveMetadata, TypeInv, Preps, PrepSteps
  <2>2. prep.got \in Extracts /\ file[prep.got] \in Days
    BY <1>11 DEF SaveMetadata, TypeInv, Preps, EnsureInv
  <2>3. metadata' \in [Extracts -> Days \cup {None}]
    BY <1>11, <2>2 DEF SaveMetadata, TypeInv
  <2> QED
    BY <1>11, <2>1, <2>3 DEF SaveMetadata, graphs, managed, TypeInv
<1>12. CASE MatchDates
  <2>1. AtRegion
    BY <1>12 DEF MatchDates, AtRegion
  <2>2. {Single(prep.region)} \in SUBSET Extracts
    BY <2>1, KeyInvType, RoutingAssumption
  <2>3. prep' \in Preps
    BY <1>12, <2>2 DEF MatchDates, TypeInv, Preps, PrepSteps
  <2> QED
    BY <1>12, <2>3 DEF MatchDates, maps, graphs, managed, TypeInv
<1>13. CASE MoveInvalidAway
  <2>1. prep' \in Preps
    BY <1>13 DEF MoveInvalidAway, Step, TypeInv, Preps, PrepSteps
  <2>2. NoGraph \in Graphs
    BY DEF Graphs, NoGraph
  <2>3. graph' \in [Keys -> Graphs]
    BY <1>13, <2>2 DEF MoveInvalidAway, TypeInv
  <2> QED
    BY <1>13, <2>1, <2>3 DEF MoveInvalidAway, maps, managed, TypeInv
<1>14. CASE RenameStage
  <2>1. prep' \in Preps
    BY <1>14 DEF RenameStage, Step, TypeInv, Preps, PrepSteps
  <2>2. DaysOf(prep.sources) \in SUBSET (Days \cup {Bad, None})
    BY DEF DaysOf, TypeInv, Preps
  <2> DEFINE new == [state |-> "whole", days |-> DaysOf(prep.sources)]
  <2>3. new \in Graphs
    BY <2>2 DEF Graphs
  <2>4. graph' = [graph EXCEPT ![Key] = new]
    BY <1>14 DEF RenameStage
  <2> HIDE DEF new
  <2>5. graph' \in [Keys -> Graphs]
    BY <2>3, <2>4 DEF TypeInv
  <2> QED
    BY <1>14, <2>1, <2>5 DEF RenameStage, maps, managed, TypeInv
<1>15. CASE Bind
  <2>1. prep' \in Preps
    BY <1>15 DEF Bind, TypeInv, Preps, PrepSteps
  <2>2. Key \in Keys /\ prep.region \in Regions
    BY <1>15, KeyInvType DEF Bind, AtRegion
  <2>3. [region |-> prep.region, key |-> BoundKey] \in [region : Regions, key : Keys]
    BY <2>2 DEF BoundKey
  <2>4. binding' \in [Ids -> {None} \cup [region : Regions, key : Keys]]
    BY <1>15, <2>3 DEF Bind, TypeInv
  <2> QED
    BY <1>15, <2>1, <2>4 DEF Bind, maps, managed, TypeInv
<1>16. CASE GraphsEnsured
  BY <1>16, RoutingAssumption DEF GraphsEnsured, maps, graphs, managed, Step, TypeInv, Days,
     Bad, NoRequest, Preps, Requests, Graphs, PrepSteps, RequestSteps
<1>17. CASE EnsureFails
  BY <1>17, RoutingAssumption DEF EnsureFails, maps, graphs, managed, Fault, TypeInv, Days,
     Bad, NoRequest, Preps, Requests, Graphs, PrepSteps, RequestSteps
<1>18. CASE StartSession
  BY <1>18, RoutingAssumption DEF StartSession, maps, graphs, Step, TypeInv, Days, Bad,
     NoRequest, Preps, Requests, Graphs, PrepSteps, RequestSteps
<1>19. CASE ResolveGraph
  <2>1. PICK w \in prep.wanted, r \in regions :
            /\ w.id = r.id /\ ReadBinding(r)
            /\ request' = [at |-> "service", region |-> w, key |-> binding[r.id].key]
    BY <1>19 DEF ResolveGraph
  <2>2. w \in Regions /\ r \in Regions
    BY RoutingAssumption DEF TypeInv, Preps
  <2>3. binding[r.id] \in [region : Regions, key : Keys]
    BY <2>1, <2>2, IdType DEF ReadBinding, BoundTo, TypeInv
  <2>4. request' \in Requests
    BY <2>1, <2>2, <2>3 DEF Requests, RequestSteps
  <2> QED
    BY <1>19, <2>4 DEF ResolveGraph, maps, graphs, TypeInv
<1>20. CASE ServiceFor
  BY <1>20, RoutingAssumption DEF ServiceFor, maps, graphs, Ask, ServiceFails, Stopped,
     TypeInv, Days, Bad, NoRequest, Preps, Requests, Graphs, PrepSteps, RequestSteps
<1>21. CASE SpawnService
  BY <1>21, RoutingAssumption DEF SpawnService, maps, graphs, Ask, TypeInv, Days, Bad,
     NoRequest, Preps, Requests, Graphs, PrepSteps, RequestSteps
<1>22. CASE ServiceReady
  BY <1>22, RoutingAssumption DEF ServiceReady, maps, graphs, Ask, TypeInv, Days, Bad,
     NoRequest, Preps, Requests, Graphs, PrepSteps, RequestSteps
<1>23. CASE LaunchFails
  BY <1>23, RoutingAssumption DEF LaunchFails, maps, graphs, NotReady, Stopped, ServiceFails,
     Ask, Fault, TypeInv, Days, Bad, NoRequest, Preps, Requests, Graphs, PrepSteps, RequestSteps
<1>24. CASE RequestAborted
  BY <1>24, RoutingAssumption DEF RequestAborted, maps, graphs, Stopped, TypeInv, Days, Bad,
     NoRequest, Preps, Requests, Graphs, PrepSteps, RequestSteps
<1>25. CASE Answered
  BY <1>25, RoutingAssumption DEF Answered, maps, graphs, TypeInv, Days, Bad, NoRequest, Preps,
     Requests, Graphs, PrepSteps, RequestSteps
<1>26. CASE TransportFails
  BY <1>26, RoutingAssumption DEF TransportFails, maps, graphs, Stopped, ServiceFails, Ask,
     Fault, TypeInv, Days, Bad, NoRequest, Preps, Requests, Graphs, PrepSteps, RequestSteps
<1>27. CASE RoutingEnds
  BY <1>27, RoutingAssumption DEF RoutingEnds, maps, graphs, managed, Step, TypeInv, Days, Bad,
     NoRequest, Preps, Requests, Graphs, PrepSteps, RequestSteps
<1>28. CASE StopSession
  BY <1>28, RoutingAssumption DEF StopSession, maps, graphs, NoPrep, TypeInv, Days, Bad,
     NoRequest, Preps, Requests, Graphs, PrepSteps, RequestSteps
<1>29. CASE CancelPreparation
  BY <1>29, RoutingAssumption DEF CancelPreparation, maps, graphs, managed, TypeInv, Days, Bad,
     NoRequest, Preps, Requests, Graphs, PrepSteps, RequestSteps
<1>30. CASE ServiceDies
  BY <1>30, RoutingAssumption DEF ServiceDies, maps, graphs, Fault, TypeInv, Days, Bad,
     NoRequest, Preps, Requests, Graphs, PrepSteps, RequestSteps
<1>31. CASE Damaged
  <2>1. file' \in [Extracts -> Days \cup {Bad, None}]
    BY <1>31 DEF Damaged, TypeInv
  <2>2. graph' \in [Keys -> Graphs]
    BY <1>31 DEF Damaged, TypeInv, Graphs
  <2> QED
    BY <1>31, <2>1, <2>2, RoutingAssumption DEF Damaged, managed, Fault, TypeInv
<1>32. CASE Crash
  BY <1>32, RoutingAssumption DEF Crash, maps, graphs, Fault, NoPrep, TypeInv, Days, Bad,
     NoRequest, Preps, Requests, Graphs, PrepSteps, RequestSteps
<1> QED
  BY <1>0, <1>1, <1>2, <1>3, <1>4, <1>5, <1>6, <1>7, <1>8, <1>9, <1>10, <1>11, <1>12, <1>13,
     <1>14, <1>15, <1>16, <1>17, <1>18, <1>19, <1>20, <1>21, <1>22, <1>23, <1>24, <1>25, <1>26,
     <1>27, <1>28, <1>29, <1>30, <1>31, <1>32 DEF Next

\* Every step leaves ensureGraphs with intact extracts of one day.
LEMMA EnsureStep == TypeInv /\ EnsureInv /\ [Next]_vars => EnsureInv'
<1> SUFFICES ASSUME TypeInv, EnsureInv, [Next]_vars PROVE EnsureInv'
  OBVIOUS
<1>0. ASSUME UNCHANGED <<prep, file, graph>> PROVE EnsureInv'
  BY <1>0 DEF EnsureInv, TypeInv, Preps, AtRegion, Key, Verified, SameDay, DaysOf
<1>1. CASE EnsureGraphs
  BY <1>1, RoutingAssumption DEF EnsureGraphs, maps, graphs, managed, NoPrep, EnsureInv,
     TypeInv, Preps, AtRegion, Key, Verified, SameDay, DaysOf
<1>2. CASE LoadCachedIndex
  BY <1>2, RoutingAssumption DEF LoadCachedIndex, graphs, managed, Step, EnsureInv, TypeInv,
     Preps, AtRegion, Key, Verified, SameDay, DaysOf
<1>3. CASE SelectSources
  BY <1>3, RoutingAssumption DEF SelectSources, graphs, managed, EnsureInv, TypeInv, Preps,
     AtRegion, Key, Verified, SameDay, DaysOf
<1>4. CASE BuildSources
  BY <1>4, RoutingAssumption DEF BuildSources, maps, graphs, managed, EnsureInv, TypeInv,
     Preps, AtRegion, Key, Verified, SameDay, DaysOf
<1>5. CASE UseCached
  BY <1>5, RoutingAssumption DEF UseCached, maps, graphs, managed, Cached, EnsureInv, TypeInv,
     Preps, AtRegion, Key, Verified, SameDay, DaysOf
<1>6. CASE DownloadExtract
  BY <1>6, RoutingAssumption DEF DownloadExtract, graphs, managed, EnsureInv, TypeInv, Preps,
     AtRegion, Key, Verified, SameDay, DaysOf
<1>7. CASE SaveMetadata
  BY <1>7, RoutingAssumption DEF SaveMetadata, graphs, managed, EnsureInv, TypeInv, Preps,
     AtRegion, Key, Verified, SameDay, DaysOf
<1>8. CASE MatchDates
  BY <1>8, RoutingAssumption DEF MatchDates, maps, graphs, managed, EnsureInv, TypeInv, Preps,
     AtRegion, Key, Verified, SameDay, DaysOf
<1>9. CASE MoveInvalidAway
  BY <1>9, RoutingAssumption DEF MoveInvalidAway, maps, managed, Key, NoGraph, Step, EnsureInv,
     TypeInv, Preps, AtRegion, Key, Verified, SameDay, DaysOf
<1>10. CASE RenameStage
  <2>1. AtRegion /\ Key \in Keys /\ Key' = Key
    BY <1>10, KeyInvType DEF RenameStage, AtRegion, Step, Key, TypeInv, Preps
  <2>2. Verified(Key)'
    BY <1>10, <2>1 DEF RenameStage, Verified, TypeInv
  <2> QED
    BY <1>10, <2>1, <2>2 DEF RenameStage, Step, EnsureInv, TypeInv, Preps, AtRegion
<1>11. CASE Bind
  BY <1>11, RoutingAssumption DEF Bind, maps, managed, Key, BoundKey, EnsureInv, TypeInv,
     Preps, AtRegion, Key, Verified, SameDay, DaysOf
<1>12. CASE GraphsEnsured
  BY <1>12, RoutingAssumption DEF GraphsEnsured, maps, graphs, managed, Step, EnsureInv,
     TypeInv, Preps, AtRegion, Key, Verified, SameDay, DaysOf
<1>13. CASE EnsureFails
  BY <1>13, RoutingAssumption DEF EnsureFails, maps, graphs, managed, Fault, EnsureInv,
     TypeInv, Preps, AtRegion, Key, Verified, SameDay, DaysOf
<1>14. CASE StartSession
  BY <1>14, RoutingAssumption DEF StartSession, maps, graphs, Step, EnsureInv, TypeInv, Preps,
     AtRegion, Key, Verified, SameDay, DaysOf
<1>15. CASE RoutingEnds
  BY <1>15, RoutingAssumption DEF RoutingEnds, maps, graphs, managed, Step, EnsureInv, TypeInv,
     Preps, AtRegion, Key, Verified, SameDay, DaysOf
<1>16. CASE StopSession
  BY <1>16, RoutingAssumption DEF StopSession, maps, graphs, NoPrep, EnsureInv, TypeInv, Preps,
     AtRegion, Key, Verified, SameDay, DaysOf
<1>17. CASE Damaged
  BY <1>17, RoutingAssumption DEF Damaged, managed, Fault, EnsureInv, TypeInv, Preps, AtRegion,
     Key, Verified, SameDay, DaysOf
<1>18. CASE Crash
  BY <1>18, RoutingAssumption DEF Crash, maps, graphs, Fault, NoPrep, EnsureInv, TypeInv,
     Preps, AtRegion, Key, Verified, SameDay, DaysOf
<1>19. CASE \/ SaveSettings \/ Publish \/ CoverageStarts \/ CoverageSetsRegions
            \/ ResolveGraph \/ ServiceFor \/ SpawnService \/ ServiceReady \/ LaunchFails
            \/ RequestAborted \/ Answered \/ TransportFails \/ CancelPreparation
            \/ ServiceDies \/ UNCHANGED vars
  BY <1>0, <1>19 DEF vars, SaveSettings, Publish, CoverageStarts, CoverageSetsRegions,
     ResolveGraph, ServiceFor, SpawnService, ServiceReady, LaunchFails, RequestAborted,
     Answered, TransportFails, CancelPreparation, ServiceDies, graphs, managed, maps
<1> QED
  BY <1>1, <1>2, <1>3, <1>4, <1>5, <1>6, <1>7, <1>8, <1>9, <1>10, <1>11, <1>12, <1>13, <1>14,
     <1>15, <1>16, <1>17, <1>18, <1>19 DEF Next

\* Every step keeps the graphs of the regions a preparation is done with: the
\* next region's graph has another key, and its binding another id.
LEMMA BoundStep == TypeInv /\ EnsureInv /\ BoundInv /\ [Next]_vars => BoundInv'
<1> SUFFICES ASSUME TypeInv, EnsureInv, BoundInv, [Next]_vars PROVE BoundInv'
  OBVIOUS
<1>0. ASSUME UNCHANGED <<prep, graph, binding>> PROVE BoundInv'
  BY <1>0 DEF BoundInv, TypeInv, Preps, BoundTo, Verified
<1>1. CASE EnsureGraphs
  BY <1>1 DEF EnsureGraphs, maps, graphs, managed, NoPrep, BoundInv, TypeInv, Preps, BoundTo,
     Verified
<1>2. CASE LoadCachedIndex
  BY <1>2 DEF LoadCachedIndex, graphs, managed, Step, BoundInv, TypeInv, Preps, BoundTo,
     Verified
<1>3. CASE SelectSources
  BY <1>3 DEF SelectSources, graphs, managed, BoundInv, TypeInv, Preps, BoundTo, Verified
<1>4. CASE BuildSources
  BY <1>4 DEF BuildSources, maps, graphs, managed, BoundInv, TypeInv, Preps, BoundTo, Verified
<1>5. CASE UseCached
  BY <1>5 DEF UseCached, maps, graphs, managed, Cached, BoundInv, TypeInv, Preps, BoundTo,
     Verified
<1>6. CASE DownloadExtract
  BY <1>6 DEF DownloadExtract, graphs, managed, BoundInv, TypeInv, Preps, BoundTo, Verified
<1>7. CASE SaveMetadata
  BY <1>7 DEF SaveMetadata, graphs, managed, BoundInv, TypeInv, Preps, BoundTo, Verified
<1>8. CASE MatchDates
  BY <1>8 DEF MatchDates, maps, graphs, managed, BoundInv, TypeInv, Preps, BoundTo, Verified
<1>9. CASE MoveInvalidAway
  <2>1. AtRegion /\ Key \in Keys
    BY <1>9, KeyInvType DEF MoveInvalidAway, AtRegion
  <2>2. graph' = [graph EXCEPT ![Key] = NoGraph]
    BY <1>9 DEF MoveInvalidAway
  <2>3. \A k \in Keys : graph'[k].state # "none" => \E day \in Days : graph'[k].days = {day}
    BY <2>1, <2>2 DEF BoundInv, TypeInv, NoGraph
  <2>4. ASSUME NEW r \in prep.wanted \ prep.pending
        PROVE  BoundTo(r) /\ binding[r.id].key # Key /\ Verified(binding[r.id].key)
    <3>1. BoundTo(r) /\ Verified(binding[r.id].key) /\ r # prep.region
      BY <1>9, <2>1 DEF MoveInvalidAway, BoundInv, EnsureInv
    <3>2. binding[r.id].key.region = r
      BY <3>1, <2>4, IdType, RoutingAssumption DEF BoundInv, BoundTo, TypeInv, Preps
    <3> QED
      BY <3>1, <3>2 DEF Key
  <2>5. prep'.wanted = prep.wanted /\ prep'.pending = prep.pending
    BY <1>9 DEF MoveInvalidAway, Step, TypeInv, Preps
  <2> QED
    BY <1>9, <2>2, <2>3, <2>4, <2>5 DEF MoveInvalidAway, BoundInv, BoundTo, Verified, TypeInv
<1>10. CASE RenameStage
  <2>1. AtRegion /\ Key \in Keys
    BY <1>10, KeyInvType DEF RenameStage, AtRegion
  <2> DEFINE new == [state |-> "whole", days |-> DaysOf(prep.sources)]
  <2>2. graph' = [graph EXCEPT ![Key] = new]
    BY <1>10 DEF RenameStage
  <2>3. \E day \in Days : DaysOf(prep.sources) = {day}
    <3>1. DaysOf(prep.sources) \in SUBSET Days /\ Cardinality(DaysOf(prep.sources)) = 1
      BY <1>10 DEF RenameStage, EnsureInv, SameDay, DaysOf
    <3>2. IsFiniteSet(Days)
      BY RoutingAssumption, FS_Interval DEF Days
    <3>3. IsFiniteSet(DaysOf(prep.sources))
      BY <3>1, <3>2, FS_Subset
    <3>4. PICK day : DaysOf(prep.sources) = {day}
      BY <3>1, <3>3, FS_Singleton
    <3> QED
      BY <3>1, <3>4
  <2>4. new.state = "whole" /\ \E day \in Days : new.days = {day}
    BY <2>3
  <2> HIDE DEF new
  <2>5. \A k \in Keys : graph'[k].state # "none" => \E day \in Days : graph'[k].days = {day}
    BY <2>1, <2>2, <2>4 DEF BoundInv, TypeInv
  <2>6. \A k \in Keys : Verified(k) => Verified(k)'
    BY <2>2, <2>4 DEF Verified, TypeInv
  <2>7. ASSUME NEW r \in prep.wanted \ prep.pending
        PROVE  BoundTo(r) /\ binding[r.id].key \in Keys /\ Verified(binding[r.id].key)
    <3>1. BoundTo(r) /\ Verified(binding[r.id].key)
      BY <1>10 DEF RenameStage, BoundInv
    <3> QED
      BY <3>1, <2>7, IdType, RoutingAssumption DEF BoundTo, TypeInv, Preps
  <2>8. prep'.wanted = prep.wanted /\ prep'.pending = prep.pending
    BY <1>10 DEF RenameStage, Step, TypeInv, Preps
  <2> QED
    BY <1>10, <2>5, <2>6, <2>7, <2>8 DEF RenameStage, BoundInv, BoundTo
<1>11. CASE Bind
  <2>1. AtRegion /\ Key \in Keys /\ prep.region \in Regions
    BY <1>11, KeyInvType DEF Bind, AtRegion
  <2> DEFINE new == [region |-> prep.region, key |-> Key]
             id == prep.region.id
  <2>2. /\ binding' = [binding EXCEPT ![id] = new]
        /\ graph' = graph /\ prep'.wanted = prep.wanted
        /\ prep'.pending = prep.pending \ {prep.region}
    BY <1>11 DEF Bind, BoundKey, TypeInv, Preps
  <2>3. new # None /\ new.region = prep.region /\ new.key = Key /\ new.key.region = new.region
    BY <2>1, NoneAssumption DEF Key
  <2>4. id \in Ids
    BY <2>1, IdType
  <2>5. Verified(Key)
    BY <1>11 DEF Bind, EnsureInv
  <2> HIDE DEF new, id
  <2>6. \A i \in Ids : binding'[i] # None => binding'[i].key.region = binding'[i].region
    BY <2>2, <2>3, <2>4 DEF BoundInv, TypeInv
  <2>7. ASSUME NEW r \in prep.wanted \ (prep.pending \ {prep.region})
        PROVE  (BoundTo(r) /\ Verified(binding[r.id].key))'
    <3>1. CASE r = prep.region
      BY <3>1, <2>2, <2>3, <2>4, <2>5 DEF id, BoundTo, Verified, TypeInv
    <3>2. CASE r # prep.region
      <4>1. BoundTo(r) /\ Verified(binding[r.id].key)
        BY <1>11, <3>2, <2>7 DEF Bind, BoundInv
      <4>2. prep.region \in prep.wanted /\ prep.wanted \in Configs /\ prep.wanted \subseteq Regions
        BY <2>1, <2>7, RoutingAssumption DEF EnsureInv, TypeInv, Preps
      <4>3. r.id # id /\ r.id \in Ids
        BY <4>2, <3>2, <2>7, IdType, RoutingAssumption DEF id
      <4> QED
        BY <4>1, <4>3, <2>2 DEF BoundTo, Verified, TypeInv
    <3> QED
      BY <3>1, <3>2
  <2> QED
    BY <2>2, <2>6, <2>7 DEF BoundInv
<1>12. CASE GraphsEnsured
  BY <1>12 DEF GraphsEnsured, maps, graphs, managed, Step, BoundInv, TypeInv, Preps, BoundTo,
     Verified
<1>13. CASE EnsureFails
  BY <1>13 DEF EnsureFails, maps, graphs, managed, Fault, BoundInv, TypeInv, Preps, BoundTo,
     Verified
<1>14. CASE StartSession
  BY <1>14 DEF StartSession, maps, graphs, Step, BoundInv, TypeInv, Preps, BoundTo, Verified
<1>15. CASE RoutingEnds
  BY <1>15 DEF RoutingEnds, maps, graphs, managed, Step, BoundInv, TypeInv, Preps, BoundTo,
     Verified
<1>16. CASE StopSession
  BY <1>16 DEF StopSession, maps, graphs, NoPrep, BoundInv, TypeInv, Preps, BoundTo, Verified
<1>17. CASE Damaged
  <2>1. prep.at = "idle" /\ prep' = prep /\ binding' = binding
    BY <1>17 DEF Damaged
  <2>2. \A k \in Keys : graph'[k].state # "none" =>
                        graph[k].state # "none" /\ graph'[k].days = graph[k].days
    <3>1. CASE graph' = graph
      BY <3>1
    <3>2. CASE graph' # graph
      <4>1. PICK k \in Keys, how \in {"untiled", "unreadable"} :
                graph[k].state = "whole" /\ graph' = [graph EXCEPT ![k].state = how]
        BY <1>17, <3>2 DEF Damaged
      <4> QED
        BY <4>1 DEF TypeInv, Graphs
    <3> QED
      BY <3>1, <3>2
  <2> QED
    BY <2>1, <2>2 DEF BoundInv
<1>18. CASE Crash
  BY <1>18 DEF Crash, maps, graphs, Fault, NoPrep, BoundInv, TypeInv, Preps, BoundTo, Verified
<1>19. CASE \/ SaveSettings \/ Publish \/ CoverageStarts \/ CoverageSetsRegions
            \/ ResolveGraph \/ ServiceFor \/ SpawnService \/ ServiceReady \/ LaunchFails
            \/ RequestAborted \/ Answered \/ TransportFails \/ CancelPreparation
            \/ ServiceDies \/ UNCHANGED vars
  BY <1>0, <1>19 DEF vars, SaveSettings, Publish, CoverageStarts, CoverageSetsRegions,
     ResolveGraph, ServiceFor, SpawnService, ServiceReady, LaunchFails, RequestAborted,
     Answered, TransportFails, CancelPreparation, ServiceDies, graphs, managed, maps
<1> QED
  BY <1>1, <1>2, <1>3, <1>4, <1>5, <1>6, <1>7, <1>8, <1>9, <1>10, <1>11, <1>12, <1>13, <1>14,
     <1>15, <1>16, <1>17, <1>18, <1>19 DEF Next

\* Every step keeps a request on the graph of its region: the regions set last
\* may be of other settings, but only a binding for the same place is taken.
LEMMA RequestStep == TypeInv /\ EnsureInv /\ BoundInv /\ RequestInv /\ [Next]_vars => RequestInv'
<1> SUFFICES ASSUME TypeInv, EnsureInv, BoundInv, RequestInv, [Next]_vars PROVE RequestInv'
  OBVIOUS
<1>0. ASSUME UNCHANGED <<prep, graph, request>> PROVE RequestInv'
  BY <1>0 DEF RequestInv, TypeInv, Preps, Requests, NoRequest, Verified
<1>1. CASE EnsureGraphs
  BY <1>1 DEF EnsureGraphs, maps, graphs, managed, NoPrep, RequestInv, TypeInv, Preps,
     Requests, NoRequest, Verified
<1>2. CASE LoadCachedIndex
  BY <1>2 DEF LoadCachedIndex, graphs, managed, Step, RequestInv, TypeInv, Preps, Requests,
     NoRequest, Verified
<1>3. CASE SelectSources
  BY <1>3 DEF SelectSources, graphs, managed, RequestInv, TypeInv, Preps, Requests, NoRequest,
     Verified
<1>4. CASE BuildSources
  BY <1>4 DEF BuildSources, maps, graphs, managed, RequestInv, TypeInv, Preps, Requests,
     NoRequest, Verified
<1>5. CASE UseCached
  BY <1>5 DEF UseCached, maps, graphs, managed, Cached, RequestInv, TypeInv, Preps, Requests,
     NoRequest, Verified
<1>6. CASE DownloadExtract
  BY <1>6 DEF DownloadExtract, graphs, managed, RequestInv, TypeInv, Preps, Requests,
     NoRequest, Verified
<1>7. CASE SaveMetadata
  BY <1>7 DEF SaveMetadata, graphs, managed, RequestInv, TypeInv, Preps, Requests, NoRequest,
     Verified
<1>8. CASE MatchDates
  BY <1>8 DEF MatchDates, maps, graphs, managed, RequestInv, TypeInv, Preps, Requests,
     NoRequest, Verified
<1>9. CASE MoveInvalidAway
  BY <1>9 DEF MoveInvalidAway, maps, managed, Key, NoGraph, Step, RequestInv, TypeInv, Preps,
     Requests, NoRequest, Verified
<1>10. CASE RenameStage
  BY <1>10 DEF RenameStage, maps, managed, Key, DaysOf, Step, RequestInv, TypeInv, Preps,
     Requests, NoRequest, Verified
<1>11. CASE Bind
  BY <1>11 DEF Bind, maps, managed, Key, BoundKey, RequestInv, TypeInv, Preps, Requests,
     NoRequest, Verified
<1>12. CASE GraphsEnsured
  BY <1>12 DEF GraphsEnsured, maps, graphs, managed, Step, RequestInv, TypeInv, Preps,
     Requests, NoRequest, Verified
<1>13. CASE EnsureFails
  BY <1>13 DEF EnsureFails, maps, graphs, managed, Fault, RequestInv, TypeInv, Preps, Requests,
     NoRequest, Verified
<1>14. CASE StartSession
  BY <1>14 DEF StartSession, maps, graphs, Step, RequestInv, TypeInv, Preps, Requests,
     NoRequest, Verified
<1>15. CASE ResolveGraph
  <2>1. PICK w \in prep.wanted, r \in regions :
            /\ w.id = r.id /\ ReadBinding(r)
            /\ request' = [at |-> "service", region |-> w, key |-> binding[r.id].key]
    BY <1>15 DEF ResolveGraph
  <2>2. prep.at = "routing" /\ prep.pending = {} /\ prep' = prep /\ graph' = graph
    BY <1>15 DEF ResolveGraph, EnsureInv, graphs
  <2>3. BoundTo(w) /\ Verified(binding[w.id].key)
    BY <2>2 DEF BoundInv
  <2>4. w \in Regions /\ w = r
    BY <2>1, <2>3, RoutingAssumption DEF ReadBinding, BoundTo, TypeInv, Preps
  <2>5. binding[w.id].key.region = w
    BY <2>3, <2>4, IdType DEF BoundTo, BoundInv
  <2> QED
    BY <2>1, <2>2, <2>3, <2>4, <2>5 DEF RequestInv, Verified
<1>16. CASE ServiceFor
  BY <1>16 DEF ServiceFor, maps, graphs, Ask, ServiceFails, Stopped, RequestInv, TypeInv,
     Preps, Requests, NoRequest, Verified
<1>17. CASE SpawnService
  BY <1>17 DEF SpawnService, maps, graphs, Ask, RequestInv, TypeInv, Preps, Requests,
     NoRequest, Verified
<1>18. CASE ServiceReady
  BY <1>18 DEF ServiceReady, maps, graphs, Ask, RequestInv, TypeInv, Preps, Requests,
     NoRequest, Verified
<1>19. CASE LaunchFails
  BY <1>19 DEF LaunchFails, maps, graphs, NotReady, Stopped, ServiceFails, Ask, Fault,
     RequestInv, TypeInv, Preps, Requests, NoRequest, Verified
<1>20. CASE RequestAborted
  BY <1>20 DEF RequestAborted, maps, graphs, Stopped, RequestInv, TypeInv, Preps, Requests,
     NoRequest, Verified
<1>21. CASE Answered
  BY <1>21 DEF Answered, maps, graphs, RequestInv, TypeInv, Preps, Requests, NoRequest, Verified
<1>22. CASE TransportFails
  BY <1>22 DEF TransportFails, maps, graphs, Stopped, ServiceFails, Ask, Fault, RequestInv,
     TypeInv, Preps, Requests, NoRequest, Verified
<1>23. CASE RoutingEnds
  BY <1>23 DEF RoutingEnds, maps, graphs, managed, Step, RequestInv, TypeInv, Preps, Requests,
     NoRequest, Verified
<1>24. CASE StopSession
  BY <1>24 DEF StopSession, maps, graphs, NoPrep, RequestInv, TypeInv, Preps, Requests,
     NoRequest, Verified
<1>25. CASE Damaged
  BY <1>25 DEF Damaged, managed, Fault, RequestInv, TypeInv, Preps, Requests, NoRequest,
     Verified
<1>26. CASE Crash
  BY <1>26 DEF Crash, maps, graphs, Fault, NoPrep, RequestInv, TypeInv, Preps, Requests,
     NoRequest, Verified
<1>27. CASE \/ SaveSettings \/ Publish \/ CoverageStarts \/ CoverageSetsRegions
            \/ CancelPreparation \/ ServiceDies \/ UNCHANGED vars
  BY <1>0, <1>27 DEF vars, SaveSettings, Publish, CoverageStarts, CoverageSetsRegions,
     CancelPreparation, ServiceDies, graphs, managed, maps
<1> QED
  BY <1>1, <1>2, <1>3, <1>4, <1>5, <1>6, <1>7, <1>8, <1>9, <1>10, <1>11, <1>12, <1>13, <1>14,
     <1>15, <1>16, <1>17, <1>18, <1>19, <1>20, <1>21, <1>22, <1>23, <1>24, <1>25, <1>26,
     <1>27 DEF Next

\* A pool with a service less is within its limit.
LEMMA FewerServices ==
    ASSUME PoolInv, NEW k
    PROVE  IsFiniteSet(services \ {k}) /\ Cardinality(services \ {k}) <= MaxServices
<1>1. IsFiniteSet(services) /\ Cardinality(services) <= MaxServices
  BY DEF PoolInv
<1>2. services \ {k} \subseteq services
  OBVIOUS
<1>3. IsFiniteSet(services \ {k}) /\ Cardinality(services \ {k}) <= Cardinality(services)
  BY <1>1, <1>2, FS_Subset
<1>4. Cardinality(services) \in Nat /\ Cardinality(services \ {k}) \in Nat
  BY <1>1, <1>3, FS_CardinalityType
<1> QED
  BY <1>1, <1>3, <1>4, RoutingAssumption

\* Every step keeps the processes within the pool.
LEMMA PoolStep == TypeInv /\ EnsureInv /\ RequestInv /\ PoolInv /\ [Next]_vars => PoolInv'
<1> SUFFICES ASSUME TypeInv, EnsureInv, RequestInv, PoolInv, [Next]_vars PROVE PoolInv'
  OBVIOUS
<1>0. ASSUME UNCHANGED <<prep, services, child, request>> PROVE PoolInv'
  BY <1>0 DEF PoolInv, EnsureInv, TypeInv, Preps, Requests, NoRequest
<1>1. CASE EnsureGraphs
  BY <1>1 DEF EnsureGraphs, maps, graphs, managed, NoPrep, PoolInv, EnsureInv, TypeInv, Preps,
     Requests, NoRequest
<1>2. CASE LoadCachedIndex
  BY <1>2 DEF LoadCachedIndex, graphs, managed, Step, PoolInv, EnsureInv, TypeInv, Preps,
     Requests, NoRequest
<1>3. CASE SelectSources
  BY <1>3 DEF SelectSources, graphs, managed, PoolInv, EnsureInv, TypeInv, Preps, Requests,
     NoRequest
<1>4. CASE BuildSources
  BY <1>4 DEF BuildSources, maps, graphs, managed, PoolInv, EnsureInv, TypeInv, Preps,
     Requests, NoRequest
<1>5. CASE UseCached
  BY <1>5 DEF UseCached, maps, graphs, managed, Cached, PoolInv, EnsureInv, TypeInv, Preps,
     Requests, NoRequest
<1>6. CASE DownloadExtract
  BY <1>6 DEF DownloadExtract, graphs, managed, PoolInv, EnsureInv, TypeInv, Preps, Requests,
     NoRequest
<1>7. CASE SaveMetadata
  BY <1>7 DEF SaveMetadata, graphs, managed, PoolInv, EnsureInv, TypeInv, Preps, Requests,
     NoRequest
<1>8. CASE MatchDates
  BY <1>8 DEF MatchDates, maps, graphs, managed, PoolInv, EnsureInv, TypeInv, Preps, Requests,
     NoRequest
<1>9. CASE MoveInvalidAway
  BY <1>9 DEF MoveInvalidAway, maps, managed, Key, NoGraph, Step, PoolInv, EnsureInv, TypeInv,
     Preps, Requests, NoRequest
<1>10. CASE RenameStage
  BY <1>10 DEF RenameStage, maps, managed, Key, DaysOf, Step, PoolInv, EnsureInv, TypeInv,
     Preps, Requests, NoRequest
<1>11. CASE Bind
  BY <1>11 DEF Bind, maps, managed, Key, BoundKey, PoolInv, EnsureInv, TypeInv, Preps,
     Requests, NoRequest
<1>12. CASE GraphsEnsured
  BY <1>12 DEF GraphsEnsured, maps, graphs, managed, Step, PoolInv, EnsureInv, TypeInv, Preps,
     Requests, NoRequest
<1>13. CASE EnsureFails
  BY <1>13 DEF EnsureFails, maps, graphs, managed, Fault, PoolInv, EnsureInv, TypeInv, Preps,
     Requests, NoRequest
<1>14. CASE StartSession
  BY <1>14 DEF StartSession, maps, graphs, Step, PoolInv, EnsureInv, TypeInv, Preps, Requests,
     NoRequest
<1>15. CASE ResolveGraph
  BY <1>15 DEF ResolveGraph, maps, graphs, PoolInv, EnsureInv, TypeInv, Preps, Requests,
     NoRequest
<1>16. CASE ServiceFor
  <2> DEFINE k == request.key
  <2>1. request.at = "service" /\ k \in Keys /\ prep' = prep /\ prep.at = "routing"
    BY <1>16 DEF ServiceFor, TypeInv, Requests, NoRequest, RequestInv
  <2>2. CASE services' = services /\ child' = child /\ request' = [request EXCEPT !.at = "oneshot"]
    BY <2>1, <2>2 DEF PoolInv, TypeInv, Requests, NoRequest
  <2>3. CASE k \in services /\ services' = services /\ child' = child
             /\ request' = [request EXCEPT !.at = "fetch"]
    BY <2>1, <2>3 DEF PoolInv, TypeInv, Requests, NoRequest
  <2>4. CASE /\ services' = services \ {k} /\ child' = [child EXCEPT ![k] = "none"]
             /\ request' = [request EXCEPT !.at = "oneshot"]
    <3>1. IsFiniteSet(services \ {k}) /\ Cardinality(services \ {k}) <= MaxServices
      BY FewerServices
    <3>2. request'.at = "oneshot" /\ k \in Keys
      BY <2>1, <2>4 DEF TypeInv, Requests, NoRequest
    <3>3. \A j \in Keys : child'[j] # "none" => j \in services'
      BY <2>4 DEF PoolInv, TypeInv
    <3>4. prep'.at \in {"routing", "stop"}
      BY <2>1
    <3>5. IsFiniteSet(services') /\ Cardinality(services') <= MaxServices
      BY <2>4, <3>1
    <3> QED
      BY <3>2, <3>3, <3>4, <3>5 DEF PoolInv
  <2>5. CASE /\ k \notin services /\ ~PoolFull /\ services' = services \cup {k}
             /\ child' = child /\ request' = [request EXCEPT !.at = "launch"]
    <3>1. IsFiniteSet(services \cup {k})
      BY FS_AddElement DEF PoolInv
    <3>2. Cardinality(services \cup {k}) = Cardinality(services) + 1
      BY <2>5, FS_AddElement DEF PoolInv
    <3>3. Cardinality(services) \in Nat
      BY FS_CardinalityType DEF PoolInv
    <3>4. Cardinality(services \cup {k}) <= MaxServices
      BY <2>5, <3>2, <3>3, RoutingAssumption DEF PoolFull
    <3> QED
      BY <2>1, <2>5, <3>1, <3>4 DEF PoolInv, TypeInv, Requests, NoRequest
  <2> QED
    BY <1>16, <2>2, <2>3, <2>4, <2>5 DEF ServiceFor, Ask, ServiceFails, Stopped
<1>17. CASE SpawnService
  BY <1>17 DEF SpawnService, maps, graphs, Ask, PoolInv, EnsureInv, TypeInv, Preps, Requests,
     NoRequest
<1>18. CASE ServiceReady
  BY <1>18 DEF ServiceReady, maps, graphs, Ask, PoolInv, EnsureInv, TypeInv, Preps, Requests,
     NoRequest
<1>19. CASE LaunchFails
  <2>1. request.at \in {"probe", "launch"} /\ request.key \in Keys
    BY <1>19 DEF LaunchFails, NotReady, TypeInv, Requests, NoRequest
  <2>2. /\ services' = services \ {request.key} /\ prep' = prep
        /\ child' = [child EXCEPT ![request.key] = "none"]
        /\ request' = [request EXCEPT !.at = "oneshot"]
    BY <1>19 DEF LaunchFails, Stopped, ServiceFails, Ask
  <2>3. prep.at = "routing"
    BY <2>1 DEF RequestInv
  <2>4. /\ IsFiniteSet(services \ {request.key})
        /\ Cardinality(services \ {request.key}) <= MaxServices
    BY FewerServices
  <2> QED
    BY <2>1, <2>2, <2>3, <2>4 DEF PoolInv, TypeInv, Requests, NoRequest
<1>20. CASE RequestAborted
  BY <1>20 DEF RequestAborted, maps, graphs, Stopped, PoolInv, EnsureInv, TypeInv, Preps,
     Requests, NoRequest
<1>21. CASE Answered
  BY <1>21 DEF Answered, maps, graphs, PoolInv, EnsureInv, TypeInv, Preps, Requests, NoRequest
<1>22. CASE TransportFails
  <2>1. request.at = "fetch" /\ request.key \in Keys
    BY <1>22 DEF TransportFails, TypeInv, Requests, NoRequest
  <2>2. /\ services' = services \ {request.key} /\ prep' = prep
        /\ child' = [child EXCEPT ![request.key] = "none"]
        /\ request' = [request EXCEPT !.at = "oneshot"]
    BY <1>22 DEF TransportFails, Stopped, ServiceFails, Ask
  <2>3. prep.at = "routing"
    BY <2>1 DEF RequestInv
  <2>4. /\ IsFiniteSet(services \ {request.key})
        /\ Cardinality(services \ {request.key}) <= MaxServices
    BY FewerServices
  <2> QED
    BY <2>1, <2>2, <2>3, <2>4 DEF PoolInv, TypeInv, Requests, NoRequest
<1>23. CASE RoutingEnds
  BY <1>23 DEF RoutingEnds, maps, graphs, managed, Step, PoolInv, EnsureInv, TypeInv, Preps,
     Requests, NoRequest
<1>24. CASE StopSession
  <2>1. request.at \notin {"launch", "probe", "fetch"} /\ request' = request
    BY <1>24 DEF StopSession, RequestInv
  <2>2. services' = {} /\ \A k \in Keys : child'[k] = "none"
    BY <1>24 DEF StopSession, PoolInv
  <2>3. IsFiniteSet({}) /\ Cardinality({}) = 0
    BY FS_EmptySet
  <2> QED
    BY <2>1, <2>2, <2>3, RoutingAssumption DEF PoolInv
<1>25. CASE ServiceDies
  BY <1>25 DEF ServiceDies, maps, graphs, Fault, PoolInv, EnsureInv, TypeInv, Preps, Requests,
     NoRequest
<1>26. CASE Crash
  <2>1. request'.at = "none" /\ services' = {} /\ \A k \in Keys : child'[k] = "none"
    BY <1>26 DEF Crash, NoRequest
  <2>3. IsFiniteSet({}) /\ Cardinality({}) = 0
    BY FS_EmptySet
  <2> QED
    BY <2>1, <2>3, RoutingAssumption DEF PoolInv
<1>27. CASE \/ SaveSettings \/ Publish \/ CoverageStarts \/ CoverageSetsRegions
            \/ CancelPreparation \/ Damaged \/ UNCHANGED vars
  BY <1>0, <1>27 DEF vars, SaveSettings, Publish, CoverageStarts, CoverageSetsRegions,
     CancelPreparation, Damaged, graphs, managed, maps
<1> QED
  BY <1>1, <1>2, <1>3, <1>4, <1>5, <1>6, <1>7, <1>8, <1>9, <1>10, <1>11, <1>12, <1>13, <1>14,
     <1>15, <1>16, <1>17, <1>18, <1>19, <1>20, <1>21, <1>22, <1>23, <1>24, <1>25, <1>26,
     <1>27 DEF Next

-----------------------------------------------------------------------------
(* The theorems                                                            *)

\* A program that starts has no process, no request and no graph.
LEMMA InitIInv == Init => IInv
<1> SUFFICES ASSUME Init PROVE IInv
  OBVIOUS
<1> USE RoutingAssumption
<1>1. TypeInv
  <2>1. NoPrep \in Preps
    BY DEF NoPrep, Preps, PrepSteps
  <2>2. NoGraph \in Graphs
    BY DEF NoGraph, Graphs
  <2> QED
    BY <2>1, <2>2 DEF Init, TypeInv, Days
<1>2. EnsureInv /\ BoundInv /\ RequestInv
  BY DEF Init, EnsureInv, BoundInv, RequestInv, NoPrep, NoGraph, NoRequest, AtRegion
<1>3. PoolInv
  <2>1. IsFiniteSet({}) /\ Cardinality({}) = 0
    BY FS_EmptySet
  <2> QED
    BY <2>1 DEF Init, PoolInv, NoRequest
<1> QED
  BY <1>1, <1>2, <1>3 DEF IInv

\* The invariant holds of every reachable state.
THEOREM RoutingInvariant == Spec => []IInv
<1>1. IInv /\ [Next]_vars => IInv'
  BY TypeStep, EnsureStep, BoundStep, RequestStep, PoolStep DEF IInv
<1> QED
  BY InitIInv, <1>1, PTL DEF Spec

\* Graphs are made of intact extracts of one day, and when ensureGraphs has
\* returned every region of the preparation is bound to a whole graph of its own,
\* whatever is published, damaged or interrupted meanwhile.
THEOREM GraphsAreSound == Spec => []GraphsSound
<1>1. IInv => TypeOK
  <2> SUFFICES ASSUME IInv PROVE TypeOK
    OBVIOUS
  <2>1. request.key \in Keys \cup {None}
    BY DEF IInv, TypeInv, NoRequest, Requests
  <2> QED
    BY <2>1 DEF IInv, TypeInv, EnsureInv, TypeOK
<1>2. IInv => GraphsSound
  BY <1>1 DEF IInv, EnsureInv, BoundInv, GraphsSound
<1> QED
  BY <1>2, RoutingInvariant, PTL

\* No route of a region is computed on the graph of another region or place.
THEOREM RoutesFromOwnGraph == Spec => []RoutesOnOwnGraph
<1>1. IInv => RoutesOnOwnGraph
  BY DEF IInv, RequestInv, RoutesOnOwnGraph
<1> QED
  BY <1>1, RoutingInvariant, PTL

\* No service process runs outside the pool, beyond its limit, or after the end
\* of a preparation.
THEOREM ServicesAreAccounted == Spec => []ServicesAccounted
<1>1. IInv => ServicesAccounted
  <2> SUFFICES ASSUME IInv PROVE ServicesAccounted
    OBVIOUS
  <2>1. prep.at = "idle" => request = NoRequest
    BY DEF IInv, TypeInv, RequestInv, Requests, RequestSteps
  <2> QED
    BY <2>1 DEF IInv, PoolInv, ServicesAccounted
<1> QED
  BY <1>1, RoutingInvariant, PTL
=============================================================================
