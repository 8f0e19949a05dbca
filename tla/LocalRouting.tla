----------------------------- MODULE LocalRouting -----------------------------
(***************************************************************************)
(* Local routing: map extracts (road/geofabrik-source.js), the graphs made *)
(* of them (road/bundled-graph-manager.js) and the service processes that  *)
(* answer routes from a graph (road/bundled-valhalla-provider.js), as a    *)
(* preparation of main/main.js uses them.                                  *)
(*                                                                         *)
(* A preparation asks for one route after another, so one request is in    *)
(* progress at most.  Coverage checks run beside it and set the regions    *)
(* they were given.  The probe of the native tools is taken to have        *)
(* answered: its result is kept for the life of the program.  The stage    *)
(* directory of a build is private to it and not part of the state.        *)
(*                                                                         *)
(* An operator whose name ends in _Fault is the operator after it with a   *)
(* fault seeded in it; no other definition uses it.                        *)
(***************************************************************************)
EXTENDS Integers, FiniteSets

CONSTANTS
    Extracts,     \* map files to download
    Regions,      \* records of an id and a place: an id may be moved
    Configs,      \* sets of regions that settings may hold
    Cover(_),     \* the extracts chosen for a region
    Single(_),    \* the one extract that contains a region
    MaxServices,  \* MAX_MANAGED_SERVICES
    MaxDate,      \* bound of the days an extract is published
    MaxFaults,    \* bound of crashes, damaged files, failing services
    None

ASSUME RoutingAssumption ==
    /\ MaxServices \in Nat \ {0} /\ MaxDate \in Nat \ {0} /\ MaxFaults \in Nat
    /\ \A c \in Configs : c # {} /\ c \subseteq Regions
                          /\ \A r, s \in c : r.id = s.id => r = s
    /\ \A r \in Regions : Cover(r) \subseteq Extracts /\ Cover(r) # {} /\ Single(r) \in Extracts

VARIABLES
    published,  \* the day of each extract on the server
    file,       \* the extract on disk: its day, Bad or None
    metadata,   \* the day its metadata file tells, or None
    index,      \* regions the cached index of extracts covers, or None
    graph,      \* graph directories
    binding,    \* regions/<id>.json
    saved,      \* the regions of the saved settings
    regions,    \* BundledGraphManager.regions
    coverage,   \* the regions of a coverage check in progress, or None
    prep,       \* the preparation
    aborted,    \* its signal
    session,    \* whether sessionAbort is set
    services,   \* the keys of the services map
    failures,   \* serviceFailures
    child,      \* the service process of each graph
    request,    \* the request for a route in progress
    faults

maps == <<published, file, metadata, index>>
graphs == <<graph, binding>>
managed == <<session, services, failures, child, request>>
vars == <<maps, graphs, saved, regions, coverage, prep, aborted, managed, faults>>

Bad == 0
Days == 1 .. MaxDate
Ids == {r.id : r \in Regions}
\* graphKey: the sources and the region, not their day.
Keys == UNION {{[sources |-> Cover(r), region |-> r], [sources |-> {Single(r)}, region |-> r]} :
               r \in Regions}

\* No binding is the absence of one.
ASSUME NoneAssumption == None \notin [region : Regions, key : Keys]

\* A graph directory: whole, or lacking tiles, or unreadable; days is what its
\* sources were of.
NoGraph == [state |-> "none", days |-> {}]

Readable(k) == graph[k].state \in {"whole", "untiled"}     \* #readGraph
Verified(k) == graph[k].state = "whole"                    \* with verifyTiles

BoundTo_Fault(r) == binding[r.id] # None \* the region's place is not compared
BoundTo(r) == binding[r.id] # None /\ binding[r.id].region = r
ReadBinding(r) == BoundTo(r) /\ Readable(binding[r.id].key)

NoPrep == [at |-> "idle", wanted |-> {}, pending |-> {}, region |-> None, sources |-> {},
           left |-> {}, got |-> None]
NoRequest == [at |-> "none", region |-> None, key |-> None]

Init ==
    /\ published = [e \in Extracts |-> 1]
    /\ file = [e \in Extracts |-> None] /\ metadata = file /\ index \in {None, {}}
    /\ graph = [k \in Keys |-> NoGraph] /\ binding = [i \in Ids |-> None]
    /\ saved \in Configs /\ regions = {} /\ coverage = None
    /\ prep = NoPrep /\ aborted = FALSE
    /\ session = FALSE /\ services = {} /\ failures = {}
    /\ child = [k \in Keys |-> "none"] /\ request = NoRequest
    /\ faults = 0

Fault == faults < MaxFaults /\ faults' = faults + 1
Step(at) == prep' = [prep EXCEPT !.at = at]
Key == [sources |-> prep.sources, region |-> prep.region]

-----------------------------------------------------------------------------
(* The world around: settings, the server, coverage checks                 *)

\* settings:save is refused during a preparation.
SaveSettings ==
    /\ prep.at = "idle" /\ \E c \in Configs \ {saved} : saved' = c
    /\ UNCHANGED <<maps, graphs, regions, coverage, prep, aborted, managed, faults>>

\* A new day of an extract matters from the next download on.
Publish ==
    /\ prep.at = "download"
    /\ \E e \in Extracts : published[e] < MaxDate /\ published' = [published EXCEPT ![e] = @ + 1]
    /\ UNCHANGED <<file, metadata, index, graphs, saved, regions, coverage, prep, aborted,
                   managed, faults>>

\* road:coverage takes the saved regions, loads packs, then sets the regions.
CoverageStarts ==
    /\ coverage = None /\ coverage' = saved
    /\ UNCHANGED <<maps, graphs, saved, regions, prep, aborted, managed, faults>>

CoverageSetsRegions ==
    /\ coverage # None /\ regions' = coverage /\ coverage' = None
    /\ UNCHANGED <<maps, graphs, saved, prep, aborted, managed, faults>>

-----------------------------------------------------------------------------
(* ensureGraphs                                                            *)

\* The loop goes over the regions it has just set, whatever sets them later.
EnsureGraphs ==
    /\ prep.at = "idle"
    /\ regions' = saved
    /\ LET unbound == {r \in saved : ~(BoundTo(r) /\ Verified(binding[r.id].key))}
       IN  prep' = [NoPrep EXCEPT !.at = IF unbound = {} THEN "session" ELSE "index",
                                  !.wanted = saved, !.pending = unbound]
    /\ UNCHANGED <<maps, graphs, saved, coverage, aborted, managed, faults>>

LoadCachedIndex ==
    /\ prep.at = "index"
    /\ index' = IF index = None THEN Regions ELSE index
    /\ Step("next")
    /\ UNCHANGED <<published, file, metadata, graphs, saved, regions, coverage, aborted,
                   managed, faults>>

\* A cached index that does not cover the region is fetched anew.
SelectSources ==
    /\ prep.at = "next" /\ prep.pending # {}
    /\ \E r \in prep.pending :
        /\ index' = IF r \in index THEN index ELSE Regions
        /\ prep' = [prep EXCEPT !.at = "sources", !.region = r, !.sources = Cover(r)]
    /\ UNCHANGED <<published, file, metadata, graphs, saved, regions, coverage, aborted,
                   managed, faults>>

\* A graph of these sources that is whole is kept.
BuildSources ==
    /\ prep.at = "sources"
    /\ prep' = IF Verified(Key) THEN [prep EXCEPT !.at = "bind"]
               ELSE [prep EXCEPT !.at = "download", !.left = prep.sources, !.got = None]
    /\ UNCHANGED <<maps, graphs, saved, regions, coverage, aborted, managed, faults>>

Cached_Fault(e) == metadata[e] # None /\ file[e] # None \* the hash is not compared
\* The hash of the file is compared with its metadata.
Cached(e) == metadata[e] # None /\ file[e] = metadata[e]

UseCached ==
    /\ prep.at = "download" /\ prep.got = None
    /\ \E e \in prep.left : Cached(e) /\ prep' = [prep EXCEPT !.left = @ \ {e}]
    /\ UNCHANGED <<maps, graphs, saved, regions, coverage, aborted, managed, faults>>

\* The dated file behind the latest one is fetched, checked and renamed ...
DownloadExtract ==
    /\ prep.at = "download" /\ prep.got = None
    /\ \E e \in prep.left :
        /\ ~Cached(e)
        /\ file' = [file EXCEPT ![e] = published[e]]
        /\ prep' = [prep EXCEPT !.got = e]
    /\ UNCHANGED <<published, metadata, index, graphs, saved, regions, coverage, aborted,
                   managed, faults>>

\* ... then its metadata.
SaveMetadata ==
    /\ prep.at = "download" /\ prep.got # None
    /\ metadata' = [metadata EXCEPT ![prep.got] = file[prep.got]]
    /\ prep' = [prep EXCEPT !.left = @ \ {prep.got}, !.got = None]
    /\ UNCHANGED <<published, file, index, graphs, saved, regions, coverage, aborted,
                   managed, faults>>

DaysOf(sources) == {file[e] : e \in sources}

SameDay_Fault(sources) == TRUE \* extracts are merged whatever their days
\* assertMatchingExtractDates and assertMatchingSnapshots.
SameDay(sources) == Cardinality(DaysOf(sources)) = 1

\* Extracts of different days are not merged: one that contains the region is used.
MatchDates ==
    /\ prep.at = "download" /\ prep.left = {} /\ prep.got = None
    /\ prep' = IF SameDay(prep.sources) THEN [prep EXCEPT !.at = "build"]
               ELSE [prep EXCEPT !.at = "sources", !.sources = {Single(prep.region)}]
    /\ UNCHANGED <<maps, graphs, saved, regions, coverage, aborted, managed, faults>>

\* Clip, merge and build go to a directory of their own; a graph that is in
\* place but does not verify is moved away ...
MoveInvalidAway ==
    /\ prep.at = "build" /\ ~aborted
    /\ graph' = [graph EXCEPT ![Key] = NoGraph]
    /\ Step("rename")
    /\ UNCHANGED <<maps, binding, saved, regions, coverage, aborted, managed, faults>>

\* ... before the new one takes its name.
RenameStage ==
    /\ prep.at = "rename"
    /\ graph' = [graph EXCEPT ![Key] = [state |-> "whole", days |-> DaysOf(prep.sources)]]
    /\ Step("bind")
    /\ UNCHANGED <<maps, binding, saved, regions, coverage, aborted, managed, faults>>

BoundKey_Fault == [sources |-> Cover(prep.region), region |-> prep.region] \* the first choice
BoundKey == Key

Bind ==
    /\ prep.at = "bind"
    /\ binding' = [binding EXCEPT ![prep.region.id] = [region |-> prep.region, key |-> BoundKey]]
    /\ prep' = [prep EXCEPT !.at = "next", !.pending = @ \ {prep.region}]
    /\ UNCHANGED <<maps, graph, saved, regions, coverage, aborted, managed, faults>>

GraphsEnsured ==
    /\ prep.at = "next" /\ prep.pending = {}
    /\ Step("session")
    /\ UNCHANGED <<maps, graphs, saved, regions, coverage, aborted, managed, faults>>

\* Any step fails, and none of those before the rename succeeds once aborted.
EnsureFails ==
    /\ prep.at \in {"index", "next", "sources", "download", "build", "rename", "bind"}
    /\ \/ aborted /\ UNCHANGED faults
       \/ Fault
    /\ prep' = [prep EXCEPT !.at = "stop"]
    /\ UNCHANGED <<maps, graphs, saved, regions, coverage, aborted, managed>>

-----------------------------------------------------------------------------
(* The session and its services                                            *)

StartSession ==
    /\ prep.at = "session"
    /\ IF aborted THEN Step("stop") /\ UNCHANGED <<session, failures>>
       ELSE session' = TRUE /\ failures' = {} /\ Step("routing")
    /\ UNCHANGED <<maps, graphs, saved, regions, coverage, aborted, services, child, request,
                   faults>>

\* fetchRoute: the region of this id among those set last; its binding must be
\* for the same place.  Otherwise the request is refused and nothing changes.
ResolveGraph ==
    /\ prep.at = "routing" /\ request.at = "none" /\ ~aborted
    /\ \E w \in prep.wanted, r \in regions :
        /\ w.id = r.id /\ ReadBinding(r)
        /\ request' = [at |-> "service", region |-> w, key |-> binding[r.id].key]
    /\ UNCHANGED <<maps, graphs, saved, regions, coverage, prep, aborted, session, services,
                   failures, child, faults>>

Ask(at) == request' = [request EXCEPT !.at = at]
Stopped(k) == child' = [child EXCEPT ![k] = "none"]
ServiceFails(k) == services' = services \ {k} /\ failures' = failures \cup {k}

PoolFull_Fault == Cardinality(services) > MaxServices
PoolFull == Cardinality(services) >= MaxServices

\* #serviceFor: a service that runs, or none, or a new one if there is room.
ServiceFor ==
    LET k == request.key IN
    /\ request.at = "service"
    /\ \/ (~session \/ k \in failures) /\ Ask("oneshot") /\ UNCHANGED <<services, failures, child>>
       \/ /\ session /\ k \notin failures /\ k \in services
          /\ \/ child[k] = "alive" /\ Ask("fetch") /\ UNCHANGED <<services, failures, child>>
             \/ child[k] # "alive" /\ Ask("oneshot") /\ ServiceFails(k) /\ Stopped(k)
       \/ /\ session /\ k \notin failures \cup services /\ PoolFull
          /\ failures' = failures \cup {k} /\ Ask("oneshot") /\ UNCHANGED <<services, child>>
       \/ /\ session /\ k \notin failures \cup services /\ ~PoolFull
          /\ services' = services \cup {k} /\ Ask("launch") /\ UNCHANGED <<failures, child>>
    /\ UNCHANGED <<maps, graphs, saved, regions, coverage, prep, aborted, session, faults>>

SpawnService ==
    /\ request.at = "launch" /\ ~aborted
    /\ child' = [child EXCEPT ![request.key] = "alive"]
    /\ Ask("probe")
    /\ UNCHANGED <<maps, graphs, saved, regions, coverage, prep, aborted, session, services,
                   failures, faults>>

\* An abort after the last check of the signal is not noticed.
ServiceReady ==
    /\ request.at = "probe" /\ child[request.key] = "alive"
    /\ Ask("fetch")
    /\ UNCHANGED <<maps, graphs, saved, regions, coverage, prep, aborted, session, services,
                   failures, child, faults>>

\* The process ends, or cannot be spawned, or is not ready in time.
NotReady ==
    /\ ~aborted
    /\ \/ request.at = "probe" /\ child[request.key] # "alive" /\ UNCHANGED faults
       \/ request.at = "probe" /\ child[request.key] = "alive" /\ Fault
       \/ request.at = "launch" /\ Fault

LaunchFails_Fault == \* a process that does not become ready is left alone
    /\ NotReady
    /\ UNCHANGED child /\ ServiceFails(request.key) /\ Ask("oneshot")
    /\ UNCHANGED <<maps, graphs, saved, regions, coverage, prep, aborted, session>>

\* What runs is stopped, and the routes of this graph computed without.
LaunchFails ==
    /\ NotReady
    /\ Stopped(request.key) /\ ServiceFails(request.key) /\ Ask("oneshot")
    /\ UNCHANGED <<maps, graphs, saved, regions, coverage, prep, aborted, session>>

\* The signal ends the launch, the fetch or the one-shot process; the map keeps
\* the launch that was rejected.
RequestAborted ==
    /\ request.at \in {"launch", "probe", "fetch", "oneshot"} /\ aborted
    /\ IF request.at = "probe" THEN Stopped(request.key) ELSE UNCHANGED child
    /\ request' = NoRequest
    /\ UNCHANGED <<maps, graphs, saved, regions, coverage, prep, aborted, session, services,
                   failures, faults>>

\* The answer may be followed by a request for the road classes of the route.
Answered ==
    /\ \/ request.at = "fetch" /\ child[request.key] = "alive"
       \/ request.at = "oneshot"
    /\ request' \in {NoRequest, [request EXCEPT !.at = "service"]}
    /\ UNCHANGED <<maps, graphs, saved, regions, coverage, prep, aborted, session, services,
                   failures, child, faults>>

\* The service does not answer: it is stopped, and the route computed without.
TransportFails ==
    /\ request.at = "fetch" /\ ~aborted
    /\ \/ child[request.key] # "alive" /\ UNCHANGED faults
       \/ child[request.key] = "alive" /\ Fault
    /\ Stopped(request.key) /\ ServiceFails(request.key) /\ Ask("oneshot")
    /\ UNCHANGED <<maps, graphs, saved, regions, coverage, prep, aborted, session>>

RoutingEnds ==
    /\ prep.at = "routing" /\ request.at = "none"
    /\ Step("stop")
    /\ UNCHANGED <<maps, graphs, saved, regions, coverage, aborted, managed, faults>>

\* stopSession forgets the services, then stops every one of them.
StopSession ==
    /\ prep.at = "stop"
    /\ session' = FALSE /\ services' = {} /\ failures' = {}
    /\ child' = [k \in Keys |-> IF k \in services THEN "none" ELSE child[k]]
    /\ prep' = NoPrep /\ aborted' = FALSE
    /\ UNCHANGED <<maps, graphs, saved, regions, coverage, request, faults>>

-----------------------------------------------------------------------------
(* Cancellation and faults                                                 *)

CancelPreparation ==
    /\ prep.at # "idle" /\ ~aborted /\ aborted' = TRUE
    /\ UNCHANGED <<maps, graphs, saved, regions, coverage, prep, managed, faults>>

ServiceDies ==
    /\ Fault
    /\ \E k \in Keys : child[k] = "alive" /\ child' = [child EXCEPT ![k] = "dead"]
    /\ UNCHANGED <<maps, graphs, saved, regions, coverage, prep, aborted, session, services,
                   failures, request>>

\* Files are damaged between preparations.
Damaged ==
    /\ Fault /\ prep.at = "idle"
    /\ \/ /\ \E e \in Extracts : file[e] \in Days /\ file' = [file EXCEPT ![e] = Bad]
          /\ UNCHANGED graph
       \/ /\ \E k \in Keys, how \in {"untiled", "unreadable"} :
                graph[k].state = "whole" /\ graph' = [graph EXCEPT ![k].state = how]
          /\ UNCHANGED file
    /\ UNCHANGED <<published, metadata, index, binding, saved, regions, coverage, prep, aborted,
                   managed>>

\* What the operating system does with the services is not considered.
Crash ==
    /\ Fault
    /\ regions' = {} /\ coverage' = None /\ prep' = NoPrep /\ aborted' = FALSE
    /\ session' = FALSE /\ services' = {} /\ failures' = {}
    /\ child' = [k \in Keys |-> "none"] /\ request' = NoRequest
    /\ UNCHANGED <<maps, graphs, saved>>

Next ==
    \/ SaveSettings \/ Publish \/ CoverageStarts \/ CoverageSetsRegions
    \/ EnsureGraphs \/ LoadCachedIndex \/ SelectSources \/ BuildSources
    \/ UseCached \/ DownloadExtract \/ SaveMetadata \/ MatchDates
    \/ MoveInvalidAway \/ RenameStage \/ Bind \/ GraphsEnsured \/ EnsureFails
    \/ StartSession \/ ResolveGraph \/ ServiceFor \/ SpawnService \/ ServiceReady \/ LaunchFails
    \/ RequestAborted \/ Answered \/ TransportFails \/ RoutingEnds \/ StopSession
    \/ CancelPreparation \/ ServiceDies \/ Damaged \/ Crash

Spec == Init /\ [][Next]_vars

-----------------------------------------------------------------------------
(* Properties                                                              *)

TypeOK ==
    /\ published \in [Extracts -> Days]
    /\ file \in [Extracts -> Days \cup {Bad, None}] /\ metadata \in [Extracts -> Days \cup {None}]
    /\ index = None \/ index \subseteq Regions
    /\ DOMAIN graph = Keys /\ DOMAIN binding = Ids /\ DOMAIN child = Keys
    /\ saved \in Configs /\ regions \in Configs \cup {{}} /\ coverage \in Configs \cup {None}
    /\ prep.pending \subseteq prep.wanted /\ prep.left \subseteq prep.sources
    /\ services \subseteq Keys /\ failures \subseteq Keys
    /\ request.key \in Keys \cup {None} /\ faults \in 0 .. MaxFaults

\* A graph is made of intact extracts of one day; and when ensureGraphs returns, every
\* region of the preparation is bound to a whole graph of that region, through
\* crashes at any step, damaged files, and a server that publishes meanwhile.
GraphsSound ==
    /\ TypeOK
    /\ \A k \in Keys : graph[k].state # "none" => \E day \in Days : graph[k].days = {day}
    /\ prep.at \in {"session", "routing"} =>
        \A r \in prep.wanted : BoundTo(r) /\ Verified(binding[r.id].key)

\* A route for a region is computed on a whole graph of that region and place,
\* although a coverage check of older settings may set the regions meanwhile: it
\* may be refused, but never answered from the map of another place.
RoutesOnOwnGraph ==
    request.at # "none" => request.key.region = request.region /\ Verified(request.key)

\* There are never more service processes than the pool allows, none outside it,
\* and none once the preparation is over, whenever it was cancelled or failed.
ServicesAccounted ==
    /\ {k \in Keys : child[k] # "none"} \subseteq services
    /\ Cardinality(services) <= MaxServices
    /\ prep.at = "idle" => services = {} /\ request = NoRequest
=============================================================================
