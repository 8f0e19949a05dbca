-------------------------- MODULE RoutePreparation --------------------------
(***************************************************************************)
(* Preparing a catalogue of routes: RoutePreparationCoordinator.prepare of *)
(* road/route-preparation-coordinator.js, with the two things it leaves on *)
(* disk, the route packs and the job state from which a later action goes  *)
(* on.  An action may be canceled, may fail, and the process may crash, at *)
(* every await.                                                            *)
(*                                                                         *)
(* A round is a set of candidates the planner proposes; which of them it   *)
(* proposes depends on the routes already saved.  A candidate yields up to *)
(* MaxRoutes routes; only their number matters.  The job is a record and   *)
(* the pieces of prepare() between two awaits are operators on it.  All    *)
(* packs have one provider and one graph, the latest they were built on;   *)
(* those of an earlier graph stay on disk and are never used again.        *)
(*                                                                         *)
(* An operator whose name ends in _Fault is the operator after it with a   *)
(* fault seeded in it; no other definition uses it.                        *)
(***************************************************************************)
EXTENDS Integers, FiniteSets, Functions

CONSTANTS
    Regions,
    MaxRounds,          \* MAX_LOCAL_PLANNING_ROUNDS
    MaxRoutes,          \* MAX_ROUTES_PER_CANDIDATE
    BatchSize,          \* LOCAL_BATCH_SIZE
    RejectedBatch,      \* REJECTED_STATE_BATCH_SIZE
    MaxCalls,           \* LOCAL_RETRY_DELAYS_MS.length + 1
    AttemptsNoGain,     \* MAX_LOCAL_ATTEMPTS_WITHOUT_GAIN
    AttemptLimit,       \* LOCAL_ATTEMPT_LIMIT
    RoundsNoGain,       \* MAX_CONSECUTIVE_NO_GAIN_ROUNDS
    EmptyRounds,        \* MAX_EMPTY_PLANNING_ROUNDS
    MinUsable,          \* MINIMUM_USABLE_ROUTE_COUNT
    Target,             \* targetRouteCount of a local preparation
    Capacity,           \* routes the fleet needs
    Budgets,            \* values of maxRequests
    MaxGraph            \* bound: times the road graph is built

ASSUME CountsAssumption ==
    /\ \A n \in {MaxRounds, MaxRoutes, RejectedBatch, MaxCalls, AttemptsNoGain,
                 RoundsNoGain, EmptyRounds, MinUsable, Capacity, MaxGraph} : n \in Nat \ {0}
    /\ AttemptLimit \in Nat /\ AttemptLimit >= AttemptsNoGain + MaxCalls - 1
    /\ BatchSize \in Nat /\ BatchSize >= MaxRoutes
    /\ Target \in Nat /\ Target > MinUsable
    /\ Budgets \subseteq Nat

ASSUME RegionsAssumption == IsFiniteSet(Regions)

Candidates == (0 .. MaxRounds - 1) \X Regions
RoundOf(c) == c[1]
RegionOf(c) == c[2]
None == <<>>
Public == 0                     \* the scope of the public provider

VARIABLES
    local,      \* bulkAllowed: the installation has a local router
    graph,      \* the graph the local router serves
    packs,      \* the selected route packs
    journal,    \* the job state file
    job         \* the action in progress

vars == <<local, graph, packs, journal, job>>

Scope == Public .. MaxGraph
Source == IF local THEN graph ELSE Public \* what would be routed on now
Catalogue == [Candidates -> 0 .. MaxRoutes]
NoRoutes == [c \in Candidates |-> 0]
Count(k) == FoldFunction(+, 0, k)
In(k, r) == {c \in Candidates : RegionOf(c) = r /\ k[c] > 0}

Packs == [scope : Scope, kept : Catalogue]

\* The job states that #loadJobState takes, and drops any other: it also wants
\* without to be at most AttemptLimit, which matters to a local router only
\* (the public one would have to fail thousands of times).
Journal == [scope : Scope, attempted : SUBSET Candidates, round : 0 .. MaxRounds,
            noGain : 0 .. RoundsNoGain, without : Nat, gained : BOOLEAN]
Fresh(scope) == [scope |-> scope, attempted |-> {}, round |-> 0,
                 noGain |-> 0, without |-> 0, gained |-> FALSE]

Status == {"incomplete", "ready", "usable", "search-stalled", "candidates-exhausted",
           "canceled", "request-limit", "blocked", "graph-changed", "geometry-limit"}

Job == [at : {"idle", "loop", "fetch", "trace", "flush", "journal", "advance",
              "reject", "close", "done"},
        after : {"request", "advance", "evaluate", "finish"}, \* what flush returns to
        status : Status, aborted : BOOLEAN,
        scope : Scope, budget : Nat, milestone : BOOLEAN,
        kept : Catalogue,               \* routes in memory, saved ones included
        changed : BOOLEAN,              \* flush has written a pack
        covered : BOOLEAN, stale : BOOLEAN, \* coverage, coverageStale
        attempted : SUBSET Candidates,
        accepted : SUBSET Candidates,   \* pendingAcceptedDigests
        unsaved : Nat,                  \* pendingAcceptedRouteCount
        rejected : Nat,                 \* pendingRejectedCount
        round : Nat, ahead : SUBSET Candidates, empty : Nat,
        noGain : 0 .. RoundsNoGain, without : Nat, gained : BOOLEAN,
        tried : BOOLEAN,                \* hadAttempts
        candidate : Candidates \cup {None}, call : Nat, attempts : Nat,
        routedOn : Scope]               \* the graph that answered

Idle == [at |-> "idle", after |-> "finish", status |-> "incomplete", aborted |-> FALSE,
         scope |-> Public, budget |-> 0, milestone |-> FALSE,
         kept |-> NoRoutes, changed |-> FALSE, covered |-> FALSE, stale |-> FALSE,
         attempted |-> {}, accepted |-> {}, unsaved |-> 0, rejected |-> 0,
         round |-> 0, ahead |-> {}, empty |-> 0,
         noGain |-> 0, without |-> 0, gained |-> FALSE, tried |-> FALSE,
         candidate |-> None, call |-> 0, attempts |-> 0, routedOn |-> Public]

Busy == job.at \notin {"idle", "done"}
Saved == IF packs.scope = job.scope THEN packs.kept ELSE NoRoutes

Init ==
    /\ local \in BOOLEAN
    /\ graph = 1
    /\ packs = [scope |-> Public, kept |-> NoRoutes]
    /\ journal = Fresh(Public)
    /\ job = Idle

-----------------------------------------------------------------------------
(* What the routes are good for                                            *)

Served(k) == \A r \in Regions : In(k, r) # {}

\* evaluateCoverage: every region is served and the fleet finds its places.
Supports(k) == Served(k) /\ Count(k) >= Capacity

TargetReady(j) == local /\ Count(j.kept) >= Target
Complete(j) == IF local THEN TargetReady(j) ELSE j.covered
UsableNow(j) == Count(Saved) >= MinUsable /\ Served(Saved) /\ j.covered

Evaluated(j) ==
    IF Complete(j) THEN "ready"
    ELSE IF j.milestone /\ UsableNow(j) THEN "usable" ELSE "incomplete"

-----------------------------------------------------------------------------
(* The pieces of prepare() between awaits                                  *)

\* What is set anew before it is read again is forgotten.
Settled(j) == [j EXCEPT !.candidate = None, !.call = 0, !.routedOn = Public]

Flush(j, after) == [Settled(j) EXCEPT !.at = "flush", !.after = after]
Finish(j, status) ==
    Flush([j EXCEPT !.status = status, !.ahead = {}, !.empty = 0, !.tried = FALSE], "finish")

\* loadRound: what the planner proposes for the round.
LoadRound(j, proposed) ==
    [j EXCEPT !.ahead = proposed, !.tried = j.without > 0 \/ j.gained]
Proposed(round) == SUBSET {c \in Candidates : RoundOf(c) = round}
RoundLimit == IF local THEN MaxRounds ELSE 1

\* The state of the job as persistAttempted writes it.
Persisted(j) ==
    [scope |-> j.scope, attempted |-> j.attempted, round |-> j.round,
     noGain |-> j.noGain, without |-> j.without, gained |-> j.gained]

Counted(j, n) == \* n requests of the budget have been used
    [j EXCEPT !.attempts = @ + n, !.without = @ + n, !.tried = @ \/ n > 0]

Reject(j) == \* saveAttempted
    [Settled(j) EXCEPT
              !.attempted = @ \cup {j.candidate}, !.rejected = @ + 1,
              !.at = IF j.rejected + 1 >= RejectedBatch THEN "reject" ELSE "loop"]

NextCandidate(j) == CHOOSE c \in j.ahead \ j.attempted : TRUE
Ask(j) ==
    LET c == NextCandidate(j)
    IN  [j EXCEPT !.candidate = c, !.ahead = @ \ {c}, !.call = 1, !.at = "fetch"]

\* coverage = assess(), once the routes in question are saved.
Assessed(j) == [j EXCEPT !.covered = Supports(Saved), !.stale = FALSE]

Evaluate(j) ==
    LET a == IF j.milestone /\ Count(Saved) >= MinUsable /\ j.stale
             THEN Assessed(j) ELSE j
    IN  [Settled(a) EXCEPT !.status = Evaluated(a), !.at = "loop"]

\* advanceRound up to its persistAttempted.
Advance_Fault(j) == \* a round without a candidate is planned again
    [j EXCEPT
        !.noGain = IF ~j.tried THEN @ ELSE IF j.gained THEN 0
                   ELSE IF @ = RoundsNoGain THEN @ ELSE @ + 1,
        !.gained = FALSE, !.without = 0, !.round = IF j.tried THEN @ + 1 ELSE @,
        !.ahead = {}, !.at = "advance"]

Advance(j) ==
    [j EXCEPT
        !.empty = IF j.tried THEN 0 ELSE @ + 1,
        !.noGain = IF ~j.tried THEN @ ELSE IF j.gained THEN 0
                   ELSE IF @ = RoundsNoGain THEN @ ELSE @ + 1,
        !.gained = FALSE, !.without = 0, !.round = @ + 1, !.ahead = {},
        !.at = "advance"]

\* The end of prepare() after its flush: the status is settled when it returns.
Close_Fault(j) == [j EXCEPT !.at = "close"] \* coverage is not assessed again

Close(j) ==
    LET a == IF j.stale THEN Assessed(j) ELSE j
    IN  [a EXCEPT !.at = "close"]

AfterFlush(flushed) ==
    LET j == [flushed EXCEPT !.changed = FALSE, !.after = "finish"]
    IN  CASE flushed.after = "request" -> Ask(j)
          [] flushed.after = "advance" -> Advance(j)
          [] flushed.after = "evaluate" -> Evaluate(j)
          [] OTHER -> Close(j)

-----------------------------------------------------------------------------
(* Starting an action                                                      *)

Begin(budget, milestone, proposed) ==
    LET known == IF journal.scope = Source THEN journal ELSE Fresh(Source)
        kept == IF packs.scope = Source THEN packs.kept ELSE NoRoutes
        new == [Idle EXCEPT
                  !.scope = Source, !.budget = budget, !.milestone = milestone,
                  !.kept = kept, !.covered = Supports(kept),
                  !.attempted = known.attempted, !.round = known.round,
                  !.noGain = known.noGain, !.without = known.without,
                  !.gained = known.gained]
        usable == milestone /\ Count(kept) >= MinUsable /\ Supports(kept)
        status == CASE Complete(new) -> "ready"
                    [] ~Complete(new) /\ usable -> "usable"
                    [] OTHER -> IF local /\ new.noGain >= RoundsNoGain
                                THEN "search-stalled" ELSE "incomplete"
    IN  /\ ~Busy
        /\ milestone => local
        /\ IF status # "incomplete" \/ budget = 0
           THEN proposed = {} /\ job' = Finish(new, status)
           ELSE IF new.round >= RoundLimit
           THEN proposed = {} /\ job' = Finish(new, "candidates-exhausted")
           ELSE proposed \in Proposed(new.round)
                /\ job' = LoadRound([new EXCEPT !.at = "loop"], proposed)
        /\ UNCHANGED <<local, graph, packs, journal>>

-----------------------------------------------------------------------------
(* The loop over the candidates                                            *)

More(j) == j.attempts < j.budget /\ j.status = "incomplete" /\ ~Complete(j)
Stalled_Fault(j) == FALSE \* a round is never given up
Stalled(j) == local /\ j.without >= AttemptsNoGain
Step(j) == job' = j /\ UNCHANGED <<local, graph, packs, journal>>

LoopEnds ==
    /\ job.at = "loop" /\ ~More(job)
    /\ Step(IF job.status = "incomplete" /\ Stalled(job) THEN Flush(job, "advance")
            ELSE Finish(job, job.status))

LoopCanceled ==
    /\ job.at = "loop" /\ More(job) /\ job.aborted
    /\ Step(Finish(job, "canceled"))

RoundEnds_Fault == \* moves on before the accepted routes are saved
    /\ job.at = "loop" /\ More(job) /\ ~job.aborted
    /\ Stalled(job) \/ job.ahead \subseteq job.attempted
    /\ Step(IF local THEN Advance(job) ELSE Finish(job, "candidates-exhausted"))

\* The round is given up or has no candidate left.
RoundEnds ==
    /\ job.at = "loop" /\ More(job) /\ ~job.aborted
    /\ Stalled(job) \/ job.ahead \subseteq job.attempted
    /\ Step(IF local THEN Flush(job, "advance") ELSE Finish(job, "candidates-exhausted"))

NeedsFlush_Fault(j) == j.unsaved >= BatchSize \* forgets what a candidate may add
NeedsFlush(j) == j.unsaved > BatchSize - MaxRoutes

\* aged: the batch is older than LOCAL_BATCH_MAX_AGE_MS.
Request(aged) ==
    /\ job.at = "loop" /\ More(job) /\ ~job.aborted
    /\ ~Stalled(job) /\ ~(job.ahead \subseteq job.attempted)
    /\ aged => local /\ job.unsaved > 0
    /\ Step(IF local /\ job.unsaved > 0 /\ (aged \/ NeedsFlush(job))
            THEN Flush(job, "request") ELSE Ask(job))

-----------------------------------------------------------------------------
(* The answers of the provider                                             *)

Canceled ==
    /\ job.at \in {"fetch", "trace"} /\ job.aborted
    /\ Step(Finish(job, "canceled"))

FetchRoute ==
    /\ job.at = "fetch"
    /\ Step([Counted(job, 1) EXCEPT !.at = "trace", !.routedOn = Source])

\* A candidate the provider refuses, an answer that fails the checks, or one
\* with nothing new in it.
FetchRejected ==
    /\ job.at = "fetch"
    /\ Step(Reject(Counted(job, 1)))

TraceRejected ==
    /\ job.at = "trace"
    /\ Step(Reject(job))

\* The request budget or the provider forbids to go on; requests that were
\* not made are not counted.
FetchForbidden ==
    /\ job.at = "fetch"
    /\ \E n \in IF local THEN {1} ELSE {0, 1} : Step(Finish(Counted(job, n), "blocked"))

FetchFails ==
    /\ job.at = "fetch"
    /\ LET j == Counted(job, 1)
       IN  Step(IF ~local \/ job.call >= MaxCalls THEN Finish(j, "blocked")
                ELSE IF j.attempts >= j.budget THEN Finish(j, "request-limit")
                ELSE [j EXCEPT !.call = @ + 1])

\* The router fails while it classifies the roads or reports its health.
TraceFails ==
    /\ job.at = "trace" /\ local
    /\ Step(Finish(job, "blocked"))

SameGraph_Fault(j) == TRUE
SameGraph(j) == graph = j.scope

GraphChanged ==
    /\ job.at = "trace" /\ local /\ ~SameGraph(job)
    /\ Step(Finish(job, "graph-changed"))

With(j, n) == [j EXCEPT !.kept[j.candidate] = @ + n]
Room(j) == MaxRoutes - j.kept[j.candidate]

\* n new routes, and then one that exceeds the limit on points.
Overfull(n) ==
    /\ job.at = "trace" /\ (local => SameGraph(job))
    /\ n < Room(job)
    /\ Step(Finish(With(job, n), "geometry-limit"))

Accept(n, aged) ==
    /\ job.at = "trace" /\ (local => SameGraph(job))
    /\ n > 0 /\ n <= Room(job)
    /\ LET j == [With(job, n) EXCEPT
                    !.without = 0, !.noGain = 0, !.gained = TRUE,
                    !.accepted = @ \cup {job.candidate}, !.unsaved = @ + n]
       IN  Step(IF \/ ~local \/ aged \/ j.unsaved >= BatchSize \/ TargetReady(j)
                   \/ j.milestone /\ Count(j.kept) >= MinUsable /\ Count(Saved) < MinUsable
                THEN Flush(j, "evaluate") ELSE Evaluate(j))

-----------------------------------------------------------------------------
(* Saving                                                                  *)

Dirty(j) == {r \in Regions : \E c \in Candidates : RegionOf(c) = r /\ j.kept[c] # Saved[c]}

WritePack(r) ==
    /\ job.at = "flush" /\ r \in Dirty(job)
    /\ packs' = [scope |-> job.scope,
                 kept |-> [c \in Candidates |-> IF RegionOf(c) = r THEN job.kept[c] ELSE Saved[c]]]
    /\ job' = [job EXCEPT !.changed = TRUE]
    /\ UNCHANGED <<local, graph, journal>>

Flushed ==
    /\ job.at = "flush" /\ Dirty(job) = {}
    /\ Step(IF job.changed
            THEN [job EXCEPT !.attempted = @ \cup job.accepted, !.accepted = {}, !.at = "journal"]
            ELSE AfterFlush(job))

SaveFlushed ==
    /\ job.at = "journal"
    /\ journal' = Persisted(job)
    /\ LET j == [job EXCEPT !.rejected = 0, !.unsaved = 0]
       IN  job' = AfterFlush(IF local THEN [j EXCEPT !.stale = TRUE] ELSE Assessed(j))
    /\ UNCHANGED <<local, graph, packs>>

SaveRejected ==
    /\ job.at = "reject"
    /\ journal' = Persisted(job)
    /\ job' = [job EXCEPT !.rejected = 0, !.at = "loop"]
    /\ UNCHANGED <<local, graph, packs>>

NextRound(proposed) ==
    /\ job.at = "advance"
    /\ journal' = Persisted(job)
    /\ LET j == [job EXCEPT !.rejected = 0, !.at = "loop"]
           over == j.round >= MaxRounds \/ j.empty >= EmptyRounds
           status == IF over THEN "candidates-exhausted"
                     ELSE IF j.noGain >= RoundsNoGain THEN "search-stalled" ELSE j.status
       IN  IF status = "incomplete" /\ j.attempts < j.budget
           THEN proposed \in Proposed(j.round) /\ job' = LoadRound(j, proposed)
           ELSE proposed = {} /\ job' = [j EXCEPT !.status = status]
    /\ UNCHANGED <<local, graph, packs>>

Result(j) ==
    LET s == IF j.status = "incomplete" /\ j.budget > 0 /\ j.attempts >= j.budget
             THEN "request-limit" ELSE j.status
    IN  IF TargetReady(j) THEN "ready"
        ELSE IF j.milestone /\ s \in {"incomplete", "request-limit"} /\ UsableNow(j)
        THEN "usable" ELSE s

\* prepare() returns; of the job only its result is left.
Return ==
    /\ job.at = "close"
    /\ journal' = IF job.rejected > 0 THEN Persisted(job) ELSE journal
    /\ job' = [Idle EXCEPT !.at = "done", !.status = Result(job), !.scope = job.scope,
                           !.milestone = job.milestone]
    /\ UNCHANGED <<local, graph, packs>>

-----------------------------------------------------------------------------
(* What may happen at any time                                             *)

Cancel ==
    /\ Busy /\ ~job.aborted
    /\ Step([job EXCEPT !.aborted = TRUE])

\* The process ends, or a file cannot be written and prepare() throws.
Crash ==
    /\ Busy
    /\ Step(Idle)

\* The local router is restarted on a new graph.
Rebuild ==
    /\ local /\ graph < MaxGraph
    /\ graph' = graph + 1
    /\ UNCHANGED <<local, packs, journal, job>>

Work ==
    \/ LoopEnds
    \/ LoopCanceled
    \/ RoundEnds
    \/ \E aged \in BOOLEAN : Request(aged)
    \/ Canceled
    \/ FetchRoute
    \/ FetchRejected
    \/ FetchForbidden
    \/ FetchFails
    \/ TraceRejected
    \/ TraceFails
    \/ GraphChanged
    \/ \E n \in 0 .. MaxRoutes : Overfull(n)
    \/ \E n \in 1 .. MaxRoutes, aged \in BOOLEAN : Accept(n, aged)
    \/ \E r \in Regions : WritePack(r)
    \/ Flushed
    \/ SaveFlushed
    \/ SaveRejected
    \/ \E proposed \in SUBSET Candidates : NextRound(proposed)
    \/ Return

Next ==
    \/ \E budget \in Budgets, milestone \in BOOLEAN, proposed \in SUBSET Candidates :
        Begin(budget, milestone, proposed)
    \/ Work
    \/ Cancel
    \/ Crash
    \/ Rebuild

Spec == Init /\ [][Next]_vars

\* The provider answers (its requests time out) and writes return.
FairSpec == Spec /\ WF_vars(Work)

-----------------------------------------------------------------------------
(* Properties                                                              *)

TypeOK ==
    /\ local \in BOOLEAN /\ graph \in 1 .. MaxGraph
    /\ packs \in Packs /\ journal \in Journal /\ job \in Job
    /\ local => journal.without <= AttemptLimit

\* A crash at this instant costs work but no route: a candidate whose routes
\* are not all in a pack is neither on the list of those a later action skips
\* nor in a round it has left behind.
ResumeSafe ==
    Busy /\ journal.scope = job.scope =>
        \A c \in Candidates : job.kept[c] > Saved[c] =>
            c \notin journal.attempted /\ RoundOf(c) >= journal.round

\* docs/ROAD-MODE.md, "after at most 100 new routes": no more than a batch of
\* routes is ever in memory only, whatever a candidate yields.  And an action
\* makes at most maxRequests requests, retries included.
WithinLimits ==
    Busy => /\ Count(job.kept) <= Count(Saved) + BatchSize
            /\ job.attempts <= job.budget

\* What prepare() reports is true of the packs on disk: a catalogue that is
\* ready or usable is so after a restart, and one that is usable is not
\* reported as anything less when the budget has run out.
ResultHonest ==
    LET enough == Count(Saved) >= MinUsable /\ Supports(Saved) IN
    job.at = "done" =>
        /\ job.status = "ready" =>
            IF local THEN Count(Saved) >= Target ELSE Supports(Saved)
        /\ job.status = "usable" => enough
        /\ job.status = "request-limit" /\ job.milestone => ~enough

\* Routes of two graphs are never mixed: a route that enters the catalogue was
\* routed on the graph its pack will name, although the router may be restarted
\* on another one before, between and after the requests for it.
OneGraph ==
    [][local /\ job'.kept # job.kept /\ Busy /\ Busy' => job.routedOn = job.scope]_vars

\* Every action comes to an end, whatever the provider answers.
Terminates == Busy ~> ~Busy
=============================================================================
