---------------------------- MODULE WorkflowEngine ----------------------------
(***************************************************************************)
(* Workflow executions (server/modules/workflows/workflow-engine.ts).      *)
(*                                                                         *)
(* Commands of members and results of agent runs change an execution in    *)
(* one transaction each; they record what should be launched or cancelled  *)
(* as rows (launch intents, the cancellation outbox).  One scheduler tick  *)
(* at a time (scheduler.ts) carries the rows out by calling the execution  *)
(* authority, and everything else may happen at each of its awaits.  The   *)
(* server may crash at any point of a tick; the tick is not resumed, the   *)
(* next one starts from the rows.                                          *)
(*                                                                         *)
(* A step occurrence is the pair <<node, n>> for the id `node-n': the      *)
(* table's primary key, whatever the execution.  Commands carry the        *)
(* revision their sender read and are refused when it is not current, so   *)
(* the ones modelled here are those sent with the current revision.        *)
(* Receipts replay a stored answer and change nothing.                     *)
(***************************************************************************)
EXTENDS WorkflowDefinition

CONSTANTS
    Executions,         \* ids of workflow executions
    Definitions,        \* the published definitions they may start from
    MaxRuns,            \* occurrences of one node that are told apart
    MaxRecord,          \* revision up to which a coordination record moves
    MaxCrashes          \* crashes of the server

ASSUME DefinitionsAssumption ==
    IsFiniteSet(Definitions) /\ \A d \in Definitions : WellFormed(d) /\ ValidWorkflow(d)
ASSUME ExecutionsAssumption == None \notin Executions
ASSUME BoundsAssumption ==
    /\ MaxRuns \in Nat /\ \A d \in Definitions : d.maximumRunCount <= MaxRuns
    /\ MaxRecord \in Nat \ {0} /\ MaxCrashes \in Nat

VARIABLES
    def,                \* execution -> the definition of its snapshot
    state, reason,      \* workflow_executions: state, terminal_reason,
    node, pending,      \*   current_node_key, pending_target_key,
    coordination,       \*   coordination_revision
    joined,             \* workflow_join_states: execution -> join -> state
    cycles,             \* workflow_cycle_counters: execution -> signature -> completed
    decided,            \* workflow_decisions: execution -> decided nodes
    owner, step,        \* workflow_step_occurrences: execution and state
    intents,            \* workflow_launch_intents in the order of their rowid
    dispatched,         \* intents with dispatched_at, occurrences with agent_run_id
    invalidated,        \* intents with invalidated_reason
    outbox, requested,  \* workflow_cancellation_outbox; rows with requested_at
    expired,            \* executions whose deadline the clock has passed
    phase, current,     \* the tick: what it awaits, and for which occurrence
    loaded,             \* the tick: intents it loaded and has not looked at
    cancels,            \* the tick: cancellations it loaded and has not tried
    seen,               \* the tick: the execution has not moved since it was read
    run,                \* execution authority: the run of an occurrence's key
    record, launchedAt, \*   record revision now, and as a launch answered it
    crashes

executionVars == <<def, state, reason, node, pending, joined, cycles, decided, coordination>>
stepVars == <<owner, step, intents, dispatched, invalidated, outbox, requested>>
tickVars == <<phase, current, loaded, cancels>>
authorityVars == <<run, record, launchedAt>>
vars == <<executionVars, stepVars, tickVars, seen, authorityVars, expired, crashes>>

NoDefinition == [kind |-> <<>>]
AllNodes == UNION {NodesOf(d) : d \in Definitions}
RunNodes == UNION {OfKind(d, "AGENT_RUN") : d \in Definitions}
Steps == RunNodes \X (1..MaxRuns)
NoStep == <<>>
ResultKeys == SystemResults \cup UNION {UNION Range(d.results) : d \in Definitions}

Terminal == Outcomes
Open == {"ACTIVE", "WAITING", "PAUSED"}
States == {"NEW"} \cup Open \cup Terminal
StepStates == {"NONE", "LAUNCH_INTENT", "RUNNING", "TERMINAL", "CANCELLED"}
Phases == {"IDLE", "INTENTS", "RESOLVING", "LAUNCHING", "LAUNCHED", "CANCELS", "MARKING"}

StepsOf(x) == {o \in Steps : owner[o] = x}
RunningSteps(x) == {o \in StepsOf(x) : step[o] = "RUNNING"}
UndispatchedIn(x) == {o \in StepsOf(x) : o \in Range(intents) \ dispatched}

TypeOK ==
    /\ def \in [Executions -> Definitions \cup {NoDefinition}]
    /\ state \in [Executions -> States]
    /\ node \in [Executions -> AllNodes \cup {None}]
    /\ pending \in [Executions -> AllNodes \cup {None}]
    /\ \A x \in Executions : state[x] # "NEW" =>
        def[x] \in Definitions /\ node[x] \in NodesOf(def[x])
    /\ expired \subseteq {x \in Executions : state[x] # "NEW"}
    /\ owner \in [Steps -> Executions \cup {None}]
    /\ step \in [Steps -> StepStates]
    /\ \A o \in Steps : owner[o] = None <=> step[o] = "NONE"
    /\ Range(intents) = {o \in Steps : owner[o] # None}
    /\ invalidated \cup dispatched \subseteq Range(intents)
    /\ requested \subseteq outbox /\ outbox \subseteq dispatched
    /\ phase \in Phases /\ current \in Steps \cup {NoStep}
    /\ run \in [Steps -> {"NONE", "LIVE", "ENDED"}]
    /\ \A o \in dispatched : run[o] # "NONE"

Init ==
    /\ def = [x \in Executions |-> NoDefinition]
    /\ state = [x \in Executions |-> "NEW"] /\ reason = [x \in Executions |-> None]
    /\ node = [x \in Executions |-> None] /\ pending = [x \in Executions |-> None]
    /\ joined = [x \in Executions |-> <<>>] /\ cycles = [x \in Executions |-> <<>>]
    /\ decided = [x \in Executions |-> {}] /\ coordination = [x \in Executions |-> 0]
    /\ owner = [o \in Steps |-> None] /\ step = [o \in Steps |-> "NONE"]
    /\ intents = <<>> /\ dispatched = {} /\ invalidated = {}
    /\ outbox = {} /\ requested = {} /\ expired = {}
    /\ phase = "IDLE" /\ current = NoStep /\ loaded = {} /\ cancels = {} /\ seen = TRUE
    /\ run = [o \in Steps |-> "NONE"] /\ launchedAt = [o \in Steps |-> 0]
    /\ record = [x \in Executions |-> 1] /\ crashes = 0

-----------------------------------------------------------------------------
(* Fragments of the actions.                                               *)

\* Execution x moved: a tick that has read its row will notice.
Touch(x) ==
    seen' = IF phase = "RESOLVING" /\ owner[current] = x THEN FALSE ELSE seen

\* updateExecution, for what the row says besides its node and pending target.
Becomes(x, st, why) ==
    /\ state' = [state EXCEPT ![x] = st]
    /\ reason' = [reason EXCEPT ![x] = why]

\* Every undispatched intent of x is invalidated and a cancellation queued for
\* each of its running children; inv, out and steps are the rows so far.
StopSteps(x, inv, out, steps) ==
    /\ invalidated' = inv \cup UndispatchedIn(x)
    /\ outbox' = out \cup {o \in StepsOf(x) : steps[o] = "RUNNING"}

\* The agent runs that entering node t schedules, in order.
Scheduled(d, t) ==
    CASE d.kind[t] = "AGENT_RUN" -> <<t>>
      [] d.kind[t] = "PARALLEL_SPLIT" -> d.branches[t]
      [] OTHER -> <<>>
NextStep(x, n) == <<n, Cardinality({o \in StepsOf(x) : o[1] = n}) + 1>>

\* Execution x enters node t: applyTarget.  It throws, and its transaction is
\* rolled back, at the run bound and when an occurrence's id is taken.
Enter(x, d, t, steps) ==
    LET nodes == Scheduled(d, t)
        new == [i \in 1..Len(nodes) |-> NextStep(x, nodes[i])]
    IN  /\ Cardinality(StepsOf(x)) + Len(new) <= d.maximumRunCount
        /\ \A o \in Range(new) : owner[o] = None
        /\ intents' = intents \o new
        /\ owner' = [o \in Steps |-> IF o \in Range(new) THEN x ELSE owner[o]]
        /\ step' = [o \in Steps |-> IF o \in Range(new) THEN "LAUNCH_INTENT" ELSE steps[o]]
        /\ node' = [node EXCEPT ![x] = t]
        /\ CASE d.kind[t] = "TERMINAL" -> Becomes(x, d.outcome[t], "OUTCOME")
             [] d.kind[t] \in {"AGENT_RUN", "PARALLEL_SPLIT"} -> Becomes(x, "ACTIVE", None)
             [] d.kind[t] = "HUMAN_DECISION" -> Becomes(x, "WAITING", None)
             [] OTHER -> Becomes(x, "WAITING", "TRANSITION_REQUIRED")

\* recordCycleTraversals: the counters after passing edges, and whether one of
\* the cycles they close is beyond its bound.
Counted(d, counts, edges) ==
    [c \in DOMAIN d.cycleBounds |-> counts[c] + (IF ClosingEdge(c) \in edges THEN 1 ELSE 0)]
Exceeds(d, counts, edges) ==
    \E c \in DOMAIN d.cycleBounds :
        ClosingEdge(c) \in edges /\ Counted(d, counts, edges)[c] > d.cycleBounds[c]

-----------------------------------------------------------------------------
(* Commands of members.                                                    *)

\* The rows of an execution that starts with node first, once what it was
\* launched from is found unchanged.
StoreExecution(x, d, first) ==
    LET none == [c \in DOMAIN d.cycleBounds |-> 0]
    IN  /\ def' = [def EXCEPT ![x] = d]
        /\ coordination' = [coordination EXCEPT ![x] = record[x]]
        /\ joined' = [joined EXCEPT ![x] = [j \in OfKind(d, "JOIN") |-> JoinStart]]
        /\ cycles' = [cycles EXCEPT ![x] = Counted(d, none, {<<StartOf(d), first>>})]

\* start.  A cycle's first traversal is within its bound, which is positive.
Start(x, d) ==
    LET first == TargetOf(d, StartOf(d), "STARTED")
    IN  /\ state[x] = "NEW"
        /\ StoreExecution(x, d, first)
        /\ Enter(x, d, first, step)
        /\ UNCHANGED <<pending, decided, dispatched, invalidated, outbox, requested,
                       tickVars, seen, authorityVars, expired, crashes>>

Pause(x) ==
    /\ state[x] \in Open
    /\ Becomes(x, "PAUSED", None) /\ Touch(x)
    /\ UNCHANGED <<def, node, pending, joined, cycles, decided, coordination, stepVars,
                   tickVars, authorityVars, expired, crashes>>

\* The target that was selected while x was paused is entered.
EnterPending(x) ==
    /\ Enter(x, def[x], pending[x], step)
    /\ pending' = [pending EXCEPT ![x] = None]

\* resume: past the deadline it ends the execution; otherwise a target that was
\* selected while it was paused is entered now.
Resume(x) ==
    /\ state[x] \in Open /\ Touch(x)
    /\ \/ /\ x \in expired
          /\ StopSteps(x, invalidated, outbox, step)
          /\ Becomes(x, "FAILED", "DEADLINE")
          /\ UNCHANGED <<node, pending, owner, step, intents>>
       \/ /\ x \notin expired /\ pending[x] = None
          /\ Becomes(x, IF def[x].kind[node[x]] = "HUMAN_DECISION" THEN "WAITING" ELSE "ACTIVE",
                     None)
          /\ UNCHANGED <<node, pending, owner, step, intents, invalidated, outbox>>
       \/ /\ x \notin expired /\ pending[x] # None
          /\ EnterPending(x)
          /\ UNCHANGED <<invalidated, outbox>>
    /\ UNCHANGED <<def, joined, cycles, decided, coordination, dispatched, requested,
                   tickVars, authorityVars, expired, crashes>>

Cancel(x) ==
    /\ state[x] \in Open
    /\ StopSteps(x, invalidated, outbox, step)
    /\ Becomes(x, "CANCELLED", "CANCELLED") /\ Touch(x)
    /\ UNCHANGED <<def, node, pending, joined, cycles, decided, coordination, owner, step,
                   intents, dispatched, requested, tickVars, authorityVars, expired, crashes>>

\* applyRevocation, of an authority that execution x depends on.
Revoke(x) ==
    /\ state[x] \in Open
    /\ StopSteps(x, invalidated, outbox, step)
    /\ Becomes(x, "WAITING", "REVOKED") /\ Touch(x)
    /\ UNCHANGED <<def, node, pending, joined, cycles, decided, coordination, owner, step,
                   intents, dispatched, requested, tickVars, authorityVars, expired, crashes>>

\* decide: a node is decided once in the life of an execution.
Decide(x, k) ==
    LET d == def[x]
        n == node[x]
        t == TargetOf(d, n, k)
        edges == {<<n, t>>}
    IN  /\ state[x] = "WAITING" /\ n \notin decided[x]
        /\ d.kind[n] = "HUMAN_DECISION" /\ k \in d.results[n]
        /\ decided' = [decided EXCEPT ![x] = @ \cup {n}]
        /\ cycles' = [cycles EXCEPT ![x] = Counted(d, @, edges)]
        /\ Touch(x)
        /\ \/ /\ Exceeds(d, cycles[x], edges)
              /\ StopSteps(x, invalidated, outbox, step)
              /\ Becomes(x, "FAILED", "CYCLE_BOUND")
              /\ UNCHANGED <<node, owner, step, intents>>
           \/ /\ ~Exceeds(d, cycles[x], edges)
              /\ Enter(x, d, t, step)
              /\ UNCHANGED <<invalidated, outbox>>
        /\ UNCHANGED <<def, pending, joined, coordination, dispatched, requested,
                       tickVars, authorityVars, expired, crashes>>

-----------------------------------------------------------------------------
(* The result of a step.                                                   *)

\* What a step's result decides: the join's evaluation if the step is one of
\* its branches, else the step's own transition.
Outcome(x, n, k) ==
    LET d == def[x]
        j == JoinOf(d, n)
        e == EvaluateJoin(d, j, joined[x][j], n, k)
        r == RouteStep(d, n, k)
    IN  IF j = None
        THEN [target |-> r.target, edges |-> r.edges, cancel |-> {}, joins |-> joined[x]]
        ELSE [target |-> e.target, cancel |-> e.cancel,
              edges |-> {<<n, j>>} \cup (IF e.target = None THEN {} ELSE {<<j, e.target>>}),
              joins |-> [joined[x] EXCEPT ![j] = e.state]]

\* Slip: losing branches whose run has not been recorded are forgotten.
LosersRecorded(x, branches) == {s \in StepsOf(x) : s[1] \in branches /\ step[s] = "RUNNING"}

\* The occurrences of the branches that lost a join.
Losers(x, branches) == {s \in StepsOf(x) : s[1] \in branches}

\* Where a result of node n takes execution x.  Without a target it waits,
\* paused or not.
Proceed(x, n, target, steps) ==
    \/ /\ target = None
       /\ Becomes(x, "WAITING", "TRANSITION_REQUIRED")
       /\ node' = [node EXCEPT ![x] = n] /\ step' = steps
       /\ UNCHANGED <<pending, owner, intents>>
    \/ /\ target # None /\ state[x] = "PAUSED"
       /\ Becomes(x, "PAUSED", None)
       /\ node' = [node EXCEPT ![x] = n] /\ step' = steps
       /\ pending' = [pending EXCEPT ![x] = target]
       /\ UNCHANGED <<owner, intents>>
    \/ /\ target # None /\ state[x] # "PAUSED"
       /\ Enter(x, def[x], target, steps)
       /\ UNCHANGED pending

\* accept: the agent run of occurrence o has ended and result k is reported.
\* Losing branches that have no run are cancelled here, the others are queued
\* for cancellation.
Accept(o, k) ==
    LET x == owner[o]
        d == def[x]
        e == Outcome(x, o[1], k)
        losers == Losers(x, e.cancel)
        steps == [s \in Steps |-> CASE s = o -> "TERMINAL"
                                    [] s \in losers \ dispatched -> "CANCELLED"
                                    [] OTHER -> step[s]]
        inv == invalidated \cup (losers \ dispatched)
        out == outbox \cup {s \in losers : step[s] = "RUNNING"}
    IN  /\ step[o] = "RUNNING" /\ run[o] = "ENDED" /\ state[x] \in Open
        /\ k \in d.results[o[1]] \cup SystemResults
        /\ joined' = [joined EXCEPT ![x] = e.joins]
        /\ cycles' = [cycles EXCEPT ![x] = Counted(d, @, e.edges)]
        /\ Touch(x)
        /\ \/ /\ Exceeds(d, cycles[x], e.edges)
              /\ StopSteps(x, inv, out, steps)
              /\ Becomes(x, "FAILED", "CYCLE_BOUND")
              /\ step' = steps
              /\ UNCHANGED <<node, pending, owner, intents>>
           \/ /\ ~Exceeds(d, cycles[x], e.edges)
              /\ invalidated' = inv /\ outbox' = out
              /\ Proceed(x, o[1], e.target, steps)
        /\ UNCHANGED <<def, decided, coordination, dispatched, requested, tickVars,
                       authorityVars, expired, crashes>>

-----------------------------------------------------------------------------
(* The scheduler's tick.                                                   *)

\* Slip: only executions that are ACTIVE expire.
OverdueActive == {x \in expired : state[x] = "ACTIVE"}
Overdue == {x \in expired : state[x] \in Open}

\* Executions past their deadline are failed, then the open intents loaded.
TickBegin ==
    LET over == Overdue
        inv == invalidated \cup UNION {UndispatchedIn(x) : x \in over}
    IN  /\ phase = "IDLE" /\ phase' = "INTENTS"
        /\ invalidated' = inv
        /\ outbox' = outbox \cup UNION {RunningSteps(x) : x \in over}
        /\ state' = [x \in Executions |-> IF x \in over THEN "FAILED" ELSE state[x]]
        /\ reason' = [x \in Executions |-> IF x \in over THEN "DEADLINE" ELSE reason[x]]
        /\ loaded' = Range(intents) \ (dispatched \cup inv)
        /\ UNCHANGED <<def, node, pending, joined, cycles, decided, coordination, owner, step,
                       intents, dispatched, requested, current, cancels, seen, authorityVars,
                       expired, crashes>>

\* The next loaded intent whose execution is ACTIVE and within its deadline:
\* its launch binding is resolved anew.
Eligible(o) == state[owner[o]] = "ACTIVE" /\ owner[o] \notin expired
Select ==
    /\ phase = "INTENTS" /\ phase' = "RESOLVING"
    /\ \E i \in DOMAIN intents :
        /\ intents[i] \in loaded /\ Eligible(intents[i])
        /\ \A j \in 1..(i - 1) : intents[j] \in loaded => ~Eligible(intents[j])
        /\ current' = intents[i]
        /\ loaded' = loaded \ {intents[j] : j \in 1..i}
    /\ UNCHANGED <<executionVars, stepVars, cancels, seen, authorityVars, expired, crashes>>

\* The binding no longer resolves to what was reviewed: the execution waits,
\* unless it has moved since.
ResolveStale ==
    LET x == owner[current] IN
    /\ phase = "RESOLVING" /\ phase' = "INTENTS"
    /\ current' = NoStep /\ seen' = TRUE
    /\ IF seen /\ state[x] = "ACTIVE"
       THEN /\ invalidated' = invalidated \cup {current}
            /\ Becomes(x, "WAITING", "BINDING_STALE")
       ELSE UNCHANGED <<invalidated, state, reason>>
    /\ UNCHANGED <<def, node, pending, joined, cycles, decided, coordination, owner, step,
                   intents, dispatched, outbox, requested, loaded, cancels, authorityVars,
                   expired, crashes>>

\* Slip: the number of running steps is not looked at again.
ResolveUnbounded ==
    LET go == state[owner[current]] = "ACTIVE" IN
    /\ phase = "RESOLVING" /\ phase' = IF go THEN "LAUNCHING" ELSE "INTENTS"
    /\ current' = IF go THEN current ELSE NoStep
    /\ seen' = TRUE
    /\ UNCHANGED <<executionVars, stepVars, loaded, cancels, authorityVars, expired, crashes>>

\* The binding is unchanged: if the execution is still ACTIVE and has room for
\* another running step, LAUNCH_RUN is sent.  The intent is not read again.
Resolve ==
    LET x == owner[current]
        go == state[x] = "ACTIVE" /\ Cardinality(RunningSteps(x)) < def[x].maximumConcurrency
    IN  /\ phase = "RESOLVING" /\ phase' = IF go THEN "LAUNCHING" ELSE "INTENTS"
        /\ current' = IF go THEN current ELSE NoStep
        /\ seen' = TRUE
        /\ UNCHANGED <<executionVars, stepVars, loaded, cancels, authorityVars, expired, crashes>>

\* The authority refuses the launch; the intent stays for the next tick.
LaunchRefused ==
    /\ phase = "LAUNCHING" /\ phase' = "INTENTS" /\ current' = NoStep
    /\ UNCHANGED <<executionVars, stepVars, loaded, cancels, seen, authorityVars, expired, crashes>>

\* The authority creates the run, when the coordination record still has the
\* revision the execution knows, or replays the launch of the same key.
Launch ==
    LET x == owner[current]
        new == run[current] = "NONE"
    IN  /\ phase = "LAUNCHING" /\ phase' = "LAUNCHED"
        /\ new => coordination[x] = record[x] /\ record[x] < MaxRecord
        /\ run' = [run EXCEPT ![current] = IF new THEN "LIVE" ELSE @]
        /\ record' = [record EXCEPT ![x] = IF new THEN @ + 1 ELSE @]
        /\ launchedAt' = [launchedAt EXCEPT ![current] = IF new THEN record[x] + 1 ELSE @]
        /\ UNCHANGED <<executionVars, stepVars, current, loaded, cancels, seen, expired, crashes>>

\* Slip: the execution's state is not looked at when a run is recorded.
StillValidAnyState(x) == x \notin expired /\ current \notin invalidated

\* The intent was not invalidated while its launch was under way, the deadline
\* has not passed and the execution is ACTIVE or PAUSED.
StillValid(x) ==
    x \notin expired /\ current \notin invalidated /\ state[x] \in {"ACTIVE", "PAUSED"}

\* Slip: a run that came too late is recorded as cancelled, and not cancelled.
RecordUncancelled ==
    LET x == owner[current]
        tooLate == x \in expired /\ current \notin invalidated
        fails == tooLate /\ state[x] \in Open
    IN  /\ phase = "LAUNCHED" /\ phase' = "INTENTS" /\ current' = NoStep
        /\ IF fails THEN Becomes(x, "FAILED", "DEADLINE") ELSE UNCHANGED <<state, reason>>
        /\ invalidated' = IF tooLate THEN invalidated \cup {current} ELSE invalidated
        /\ dispatched' = dispatched \cup {current}
        /\ step' = [step EXCEPT ![current] = IF StillValid(x) THEN "RUNNING" ELSE "CANCELLED"]
        /\ coordination' = [coordination EXCEPT ![x] = launchedAt[current]]
        /\ UNCHANGED <<def, node, pending, joined, cycles, decided, owner, intents, outbox,
                       requested, loaded, cancels, seen, authorityVars, expired, crashes>>

\* The run is recorded: it runs if it is still valid, and is queued for
\* cancellation otherwise.
Record ==
    LET x == owner[current]
        tooLate == x \in expired /\ current \notin invalidated
        fails == tooLate /\ state[x] \in Open
        valid == StillValid(x)
    IN  /\ phase = "LAUNCHED" /\ phase' = "INTENTS" /\ current' = NoStep
        /\ IF fails THEN Becomes(x, "FAILED", "DEADLINE") ELSE UNCHANGED <<state, reason>>
        /\ invalidated' = IF tooLate THEN invalidated \cup {current} ELSE invalidated
        /\ dispatched' = dispatched \cup {current}
        /\ step' = [step EXCEPT ![current] = IF valid THEN "RUNNING" ELSE "CANCELLED"]
        /\ outbox' = IF valid THEN outbox ELSE outbox \cup {current}
        /\ coordination' = [coordination EXCEPT ![x] = launchedAt[current]]
        /\ UNCHANGED <<def, node, pending, joined, cycles, decided, owner, intents, requested,
                       loaded, cancels, seen, authorityVars, expired, crashes>>

\* No loaded intent is left to try: the open cancellations are loaded.
LoadCancellations ==
    /\ phase = "INTENTS" /\ phase' = "CANCELS"
    /\ \A o \in loaded : ~Eligible(o)
    /\ loaded' = {} /\ cancels' = outbox \ requested
    /\ UNCHANGED <<executionVars, stepVars, current, seen, authorityVars, expired, crashes>>

\* CANCEL_RUN ends a run that has not ended; it is refused when the run moves
\* between the query and the command, and tried again by the next tick.
CancelRun(o) ==
    /\ phase = "CANCELS" /\ o \in cancels
    /\ cancels' = cancels \ {o}
    /\ phase' = "MARKING" /\ current' = o
    /\ run' = [run EXCEPT ![o] = "ENDED"]
    /\ UNCHANGED <<executionVars, stepVars, loaded, seen, record, launchedAt, expired, crashes>>

CancelRefused(o) ==
    /\ phase = "CANCELS" /\ o \in cancels /\ run[o] = "LIVE"
    /\ cancels' = cancels \ {o}
    /\ UNCHANGED <<executionVars, stepVars, phase, current, loaded, seen, authorityVars,
                   expired, crashes>>

MarkRequested ==
    /\ phase = "MARKING" /\ phase' = "CANCELS"
    /\ requested' = requested \cup {current} /\ current' = NoStep
    /\ UNCHANGED <<executionVars, owner, step, intents, dispatched, invalidated, outbox, loaded,
                   cancels, seen, authorityVars, expired, crashes>>

TickEnd ==
    /\ phase = "CANCELS" /\ cancels = {} /\ phase' = "IDLE"
    /\ UNCHANGED <<executionVars, stepVars, current, loaded, cancels, seen, authorityVars,
                   expired, crashes>>

-----------------------------------------------------------------------------
(* The rest of the world.                                                  *)

RunEnds(o) ==
    /\ run[o] = "LIVE" /\ run' = [run EXCEPT ![o] = "ENDED"]
    /\ UNCHANGED <<executionVars, stepVars, tickVars, seen, record, launchedAt, expired, crashes>>

\* Another command moves the coordination record of x.
RecordMoves(x) ==
    /\ state[x] \in Open /\ record[x] < MaxRecord
    /\ record' = [record EXCEPT ![x] = @ + 1]
    /\ UNCHANGED <<executionVars, stepVars, tickVars, seen, run, launchedAt, expired, crashes>>

DeadlinePasses(x) ==
    /\ state[x] # "NEW" /\ x \notin expired /\ expired' = expired \cup {x}
    /\ UNCHANGED <<executionVars, stepVars, tickVars, seen, authorityVars, crashes>>

\* The server crashes, or the tick throws: what it had loaded is forgotten.
Crash ==
    /\ phase # "IDLE" /\ crashes < MaxCrashes
    /\ crashes' = crashes + 1
    /\ phase' = "IDLE" /\ current' = NoStep /\ loaded' = {} /\ cancels' = {} /\ seen' = TRUE
    /\ UNCHANGED <<executionVars, stepVars, authorityVars, expired>>

Tick ==
    \/ TickBegin \/ Select \/ ResolveStale \/ Resolve \/ LaunchRefused \/ Launch \/ Record
    \/ LoadCancellations \/ MarkRequested \/ TickEnd
    \/ \E o \in Steps : CancelRun(o) \/ CancelRefused(o)

Next ==
    \/ Tick \/ Crash
    \/ \E x \in Executions :
        \/ \E d \in Definitions : Start(x, d)
        \/ Pause(x) \/ Resume(x) \/ Cancel(x) \/ Revoke(x)
        \/ \E k \in ResultKeys : Decide(x, k)
        \/ RecordMoves(x) \/ DeadlinePasses(x)
    \/ \E o \in Steps : RunEnds(o) \/ \E k \in ResultKeys : Accept(o, k)

Spec == Init /\ [][Next]_vars

-----------------------------------------------------------------------------
(* Properties.                                                             *)

Stopped == {"CANCELLED", "CYCLE_BOUND"}

\* An execution never has more running steps than its definition allows, however
\* launches, their answers, results and crashes interleave.
ConcurrencyBounded ==
    \A x \in Executions :
        state[x] # "NEW" => Cardinality(RunningSteps(x)) <= def[x].maximumConcurrency

\* Once an execution is cancelled or stopped at a cycle bound, every live run
\* recorded for it has a cancellation queued, the launches that were under way
\* when it stopped included.
StoppedChildrenAreCancelled ==
    \A o \in dispatched :
        reason[owner[o]] \in Stopped /\ run[o] = "LIVE" => o \in outbox

\* Once an ANY join has committed under CANCEL_REMAINDER, no losing branch is
\* left to be launched, and every losing run that is live has a cancellation queued.
LosersAreCancelled ==
    \A o \in Steps : owner[o] # None =>
        LET x == owner[o]
            j == JoinOf(def[x], o[1])
        IN  /\ j # None
            /\ def[x].join[j].remainder = "CANCEL_REMAINDER"
            /\ joined[x][j].committed \in def[x].join[j].accepted
            => /\ o \notin dispatched => o \in invalidated
               /\ o \in dispatched /\ run[o] = "LIVE" => o \in outbox

\* A terminal execution is final: its state, its steps and what it may still
\* launch do not change, and no step of it becomes running.
TerminalIsFinal ==
    [][\A x \in Executions : state[x] \in Terminal =>
        /\ state'[x] = state[x] /\ node'[x] = node[x]
        /\ StepsOf(x)' = StepsOf(x) /\ RunningSteps(x)' \subseteq RunningSteps(x)]_vars

\* A target selected while the execution was paused is not lost: it stays
\* pending until it is entered or the execution ends.
PendingIsEntered ==
    [][\A x \in Executions : pending[x] # None =>
        \/ pending'[x] = pending[x]
        \/ pending'[x] = None /\ node'[x] = pending[x]]_vars

\* No step of an execution is taken back: what ended stays, what was selected is entered.
MovesStand == TerminalIsFinal /\ PendingIsEntered

FairSpec ==
    /\ Spec
    /\ \A x \in Executions : WF_vars(DeadlinePasses(x))
    /\ WF_vars(Tick)
    /\ SF_vars(\E o \in Steps : CancelRun(o))

\* Every execution ends, by its own outcome or by its deadline.
ExecutionsEnd == \A x \in Executions : state[x] # "NEW" ~> state[x] \in Terminal

\* Whatever is queued for cancellation is carried out: time and again, and in
\* the end for good, no queued cancellation is left open.
CancellationsAreRequested == []<>(outbox = requested)

\* Executions end, and what is left of them is cancelled.
ExecutionsSettle == ExecutionsEnd /\ CancellationsAreRequested

=============================================================================
