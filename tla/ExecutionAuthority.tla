-------------------------- MODULE ExecutionAuthority --------------------------
(***************************************************************************)
(* The Execution Authority of the Collab server: the module behind every   *)
(* command that launches an Agent Run, authorizes an Execution Attempt,    *)
(* turns a Dispatch Permit into a fenced Authority Session, authorizes and *)
(* consumes sensitive operations, accepts the runner's lifecycle events    *)
(* and applies cancellation and revocation.                                *)
(*                                                                         *)
(* One action is one command.  The code runs each command in one           *)
(* BEGIN IMMEDIATE transaction of SQLite, so an action is atomic; a CHECK  *)
(* or unique index that aborts the transaction is a guard of the action.   *)
(* A refused command that writes nothing is a stuttering step and has no   *)
(* action; one that commits a change before it refuses has its own.        *)
(*                                                                         *)
(* Optimistic revisions (expectedRunRevision and the like) are inputs that *)
(* only let a caller who has seen the current state through: every action  *)
(* is taken by such a caller.                                              *)
(***************************************************************************)
EXTENDS Integers, FiniteSets

CONSTANTS
    Runs,            \* Agent Runs that may be launched
    Records,         \* Coordination Records
    RecordOf,        \* [Runs -> Records], coordination_record_id
    MutatingRuns,    \* runs launched with Repository Mode MUTATING
    ScheduledRuns,   \* runs a workflow scheduler dispatches in the member's name
    ConnectorRuns,   \* runs launched with an epoch of the connector
    MaximumAttempts, \* maximum_attempts of the run execution policy
    Deadline,        \* deadline_at of the run execution policy
    PermitSeconds, SessionSeconds, GraceSeconds, OperationSeconds,
    Gates,           \* required gates of the run's preset
    Heads, BaseHead, \* repository revisions, and the run's base commit
    DeliveredHeads,  \* heads the runner records as a diff or publishes
    OperationKinds,  \* sensitive operations the runner asks for
    Removable,       \* members the identity module may remove
    RevocationKinds, \* source kinds APPLY_REVOCATION is called with
    RevocableRuns,   \* runs it is called with
    AttemptEvents,   \* lifecycle events the runner reports
    Observations,    \* states an attempt is found in when it is reconciled
    CheckpointReasons,
    Reported,        \* kinds of run result the runner reports
    Horizon,         \* bound of the clock
    MaxFence,        \* bound of session renewals
    MaxRunnerFacts,  \* bound of runner policy and exposure changes
    MaxConnectorEpoch

AllOperationKinds == {"EXECUTE_LOCAL_GATE", "MUTATE_REPOSITORY", "MUTATE_GITHUB"}
MemberRoles == {"DISPATCHER", "OWNER"}
EpochSources == MemberRoles \cup {"CONNECTOR", "RUNNER", "EXPOSURE"}
AllAttemptEvents == {"ACKNOWLEDGED", "PROCESS_STARTED", "PROCESS_EXITED", "FAILED_TO_START",
                     "TIMED_OUT", "CANCELLED", "LOST"}
AllRevocationKinds == EpochSources \cup {"REPOSITORY"}

ASSUME ConstantsAssumption ==
    /\ RecordOf \in [Runs -> Records]
    /\ MutatingRuns \subseteq Runs
    /\ ScheduledRuns \subseteq Runs
    /\ ConnectorRuns \subseteq Runs
    /\ MaximumAttempts \in Nat \ {0}
    /\ Deadline \in Nat \ {0}
    /\ PermitSeconds \in Nat \ {0}
    /\ SessionSeconds \in Nat \ {0}
    /\ GraceSeconds \in Nat
    /\ OperationSeconds \in Nat \ {0}
    /\ BaseHead \in Heads
    /\ "NO_HEAD" \notin Heads
    /\ DeliveredHeads \subseteq Heads
    /\ OperationKinds \subseteq AllOperationKinds
    /\ Removable \subseteq MemberRoles
    /\ RevocationKinds \subseteq AllRevocationKinds
    /\ RevocableRuns \subseteq Runs
    /\ AttemptEvents \subseteq AllAttemptEvents
    /\ Observations \subseteq {"RUNNING", "ORPHAN_TERMINATED", "UNKNOWN"}
    /\ CheckpointReasons \subseteq {"HUMAN_INPUT", "CANCELLATION", "RECOVERY"}
    /\ Reported \subseteq {"DELIVERED", "NO_CHANGES", "BLOCKED", "ESCALATED"}
    /\ Horizon \in Nat
    /\ MaxFence \in Nat \ {0}
    /\ MaxRunnerFacts \in Nat \ {0}
    /\ MaxConnectorEpoch \in Nat \ {0}

Attempts == Runs \X (1 .. MaximumAttempts)
NoHead == "NO_HEAD"

RunStates == {"NONE", "QUEUED", "RUNNING", "WAITING", "COMPLETED", "FAILED", "CANCELLED"}
TerminalRun == {"COMPLETED", "FAILED", "CANCELLED"}
WaitingReasons == {"NONE", "HUMAN_INPUT", "DEPENDENCY", "RETRY", "BLOCKED"}
ActiveAttempt == {"PENDING", "STARTING", "RUNNING"}
TerminalAttempt == {"EXITED", "FAILED_TO_START", "CANCELLED", "TIMED_OUT", "LOST"}
AttemptStates == {"NONE"} \cup ActiveAttempt \cup TerminalAttempt
Delivered == {"DELIVERED", "NO_CHANGES"}
ResultKinds == Delivered \cup {"BLOCKED", "ESCALATED"}

VARIABLES
    now,            \* the server's clock
    runState,       \* agent_runs.state, "NONE" before the launch
    waitingReason,  \* agent_runs.waiting_reason
    attemptCount,   \* number of execution_attempts of the run
    attemptState,   \* execution_attempts.state
    permit,         \* dispatch_permits
    session,        \* authority_sessions; a permit yields at most one
    lease,          \* mutation_leases of that session
    guard,          \* work_item_mutation_guards.state, by owner run
    overrides,      \* mutation_guard_overrides: <<guarded run, colliding run>>
    operations,     \* operation_authorizations
    result,         \* run_results, by attempt
    evidence,       \* run_evidence: heads and latest gate outcomes
    intents,        \* authority_termination_intents, all PENDING
    runnerFacts,    \* policy, security, mapping, profile and exposure revisions
    runnerLive,     \* the runner is not revoked and has its first epoch
    removed,        \* members whose status is REVOKED
    revoked,        \* latest source_epoch in authority_revocations, by source
    revokedRuns,    \* RUN sources with a row in authority_revocations
    connectorEpoch, \* connector_epochs.epoch
    runEpoch        \* run_execution_connector_epochs, fixed at launch

runVars == <<runState, waitingReason>>
guardVars == <<guard, overrides>>
recordVars == <<result, evidence>>
outsideVars == <<runnerFacts, runnerLive, removed, connectorEpoch>>
revocationVars == <<revoked, revokedRuns>>
vars == <<now, runState, waitingReason, attemptCount, attemptState, permit, session,
          lease, guard, overrides, operations, result, evidence, intents,
          runnerFacts, runnerLive, removed, revoked, revokedRuns, connectorEpoch, runEpoch>>

PermitRow == [state : {"NONE", "ISSUED", "CONSUMED", "REVOKED", "EXPIRED"},
              expires : Nat, facts : Nat]
SessionRow == [state : {"NONE", "ACTIVE", "RELEASED", "REVOKED"},
               fence : Nat, expires : Nat]
LeaseRow == [state : {"NONE", "ACTIVE", "RELEASED", "REVOKED"},
             fence : Nat, expires : Nat, grace : Nat]
OperationRow == [attempt : Attempts, kind : AllOperationKinds,
                 sessionFence : Nat, leaseFence : Nat, expires : Nat,
                 state : {"ISSUED", "CONSUMED", "REVOKED", "EXPIRED"}]
EvidenceRow == [diff : Heads \cup {NoHead}, published : Heads \cup {NoHead},
                gates : [Heads \X Gates -> {"NONE", "PASSED", "FAILED"}]]

NoPermit == [state |-> "NONE", expires |-> 0, facts |-> 0]
NoSession == [state |-> "NONE", fence |-> 0, expires |-> 0]
NoLease == [state |-> "NONE", fence |-> 0, expires |-> 0, grace |-> 0]
NoEvidence == [diff |-> NoHead, published |-> NoHead,
               gates |-> [hg \in Heads \X Gates |-> "NONE"]]

Least(m, n) == IF m <= n THEN m ELSE n

--------------------------------------------------------------------------------
(* Helpers of the handlers *)

AttemptsOf(r) == {a \in Attempts : a[1] = r}
Latest(r) == <<r, attemptCount[r]>>
\* Slip: an attempt counts as active only once its runner acknowledged it.
HasAcknowledgedAttempt(r) ==
    \E a \in AttemptsOf(r) : attemptState[a] \in {"STARTING", "RUNNING"}
HasActiveAttempt(r) == \E a \in AttemptsOf(r) : attemptState[a] \in ActiveAttempt

\* The runs on whose behalf the guard reserved by run g is held.
Participants(g) == {g} \cup {c \in Runs : <<g, c>> \in overrides}

\* The guards under which run r may mutate: its own, or one it overrides.
GuardsOf(r) == {g \in Runs : guard[g] = "HELD" /\ r \in Participants(g)}

\* The head whose gates decide completion: the latest diff, else the latest
\* published reference, else the base commit of the run.
CurrentHead(r) ==
    IF evidence[r].diff # NoHead THEN evidence[r].diff
    ELSE IF evidence[r].published # NoHead THEN evidence[r].published
    ELSE BaseHead

\* Slip: any outcome of a gate counts.
GatesEvaluated(r) == \A g \in Gates : evidence[r].gates[<<CurrentHead(r), g>>] # "NONE"
GatesPassed(r) == \A g \in Gates : evidence[r].gates[<<CurrentHead(r), g>>] = "PASSED"

\* finalizeRunIfReady, first half: the state of run r when a handler has left
\* it in state mid and its latest attempt in state att with result res.  late
\* says that the time the handler passes is past the run's deadline.
FinalState(r, mid, att, res, late) ==
    IF mid \in TerminalRun THEN mid
    ELSE IF att = "EXITED" /\ res \in Delivered /\ GatesPassed(r) THEN "COMPLETED"
    ELSE IF /\ att \in {"FAILED_TO_START", "LOST", "TIMED_OUT"}
            /\ attemptCount[r] >= MaximumAttempts \/ late
         THEN "FAILED"
    ELSE IF att = "EXITED" /\ (res = "NONE" \/ ~GatesPassed(r)) THEN "WAITING"
    ELSE mid

FinalReason(r, reason, att, res) ==
    IF att = "EXITED" /\ (res = "NONE" \/ ~GatesPassed(r)) THEN "BLOCKED" ELSE reason

\* Slips: the guard is released as soon as its own run ends, or only by the
\* end of its own run.
GuardsWithoutOverrides(r, next) ==
    [guard EXCEPT ![r] = IF @ = "HELD" /\ next \in TerminalRun THEN "RELEASED" ELSE @]
GuardsOfOwner(r, next) ==
    [guard EXCEPT ![r] =
        IF /\ @ = "HELD"
           /\ next \in TerminalRun
           /\ \A p \in Participants(r) \ {r} : runState[p] \in TerminalRun
        THEN "RELEASED" ELSE @]
\* releaseGuardIfNoActiveParticipants, once run r has reached state next.
GuardsAfter(r, next) ==
    [g \in Runs |->
        IF /\ guard[g] = "HELD"
           /\ r \in Participants(g)
           /\ next \in TerminalRun
           /\ \A p \in Participants(g) \ {r} : runState[p] \in TerminalRun
        THEN "RELEASED" ELSE guard[g]]

SetRun(r, state, reason) ==
    /\ runState' = [runState EXCEPT ![r] = state]
    /\ waitingReason' = [waitingReason EXCEPT ![r] = reason]

\* A handler that leaves run r in state mid for reason, then finalizes it.
Finalize(r, mid, reason, att, res, late) ==
    LET next == FinalState(r, mid, att, res, late)
    IN  /\ SetRun(r, next, IF next = "WAITING" THEN FinalReason(r, reason, att, res) ELSE "NONE")
        /\ guard' = IF mid \in TerminalRun THEN guard ELSE GuardsAfter(r, next)
        /\ UNCHANGED overrides

\* Ends, with state s, the active session and lease of every attempt of S.
CloseSessions(S, s) ==
    /\ session' = [a \in Attempts |->
            IF a \in S /\ session[a].state = "ACTIVE"
            THEN [session[a] EXCEPT !.state = s] ELSE session[a]]
    /\ lease' = [a \in Attempts |->
            IF a \in S /\ lease[a].state = "ACTIVE"
            THEN [lease[a] EXCEPT !.state = s] ELSE lease[a]]

RevokePermits(S) ==
    permit' = [a \in Attempts |->
        IF a \in S /\ permit[a].state = "ISSUED"
        THEN [permit[a] EXCEPT !.state = "REVOKED"] ELSE permit[a]]

\* requireSessionFence: the session is active, and neither it nor the run's
\* deadline has passed.
SessionUsable(a) ==
    /\ session[a].state = "ACTIVE"
    /\ now < session[a].expires
    /\ now < Deadline

\* Slip: the row is written whatever its state.
AnyRun(r) == runState[r] # "NONE"
\* The run may be written to RUNNING or WAITING: the CHECK constraints of
\* agent_runs refuse that once a terminal reason is stored.
Writable(r) == runState[r] \notin TerminalRun

\* The snapshot and the permit of a new attempt: its runner's facts of this moment.
IssuedPermit == [state |-> "ISSUED", expires |-> now + PermitSeconds, facts |-> runnerFacts]

\* The attempt row, snapshot, permit and outbox row both launch handlers write.
IssueAttempt(a) ==
    /\ attemptState' = [attemptState EXCEPT ![a] = "PENDING"]
    /\ permit' = [permit EXCEPT ![a] = IssuedPermit]

\* How long a mutation lease outlives its session's expiry.
LeaseUntil(expires) == Least(expires + GraceSeconds, Deadline)

\* The member in whose name every run is dispatched is ACTIVE.
DispatcherActive == "DISPATCHER" \notin removed

\* The epoch a revocation of source s must name.
SourceEpoch(s) ==
    CASE s \in MemberRoles -> IF s \in removed THEN 2 ELSE 1
      [] s = "CONNECTOR"   -> connectorEpoch
      [] s = "RUNNER"      -> IF runnerLive THEN 1 ELSE 2
      [] s = "EXPOSURE"    -> runnerFacts

ActiveAttempts == {a \in Attempts : attemptState[a] \in ActiveAttempt}

--------------------------------------------------------------------------------
(* Launching a run and authorizing its later attempts *)

\* What createExecutionAuthority persists for a launch once the guard is
\* settled.  The connector epoch was read before the transaction.
CreateRun(r) ==
    /\ runState[r] = "NONE"
    /\ now < Deadline
    /\ runnerLive
    /\ DispatcherActive
    /\ SetRun(r, "QUEUED", "NONE")
    /\ attemptCount' = [attemptCount EXCEPT ![r] = 1]
    /\ IssueAttempt(<<r, 1>>)
    /\ IF r \in ConnectorRuns
       THEN \E e \in 1 .. connectorEpoch : runEpoch' = [runEpoch EXCEPT ![r] = e]
       ELSE UNCHANGED runEpoch
    /\ UNCHANGED <<now, session, lease, operations, intents, recordVars, outsideVars,
                   revocationVars>>

HeldOn(c) == {g \in Runs : guard[g] = "HELD" /\ RecordOf[g] = c}

GuardFree(r) == r \in MutatingRuns => HeldOn(RecordOf[r]) = {}

\* Slip: the guarded run's state is not read again.
AlwaysOverridable(g) == g \in Runs
Overridable(g) == runState[g] \notin TerminalRun

\* LAUNCH_RUN without a guard override.
LaunchRun(r) ==
    /\ CreateRun(r)
    /\ GuardFree(r)
    /\ guard' = IF r \in MutatingRuns THEN [guard EXCEPT ![r] = "HELD"] ELSE guard
    /\ UNCHANGED overrides

\* LAUNCH_RUN of a member who overrides the guard that run g holds.
LaunchOverriding(r, g) ==
    /\ CreateRun(r)
    /\ r \in MutatingRuns \ ScheduledRuns
    /\ g \in HeldOn(RecordOf[r])
    /\ Overridable(g)
    /\ overrides' = overrides \cup {<<g, r>>}
    /\ UNCHANGED guard

\* ACKNOWLEDGE_COLLISION: c may mutate under the guard g holds.
AcknowledgeCollision(g, c) ==
    /\ g # c
    /\ {g, c} \subseteq MutatingRuns
    /\ RecordOf[g] = RecordOf[c]
    /\ guard[g] = "HELD"
    /\ \A r \in {g, c} : runState[r] \notin TerminalRun \cup {"NONE"}
    /\ overrides' = overrides \cup {<<g, c>>}
    /\ UNCHANGED <<now, runVars, attemptCount, attemptState, permit, session, lease, guard,
                   operations, recordVars, intents, outsideVars, revocationVars, runEpoch>>

BudgetLeft(r) == attemptCount[r] < MaximumAttempts

\* The run is at work again, with one attempt more.
BeginAttempt(r) ==
    /\ SetRun(r, "RUNNING", "NONE")
    /\ attemptCount' = [attemptCount EXCEPT ![r] = @ + 1]

\* AUTHORIZE_ATTEMPT: a further attempt of a run that has none active.
AuthorizeAttempt(r) ==
    /\ DispatcherActive
    /\ runState[r] \notin TerminalRun \cup {"NONE"}
    /\ BudgetLeft(r)
    /\ now < Deadline
    /\ ~HasActiveAttempt(r)
    /\ runnerLive
    /\ BeginAttempt(r)
    /\ IssueAttempt(<<r, attemptCount[r] + 1>>)
    /\ UNCHANGED <<now, session, lease, guardVars, operations, recordVars, intents,
                   outsideVars, revocationVars, runEpoch>>

--------------------------------------------------------------------------------
(* The permit *)

PermitExpired(a) == now >= permit[a].expires \/ now >= Deadline

\* Slip: the revocations on record are not consulted.
PermitUnchanged(a) == permit[a].facts = runnerFacts /\ removed = {}
\* The runner's facts, the two members and the revocations still allow what
\* the permit's snapshot recorded.
PermitStands(a) ==
    /\ permit[a].facts = runnerFacts
    /\ removed = {}
    /\ a[1] \notin revokedRuns
    /\ revoked["RUNNER"] = 0
    /\ revoked["DISPATCHER"] = 0

SetPermit(a, s) == permit' = [permit EXCEPT ![a].state = s]

KeepsAllButPermit ==
    UNCHANGED <<now, runVars, attemptCount, attemptState, session, lease, guardVars, operations,
                recordVars, intents, outsideVars, revocationVars, runEpoch>>

\* CONSUME_PERMIT of an expired permit: refused, and the expiry is stored.
ExpirePermit(a) ==
    /\ runnerLive
    /\ permit[a].state = "ISSUED"
    /\ PermitExpired(a)
    /\ SetPermit(a, "EXPIRED")
    /\ KeepsAllButPermit

\* CONSUME_PERMIT after the authority has changed: refused, and the permit
\* revoked.
DenyPermit(a) ==
    /\ runnerLive
    /\ permit[a].state = "ISSUED"
    /\ ~PermitExpired(a)
    /\ ~PermitStands(a)
    /\ SetPermit(a, "REVOKED")
    /\ KeepsAllButPermit

\* The session of attempt a and, for a mutating run, its mutation lease.
OpenSession(a) ==
    LET expires == Least(now + SessionSeconds, Deadline)
    IN  /\ session' = [session EXCEPT ![a] =
                [state |-> "ACTIVE", fence |-> 1, expires |-> expires]]
        /\ lease' = IF a[1] \in MutatingRuns
                    THEN [lease EXCEPT ![a] = [state |-> "ACTIVE", fence |-> 1,
                            expires |-> expires, grace |-> LeaseUntil(expires)]]
                    ELSE lease

\* CONSUME_PERMIT: the permit becomes a session and, for a mutating run that
\* still has a guard, a mutation lease.  Neither the attempt's state nor the
\* run's is looked at.
ConsumePermit(a) ==
    /\ runnerLive
    /\ permit[a].state = "ISSUED"
    /\ ~PermitExpired(a)
    /\ PermitStands(a)
    /\ a[1] \in MutatingRuns => GuardsOf(a[1]) # {}
    /\ SetPermit(a, "CONSUMED")
    /\ OpenSession(a)
    /\ UNCHANGED <<now, runVars, attemptCount, attemptState, guardVars, operations,
                   recordVars, intents, outsideVars, revocationVars, runEpoch>>

--------------------------------------------------------------------------------
(* The session and the operations it authorizes *)

ConnectorCurrent(r) == r \in ConnectorRuns => runEpoch[r] = connectorEpoch

\* RENEW_AUTHORITY_SESSION: both fences move on and both expiries move out.
RenewSession(a) ==
    LET expires == Least(now + SessionSeconds, Deadline)
    IN  /\ SessionUsable(a)
        /\ runnerLive
        /\ ConnectorCurrent(a[1])
        /\ a[1] \in MutatingRuns => lease[a].state = "ACTIVE" /\ now < lease[a].grace
        /\ session[a].fence < MaxFence
        /\ session' = [session EXCEPT ![a].fence = @ + 1, ![a].expires = expires]
        /\ lease' = IF a[1] \in MutatingRuns
                    THEN [lease EXCEPT ![a].fence = @ + 1, ![a].expires = expires,
                                       ![a].grace = LeaseUntil(expires)]
                    ELSE lease
        /\ UNCHANGED <<now, runVars, attemptCount, attemptState, permit, guardVars, operations,
                       recordVars, intents, outsideVars, revocationVars, runEpoch>>

\* RELEASE_AUTHORITY_SESSION.
ReleaseSession(a) ==
    /\ SessionUsable(a)
    /\ CloseSessions({a}, "RELEASED")
    /\ UNCHANGED <<now, runVars, attemptCount, attemptState, permit, guardVars, operations,
                   recordVars, intents, outsideVars, revocationVars, runEpoch>>

NeedsLease(kind) == kind # "EXECUTE_LOCAL_GATE"
NeedsConnector(kind) == kind = "MUTATE_GITHUB"

\* The fence of the session's live lease, 0 when it has none.
LeaseFence(a) == IF lease[a].state = "ACTIVE" THEN lease[a].fence ELSE 0

KeepsAllButOperations ==
    UNCHANGED <<now, runVars, attemptCount, attemptState, permit, session, lease, guardVars,
                recordVars, intents, outsideVars, revocationVars, runEpoch>>

\* AUTHORIZE_OPERATION of a sensitive operation, once per session and fence.
AuthorizeOperation(a, kind) ==
    LET lived == IF LeaseFence(a) = 0 THEN session[a].expires ELSE lease[a].expires
        row == [attempt |-> a, kind |-> kind, sessionFence |-> session[a].fence,
                leaseFence |-> LeaseFence(a), state |-> "ISSUED",
                expires |-> Least(now + OperationSeconds, Least(session[a].expires, lived))]
    IN  /\ SessionUsable(a)
        /\ a[1] \notin MutatingRuns => kind = "EXECUTE_LOCAL_GATE"
        /\ NeedsLease(kind) => LeaseFence(a) # 0 /\ now < lease[a].expires
        /\ NeedsConnector(kind) =>
            /\ a[1] \in ConnectorRuns
            /\ ConnectorCurrent(a[1])
            /\ Cardinality(GuardsOf(a[1])) = 1
        /\ ~\E o \in operations :
              /\ o.attempt = a
              /\ o.kind = kind
              /\ o.sessionFence = row.sessionFence
              /\ o.leaseFence = row.leaseFence
        /\ operations' = operations \cup {row}
        /\ KeepsAllButOperations

Replaces(o, s) == operations' = (operations \ {o}) \cup {[o EXCEPT !.state = s]}

\* Slip: any live session of the attempt will do.
SessionLive(o) == session[o.attempt].state = "ACTIVE"
FenceCurrent(o) ==
    /\ session[o.attempt].state = "ACTIVE"
    /\ session[o.attempt].fence = o.sessionFence

\* The consumer's last check before the provider is called.
ConsumeOperation(o) ==
    LET a == o.attempt
    IN  /\ o.state = "ISSUED"
        /\ now < o.expires
        /\ FenceCurrent(o)
        /\ runnerLive
        /\ NeedsConnector(o.kind) => ConnectorCurrent(a[1])
        /\ o.leaseFence # 0 => LeaseFence(a) = o.leaseFence /\ now < lease[a].expires
        /\ Replaces(o, "CONSUMED")
        /\ KeepsAllButOperations

ExpireOperation(o) ==
    /\ o.state = "ISSUED"
    /\ now >= o.expires
    /\ Replaces(o, "EXPIRED")
    /\ KeepsAllButOperations

--------------------------------------------------------------------------------
(* What the runner reports *)

\* transitionAttempt: the events an attempt in state s accepts, and where each
\* takes it.
NextAttempt(s, e) ==
    CASE e = "ACKNOWLEDGED"    /\ s = "PENDING"         -> "STARTING"
      [] e = "PROCESS_STARTED" /\ s = "STARTING"        -> "RUNNING"
      [] e = "PROCESS_EXITED"  /\ s = "RUNNING"         -> "EXITED"
      [] e = "FAILED_TO_START" /\ s = "STARTING"        -> "FAILED_TO_START"
      [] e = "TIMED_OUT"       /\ s = "RUNNING"         -> "TIMED_OUT"
      [] e \in {"CANCELLED", "LOST"} /\ s \in ActiveAttempt -> e
      [] OTHER -> "NONE"

\* Moves attempt a to state next and its run to mid, and finalizes the run.
\* Only the latest attempt of a run can be active.
MoveAttempt(a, next, mid, reason, late) ==
    /\ attemptState' = [attemptState EXCEPT ![a] = next]
    /\ IF next \in TerminalAttempt
       THEN CloseSessions({a}, "RELEASED")
       ELSE UNCHANGED <<session, lease>>
    /\ Finalize(a[1], mid, reason,
                IF a = Latest(a[1]) THEN next ELSE attemptState[Latest(a[1])],
                result[Latest(a[1])], late)
    /\ UNCHANGED <<now, attemptCount, permit, operations, recordVars, intents, outsideVars,
                   revocationVars, runEpoch>>

\* ACCEPT_ATTEMPT_EVENT.  observedAt may lie before the deadline even when the
\* server's clock does not.  A start, a failed start and a loss write the run,
\* which the database refuses once the run is terminal.
AttemptEvent(a, e, late) ==
    LET r == a[1]
        next == NextAttempt(attemptState[a], e)
        mid == CASE e = "PROCESS_STARTED" -> "RUNNING"
                 [] e \in {"LOST", "FAILED_TO_START"} -> "WAITING"
                 [] OTHER -> runState[r]
        reason == CASE e = "PROCESS_STARTED" -> "NONE"
                    [] e \in {"LOST", "FAILED_TO_START"} -> "RETRY"
                    [] OTHER -> waitingReason[r]
    IN  /\ runnerLive
        /\ next # "NONE"
        /\ late => now >= Deadline
        /\ e \in {"PROCESS_STARTED", "LOST", "FAILED_TO_START"} => Writable(r)
        /\ MoveAttempt(a, next, mid, reason, late)

\* RECONCILE_OBSERVATION of an attempt, by its runner or by the scheduler of
\* its run.  An observed exit carries no exit code and is refused by the
\* database, as is an attempt RUNNING that was never acknowledged.
ReconcileAttempt(a, observed, late) ==
    LET r == a[1]
        next == CASE observed = "RUNNING" -> "RUNNING"
                  [] observed = "ORPHAN_TERMINATED" -> "CANCELLED"
                  [] observed = "UNKNOWN" -> "LOST"
    IN  /\ runnerLive \/ (r \in ScheduledRuns /\ DispatcherActive)
        /\ attemptState[a] \in ActiveAttempt
        /\ observed = "RUNNING" => attemptState[a] # "PENDING"
        /\ late => now >= Deadline
        /\ Writable(r)
        /\ IF next = "RUNNING"
           THEN MoveAttempt(a, next, "RUNNING", "NONE", late)
           ELSE MoveAttempt(a, next, "WAITING", "RETRY", late)

\* RECORD_CHECKPOINT: the runner stops the attempt's authority and the run
\* waits; the attempt itself may be in any state, and need not be the latest.
RecordCheckpoint(a, reason) ==
    /\ runnerLive
    /\ attemptState[a] # "NONE"
    /\ Writable(a[1])
    /\ SetRun(a[1], "WAITING",
              CASE reason = "HUMAN_INPUT" -> "HUMAN_INPUT"
                [] reason = "CANCELLATION" -> "BLOCKED"
                [] reason = "RECOVERY" -> "RETRY")
    /\ CloseSessions({a}, "RELEASED")
    /\ UNCHANGED <<now, attemptCount, attemptState, permit, guardVars, operations, recordVars,
                   intents, outsideVars, revocationVars, runEpoch>>

\* RECORD_EVIDENCE: the run is launched and its runner reports.  The run is not
\* finalized again.
RecordEvidence(r) ==
    /\ runnerLive
    /\ runState[r] # "NONE"
    /\ UNCHANGED <<now, runVars, attemptCount, attemptState, permit, session, lease, guardVars,
                   operations, result, intents, outsideVars, revocationVars, runEpoch>>

\* The kinds of evidence completion depends on.  Diffs and publications recorded in
\* one second are ranked by their random ids, gate outcomes by the revision the
\* runner gave them: a row that ranks below an earlier one changes nothing here,
\* and only one that ranks first is a step.
RecordDiff(r, h) ==
    RecordEvidence(r) /\ evidence' = [evidence EXCEPT ![r].diff = h]

RecordPublication(r, h) ==
    RecordEvidence(r) /\ evidence' = [evidence EXCEPT ![r].published = h]

RecordGate(r, h, g, outcome) ==
    RecordEvidence(r) /\ evidence' = [evidence EXCEPT ![r].gates[<<h, g>>] = outcome]

\* RECORD_RUN_RESULT, one per attempt.
RecordRunResult(a, kind) ==
    LET r == a[1]
        mid == IF kind \in Delivered THEN runState[r] ELSE "WAITING"
        reason == CASE kind = "BLOCKED" -> "BLOCKED"
                    [] kind = "ESCALATED" -> "HUMAN_INPUT"
                    [] OTHER -> waitingReason[r]
    IN  /\ runnerLive
        /\ attemptState[a] # "NONE"
        /\ result[a] = "NONE"
        /\ kind \notin Delivered => Writable(r)
        /\ result' = [result EXCEPT ![a] = kind]
        /\ Finalize(r, mid, reason, attemptState[Latest(r)],
                    IF a = Latest(r) THEN kind ELSE result[Latest(r)], now >= Deadline)
        /\ UNCHANGED <<now, attemptCount, attemptState, permit, session, lease, operations,
                       evidence, intents, outsideVars, revocationVars, runEpoch>>

--------------------------------------------------------------------------------
(* Cancellation and revocation *)

\* CANCEL_RUN: authority ends at once, the process is only asked to stop.
CancelRun(r) ==
    /\ runState[r] \notin TerminalRun \cup {"NONE"}
    /\ SetRun(r, "CANCELLED", "NONE")
    /\ RevokePermits(AttemptsOf(r))
    /\ CloseSessions(AttemptsOf(r), "REVOKED")
    /\ operations' = {IF o.attempt[1] = r /\ o.state = "ISSUED"
                      THEN [o EXCEPT !.state = "REVOKED"] ELSE o : o \in operations}
    /\ guard' = GuardsAfter(r, "CANCELLED")
    /\ intents' = intents \cup
           {<<a, "CANCEL_ATTEMPT">> : a \in AttemptsOf(r) \cap ActiveAttempts}
    /\ UNCHANGED <<now, attemptCount, attemptState, overrides, recordVars, outsideVars,
                   revocationVars, runEpoch>>

\* The loop of executeRevocation over the affected attempts S.
Withdraw(S) ==
    LET hit == {r \in Runs : \E a \in S : a[1] = r /\ runState[r] \notin TerminalRun}
    IN  /\ RevokePermits(S)
        /\ CloseSessions(S, "REVOKED")
        /\ intents' = intents \cup {<<a, "CHECKPOINT_AND_TERMINATE">> : a \in S}
        /\ runState' = [r \in Runs |-> IF r \in hit THEN "WAITING" ELSE runState[r]]
        /\ waitingReason' = [r \in Runs |-> IF r \in hit THEN "DEPENDENCY" ELSE waitingReason[r]]

\* The attempts a revocation of source s reaches.
Affected(s) ==
    CASE s \in MemberRoles \cup {"RUNNER", "REPOSITORY"} -> ActiveAttempts
      [] s = "EXPOSURE" -> {a \in ActiveAttempts : permit[a].facts = runnerFacts}
      [] s = "CONNECTOR" -> {a \in Attempts : a[1] \in ConnectorRuns /\ session[a].state = "ACTIVE"}

MayRevoke(s) ==
    CASE s = "RUNNER" -> runnerLive \/ "OWNER" \notin removed
      [] s = "EXPOSURE" -> "OWNER" \notin removed
      [] OTHER -> TRUE

\* APPLY_REVOCATION of a source other than a run.
ApplyRevocation(s) ==
    /\ MayRevoke(s)
    /\ IF s \in EpochSources
       THEN /\ revoked[s] < SourceEpoch(s)
            /\ revoked' = [revoked EXCEPT ![s] = SourceEpoch(s)]
       ELSE UNCHANGED revoked
    /\ IF s = "EXPOSURE"
       THEN /\ RevokePermits(Affected(s))
            /\ UNCHANGED <<session, lease, intents, runVars>>
       ELSE Withdraw(Affected(s))
    /\ UNCHANGED <<now, attemptCount, attemptState, guardVars, operations, recordVars,
                   outsideVars, revokedRuns, runEpoch>>

\* APPLY_REVOCATION of run r.
RevokeRun(r) ==
    /\ runState[r] # "NONE"
    /\ revokedRuns' = revokedRuns \cup {r}
    /\ Withdraw(AttemptsOf(r) \cap ActiveAttempts)
    /\ UNCHANGED <<now, attemptCount, attemptState, guardVars, operations, recordVars,
                   outsideVars, revoked, runEpoch>>

--------------------------------------------------------------------------------
(* Changes other modules make to what the authority reads *)

KeepsOwnState ==
    UNCHANGED <<runVars, attemptCount, attemptState, session, lease, guardVars, operations,
                recordVars, intents, revocationVars, runEpoch>>

\* REPLACE_RUNNER_POLICY.
ReplaceRunnerPolicy ==
    /\ runnerLive
    /\ runnerFacts < MaxRunnerFacts
    /\ runnerFacts' = runnerFacts + 1
    /\ RevokePermits(Attempts)
    /\ UNCHANGED <<now, runnerLive, removed, connectorEpoch>>
    /\ KeepsOwnState

\* The runner registry replaces a mapping, a profile or an exposure.
ChangeRunnerFacts ==
    /\ runnerLive
    /\ runnerFacts < MaxRunnerFacts
    /\ runnerFacts' = runnerFacts + 1
    /\ UNCHANGED <<now, permit, runnerLive, removed, connectorEpoch>>
    /\ KeepsOwnState

\* The runner registry revokes the runner and moves its epoch on.
RevokeRunner ==
    /\ "RUNNER" \in RevocationKinds
    /\ runnerLive
    /\ runnerLive' = FALSE
    /\ UNCHANGED <<now, permit, runnerFacts, removed, connectorEpoch>>
    /\ KeepsOwnState

\* The connector module moves the connector's epoch on.
AdvanceConnectorEpoch ==
    /\ connectorEpoch < MaxConnectorEpoch
    /\ connectorEpoch' = connectorEpoch + 1
    /\ UNCHANGED <<now, permit, runnerFacts, runnerLive, removed>>
    /\ KeepsOwnState

\* removeMemberTransaction of the identity module: it commits before it asks
\* the authority for the MEMBER revocation.  The runners the member owns are
\* revoked with it.
RemoveMember(m) ==
    /\ m \in Removable \ removed
    /\ removed' = removed \cup {m}
    /\ runnerLive' = (runnerLive /\ m # "OWNER")
    /\ UNCHANGED <<now, permit, runnerFacts, connectorEpoch>>
    /\ KeepsOwnState

Tick ==
    /\ now < Horizon
    /\ now' = now + 1
    /\ UNCHANGED <<permit, outsideVars>>
    /\ KeepsOwnState

--------------------------------------------------------------------------------
Init ==
    /\ now = 0
    /\ runState = [r \in Runs |-> "NONE"]
    /\ waitingReason = [r \in Runs |-> "NONE"]
    /\ attemptCount = [r \in Runs |-> 0]
    /\ attemptState = [a \in Attempts |-> "NONE"]
    /\ permit = [a \in Attempts |-> NoPermit]
    /\ session = [a \in Attempts |-> NoSession]
    /\ lease = [a \in Attempts |-> NoLease]
    /\ guard = [r \in Runs |-> "NONE"]
    /\ overrides = {}
    /\ operations = {}
    /\ result = [a \in Attempts |-> "NONE"]
    /\ evidence = [r \in Runs |-> NoEvidence]
    /\ intents = {}
    /\ runnerFacts = 1
    /\ runnerLive = TRUE
    /\ removed = {}
    /\ revoked = [s \in EpochSources |-> 0]
    /\ revokedRuns = {}
    /\ connectorEpoch = 1
    /\ runEpoch = [r \in Runs |-> 0]

\* Commands about runs and their attempts.
RunStep ==
    \/ \E r \in Runs : LaunchRun(r) \/ AuthorizeAttempt(r) \/ CancelRun(r)
    \/ \E r, g \in Runs : LaunchOverriding(r, g) \/ AcknowledgeCollision(g, r)

AuthorityStep ==
    \/ \E a \in Attempts :
          ExpirePermit(a) \/ DenyPermit(a) \/ ConsumePermit(a) \/ RenewSession(a) \/ ReleaseSession(a)
    \/ \E a \in Attempts, k \in OperationKinds : AuthorizeOperation(a, k)
    \/ \E o \in operations : ConsumeOperation(o) \/ ExpireOperation(o)

ReportStep ==
    \/ \E a \in Attempts, e \in AttemptEvents, late \in BOOLEAN : AttemptEvent(a, e, late)
    \/ \E a \in Attempts, late \in BOOLEAN, s \in Observations :
          ReconcileAttempt(a, s, late)
    \/ \E a \in Attempts, c \in CheckpointReasons : RecordCheckpoint(a, c)
    \/ \E a \in Attempts, k \in Reported : RecordRunResult(a, k)
    \/ \E r \in Runs, h \in DeliveredHeads : RecordDiff(r, h) \/ RecordPublication(r, h)
    \/ \E r \in Runs, h \in Heads, g \in Gates, outcome \in {"PASSED", "FAILED"} :
          RecordGate(r, h, g, outcome)

RevocationStep ==
    \/ \E s \in RevocationKinds : ApplyRevocation(s)
    \/ \E r \in RevocableRuns : RevokeRun(r)

OutsideStep ==
    \/ ReplaceRunnerPolicy
    \/ ChangeRunnerFacts
    \/ RevokeRunner
    \/ AdvanceConnectorEpoch
    \/ \E m \in Removable : RemoveMember(m)
    \/ Tick

Next == RunStep \/ AuthorityStep \/ ReportStep \/ RevocationStep \/ OutsideStep

Spec == Init /\ [][Next]_vars

--------------------------------------------------------------------------------
(* Properties *)

TypeOK ==
    /\ now \in Nat
    /\ runState \in [Runs -> RunStates]
    /\ waitingReason \in [Runs -> WaitingReasons]
    /\ attemptCount \in [Runs -> 0 .. MaximumAttempts]
    /\ attemptState \in [Attempts -> AttemptStates]
    /\ permit \in [Attempts -> PermitRow]
    /\ session \in [Attempts -> SessionRow]
    /\ lease \in [Attempts -> LeaseRow]
    /\ guard \in [Runs -> {"NONE", "HELD", "RELEASED"}]
    /\ overrides \subseteq Runs \X Runs
    /\ operations \subseteq OperationRow
    /\ result \in [Attempts -> ResultKinds \cup {"NONE"}]
    /\ evidence \in [Runs -> EvidenceRow]
    /\ intents \subseteq Attempts \X {"CANCEL_ATTEMPT", "CHECKPOINT_AND_TERMINATE"}
    /\ runnerFacts \in Nat
    /\ runnerLive \in BOOLEAN
    /\ removed \subseteq MemberRoles
    /\ revoked \in [EpochSources -> Nat]
    /\ revokedRuns \subseteq Runs
    /\ connectorEpoch \in Nat \ {0}
    /\ runEpoch \in [Runs -> Nat]

Launched(r) == runState[r] # "NONE"
Unfinished(r) == Launched(r) /\ runState[r] \notin TerminalRun

\* Attempts of a run follow one another: whatever retries, checkpoints, losses
\* and reconciliations do, only the latest attempt can be active, and a run
\* that completed or failed has left no attempt active behind it.
AttemptsSequential ==
    \A a \in Attempts : attemptState[a] \in ActiveAttempt =>
        /\ a = Latest(a[1])
        /\ runState[a[1]] \notin {"COMPLETED", "FAILED", "NONE"}

\* Every unfinished mutating run mutates under exactly one held guard of its
\* record, its own or one a member let it override, however its siblings end.
MutationGuarded ==
    \A r \in MutatingRuns : Unfinished(r) =>
        \E g \in HeldOn(RecordOf[r]) :
            /\ r \in Participants(g)
            /\ HeldOn(RecordOf[r]) = {g}

\* No guard outlives its participants: a held guard has one that is unfinished,
\* or the record could never be mutated again.
GuardHeldForSomeone ==
    \A g \in Runs : guard[g] = "HELD" => \E p \in Participants(g) : Unfinished(p)

\* Two active attempts hold live leases on one record only if their runs share
\* its guard, which takes a member's override.
LeasesShareGuard ==
    \A a, b \in Attempts :
        /\ a[1] # b[1]
        /\ RecordOf[a[1]] = RecordOf[b[1]]
        /\ \A x \in {a, b} : attemptState[x] \in ActiveAttempt /\ lease[x].state = "ACTIVE"
        => \E g \in Runs : guard[g] = "HELD" /\ {a[1], b[1]} \subseteq Participants(g)

\* Session and lease of a mutating attempt live, are renewed and end together,
\* so no fence or expiry of the one outlives the other.
LeaseFollowsSession ==
    \A a \in Attempts : a[1] \in MutatingRuns =>
        /\ session[a].state = lease[a].state
        /\ session[a].fence = lease[a].fence
        /\ session[a].expires = lease[a].expires

\* A cancelled run keeps no authority of any of its attempts: no permit that
\* could still be consumed, no live session or lease, no operation that was
\* authorized and not yet carried out; and its active attempt is asked to stop.
CancelledRunHasNoAuthority ==
    \A a \in Attempts : runState[a[1]] = "CANCELLED" =>
        /\ permit[a].state # "ISSUED"
        /\ session[a].state # "ACTIVE"
        /\ lease[a].state # "ACTIVE"
        /\ \A o \in operations : o.attempt = a => o.state # "ISSUED"
        /\ attemptState[a] \in ActiveAttempt => <<a, "CANCEL_ATTEMPT">> \in intents

\* Once the run, its runner or its dispatcher has been revoked, no active
\* attempt of the run holds a session, also none authorized afterwards.
RevocationHolds ==
    \A a \in Attempts :
        /\ attemptState[a] \in ActiveAttempt
        /\ a[1] \in revokedRuns \/ revoked["RUNNER"] > 0 \/ revoked["DISPATCHER"] > 0
        => session[a].state # "ACTIVE" /\ lease[a].state # "ACTIVE"

\* Authority ends with what it rests on, and all of it at once: sessions with their
\* leases, a cancelled or revoked run with its permits, sessions and operations, and
\* a record is shared only under its guard.
AuthorityEndsTogether ==
    LeasesShareGuard /\ LeaseFollowsSession /\ CancelledRunHasNoAuthority /\ RevocationHolds

\* An operation is carried out only inside the authority it was issued under:
\* the session is live and unexpired, neither renewed nor replaced since, and
\* a mutation has a live lease of the same fence.
OperationsWithinAuthority ==
    [][\A o \in operations :
          o.state = "ISSUED" /\ [o EXCEPT !.state = "CONSUMED"] \in operations' \ operations =>
             LET a == o.attempt
             IN  /\ session[a].state = "ACTIVE"
                 /\ session[a].fence = o.sessionFence
                 /\ now < session[a].expires
                 /\ now < Deadline
                 /\ runState[a[1]] # "CANCELLED"
                 /\ NeedsLease(o.kind) =>
                        lease[a].state = "ACTIVE" /\ lease[a].fence = o.leaseFence]_vars

\* Terminal runs and attempts are immutable, late reports, retries and
\* reconciliations notwithstanding.
TerminalIsFinal ==
    [][/\ \A r \in Runs : runState[r] \in TerminalRun => runState'[r] = runState[r]
       /\ \A a \in Attempts :
             attemptState[a] \in TerminalAttempt => attemptState'[a] = attemptState[a]]_vars

\* A run completes only on what its latest attempt delivered, and on gates
\* that passed on its newest diff, never on those of an earlier head.
CompletionIsEvidenced ==
    [][\A r \in Runs : runState[r] # "COMPLETED" /\ runState'[r] = "COMPLETED" =>
          /\ attemptState'[Latest(r)] = "EXITED"
          /\ result'[Latest(r)] \in Delivered
          /\ \A h \in Heads : evidence'[r].diff = h =>
                \A g \in Gates : evidence'[r].gates[<<h, g>>] = "PASSED"]_vars

\* The mutation guard as its users see it: who reserved a record, and which
\* runs are still at work under that reservation.
MG == INSTANCE MutationGuard WITH
        Mutators <- MutatingRuns,
        owners <- [c \in Records |-> HeldOn(c)],
        members <- [c \in Records |-> {r \in MutatingRuns : RecordOf[r] = c /\ Unfinished(r)}],
        left <- {r \in MutatingRuns : runState[r] \in TerminalRun}

\* Launches, overrides and every way a run can end implement the guard.
ImplementsGuard == MG!Spec

================================================================================
