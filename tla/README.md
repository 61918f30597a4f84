# Verification of 2Collab

TLA+ models of the 2Collab coordination server and of its runners, the TLC runs that check them on small
instances, and theorems about them checked by TLAPS. Everything is translated from the code under `src/`, read with its
tests, its migrations (the CHECK constraints are part of what a command does) and `docs/`. `PROJECT.json` names, for
every definition that models code, the lines it stands for; paths below are relative to `src/src/` unless they start
with `docs/`.

- [1. The system](#1-the-system)
- [2. Plan](#2-plan)
- [3. Modules](#3-modules)
- [4. Runs](#4-runs)
- [5. Proofs](#5-proofs)
- [6. Where code and documents disagree](#6-where-code-and-documents-disagree)
- [7. What is not modelled](#7-what-is-not-modelled)

To repeat the checks: `tlc -config X.cfg M` for a run of the table in section 4, `tlapm M.tla` for a proof module.

## 1. The system

2Collab is a server (Bun, one SQLite database) that coordinates coding agents which members start on their own machines.
A *runner* daemon on such a machine holds a WebSocket to the server, starts agent processes and reports what they do.

### Components

| Component | State | Operations | What makes it correct |
|---|---|---|---|
| **Execution Authority** `server/modules/execution-authority`, `runs` | runs, attempts, Dispatch Permits, Authority Sessions, mutation leases, mutation guards and overrides, operation authorizations, results, evidence, authority revocations, epochs | commands `LAUNCH_RUN`, `AUTHORIZE_ATTEMPT`, `CONSUME_PERMIT`, `RENEW/RELEASE_SESSION`, `RECORD_ATTEMPT_EVENT`, `CHECKPOINT_RUN`, `CANCEL_RUN`, `AUTHORIZE/CONSUME_OPERATION`, `RECORD_RESULT`, `RECORD_EVIDENCE`, `APPLY_REVOCATION`, `RECONCILE_ATTEMPT`, `ACKNOWLEDGE_COLLISION` | attempts of a run follow one another; what ended stays ended, and ended on evidence; a mutating run works under the one guard of its record; an operation is carried out only under a session, a lease and a fence that still stand; what was cancelled or revoked has no authority left |
| **Runner semantic channel** `runner/outbox.ts`, `runner/transport`, `server/adapters/wss`, `runs/event-deduplication.ts` | the outbox on disk, the client's queues, connections, the server's session chains, the cache of answered events, the accepted events | send, flush, acknowledge, resend, reconnect, hello and welcome, accept or reject, restarts | each event is applied once, in the order observed and without a gap; none is forgotten; each is settled at last, unless the client stops for good |
| **Workflow engine** `server/modules/workflows` | executions, step occurrences, launch intents, cancellation outbox, join states, cycle counters, decisions; a tick's loaded rows | start, pause, resume, cancel, decide, accept, revoke; the tick: expire, resolve, launch, record, cancel | bounds hold under every interleaving of the tick's awaits; no losing, stopped or late run is left alive unqueued; a terminal execution is final; every execution ends |
| **Launch delivery and runner supervisor** `server/adapters/wss/durable-dispatch.ts`, `production*.ts`, `runner/supervisor.ts`, `process-state.ts` | deliveries and signed permits, process reservations on the runner | dispatch, acknowledge, redeliver, reserve, consume permit, start, recover | at most one process per attempt, each recorded; a committed delivery is not forgotten |
| **Identity** `server/modules/identity`, `server/commands/auth-recover.ts` | members, sessions, passkeys, challenges, invitations, provider identities, recovery codes, device families, the revocation outbox | bootstrap, register, authenticate, rotate, invite, exchange, accept, link, change roles, remove a member, recover, authorize a device | a workspace keeps an owner; whoever is removed holds nothing; what may be used once is used once |
| **Runner registry** `server/modules/runners` | pairings, runners, mapping and profile versions, acknowledgements, exposures, the policy revision, access tokens, request proofs | pair, map, publish a profile, acknowledge, expose, revoke, heartbeat; launch, attempt and permit look at all of it | what was withdrawn stays withdrawn; an attempt starts only under the facts its owner acknowledged |
| **Connectors** `server/modules/connectors` | scopes, epochs, intents, authorizations, projections, results by key; encrypted credentials | mutate (member, attempt), confirm, observe, recover, a new epoch | a change at the provider is committed once, under the authority it was checked with, and never over a newer state |
| **GitHub coordination** `server/modules/github-coordination`, `server/adapters/github` | deliveries and their applications, cursors, projections | receive a webhook, consume at startup, scan on a timer | a pass that is finished has seen what it says it has |
| **Presets, context and launch configuration** `server/modules/presets`, `context`, parts of `server/dependencies.ts` | presets, recipes and defaults with versions, configuration snapshots and envelopes | create, edit, archive, set a default, resolve, show, prepare, store, read; assemble an envelope | what is stored is what was shown; nothing withdrawn is in it; an envelope fits its recipe |
| **Authoring and managed loops** `server/modules/workflows`, `templates`, `projects` | drafts, templates, workflow presets, projects, request keys; a loop's attempts, evaluations and counters | revise, publish, copy, bind, create; record, evaluate, request the next attempt | one effect per request; no lost update; a budget and a stop policy count what happened |
| **Repository work on the runner** `runner/repository` | the worktree's row, its directory, local and remote branches | create or reuse, publish, clean up, retain, discard | no commit and no edit is lost but by a decision that was shown it |
| **Operations** `server/operations`, `server/db` | database, key rows, key file, backups, restore lock and marker | seal, rotate, rewrap, back up, retire, restore | what is in force can be opened; what a restore ends stays ended |
| **Coordination records** `server/modules/coordination-records` | records, source links, aliases | resolve, link, coalesce | one canonical record per piece of work |
| **Documents and gates** | working documents, proposals, gate fingerprints | edit under a revision, propose, evaluate | no lost update |
| **Surfaces** `server/adapters/http`, `mcp`, `cli`, `web` | none of their own | one command each | — |

### How they interact

Members, the scheduler and runners send *commands*. A command is one synchronous `BEGIN IMMEDIATE` transaction
(`server/db/transaction.ts`) and so one atomic action, whoever else is active; it carries the revision its sender read
and is refused when the row moved. Everything between two transactions interleaves: the scheduler's tick awaits between
reading its rows, launching and recording; a WebSocket session works through a chain of promises while the socket may
be gone; the runner's events wait on disk for a connection. Commands are idempotent by key: a replay answers what was
stored, and changes nothing. Modules call one another inside a process; the runner and the server share nothing but
messages. A command that needs a digest, a signature or a provider is in two parts, with an await between its read and
its transaction; the transaction looks at the rows again, or does not, and that is where most of the models' questions lie.

### What is hard here

- A grant (permit, session, lease, operation) outlives the facts it was given under: expiry, fences, epochs and
  revocations have to be looked at when it is used.
- Reports of a runner arrive late, twice, out of order with respect to cancellations, or not at all.
- A launch, its answer and its recording are three steps; cancellation, the deadline or a crash may fall between any two.
- Events are resent over several connections while an older session is still working through its frames.
- A member is removed, a runner revoked or a connector moved on while others' commands are between read and transaction.
- Offline commands work on files and a database in steps, and may be ended between any two.
- The database itself refuses some updates (CHECK constraints), and then takes the whole command back.

`PROJECT.json`, "hazards", lists each place with its line and the properties that watch it.

## 2. Plan

The order is by importance of the behaviour; a module that composes or refines another comes after it. All modules of
the plan are written.

1. `ExecutionAuthority`, refining the abstract `MutationGuard`.
2. `RunnerEvents`, refining the abstract `EventLog`: outbox, client, connections, server sessions and acceptance.
3. `WorkflowDefinition` (validation and routing as operators) and `WorkflowEngine` (executions and the tick).
4. `RunnerLaunch`, refining the abstract `LaunchOnce`.
5. `Identity` and `RunnerRegistry`, composed in `Membership`: a removal ends what both hold in one transaction.
6. `ConnectorAuthority` and `GitHubReconciliation`, composed in `Connectors`: mutations and scans under one authority.
7. `Worktrees`: every operation of the runner on a worktree, git command by git command.
8. `Maintenance`: sealing, rotation, backup, retention and restore over a database that is a value.
9. `ContextEnvelope` and `Configuration`, `Authoring`, `ManagedLoop`, composed in `Automation`: what a workflow is started from.

Every safety property that a run checks is proved as well (section 5), two of them under a condition on workflow definitions that
validation does not ask for. The modules that are proved about declare no RECURSIVE operator. What is left: the properties of
liveness, which the prover does not handle, and abstract modules that `Identity` and `Worktrees` could be shown to implement, as
`ExecutionAuthority`, `RunnerEvents` and `RunnerLaunch` are: "an invitation is accepted once", "a commit has a keeper".

## 3. Modules

### ExecutionAuthority, MutationGuard

`ExecutionAuthority` has one action per command, with the database's constraints and triggers as guards: a command the
database takes back is a step that does not happen. Rows are records (`permit`, `session`, `lease`, `operations`), one per
attempt; `guard` and `overrides` are the rows of `mutation_guards`; `now` is the clock in seconds, `Tick` its step.
`runnerFacts` is one number for the revisions of policy, profile, mapping, security and exposure a permit is bound to:
a permit whose number is not the current one is denied. `revoked` holds the sources `APPLY_REVOCATION` was called with.

What is idiosyncratic in the code is in the model: consumption of a permit reads neither the attempt's nor the run's state;
a terminal event leaves an ISSUED permit; runs are finalized by attempt events, reconciliation and results and not by
evidence; a loss, a failed start or a start reported for a cancelled run meets a CHECK of `agent_runs` and aborts; a
reconciliation that found EXITED always aborts, for want of an exit code; a connector revocation leaves unused permits.
Member removal commits before the revocation it asks for (`RemoveMember`, then `Revoke`).

Abstracted: one runner, one dispatcher, one owner and one connector; the content of an operation but its kind; receipts,
audit rows and revisions (a stale command is refused: no step); diffs recorded within one second of each other (the code
orders them by random ids); the review state of a connector, which is part of its epoch. It is assumed that the workspace
has another active owner when a revocation is applied.

`MutationGuard` is what the guard promises: reserve a free record, join by override a reservation whose owner is at work,
leave once, free when the last has left. `ImplementsGuard` is the refinement, with `owners`, `members` and `left` mapped
from guard rows, overrides and terminal runs.

### RunnerEvents, EventLog

One run's attempt events from the runner to the database. `rows` is the outbox on disk; `outbound` and `inFlight` are the
client's queues; `link` its reconnect state; `conn` the connection it believes in; `session[c]`, `up[c]` and `down` a connection's state and
frames on the server and on the way; `late` acknowledgements handled by the chain of a connection that is gone; `cache` the adapter's
map of answered events; `accepted` the table of accepted ones; `revision` the run's, which other commands move too.

A daemon that starts puts the unsettled rows of its disk into its queue: `UnsettledEvents` is the set of them, and the queue is the one that
`Lists` it in order.

A failed request for access stops the client: `issueAccess` throws, for whatever reason, and `start` makes it the end of the reconnect state
machine (`FailAccess`; `runner/transport/wss-client.ts:416-426`, `reconnect.ts:57-62`). Nothing but a new daemon starts it again, so what is
not acknowledged then stays in the outbox; `EventsSettle` says that every event is settled *or the client has stopped*.

Abstracted: the pair of run and attempt revisions is one number, so that whether an event is legal is fixed when it is
observed; wire and receive chain are one queue; a lost frame is a lost connection (`closeOnBackpressureLimit`). Left
out: byte and rate limits, eviction of the cache (like a restart, for one entry), requests with a `requestId`, output
chunks, heartbeats, failures of the runner's SQLite.

`EventLog` is the promise without the protocol: a book of what the runner knows of each event it observed, and the log of those
applied. Events are observed, applied one after the other, and settled once each; what is settled is not applied any more, and what is
rejected had not been. The book is mapped from `rows` (both unsettled states are OPEN), the log is `accepted`.

### WorkflowDefinition, WorkflowEngine

`WorkflowDefinition` has `validateWorkflow` as the predicate `ValidWorkflow` and the routing functions `TargetOf`,
`RouteStep`, `EvaluateJoin`. It takes part in everything: the definitions of the runs and of the proofs are *assumed* well formed and valid,
TLC evaluates that for those of the runs, and the proofs use it (a selected target is always a node). `WorkflowEngine` has
one action per command and one per step of the tick between two awaits:

| Action | Code (`workflow-engine.ts`) |
|---|---|
| `Start`, `Pause`, `Resume`, `Cancel`, `Revoke`, `Decide` | `start`, `control`, `applyRevocation`, `decide` |
| `Accept` | `accept`: result of a step, through join or router, losers, cycle bounds, next target |
| `TickBegin` | `tick` 804-836: executions past their deadline, open intents loaded |
| `Select`, `Resolve`, `ResolveStale` | 841-890: binding resolved again (await), state and concurrency looked at |
| `Launch`, `LaunchRefused` | 897-903, `step-run-factory.ts`: `LAUNCH_RUN` (await) |
| `Record` | 904-1004: the run recorded as running, or as cancelled and queued |
| `LoadCancellations`, `CancelRun`, `CancelRefused`, `MarkRequested` | 1005-1041: the cancellation outbox (two awaits) |
| `Crash` | the server stops, or the tick throws; rows stay, loaded rows are forgotten |

The execution authority is external here: `run` says whether a step's key has a live or ended run, `record` is the
coordination record's revision, which other commands move (`RecordMoves`). An occurrence's id is `node-n` for all
executions (a primary key, `0014_workflow_execution.sql:19`), so it can belong to one execution only; the model keeps that.
Commands carry the current revision; the role check of `decide`, receipts and the counters of edges that nothing reads are
left out; run templates are taken to have passed their checks; `Revoke(x)` is a revocation of anything `x` depends on.

Two conditions on definitions are stated beside validation, which asks for neither. `JoinsApart`: no run is a branch of two joins.
`NoWayBack`: nothing behind a join leads back to its branches. The definitions of the run satisfy both (`OncePassed`, which TLC
evaluates), and what is proved of joins needs them; TLC finds accepted definitions without them for which it fails. The state of
a join is written once and never reset (`workflow-engine.ts`, `accept`): on a second pass every branch counts as lost, is queued for no
cancellation, and its result selects nothing. And of two joins that share a branch each selects a target, and in an execution
that is paused the second overwrites the first, against "cannot transition the Workflow Execution again" (`docs/product/PRODUCT-SPEC.md:711`).

### RunnerLaunch, LaunchOnce

How a committed attempt becomes one process. On the server: `row` is the attempt's row in `runner_dispatch_outbox`, `permit` its
Dispatch Permit, `signing` the commits whose permit is being signed (an await), `pending`, `buffered` and `queued` the runner's
channel (`runner-channel.ts`), `attached` and `up` the session and its chain. On the runner: `local` is the table
`local_processes`, `inbox[c]` the frames in the chain of connection `c`, `preparing` and `consuming` the handlers suspended at
their awaits, `watched` the processes the daemon waits for, `reported` and `acks` what is in the outbox.

| Action | Code |
|---|---|
| `Commit`, `Dispatch` | commit of a launch; `durable-dispatch.ts` `dispatch` and `runner-channel.ts` `transmit`, every outcome of the send |
| `Drain`, `Connect`, `Detach`, `Break` | `drain`, `attach` with `resendPending`, `detach`; the connection breaks and a prefix of what was sent has arrived |
| `Consume` | the session handles `CONSUME_DISPATCH_PERMIT` and answers |
| `ReceiveAck`, `FailAck` | `acknowledgeDelivery`; the CHECK on `dispatched_at` refuses a late one and the session closes |
| `ServerRestart` | channels are gone, `prime` loads what is undelivered |
| `HandleLaunch`, `FailPreparation`, `Reserve` | the client's chain takes a launch; `supervisor.launch` up to its request for the permit |
| `HandleAnswer` (`Refused`, `NotStarted`, `Started`), `TimeOut` | the rest of `supervisor.launch`, after its answer or ten seconds |
| `Exit`, `RunnerRestart`, `CrashStarting` | a process ends; the daemon is started anew, at any time or between two writes of a start |

Two facts of the code shape everything. The client handles one envelope at a time and a launch waits *inside* its handler for an
answer that arrives as a later envelope on the same connection: a process starts only when the answer comes over another
connection than the launch did. And only a delivery that is sent the moment it is committed is marked `DISPATCHED`.

Abstracted: the handshake is part of `Connect` (`RunnerEvents` has it); what a permit depends on is in `ExecutionAuthority`, so the
server may refuse one at any time; the socket sends its queue in any order; the preparation of worktree and environment is one
step that succeeds or fails; output, heartbeats and receipts are left out; a process that starts is reported and acknowledged
in one turn. `LaunchOnce` is the promise, a stage per attempt: WAITING, PERMITTED, STARTED, ENDED; `LaunchOnceStage` maps
`running`, `spawned` and `permit` to it.

### Identity, RunnerRegistry, Membership

The commands of `server/modules/identity` await a digest or a WebAuthn verification between their read and their immediate
transaction. Where the transaction repeats all checks, the command is one action; where it relies on what was read, it is a
`Read` and a `Commit`, and `work[c]` holds what client `c` has read. The code compares row revisions; the model says it as
`fresh`: every write takes freshness from the commands in work that read the row, which is what a revision that no longer matches
means, without a counter. A member's authority epoch rises just once, on removal, so "of the current epoch" is "of a member not
removed". Deadlines pass at any time (`Lapse`).

`RunnerRegistry` is split in the same way. `LaunchFacts`, `FactsMatch`, `ConfigurationCurrent` and `PermitStands` are the three
times a launch is compared with what the runner's owner grants: in the transaction that creates the run, that authorizes its
attempt, that consumes its permit. Its clock has ticks of 300 seconds: an access token lives two, clock skew is one, a replay row two.

`Membership` is both over one database: `active` and `device` of the registry are *defined* from Identity's rows, and a removal
is a step of both at once, as it is one transaction in `identity/revocation.ts`. Each behaviour uses one *workload*, a set of
commands: their product would not be checkable, and commands that share no row do not disturb one another.

Abstracted: the cryptography (a proof, a passkey, an identity is a name; who does not hold it has no step); DPoP and OIDC
verifiers; listings; one project and one profile; the runner's security policy, fixed at pairing. What stands out in the code:
`revocationActorAuthorized` (`execution-authority.ts:2613`) refuses the revocation when it was the removed member who asked for it; an
exposure that is stale but not revoked blocks a new one for the same mapping and profile (`Unexposed`); `registerMapping`
always inserts revision 1, so a mapping that was revoked cannot be registered anew; the launch checks look neither at the latest
profile version nor at the policy's audience; `runner_authority_change_outbox` is written and never read.

### ConnectorAuthority, GitHubReconciliation, Connectors

| Action | Code (`connector-authority.ts`) |
|---|---|
| `BeginMutate` | scope, session or authorization and projection are looked at; an attempt's permit is consumed |
| `IssueAuthorization` | looked at again; intent PENDING, authorization RESERVED |
| `ProviderChanges`, `ProviderRefuses` | the await on the provider, with each outcome |
| `Confirm` | projection, intent and the result by key, unless scope, projection or caller have changed (`FreshAtConfirm`) |
| `Observe`, `Reconcile` | an observation of the provider, applied later and perhaps after a younger one |
| `BeginRecovery`, `CommitRecovery` | an intent whose answer was lost, found again in a scan |
| `ChangeEpoch`, `RemoveMember`, `RevokePermit`, `Restart` | what others do meanwhile |

The content of an item is how often it was changed. `GitHubReconciliation` has the webhook inbox (`Receive`, `Startup`, `Consume`)
and the scheduler (`Scan`, `BeginPass`, `FetchPage`, `ApplyEvent`, `NextPage`, `LastPage`) as one job at a time, since the
server awaits each in turn; `Conflicts` is the check of the idempotency key in `applyReconciliation`. `Connectors` composes
the two: `usable` of the scans is `Usable(epoch.epoch)` of the authority, so an epoch may change under a scan.

What stands out: `runReconciliation` answers `ok: true` whatever happened, so the scheduler's back-off never applies (`OutcomeAlways`); a
delivery received after startup waits for the next startup; an application whose delivery conflicted stays PENDING and is consumed; after
`changeEpoch` the scopes keep the old epoch and no code brings them forward, so that nothing under that connector is usable again;
nothing in production inserts a scope, a cursor row, an installation or a selected repository, nor calls `recoverPending`; these rows are given
in the model. Assumed: every item of a scan is in the connector's scope (one that is not stops the pass), each change at GitHub
has an `updated_at` of its own, an item stays on its page.

### Maintenance

The database is one record; a backup copies it and a restore puts another in its place. A ciphertext is the record of what it
was sealed with and authenticated by: key, version, revision. Each offline command is a sequence of steps, and `EndCommand` (a kill)
may come between any two, as may a damaged backup file. `hot` is a `-wal` file left beside the database. What stands out:
the server wraps a class key under the name its environment gives the master key and the commands under another
(`ServerName`, `CommandName`: the run `rotation_stuck`); a revocation raises the revision a row is authenticated with
and does not seal it again, so the row cannot be opened and the rotation of its class cannot be completed; retention has only the current master key, so backups
of an older one count as unreadable; nothing but the operator keeps a command and a server apart, which the model assumes.
`put` and `sealCredential` have no production caller. The upsert of `put` does not write `revoked_at`, so that a secret stored over a
revoked row would stay revoked (`Upserted`), a second defence behind the guard it stands under.

A *grant* is a row by which somebody may do something. `invalidateAuthority` (`restore.ts:209-394`) treats them in three ways, and the model
has a set of each:

| Kind | What a restore does | Rows |
|---|---|---|
| `Listed` | ends every one | sessions, challenges, invitations and their exchanges, host recovery codes, device codes, families and tokens, runner pairings and credentials, permits, authority sessions, leases, operation authorizations, guards, connector authorizations, document grants |
| `Bound` | leaves the row and raises the epoch it is compared with | connector scopes |
| `Standing` | leaves it as the backup has it | recovery codes and their sets, OIDC transactions, passkeys, provider identities, memberships, exposures and acknowledgements |

`Held(d)` is the set of grants of `d` that hold. An owner's review raises the epoch and leaves the scopes behind (`RaiseEpoch`); a removal raises
both, so that a scope that was behind stays behind (`MoveScopes`). What is withdrawn while the server runs, and what the replaced database held, is in
`withdrawn`; `NothingReturns` says that no grant which is not standing holds again. Of the standing ones it is false (section 6). A restore revokes
the credentials that Outline's rows name and no others (`OutlineSlots`). It makes the deployment a new incarnation, which nothing in the
program looks at; the model uses it to tell the databases apart. The REVIEW_REQUIRED of restored connectors is left out.

`restoreBackup` opens the backup and not the database it replaces, and removes no `-wal` of it: beside one, SQLite would read the log's pages over the
promoted file. What that mixture is cannot be said in terms of rows; `Promote` has no such step, and the model claims nothing of it.

A behaviour uses one *workload*: a set of operations, and how many credentials and backups they are used on (`MCMaintenance`).

### Worktrees

One operation holds the repository's lock, which is in memory; a restart ends it between any two git commands. Commits are numbered,
`history` has their ancestors, `ref` and `remote` what the branches point at. An *observation* has what the digest of the code
covers, the kinds and paths of uncommitted changes and not their content: an edit to a file that already was dirty, between
the last look and a forced discard, is deleted unseen. `EditsSurvive` is about the cleanup, which nobody confirms and git does not force;
a discard gives up what it was shown. In the environment commits are made on the run's branch, and no file is ignored: a commit on a detached HEAD,
or a file that `.gitignore` hides from the look, would go with the directory. A daemon killed between `git worktree remove` and `markRemoved` leaves a record without a directory,
and every later operation fails. In production only `createOrReuse` is composed (`runner/production-composition.ts:117-135`).

### ContextEnvelope, Configuration, Authoring, ManagedLoop, Automation

`ContextEnvelope` is `assembleBootstrapEnvelope` as operators: deduplication by name and by content, forbidden and predecessor
references, limits by category, total and bytes, omissions; `WithinBudget` is the condition under which the authority stores it.
`Configuration` has presets and recipes in immutable versions, the registry's facts, and a launch in its phases:

| Action | Code |
|---|---|
| `ResolveRun`, `ResolveStep` | `configuration-resolver.ts`: a version and the facts as they are, digested; shown, or pinned by a workflow |
| `RefreshFacts`, `PrepareConfiguration` | `server/dependencies.ts`: resolved again and compared with the digest |
| `StoreConfiguration` | the facts compared in the transaction that creates the run |
| `Readable` | the snapshot parsed again for its delivery |

A digest is the record it is made of. What stands out: connector epochs and grants of a configuration are always empty; presets made from
a template, and those without a recipe, resolve and are refused when prepared; `setProjectDefault` does not look at the binding; a
recipe archived between preparation and storage is not noticed; exposures start again at revision 1, so one that was withdrawn and
granted anew makes an old, pinned launch valid again (`NothingWithdrawnIsStored` says "not granted anew"). An envelope whose omissions name
one reference of one category twice is refused. `assembleBootstrapEnvelope`, the recipe and preset stores, publishing and the
project registry have no production caller; the production envelope carries no references. A launch needs the runner's observation of
the last 30 seconds, which the model assumes it has.

`Authoring` has clients that send one request under a key of their choosing, again and concurrently; `CommitBind` is apart from
its read because two binds under one key may be under way: the second answers VERSION_CONFLICT though the first has succeeded. `ManagedLoop`
has `record`, `evaluate` and the counter of consecutive matches; two `CONSECUTIVE_MATCHES` of one policy share a counter
(`docs/FINDINGS-2026-07-14.md`, F-40), so the model's policies have one. `Automation` composes them: presets offered to a workflow preset are those that
`Configuration` can resolve.

### Proof modules, MC modules

`ExecutionAuthorityProofs`, `RunnerEventsProofs`, `WorkflowEngineProofs`, `RunnerProofs` (`RunnerLaunch` and `Worktrees`),
`ConnectorAuthorityProofs` (`Connectors` as well), `MaintenanceProofs`, `MembershipProofs` (`Identity` and `RunnerRegistry`, as they are
composed) and `AutomationProofs` (`Configuration`, `ContextEnvelope`, `Authoring` and `ManagedLoop`, as they are composed): section 5.
`MCExecutionAuthority`, `MCWorkflowEngine`, `MCMaintenance` and `MCAutomation` give constants their values; `MCConnectors`, `MCMembership` and
`MCMaintenance` name the sets TLC may take as symmetric: clients (and keys, of connectors), master keys; no definition chooses among them. Before some
definitions stand variants of them with a plausible mistake (a guard dropped, a check forgotten): nothing uses them; each is the
mutant, listed in `PROJECT.json`, that shows that a property depends on that piece of code.

## 4. Runs

A property that is a conjunction is listed with its parts; type invariants (`TypeOK`) are such parts.

| Run | Bounds | What it asks and shows |
|---|---|---|
| `authority` (`MCExecutionAuthority`) | 2 mutating runs on one record, the second scheduled, the first with a connector; a third before any session is opened (it matters to the guard alone), a fourth, not mutating, by itself; 1 attempt each; clock to 1; 2 fences, epochs and versions of the runner's facts; at most one source of authority withdrawn | `MutationGuarded`, `GuardHeldForSomeone`; `AuthorityEndsTogether`: `LeasesShareGuard`, `LeaseFollowsSession`, `CancelledRunHasNoAuthority`, `RevocationHolds`; `ImplementsGuard` (refinement); `OperationsWithinAuthority`. 137,000 states |
| `authority_outcomes` (`MCExecutionAuthority`) | 1 run, 2 attempts; 7 events, 3 observations, 2 kinds of result, 1 gate, 2 heads; clock to 1 | `AttemptsSequential`, `CompletionIsEvidenced`, `TerminalIsFinal` |
| `events` (`RunnerEvents`) | 2 events, 3 connections, 1 restart of each side, 1 launch | `EventsAccounted`: `TypeOK`, `UnsettledIsCarried`, `AppliedInOrder`, `RejectedIsNotApplied`; `ImplementsEventLog` (refinement); `EventsSettle` (liveness). 564,000 states |
| `workflow` (`MCWorkflowEngine`) | 1 execution of any of 4 definitions, 3 occurrences of a node, record revision to 4, 1 crash | `ConcurrencyBounded`, `StoppedChildrenAreCancelled`, `LosersAreCancelled`; `MovesStand`: `TerminalIsFinal`, `PendingIsEntered`; `ExecutionsSettle` (liveness): `ExecutionsEnd`, `CancellationsAreRequested` |
| `launch` (`RunnerLaunch`) | 1 attempt, 3 connections, 1 restart of either side | `LaunchIsKept`: `DeliveryIsRetained`, `ReservationIsAttended`, `RunningIsRecorded`, `AcknowledgedWasStarted`; `ImplementsLaunchOnce` (refinement); `ChainsAreWorkedOff` (liveness) |
| `membership` (`MCMembership`) | 3 members, 2 of them owners; 2 commands of each module under way; 19 workloads; 2 runners, pairings, tokens and proofs, 1 launch; 2 revisions, 3 policies, clock to 3 | `OwnerRemains`, `RemovedHoldsNothing`; `AcceptedOnce`: invitations, challenges, codes, refresh credentials, pairings, proofs; `RevokedHoldsNothing`, `StaysWithdrawn`, `ConsumedIsAllowed`. 846,000 states up to symmetry |
| `connectors` (`MCConnectors`) | 1 member, 1 attempt, 2 keys, 2 references, 2 calls under way; 2 projects, 3 items on pages of 2, 1 delivery, 2 versions; 12 workloads | `ResultsAgree`: `TypeOK`, `AppliedOnce`, `CommittedIsApplied`; `ScansAreTrue`, `CommitsUnderItsAuthority`, `NoLostUpdate`. 1,394,000 states up to symmetry |
| `maintenance` (`MCMaintenance`) | 2 credentials, one of them Outline's, 2 master keys, 3 backups of which 2 are kept, 1 grant of each kind, connector epochs to 3 and those of 2 restores; 6 workloads | `KeysOpenAll`: `TypeOK`, `ActiveOpensAll`; `NothingReturns`, `RevokedStays`, `RetainsUsable`. 6,090,000 states up to symmetry |
| `worktrees` (`Worktrees`) | 2 commits, 2 edits, 2 branches, 2 authorizations, each kind of operation | `WorkSurvives`: `WorktreesTypeOK`, `CommitsSurvive`, `EditsSurvive`; `PushesWhatWasAuthorized` |
| `automation` (`MCAutomation`) | 1 preset, recipe and run, 2 versions; envelopes of at most 4 of 8 candidates; 2 clients and keys, each request sent twice; 2 reports, 3 evaluations of 2 sources; 7 workloads | `KeptAsShown`: `TypeOK`, `StoredAsShown`, `SnapshotReadable`; `NothingWithdrawnIsStored`, `EnvelopeFits`; `RequestsCountOnce`: `A!TypeOK`, `A!OneEffect`, `A!NoLostUpdate`; `LoopCounts` |
| `github_stale`, `rotation_stuck` | the smallest that show it | violations: section 6 |

Why the bounds are enough to be of interest. *Authority:* every comparison of a fence, epoch or time is between a value and its
successor; three mutators on one record give an owner, one who overrides and one who comes when the owner has ended; with one source of authority withdrawn per behaviour each
kind meets every state of permit, session, lease and operation. *Outcomes:* two attempts give "an older and a newer". *Events:* two events
give order and gap, three connections one that is new, one that closes and one whose session still works. *Workflow:* the four
definitions are a step retried through a router and sent back by a decision (cycle bound), an ALL join with one step at a time
(concurrency 1), an ANY race that cancels the remainder, and an ANY race that lets it finish, decided by a member; three
occurrences reach the cycle bound. *Launch:* the launch comes on one connection, its answer on the next, the delivery again on
the third; attempts share only the chains, and the proofs cover any number of them. *Membership:* two owners can remove or demote each other
at once, and the third member is the one invited or removed; with two commands under way one can fall between the halves of the other; a second
revision is what makes a first one stale. *Connectors:* two calls on one reference race, three items fill one page and
begin another; what a scan and a call share is the epoch alone, so a workload has one or the other. *Maintenance:* three
backups with two to keep leave one to retire, two restores give a restore of a restored database; a backup is taken while a rotation is half done, restored,
and the rotation resumed over credentials stored since; the epoch can be ahead of, at or behind the one a backup's scope was given under. *Worktrees:* one
commit that is published and one that is not. *Automation:* two sendings race, three evaluations separate "twice in a row" from
"twice". `CHECK_DEADLOCK FALSE` stands where the system may stop: everything has ended, or a bound of the model was reached.

*Fairness.* `EventsSettle` assumes of the client that it reconnects and drains, of the server that it works through its
chains, and that connections, bounded by `MaxConnections`, break only so often: a network that is at last stable. Of a request for access it assumes that it is
answered or fails (`WF` of `Connect \/ FailAccess`), not that it succeeds; when it fails the client has stopped, which the property allows.
`ExecutionsSettle` assumes that the clock passes every deadline, that the scheduler, started with
an interval of one second (`server/dependencies.ts:1231-1232`, `scheduler.ts`), goes on ticking, and that a cancellation
tried again and again is at some time not refused (a refusal needs a third party to move the run between the tick's
query and its command). `ChainsAreWorkedOff` assumes only what runs inside the daemon: a chain that is free takes its next frame, a
preparation ends, the timer of ten seconds fires; no network, no server. `NotLeftStale` (violated) assumes that the event loop goes
on and the clock with it, `RotationCompletes` (violated) that a rotation is resumed and runs. Every other property is safety and assumes none.

The records and sets of `MCWorkflowEngine` are written in TLC's own order of values on purpose: with several workers TLC 2.x can
otherwise fail while two of them normalise the same constant.

## 5. Proofs

All theorems hold for every value of the constants that satisfies the assumptions named in the modules, each of which TLC evaluates on a run:

- `ConstantsAssumption` of `ExecutionAuthority`: types, and that the mark for "no head" is no commit; no bound on how many runs, records, attempts.
- `BoundsAssumption` of `RunnerEvents`: naturals, and at least one connection.
- `BoundsAssumption` of `RunnerLaunch`: finitely many attempts; the rest naturals.
- `DefinitionsAssumption` (finitely many definitions, well formed and valid), `ExecutionsAssumption` (`None` is not an execution) and `BoundsAssumption`
  (`MaxRuns` does not cut off a definition's run bound) of `WorkflowEngine`.
- `ConnectorAssumption` of `ConnectorAuthority`: members are no attempts, `None` is none of the names, there is something to refer to;
  `ReconciliationAssumption` of `Connectors`: finitely many items, numbered from one, on pages that are not empty.
- `MaintenanceAssumption` of `Maintenance`: slots and backups are numbered, there is a master key, the three kinds of grants are
  disjoint, `None` is no rotation; the rest naturals.
- `IdentityAssumption` and `NamesAssumption` of `Identity`: finitely many members, some of them owners; identifiers of different tables
  differ (they are random), and `None` is none of them. `RegistryAssumption` of `Membership`: there are members and runners, and a
  behaviour that bootstraps an empty deployment does not begin with a runner or a device, whose owner would be nobody.
- `WorktreesAssumption` of `Worktrees`: naturals, at least one branch, and the four kinds of operation.
- `ConfigurationAssumption` of `Configuration` and `AutomationAssumption` of `Automation`: bounds, sizes and limits are naturals, there is
  a version, a loop's reports have finitely many names, its stop policies are of their type, and `None` is none of the rows.

`MovesOfExecutionsStand` and `LosersCancelled` have `JoinsApart` and `NoWayBack` as hypotheses in their statements (section 3); the
definitions of the run `workflow` satisfy them.

An inductive invariant was first checked by TLC as an invariant of its component's run.

| Theorem | Of | Argument |
|---|---|---|
| `ExecutionAuthorityProofs!TypeCorrect`, `AttemptsFollowOneAnother`, `TerminalStatesAreFinal` | `TypeOK`, `AttemptsSequential`, `TerminalIsFinal` | `AttemptsInv` = `TypeOK`, attempts are numbered without a gap, authority belongs to an attempt that exists, and `AttemptsSequential`. The latter alone is not inductive: that a retry finds no active attempt needs that there is nothing beyond `attemptCount` |
| `ExecutionAuthorityProofs!MutatorsAreGuarded`, `GuardsAreReleased`, `AuthorityImplementsGuard` | `MutationGuarded`, `GuardHeldForSomeone`, `ImplementsGuard` | `GuardInv`: a held guard's owner was launched as a mutator, one held guard per record, overrides name the guard of their own record, every unfinished mutator is under one, and someone unfinished is under each. The lemma `StepKinds` sorts the steps into those that launch, end a run, or leave guard and run states alone, and the refinement follows kind by kind |
| `ExecutionAuthorityProofs!AuthorityHasOneEnd` | `AuthorityEndsTogether` | `EndInv`: a session was opened by its attempt's permit and lives within the deadline, a mutator's session holds a lease, leases follow sessions; what an authorized operation names its session has reached; and the two conjuncts asked for. Instead of every action against every conjunct, lemmas say what one step can do to permits, sessions, operations and revocations (`PermitsMove`, `SessionsMove`, `OperationsMove`, `RevocationsMove`), and each conjunct is proved over those. That two leases on one record are under one guard comes from `GuardInv` |
| `ExecutionAuthorityProofs!OperationsStayWithinAuthority` | `OperationsWithinAuthority` | from `OperationsInv`: the fence an operation names is at most its session's and, while they are equal, the operation expires no later. Consumption compares fences and looks at the operation's expiry only |
| `ExecutionAuthorityProofs!CompletionNeedsEvidence` | `CompletionIsEvidenced` | `RunsMove`: the steps that complete a run are those that evaluate it, after the attempt, result or observation they record |
| `RunnerEventsProofs!EventsAppliedInOrder` | `AppliedInOrder` | inductive once `accepted` is known to be a sequence: acceptance appends only the successor of the last |
| `RunnerEventsProofs!EveryEventIsAccountedFor` | `EventsAccounted` | a refused event leaves no record at the server, so only the run's state can keep it from being applied when it comes again. The invariant says that it is *blocked*: it, or an event before it, is illegal or expects a revision the run has left; that is stable, as revisions rise and events are accepted in order. `RevisionInv`: the runner predicts no revision ahead of its own events. `AnsweredInv`: what was answered was decided. `ChainInv`: the current session's chain has no event whose predecessor is neither decided nor before it. `FlightInv`: what the client waits for is decided or in that chain |
| `RunnerEventsProofs!ProtocolImplementsEventLog` | `ImplementsEventLog` | from the same invariant, step by step: an event that is sent is observed; an answer settles an event the client still carries, so one that is open; what the server applies is legal in the revision it expects, so it is not blocked, so it was not answered and is open. Everything else, restarts included, leaves book and log alone |
| `WorkflowEngineProofs!TypeCorrect` | `TypeOK` | `TypeInv` adds `RowsInv` (reasons; a pending target and every step's node are nodes of the execution's definition; running steps are dispatched, steps still to be launched are not) and `TickInv` (what the tick holds is among the rows it loaded). Lemmas prove that validation makes every selected target a node |
| `WorkflowEngineProofs!ConcurrencyHolds` | `ConcurrencyBounded` | adds `RoomToLaunch`: from `Resolve` until `Record` there is room for one more. `NextStays` shows that no step but `Record` makes a step run, so room once found stays |
| `WorkflowEngineProofs!TerminalExecutionsAreFinal` | `TerminalIsFinal` | `NextStays`, and what `Record` writes for an execution that is neither ACTIVE nor PAUSED is CANCELLED |
| `WorkflowEngineProofs!StoppedChildrenQueued` | `StoppedChildrenAreCancelled` | `StoppedInv`: a stopped execution is terminal; a recorded and cancelled step is queued; a terminal step's run has ended; running steps of a stopped execution are queued |
| `WorkflowEngineProofs!MovesOfExecutionsStand` | `MovesStand`, given `JoinsApart` | `TurnInv`: an execution goes on with one thing at a time, which is a single run, the branches of one join that gathers, a decision, or a pending target. `FreshInv`: a step that is not dispatched is still to be launched or withdrawn, and what the tick has loaded is not dispatched. `EveryTurnMoves` sorts the steps into those that keep the turn, start a run, enter a node or accept a result |
| `WorkflowEngineProofs!LosersCancelled` | `LosersAreCancelled`, given `JoinsApart` and `NoWayBack` | `LosersInv`: a join that has not committed gathers one run of each branch (`Gathers`); after it has, what is alive is reachable from it (`Behind`, where `Reachable` is used as the least set that no edge leaves), and so no branch of it; what lost is withdrawn or queued (`Lost`) |
| `RunnerProofs!TypeCorrect`, `DeliveriesAreRetained` | `TypeOK`, `DeliveryIsRetained` | inductive, given the types |
| `RunnerProofs!RunningProcessesAreRecorded`, `ReservationsAreAttended`, `AcknowledgedLaunchesWereStarted` | `RunningIsRecorded`, `ReservationIsAttended`, `AcknowledgedWasStarted` | `LaunchInv`: requests and answers on their way name the handler that asked and tell the truth about the permit (`MessagesInv`); what was spawned has a consumed permit and a row past RESERVED, no waiting handler's row says STARTING, and what is acknowledged was started and reported (`ProcessInv`). `Quiet` collects the steps that touch no process, so that each conjunct is proved once for all of them |
| `RunnerProofs!LaunchesAreKept` | `LaunchIsKept` | the conjunction of the five above |
| `RunnerProofs!LaunchImplementsLaunchOnce` | `ImplementsLaunchOnce` | from `LaunchInv`: an answer that grants is the waiting handler's own, its permit is consumed, and a RESERVED row means nothing was spawned, so a start maps to `Start` |
| `RunnerProofs!WorkIsKept`, `AuthorizedIsPushed` | `WorkSurvives`, `PushesWhatWasAuthorized` | `WorktreeInv`: branches and remote have commits that were made, with all their ancestors (`RepositoryForm`); the worktree has its branch, and is gone while its removal goes on (`TreeInv`); what a cleanup is about to delete the remote has had (`CleanupInv`); an operation has an authorization and pushes what that names (`ClaimInv`). Between the look and the step others commit, push and edit: what was looked at is in `op`, and each conjunct is about that and not about what is there now |
| `ConnectorAuthorityProofs!ResultsAlwaysAgree`, `CommittedIsAlwaysApplied` | `ResultsAgree` | `Inv`: a call knows an epoch and a projection that stood once, and a projection of the same revision is the one it knows (`CallsInv`); an intent has one call, made under the authority the intent names, and nobody else settles it while that authority stands (`IntentsInv`); a permit is spent on one call or intent (`PermitsInv`); then committed is applied. `AuthorityGrows`, `ItemsGrow` and the like collect what every step keeps |
| `ConnectorAuthorityProofs!CommitsKeepTheirAuthority`, `ConfirmationsLoseNoUpdate` | `CommitsUnderItsAuthority`, `NoLostUpdate` | from `Inv` and a lemma that lists how a pending intent can be settled |
| `ConnectorAuthorityProofs!ConnectorsImplementAuthority`, `ConnectorsArePrudent` | the composition | a scan's or webhook's step leaves the authority's variables, an authority's step is one of `ConnectorAuthority`: `ConnectorsSpec => Spec`, and so everything above holds beside scans |
| `ConnectorAuthorityProofs!ScansStayTrue` | `ScansAreTrue` | `ScansInv`: what was shown, and what a pass or delivery began from, is no newer than what stands at GitHub (`SourceInv`); applications are of deliveries that came (`RowsInv`); the items of the page in hand are at least as new as what is shown, and items passed show at least the version the scan began from (`ScanInv`) |
| `MaintenanceProofs!CredentialsStayOpen`, `NothingEverReturns` | `KeysOpenAll`, `NothingReturns` | `Inv` speaks of every database there is, the present one, each backup's and a staged one, since each may become the present one: it is `Orderly` (`SavedInv`). That is: one key is active and a rotation leads from it to the pending one (`KeysInv`); outside a rotation the active key opens every live credential (`OpensInv`); no row is sealed for a revision it has not reached (`SealsInv`); no grant is of an epoch to come (`EpochInv`). A secret sealed and not yet stored opens with the key that will be active (`PutInv`, for no command runs beside a server). `StagedOrderly`: what a restore stages of an orderly database is orderly, and nothing is held in it but what stands, because listed rows have ended and the raised epoch is ahead of whatever a scope was given under (`EpochInv`); its incarnation nobody has seen (`StagedInv`) |
| `MaintenanceProofs!RevokedCredentialsStay`, `UsableBackupsAreRetained` | `RevokedStays`, `RetainsUsable` | from `Inv`: a revoked row is sealed for a revision before its own (`SealsInv`), so no rotation can open and move it, and `put` has no guard that a revoked row passes. The second from `RetireInv`: until retention has gone through its list, a backup not on it can be restored. Both speak of steps within one incarnation: a restore brings the rows of the backup |
| `MembershipProofs!OwnersRemain`, `RemovedMembersHoldNothing` | `OwnerRemains`, `RemovedHoldsNothing` | `IdentityInv`: before there is an owner there is no invitation; a device family that lives is of an active member, and who exchanges or refreshes its credential has read the member's row; a command that is still fresh has read rows nobody has written since. Each table has a lemma of what a step may do to a row, so that an invariant is kept table by table and not command by command |
| `MembershipProofs!IssuedOnce` | `AcceptedOnce` | `SpentInv`: whatever a session, a passkey or a member came from is spent, and what is spent stays so; a recovery code is spent when it is used or its set is replaced. `ProofsInv`: the row of a proof outlives the token the proof is for, so that a proof whose row was deleted is of no use |
| `MembershipProofs!RevokedRunnersHoldNothing` | `RevokedHoldsNothing` | what is acknowledged or exposed anew stands on a runner that lives in that very step; a runner that falls takes with it what rests on it (`FallTogether`) |
| `MembershipProofs!WithdrawnStays`, `ConsumptionIsAllowed` | `StaysWithdrawn`, `ConsumedIsAllowed` | `FactsInv`: acknowledged facts are not ahead of what stands, revisions only rise, and facts of the policy in force were exposed under a team audience. `LaunchesInv`: a launch is of the runner's owner or goes through an exposure. The launch checks do not look at the audience; that they need not is what the second theorem says |
| `AutomationProofs!ConfigurationIsKept`, `WithdrawnIsRefused` | `KeptAsShown`, `NothingWithdrawnIsStored` | `ConfigurationInv`: versions are only added and never changed, a launch under way stands on versions there are, a stored snapshot is of facts that were shown. What was withdrawn since has another revision, or none, so `FactsMatch` refuses it in the transaction |
| `AutomationProofs!EnvelopesFit` | `EnvelopeFits` | what `ContextEnvelope` keeps and adds up is defined by recursion over the positions of the candidates; the lemmas prove it by the least position that would break the claim: what is kept among the first `i` is within the limits (`SelectedFits`), and the previews of the first `i` take no more than there is (`PreviewsFit`) |
| `AutomationProofs!RequestsHaveOneEffect` | `RequestsCountOnce` | `AuthoringInv`: a key was used by one request and has its effect (`KeysInv`), an effect has one key (`EffectsInv`), an answer OK has its effect (`AnswersInv`); a second commit under one key meets a revision that has moved |
| `AutomationProofs!LoopsCount` | `LoopCounts` | `LoopInv`: the counter is the length of the row of matches after the last miss, among the evaluations that could be decided; an evaluation either makes that row one longer or is itself the last miss |

*Only model-checked:* liveness (`EventsSettle`, `ExecutionsSettle`, `ChainsAreWorkedOff`), which rests on fairness and `ENABLED` that
the prover does not handle. The library's induction theorems take an operator as a parameter, which the provers cannot instantiate either;
where a claim is about every position of a list, `AutomationProofs` argues by the least natural number of a set.

## 6. Where code and documents disagree

Two runs violate one property each, taken from the document it quotes (`PROJECT.json`, "findings").

- `github_stale`: the idempotency key of a scanned item is its reference and `updated_at`, but what is compared under that key includes what
  differs between scans; an unchanged item conflicts at the second scan (`connector-authority.ts:695`), the pass stops there at every
  tick, and what lies behind it is never seen (`docs/product/PRODUCT-SPEC.md:275`). With the conflict removed the property holds.
- `rotation_stuck`: the server and the offline commands name the same master key differently (`server/dependencies.ts:277`,
  `server/operations/backup.ts:117`), and a class key wrapped under another name is not unwrapped: `rotate-class` first commits its
  rotation and then fails each time it is resumed, and `rotate-master` is refused while a rotation is pending
  (`docs/product/PRODUCT-SPEC.md:1220`). The run `maintenance` gives both one name, as the tests do.

Met while modelling, and part of the models though no run is devoted to them:

- A permit is consumed for an attempt already LOST (`docs/architecture/DOMAIN-MODEL.md:160`).
- After `CANCEL_RUN` an attempt cannot be recorded as LOST: a CHECK refuses it (`0004_runs_authority.sql:102-107`;
  `docs/product/PRODUCT-SPEC.md:965`).
- A launch that reaches the client before WELCOME stops the client (`runner-channel.ts:307`;
  `docs/superpowers/plans/2026-07-11-foundation-implementation.md:822`).
- The handler of a launch waits inside its chain for an answer queued behind it, times out, and releases its reservation for a retry
  although the permit is consumed (`runner/production.ts:481`; `docs/superpowers/plans/2026-07-11-task-7-8-remediation.md:50`).
- The late acknowledgement of a launch whose row was never marked `DISPATCHED` violates a CHECK and closes the connection, again at
  each reconnection (`production-bootstrap.ts:132`, `0004_runs_authority.sql:305`).
- An older observation reconciled after a younger one takes a projection back (`connector-authority.ts:767`;
  `docs/superpowers/plans/2026-07-11-github-implementation.md:456`).
- A mutating run may complete without diff evidence (`docs/product/PRODUCT-SPEC.md:800`); a rejected event, resent, is answered as a
  duplicate and marked acknowledged (`docs/superpowers/plans/2026-07-11-foundation-implementation.md:1437`); an execution is WAITING while
  agent processes of its branches run (`docs/product/PRODUCT-SPEC.md:776`); requests to end an attempt
  (`authority_termination_intents`) are written and read by nothing, so no cancellation reaches a runner.
- One failed request for access, a server that restarts included, stops a runner's reconnection for good, and what is not acknowledged stays
  unsent until the daemon is started anew (`runner/transport/wss-client.ts:416-426`, `reconnect.ts:57-62`; `docs/FINDINGS-2026-07-14.md:35`, C-2).
- A restore brings back what it has on no list (section 3, `Standing`): a recovery code that was redeemed or replaced after the backup can be redeemed, since
  `identity-authority.ts:2126-2196` compares neither epoch nor incarnation, against "redeeming one invalidates that code"
  (`docs/product/PRODUCT-SPEC.md:575`) and "restoring an old backup cannot resurrect a revoked token or permit" (:1216); likewise passkeys and provider
  identities that were withdrawn, members who were removed, exposures, OIDC transactions.
- The authority incarnation is written by a restore and recorded with a backup, and compared nowhere; :1218 has it "bound into every replayable
  credential/capability". Of encrypted credentials a restore revokes those of Outline only (`restore.ts:316-323`).
- A restore leaves a `-wal` file of the replaced database where it is (`restore.ts:517`), which the next opening reads over the new one.
- The workflow engine compares a revocation's pinned revision with the row's after it was raised; `applyRevocation` of the engine and
  `identityAuthority.remove` have no production caller.

Hazards without a property: an execution that fails at its deadline inside `Record` cancels none of its siblings; settled outbox rows
are never deleted and count against a limit of 10,000; a gate that passes after the last report completes nothing; a launch names a
record that was coalesced after it was read. Of the same kind: a run launched before a crash and invalidated before
the next tick has no row that names it; the bookkeeping of a losing branch left to finish moves an execution that waits
for a decision (`docs/FINDINGS-2026-07-14.md`, F-1).

## 7. What is not modelled

- *Documents* (working documents, proposals, grants, repository): composed in tests only. The one production caller creates and edits at
  Outline, which is a mutation of `ConnectorAuthority`.
- *Migrations:* one transaction before anything is served; no step of another actor falls between.
- *HTTP, MCP, CLI and web surfaces:* routing and validation around one command each. *Projections* (inbox, telemetry, search): queries
  that decide nothing.
- *Upgrade authentication, live output, rate limits* of the runner's connection: a violation closes the session, which `CloseSession` covers.
- *Gates, credentials and output on the runner:* local sequential helpers. *The gate coordinator* has no caller.
- *GitHub's* checks, projects, token exchange; *Outline's* calls and credential refresh: remote services under the
  authority that is modelled.
- *Coalescing of coordination records* and source links.
- *Cryptography* (a signature verifies or it does not), byte limits, YAML and the planning documents: pure functions.

`PROJECT.json`, "components", gives the reason for each part.
