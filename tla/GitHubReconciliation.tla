------------------------ MODULE GitHubReconciliation ------------------------
(***************************************************************************)
(* How changes at GitHub reach the projections of the projects that use a  *)
(* connector: webhook deliveries are recorded with one application per     *)
(* project (adapters/github/webhooks.ts), the pending applications are     *)
(* consumed when the server starts, and a timer scans every project whose  *)
(* cursor row is due (modules/github-coordination/durable-worker.ts and    *)
(* reconciliation-scheduler.ts).  Both read all pages of GitHub and apply  *)
(* each item read under an idempotency key made of its reference and       *)
(* updated_at (adapters/github/rest-provider.ts and reconciliation.ts,     *)
(* applyReconciliation of connectors/connector-authority.ts).  What a      *)
(* delivery says is not looked at, only that it came.                      *)
(*                                                                         *)
(* An item is the number of its changes, 0 while it does not exist, and    *)
(* each change gives it an updated_at of its own; it stays on one page.    *)
(***************************************************************************)
EXTENDS Integers, FiniteSets

CONSTANTS
    Projects,           \* projects that use the connector
    Items,              \* 1..n: what a scan lists, in its order, all in the connector's scope
    PageSize,           \* items on a page
    Deliveries,         \* webhook deliveries by their id
    MaxVersion,         \* changes of one item
    Workloads,          \* who uses the connector, and what may happen
    None

Page(i) == (i - 1) \div PageSize + 1
Pages == {Page(i) : i \in Items}
Versions == 0..MaxVersion

VARIABLES
    workload,
    source,             \* the items at GitHub
    seen,               \* connector_projections of each project
    keys,               \* source_reconciliation_idempotency
    now,                \* the keys stored within the current second
    cursor,             \* github_reconciliation_cursors
    delivery,           \* github_webhook_deliveries, with the items at receipt
    application,        \* github_webhook_applications
    job,                \* what the server is doing: startup, then the scheduler
    began,              \* the items when the project's present pass began
    usable              \* the connector is READY and its scopes are current

\* github_project_connectors.
Connected == Projects \cap workload
Rows == Deliveries \X Projects

pass == <<cursor, began>>
ingress == <<delivery, application>>
projected == <<seen, keys, now>>
githubVars == <<source, projected, pass, ingress, job>>
vars == <<workload, githubVars, usable>>

Unfinished == {"PENDING", "FAILED_RETRYABLE"}

-------------------------------------------------------------------------------
Init ==
    /\ workload \in Workloads
    /\ source \in [Items -> IF Connected = {} THEN {0} ELSE {0, 1}]
    /\ seen = [p \in Projects |-> [i \in Items |-> 0]]
    /\ keys = {} /\ now = {}
    /\ cursor = [p \in Projects |->
         [status |-> IF p \in Connected /\ "SCAN" \in workload THEN "IDLE" ELSE "NONE",
          page |-> 0, held |-> FALSE]]
    /\ delivery = [d \in Deliveries |-> [state |-> "NONE", applied |-> FALSE]]
    /\ application = [r \in Rows |-> "NONE"]
    /\ job = [op |-> "DOWN"]
    /\ began = seen

\* Someone creates an item at GitHub, or changes it.
Change(i) ==
    /\ Connected # {} /\ source[i] < MaxVersion
    /\ source[i] = 0 \/ "CHANGE" \in workload
    /\ source' = [source EXCEPT ![i] = @ + 1]
    /\ UNCHANGED <<workload, projected, pass, ingress, job, usable>>

\* The holds of failed cursors last a minute, the second of a scan ends sooner.
TimePasses ==
    /\ now # {} \/ \E p \in Projects : cursor[p].held
    /\ now' = {}
    /\ \E over \in SUBSET {p \in Projects : cursor[p].held} :
         cursor' = [p \in Projects |->
             IF p \in over THEN [cursor[p] EXCEPT !.held = FALSE] ELSE cursor[p]]
    /\ UNCHANGED <<workload, source, seen, keys, began, ingress, job, usable>>

-------------------------------------------------------------------------------
\* recordVerifiedGitHubDelivery.  The connector was READY when the request came
\* in; a delivery sent again is a REPLAY and changes nothing.
Receive(d) ==
    /\ "WEBHOOK" \in workload /\ job.op # "DOWN" /\ delivery[d].state = "NONE"
    /\ delivery' = [delivery EXCEPT ![d] =
         [state |-> "VERIFIED", applied |-> FALSE, at |-> source]]
    /\ application' = [r \in Rows |-> IF r[1] = d /\ r[2] \in Connected
                                      THEN "PENDING" ELSE application[r]]
    /\ UNCHANGED <<workload, source, projected, pass, job, usable>>

\* The same delivery with another body.  Its applications stay PENDING.
ReceiveConflict(d) ==
    /\ "WEBHOOK" \in workload /\ job.op # "DOWN" /\ delivery[d].state = "VERIFIED"
    /\ delivery' = [delivery EXCEPT ![d].state = "CONFLICT"]
    /\ UNCHANGED <<workload, source, projected, pass, application, job, usable>>

-------------------------------------------------------------------------------
Step(next) == job' = next /\ UNCHANGED <<workload, source, usable>>
Scan(p, d, rows, page) ==
    [op |-> "SCAN", project |-> p, for |-> d, rows |-> rows, page |-> page,
     fetched |-> FALSE, items |-> {}]

\* startup: consumePendingWebhookApplications loads its rows once.
Startup ==
    /\ job.op = "DOWN" /\ Connected # {}
    /\ Step([op |-> "CONSUME", rows |-> {r \in Rows : application[r] \in Unfinished}])
    /\ UNCHANGED <<projected, pass, ingress>>

\* The next row: a scan of its project from the first page, without progress.
Consume(r) ==
    /\ job.op = "CONSUME" /\ r \in job.rows
    /\ IF usable
       THEN Step(Scan(r[2], r[1], job.rows \ {r}, 1)) /\ UNCHANGED application
       ELSE /\ Step([job EXCEPT !.rows = @ \ {r}])
            /\ application' = [application EXCEPT ![r] = "FAILED_RETRYABLE"]
    /\ UNCHANGED <<projected, pass, delivery>>

\* scheduler.start: its first tick is due at once.
StartScheduler ==
    /\ job.op = "CONSUME" /\ job.rows = {}
    /\ Step([op |-> "WAIT", first |-> TRUE])
    /\ UNCHANGED <<projected, pass, ingress>>

\* tick.  The interval is longer than a hold, and than a second.
Tick ==
    /\ job.op = "WAIT"
    /\ job.first \/ (now = {} /\ \A p \in Projects : ~cursor[p].held)
    /\ Step([op |-> "TICK", rows |-> {p \in Projects :
                                       usable /\ cursor[p].status # "NONE" /\ ~cursor[p].held}])
    /\ UNCHANGED <<projected, pass, ingress>>

EndTick ==
    /\ job.op = "TICK" /\ job.rows = {}
    /\ Step([op |-> "WAIT", first |-> FALSE])
    /\ UNCHANGED <<projected, pass, ingress>>

Failed(p) == [cursor[p] EXCEPT !.status = "FAILED_RETRYABLE", !.held = TRUE]

\* runCursorRow: from the page of its cursor, from the first when that is NULL.
BeginPass(p) ==
    /\ job.op = "TICK" /\ p \in job.rows
    /\ IF usable
       THEN /\ Step(Scan(p, None, job.rows \ {p}, IF cursor[p].page = 0 THEN 1 ELSE cursor[p].page))
            /\ cursor' = [cursor EXCEPT ![p].status = "SCANNING"]
            /\ began' = IF cursor[p].page = 0 THEN [began EXCEPT ![p] = source] ELSE began
       ELSE /\ Step([job EXCEPT !.rows = @ \ {p}])
            /\ cursor' = [cursor EXCEPT ![p] = Failed(p)] /\ UNCHANGED began
    /\ UNCHANGED <<projected, ingress>>

Rest == [op |-> IF job.for = None THEN "TICK" ELSE "CONSUME", rows |-> job.rows]

\* Slip: the row is APPLIED although its scan failed.
OutcomeAlways(ok) == "APPLIED"

Outcome(ok) == IF ok THEN "APPLIED" ELSE "FAILED_RETRYABLE"

\* runScope returns: the application's outcome and its delivery's applied_at, or
\* the state of the cursor row.
Return(ok) ==
    LET p == job.project
        d == job.for IN
    /\ Step(Rest) /\ UNCHANGED began
    /\ IF d = None
       THEN /\ cursor' = [cursor EXCEPT ![p] =
                 IF ok THEN [status |-> "IDLE", page |-> 0, held |-> FALSE] ELSE Failed(p)]
            /\ UNCHANGED ingress
       ELSE /\ application' = [application EXCEPT ![<<d, p>>] = Outcome(ok)]
            /\ delivery' = [delivery EXCEPT ![d].applied =
                 @ \/ (ok /\ \A q \in Connected \ {p} : application[<<d, q>>] = "APPLIED")]
            /\ UNCHANGED cursor

\* The provider lists the page.
FetchPage ==
    /\ job.op = "SCAN" /\ ~job.fetched
    /\ Step([job EXCEPT !.fetched = TRUE,
         !.items = {<<i, source[i]>> : i \in {i \in Items : Page(i) = job.page /\ source[i] > 0}}])
    /\ UNCHANGED <<projected, pass, ingress>>

FetchFails ==
    /\ "FAILURES" \in workload /\ job.op = "SCAN" /\ ~job.fetched
    /\ Return(FALSE) /\ UNCHANGED projected

\* applyReconciliation hashes the whole event, the second it was observed in too:
\* a key of an earlier second is an IDEMPOTENCY_CONFLICT.
Conflicts(k) == k \in keys \ now

\* reconcileGitHubScope: one item of the page, and the progress.
ApplyEvent(e) ==
    /\ job.op = "SCAN" /\ e \in job.items
    /\ usable /\ ~Conflicts(<<job.project, e>>)
    /\ IF <<job.project, e>> \in keys
       THEN UNCHANGED projected
       ELSE /\ seen' = [seen EXCEPT ![job.project][e[1]] = e[2]]
            /\ keys' = keys \cup {<<job.project, e>>}
            /\ now' = now \cup {<<job.project, e>>}
    /\ cursor' = IF job.for = None
                 THEN [cursor EXCEPT ![job.project].page = job.page] ELSE cursor
    /\ Step([job EXCEPT !.items = @ \ {e}])
    /\ UNCHANGED <<began, ingress>>

ApplyFails(e) ==
    /\ job.op = "SCAN" /\ e \in job.items
    /\ ~usable \/ Conflicts(<<job.project, e>>)
    /\ Return(FALSE) /\ UNCHANGED projected

NextPage ==
    /\ job.op = "SCAN" /\ job.fetched /\ job.items = {} /\ job.page + 1 \in Pages
    /\ Step([job EXCEPT !.page = @ + 1, !.fetched = FALSE])
    /\ UNCHANGED <<projected, pass, ingress>>

LastPage ==
    /\ job.op = "SCAN" /\ job.fetched /\ job.items = {} /\ job.page + 1 \notin Pages
    /\ Return(TRUE) /\ UNCHANGED projected

\* The server's process ends.
Crash ==
    /\ "CRASH" \in workload /\ job.op # "DOWN"
    /\ Step([op |-> "DOWN"]) /\ UNCHANGED <<projected, pass, ingress>>

Serve ==
    \/ Startup \/ StartScheduler \/ Tick \/ EndTick \/ FetchPage \/ NextPage \/ LastPage
    \/ \E r \in Rows : Consume(r)
    \/ \E p \in Projects : BeginPass(p)
    \/ \E e \in Items \X Versions : ApplyEvent(e) \/ ApplyFails(e)

Next ==
    \/ Serve \/ FetchFails \/ TimePasses \/ Crash
    \/ \E i \in Items : Change(i)
    \/ \E d \in Deliveries : Receive(d) \/ ReceiveConflict(d)

Spec == Init /\ usable = TRUE /\ [][Next]_vars

\* The event loop goes on and so does the clock.
FairSpec == Spec /\ WF_vars(Serve) /\ WF_vars(TimePasses)

-------------------------------------------------------------------------------
\* The rows say no more than was done, however often scans fail, the server stops
\* between two items, authority ends or GitHub changes under a scan: an APPLIED
\* application stands for a projection that shows every item as it was when the
\* delivery came in, or later, and applied_at for one in each project; a finished
\* pass has shown every item as it was when the pass began, and one that will be
\* resumed has done so for the pages before its cursor.  Nothing is shown that
\* GitHub did not have.
RowsAreTrue ==
    /\ \A p \in Projects, i \in Items :
        /\ seen[p][i] <= source[i]
        /\ cursor[p].status = "IDLE" \/ Page(i) < cursor[p].page =>
             seen[p][i] >= began[p][i]
        /\ \A d \in Deliveries :
             application[<<d, p>>] = "APPLIED" => seen[p][i] >= delivery[d].at[i]
    /\ \A d \in Deliveries :
        delivery[d].applied = (delivery[d].state # "NONE" /\ \A p \in Connected : application[<<d, p>>] = "APPLIED")

\* What stands at GitHub reaches every projection, also when no delivery told of
\* it (docs/product/PRODUCT-SPEC.md:275).
NotLeftStale ==
    \A p \in Projects, i \in Items, v \in Versions :
        (cursor[p].status # "NONE" /\ source[i] = v) ~> (seen[p][i] >= v)

=============================================================================
