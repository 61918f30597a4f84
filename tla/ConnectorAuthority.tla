------------------------- MODULE ConnectorAuthority -------------------------
(***************************************************************************)
(* What the server may change at GitHub and Outline, and what it believes  *)
(* stands there (server/modules/connectors/connector-authority.ts).        *)
(*                                                                         *)
(* A mutation of a member or of an attempt is checked against the scope of *)
(* the connector and against the projection of the item it names, leaves a *)
(* PENDING intent and a RESERVED authorization, calls the provider, and    *)
(* confirms: the projection, the intent and the result kept for its        *)
(* idempotency key are written together, unless the scope, the projection  *)
(* or the caller's session has changed under the call.  Observations of    *)
(* the provider (webhooks, scans) are reconciled into the same projection; *)
(* an intent whose answer was lost can be recovered from a scan.  Removing *)
(* a member who granted Outline access moves the connector to a new epoch. *)
(*                                                                         *)
(* One connector and one project; every reference is in its scope.  The    *)
(* content of an item is the number of changes it has had, 0 for none.     *)
(***************************************************************************)
EXTENDS Integers, FiniteSets

CONSTANTS
    Members, Attempts,
    Keys,               \* idempotency keys of one actor
    Permits,            \* operation authorizations of attempts
    References,
    Observations,       \* webhook deliveries and scanned items, by their key
    Clients,            \* calls and recoveries in work at once
    Workloads,          \* sets of operations, one of which a behaviour uses
    MaxContent,         \* changes of one item
    MaxEpoch,           \* epochs of the connector
    None

Actors == Members \cup Attempts
Intents == Actors \X Keys

ASSUME ConnectorAssumption ==
    /\ Members \cap Attempts = {} /\ None \notin Actors \cup Permits \cup References
    /\ References # {}
    /\ MaxContent \in Nat \ {0} /\ MaxEpoch \in Nat \ {0}

VARIABLES
    workload,
    session,            \* members with a live browser session
    permit,             \* operation_authorizations
    epoch,              \* connector_epochs
    scope,              \* connector_scopes
    item,               \* the provider's content
    projection,         \* connector_projections
    intent,             \* connector_operation_intents
    authorization,      \* connector_operation_authorizations
    result,             \* connector_idempotency
    changed,            \* changes the provider made for an intent
    observation,        \* observed and not yet reconciled, or reconciled
    work                \* calls between two of their transactions

authority == <<session, permit, epoch, scope>>
ledger == <<projection, intent, authorization, result>>
provider == <<item, changed>>
vars == <<workload, authority, provider, ledger, observation, work>>

Idle == [op |-> "IDLE"]
Contents == 0..MaxContent
Settled == {"COMMITTED", "REQUIRES_REAUTHORIZATION", "FAILED_PERMANENT"}

\* scopeSnapshot, with the review and the epochs as every check reads them.
Ready == epoch.review = "READY"
Usable(e) == Ready /\ epoch.epoch = e /\ scope.epoch = e

TypeOK ==
    /\ session \subseteq Members
    /\ \A p \in Permits :
         permit[p].state \in {"ISSUED", "CONSUMED", "REVOKED"} /\ permit[p].of \in Attempts
    /\ epoch.epoch \in 1..MaxEpoch /\ epoch.review \in {"READY", "REVIEW_REQUIRED", "REVOKED"}
    /\ scope.epoch \in 1..epoch.epoch /\ scope.revision = scope.epoch
    /\ \A r \in References :
         item[r] \in Contents /\ projection[r].content \in 0..item[r]
         /\ (projection[r].revision = 0) = (projection[r].content = 0)
    /\ \A i \in Intents :
         /\ intent[i].state \in {"NONE", "PENDING"} \cup Settled
         /\ authorization[i] \in {"NONE", "RESERVED", "CONSUMED", "REVOKED"}
         /\ intent[i].state # "NONE" => intent[i].epoch \in 1..epoch.epoch
    /\ result \subseteq Intents

-------------------------------------------------------------------------------
Init ==
    /\ workload \in Workloads
    /\ session = Members
    /\ permit \in [Permits -> [of : Attempts, state : {"ISSUED"}, reference :
         IF "ATTEMPT" \in workload THEN References ELSE {CHOOSE r \in References : TRUE}]]
    /\ epoch = [epoch |-> 1, review |-> "READY"] /\ scope = [epoch |-> 1, revision |-> 1]
    /\ item = [r \in References |-> IF r = CHOOSE x \in References : TRUE THEN 1 ELSE 0]
    /\ projection = [r \in References |-> [content |-> 0, revision |-> 0]]
    /\ intent = [i \in Intents |-> [state |-> "NONE"]]
    /\ authorization = [i \in Intents |-> "NONE"]
    /\ result = {} /\ changed = [i \in Intents |-> 0]
    /\ observation = [o \in Observations |-> [state |-> "NONE"]]
    /\ work = [c \in Clients |-> Idle]

Step(c, next) == work' = [work EXCEPT ![c] = next] /\ UNCHANGED workload
InWork(c, op) == work[c].op = op

\* createConnectorAttemptAuthority: verify, and consume in one transaction.
Verified(p, a, r) == permit[p].state = "ISSUED" /\ permit[p].of = a /\ permit[p].reference = r

\* Slip: the attempt's authorization is verified and stays usable.
ConsumeAttemptLater(p, a, r) == Verified(p, a, r) /\ UNCHANGED permit

ConsumeAttempt(p, a, r) ==
    Verified(p, a, r) /\ permit' = [permit EXCEPT ![p].state = "CONSUMED"]

\* mutate, up to the await of issueAuthorization: no stored result, no intent of
\* the key, the scope, the precondition, and the caller's standing.
BeginMutate(c, i, r, p) ==
    /\ (IF i[1] \in Members THEN "MEMBER" ELSE "ATTEMPT") \in workload /\ work[c] = Idle
    /\ i \notin result /\ intent[i].state = "NONE"
    /\ Usable(epoch.epoch)
    /\ IF i[1] \in Members THEN p = None /\ i[1] \in session /\ UNCHANGED permit
                           ELSE p # None /\ ConsumeAttempt(p, i[1], r)
    /\ Step(c, [op |-> "ISSUE", i |-> i, reference |-> r, expected |-> projection[r],
                epoch |-> epoch.epoch, revision |-> scope.revision, permit |-> p])
    /\ UNCHANGED <<session, epoch, scope, provider, ledger, observation>>

\* The comparison of issueAuthorization and of the confirmation: with the scope
\* and the projection read at the beginning.
Fresh(w) ==
    /\ Ready /\ epoch.epoch = w.epoch /\ scope.revision = w.revision
    /\ projection[w.reference].revision = w.expected.revision
HasSession(i) == i[1] \in Members => i[1] \in session

\* UNIQUE (actor_id, idempotency_key).
UniqueIntent(i) == intent[i].state = "NONE"

IssueAuthorization(c) ==
    /\ InWork(c, "ISSUE")
    /\ LET w == work[c] IN
       IF Fresh(w) /\ HasSession(w.i) /\ UniqueIntent(w.i)
       THEN /\ intent' = [intent EXCEPT ![w.i] =
                 [state |-> "PENDING", epoch |-> w.epoch, revision |-> w.revision,
                  reference |-> w.reference, permit |-> w.permit]]
            /\ authorization' = [authorization EXCEPT ![w.i] = "RESERVED"]
            /\ Step(c, [w EXCEPT !.op = "CALL"])
       ELSE Step(c, Idle) /\ UNCHANGED <<intent, authorization>>
    /\ UNCHANGED <<authority, provider, projection, result, observation>>

\* The provider makes the change.  Only what is created may stand under another
\* reference than the one asked for.  It may have changed under the call: a
\* provider without conditional writes leaves that race to the connector.
ProviderChanges(c, to) ==
    /\ InWork(c, "CALL")
    /\ LET w == work[c] IN
         /\ to = w.reference \/ (w.expected.content = 0 /\ item[to] = 0)
         /\ item[to] < MaxContent
         /\ item' = [item EXCEPT ![to] = @ + 1]
         /\ changed' = [changed EXCEPT ![w.i] = @ + 1]
         /\ \/ Step(c, [op |-> "CONFIRM", with |-> w, to |-> to, content |-> item[to] + 1])
            \/ Step(c, Idle)
    /\ UNCHANGED <<authority, ledger, observation>>

\* The provider refuses, for good or for now; or the Outline adapter finds the
\* member's authorization no longer RESERVED and does not call.
ProviderRefuses(c) ==
    /\ InWork(c, "CALL") /\ Step(c, Idle)
    /\ LET i == work[c].i IN
       \/ /\ intent' = [intent EXCEPT ![i].state =
               IF @ = "PENDING" THEN "FAILED_PERMANENT" ELSE @]
          /\ authorization' = [authorization EXCEPT ![i] =
               IF @ = "RESERVED" THEN "REVOKED" ELSE @]
       \/ UNCHANGED <<intent, authorization>>
    /\ UNCHANGED <<authority, provider, projection, result, observation>>

Write(r, content) ==
    projection' = [projection EXCEPT ![r] = [content |-> content, revision |-> @.revision + 1]]

Reauthorize(state) == IF state = "PENDING" THEN "REQUIRES_REAUTHORIZATION" ELSE state

\* The browser session, once more.
Standing(i) == HasSession(i)

FreshAtConfirm(w) == Fresh(w)

\* What a confirmed change leaves: the projection of the item, the intent, the
\* authorization and the result for the key.
Confirmed(w, to, content) ==
    /\ w.i \notin result
    /\ projection' = [projection EXCEPT ![to] =
         [content |-> content, revision |-> w.expected.revision + 1]]
    /\ intent' = [intent EXCEPT ![w.i].state = IF @ = "PENDING" THEN "COMMITTED" ELSE @]
    /\ authorization' = [authorization EXCEPT ![w.i] =
         IF @ = "RESERVED" THEN "CONSUMED" ELSE @]
    /\ result' = result \cup {w.i}

\* The confirmation transaction of mutate.
Confirm(c) ==
    /\ InWork(c, "CONFIRM") /\ Step(c, Idle)
    /\ LET w == work[c].with
           i == w.i
           to == work[c].to IN
       \/ /\ ~(FreshAtConfirm(w) /\ Standing(i))
          /\ intent' = [intent EXCEPT ![i].state = Reauthorize(@)]
          /\ authorization' = [authorization EXCEPT ![i] =
               IF @ = "RESERVED" THEN "REVOKED" ELSE @]
          /\ UNCHANGED <<projection, result>>
       \/ /\ FreshAtConfirm(w) /\ Standing(i)
          /\ to # w.reference /\ projection[to].revision # 0
          /\ UNCHANGED ledger
       \/ /\ FreshAtConfirm(w) /\ Standing(i)
          /\ to = w.reference \/ projection[to].revision = 0
          /\ Confirmed(w, to, work[c].content)
    /\ UNCHANGED <<authority, provider, observation>>

-------------------------------------------------------------------------------
\* Someone changes the item at the provider.
ChangeElsewhere(r) ==
    /\ "OBSERVE" \in workload /\ item[r] < MaxContent
    /\ item' = [item EXCEPT ![r] = @ + 1]
    /\ UNCHANGED <<workload, authority, changed, ledger, observation, work>>

\* A webhook is sent, or a scan reads the item, under the epoch of the scope.
Observe(o, r) ==
    /\ "OBSERVE" \in workload /\ observation[o].state = "NONE"
    /\ item[r] > 0 /\ Usable(epoch.epoch)
    /\ observation' = [observation EXCEPT ![o] =
         [state |-> "HELD", reference |-> r, content |-> item[r], epoch |-> epoch.epoch]]
    /\ UNCHANGED <<workload, authority, provider, ledger, work>>

\* Slip: the revision stays when the content changes.
NextRevisionKept(r, content) == IF projection[r].revision = 0 THEN 1 ELSE projection[r].revision

NextRevision(r, content) ==
    projection[r].revision + (IF projection[r].content = content THEN 0 ELSE 1)

\* The projection takes the content observation o has, and o's key is spent.
Applied(o) ==
    LET e == observation[o] IN
    /\ projection' = [projection EXCEPT ![e.reference] =
         [content |-> e.content, revision |-> NextRevision(e.reference, e.content)]]
    /\ observation' = [observation EXCEPT ![o].state = "APPLIED"]

\* applyReconciliation runs without an await.  A key it has seen changes nothing;
\* there is no order between observations.
Reconcile(o) ==
    /\ observation[o].state = "HELD"
    /\ Usable(observation[o].epoch)
    /\ Applied(o)
    /\ UNCHANGED <<workload, authority, provider, intent, authorization, result, work>>

-------------------------------------------------------------------------------
\* recoverPending, up to its scan.
BeginRecovery(c, i) ==
    /\ "RECOVER" \in workload /\ work[c] = Idle /\ intent[i].state = "PENDING"
    /\ IF /\ Ready /\ epoch.epoch = intent[i].epoch /\ scope.revision = intent[i].revision
       THEN Step(c, [op |-> "RECOVER", i |-> i]) /\ UNCHANGED intent
       ELSE /\ intent' = [intent EXCEPT ![i].state = "REQUIRES_REAUTHORIZATION"]
            /\ UNCHANGED <<workload, work>>
    /\ UNCHANGED <<authority, provider, projection, authorization, result, observation>>

\* Slip: the state of the intent is not read again after the scan.
StillPendingLoose(i) == TRUE

StillPending(i) == intent[i].state = "PENDING"

Recoverable(i) ==
    Ready /\ epoch.epoch = intent[i].epoch /\ scope.revision = intent[i].revision

\* A recovered change: the projection takes what the scan found, and the intent
\* has its result.
Recovered(i, r) ==
    /\ \E content \in 1..item[r] : Write(r, content)
    /\ intent' = [intent EXCEPT ![i].state = "COMMITTED"]
    /\ result' = result \cup {i}

\* The scan finds the marker of the intent on what the provider made for it:
\* never, once, or twice; the authorization stays RESERVED.
CommitRecovery(c) ==
    /\ InWork(c, "RECOVER") /\ Step(c, Idle)
    /\ LET i == work[c].i
           r == intent[i].reference IN
       \/ UNCHANGED <<projection, intent, result>>
       \/ /\ changed[i] > 0 /\ StillPending(i)
          /\ intent' = [intent EXCEPT ![i].state = "FAILED_PERMANENT"]
          /\ UNCHANGED <<projection, result>>
       \/ /\ changed[i] > 0 /\ item[r] > 0 /\ i \notin result
          /\ Recoverable(i) /\ StillPending(i)
          /\ Recovered(i, r)
    /\ UNCHANGED <<authority, provider, authorization, observation>>

-------------------------------------------------------------------------------
\* changeEpoch by an owner: connector_scopes keeps its epoch.
ChangeEpoch(review) ==
    /\ "EPOCH" \in workload /\ epoch.epoch < MaxEpoch
    /\ epoch' = [epoch |-> epoch.epoch + 1, review |-> review]
    /\ UNCHANGED <<workload, session, permit, scope, provider, ledger, observation, work>>

Withdraw ==
    /\ intent' = [i \in Intents |->
         IF intent[i].state = "PENDING"
         THEN [intent[i] EXCEPT !.state = "REQUIRES_REAUTHORIZATION"] ELSE intent[i]]
    /\ authorization' = [i \in Intents |->
         IF authorization[i] = "RESERVED" THEN "REVOKED" ELSE authorization[i]]

\* Removal of a member; with an Outline grant of hers the connector moves on.
RemoveMember(m) ==
    /\ "REMOVE" \in workload /\ m \in session
    /\ session' = session \ {m}
    /\ \/ UNCHANGED <<epoch, scope, intent, authorization>>
       \/ /\ epoch.epoch < MaxEpoch
          /\ epoch' = [epoch EXCEPT !.epoch = @ + 1]
          /\ scope' = [epoch |-> scope.epoch + 1, revision |-> scope.revision + 1]
          /\ Withdraw
    /\ UNCHANGED <<workload, permit, provider, projection, result, observation, work>>

\* The attempt of a permit is cancelled or lost: ExecutionAuthority.
RevokePermit(p) ==
    /\ "PERMIT" \in workload /\ permit[p].state = "ISSUED"
    /\ permit' = [permit EXCEPT ![p].state = "REVOKED"]
    /\ UNCHANGED <<workload, session, epoch, scope, provider, ledger, observation, work>>

\* The server's process ends: what was in work is gone.
Restart ==
    /\ "RESTART" \in workload /\ \E c \in Clients : work[c] # Idle
    /\ work' = [c \in Clients |-> Idle]
    /\ UNCHANGED <<workload, authority, provider, ledger, observation>>

Next ==
    \/ \E c \in Clients :
         \/ \E i \in Intents, r \in References, p \in Permits \cup {None} :
              BeginMutate(c, i, r, p)
         \/ IssueAuthorization(c) \/ ProviderRefuses(c) \/ Confirm(c) \/ CommitRecovery(c)
         \/ \E r \in References : ProviderChanges(c, r)
         \/ \E i \in Intents : BeginRecovery(c, i)
    \/ \E r \in References : ChangeElsewhere(r)
    \/ \E o \in Observations : Reconcile(o) \/ \E r \in References : Observe(o, r)
    \/ \E review \in {"READY", "REVIEW_REQUIRED", "REVOKED"} : ChangeEpoch(review)
    \/ \E m \in Members : RemoveMember(m)
    \/ \E p \in Permits : RevokePermit(p)
    \/ Restart

Spec == Init /\ [][Next]_vars

-------------------------------------------------------------------------------
\* One idempotency key of an actor, and one authorization of an attempt, change
\* the provider at most once, whatever is retried after a lost answer or a restart.
AppliedOnce ==
    /\ \A i \in Intents : changed[i] <= 1
    /\ \A i, j \in Intents :
         intent[i].state # "NONE" /\ intent[j].state # "NONE"
         /\ intent[i].permit # None /\ intent[i].permit = intent[j].permit => i = j

\* However the confirmation, a recovery and a removal overlap: a COMMITTED intent
\* has its result, a result stands for a change the provider made, and an intent
\* that needs a new authorization never has one.  (A recovery that finds two
\* matches under a confirmation leaves a result beside FAILED_PERMANENT.)
CommittedIsApplied ==
    \A i \in Intents :
        /\ intent[i].state = "COMMITTED" => i \in result
        /\ i \in result =>
             changed[i] = 1 /\ intent[i].state \in {"COMMITTED", "FAILED_PERMANENT"}

\* The provider and the intents agree: one change for one request, and its result.
ResultsAgree == TypeOK /\ AppliedOnce /\ CommittedIsApplied

Commits(i) == intent[i].state # "COMMITTED" /\ intent'[i].state = "COMMITTED"

\* Nothing is committed under an epoch or a scope that was replaced since the
\* intent was issued, and no settled intent is settled again.
CommitsUnderItsAuthority ==
    [][\A i \in Intents :
         /\ Commits(i) =>
              Ready /\ intent[i].epoch = epoch.epoch /\ intent[i].revision = scope.revision
         /\ intent[i].state \in Settled => intent'[i].state = intent[i].state]_vars

\* A confirmation replaces exactly the content the caller's precondition named:
\* what was reconciled or confirmed under the call is never overwritten by it,
\* and nothing is confirmed for a member who lost her session meanwhile.
NoLostUpdate ==
    [][\A c \in Clients :
         (InWork(c, "CONFIRM") /\ work'[c] = Idle /\ projection' # projection) =>
           /\ projection[work[c].with.reference] = work[c].with.expected
           /\ work[c].to # work[c].with.reference => projection[work[c].to].content = 0
           /\ HasSession(work[c].with.i)]_vars

=============================================================================
