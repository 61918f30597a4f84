----------------------- MODULE ConnectorAuthorityProofs -----------------------
(***************************************************************************)
(* Theorems about ConnectorAuthority, for any members, attempts, keys,     *)
(* references, observations and number of calls in work at once, and about *)
(* Connectors, for any projects, items, pages and deliveries.              *)
(***************************************************************************)
EXTENDS Connectors, FiniteSetTheorems, TLAPS

-------------------------------------------------------------------------------
(* The rows and the calls in work, by their forms.                         *)

Projections == [content : Nat, revision : Nat]
PermitRows == [of : Attempts, state : {"ISSUED", "CONSUMED", "REVOKED"}, reference : References]
IntentStates == {"PENDING"} \cup Settled
IntentRows == [state : IntentStates, epoch : Nat, revision : Nat,
               reference : References, permit : Permits \cup {None}]
NoIntent == [state |-> "NONE"]
ObservationRows == [state : {"HELD", "APPLIED"}, reference : References,
                    content : Nat, epoch : Nat]
NoObservation == [state |-> "NONE"]

Requests == [op : {"ISSUE", "CALL"}, i : Intents, reference : References,
             expected : Projections, epoch : Nat, revision : Nat,
             permit : Permits \cup {None}]
Confirmations == [op : {"CONFIRM"}, with : Requests, to : References, content : Nat]
Recoveries == [op : {"RECOVER"}, i : Intents]
Works == {Idle} \cup Requests \cup Confirmations \cup Recoveries

FormInv ==
    /\ session \subseteq Members
    /\ permit \in [Permits -> PermitRows]
    /\ epoch \in [epoch : Nat, review : {"READY", "REVIEW_REQUIRED", "REVOKED"}]
    /\ scope \in [epoch : Nat, revision : Nat]
    /\ item \in [References -> Nat] /\ changed \in [Intents -> Nat]
    /\ projection \in [References -> Projections]
    /\ intent \in [Intents -> {NoIntent} \cup IntentRows]
    /\ authorization \in [Intents -> {"NONE", "RESERVED", "CONSUMED", "REVOKED"}]
    /\ result \subseteq Intents
    /\ observation \in [Observations -> {NoObservation} \cup ObservationRows]
    /\ work \in [Clients -> Works]

\* The call a client makes: it has its intent while it is in ISSUED.
Calling == {c \in Clients : work[c].op \in {"ISSUE", "CALL", "CONFIRM"}}
CallOf(c) == IF work[c].op = "CONFIRM" THEN work[c].with ELSE work[c]
Issued(c) == work[c].op \in {"CALL", "CONFIRM"}

-------------------------------------------------------------------------------
(* The inductive invariant.                                                *)

\* The epochs and the contents are in their bounds, and what is observed, confirmed
\* or projected is content the item has had.
BoundsInv ==
    /\ epoch.epoch \in 1..MaxEpoch
    /\ scope.epoch \in 1..epoch.epoch /\ scope.revision = scope.epoch
    /\ \A r \in References :
         item[r] \in Contents /\ projection[r].content \in 0..item[r]
         /\ (projection[r].revision = 0) = (projection[r].content = 0)
    /\ \A o \in Observations : observation[o].state # "NONE" =>
         observation[o].content \in 1..item[observation[o].reference]
    /\ \A c \in Clients : work[c].op = "CONFIRM" => work[c].content \in 1..item[work[c].to]
    /\ \A i \in Intents : intent[i].state # "NONE" =>
         /\ intent[i].epoch \in 1..epoch.epoch /\ intent[i].revision \in 1..scope.revision

\* A call knows an epoch and a projection that once stood, and a projection of the
\* same revision is the one it knows.
CallsInv ==
    \A c \in Calling :
        LET w == CallOf(c) IN
        /\ w.epoch \in 1..epoch.epoch /\ w.revision \in 1..scope.revision
        /\ w.expected.revision <= projection[w.reference].revision
        /\ w.expected.revision = projection[w.reference].revision =>
             projection[w.reference] = w.expected

\* A call is made under the authority its intent names, and nobody else settles the
\* intent while that authority stands.
Backed(c) ==
    LET w == CallOf(c) IN
    /\ intent[w.i].state # "NONE"
    /\ intent[w.i].epoch = w.epoch /\ intent[w.i].revision = w.revision
    /\ intent[w.i].state = "REQUIRES_REAUTHORIZATION" =>
         ~(Ready /\ epoch.epoch = w.epoch /\ scope.revision = w.revision)
    /\ changed[w.i] = IF work[c].op = "CONFIRM" THEN 1 ELSE 0
    /\ work[c].op = "CALL" => intent[w.i].state # "FAILED_PERMANENT"

\* One call at most is made for an intent.
IntentsInv ==
    /\ \A c \in Calling : Issued(c) =>
         /\ Backed(c)
         /\ \A d \in Calling \ {c} : Issued(d) => CallOf(d).i # CallOf(c).i
    /\ \A i \in Intents :
         /\ changed[i] <= 1
         /\ changed[i] > 0 => intent[i].state # "NONE"

\* The authorization a call or an intent of an attempt names is spent, on it alone.
PermitsInv ==
    /\ \A i \in Intents : intent[i].state # "NONE" /\ intent[i].permit # None =>
         /\ permit[intent[i].permit].state = "CONSUMED"
         /\ \A j \in Intents \ {i} :
              intent[j].state # "NONE" => intent[j].permit # intent[i].permit
    /\ \A c \in Calling : work[c].op = "ISSUE" /\ work[c].permit # None =>
         /\ permit[work[c].permit].state = "CONSUMED"
         /\ \A j \in Intents : intent[j].state # "NONE" => intent[j].permit # work[c].permit
         /\ \A d \in Calling \ {c} :
              work[d].op = "ISSUE" => work[d].permit # work[c].permit

Inv == FormInv /\ BoundsInv /\ CallsInv /\ IntentsInv /\ PermitsInv /\ CommittedIsApplied

-------------------------------------------------------------------------------
(* What a row's state, or a call's op, says of its form.                   *)

\* The call a client has in work has the form its op says.
LEMMA WorkForms ==
    ASSUME FormInv, NEW c \in Clients
    PROVE  /\ work[c].op \in {"ISSUE", "CALL"} => work[c] \in Requests
           /\ work[c].op = "CONFIRM" => work[c] \in Confirmations
           /\ work[c].op = "RECOVER" => work[c] \in Recoveries
           /\ c \in Calling => CallOf(c) \in Requests
<1>1. work[c] \in {Idle} \cup Requests \cup Confirmations \cup Recoveries
    BY DEF FormInv, Works
<1> QED
    BY <1>1 DEF Idle, Requests, Confirmations, Recoveries, Calling, CallOf

\* A row of the intents or of the observations that was written has its form.
LEMMA RowForms ==
    ASSUME FormInv
    PROVE  /\ \A i \in Intents : intent[i].state # "NONE" => intent[i] \in IntentRows
           /\ \A o \in Observations :
                 observation[o].state # "NONE" => observation[o] \in ObservationRows
BY DEF FormInv, NoIntent, NoObservation

\* A client's work after its step.
LEMMA StepWork ==
    ASSUME FormInv, NEW c \in Clients, NEW next \in Works, Step(c, next)
    PROVE  /\ work' \in [Clients -> Works] /\ work'[c] = next
           /\ \A d \in Clients \ {c} : work'[d] = work[d]
BY DEF FormInv, Step

\* Settling an intent keeps what it names.
LEMMA Settling ==
    ASSUME FormInv, NEW i \in Intents, intent[i].state # "NONE", NEW s \in IntentStates,
           intent' = [intent EXCEPT ![i].state = s]
    PROVE  /\ intent' \in [Intents -> {NoIntent} \cup IntentRows]
           /\ intent'[i].state = s /\ intent'[i].epoch = intent[i].epoch
           /\ intent'[i].revision = intent[i].revision /\ intent'[i].permit = intent[i].permit
           /\ \A j \in Intents \ {i} : intent'[j] = intent[j]
<1>1. intent[i] \in IntentRows
    BY RowForms
<1> DEFINE row == [intent[i] EXCEPT !.state = s]
<1>2. /\ row \in IntentRows /\ row.state = s /\ row.epoch = intent[i].epoch
      /\ row.revision = intent[i].revision /\ row.permit = intent[i].permit
    BY <1>1 DEF IntentRows
<1>3. intent' = [intent EXCEPT ![i] = row]
    OBVIOUS
<1> HIDE DEF row
<1> QED
    BY <1>2, <1>3 DEF FormInv

-------------------------------------------------------------------------------
(* Forms.                                                                  *)

\* The store of a server that was never used has its form.
LEMMA FormInit == Init => FormInv
<1> SUFFICES ASSUME Init PROVE FormInv
    OBVIOUS
<1>1. permit \in [Permits -> PermitRows]
    <2>1. (CHOOSE r \in References : TRUE) \in References
        BY ConnectorAssumption
    <2> QED
        BY <2>1 DEF Init, PermitRows
<1>2. epoch \in [epoch : Nat, review : {"READY", "REVIEW_REQUIRED", "REVOKED"}]
    BY DEF Init
<1>3. scope \in [epoch : Nat, revision : Nat]
    BY DEF Init
<1>4. projection \in [References -> Projections] /\ item \in [References -> Nat]
    BY DEF Init, Projections
<1>5. /\ intent \in [Intents -> {NoIntent} \cup IntentRows]
      /\ observation \in [Observations -> {NoObservation} \cup ObservationRows]
    BY DEF Init, NoIntent, NoObservation
<1>6. work \in [Clients -> Works]
    BY DEF Init, Works
<1> QED
    BY <1>1, <1>2, <1>3, <1>4, <1>5, <1>6 DEF Init, FormInv

\* Consuming a permit and reading the projection, before the intent is stored.
LEMMA FormBegin ==
    ASSUME FormInv, NEW c \in Clients, NEW i \in Intents, NEW r \in References,
           NEW p \in Permits \cup {None}, BeginMutate(c, i, r, p)
    PROVE  FormInv'
<1> DEFINE w == [op |-> "ISSUE", i |-> i, reference |-> r, expected |-> projection[r],
                 epoch |-> epoch.epoch, revision |-> scope.revision, permit |-> p]
<1>1. w \in Requests
    BY DEF FormInv, Requests
<1>2. Step(c, w)
    BY DEF BeginMutate
<1> HIDE DEF w
<1>3. work' \in [Clients -> Works]
    BY <1>1, <1>2, StepWork DEF Works
<1>4. permit' \in [Permits -> PermitRows]
    BY DEF BeginMutate, ConsumeAttempt, FormInv, PermitRows
<1> QED
    BY <1>3, <1>4 DEF BeginMutate, FormInv, provider, ledger

\* Storing the intent, or refusing it.
LEMMA FormIssue ==
    ASSUME FormInv, NEW c \in Clients, IssueAuthorization(c)
    PROVE  FormInv'
<1> DEFINE w == work[c]
           next == [w EXCEPT !.op = "CALL"]
           row == [state |-> "PENDING", epoch |-> w.epoch, revision |-> w.revision,
                   reference |-> w.reference, permit |-> w.permit]
<1>1. w \in Requests
    BY WorkForms DEF IssueAuthorization, InWork
<1>2. next \in Requests /\ row \in IntentRows /\ w.i \in Intents
    BY <1>1 DEF Requests, IntentRows, IntentStates
<1>3. Step(c, next) \/ Step(c, Idle)
    BY DEF IssueAuthorization
<1>4. /\ intent' = [intent EXCEPT ![w.i] = row] \/ UNCHANGED intent
      /\ authorization' = [authorization EXCEPT ![w.i] = "RESERVED"] \/ UNCHANGED authorization
    BY DEF IssueAuthorization
<1> HIDE DEF w, next, row
<1>5. work' \in [Clients -> Works]
    BY <1>2, <1>3, StepWork DEF Works
<1>6. /\ intent' \in [Intents -> {NoIntent} \cup IntentRows]
      /\ authorization' \in [Intents -> {"NONE", "RESERVED", "CONSUMED", "REVOKED"}]
    BY <1>2, <1>4 DEF FormInv
<1> QED
    BY <1>5, <1>6 DEF IssueAuthorization, FormInv, authority, provider

\* The provider's change: its item's content, and what the call will confirm.
LEMMA FormChange ==
    ASSUME FormInv, NEW c \in Clients, NEW to \in References, ProviderChanges(c, to)
    PROVE  FormInv'
<1> DEFINE w == work[c]
           next == [op |-> "CONFIRM", with |-> w, to |-> to, content |-> item[to] + 1]
<1>1. w \in Requests
    BY WorkForms DEF ProviderChanges, InWork
<1>2. next \in Confirmations /\ w.i \in Intents
    BY <1>1 DEF Requests, Confirmations, FormInv
<1>3. Step(c, next) \/ Step(c, Idle)
    BY DEF ProviderChanges
<1>4. /\ item' = [item EXCEPT ![to] = @ + 1]
      /\ changed' = [changed EXCEPT ![w.i] = @ + 1]
    BY DEF ProviderChanges
<1> HIDE DEF w, next
<1>5. work' \in [Clients -> Works]
    BY <1>2, <1>3, StepWork DEF Works
<1>6. item' \in [References -> Nat] /\ changed' \in [Intents -> Nat]
    BY <1>2, <1>4 DEF FormInv
<1> QED
    BY <1>5, <1>6 DEF ProviderChanges, FormInv, authority, ledger

\* Row i, PENDING or already settled, is settled with s, or left.
SettledWith(i, s) ==
    \/ intent'[i] = intent[i]
    \/ /\ intent[i].state # "NONE" /\ intent'[i].state = s
       /\ intent'[i].epoch = intent[i].epoch /\ intent'[i].revision = intent[i].revision
       /\ intent'[i].permit = intent[i].permit

\* What a refusal and a failed confirmation do to an intent.
LEMMA SettlePending ==
    ASSUME FormInv, NEW i \in Intents, NEW s \in Settled,
           intent' = [intent EXCEPT ![i].state = IF @ = "PENDING" THEN s ELSE @]
    PROVE  /\ intent' \in [Intents -> {NoIntent} \cup IntentRows]
           /\ SettledWith(i, s) /\ (intent[i].state # "PENDING" => intent'[i] = intent[i])
           /\ \A j \in Intents \ {i} : intent'[j] = intent[j]
<1>1. CASE intent[i].state = "PENDING"
    <2>1. intent' = [intent EXCEPT ![i].state = s] /\ s \in IntentStates
        BY <1>1 DEF IntentStates
    <2> QED
        BY <1>1, <2>1, Settling DEF SettledWith
<1>2. CASE intent[i].state # "PENDING"
    <2>1. intent[i] \in {NoIntent} \cup IntentRows
        BY DEF FormInv
    <2>2. [intent[i] EXCEPT !.state = intent[i].state] = intent[i]
        BY <2>1 DEF NoIntent, IntentRows
    <2>3. intent' = [intent EXCEPT ![i] = intent[i]]
        BY <1>2, <2>2
    <2> QED
        BY <2>3 DEF FormInv, SettledWith
<1> QED
    BY <1>1, <1>2

\* An authorization that is spent or taken back.
LEMMA FormSpent ==
    ASSUME FormInv, NEW i \in Intents, NEW s \in {"CONSUMED", "REVOKED"},
           authorization' = [authorization EXCEPT ![i] = IF @ = "RESERVED" THEN s ELSE @]
    PROVE  authorization' \in [Intents -> {"NONE", "RESERVED", "CONSUMED", "REVOKED"}]
BY DEF FormInv

\* A change the provider refuses fails its intent.
LEMMA FormRefuse ==
    ASSUME FormInv, NEW c \in Clients, ProviderRefuses(c)
    PROVE  FormInv'
<1>1. work[c] \in Requests /\ work[c].i \in Intents
    BY WorkForms DEF ProviderRefuses, InWork, Requests
<1>2. work' \in [Clients -> Works]
    BY StepWork DEF ProviderRefuses, Works
<1>3. /\ intent' \in [Intents -> {NoIntent} \cup IntentRows]
      /\ authorization' \in [Intents -> {"NONE", "RESERVED", "CONSUMED", "REVOKED"}]
    <2>1. CASE UNCHANGED <<intent, authorization>>
        BY <2>1 DEF FormInv
    <2>2. CASE ~UNCHANGED <<intent, authorization>>
        <3>1. /\ intent' = [intent EXCEPT ![work[c].i].state =
                                IF @ = "PENDING" THEN "FAILED_PERMANENT" ELSE @]
              /\ authorization' = [authorization EXCEPT ![work[c].i] =
                                IF @ = "RESERVED" THEN "REVOKED" ELSE @]
            BY <2>2 DEF ProviderRefuses
        <3> QED
            BY <1>1, <3>1, SettlePending, FormSpent DEF Settled
    <2> QED
        BY <2>1, <2>2
<1> QED
    BY <1>2, <1>3 DEF ProviderRefuses, FormInv, authority, provider

\* The three outcomes of a confirmation.
ConfirmFails(c) ==
    LET w == work[c].with IN
    /\ ~(Fresh(w) /\ HasSession(w.i))
    /\ intent' = [intent EXCEPT ![w.i].state =
                     IF @ = "PENDING" THEN "REQUIRES_REAUTHORIZATION" ELSE @]
    /\ authorization' = [authorization EXCEPT ![w.i] = IF @ = "RESERVED" THEN "REVOKED" ELSE @]
    /\ UNCHANGED <<projection, result>>
ConfirmSucceeds(c) ==
    LET w == work[c].with IN
    /\ Fresh(w) /\ HasSession(w.i)
    /\ work[c].to = w.reference \/ projection[work[c].to].revision = 0
    /\ Confirmed(w, work[c].to, work[c].content)

\* A confirmation stores a failure, nothing, or a success with its result; in each
\* case the client is done.
LEMMA ConfirmOutcome ==
    ASSUME FormInv, NEW c \in Clients, Confirm(c)
    PROVE  /\ work[c].op = "CONFIRM" /\ work[c] \in Confirmations
           /\ work[c].with \in Requests /\ work[c].with.i \in Intents
           /\ work' \in [Clients -> Works] /\ work'[c] = Idle
           /\ \A d \in Clients \ {c} : work'[d] = work[d]
           /\ UNCHANGED <<workload, authority, provider, observation>>
           /\ ConfirmFails(c) \/ UNCHANGED ledger \/ ConfirmSucceeds(c)
<1>1. work[c].op = "CONFIRM" /\ work[c] \in Confirmations
    BY WorkForms DEF Confirm, InWork
<1>2. work[c].with \in Requests /\ work[c].with.i \in Intents
    BY <1>1 DEF Confirmations, Requests
<1>3. Step(c, Idle) /\ Idle \in Works
    BY DEF Confirm, Works
<1>4. UNCHANGED <<workload, authority, provider, observation>>
    BY DEF Confirm, Step
<1>5. ConfirmFails(c) \/ UNCHANGED ledger \/ ConfirmSucceeds(c)
    <2>1. \/ /\ ~(Fresh(work[c].with) /\ HasSession(work[c].with.i))
             /\ intent' = [intent EXCEPT ![work[c].with.i].state = Reauthorize(@)]
             /\ authorization' = [authorization EXCEPT ![work[c].with.i] =
                                     IF @ = "RESERVED" THEN "REVOKED" ELSE @]
             /\ UNCHANGED <<projection, result>>
          \/ UNCHANGED ledger
          \/ ConfirmSucceeds(c)
        BY DEF Confirm, FreshAtConfirm, Standing, ConfirmSucceeds
    <2> QED
        BY <2>1 DEF ConfirmFails, Reauthorize
<1> QED
    BY <1>1, <1>2, <1>3, <1>4, <1>5, StepWork

\* Confirming a mutation.
LEMMA FormConfirm ==
    ASSUME FormInv, NEW c \in Clients, Confirm(c)
    PROVE  FormInv'
<1> DEFINE w == work[c].with
           to == work[c].to
<1>1. w \in Requests /\ w.i \in Intents /\ to \in References /\ work[c].content \in Nat
    BY ConfirmOutcome DEF Confirmations
<1>2. work' \in [Clients -> Works] /\ UNCHANGED <<authority, provider, observation>>
    BY ConfirmOutcome
<1>3. CASE UNCHANGED ledger
    BY <1>2, <1>3 DEF FormInv, authority, provider, ledger
<1>4. CASE ConfirmFails(c)
    BY <1>1, <1>2, <1>4, SettlePending, FormSpent
       DEF ConfirmFails, FormInv, authority, provider, Settled
<1>5. CASE ConfirmSucceeds(c)
    <2>1. /\ intent' \in [Intents -> {NoIntent} \cup IntentRows]
          /\ authorization' \in [Intents -> {"NONE", "RESERVED", "CONSUMED", "REVOKED"}]
        BY <1>1, <1>5, SettlePending, FormSpent DEF ConfirmSucceeds, Confirmed, Settled
    <2>2. [content |-> work[c].content, revision |-> w.expected.revision + 1] \in Projections
        BY <1>1 DEF Requests, Projections
    <2>3. projection' \in [References -> Projections] /\ result' \subseteq Intents
        BY <1>1, <1>5, <2>2 DEF ConfirmSucceeds, Confirmed, FormInv
    <2> QED
        BY <1>2, <2>1, <2>3 DEF FormInv, authority, provider
<1> QED
    BY <1>3, <1>4, <1>5, ConfirmOutcome

\* Observing an item, holding or applying the observation.
LEMMA FormObservations ==
    ASSUME FormInv, NEW o \in Observations, NEW r \in References,
           ChangeElsewhere(r) \/ Observe(o, r) \/ Reconcile(o)
    PROVE  FormInv'
<1>1. CASE ChangeElsewhere(r)
    BY <1>1 DEF ChangeElsewhere, FormInv, authority, ledger
<1>2. CASE Observe(o, r)
    <2>1. [state |-> "HELD", reference |-> r, content |-> item[r], epoch |-> epoch.epoch]
              \in ObservationRows
        BY DEF FormInv, ObservationRows
    <2> QED
        BY <1>2, <2>1 DEF Observe, FormInv, authority, provider, ledger
<1>3. CASE Reconcile(o)
    <2> DEFINE e == observation[o]
               row == [content |-> e.content, revision |-> NextRevision(e.reference, e.content)]
    <2>1. e \in ObservationRows
        BY <1>3, RowForms DEF Reconcile
    <2>2. e.reference \in References /\ row \in Projections
          /\ [e EXCEPT !.state = "APPLIED"] \in ObservationRows
        BY <2>1 DEF ObservationRows, Projections, NextRevision, FormInv
    <2>3. /\ projection' = [projection EXCEPT ![e.reference] = row]
          /\ observation' = [observation EXCEPT ![o] = [e EXCEPT !.state = "APPLIED"]]
        BY <1>3 DEF Reconcile, Applied
    <2> HIDE DEF e, row
    <2>4. /\ projection' \in [References -> Projections]
          /\ observation' \in [Observations -> {NoObservation} \cup ObservationRows]
        BY <2>2, <2>3 DEF FormInv, e
    <2> QED
        BY <1>3, <2>4 DEF Reconcile, FormInv, authority, provider
<1> QED
    BY <1>1, <1>2, <1>3

\* Taking an intent up to recover it.
LEMMA FormBeginRecovery ==
    ASSUME FormInv, NEW c \in Clients, NEW i \in Intents, BeginRecovery(c, i)
    PROVE  FormInv'
<1>1. intent[i].state # "NONE" /\ "REQUIRES_REAUTHORIZATION" \in IntentStates
    BY DEF BeginRecovery, IntentStates, Settled
<1>2. [op |-> "RECOVER", i |-> i] \in Works
    BY DEF Works, Recoveries
<1>3. \/ Step(c, [op |-> "RECOVER", i |-> i]) /\ UNCHANGED intent
      \/ /\ intent' = [intent EXCEPT ![i].state = "REQUIRES_REAUTHORIZATION"]
         /\ UNCHANGED work
    BY DEF BeginRecovery
<1>4. intent' \in [Intents -> {NoIntent} \cup IntentRows] /\ work' \in [Clients -> Works]
    BY <1>1, <1>2, <1>3, Settling, StepWork DEF FormInv
<1> QED
    BY <1>4 DEF BeginRecovery, FormInv, authority, provider

\* The three outcomes of a recovery's scan.
RecoveryFails(i) ==
    /\ changed[i] > 0 /\ intent[i].state = "PENDING"
    /\ intent' = [intent EXCEPT ![i].state = "FAILED_PERMANENT"]
    /\ UNCHANGED <<projection, result>>
RecoverySucceeds(i) ==
    /\ changed[i] > 0 /\ i \notin result /\ intent[i].state = "PENDING"
    /\ Ready /\ epoch.epoch = intent[i].epoch /\ scope.revision = intent[i].revision
    /\ \E content \in 1..item[intent[i].reference] : Write(intent[i].reference, content)
    /\ intent' = [intent EXCEPT ![i].state = "COMMITTED"]
    /\ result' = result \cup {i}

\* A recovery stores a failure, nothing, or a success with its result.
LEMMA RecoveryOutcome ==
    ASSUME FormInv, NEW c \in Clients, CommitRecovery(c)
    PROVE  /\ work[c].op = "RECOVER" /\ work[c].i \in Intents
           /\ work' \in [Clients -> Works] /\ work'[c] = Idle
           /\ \A d \in Clients \ {c} : work'[d] = work[d]
           /\ UNCHANGED <<workload, authority, provider, authorization, observation>>
           /\ \/ UNCHANGED <<projection, intent, result>>
              \/ RecoveryFails(work[c].i) \/ RecoverySucceeds(work[c].i)
<1>1. work[c].op = "RECOVER" /\ work[c].i \in Intents
    BY WorkForms DEF CommitRecovery, InWork, Recoveries
<1>2. Step(c, Idle) /\ Idle \in Works
    BY DEF CommitRecovery, Works
<1>3. UNCHANGED <<workload, authority, provider, authorization, observation>>
    BY DEF CommitRecovery, Step
<1>4. \/ UNCHANGED <<projection, intent, result>>
      \/ RecoveryFails(work[c].i) \/ RecoverySucceeds(work[c].i)
    BY DEF CommitRecovery, StillPending, Recoverable, Recovered, RecoveryFails, RecoverySucceeds
<1> QED
    BY <1>1, <1>2, <1>3, <1>4, StepWork

\* Recovering an intent.
LEMMA FormRecovery ==
    ASSUME FormInv, NEW c \in Clients, CommitRecovery(c)
    PROVE  FormInv'
<1> DEFINE i == work[c].i
           r == intent[i].reference
<1>1. i \in Intents /\ work' \in [Clients -> Works]
      /\ UNCHANGED <<authority, provider, authorization, observation>>
    BY RecoveryOutcome
<1>2. CASE UNCHANGED <<projection, intent, result>>
    BY <1>1, <1>2 DEF FormInv, authority, provider
<1>3. CASE RecoveryFails(i)
    <2>1. intent' \in [Intents -> {NoIntent} \cup IntentRows]
        BY <1>1, <1>3, Settling DEF RecoveryFails, IntentStates, Settled
    <2> QED
        BY <1>1, <1>3, <2>1 DEF RecoveryFails, FormInv, authority, provider
<1>4. CASE RecoverySucceeds(i)
    <2>1. intent' \in [Intents -> {NoIntent} \cup IntentRows]
        BY <1>1, <1>4, Settling DEF RecoverySucceeds, IntentStates, Settled
    <2>2. r \in References
        BY <1>1, <1>4, RowForms DEF RecoverySucceeds, IntentRows
    <2>3. projection' \in [References -> Projections] /\ result' \subseteq Intents
        <3>1. PICK content \in 1..item[r] : Write(r, content)
            BY <1>4 DEF RecoverySucceeds
        <3>2. [content |-> content, revision |-> projection[r].revision + 1] \in Projections
            BY <2>2, <3>1 DEF Projections, FormInv
        <3> QED
            BY <1>1, <1>4, <2>2, <3>1, <3>2 DEF Write, FormInv, RecoverySucceeds
    <2> QED
        BY <1>1, <2>1, <2>3 DEF FormInv, authority, provider
<1> QED
    BY <1>2, <1>3, <1>4, RecoveryOutcome

\* Withdrawing settles every pending intent, and no other.
LEMMA WithdrawRows ==
    ASSUME FormInv, Withdraw
    PROVE  /\ intent' \in [Intents -> {NoIntent} \cup IntentRows]
           /\ authorization' \in [Intents -> {"NONE", "RESERVED", "CONSUMED", "REVOKED"}]
           /\ \A i \in Intents :
                 \/ intent[i].state # "PENDING" /\ intent'[i] = intent[i]
                 \/ intent[i].state = "PENDING" /\ SettledWith(i, "REQUIRES_REAUTHORIZATION")
                    /\ intent'[i].state = "REQUIRES_REAUTHORIZATION"
<1> SUFFICES ASSUME NEW i \in Intents
             PROVE  /\ intent'[i] \in {NoIntent} \cup IntentRows
                    /\ \/ intent[i].state # "PENDING" /\ intent'[i] = intent[i]
                       \/ /\ intent[i].state = "PENDING"
                          /\ SettledWith(i, "REQUIRES_REAUTHORIZATION")
                          /\ intent'[i].state = "REQUIRES_REAUTHORIZATION"
    BY DEF Withdraw, FormInv
<1>1. CASE intent[i].state = "PENDING"
    <2>1. intent[i] \in IntentRows
        BY <1>1, RowForms
    <2>2. intent'[i] = [intent[i] EXCEPT !.state = "REQUIRES_REAUTHORIZATION"]
        BY <1>1 DEF Withdraw
    <2> QED
        BY <1>1, <2>1, <2>2 DEF IntentRows, IntentStates, Settled, SettledWith
<1>2. CASE intent[i].state # "PENDING"
    BY <1>2 DEF Withdraw, FormInv
<1> QED
    BY <1>1, <1>2

\* A change of the connector's epoch, of the members, a permit's or the server's end.
LEMMA FormAuthority ==
    ASSUME FormInv,
           \/ \E review \in {"READY", "REVIEW_REQUIRED", "REVOKED"} : ChangeEpoch(review)
           \/ \E m \in Members : RemoveMember(m)
           \/ \E p \in Permits : RevokePermit(p)
           \/ Restart
    PROVE  FormInv'
<1>1. ASSUME NEW review \in {"READY", "REVIEW_REQUIRED", "REVOKED"}, ChangeEpoch(review)
      PROVE  FormInv'
    BY <1>1 DEF ChangeEpoch, FormInv, provider, ledger
<1>2. ASSUME NEW m \in Members, RemoveMember(m) PROVE FormInv'
    <2>1. session' \subseteq Members
        BY <1>2 DEF RemoveMember, FormInv
    <2>2. \/ UNCHANGED <<epoch, scope, intent, authorization>>
          \/ /\ epoch' = [epoch EXCEPT !.epoch = @ + 1]
             /\ scope' = [epoch |-> scope.epoch + 1, revision |-> scope.revision + 1]
             /\ Withdraw
        BY <1>2 DEF RemoveMember
    <2>3. /\ epoch' \in [epoch : Nat, review : {"READY", "REVIEW_REQUIRED", "REVOKED"}]
          /\ scope' \in [epoch : Nat, revision : Nat]
        BY <2>2 DEF FormInv
    <2>4. /\ intent' \in [Intents -> {NoIntent} \cup IntentRows]
          /\ authorization' \in [Intents -> {"NONE", "RESERVED", "CONSUMED", "REVOKED"}]
        BY <2>2, WithdrawRows DEF FormInv
    <2> QED
        BY <1>2, <2>1, <2>3, <2>4 DEF RemoveMember, FormInv, provider
<1>3. ASSUME NEW p \in Permits, RevokePermit(p) PROVE FormInv'
    <2>1. permit' \in [Permits -> PermitRows]
        BY <1>3 DEF RevokePermit, FormInv, PermitRows
    <2> QED
        BY <1>3, <2>1 DEF RevokePermit, FormInv, provider, ledger
<1>4. CASE Restart
    BY <1>4 DEF Restart, FormInv, Works, authority, provider, ledger
<1> QED
    BY <1>1, <1>2, <1>3, <1>4

\* Every step keeps the rows and the calls in their form.
LEMMA FormStep == FormInv /\ [Next]_vars => FormInv'
<1> SUFFICES ASSUME FormInv, [Next]_vars PROVE FormInv'
    OBVIOUS
<1>1. ASSUME NEW c \in Clients,
             \/ \E i \in Intents, r \in References, p \in Permits \cup {None} :
                  BeginMutate(c, i, r, p)
             \/ IssueAuthorization(c) \/ ProviderRefuses(c) \/ Confirm(c) \/ CommitRecovery(c)
             \/ \E r \in References : ProviderChanges(c, r)
             \/ \E i \in Intents : BeginRecovery(c, i)
      PROVE  FormInv'
    BY <1>1, FormBegin, FormIssue, FormRefuse, FormConfirm, FormRecovery, FormChange,
       FormBeginRecovery
<1>2. ASSUME NEW r \in References, ChangeElsewhere(r) PROVE FormInv'
    BY <1>2 DEF ChangeElsewhere, FormInv, authority, ledger
<1>3. ASSUME NEW o \in Observations, Reconcile(o) \/ \E r \in References : Observe(o, r)
      PROVE  FormInv'
    BY <1>3, FormObservations, ConnectorAssumption
<1>4. CASE UNCHANGED vars
    BY <1>4 DEF vars, FormInv, authority, provider, ledger
<1> QED
    BY <1>1, <1>2, <1>3, <1>4, FormAuthority DEF Next

-------------------------------------------------------------------------------
(* What every step keeps.                                                  *)

\* Epochs, scopes, contents and revisions only grow; a projection keeps its
\* content with its revision; a spent authorization stays spent; an intent keeps
\* what it names, and its state once it is settled.
AuthorityGrows ==
    \/ UNCHANGED <<epoch, scope>>
    \/ /\ epoch.epoch < MaxEpoch /\ epoch'.epoch = epoch.epoch + 1
       /\ \/ scope' = scope
          \/ scope'.epoch = scope.epoch + 1 /\ scope'.revision = scope.revision + 1
ItemsGrow ==
    \A r \in References : \/ item'[r] = item[r]
                          \/ item[r] < MaxContent /\ item'[r] = item[r] + 1
ProjectionsGrow ==
    \A r \in References : \/ projection'[r] = projection[r]
                          \/ projection'[r].revision > projection[r].revision
PermitsStay ==
    \A p \in Permits : permit[p].state = "CONSUMED" => permit'[p].state = "CONSUMED"
IntentsStay ==
    \A i \in Intents : intent[i].state # "NONE" =>
        /\ intent'[i].state # "NONE"
        /\ intent'[i].epoch = intent[i].epoch /\ intent'[i].revision = intent[i].revision
        /\ intent'[i].permit = intent[i].permit
        /\ intent[i].state \in Settled => intent'[i].state = intent[i].state

\* The connector's epoch and its scope's revision only rise.
LEMMA AuthorityStep ==
    ASSUME FormInv, [Next]_vars
    PROVE  AuthorityGrows
<1>1. ASSUME NEW m \in Members, RemoveMember(m) PROVE AuthorityGrows
    BY <1>1 DEF RemoveMember, AuthorityGrows, FormInv
<1>2. ASSUME NEW review, ChangeEpoch(review) PROVE AuthorityGrows
    BY <1>2 DEF ChangeEpoch, AuthorityGrows, FormInv
<1>3. CASE UNCHANGED <<epoch, scope>>
    BY <1>3 DEF AuthorityGrows
<1>4. \/ UNCHANGED <<epoch, scope>>
      \/ \E m \in Members : RemoveMember(m)
      \/ \E review : ChangeEpoch(review)
    <2>1. ASSUME NEW c \in Clients,
                 \/ \E i \in Intents, r \in References, p \in Permits \cup {None} :
                      BeginMutate(c, i, r, p)
                 \/ IssueAuthorization(c) \/ ProviderRefuses(c) \/ Confirm(c) \/ CommitRecovery(c)
                 \/ \E r \in References : ProviderChanges(c, r)
                 \/ \E i \in Intents : BeginRecovery(c, i)
          PROVE  UNCHANGED <<epoch, scope>>
        BY <2>1, ZenonT(60) DEF BeginMutate, IssueAuthorization, ProviderRefuses, Confirm,
           CommitRecovery, ProviderChanges, BeginRecovery, authority
    <2>2. ASSUME \/ \E r \in References : ChangeElsewhere(r)
                 \/ \E o \in Observations : Reconcile(o) \/ \E r \in References : Observe(o, r)
                 \/ \E p \in Permits : RevokePermit(p)
                 \/ Restart \/ UNCHANGED vars
          PROVE  UNCHANGED <<epoch, scope>>
        BY <2>2, ZenonT(60) DEF ChangeElsewhere, Reconcile, Observe, RevokePermit, Restart, vars,
           authority
    <2> QED
        BY <2>1, <2>2, ZenonT(60) DEF Next
<1> QED
    BY <1>1, <1>2, <1>3, <1>4

\* The content of an item at the provider only rises.
LEMMA ItemsStep ==
    ASSUME FormInv, [Next]_vars
    PROVE  ItemsGrow
<1>1. ASSUME NEW c \in Clients, NEW r \in References, ProviderChanges(c, r) PROVE ItemsGrow
    BY <1>1 DEF ProviderChanges, ItemsGrow, FormInv
<1>2. ASSUME NEW r \in References, ChangeElsewhere(r) PROVE ItemsGrow
    BY <1>2 DEF ChangeElsewhere, ItemsGrow, FormInv
<1>3. \/ UNCHANGED item
      \/ \E c \in Clients, r \in References : ProviderChanges(c, r)
      \/ \E r \in References : ChangeElsewhere(r)
    BY ZenonT(60) DEF Next, BeginMutate, IssueAuthorization, ProviderRefuses, Confirm, CommitRecovery,
           RemoveMember, BeginRecovery, ChangeEpoch, Reconcile, Observe, RevokePermit,
           Restart, vars, provider
<1> QED
    BY <1>1, <1>2, <1>3 DEF ItemsGrow

\* A projection that changes has a higher revision.
LEMMA ProjectionsStep ==
    ASSUME FormInv, [Next]_vars
    PROVE  ProjectionsGrow
<1>1. ASSUME NEW c \in Clients, Confirm(c) PROVE ProjectionsGrow
    <2> DEFINE w == work[c].with
               to == work[c].to
    <2>1. /\ w \in Requests /\ to \in References
          /\ UNCHANGED projection \/ ConfirmSucceeds(c)
        BY <1>1, ConfirmOutcome DEF Confirmations, ConfirmFails, ledger
    <2>2. CASE ConfirmSucceeds(c)
        <3>1. /\ projection[w.reference].revision = w.expected.revision
              /\ to = w.reference \/ projection[to].revision = 0
              /\ projection' = [projection EXCEPT ![to] =
                     [content |-> work[c].content, revision |-> w.expected.revision + 1]]
            BY <2>2 DEF ConfirmSucceeds, Confirmed, Fresh
        <3>2. w.expected.revision \in Nat
            BY <2>1 DEF Requests, Projections
        <3> HIDE DEF w, to
        <3> QED
            BY <2>1, <3>1, <3>2 DEF ProjectionsGrow, FormInv
    <2> QED
        BY <2>1, <2>2 DEF ProjectionsGrow
<1>2. ASSUME NEW o \in Observations, Reconcile(o) PROVE ProjectionsGrow
    <2> DEFINE e == observation[o]
    <2>1. e \in ObservationRows
        BY <1>2, RowForms DEF Reconcile
    <2>2. /\ e.reference \in References
          /\ projection[e.reference] \in Projections
          /\ projection' = [projection EXCEPT ![e.reference] =
                 [content |-> e.content, revision |-> projection[e.reference].revision
                     + (IF projection[e.reference].content = e.content THEN 0 ELSE 1)]]
        BY <1>2, <2>1 DEF Reconcile, Applied, NextRevision, ObservationRows, FormInv
    <2> HIDE DEF e
    <2>3. CASE projection[e.reference].content = e.content
        <3>1. [content |-> e.content, revision |-> projection[e.reference].revision + 0]
                  = projection[e.reference]
            BY <2>2, <2>3 DEF Projections
        <3> QED
            BY <2>2, <2>3, <3>1 DEF ProjectionsGrow, FormInv
    <2>4. CASE projection[e.reference].content # e.content
        BY <2>2, <2>4 DEF ProjectionsGrow, FormInv, Projections
    <2> QED
        BY <2>3, <2>4
<1>3. ASSUME NEW c \in Clients, CommitRecovery(c) PROVE ProjectionsGrow
    <2>1. CASE RecoverySucceeds(work[c].i)
        <3>1. intent[work[c].i].reference \in References
            BY <1>3, <2>1, RecoveryOutcome, RowForms DEF RecoverySucceeds, IntentRows
        <3>2. PICK content : Write(intent[work[c].i].reference, content)
            BY <2>1 DEF RecoverySucceeds
        <3> QED
            BY <3>1, <3>2 DEF Write, ProjectionsGrow, FormInv, Projections
    <2> QED
        BY <1>3, <2>1, RecoveryOutcome DEF RecoveryFails, ProjectionsGrow
<1>4. \/ UNCHANGED projection
      \/ \E c \in Clients : Confirm(c) \/ CommitRecovery(c)
      \/ \E o \in Observations : Reconcile(o)
    BY ZenonT(60) DEF Next, BeginMutate, IssueAuthorization, ProviderRefuses, ProviderChanges,
           RemoveMember, BeginRecovery, ChangeEpoch, ChangeElsewhere, Observe, RevokePermit,
           Restart, vars, ledger
<1> QED
    BY <1>1, <1>2, <1>3, <1>4 DEF ProjectionsGrow

\* A permit that was spent stays spent.
LEMMA PermitsStep ==
    ASSUME FormInv, [Next]_vars
    PROVE  PermitsStay
<1>1. ASSUME NEW p \in Permits, permit[p].state = "ISSUED", NEW s,
             permit' = [permit EXCEPT ![p].state = s]
      PROVE  PermitsStay
    BY <1>1 DEF PermitsStay, FormInv
<1>2. ASSUME NEW p \in Permits, RevokePermit(p) PROVE PermitsStay
    BY <1>1, <1>2 DEF RevokePermit
<1>3. ASSUME NEW c \in Clients, NEW i \in Intents, NEW r \in References,
             NEW p \in Permits \cup {None}, BeginMutate(c, i, r, p)
      PROVE  PermitsStay
    <2>1. \/ UNCHANGED permit
          \/ p \in Permits /\ permit[p].state = "ISSUED"
             /\ permit' = [permit EXCEPT ![p].state = "CONSUMED"]
        BY <1>3 DEF BeginMutate, ConsumeAttempt, Verified
    <2> QED
        BY <1>1, <2>1 DEF PermitsStay
<1>4. \/ UNCHANGED permit
      \/ \E p \in Permits : RevokePermit(p)
      \/ \E c \in Clients, i \in Intents, r \in References, p \in Permits \cup {None} :
            BeginMutate(c, i, r, p)
    BY ZenonT(60) DEF Next, IssueAuthorization, ProviderRefuses, Confirm, CommitRecovery, ProviderChanges,
           RemoveMember, BeginRecovery, ChangeEpoch, ChangeElsewhere, Reconcile, Observe,
           Restart, vars, authority
<1> QED
    BY <1>2, <1>3, <1>4 DEF PermitsStay

\* An intent that was stored keeps its authority, and keeps its state once settled.
LEMMA IntentsStep ==
    ASSUME FormInv, [Next]_vars
    PROVE  IntentsStay
<1>1. ASSUME NEW i \in Intents, NEW s \in Settled, SettledWith(i, s), intent[i].state \in
             Settled => intent'[i] = intent[i],
             \A j \in Intents \ {i} : intent'[j] = intent[j]
      PROVE  IntentsStay
    BY <1>1 DEF SettledWith, IntentsStay, Settled
<1>2. ASSUME NEW i \in Intents, NEW s \in Settled, intent[i].state = "PENDING",
             intent' = [intent EXCEPT ![i].state = s]
      PROVE  IntentsStay
    <2>1. s \in IntentStates
        BY DEF IntentStates
    <2> QED
        BY <1>1, <1>2, <2>1, Settling DEF SettledWith, Settled
<1>3. ASSUME NEW i \in Intents, NEW s \in Settled,
             intent' = [intent EXCEPT ![i].state = IF @ = "PENDING" THEN s ELSE @]
      PROVE  IntentsStay
    <2>1. /\ SettledWith(i, s) /\ (intent[i].state # "PENDING" => intent'[i] = intent[i])
          /\ \A j \in Intents \ {i} : intent'[j] = intent[j]
        BY <1>3, SettlePending
    <2>2. "PENDING" \notin Settled
        BY DEF Settled
    <2> QED
        BY <2>1, <2>2 DEF SettledWith, IntentsStay, Settled
<1>4. ASSUME UNCHANGED intent PROVE IntentsStay
    BY <1>4 DEF IntentsStay
<1>5. ASSUME NEW c \in Clients, IssueAuthorization(c) PROVE IntentsStay
    BY <1>5, <1>4 DEF IssueAuthorization, UniqueIntent, IntentsStay, FormInv
<1>6. ASSUME NEW c \in Clients, ProviderRefuses(c) PROVE IntentsStay
    <2>1. work[c].i \in Intents
        BY <1>6, WorkForms DEF ProviderRefuses, InWork, Requests
    <2> QED
        BY <1>3, <1>4, <1>6, <2>1 DEF ProviderRefuses, Settled
<1>7. ASSUME NEW c \in Clients, Confirm(c) PROVE IntentsStay
    BY <1>3, <1>4, <1>7, ConfirmOutcome
       DEF ConfirmFails, ConfirmSucceeds, Confirmed, ledger, Settled
<1>8. ASSUME NEW c \in Clients, CommitRecovery(c) PROVE IntentsStay
    BY <1>2, <1>4, <1>8, RecoveryOutcome DEF RecoveryFails, RecoverySucceeds, Settled
<1>9. ASSUME NEW c \in Clients, NEW i \in Intents, BeginRecovery(c, i) PROVE IntentsStay
    BY <1>2, <1>4, <1>9 DEF BeginRecovery, Settled
<1>10. ASSUME NEW m \in Members, RemoveMember(m) PROVE IntentsStay
    <2>1. CASE Withdraw
        BY <2>1, WithdrawRows DEF SettledWith, IntentsStay, Settled
    <2> QED
        BY <1>4, <1>10, <2>1 DEF RemoveMember
<1>11. \/ UNCHANGED intent
       \/ \E c \in Clients : \/ IssueAuthorization(c) \/ ProviderRefuses(c) \/ Confirm(c)
                             \/ CommitRecovery(c) \/ \E i \in Intents : BeginRecovery(c, i)
       \/ \E m \in Members : RemoveMember(m)
    BY ZenonT(60) DEF Next, BeginMutate, ProviderChanges, ChangeEpoch, ChangeElsewhere, Reconcile, Observe,
           RevokePermit, Restart, vars, ledger
<1> QED
    BY <1>4, <1>5, <1>6, <1>7, <1>8, <1>9, <1>10, <1>11

\* Where the call of a client comes from.
BeganCall(c) ==
    \E i \in Intents, r \in References, p \in Permits \cup {None} :
        /\ BeginMutate(c, i, r, p)
        /\ work'[c] = [op |-> "ISSUE", i |-> i, reference |-> r, expected |-> projection[r],
                       epoch |-> epoch.epoch, revision |-> scope.revision, permit |-> p]
IssuedCall(c) ==
    LET w == work[c] IN
    /\ w \in Requests /\ w.op = "ISSUE" /\ Fresh(w) /\ intent[w.i].state = "NONE"
    /\ intent' = [intent EXCEPT ![w.i] =
           [state |-> "PENDING", epoch |-> w.epoch, revision |-> w.revision,
            reference |-> w.reference, permit |-> w.permit]]
    /\ work'[c] = [w EXCEPT !.op = "CALL"]
    /\ UNCHANGED <<epoch, scope, permit, item, changed, projection, result>>
MadeChange(c) ==
    LET w == work[c] IN
    \E to \in References :
        /\ w \in Requests /\ w.op = "CALL" /\ item[to] < MaxContent
        /\ item' = [item EXCEPT ![to] = @ + 1] /\ changed' = [changed EXCEPT ![w.i] = @ + 1]
        /\ work'[c] = [op |-> "CONFIRM", with |-> w, to |-> to, content |-> item[to] + 1]
        /\ UNCHANGED <<epoch, scope, permit, projection, intent, result>>

\* A call begins, gets its intent, makes its change, or ends.
LEMMA CallStep ==
    ASSUME FormInv, [Next]_vars, NEW c \in Clients
    PROVE  \/ work'[c] = work[c]
           \/ work'[c].op \in {"IDLE", "RECOVER"}
           \/ BeganCall(c) \/ IssuedCall(c) \/ MadeChange(c)
<1> DEFINE Goal == \/ work'[c] = work[c]
                   \/ work'[c].op \in {"IDLE", "RECOVER"}
                   \/ BeganCall(c) \/ IssuedCall(c) \/ MadeChange(c)
<1>1. ASSUME NEW d \in Clients, NEW next \in Works, Step(d, next), d # c
      PROVE  work'[c] = work[c]
    BY <1>1, StepWork
<1>2. Idle \in Works /\ Idle.op = "IDLE"
    BY DEF Idle, Works
<1>3. ASSUME NEW d \in Clients, Step(d, Idle) PROVE Goal
    BY <1>1, <1>2, <1>3, StepWork
<1>4. ASSUME NEW d \in Clients, NEW i \in Intents, NEW r \in References,
             NEW p \in Permits \cup {None}, BeginMutate(d, i, r, p)
      PROVE  Goal
    <2> DEFINE w == [op |-> "ISSUE", i |-> i, reference |-> r, expected |-> projection[r],
                     epoch |-> epoch.epoch, revision |-> scope.revision, permit |-> p]
    <2>1. Step(d, w) /\ w \in Works
        BY <1>4 DEF BeginMutate, Works, Requests, FormInv
    <2>2. CASE d # c
        BY <1>1, <2>1, <2>2
    <2>3. CASE d = c
        <3>1. work'[c] = w
            BY <2>1, <2>3, StepWork
        <3>2. BeganCall(c)
            BY <1>4, <2>3, <3>1 DEF BeganCall
        <3> QED
            BY <3>2
    <2> QED
        BY <2>2, <2>3
<1>5. ASSUME NEW d \in Clients, IssueAuthorization(d) PROVE Goal
    <2> DEFINE w == work[d]
               next == [w EXCEPT !.op = "CALL"]
    <2>1. w \in Requests /\ w.op = "ISSUE" /\ w.i \in Intents
        BY <1>5, WorkForms DEF IssueAuthorization, InWork, Requests
    <2>2. next \in Works
        BY <2>1 DEF Works, Requests
    <2>3. \/ Step(d, Idle)
          \/ /\ Fresh(w) /\ intent[w.i].state = "NONE" /\ Step(d, next)
             /\ intent' = [intent EXCEPT ![w.i] =
                    [state |-> "PENDING", epoch |-> w.epoch, revision |-> w.revision,
                     reference |-> w.reference, permit |-> w.permit]]
        BY <1>5 DEF IssueAuthorization, UniqueIntent
    <2>4. UNCHANGED <<epoch, scope, permit, item, changed, projection, result>>
        BY <1>5 DEF IssueAuthorization, authority, provider
    <2>5. CASE d # c
        BY <1>1, <1>3, <2>2, <2>3, <2>5
    <2>6. CASE d = c /\ Step(d, next)
        <3>1. work'[c] = next
            BY <2>2, <2>6, StepWork
        <3>2. Idle # next
            BY <2>1 DEF Idle, Requests
        <3>3. ~Step(d, Idle)
            BY <1>2, <2>6, <3>1, <3>2, StepWork
        <3>4. IssuedCall(c)
            BY <2>1, <2>3, <2>4, <2>6, <3>1, <3>3 DEF IssuedCall
        <3> QED
            BY <3>4
    <2> QED
        BY <1>3, <2>3, <2>5, <2>6
<1>6. ASSUME NEW d \in Clients, NEW to \in References, ProviderChanges(d, to) PROVE Goal
    <2> DEFINE w == work[d]
               next == [op |-> "CONFIRM", with |-> w, to |-> to, content |-> item[to] + 1]
    <2>1. w \in Requests /\ w.op = "CALL"
        BY <1>6, WorkForms DEF ProviderChanges, InWork
    <2>2. next \in Works
        BY <2>1 DEF Works, Confirmations, FormInv
    <2>3. Step(d, Idle) \/ Step(d, next)
        BY <1>6 DEF ProviderChanges
    <2>4. /\ item[to] < MaxContent
          /\ item' = [item EXCEPT ![to] = @ + 1] /\ changed' = [changed EXCEPT ![w.i] = @ + 1]
          /\ UNCHANGED <<epoch, scope, permit, projection, intent, result>>
        BY <1>6 DEF ProviderChanges, authority, ledger
    <2>5. CASE d # c
        BY <1>1, <1>3, <2>2, <2>3, <2>5
    <2>6. CASE d = c /\ Step(d, next)
        <3>1. work'[c] = next
            BY <2>2, <2>6, StepWork
        <3>2. MadeChange(c)
            BY <2>1, <2>4, <2>6, <3>1 DEF MadeChange
        <3> QED
            BY <3>2
    <2> QED
        BY <1>3, <2>3, <2>5, <2>6
<1>7. ASSUME NEW d \in Clients, ProviderRefuses(d) \/ Confirm(d) \/ CommitRecovery(d) PROVE Goal
    BY <1>3, <1>7 DEF ProviderRefuses, Confirm, CommitRecovery
<1>8. ASSUME NEW d \in Clients, NEW i \in Intents, BeginRecovery(d, i) PROVE Goal
    <2>1. [op |-> "RECOVER", i |-> i] \in Works
        BY DEF Works, Recoveries
    <2>2. Step(d, [op |-> "RECOVER", i |-> i]) \/ UNCHANGED work
        BY <1>8 DEF BeginRecovery
    <2>3. CASE Step(d, [op |-> "RECOVER", i |-> i]) /\ d = c
        BY <2>1, <2>3, StepWork
    <2> QED
        BY <1>1, <2>1, <2>2, <2>3
<1>9. CASE Restart
    BY <1>2, <1>9 DEF Restart
<1>10. CASE UNCHANGED work
    BY <1>10
<1>11. \/ UNCHANGED work
       \/ Restart
       \/ \E d \in Clients :
            \/ \E i \in Intents, r \in References, p \in Permits \cup {None} :
                 BeginMutate(d, i, r, p)
            \/ IssueAuthorization(d) \/ ProviderRefuses(d) \/ Confirm(d) \/ CommitRecovery(d)
            \/ \E r \in References : ProviderChanges(d, r)
            \/ \E i \in Intents : BeginRecovery(d, i)
    BY ZenonT(60) DEF Next, ChangeElsewhere, Reconcile, Observe, ChangeEpoch, RemoveMember, RevokePermit, vars
<1> QED
    BY <1>4, <1>5, <1>6, <1>7, <1>8, <1>9, <1>10, <1>11

-------------------------------------------------------------------------------
(* Calls know what once stood.                                             *)

\* What a call knows of the authority and of the projection once stood.
LEMMA CallsStep ==
    ASSUME FormInv, BoundsInv, CallsInv, [Next]_vars
    PROVE  CallsInv'
<1>1. FormInv' /\ AuthorityGrows /\ ProjectionsGrow
    BY FormStep, AuthorityStep, ProjectionsStep
<1>2. /\ epoch.epoch \in Nat /\ scope.revision \in Nat
      /\ epoch'.epoch \in Nat /\ scope'.revision \in Nat
      /\ epoch.epoch <= epoch'.epoch /\ scope.revision <= scope'.revision
    BY <1>1 DEF FormInv, AuthorityGrows
<1> SUFFICES ASSUME NEW c \in Calling'
             PROVE  LET w == CallOf(c)' IN
                    /\ w.epoch \in 1..epoch'.epoch /\ w.revision \in 1..scope'.revision
                    /\ w.expected.revision <= projection'[w.reference].revision
                    /\ w.expected.revision = projection'[w.reference].revision =>
                         projection'[w.reference] = w.expected
    BY DEF CallsInv
<1>3. c \in Clients /\ work'[c].op \in {"ISSUE", "CALL", "CONFIRM"}
    BY DEF Calling
<1>4. ASSUME c \in Calling, CallOf(c)' = CallOf(c) \/ CallOf(c)' = [CallOf(c) EXCEPT !.op = "CALL"]
      PROVE  LET w == CallOf(c)' IN
             /\ w.epoch \in 1..epoch'.epoch /\ w.revision \in 1..scope'.revision
             /\ w.expected.revision <= projection'[w.reference].revision
             /\ w.expected.revision = projection'[w.reference].revision =>
                  projection'[w.reference] = w.expected
    <2> DEFINE v == CallOf(c)
               w == CallOf(c)'
    <2>1. v \in Requests
        BY <1>4, <1>3, WorkForms
    <2>2. /\ w.epoch = v.epoch /\ w.revision = v.revision
          /\ w.expected = v.expected /\ w.reference = v.reference
        BY <1>4, <2>1 DEF Requests
    <2>3. /\ v.epoch \in 1..epoch.epoch /\ v.revision \in 1..scope.revision
          /\ v.expected.revision <= projection[v.reference].revision
          /\ v.expected.revision = projection[v.reference].revision =>
               projection[v.reference] = v.expected
        BY <1>4 DEF CallsInv
    <2>4. /\ v.reference \in References /\ v.expected.revision \in Nat
          /\ projection[v.reference] \in Projections /\ projection'[v.reference] \in Projections
        BY <2>1, <1>1 DEF Requests, Projections, FormInv
    <2>5. \/ projection'[v.reference] = projection[v.reference]
          \/ projection'[v.reference].revision > projection[v.reference].revision
        BY <1>1, <2>4 DEF ProjectionsGrow
    <2>6. v.epoch \in 1..epoch'.epoch /\ v.revision \in 1..scope'.revision
        BY <1>2, <2>3
    <2> HIDE DEF v, w
    <2>7. /\ v.expected.revision <= projection'[v.reference].revision
          /\ v.expected.revision = projection'[v.reference].revision =>
               projection'[v.reference] = v.expected
        BY <2>3, <2>4, <2>5 DEF Projections
    <2> QED
        BY <2>2, <2>6, <2>7 DEF v, w
<1>5. CASE work'[c] = work[c]
    <2>1. c \in Calling /\ CallOf(c)' = CallOf(c)
        BY <1>3, <1>5 DEF Calling, CallOf
    <2> QED
        BY <1>4, <2>1
<1>6. CASE BeganCall(c)
    <2>1. PICK i \in Intents, r \in References, p \in Permits \cup {None} :
            /\ BeginMutate(c, i, r, p)
            /\ work'[c] = [op |-> "ISSUE", i |-> i, reference |-> r, expected |-> projection[r],
                           epoch |-> epoch.epoch, revision |-> scope.revision, permit |-> p]
        BY <1>6 DEF BeganCall
    <2>2. UNCHANGED <<projection, epoch, scope>>
        BY <2>1 DEF BeginMutate, ledger
    <2>3. CallOf(c)' = work'[c]
        BY <2>1 DEF CallOf
    <2>4. projection[r].revision \in Nat
        BY DEF FormInv, Projections
    <2>5. epoch.epoch \in 1..epoch.epoch /\ scope.revision \in 1..scope.revision
        BY <1>2 DEF BoundsInv
    <2> QED
        BY <2>1, <2>2, <2>3, <2>4, <2>5
<1>7. CASE IssuedCall(c)
    <2>1. c \in Calling /\ CallOf(c)' = [CallOf(c) EXCEPT !.op = "CALL"]
        BY <1>3, <1>7 DEF IssuedCall, Calling, CallOf, Requests
    <2> QED
        BY <1>4, <2>1
<1>8. CASE MadeChange(c)
    <2>1. c \in Calling /\ CallOf(c)' = CallOf(c)
        BY <1>3, <1>8 DEF MadeChange, Calling, CallOf
    <2> QED
        BY <1>4, <2>1
<1> QED
    BY <1>3, <1>5, <1>6, <1>7, <1>8, CallStep

\* Only an authorization makes an intent.
LEMMA IssuedBy ==
    ASSUME FormInv, [Next]_vars, NEW i \in Intents,
           intent[i].state = "NONE", intent'[i].state # "NONE"
    PROVE  \E c \in Clients :
              /\ IssueAuthorization(c) /\ work[c].i = i /\ work[c] \in Requests
              /\ IssuedCall(c) /\ work[c].op = "ISSUE"
<1>1. ASSUME NEW j \in Intents, NEW s \in Settled,
             intent' = [intent EXCEPT ![j].state = IF @ = "PENDING" THEN s ELSE @]
      PROVE  FALSE
    <2>1. /\ SettledWith(j, s) /\ \A k \in Intents \ {j} : intent'[k] = intent[k]
        BY <1>1, SettlePending
    <2> QED
        BY <2>1 DEF SettledWith
<1>2. ASSUME NEW j \in Intents, NEW s, intent[j].state = "PENDING",
             intent' = [intent EXCEPT ![j].state = s]
      PROVE  FALSE
    <2>1. i # j
        BY <1>2
    <2> QED
        BY <1>2, <2>1 DEF FormInv
<1>3. ASSUME NEW c \in Clients, ProviderRefuses(c) PROVE FALSE
    <2>1. work[c].i \in Intents
        BY <1>3, WorkForms DEF ProviderRefuses, InWork, Requests
    <2> QED
        BY <1>1, <1>3, <2>1 DEF ProviderRefuses, Settled
<1>4. ASSUME NEW c \in Clients, Confirm(c) PROVE FALSE
    BY <1>1, <1>4, ConfirmOutcome DEF ConfirmFails, ConfirmSucceeds, Confirmed, ledger, Settled
<1>5. ASSUME NEW c \in Clients, CommitRecovery(c) PROVE FALSE
    BY <1>2, <1>5, RecoveryOutcome DEF RecoveryFails, RecoverySucceeds
<1>6. ASSUME NEW c \in Clients, NEW j \in Intents, BeginRecovery(c, j) PROVE FALSE
    BY <1>2, <1>6 DEF BeginRecovery
<1>7. ASSUME NEW m \in Members, RemoveMember(m) PROVE FALSE
    BY <1>7, WithdrawRows DEF RemoveMember
<1>8. PICK c \in Clients : IssueAuthorization(c)
    BY <1>3, <1>4, <1>5, <1>6, <1>7
       DEF Next, BeginMutate, ProviderChanges, ChangeEpoch, ChangeElsewhere, Reconcile, Observe,
           RevokePermit, Restart, vars, ledger
<1>9. work[c] \in Requests /\ work[c].op = "ISSUE"
    BY <1>8, WorkForms DEF IssueAuthorization, InWork
<1> DEFINE w == work[c]
<1>10. /\ Fresh(w) /\ intent[w.i].state = "NONE" /\ Step(c, [w EXCEPT !.op = "CALL"])
       /\ intent' = [intent EXCEPT ![w.i] =
              [state |-> "PENDING", epoch |-> w.epoch, revision |-> w.revision,
               reference |-> w.reference, permit |-> w.permit]]
    BY <1>8 DEF IssueAuthorization, UniqueIntent
<1>11. w.i = i
    BY <1>9, <1>10 DEF FormInv, Requests
<1>12. [w EXCEPT !.op = "CALL"] \in Works
    BY <1>9 DEF Works, Requests
<1>13. UNCHANGED <<epoch, scope, permit, item, changed, projection, result>>
    BY <1>8 DEF IssueAuthorization, authority, provider
<1>14. IssuedCall(c)
    BY <1>9, <1>10, <1>12, <1>13, StepWork DEF IssuedCall
<1> QED
    BY <1>8, <1>9, <1>11, <1>14

-------------------------------------------------------------------------------
(* Bounds.                                                                 *)

\* The projection of an item shows content the item has had.
Shown(r) ==
    /\ projection[r].content \in 0..item[r]
    /\ (projection[r].revision = 0) = (projection[r].content = 0)

\* What a projection shows is content that its item has had.
LEMMA ShownStep ==
    ASSUME FormInv, BoundsInv, [Next]_vars, NEW r \in References
    PROVE  Shown(r)'
<1>1. FormInv' /\ ItemsGrow
    BY FormStep, ItemsStep
<1>2. Shown(r) /\ item[r] \in Nat /\ item'[r] \in Nat /\ item[r] <= item'[r]
    BY <1>1 DEF BoundsInv, Shown, ItemsGrow, FormInv
<1>3. CASE projection'[r] = projection[r]
    BY <1>2, <1>3 DEF Shown, FormInv, Projections
<1>4. ASSUME NEW content \in 1..item[r], NEW revision \in Nat \ {0},
             projection'[r] = [content |-> content, revision |-> revision]
      PROVE  Shown(r)'
    BY <1>2, <1>4 DEF Shown
<1>5. ASSUME NEW c \in Clients, Confirm(c) PROVE Shown(r)'
    <2> DEFINE w == work[c].with
               to == work[c].to
    <2>1. /\ w \in Requests /\ to \in References
          /\ UNCHANGED <<item>>
          /\ UNCHANGED projection \/ ConfirmSucceeds(c)
          /\ work[c].content \in 1..item[to]
        BY <1>5, ConfirmOutcome DEF Confirmations, ConfirmFails, ledger, provider, BoundsInv
    <2>2. CASE ConfirmSucceeds(c)
        <3>1. projection' = [projection EXCEPT ![to] =
                 [content |-> work[c].content, revision |-> w.expected.revision + 1]]
            BY <2>2 DEF ConfirmSucceeds, Confirmed
        <3>2. w.expected.revision + 1 \in Nat \ {0}
            BY <2>1 DEF Requests, Projections
        <3> HIDE DEF w, to
        <3>3. CASE r = to
            <4>1. projection'[r] = [content |-> work[c].content,
                                    revision |-> w.expected.revision + 1]
                BY <3>1, <3>3 DEF FormInv
            <4> QED
                BY <1>4, <2>1, <3>2, <3>3, <4>1
        <3> QED
            BY <1>3, <3>1, <3>3 DEF FormInv
    <2> QED
        BY <1>3, <2>1, <2>2
<1>6. ASSUME NEW o \in Observations, Reconcile(o) PROVE Shown(r)'
    <2> DEFINE e == observation[o]
               next == NextRevision(e.reference, e.content)
    <2>1. e \in ObservationRows /\ e.content \in 1..item[e.reference]
        BY <1>6, RowForms DEF Reconcile, BoundsInv
    <2>2. /\ e.reference \in References
          /\ projection' = [projection EXCEPT ![e.reference] =
                 [content |-> e.content, revision |-> next]]
        BY <1>6, <2>1 DEF Reconcile, Applied, ObservationRows
    <2>3. next \in Nat \ {0}
        <3>1. Shown(e.reference) /\ projection[e.reference] \in Projections
              /\ item[e.reference] \in Nat
            BY <2>2 DEF BoundsInv, Shown, FormInv
        <3> QED
            BY <2>1, <3>1 DEF Shown, NextRevision, Projections, ObservationRows
    <2> HIDE DEF e, next
    <2>4. CASE r = e.reference
        BY <1>4, <2>1, <2>2, <2>3, <2>4 DEF FormInv
    <2> QED
        BY <1>3, <2>2, <2>4 DEF FormInv
<1>7. ASSUME NEW c \in Clients, CommitRecovery(c) PROVE Shown(r)'
    <2>1. CASE RecoverySucceeds(work[c].i)
        <3> DEFINE x == intent[work[c].i].reference
        <3>1. x \in References
            BY <1>7, <2>1, RecoveryOutcome, RowForms DEF RecoverySucceeds, IntentRows
        <3>2. PICK content \in 1..item[x] : Write(x, content)
            BY <2>1 DEF RecoverySucceeds
        <3>3. projection[x].revision + 1 \in Nat \ {0}
            BY <3>1 DEF FormInv, Projections
        <3>4. projection' = [projection EXCEPT ![x] =
                 [content |-> content, revision |-> projection[x].revision + 1]]
            BY <3>2 DEF Write
        <3> HIDE DEF x
        <3>5. CASE r = x
            <4>1. projection'[r] = [content |-> content, revision |-> projection[x].revision + 1]
                BY <3>4, <3>5 DEF FormInv
            <4>2. content \in 1..item[r]
                BY <3>2, <3>5
            <4> QED
                BY <1>4, <3>3, <4>1, <4>2
        <3> QED
            BY <1>3, <3>4, <3>5 DEF FormInv
    <2> QED
        BY <1>3, <1>7, <2>1, RecoveryOutcome DEF RecoveryFails
<1>8. \/ UNCHANGED projection
      \/ \E c \in Clients : Confirm(c) \/ CommitRecovery(c)
      \/ \E o \in Observations : Reconcile(o)
    BY ZenonT(60) DEF Next, BeginMutate, IssueAuthorization, ProviderRefuses, ProviderChanges,
           RemoveMember, BeginRecovery, ChangeEpoch, ChangeElsewhere, Observe, RevokePermit,
           Restart, vars, ledger
<1> QED
    BY <1>3, <1>5, <1>6, <1>7, <1>8

\* What is observed stays content the item has had.
LEMMA ObservedStep ==
    ASSUME FormInv, BoundsInv, [Next]_vars, NEW o \in Observations,
           observation'[o].state # "NONE"
    PROVE  observation'[o].content \in 1..item'[observation'[o].reference]
<1>1. FormInv' /\ ItemsGrow
    BY FormStep, ItemsStep
<1>2. CASE observation'[o] = observation[o]
    <2>1. observation[o].content \in 1..item[observation[o].reference]
          /\ observation[o] \in ObservationRows
        BY <1>2, RowForms DEF BoundsInv
    <2> QED
        BY <1>1, <1>2, <2>1 DEF ObservationRows, ItemsGrow, FormInv
<1>3. CASE Reconcile(o)
    <2>1. observation[o].content \in 1..item[observation[o].reference]
          /\ observation[o] \in ObservationRows
        BY <1>3, RowForms DEF BoundsInv, Reconcile
    <2>2. /\ observation'[o].content = observation[o].content
          /\ observation'[o].reference = observation[o].reference /\ UNCHANGED item
        BY <1>3, <2>1 DEF Reconcile, Applied, ObservationRows, FormInv, provider
    <2> QED
        BY <2>1, <2>2
<1>4. ASSUME NEW r \in References, Observe(o, r)
      PROVE  observation'[o].content \in 1..item'[observation'[o].reference]
    BY <1>4 DEF Observe, provider, FormInv
<1>5. \/ observation'[o] = observation[o]
      \/ Reconcile(o)
      \/ \E r \in References : Observe(o, r)
    <2>1. ASSUME NEW p \in Observations, p # o, Reconcile(p) \/ \E r \in References : Observe(p, r)
          PROVE  observation'[o] = observation[o]
        BY <2>1 DEF Reconcile, Applied, Observe, FormInv
    <2>2. \/ UNCHANGED observation
          \/ \E p \in Observations : Reconcile(p) \/ \E r \in References : Observe(p, r)
        BY ZenonT(60) DEF Next, BeginMutate, IssueAuthorization, ProviderRefuses, ProviderChanges, Confirm,
           CommitRecovery, RemoveMember, BeginRecovery, ChangeEpoch, ChangeElsewhere,
           RevokePermit, Restart, vars
    <2> QED
        BY <2>1, <2>2
<1> QED
    BY <1>2, <1>3, <1>4, <1>5

\* Epochs, revisions and contents stay in their bounds.
LEMMA BoundsStep ==
    ASSUME FormInv, BoundsInv, CallsInv, [Next]_vars
    PROVE  BoundsInv'
<1>1. FormInv' /\ AuthorityGrows /\ ItemsGrow /\ IntentsStay
    BY FormStep, AuthorityStep, ItemsStep, IntentsStep
<1>2. /\ epoch'.epoch \in 1..MaxEpoch
      /\ scope'.epoch \in 1..epoch'.epoch /\ scope'.revision = scope'.epoch
      /\ epoch.epoch <= epoch'.epoch /\ scope.revision <= scope'.revision
    BY <1>1, ConnectorAssumption DEF BoundsInv, FormInv, AuthorityGrows
<1>3. \A r \in References : item'[r] \in Contents /\ Shown(r)'
    BY <1>1, ShownStep, ConnectorAssumption DEF BoundsInv, ItemsGrow, Contents, FormInv
<1>4. ASSUME NEW c \in Clients, work'[c].op = "CONFIRM"
      PROVE  work'[c].content \in 1..item'[work'[c].to]
    <2>1. CASE work'[c] = work[c]
        <3>1. work[c] \in Confirmations /\ work[c].content \in 1..item[work[c].to]
            BY <1>4, <2>1, WorkForms DEF BoundsInv
        <3> QED
            BY <1>1, <2>1, <3>1 DEF Confirmations, ItemsGrow, FormInv
    <2>2. CASE MadeChange(c)
        BY <2>2 DEF MadeChange, FormInv
    <2>3. ASSUME BeganCall(c) PROVE FALSE
        <3>1. PICK i \in Intents, r \in References, p \in Permits \cup {None} :
                 work'[c] = [op |-> "ISSUE", i |-> i, reference |-> r,
                             expected |-> projection[r], epoch |-> epoch.epoch,
                             revision |-> scope.revision, permit |-> p]
            BY <2>3 DEF BeganCall
        <3> QED
            BY <1>4, <3>1
    <2>4. ~IssuedCall(c)
        BY <1>4 DEF IssuedCall, Requests
    <2> QED
        BY <1>4, <2>1, <2>2, <2>3, <2>4, CallStep
<1>5. ASSUME NEW i \in Intents, intent'[i].state # "NONE"
      PROVE  intent'[i].epoch \in 1..epoch'.epoch /\ intent'[i].revision \in 1..scope'.revision
    <2>1. CASE intent[i].state # "NONE"
        <3>1. /\ intent[i].epoch \in 1..epoch.epoch /\ intent[i].revision \in 1..scope.revision
              /\ intent'[i].epoch = intent[i].epoch /\ intent'[i].revision = intent[i].revision
            BY <1>1, <2>1 DEF BoundsInv, IntentsStay
        <3> QED
            BY <1>1, <1>2, <3>1 DEF FormInv
    <2>2. CASE intent[i].state = "NONE"
        <3>1. PICK c \in Clients : IssueAuthorization(c) /\ work[c].i = i
            BY <1>5, <2>2, IssuedBy
        <3>2. /\ work[c].op = "ISSUE" /\ c \in Calling /\ CallOf(c) = work[c]
              /\ intent'[i].epoch = work[c].epoch /\ intent'[i].revision = work[c].revision
            BY <1>5, <2>2, <3>1
               DEF IssueAuthorization, InWork, Calling, CallOf, FormInv
        <3>3. work[c].epoch \in 1..epoch.epoch /\ work[c].revision \in 1..scope.revision
            BY <3>2 DEF CallsInv
        <3> QED
            BY <1>1, <1>2, <3>2, <3>3 DEF FormInv
    <2> QED
        BY <2>1, <2>2
<1> QED
    BY <1>2, <1>3, <1>4, <1>5, ObservedStep DEF BoundsInv, Shown

-------------------------------------------------------------------------------
(* Who settles an intent, and who changes the provider for it.             *)

ByConfirmation(i) ==
    \E c \in Clients :
        /\ Confirm(c) /\ work[c].with.i = i
        /\ \/ ConfirmFails(c) /\ intent'[i].state = "REQUIRES_REAUTHORIZATION"
           \/ ConfirmSucceeds(c) /\ intent'[i].state = "COMMITTED"
ByRecovery(i) ==
    \E c \in Clients :
        /\ CommitRecovery(c) /\ work[c].i = i
        /\ \/ RecoveryFails(i) /\ intent'[i].state = "FAILED_PERMANENT"
           \/ RecoverySucceeds(i) /\ intent'[i].state = "COMMITTED"
ByRefusal(i) ==
    /\ intent'[i].state = "FAILED_PERMANENT"
    /\ \E c \in Clients : ProviderRefuses(c) /\ work[c].i = i
ByWithdrawal(i) ==
    /\ intent'[i].state = "REQUIRES_REAUTHORIZATION"
    /\ \/ /\ ~(Ready /\ epoch.epoch = intent[i].epoch /\ scope.revision = intent[i].revision)
          /\ UNCHANGED <<epoch, scope>>
       \/ epoch'.epoch = epoch.epoch + 1

\* A pending intent is settled by its confirmation, its recovery, the provider's
\* refusal, or the end of the authority it names.
LEMMA SettledBy ==
    ASSUME FormInv, [Next]_vars, NEW i \in Intents,
           intent[i].state # "NONE", intent'[i].state # intent[i].state
    PROVE  /\ intent[i].state = "PENDING"
           /\ ByConfirmation(i) \/ ByRecovery(i) \/ ByRefusal(i) \/ ByWithdrawal(i)
<1>1. intent[i].state = "PENDING"
    BY IntentsStep, RowForms DEF IntentsStay, IntentRows, IntentStates
<1>2. ASSUME NEW j \in Intents, NEW s \in Settled,
             intent' = [intent EXCEPT ![j].state = IF @ = "PENDING" THEN s ELSE @]
      PROVE  i = j /\ intent'[i].state = s
    <2>1. \A k \in Intents \ {j} : intent'[k] = intent[k]
        BY <1>2, SettlePending
    <2>2. i = j
        BY <2>1
    <2> QED
        BY <1>1, <1>2, <2>2, SettlePending DEF SettledWith
<1>3. ASSUME NEW j \in Intents, NEW s \in Settled, intent[j].state = "PENDING",
             intent' = [intent EXCEPT ![j].state = s]
      PROVE  i = j /\ intent'[i].state = s
    <2>1. s \in IntentStates
        BY DEF IntentStates
    <2> QED
        BY <1>3, <2>1, Settling
<1>4. ASSUME NEW c \in Clients, Confirm(c) PROVE ByConfirmation(i)
    <2>1. work[c].with.i \in Intents /\ (ConfirmFails(c) \/ ConfirmSucceeds(c))
        BY <1>4, ConfirmOutcome DEF ledger
    <2>2. CASE ConfirmFails(c)
        <3>1. work[c].with.i = i /\ intent'[i].state = "REQUIRES_REAUTHORIZATION"
            BY <1>2, <2>1, <2>2 DEF ConfirmFails, Settled
        <3> QED
            BY <1>4, <2>2, <3>1 DEF ByConfirmation
    <2>3. CASE ConfirmSucceeds(c)
        <3>1. work[c].with.i = i /\ intent'[i].state = "COMMITTED"
            BY <1>2, <2>1, <2>3 DEF ConfirmSucceeds, Confirmed, Settled
        <3> QED
            BY <1>4, <2>3, <3>1 DEF ByConfirmation
    <2> QED
        BY <2>1, <2>2, <2>3
<1>5. ASSUME NEW c \in Clients, CommitRecovery(c) PROVE ByRecovery(i)
    <2>1. work[c].i \in Intents /\ (RecoveryFails(work[c].i) \/ RecoverySucceeds(work[c].i))
        BY <1>5, RecoveryOutcome
    <2>2. CASE RecoveryFails(work[c].i)
        <3>1. work[c].i = i /\ intent'[i].state = "FAILED_PERMANENT"
            BY <1>3, <2>1, <2>2 DEF RecoveryFails, Settled
        <3> QED
            BY <1>5, <2>2, <3>1 DEF ByRecovery
    <2>3. CASE RecoverySucceeds(work[c].i)
        <3>1. work[c].i = i /\ intent'[i].state = "COMMITTED"
            BY <1>3, <2>1, <2>3 DEF RecoverySucceeds, Settled
        <3> QED
            BY <1>5, <2>3, <3>1 DEF ByRecovery
    <2> QED
        BY <2>1, <2>2, <2>3
<1>6. ASSUME NEW c \in Clients, ProviderRefuses(c) PROVE ByRefusal(i)
    <2>1. work[c].i \in Intents
        BY <1>6, WorkForms DEF ProviderRefuses, InWork, Requests
    <2>2. intent' = [intent EXCEPT ![work[c].i].state =
                         IF @ = "PENDING" THEN "FAILED_PERMANENT" ELSE @]
        BY <1>6 DEF ProviderRefuses
    <2>3. work[c].i = i /\ intent'[i].state = "FAILED_PERMANENT"
        BY <1>2, <2>1, <2>2 DEF Settled
    <2> QED
        BY <1>6, <2>3 DEF ByRefusal
<1>7. ASSUME NEW c \in Clients, NEW j \in Intents, BeginRecovery(c, j) PROVE ByWithdrawal(i)
    <2>1. /\ ~(Ready /\ epoch.epoch = intent[j].epoch /\ scope.revision = intent[j].revision)
          /\ intent[j].state = "PENDING" /\ UNCHANGED <<epoch, scope>>
          /\ intent' = [intent EXCEPT ![j].state = "REQUIRES_REAUTHORIZATION"]
        BY <1>7 DEF BeginRecovery, authority
    <2> QED
        BY <1>3, <2>1 DEF ByWithdrawal, Settled
<1>8. ASSUME NEW m \in Members, RemoveMember(m) PROVE ByWithdrawal(i)
    <2>1. Withdraw /\ epoch' = [epoch EXCEPT !.epoch = @ + 1]
        BY <1>8 DEF RemoveMember
    <2> QED
        BY <1>1, <2>1, WithdrawRows DEF ByWithdrawal, FormInv
<1>9. ASSUME NEW c \in Clients, IssueAuthorization(c) PROVE FALSE
    BY <1>9 DEF IssueAuthorization, UniqueIntent, FormInv
<1>10. \/ \E c \in Clients : \/ IssueAuthorization(c) \/ ProviderRefuses(c) \/ Confirm(c)
                             \/ CommitRecovery(c) \/ \E j \in Intents : BeginRecovery(c, j)
       \/ \E m \in Members : RemoveMember(m)
    BY ZenonT(60) DEF Next, BeginMutate, ProviderChanges, ChangeEpoch, ChangeElsewhere, Reconcile, Observe,
           RevokePermit, Restart, vars, ledger
<1> QED
    BY <1>1, <1>4, <1>5, <1>6, <1>7, <1>8, <1>9, <1>10

\* The provider makes a change for the call of one client, which goes on to its
\* confirmation or is lost.
LEMMA ChangedBy ==
    ASSUME FormInv, [Next]_vars, NEW i \in Intents, changed'[i] # changed[i]
    PROVE  /\ changed'[i] = changed[i] + 1 /\ UNCHANGED <<intent, result>>
           /\ \E c \in Clients : /\ work[c].op = "CALL" /\ work[c].i = i
                                 /\ MadeChange(c) \/ work'[c] = Idle
<1>1. PICK c \in Clients, to \in References : ProviderChanges(c, to)
    BY ZenonT(60) DEF Next, BeginMutate, IssueAuthorization, ProviderRefuses, Confirm, CommitRecovery,
           RemoveMember, BeginRecovery, ChangeEpoch, ChangeElsewhere, Reconcile, Observe,
           RevokePermit, Restart, vars, provider
<1> DEFINE w == work[c]
           next == [op |-> "CONFIRM", with |-> w, to |-> to, content |-> item[to] + 1]
<1>2. w \in Requests /\ w.op = "CALL" /\ w.i \in Intents
    BY <1>1, WorkForms DEF ProviderChanges, InWork, Requests
<1>3. /\ item[to] < MaxContent
      /\ item' = [item EXCEPT ![to] = @ + 1] /\ changed' = [changed EXCEPT ![w.i] = @ + 1]
      /\ UNCHANGED <<epoch, scope, permit, projection, intent, result>>
      /\ Step(c, next) \/ Step(c, Idle)
    BY <1>1 DEF ProviderChanges, authority, ledger
<1>4. next \in Works /\ Idle \in Works
    BY <1>2 DEF Works, Confirmations, FormInv
<1>5. work'[c] = next \/ work'[c] = Idle
    BY <1>3, <1>4, StepWork
<1>6. MadeChange(c) \/ work'[c] = Idle
    <2>1. CASE work'[c] = next
        BY <1>2, <1>3, <2>1 DEF MadeChange
    <2> QED
        BY <1>5, <2>1
<1>7. w.i = i /\ changed'[i] = changed[i] + 1
    BY <1>2, <1>3 DEF FormInv
<1> QED
    BY <1>2, <1>3, <1>6, <1>7

-------------------------------------------------------------------------------
(* One call for an intent.                                                 *)

\* The request of a call that is under way.
LEMMA CallForms ==
    ASSUME FormInv, NEW c \in Calling
    PROVE  /\ c \in Clients /\ CallOf(c) \in Requests /\ CallOf(c).i \in Intents
           /\ work[c].op = "CALL" => CallOf(c) = work[c]
           /\ work[c].op = "CONFIRM" => CallOf(c) = work[c].with
           /\ work[c] # Idle
BY WorkForms DEF Calling, CallOf, Requests, Idle

\* What a client that is not the one of the step goes on with.
LEMMA KeptCall ==
    ASSUME FormInv, BoundsInv, CallsInv, IntentsInv, [Next]_vars,
           NEW c \in Calling, Issued(c), work'[c] = work[c]
    PROVE  Backed(c)'
<1> DEFINE w == CallOf(c)
           i == w.i
<1>1. /\ c \in Clients /\ w \in Requests /\ i \in Intents /\ work[c] # Idle
      /\ CallOf(c)' = w /\ Backed(c)
      /\ \A d \in Calling \ {c} : Issued(d) => CallOf(d).i # i
    BY CallForms DEF IntentsInv, CallOf
<1>2. AuthorityGrows /\ IntentsStay /\ FormInv'
    BY AuthorityStep, IntentsStep, FormStep
<1>3. ASSUME NEW d \in Clients, work[d].op \in {"CALL", "CONFIRM"}, CallOf(d).i = i PROVE d = c
    BY <1>1, <1>3 DEF Calling, Issued
<1>4. changed'[i] = changed[i]
    <2> SUFFICES ASSUME changed'[i] # changed[i] PROVE FALSE
        OBVIOUS
    <2>1. PICK d \in Clients : /\ work[d].op = "CALL" /\ work[d].i = i
                               /\ MadeChange(d) \/ work'[d] = Idle
        BY <1>1, ChangedBy
    <2>2. d = c
        BY <1>3, <2>1 DEF CallOf
    <2>3. ~MadeChange(c)
        <3>1. MadeChange(c) => work[c].op = "CALL" /\ work'[c].op = "CONFIRM"
            BY DEF MadeChange
        <3> QED
            BY <3>1
    <2> QED
        BY <1>1, <2>1, <2>2, <2>3
<1>5. /\ intent'[i].state # "NONE"
      /\ intent'[i].epoch = w.epoch /\ intent'[i].revision = w.revision
    BY <1>1, <1>2 DEF Backed, IntentsStay
<1>6. /\ epoch.epoch \in Nat /\ w.epoch \in 1..epoch.epoch
      /\ (epoch' = epoch /\ scope' = scope) \/ epoch'.epoch = epoch.epoch + 1
    BY <1>2 DEF AuthorityGrows, CallsInv, FormInv
<1>7. ~ByConfirmation(i)
    <2> SUFFICES ASSUME NEW d \in Clients, Confirm(d), work[d].with.i = i PROVE FALSE
        BY DEF ByConfirmation
    <2>1. work[d].op = "CONFIRM" /\ work'[d] = Idle
        BY ConfirmOutcome
    <2>2. d = c
        BY <1>3, <2>1 DEF CallOf
    <2> QED
        BY <1>1, <2>1, <2>2
<1>8. ~ByRefusal(i)
    <2> SUFFICES ASSUME NEW d \in Clients, ProviderRefuses(d), work[d].i = i PROVE FALSE
        BY DEF ByRefusal
    <2>1. work[d].op = "CALL" /\ work'[d] = Idle
        BY StepWork DEF ProviderRefuses, InWork, Works
    <2>2. d = c
        BY <1>3, <2>1 DEF CallOf
    <2> QED
        BY <1>1, <2>1, <2>2
<1>9. ASSUME intent'[i].state = "REQUIRES_REAUTHORIZATION"
      PROVE  ~(Ready' /\ epoch'.epoch = w.epoch /\ scope'.revision = w.revision)
    <2>1. CASE epoch'.epoch = epoch.epoch + 1
        BY <1>6, <2>1
    <2>2. CASE epoch' = epoch /\ scope' = scope
        <3>1. CASE intent'[i].state = intent[i].state
            BY <1>1, <1>9, <2>2, <3>1 DEF Backed, Ready
        <3>2. CASE intent'[i].state # intent[i].state
            <4>1. ByRecovery(i) \/ ByWithdrawal(i)
                BY <1>1, <1>7, <1>8, <3>2, SettledBy DEF Backed
            <4>2. ~ByRecovery(i)
                BY <1>9 DEF ByRecovery
            <4>3. ~(Ready /\ epoch.epoch = intent[i].epoch /\ scope.revision = intent[i].revision)
                BY <1>6, <2>2, <4>1, <4>2 DEF ByWithdrawal
            <4> QED
                BY <1>1, <2>2, <4>3 DEF Backed, Ready
        <3> QED
            BY <3>1, <3>2
    <2> QED
        BY <1>6, <2>1, <2>2
<1>10. ASSUME work[c].op = "CALL" PROVE intent'[i].state # "FAILED_PERMANENT"
    <2>1. changed[i] = 0 /\ intent[i].state # "FAILED_PERMANENT" /\ intent[i].state # "NONE"
        BY <1>1, <1>10 DEF Backed
    <2>2. ~ByRecovery(i)
        BY <2>1 DEF ByRecovery, RecoveryFails, RecoverySucceeds
    <2>3. ASSUME intent'[i].state # intent[i].state PROVE ByWithdrawal(i)
        BY <1>1, <1>7, <1>8, <2>1, <2>2, <2>3, SettledBy
    <2> QED
        BY <2>1, <2>3 DEF ByWithdrawal
<1> HIDE DEF i
<1> QED
    BY <1>1, <1>4, <1>5, <1>9, <1>10 DEF Backed, i

\* One call at most is under way for an intent, and changes the provider once.
LEMMA OneCallStep ==
    ASSUME FormInv, BoundsInv, CallsInv, IntentsInv, [Next]_vars
    PROVE  IntentsInv'
<1>1. FormInv' /\ AuthorityGrows /\ IntentsStay
    BY FormStep, AuthorityStep, IntentsStep
<1>2. ASSUME NEW i \in Intents
      PROVE  changed'[i] <= 1 /\ (changed'[i] > 0 => intent'[i].state # "NONE")
    <2>1. changed[i] <= 1 /\ (changed[i] > 0 => intent[i].state # "NONE")
        BY DEF IntentsInv
    <2>2. CASE changed'[i] = changed[i]
        BY <1>1, <2>1, <2>2 DEF IntentsStay
    <2>3. CASE changed'[i] # changed[i]
        <3>1. PICK c \in Clients : work[c].op = "CALL" /\ work[c].i = i
            BY <2>3, ChangedBy
        <3>2. Backed(c) /\ CallOf(c) = work[c]
            BY <3>1 DEF IntentsInv, Calling, CallOf, Issued
        <3>3. changed[i] = 0 /\ intent[i].state # "NONE"
            BY <3>1, <3>2 DEF Backed
        <3>4. changed'[i] = changed[i] + 1
            BY <2>3, ChangedBy
        <3> QED
            BY <1>1, <3>3, <3>4 DEF IntentsStay
    <2> QED
        BY <2>2, <2>3
<1>3. ASSUME NEW c \in Clients, work'[c].op \in {"CALL", "CONFIRM"}
      PROVE  \/ c \in Calling /\ Issued(c) /\ work'[c] = work[c]
             \/ IssuedCall(c) \/ MadeChange(c)
    <2>1. ASSUME BeganCall(c) PROVE FALSE
        <3>1. PICK i \in Intents, r \in References, p \in Permits \cup {None} :
                 work'[c] = [op |-> "ISSUE", i |-> i, reference |-> r,
                             expected |-> projection[r], epoch |-> epoch.epoch,
                             revision |-> scope.revision, permit |-> p]
            BY <2>1 DEF BeganCall
        <3> QED
            BY <1>3, <3>1
    <2> QED
        BY <1>3, <2>1, CallStep DEF Calling, Issued
<1>4. ASSUME NEW c \in Clients, IssuedCall(c)
      PROVE  /\ CallOf(c)'.i = CallOf(c).i /\ intent[CallOf(c).i].state = "NONE" /\ Backed(c)'
             /\ CallOf(c).i \in Intents
    <2> DEFINE w == work[c]
    <2>1. /\ w \in Requests /\ w.op = "ISSUE" /\ w.i \in Intents /\ intent[w.i].state = "NONE"
          /\ CallOf(c) = w /\ CallOf(c)' = [w EXCEPT !.op = "CALL"]
          /\ intent'[w.i] = [state |-> "PENDING", epoch |-> w.epoch, revision |-> w.revision,
                             reference |-> w.reference, permit |-> w.permit]
          /\ UNCHANGED changed /\ work'[c].op = "CALL"
        BY <1>4 DEF IssuedCall, CallOf, Requests, FormInv
    <2>2. changed[w.i] = 0
        BY <2>1 DEF IntentsInv, FormInv
    <2> HIDE DEF w
    <2>3. CallOf(c)'.i = w.i /\ CallOf(c)'.epoch = w.epoch /\ CallOf(c)'.revision = w.revision
        BY <2>1 DEF Requests
    <2> QED
        BY <2>1, <2>2, <2>3 DEF Backed
<1>5. ASSUME NEW c \in Clients, MadeChange(c)
      PROVE  /\ c \in Calling /\ Issued(c) /\ CallOf(c)' = CallOf(c) /\ CallOf(c).i \in Intents
             /\ Backed(c)'
    <2> DEFINE w == work[c]
    <2>1. /\ w \in Requests /\ w.op = "CALL" /\ CallOf(c) = w /\ CallOf(c)' = w
          /\ work'[c].op = "CONFIRM" /\ w.i \in Intents
          /\ changed' = [changed EXCEPT ![w.i] = @ + 1]
          /\ UNCHANGED <<epoch, scope, intent>>
        BY <1>5 DEF MadeChange, CallOf, Requests
    <2>2. c \in Calling /\ Issued(c)
        BY <2>1 DEF Calling, Issued
    <2>3. Backed(c)
        BY <2>2 DEF IntentsInv
    <2> HIDE DEF w
    <2>4. changed[w.i] = 0 /\ changed'[w.i] = 1
        <3>1. w = work[c]
            BY DEF w
        <3>2. changed[w.i] = 0
            BY <2>1, <2>3, <3>1 DEF Backed
        <3> QED
            BY <2>1, <3>2 DEF FormInv
    <2> QED
        BY <2>1, <2>2, <2>3, <2>4 DEF Backed, Ready
<1>6. ASSUME NEW c \in Clients, work'[c].op \in {"CALL", "CONFIRM"}
      PROVE  Backed(c)'
    BY <1>3, <1>4, <1>5, <1>6, KeptCall
<1>7. ASSUME NEW c \in Clients, work'[c].op \in {"CALL", "CONFIRM"}
      PROVE  /\ CallOf(c)'.i = CallOf(c).i
             /\ \/ c \in Calling /\ Issued(c) /\ intent[CallOf(c).i].state # "NONE"
                \/ IssuedCall(c) /\ intent[CallOf(c).i].state = "NONE"
    <2>1. CASE c \in Calling /\ Issued(c)
        <3>1. Backed(c)
            BY <2>1 DEF IntentsInv
        <3>2. ~IssuedCall(c)
            BY <2>1 DEF IssuedCall, Issued
        <3>3. CallOf(c)' = CallOf(c)
            BY <1>3, <1>5, <1>7, <3>2 DEF CallOf
        <3> QED
            BY <2>1, <3>1, <3>3 DEF Backed
    <2>2. CASE IssuedCall(c)
        BY <1>4, <2>2
    <2> QED
        BY <1>3, <1>5, <1>7, <2>1, <2>2
<1>8. ASSUME NEW c \in Clients, NEW d \in Clients, c # d,
             work'[c].op \in {"CALL", "CONFIRM"}, work'[d].op \in {"CALL", "CONFIRM"}
      PROVE  CallOf(d)'.i # CallOf(c)'.i
    <2>1. CASE c \in Calling /\ Issued(c) /\ d \in Calling /\ Issued(d)
        BY <1>7, <1>8, <2>1 DEF IntentsInv
    <2>2. CASE IssuedCall(c) /\ IssuedCall(d)
        <3>1. c \in Clients /\ work[c].i \in Intents /\ work[d].i \in Intents
            BY <2>2 DEF IssuedCall, Requests
        <3>2. IssuedCall(c) /\ IssuedCall(d) => work[c].i = work[d].i
            BY <3>1 DEF IssuedCall, FormInv
        <3>3. \E e \in Clients : IssueAuthorization(e) /\ \A f \in Clients \ {e} : work'[f] = work[f]
            <4>1. intent'[work[c].i].state # "NONE" /\ intent[work[c].i].state = "NONE"
                BY <2>2, <3>1 DEF IssuedCall, FormInv
            <4>2. PICK e \in Clients : IssueAuthorization(e) /\ IssuedCall(e)
                BY <3>1, <4>1, IssuedBy
            <4>3. Step(e, Idle) \/ Step(e, [work[e] EXCEPT !.op = "CALL"])
                BY <4>2 DEF IssueAuthorization
            <4> QED
                BY <4>2, <4>3 DEF Step, FormInv
        <3>4. work'[c] # work[c] /\ work'[d] # work[d]
            BY <2>2 DEF IssuedCall, Requests
        <3> QED
            BY <1>8, <3>3, <3>4
    <2> QED
        BY <1>7, <1>8, <2>1, <2>2
<1> QED
    BY <1>2, <1>6, <1>8 DEF IntentsInv, Calling, Issued

-------------------------------------------------------------------------------
(* One use of an attempt's authorization.                                  *)

\* A call that begins has consumed its permit and has no intent yet.
LEMMA BeganFacts ==
    ASSUME FormInv, NEW c \in Clients, BeganCall(c)
    PROVE  /\ work'[c].op = "ISSUE" /\ UNCHANGED intent
           /\ \A d \in Clients \ {c} : work'[d] = work[d]
           /\ work'[c].permit # None =>
                /\ work'[c].permit \in Permits
                /\ permit[work'[c].permit].state = "ISSUED"
                /\ permit'[work'[c].permit].state = "CONSUMED"
<1>1. PICK i \in Intents, r \in References, p \in Permits \cup {None} :
         /\ BeginMutate(c, i, r, p)
         /\ work'[c] = [op |-> "ISSUE", i |-> i, reference |-> r, expected |-> projection[r],
                        epoch |-> epoch.epoch, revision |-> scope.revision, permit |-> p]
    BY DEF BeganCall
<1>2. UNCHANGED intent
    BY <1>1 DEF BeginMutate, ledger
<1>3. \A d \in Clients \ {c} : work'[d] = work[d]
    BY <1>1 DEF BeginMutate, Step, FormInv
<1>4. p # None => p \in Permits /\ permit[p].state = "ISSUED" /\ permit'[p].state = "CONSUMED"
    BY <1>1 DEF BeginMutate, ConsumeAttempt, Verified, FormInv, PermitRows
<1>5. work'[c].op = "ISSUE" /\ work'[c].permit = p
    BY <1>1
<1> QED
    BY <1>2, <1>3, <1>4, <1>5

\* The call that asks for an authorization is an earlier one, or begins.
LEMMA AskingStep ==
    ASSUME FormInv, [Next]_vars, NEW c \in Clients, work'[c].op = "ISSUE"
    PROVE  work'[c] = work[c] \/ BeganCall(c)
<1>1. ~IssuedCall(c)
    BY DEF IssuedCall, Requests
<1>2. MadeChange(c) => work'[c].op = "CONFIRM"
    BY DEF MadeChange
<1> QED
    BY <1>1, <1>2, CallStep

\* A new intent is of one call, which asked for it, and it is the only new one.
LEMMA NewIntent ==
    ASSUME FormInv, PermitsInv, [Next]_vars, NEW i \in Intents,
           intent[i].state = "NONE", intent'[i].state # "NONE", intent'[i].permit # None
    PROVE  /\ permit'[intent'[i].permit].state = "CONSUMED"
           /\ intent'[i].permit \in Permits
           /\ \A j \in Intents \ {i} : /\ intent'[j] = intent[j]
                                       /\ intent[j].state # "NONE" =>
                                            intent[j].permit # intent'[i].permit
           /\ \A d \in Clients : work'[d].op = "ISSUE" =>
                 work'[d] = work[d] /\ work[d].permit # intent'[i].permit
<1>1. PICK c \in Clients : /\ IssueAuthorization(c) /\ work[c].i = i /\ work[c] \in Requests
                           /\ IssuedCall(c) /\ work[c].op = "ISSUE"
    BY IssuedBy
<1> DEFINE w == work[c]
<1>2. /\ intent' = [intent EXCEPT ![i] =
             [state |-> "PENDING", epoch |-> w.epoch, revision |-> w.revision,
              reference |-> w.reference, permit |-> w.permit]]
      /\ UNCHANGED permit
    BY <1>1 DEF IssuedCall
<1>3. intent'[i].permit = w.permit /\ \A j \in Intents \ {i} : intent'[j] = intent[j]
    BY <1>2 DEF FormInv
<1>4. w.permit \in Permits
    BY <1>1, <1>3 DEF Requests
<1>5. /\ permit[w.permit].state = "CONSUMED"
      /\ \A j \in Intents : intent[j].state # "NONE" => intent[j].permit # w.permit
      /\ \A d \in Calling \ {c} : work[d].op = "ISSUE" => work[d].permit # w.permit
    BY <1>1, <1>3 DEF PermitsInv, Calling
<1>6. ASSUME NEW d \in Clients, work'[d].op = "ISSUE"
      PROVE  work'[d] = work[d] /\ work[d].permit # w.permit
    <2>1. ~BeganCall(d)
        BY <1>3, BeganFacts
    <2>2. work'[d] = work[d]
        BY <1>6, <2>1, AskingStep
    <2>3. work'[c].op = "CALL"
        BY <1>1 DEF IssuedCall, Requests
    <2>4. d # c
        BY <1>6, <2>3
    <2> QED
        BY <1>5, <1>6, <2>2, <2>4 DEF Calling
<1> QED
    BY <1>2, <1>3, <1>4, <1>5, <1>6

\* A permit is consumed for one call or one intent.
LEMMA PermitUsesStep ==
    ASSUME FormInv, PermitsInv, [Next]_vars
    PROVE  PermitsInv'
<1>1. FormInv' /\ PermitsStay /\ IntentsStay
    BY FormStep, PermitsStep, IntentsStep
<1>2. ASSUME NEW i \in Intents, intent[i].state # "NONE", intent[i].permit # None
      PROVE  permit'[intent[i].permit].state = "CONSUMED"
    BY <1>1, <1>2, RowForms DEF PermitsInv, PermitsStay, IntentRows
<1>3. ASSUME NEW i \in Intents, intent'[i].state # "NONE", intent'[i].permit # None,
             NEW j \in Intents \ {i}, intent'[j].state # "NONE"
      PROVE  intent'[j].permit # intent'[i].permit
    <2>1. CASE intent[i].state = "NONE"
        BY <1>3, <2>1, NewIntent
    <2>2. CASE intent[j].state = "NONE" /\ intent[i].state # "NONE"
        <3>1. i \in Intents \ {j} /\ (intent'[j].permit # None => intent[i].permit # intent'[j].permit)
            BY <1>3, <2>2, NewIntent
        <3> QED
            BY <1>1, <1>3, <2>2, <3>1 DEF IntentsStay
    <2>3. CASE intent[i].state # "NONE" /\ intent[j].state # "NONE"
        BY <1>1, <1>3, <2>3 DEF IntentsStay, PermitsInv
    <2> QED
        BY <2>1, <2>2, <2>3
<1>4. ASSUME NEW i \in Intents, intent'[i].state # "NONE", intent'[i].permit # None
      PROVE  permit'[intent'[i].permit].state = "CONSUMED"
    <2>1. CASE intent[i].state = "NONE"
        BY <1>4, <2>1, NewIntent
    <2>2. CASE intent[i].state # "NONE"
        BY <1>1, <1>2, <1>4, <2>2 DEF IntentsStay
    <2> QED
        BY <2>1, <2>2
<1>5. ASSUME NEW c \in Clients, work'[c].op = "ISSUE", work'[c].permit # None,
             work'[c] = work[c]
      PROVE  /\ permit[work[c].permit].state = "CONSUMED"
             /\ permit'[work[c].permit].state = "CONSUMED"
    BY <1>1, <1>5, WorkForms DEF PermitsInv, PermitsStay, Requests, Calling
<1>6. ASSUME NEW c \in Clients, work'[c].op = "ISSUE", work'[c].permit # None,
             NEW j \in Intents, intent'[j].state # "NONE"
      PROVE  intent'[j].permit # work'[c].permit
    <2>1. CASE intent[j].state = "NONE"
        <3>1. intent'[j].permit # None => work'[c].permit # intent'[j].permit
            BY <1>6, <2>1, NewIntent
        <3> QED
            BY <1>6, <3>1
    <2>2. CASE intent[j].state # "NONE"
        <3>1. intent'[j].permit = intent[j].permit
            BY <1>1, <2>2 DEF IntentsStay
        <3>2. CASE work'[c] = work[c]
            BY <1>6, <2>2, <3>1, <3>2 DEF PermitsInv, Calling
        <3>3. CASE BeganCall(c)
            <4>1. permit[work'[c].permit].state = "ISSUED"
                BY <1>6, <3>3, BeganFacts
            <4>2. intent[j].permit # None => permit[intent[j].permit].state = "CONSUMED"
                BY <2>2 DEF PermitsInv
            <4> QED
                BY <1>6, <3>1, <4>1, <4>2
        <3> QED
            BY <1>6, <3>2, <3>3, AskingStep
    <2> QED
        BY <2>1, <2>2
<1>7. ASSUME NEW c \in Clients, work'[c].op = "ISSUE", work'[c].permit # None
      PROVE  permit'[work'[c].permit].state = "CONSUMED"
    BY <1>5, <1>7, AskingStep, BeganFacts
<1>8. ASSUME NEW c \in Clients, work'[c].op = "ISSUE", work'[c].permit # None,
             NEW d \in Clients \ {c}, work'[d].op = "ISSUE"
      PROVE  work'[d].permit # work'[c].permit
    <2>1. CASE work'[c] = work[c] /\ work'[d] = work[d]
        BY <1>8, <2>1 DEF PermitsInv, Calling
    <2>2. CASE BeganCall(c)
        <3>1. work'[d] = work[d] /\ permit[work'[c].permit].state = "ISSUED"
            BY <1>8, <2>2, BeganFacts
        <3>2. work'[d].permit # None => permit[work'[d].permit].state = "CONSUMED"
            BY <1>5, <1>8, <3>1
        <3> QED
            BY <1>8, <3>1, <3>2
    <2>3. CASE BeganCall(d)
        <3>1. /\ work'[c] = work[c]
              /\ work'[d].permit # None => permit[work'[d].permit].state = "ISSUED"
            BY <1>8, <2>3, BeganFacts
        <3>2. permit[work'[c].permit].state = "CONSUMED"
            BY <1>5, <1>8, <3>1
        <3> QED
            BY <1>8, <3>1, <3>2
    <2> QED
        BY <1>8, <2>1, <2>2, <2>3, AskingStep
<1> QED
    BY <1>3, <1>4, <1>6, <1>7, <1>8 DEF PermitsInv, Calling

-------------------------------------------------------------------------------
(* A result stands for one change.                                         *)

\* A result is written by a confirmation or a recovery that succeeds, and stays.
LEMMA ResultBy ==
    ASSUME FormInv, [Next]_vars
    PROVE  /\ result \subseteq result'
           /\ \A i \in result' \ result :
                \E c \in Clients : \/ Confirm(c) /\ ConfirmSucceeds(c) /\ work[c].with.i = i
                                   \/ CommitRecovery(c) /\ RecoverySucceeds(i) /\ work[c].i = i
<1>1. ASSUME NEW c \in Clients, Confirm(c)
      PROVE  UNCHANGED result \/ (ConfirmSucceeds(c) /\ result' = result \cup {work[c].with.i})
    BY <1>1, ConfirmOutcome DEF ConfirmFails, ConfirmSucceeds, Confirmed, ledger
<1>2. ASSUME NEW c \in Clients, CommitRecovery(c)
      PROVE  \/ UNCHANGED result
             \/ RecoverySucceeds(work[c].i) /\ result' = result \cup {work[c].i}
    BY <1>2, RecoveryOutcome DEF RecoveryFails, RecoverySucceeds
<1>3. \/ UNCHANGED result
      \/ \E c \in Clients : Confirm(c) \/ CommitRecovery(c)
    BY ZenonT(60) DEF Next, BeginMutate, IssueAuthorization, ProviderRefuses, ProviderChanges,
           RemoveMember, BeginRecovery, ChangeEpoch, ChangeElsewhere, Reconcile, Observe,
           RevokePermit, Restart, vars, ledger
<1> QED
    BY <1>1, <1>2, <1>3

\* What is committed was applied at the provider, and has its result.
LEMMA AppliedStep ==
    ASSUME FormInv, IntentsInv, CommittedIsApplied, [Next]_vars
    PROVE  CommittedIsApplied'
<1>1. FormInv' /\ IntentsStay
    BY FormStep, IntentsStep
<1> SUFFICES ASSUME NEW i \in Intents
             PROVE  /\ intent'[i].state = "COMMITTED" => i \in result'
                    /\ i \in result' => /\ changed'[i] = 1
                                        /\ intent'[i].state \in {"COMMITTED", "FAILED_PERMANENT"}
    BY DEF CommittedIsApplied
<1>2. ASSUME intent'[i].state = "COMMITTED" PROVE i \in result'
    <2>1. CASE intent[i].state = "NONE"
        <3>1. PICK c \in Clients : IssuedCall(c) /\ work[c].i = i
            BY <1>2, <2>1, IssuedBy
        <3>2. intent'[i].state = "PENDING"
            BY <3>1 DEF IssuedCall, FormInv
        <3> QED
            BY <1>2, <3>2
    <2>2. CASE intent[i].state = "COMMITTED"
        BY <2>2, ResultBy DEF CommittedIsApplied
    <2>3. CASE intent[i].state \notin {"NONE", "COMMITTED"}
        <3>1. ByConfirmation(i) \/ ByRecovery(i)
            BY <1>2, <2>3, SettledBy DEF ByRefusal, ByWithdrawal
        <3> QED
            BY <1>2, <3>1 DEF ByConfirmation, ByRecovery, ConfirmSucceeds, Confirmed,
                             RecoverySucceeds
    <2> QED
        BY <2>1, <2>2, <2>3
<1>3. ASSUME i \in result
      PROVE  changed'[i] = 1 /\ intent'[i].state \in {"COMMITTED", "FAILED_PERMANENT"}
    <2>1. changed[i] = 1 /\ intent[i].state \in {"COMMITTED", "FAILED_PERMANENT"}
        BY <1>3 DEF CommittedIsApplied
    <2>2. intent'[i].state = intent[i].state
        BY <1>1, <2>1 DEF IntentsStay, Settled
    <2>3. changed'[i] = changed[i]
        <3> SUFFICES ASSUME changed'[i] # changed[i] PROVE FALSE
            OBVIOUS
        <3>1. PICK c \in Clients : work[c].op = "CALL" /\ work[c].i = i
            BY ChangedBy
        <3>2. Backed(c) /\ CallOf(c) = work[c]
            BY <3>1 DEF IntentsInv, Calling, CallOf, Issued
        <3> QED
            BY <2>1, <3>1, <3>2 DEF Backed
    <2> QED
        BY <2>1, <2>2, <2>3
<1>4. ASSUME i \in result' \ result
      PROVE  changed'[i] = 1 /\ intent'[i].state \in {"COMMITTED", "FAILED_PERMANENT"}
    <2>1. ASSUME NEW c \in Clients, Confirm(c), ConfirmSucceeds(c), work[c].with.i = i
          PROVE  changed'[i] = 1 /\ intent'[i].state \in {"COMMITTED", "FAILED_PERMANENT"}
        <3>1. /\ work[c].op = "CONFIRM" /\ CallOf(c) = work[c].with /\ UNCHANGED changed
              /\ c \in Calling /\ Issued(c)
            BY <2>1, ConfirmOutcome DEF CallOf, Calling, Issued, provider
        <3>2. Backed(c)
            BY <3>1 DEF IntentsInv
        <3>3. changed'[i] = 1 /\ intent[i].state # "NONE"
            BY <2>1, <3>1, <3>2 DEF Backed
        <3>4. intent[i].state # "REQUIRES_REAUTHORIZATION"
            BY <2>1, <3>1, <3>2 DEF Backed, ConfirmSucceeds, Fresh
        <3>5. intent[i].state \in {"PENDING", "COMMITTED", "FAILED_PERMANENT"}
            BY <3>3, <3>4, RowForms DEF IntentRows, IntentStates, Settled
        <3>6. intent' = [intent EXCEPT ![i].state = IF @ = "PENDING" THEN "COMMITTED" ELSE @]
            BY <2>1 DEF ConfirmSucceeds, Confirmed
        <3>7. CASE intent[i].state = "PENDING"
            <4>1. intent' = [intent EXCEPT ![i].state = "COMMITTED"]
                BY <3>6, <3>7
            <4>2. "COMMITTED" \in IntentStates
                BY DEF IntentStates, Settled
            <4> QED
                BY <3>3, <4>1, <4>2, Settling
        <3>8. CASE intent[i].state # "PENDING"
            <4>1. "COMMITTED" \in Settled
                BY DEF Settled
            <4>2. intent'[i] = intent[i]
                BY <3>6, <3>8, <4>1, SettlePending
            <4> QED
                BY <3>3, <3>5, <3>8, <4>2
        <3> QED
            BY <3>7, <3>8
    <2>2. ASSUME NEW c \in Clients, CommitRecovery(c), RecoverySucceeds(i)
          PROVE  changed'[i] = 1 /\ intent'[i].state \in {"COMMITTED", "FAILED_PERMANENT"}
        <3>1. changed' = changed
            BY <2>2, RecoveryOutcome DEF provider
        <3>2. changed[i] \in Nat /\ changed[i] <= 1 /\ changed[i] > 0
            BY <2>2 DEF RecoverySucceeds, IntentsInv, FormInv
        <3>3. changed'[i] = 1
            BY <3>1, <3>2
        <3>4. "COMMITTED" \in IntentStates
            BY DEF IntentStates, Settled
        <3> QED
            BY <2>2, <3>3, <3>4, Settling DEF RecoverySucceeds
    <2> QED
        BY <1>4, <2>1, <2>2, ResultBy
<1> QED
    BY <1>2, <1>3, <1>4

-------------------------------------------------------------------------------
(* The invariant.                                                          *)

\* The invariant holds of a server that was never used.
LEMMA InvInit == Init => Inv
<1> SUFFICES ASSUME Init PROVE Inv
    OBVIOUS
<1>1. FormInv
    BY FormInit
<1>2. BoundsInv
    <2>1. epoch.epoch = 1 /\ scope.epoch = 1 /\ scope.revision = 1
        BY DEF Init
    <2>2. \A r \in References : item[r] \in 0..1 /\ projection[r].content = 0
                                /\ projection[r].revision = 0
        BY DEF Init
    <2>3. \A c \in Clients : work[c].op = "IDLE"
        BY DEF Init, Idle
    <2> QED
        BY <2>1, <2>2, <2>3, ConnectorAssumption DEF Init, BoundsInv, Contents
<1>3. Calling = {} /\ \A i \in Intents : intent[i].state = "NONE" /\ changed[i] = 0
    BY DEF Init, Calling, Idle
<1>4. CallsInv /\ IntentsInv /\ PermitsInv
    BY <1>3 DEF CallsInv, IntentsInv, PermitsInv
<1>5. CommittedIsApplied
    BY <1>3 DEF Init, CommittedIsApplied
<1> QED
    BY <1>1, <1>2, <1>4, <1>5 DEF Inv

\* Every step keeps the invariant.
LEMMA InvStep == Inv /\ [Next]_vars => Inv'
BY FormStep, BoundsStep, CallsStep, OneCallStep, PermitUsesStep, AppliedStep DEF Inv

\* The inductive invariant of mutations, observations and recoveries: the calls under
\* way know an authority that stood, an intent has one call, a permit one use, and what is
\* committed was applied (mutate and recoverPending, connector-authority.ts).
THEOREM Invariance == Spec => []Inv
BY InvInit, InvStep, PTL DEF Spec

\* The invariant has what ResultsAgree promises.
LEMMA InvResults == Inv => ResultsAgree
<1> SUFFICES ASSUME Inv PROVE ResultsAgree
    OBVIOUS
<1>1. TypeOK
    <2>1. \A p \in Permits :
             permit[p].state \in {"ISSUED", "CONSUMED", "REVOKED"} /\ permit[p].of \in Attempts
        BY DEF Inv, FormInv, PermitRows
    <2>2. epoch.review \in {"READY", "REVIEW_REQUIRED", "REVOKED"}
        BY DEF Inv, FormInv
    <2>3. \A i \in Intents : intent[i].state \in {"NONE", "PENDING"} \cup Settled
        BY RowForms DEF Inv, IntentRows, IntentStates
    <2> QED
        BY <2>1, <2>2, <2>3 DEF Inv, FormInv, BoundsInv, TypeOK
<1>2. AppliedOnce
    BY DEF Inv, IntentsInv, PermitsInv, AppliedOnce
<1> QED
    BY <1>1, <1>2 DEF Inv, ResultsAgree

\* No step of a state of the invariant commits without authority, or settles twice.
LEMMA StepCommits ==
    ASSUME Inv, [Next]_vars, NEW i \in Intents
    PROVE  /\ Commits(i) =>
                Ready /\ intent[i].epoch = epoch.epoch /\ intent[i].revision = scope.revision
           /\ intent[i].state \in Settled => intent'[i].state = intent[i].state
<1>1. FormInv /\ IntentsStay
    BY IntentsStep DEF Inv
<1>2. ASSUME Commits(i)
      PROVE  Ready /\ intent[i].epoch = epoch.epoch /\ intent[i].revision = scope.revision
    <2>1. intent'[i].state = "COMMITTED" /\ intent[i].state # "COMMITTED"
        BY <1>2 DEF Commits
    <2>2. intent[i].state # "NONE"
        <3> SUFFICES ASSUME intent[i].state = "NONE" PROVE FALSE
            OBVIOUS
        <3>1. PICK c \in Clients : IssuedCall(c) /\ work[c].i = i
            BY <1>1, <2>1, IssuedBy
        <3>2. intent'[i].state = "PENDING"
            BY <1>1, <3>1 DEF IssuedCall, FormInv
        <3> QED
            BY <2>1, <3>2
    <2>3. ByConfirmation(i) \/ ByRecovery(i)
        BY <1>1, <2>1, <2>2, SettledBy DEF ByRefusal, ByWithdrawal
    <2>4. ASSUME NEW c \in Clients, Confirm(c), ConfirmSucceeds(c), work[c].with.i = i
          PROVE  Ready /\ intent[i].epoch = epoch.epoch /\ intent[i].revision = scope.revision
        <3>1. CallOf(c) = work[c].with /\ c \in Calling /\ Issued(c)
            BY <1>1, <2>4, ConfirmOutcome DEF CallOf, Calling, Issued
        <3>2. Backed(c)
            BY <3>1 DEF Inv, IntentsInv
        <3> QED
            BY <2>4, <3>1, <3>2 DEF Backed, ConfirmSucceeds, Fresh
    <2> QED
        BY <2>1, <2>3, <2>4 DEF ByConfirmation, ByRecovery, RecoverySucceeds
<1>3. intent[i].state \in Settled => intent'[i].state = intent[i].state
    BY <1>1 DEF IntentsStay, Settled
<1> QED
    BY <1>2, <1>3

\* A confirmation replaces what its caller knew.
LEMMA StepKeepsUpdates ==
    ASSUME Inv, [Next]_vars, NEW c \in Clients,
           InWork(c, "CONFIRM"), work'[c] = Idle, projection' # projection
    PROVE  /\ projection[work[c].with.reference] = work[c].with.expected
           /\ work[c].to # work[c].with.reference => projection[work[c].to].content = 0
           /\ HasSession(work[c].with.i)
<1>1. FormInv /\ work[c].op = "CONFIRM" /\ work[c] # Idle
    BY DEF Inv, InWork, Idle
<1>2. Confirm(c)
    <2>1. \/ \E d \in Clients : Confirm(d) \/ CommitRecovery(d)
          \/ UNCHANGED work
        BY ZenonT(60) DEF Next, BeginMutate, IssueAuthorization, ProviderRefuses, ProviderChanges,
               RemoveMember, BeginRecovery, ChangeEpoch, ChangeElsewhere, Observe, Reconcile,
               RevokePermit, Restart, vars, ledger
    <2>2. ASSUME NEW d \in Clients, Confirm(d) \/ CommitRecovery(d), d # c PROVE FALSE
        BY <1>1, <2>2, ConfirmOutcome, RecoveryOutcome
    <2>3. ~CommitRecovery(c)
        BY <1>1 DEF CommitRecovery, InWork
    <2> QED
        BY <1>1, <2>1, <2>2, <2>3
<1>3. ConfirmSucceeds(c) /\ work[c] \in Confirmations /\ work[c].with \in Requests
    BY <1>1, <1>2, ConfirmOutcome DEF ConfirmFails, ledger
<1> DEFINE w == work[c].with
           to == work[c].to
<1>4. /\ projection[w.reference].revision = w.expected.revision /\ HasSession(w.i)
      /\ to = w.reference \/ projection[to].revision = 0
    BY <1>3 DEF ConfirmSucceeds, Fresh
<1>5. c \in Calling /\ CallOf(c) = w
    BY <1>1 DEF Calling, CallOf
<1>6. projection[w.reference] = w.expected
    BY <1>4, <1>5 DEF Inv, CallsInv
<1>7. to # w.reference => projection[to].content = 0
    BY <1>3, <1>4 DEF Inv, BoundsInv, Confirmations
<1> QED
    BY <1>4, <1>6, <1>7

-------------------------------------------------------------------------------
(* Theorems.                                                               *)

\* The provider and the intents agree, however calls, confirmations, recoveries,
\* removals and restarts overlap: one change for an idempotency key and for an
\* authorization, and a result for exactly what was changed (mutate and
\* recoverPending, connector-authority.ts).
THEOREM ResultsAlwaysAgree == Spec => []ResultsAgree
BY Invariance, InvResults, PTL

\* A result that was stored stands for a change, and what is COMMITTED has one
\* (connector_idempotency beside connector_operation_intents).
THEOREM CommittedIsAlwaysApplied == Spec => []CommittedIsApplied
<1>1. Inv => CommittedIsApplied
    BY DEF Inv
<1> QED
    BY <1>1, Invariance, PTL

\* No intent is committed under an epoch or a scope that was replaced since it was
\* issued, and none is settled twice (the comparison inside the confirming
\* transaction, and that of recoverPending after its scan).
THEOREM CommitsKeepTheirAuthority == Spec => CommitsUnderItsAuthority
<1> DEFINE A == \A i \in Intents :
         /\ Commits(i) =>
              Ready /\ intent[i].epoch = epoch.epoch /\ intent[i].revision = scope.revision
         /\ intent[i].state \in Settled => intent'[i].state = intent[i].state
<1>1. Inv /\ [Next]_vars => [A]_vars
    BY StepCommits
<1>2. Spec => [][A]_vars
    BY <1>1, Invariance, PTL DEF Spec
<1> QED
    BY <1>2 DEF CommitsUnderItsAuthority

\* A confirmation never overwrites what was reconciled or confirmed under the
\* caller's await, and is never made for a member whose session ended.
THEOREM ConfirmationsLoseNoUpdate == Spec => NoLostUpdate
<1> DEFINE A == \A c \in Clients :
         (InWork(c, "CONFIRM") /\ work'[c] = Idle /\ projection' # projection) =>
           /\ projection[work[c].with.reference] = work[c].with.expected
           /\ work[c].to # work[c].with.reference => projection[work[c].to].content = 0
           /\ HasSession(work[c].with.i)
<1>1. Inv /\ [Next]_vars => [A]_vars
    BY StepKeepsUpdates
<1>2. Spec => [][A]_vars
    BY <1>1, Invariance, PTL DEF Spec
<1> QED
    BY <1>2 DEF NoLostUpdate

\* The server's two ways to a provider beside each other are the first one with
\* steps that do not touch it: everything above holds of the composition.
LEMMA ScanSteps == UNCHANGED changing /\ G!Next => UNCHANGED vars
<1> SUFFICES ASSUME UNCHANGED changing, G!Next PROVE UNCHANGED workload
    BY DEF changing, vars
<1>1. CASE G!FetchFails \/ G!TimePasses \/ G!Crash
    BY <1>1 DEF G!FetchFails, G!TimePasses, G!Crash, G!Return, G!Step
<1>2. CASE \E i \in Items : G!Change(i)
    BY <1>2 DEF G!Change
<1>3. CASE \E d \in Deliveries : G!Receive(d) \/ G!ReceiveConflict(d)
    BY <1>3 DEF G!Receive, G!ReceiveConflict
<1>4. CASE G!Serve
    BY <1>4 DEF G!Serve, G!Startup, G!StartScheduler, G!Tick, G!EndTick, G!FetchPage, G!NextPage,
           G!LastPage, G!Return, G!Consume, G!BeginPass, G!ApplyEvent, G!ApplyFails, G!Step
<1> QED
    BY <1>1, <1>2, <1>3, <1>4 DEF G!Next

\* Scans and webhooks beside the calls are steps the authority does not see: the
\* composition implements ConnectorAuthority.
THEOREM ConnectorsImplementAuthority == ConnectorsSpec => Spec
<1>1. ConnectorsInit => Init
    BY DEF ConnectorsInit
<1>2. [ConnectorsNext]_connectorVars => [Next]_vars
    <2>1. ASSUME UNCHANGED connectorVars PROVE UNCHANGED vars
        BY <2>1 DEF connectorVars
    <2> QED
        BY <2>1, ScanSteps DEF ConnectorsNext
<1> QED
    BY <1>1, <1>2, PTL DEF ConnectorsSpec, Spec

-------------------------------------------------------------------------------
(* Scans.                                                                  *)

Counts == [Items -> Nat]
DeliveryRows == [state : {"NONE"}, applied : BOOLEAN]
    \cup [state : {"VERIFIED", "CONFLICT"}, applied : BOOLEAN, at : Counts]
CursorRows == [status : {"NONE", "IDLE", "SCANNING", "FAILED_RETRYABLE"},
               page : {0} \cup G!Pages, held : BOOLEAN]
PassScans ==
    [op : {"SCAN"}, project : Projects, for : {None}, rows : SUBSET Projects,
     page : G!Pages, fetched : BOOLEAN, items : SUBSET (Items \X Nat)]
ApplicationScans ==
    [op : {"SCAN"}, project : Projects, for : Deliveries, rows : SUBSET G!Rows,
     page : G!Pages, fetched : BOOLEAN, items : SUBSET (Items \X Nat)]
Jobs == [op : {"DOWN"}] \cup [op : {"WAIT"}, first : BOOLEAN]
    \cup [op : {"CONSUME"}, rows : SUBSET G!Rows]
    \cup [op : {"TICK"}, rows : SUBSET Projects] \cup PassScans \cup ApplicationScans

\* Rows, cursors and the job of the scans, by their forms.
ScanFormInv ==
    /\ source \in Counts
    /\ seen \in [Projects -> Counts] /\ began \in [Projects -> Counts]
    /\ cursor \in [Projects -> CursorRows]
    /\ delivery \in [Deliveries -> DeliveryRows]
    /\ application \in [G!Rows -> {"NONE", "PENDING", "FAILED_RETRYABLE", "APPLIED"}]
    /\ job \in Jobs

\* What was shown, and what a pass or a delivery began from, are earlier than what
\* stands at GitHub, and a key stands for what was shown.
SourceInv ==
    /\ \A p \in Projects, i \in Items : seen[p][i] <= source[i] /\ began[p][i] <= source[i]
    /\ \A d \in Deliveries, i \in Items :
         delivery[d].state # "NONE" => delivery[d].at[i] <= source[i]
    /\ \A p \in Projects, i \in Items, v \in Nat : <<p, <<i, v>>>> \in keys => v <= seen[p][i]

\* A row of an application is of a connected project and of a delivery that came;
\* what is still to be consumed was not applied.
RowsInv ==
    /\ \A r \in G!Rows : application[r] # "NONE" =>
         r[2] \in G!Connected /\ delivery[r[1]].state # "NONE"
    /\ \A d \in Deliveries : delivery[d].state # "NONE" =>
         G!Connected # {} /\ \A p \in G!Connected : application[<<d, p>>] # "NONE"
    /\ job.op # "DOWN" => G!Connected # {}
    /\ job.op = "CONSUME" => \A r \in job.rows : application[r] \in G!Unfinished
    /\ job.op = "SCAN" /\ job.for # None =>
         /\ application[<<job.for, job.project>>] \in G!Unfinished
         /\ <<job.for, job.project>> \notin job.rows
         /\ \A r \in job.rows : application[r] \in G!Unfinished

\* What the projection of a scan's project must show when the scan ends.
Base == IF job.for = None THEN began[job.project] ELSE delivery[job.for].at

\* Item i is on a page the scan has been through, or was taken from this one.
Passed(i) ==
    \/ G!Page(i) < job.page
    \/ G!Page(i) = job.page /\ job.fetched /\ \A e \in job.items : e[1] # i

\* A scan's items are newer than what is shown, and what it has passed is shown.
ScanInv ==
    job.op = "SCAN" =>
        /\ ~job.fetched => job.items = {}
        /\ \A e, f \in job.items : e[1] = f[1] => e = f
        /\ \A e \in job.items :
             /\ G!Page(e[1]) = job.page
             /\ seen[job.project][e[1]] <= e[2] /\ Base[e[1]] <= e[2] /\ e[2] <= source[e[1]]
        /\ \A i \in Items : Passed(i) => Base[i] <= seen[job.project][i]

ScansInv == ScanFormInv /\ SourceInv /\ RowsInv /\ ScanInv /\ ScansAreTrue

-------------------------------------------------------------------------------
(* Pages.                                                                  *)

\* Every item is on a page of the list.
LEMMA PageNumbers ==
    ASSUME NEW i \in Items
    PROVE  i \in Nat \ {0} /\ G!Page(i) \in Nat \ {0} /\ G!Page(i) \in G!Pages
<1>1. i \in Nat \ {0}
    <2>1. Cardinality(Items) \in Nat
        BY ReconciliationAssumption, FS_CardinalityType
    <2> QED
        BY <2>1, ReconciliationAssumption
<1>2. i - 1 \in Nat /\ PageSize \in Nat \ {0}
    BY <1>1, ReconciliationAssumption
<1>3. (i - 1) \div PageSize \in Nat
    BY <1>2, SMT
<1> QED
    BY <1>1, <1>3 DEF G!Page, G!Pages

\* The first page has an item.
LEMMA FirstPage == 1 \in G!Pages
<1>1. Cardinality(Items) \in Nat
    BY ReconciliationAssumption, FS_CardinalityType
<1>2. 1 \in Items
    BY <1>1, ReconciliationAssumption
<1>3. (1 - 1) \div PageSize = 0
    <2>1. PageSize \in Nat \ {0}
        BY ReconciliationAssumption
    <2>2. 0 \div PageSize = 0
        BY <2>1, SMT
    <2> QED
        BY <2>2
<1>4. G!Page(1) = 1
    BY <1>3 DEF G!Page
<1> QED
    BY <1>2, <1>4 DEF G!Pages

\* Pages follow each other: beyond the last one there is no item.
LEMMA LastOfPages ==
    ASSUME NEW page \in G!Pages, page + 1 \notin G!Pages, NEW i \in Items
    PROVE  G!Page(i) <= page
<1>1. Cardinality(Items) \in Nat /\ PageSize \in Nat \ {0}
    BY ReconciliationAssumption, FS_CardinalityType
<1>2. page \in Nat \ {0} /\ G!Page(i) \in Nat /\ i \in Nat \ {0} /\ i <= Cardinality(Items)
    BY <1>1, PageNumbers, ReconciliationAssumption DEF G!Pages
<1> SUFFICES ASSUME G!Page(i) > page PROVE FALSE
    BY <1>2
<1> DEFINE j == page * PageSize + 1
<1>3. page * PageSize \in Nat /\ (page * PageSize) \div PageSize = page
    BY <1>1, <1>2, SMT
<1>4. j \in Nat \ {0} /\ j - 1 = page * PageSize
    BY <1>3
<1>5. j <= i
    <2> DEFINE q == (i - 1) \div PageSize
    <2>1. i - 1 \in Nat
        BY <1>2
    <2>2. q \in Nat /\ PageSize * q <= i - 1
        BY <1>1, <2>1, SMT
    <2>3. page <= q
        BY <1>2, <2>2 DEF G!Page
    <2> HIDE DEF q
    <2>4. page * PageSize <= PageSize * q
        BY <1>1, <1>2, <2>2, <2>3, SMT
    <2> QED
        BY <1>2, <1>3, <2>2, <2>4, <1>1
<1>6. j \in Items
    BY <1>1, <1>2, <1>4, <1>5, ReconciliationAssumption
<1>7. G!Page(j) = page + 1
    BY <1>3, <1>4 DEF G!Page
<1> QED
    BY <1>6, <1>7 DEF G!Pages


-------------------------------------------------------------------------------
(* Forms of the scans.                                                     *)

\* The scheduler's job has the form its op says.
LEMMA JobForms ==
    ASSUME ScanFormInv
    PROVE  /\ job.op = "SCAN" /\ job.for = None => job \in PassScans
           /\ job.op = "SCAN" /\ job.for # None => job \in ApplicationScans
           /\ job.op = "CONSUME" => job \in [op : {"CONSUME"}, rows : SUBSET G!Rows]
           /\ job.op = "TICK" => job \in [op : {"TICK"}, rows : SUBSET Projects]
BY ReconciliationAssumption DEF ScanFormInv, Jobs, PassScans, ApplicationScans

\* A scan is of a project, on a page, with items it has fetched.
LEMMA ScanForms ==
    ASSUME ScanFormInv, job.op = "SCAN"
    PROVE  /\ job.project \in Projects /\ job.for \in Deliveries \cup {None}
           /\ job.page \in G!Pages /\ job.items \subseteq Items \X Nat /\ job.fetched \in BOOLEAN
BY JobForms DEF PassScans, ApplicationScans

\* What is the job of a step that keeps what a scan is for.
LEMMA ScanGoesOn ==
    ASSUME ScanFormInv, job.op = "SCAN", NEW page \in G!Pages, NEW fetched \in BOOLEAN,
           NEW items \in SUBSET (Items \X Nat),
           job' = [job EXCEPT !.page = page, !.fetched = fetched, !.items = items]
    PROVE  /\ job' \in Jobs /\ job'.op = "SCAN" /\ job'.project = job.project
           /\ job'.for = job.for /\ job'.rows = job.rows
           /\ job'.page = page /\ job'.fetched = fetched /\ job'.items = items
<1>1. CASE job.for = None
    <2>1. job \in PassScans
        BY <1>1, JobForms
    <2>2. job' \in PassScans
        BY <2>1 DEF PassScans
    <2> QED
        BY <2>1, <2>2 DEF PassScans, Jobs
<1>2. CASE job.for # None
    <2>1. job \in ApplicationScans
        BY <1>2, JobForms
    <2>2. job' \in ApplicationScans
        BY <2>1 DEF ApplicationScans
    <2> QED
        BY <2>1, <2>2 DEF ApplicationScans, Jobs
<1> QED
    BY <1>1, <1>2

\* A scan that ends leaves cursor and application rows in their form.
LEMMA ReturnForm ==
    ASSUME ScanFormInv, job.op = "SCAN", NEW ok \in BOOLEAN, G!Return(ok)
    PROVE  /\ job' \in Jobs /\ cursor' \in [Projects -> CursorRows]
           /\ delivery' \in [Deliveries -> DeliveryRows]
           /\ application' \in [G!Rows -> {"NONE", "PENDING", "FAILED_RETRYABLE", "APPLIED"}]
           /\ UNCHANGED <<source, began>>
<1>1. job.project \in Projects
    BY ScanForms
<1>2. job' = G!Rest /\ UNCHANGED <<source, began>>
    BY DEF G!Return, G!Step
<1>3. CASE job.for = None
    <2>1. job \in PassScans
        BY <1>3, JobForms
    <2>2. job' \in Jobs
        BY <1>2, <1>3, <2>1 DEF G!Rest, PassScans, Jobs
    <2>3. cursor' \in [Projects -> CursorRows]
        <3> DEFINE row == IF ok THEN [status |-> "IDLE", page |-> 0, held |-> FALSE]
                                ELSE G!Failed(job.project)
        <3>1. cursor' = [cursor EXCEPT ![job.project] = row]
            BY <1>3 DEF G!Return
        <3>2. row \in CursorRows
            BY <1>1 DEF G!Failed, CursorRows, ScanFormInv
        <3> HIDE DEF row
        <3> QED
            BY <3>1, <3>2 DEF ScanFormInv
    <2>4. UNCHANGED <<delivery, application>>
        BY <1>3 DEF G!Return, G!ingress
    <2> QED
        BY <1>2, <2>2, <2>3, <2>4 DEF ScanFormInv
<1>4. CASE job.for # None
    <2>1. job \in ApplicationScans
        BY <1>4, JobForms
    <2>2. job' \in Jobs
        BY <1>2, <1>4, <2>1 DEF G!Rest, ApplicationScans, Jobs
    <2>3. job.for \in Deliveries
        BY <2>1 DEF ApplicationScans
    <2>4. /\ application' = [application EXCEPT ![<<job.for, job.project>>] = G!Outcome(ok)]
          /\ UNCHANGED cursor
          /\ delivery' = [delivery EXCEPT ![job.for].applied =
                 @ \/ (ok /\ \A q \in G!Connected \ {job.project} :
                                application[<<job.for, q>>] = "APPLIED")]
        BY <1>4 DEF G!Return
    <2>5. application' \in [G!Rows -> {"NONE", "PENDING", "FAILED_RETRYABLE", "APPLIED"}]
        BY <2>4 DEF G!Outcome, ScanFormInv
    <2>6. delivery' \in [Deliveries -> DeliveryRows]
        <3> DEFINE applied == delivery[job.for].applied \/ (ok /\ \A q \in G!Connected \ {job.project} :
                                application[<<job.for, q>>] = "APPLIED")
                   row == [delivery[job.for] EXCEPT !.applied = applied]
        <3>1. applied \in BOOLEAN
            BY <2>3 DEF ScanFormInv, DeliveryRows
        <3>2. delivery' = [delivery EXCEPT ![job.for] = row]
            BY <2>4
        <3> HIDE DEF applied
        <3>3. row \in DeliveryRows
            BY <2>3, <3>1 DEF ScanFormInv, DeliveryRows
        <3> HIDE DEF row
        <3> QED
            BY <3>2, <3>3 DEF ScanFormInv
    <2> QED
        BY <1>2, <2>2, <2>4, <2>5, <2>6 DEF ScanFormInv
<1> QED
    BY <1>3, <1>4


\* The first page of a scan, for a pass or for an application.
LEMMA ScanBegins ==
    ASSUME NEW p \in Projects, NEW d, NEW rows, NEW page \in G!Pages,
           \/ d = None /\ rows \subseteq Projects
           \/ d \in Deliveries /\ rows \subseteq G!Rows
    PROVE  G!Scan(p, d, rows, page) \in Jobs
BY DEF G!Scan, Jobs, PassScans, ApplicationScans

\* Every step of a scan keeps the rows in their form.
LEMMA ScanFormStep ==
    ASSUME ScanFormInv, G!Next
    PROVE  ScanFormInv'
<1>1. ASSUME NEW i \in Items, G!Change(i) PROVE ScanFormInv'
    <2>1. source' = [source EXCEPT ![i] = @ + 1]
        BY <1>1 DEF G!Change
    <2>2. source' \in Counts
        BY <2>1 DEF ScanFormInv, Counts
    <2>3. UNCHANGED <<seen, began, cursor, delivery, application, job>>
        BY <1>1 DEF G!Change, G!projected, G!pass, G!ingress
    <2> QED
        BY <2>2, <2>3 DEF ScanFormInv
<1>2. CASE G!TimePasses
    <2>1. PICK over \in SUBSET {p \in Projects : cursor[p].held} :
             cursor' = [p \in Projects |->
                 IF p \in over THEN [cursor[p] EXCEPT !.held = FALSE] ELSE cursor[p]]
        BY <1>2 DEF G!TimePasses
    <2>2. cursor' \in [Projects -> CursorRows]
        BY <2>1, ZenonT(60) DEF ScanFormInv, CursorRows
    <2> QED
        BY <1>2, <2>2 DEF G!TimePasses, G!ingress, ScanFormInv
<1>3. ASSUME NEW d \in Deliveries, G!Receive(d) PROVE ScanFormInv'
    <2>1. [state |-> "VERIFIED", applied |-> FALSE, at |-> source] \in DeliveryRows
        BY DEF DeliveryRows, ScanFormInv
    <2>2. delivery' \in [Deliveries -> DeliveryRows]
        BY <1>3, <2>1 DEF G!Receive, ScanFormInv
    <2>3. application' \in [G!Rows -> {"NONE", "PENDING", "FAILED_RETRYABLE", "APPLIED"}]
        BY <1>3 DEF G!Receive, ScanFormInv
    <2> QED
        BY <1>3, <2>2, <2>3 DEF G!Receive, G!projected, G!pass, ScanFormInv
<1>4. ASSUME NEW d \in Deliveries, G!ReceiveConflict(d) PROVE ScanFormInv'
    <2> DEFINE row == [delivery[d] EXCEPT !.state = "CONFLICT"]
    <2>1. row \in DeliveryRows
        BY <1>4 DEF G!ReceiveConflict, ScanFormInv, DeliveryRows
    <2>2. delivery' = [delivery EXCEPT ![d] = row]
        BY <1>4 DEF G!ReceiveConflict
    <2> HIDE DEF row
    <2> QED
        BY <1>4, <2>1, <2>2 DEF G!ReceiveConflict, G!projected, G!pass, ScanFormInv
<1>5. ASSUME job' \in Jobs, G!Step(job'), UNCHANGED <<G!projected, G!pass, G!ingress>>
      PROVE  ScanFormInv'
    BY <1>5 DEF G!Step, G!projected, G!pass, G!ingress, ScanFormInv
<1>6. CASE G!Startup \/ G!StartScheduler \/ G!Tick \/ G!EndTick \/ G!Crash
    <2>1. CASE G!Startup
        BY <1>5, <2>1 DEF G!Startup, G!Step, Jobs
    <2>2. CASE G!StartScheduler
        BY <1>5, <2>2 DEF G!StartScheduler, G!Step, Jobs
    <2>3. CASE G!Tick
        BY <1>5, <2>3 DEF G!Tick, G!Step, Jobs
    <2>4. CASE G!EndTick
        BY <1>5, <2>4 DEF G!EndTick, G!Step, Jobs
    <2>5. CASE G!Crash
        BY <1>5, <2>5 DEF G!Crash, G!Step, Jobs
    <2> QED
        BY <1>6, <2>1, <2>2, <2>3, <2>4, <2>5
<1>7. ASSUME NEW r \in G!Rows, G!Consume(r) PROVE ScanFormInv'
    <2>1. job \in [op : {"CONSUME"}, rows : SUBSET G!Rows] /\ r \in job.rows
        BY <1>7, JobForms DEF G!Consume
    <2>2. r[1] \in Deliveries /\ r[2] \in Projects
        BY DEF G!Rows
    <2>3. G!Scan(r[2], r[1], job.rows \ {r}, 1) \in Jobs
        BY <2>1, <2>2, FirstPage, ScanBegins
    <2>4. [job EXCEPT !.rows = @ \ {r}] \in Jobs
        BY <2>1 DEF Jobs
    <2>5. job' \in Jobs
        BY <1>7, <2>3, <2>4 DEF G!Consume, G!Step
    <2>6. application' \in [G!Rows -> {"NONE", "PENDING", "FAILED_RETRYABLE", "APPLIED"}]
        BY <1>7 DEF G!Consume, ScanFormInv
    <2> QED
        BY <1>7, <2>5, <2>6 DEF G!Consume, G!Step, G!projected, G!pass, ScanFormInv
<1>8. ASSUME NEW p \in Projects, G!BeginPass(p) PROVE ScanFormInv'
    <2>1. job \in [op : {"TICK"}, rows : SUBSET Projects] /\ p \in job.rows
          /\ cursor[p] \in CursorRows
        BY <1>8, JobForms DEF G!BeginPass, ScanFormInv
    <2> DEFINE page == IF cursor[p].page = 0 THEN 1 ELSE cursor[p].page
    <2>2. page \in G!Pages
        BY <2>1, FirstPage DEF CursorRows
    <2>3. G!Scan(p, None, job.rows \ {p}, page) \in Jobs
        BY <2>1, <2>2, ScanBegins
    <2>4. [job EXCEPT !.rows = @ \ {p}] \in Jobs
        BY <2>1 DEF Jobs
    <2>5. job' \in Jobs
        BY <1>8, <2>3, <2>4 DEF G!BeginPass, G!Step
    <2>6. G!Failed(p) \in CursorRows /\ [cursor[p] EXCEPT !.status = "SCANNING"] \in CursorRows
        BY <2>1 DEF G!Failed, CursorRows
    <2>7. \/ cursor' = [cursor EXCEPT ![p] = G!Failed(p)]
          \/ cursor' = [cursor EXCEPT ![p] = [cursor[p] EXCEPT !.status = "SCANNING"]]
        BY <1>8 DEF G!BeginPass
    <2>8. cursor' \in [Projects -> CursorRows]
        BY <2>6, <2>7 DEF ScanFormInv
    <2>9. began' \in [Projects -> Counts]
        BY <1>8 DEF G!BeginPass, ScanFormInv
    <2> QED
        BY <1>8, <2>5, <2>8, <2>9 DEF G!BeginPass, G!Step, G!projected, G!ingress, ScanFormInv
<1>9. CASE G!FetchPage
    <2> DEFINE items == {<<i, source[i]>> : i \in {i \in Items : G!Page(i) = job.page /\ source[i] > 0}}
    <2>1. /\ job.op = "SCAN"
          /\ job' = [job EXCEPT !.fetched = TRUE, !.items = items]
        BY <1>9 DEF G!FetchPage, G!Step
    <2>2. items \in SUBSET (Items \X Nat)
        BY DEF ScanFormInv, Counts
    <2> HIDE DEF items
    <2>3. job' = [job EXCEPT !.page = job.page, !.fetched = TRUE, !.items = items]
        BY <2>1, JobForms DEF PassScans, ApplicationScans
    <2>4. job' \in Jobs
        BY <2>1, <2>2, <2>3, ScanForms, ScanGoesOn
    <2> QED
        BY <1>5, <1>9, <2>4 DEF G!FetchPage, G!Step
<1>10. CASE G!NextPage
    <2>1. /\ job.op = "SCAN" /\ job.page + 1 \in G!Pages
          /\ job' = [job EXCEPT !.page = @ + 1, !.fetched = FALSE]
        BY <1>10 DEF G!NextPage, G!Step
    <2>2. job' = [job EXCEPT !.page = job.page + 1, !.fetched = FALSE, !.items = job.items]
        BY <2>1, JobForms DEF PassScans, ApplicationScans
    <2>3. job' \in Jobs
        BY <2>1, <2>2, ScanForms, ScanGoesOn
    <2> QED
        BY <1>5, <1>10, <2>3 DEF G!NextPage, G!Step
<1>11. ASSUME NEW ok \in BOOLEAN, job.op = "SCAN", G!Return(ok), UNCHANGED G!projected
       PROVE  ScanFormInv'
    BY <1>11, ReturnForm DEF G!projected, ScanFormInv
<1>12. CASE G!LastPage \/ G!FetchFails
    BY <1>11, <1>12 DEF G!LastPage, G!FetchFails
<1>13. ASSUME NEW e \in Items \X G!Versions, G!ApplyFails(e) PROVE ScanFormInv'
    BY <1>11, <1>13 DEF G!ApplyFails
<1>14. ASSUME NEW e \in Items \X G!Versions, G!ApplyEvent(e) PROVE ScanFormInv'
    <2>1. /\ job.op = "SCAN" /\ e \in job.items
          /\ job' = [job EXCEPT !.items = @ \ {e}]
        BY <1>14 DEF G!ApplyEvent, G!Step
    <2>2. job' = [job EXCEPT !.page = job.page, !.fetched = job.fetched, !.items = job.items \ {e}]
        BY <2>1, JobForms DEF PassScans, ApplicationScans
    <2>3. job' \in Jobs /\ job.project \in Projects /\ job.page \in G!Pages
        <3> DEFINE items == job.items \ {e}
        <3>1. /\ job.project \in Projects /\ job.page \in G!Pages /\ job.fetched \in BOOLEAN
              /\ items \in SUBSET (Items \X Nat)
            BY <2>1, ScanForms
        <3>2. job' = [job EXCEPT !.page = job.page, !.fetched = job.fetched, !.items = items]
            BY <2>2
        <3> HIDE DEF items
        <3>3. job' \in Jobs
            BY <2>1, <3>1, <3>2, ScanGoesOn
        <3> QED
            BY <3>1, <3>3
    <2>4. e[1] \in Items /\ e[2] \in Nat
        BY <2>1, ScanForms
    <2>5. seen' \in [Projects -> Counts]
        <3> DEFINE row == [seen[job.project] EXCEPT ![e[1]] = e[2]]
        <3>1. row \in Counts
            BY <2>3, <2>4 DEF ScanFormInv, Counts
        <3>2. seen' = seen \/ seen' = [seen EXCEPT ![job.project] = row]
            BY <1>14 DEF G!ApplyEvent, G!projected
        <3> HIDE DEF row
        <3> QED
            BY <3>1, <3>2 DEF ScanFormInv
    <2>6. cursor' \in [Projects -> CursorRows]
        <3> DEFINE row == [cursor[job.project] EXCEPT !.page = job.page]
        <3>1. row \in CursorRows
            BY <2>3 DEF ScanFormInv, CursorRows
        <3>2. cursor' = cursor \/ cursor' = [cursor EXCEPT ![job.project] = row]
            BY <1>14 DEF G!ApplyEvent
        <3> HIDE DEF row
        <3> QED
            BY <3>1, <3>2 DEF ScanFormInv
    <2> QED
        BY <1>14, <2>3, <2>5, <2>6 DEF G!ApplyEvent, G!Step, G!ingress, ScanFormInv
<1> QED
    BY <1>1, <1>2, <1>3, <1>4, <1>6, <1>7, <1>8, <1>9, <1>10, <1>12, <1>13, <1>14
       DEF G!Next, G!Serve


-------------------------------------------------------------------------------
(* What a step of the scans changes.                                       *)

\* A scan ends, and has been through the last page when it ends well.
Returns(ok) ==
    /\ job.op = "SCAN" /\ G!Return(ok) /\ UNCHANGED G!projected
    /\ ok => job.fetched /\ job.items = {} /\ job.page + 1 \notin G!Pages

\* The steps of a scan, by what they do to its rows.
LEMMA ScanCases ==
    ASSUME G!Next
    PROVE  \/ \E i \in Items : G!Change(i)
           \/ G!TimePasses
           \/ \E d \in Deliveries : G!Receive(d) \/ G!ReceiveConflict(d)
           \/ G!Startup \/ G!StartScheduler \/ G!Tick \/ G!EndTick \/ G!Crash
           \/ \E r \in G!Rows : G!Consume(r)
           \/ \E p \in Projects : G!BeginPass(p)
           \/ G!FetchPage \/ G!NextPage
           \/ \E e \in Items \X G!Versions : G!ApplyEvent(e)
           \/ Returns(TRUE) \/ Returns(FALSE)
<1>1. G!LastPage => Returns(TRUE)
    BY DEF G!LastPage, Returns
<1>2. G!FetchFails => Returns(FALSE)
    BY DEF G!FetchFails, Returns
<1>3. \A e \in Items \X G!Versions : G!ApplyFails(e) => Returns(FALSE)
    BY DEF G!ApplyFails, Returns
<1> QED
    BY <1>1, <1>2, <1>3 DEF G!Next, G!Serve

\* One item of a page is shown, or its key was.
LEMMA AppliedItem ==
    ASSUME ScanFormInv, SourceInv, ScanInv, NEW e, G!ApplyEvent(e)
    PROVE  /\ job.op = "SCAN" /\ e \in job.items /\ job.project \in Projects
           /\ e[1] \in Items /\ e[2] \in Nat /\ e = <<e[1], e[2]>>
           /\ e[2] <= seen'[job.project][e[1]] /\ e[2] <= source[e[1]]
           /\ seen[job.project][e[1]] <= seen'[job.project][e[1]]
           /\ seen'[job.project][e[1]] <= source[e[1]]
           /\ \A p \in Projects, i \in Items :
                 p # job.project \/ i # e[1] => seen'[p][i] = seen[p][i]
           /\ keys' \subseteq keys \cup {<<job.project, e>>}
           /\ UNCHANGED <<source, began, delivery, application>>
           /\ cursor' = IF job.for = None
                        THEN [cursor EXCEPT ![job.project].page = job.page] ELSE cursor
           /\ job' = [job EXCEPT !.items = @ \ {e}]
<1> DEFINE p == job.project
           i == e[1]
           v == e[2]
<1>1. job.op = "SCAN" /\ e \in job.items
    BY DEF G!ApplyEvent
<1>2. p \in Projects /\ i \in Items /\ v \in Nat /\ e = <<i, v>>
    BY <1>1, ScanForms
<1>3. seen[p][i] <= v /\ v <= source[i] /\ seen[p][i] <= source[i]
    BY <1>1, <1>2 DEF ScanInv, SourceInv
<1>4. seen[p][i] \in Nat /\ source[i] \in Nat
    BY <1>2 DEF ScanFormInv, Counts
<1>5. \/ <<p, e>> \in keys /\ UNCHANGED <<seen, keys>>
      \/ seen' = [seen EXCEPT ![p][i] = v] /\ keys' = keys \cup {<<p, e>>}
    BY DEF G!ApplyEvent, G!projected
<1>6. /\ UNCHANGED <<source, began, delivery, application>>
      /\ cursor' = IF job.for = None THEN [cursor EXCEPT ![p].page = job.page] ELSE cursor
      /\ job' = [job EXCEPT !.items = @ \ {e}]
    BY DEF G!ApplyEvent, G!Step, G!ingress
<1>7. CASE <<p, e>> \in keys /\ UNCHANGED <<seen, keys>>
    <2>1. v <= seen[p][i]
        BY <1>2, <1>7 DEF SourceInv
    <2> QED
        BY <1>1, <1>2, <1>3, <1>4, <1>6, <1>7, <2>1
<1>8. CASE seen' = [seen EXCEPT ![p][i] = v] /\ keys' = keys \cup {<<p, e>>}
    <2>1. seen'[p][i] = v
        BY <1>2, <1>8 DEF ScanFormInv, Counts
    <2>2. \A q \in Projects, j \in Items : q # p \/ j # i => seen'[q][j] = seen[q][j]
        BY <1>2, <1>8 DEF ScanFormInv, Counts
    <2> QED
        BY <1>1, <1>2, <1>3, <1>4, <1>6, <1>8, <2>1, <2>2
<1> QED
    BY <1>5, <1>7, <1>8

\* A scan that returns writes its outcome, and its delivery's once every project
\* has it.
LEMMA Returned ==
    ASSUME ScanFormInv, NEW ok \in BOOLEAN, Returns(ok)
    PROVE  /\ job.op = "SCAN" /\ UNCHANGED <<source, seen, keys, began>>
           /\ job.for = None =>
                /\ UNCHANGED <<delivery, application>>
                /\ cursor' = [cursor EXCEPT ![job.project] =
                      IF ok THEN [status |-> "IDLE", page |-> 0, held |-> FALSE]
                            ELSE G!Failed(job.project)]
                /\ job' = [op |-> "TICK", rows |-> job.rows]
           /\ job.for # None =>
                /\ UNCHANGED cursor
                /\ application' = [application EXCEPT ![<<job.for, job.project>>] =
                                       IF ok THEN "APPLIED" ELSE "FAILED_RETRYABLE"]
                /\ delivery' = [delivery EXCEPT ![job.for].applied =
                      @ \/ (ok /\ \A q \in G!Connected \ {job.project} :
                                     application[<<job.for, q>>] = "APPLIED")]
                /\ job' = [op |-> "CONSUME", rows |-> job.rows]
<1>1. job.op = "SCAN" /\ UNCHANGED <<source, seen, keys, began>> /\ job' = G!Rest
    BY DEF Returns, G!Return, G!Step, G!projected
<1>2. job.for = None =>
         /\ UNCHANGED <<delivery, application>>
         /\ cursor' = [cursor EXCEPT ![job.project] =
               IF ok THEN [status |-> "IDLE", page |-> 0, held |-> FALSE]
                     ELSE G!Failed(job.project)]
    BY DEF Returns, G!Return, G!ingress
<1>3. job.for # None =>
         /\ UNCHANGED cursor
         /\ application' = [application EXCEPT ![<<job.for, job.project>>] =
                                IF ok THEN "APPLIED" ELSE "FAILED_RETRYABLE"]
         /\ delivery' = [delivery EXCEPT ![job.for].applied =
               @ \/ (ok /\ \A q \in G!Connected \ {job.project} :
                              application[<<job.for, q>>] = "APPLIED")]
    BY DEF Returns, G!Return, G!Outcome
<1> QED
    BY <1>1, <1>2, <1>3 DEF G!Rest

\* What is shown, what stands and what was received never go back.
Grows ==
    /\ \A p \in Projects, i \in Items : seen[p][i] <= seen'[p][i]
    /\ \A i \in Items : source[i] <= source'[i]
    /\ \A d \in Deliveries : delivery[d].state # "NONE" =>
          delivery'[d].state # "NONE" /\ delivery'[d].at = delivery[d].at
    /\ G!Connected' = G!Connected

\* Contents at GitHub, and what the projections show, only rise.
LEMMA GrowsStep ==
    ASSUME ScanFormInv, SourceInv, ScanInv, UNCHANGED changing, G!Next
    PROVE  Grows
<1>1. G!Connected' = G!Connected
    BY ScanSteps DEF G!Connected, vars
<1>2. \A p \in Projects, i \in Items : seen[p][i] <= seen'[p][i]
    <2>1. CASE UNCHANGED seen
        BY <2>1 DEF ScanFormInv, Counts
    <2>2. ASSUME NEW e \in Items \X G!Versions, G!ApplyEvent(e)
          PROVE  \A p \in Projects, i \in Items : seen[p][i] <= seen'[p][i]
        <3> SUFFICES ASSUME NEW p \in Projects, NEW i \in Items PROVE seen[p][i] <= seen'[p][i]
            OBVIOUS
        <3>1. seen[p][i] \in Nat
            BY DEF ScanFormInv, Counts
        <3> QED
            BY <2>2, <3>1, AppliedItem
    <2>3. UNCHANGED seen \/ \E e \in Items \X G!Versions : G!ApplyEvent(e)
        BY ScanCases DEF G!Change, G!TimePasses, G!Receive, G!ReceiveConflict, G!Startup,
           G!StartScheduler, G!Tick, G!EndTick, G!Crash, G!Consume, G!BeginPass, G!FetchPage,
           G!NextPage, Returns, G!projected
    <2> QED
        BY <2>1, <2>2, <2>3
<1>3. \A i \in Items : source[i] <= source'[i]
    <2>1. CASE UNCHANGED source
        BY <2>1 DEF ScanFormInv, Counts
    <2>2. ASSUME NEW j \in Items, G!Change(j) PROVE \A i \in Items : source[i] <= source'[i]
        BY <2>2 DEF G!Change, ScanFormInv, Counts
    <2>3. UNCHANGED source \/ \E i \in Items : G!Change(i)
        BY ScanCases DEF G!TimePasses, G!Receive, G!ReceiveConflict, G!Startup,
           G!StartScheduler, G!Tick, G!EndTick, G!Crash, G!Consume, G!BeginPass, G!FetchPage,
           G!NextPage, Returns, G!ApplyEvent, G!Return, G!Step
    <2> QED
        BY <2>1, <2>2, <2>3
<1>4. \A d \in Deliveries : delivery[d].state # "NONE" =>
         delivery'[d].state # "NONE" /\ delivery'[d].at = delivery[d].at
    <2>1. ASSUME NEW d \in Deliveries, G!Receive(d) \/ G!ReceiveConflict(d),
                 NEW f \in Deliveries, delivery[f].state # "NONE"
          PROVE  delivery'[f].state # "NONE" /\ delivery'[f].at = delivery[f].at
        <3>1. CASE f # d
            BY <2>1, <3>1 DEF G!Receive, G!ReceiveConflict, ScanFormInv
        <3>2. CASE f = d
            <4>1. /\ delivery[d] \in DeliveryRows
                  /\ delivery' = [delivery EXCEPT ![d].state = "CONFLICT"]
                BY <2>1, <3>2 DEF G!Receive, G!ReceiveConflict, ScanFormInv
            <4> QED
                BY <2>1, <3>2, <4>1 DEF DeliveryRows, ScanFormInv
        <3> QED
            BY <3>1, <3>2
    <2>2. ASSUME NEW ok \in BOOLEAN, Returns(ok), NEW f \in Deliveries, delivery[f].state # "NONE"
          PROVE  delivery'[f].state # "NONE" /\ delivery'[f].at = delivery[f].at
        <3>1. CASE job.for = None
            BY <2>2, <3>1, Returned
        <3>2. CASE job.for # None
            <4>1. \E b : delivery' = [delivery EXCEPT ![job.for].applied = b]
                BY <2>2, <3>2, Returned
            <4>2. delivery[f] \in DeliveryRows
                BY DEF ScanFormInv
            <4> QED
                BY <2>2, <4>1, <4>2 DEF ScanFormInv, DeliveryRows
        <3> QED
            BY <3>1, <3>2
    <2>3. \/ UNCHANGED delivery
          \/ \E d \in Deliveries : G!Receive(d) \/ G!ReceiveConflict(d)
          \/ Returns(TRUE) \/ Returns(FALSE)
        BY ScanCases DEF G!Change, G!TimePasses, G!Startup, G!StartScheduler, G!Tick, G!EndTick,
           G!Crash, G!Consume, G!BeginPass, G!FetchPage, G!NextPage, G!ApplyEvent, G!ingress
    <2> QED
        BY <2>1, <2>2, <2>3
<1> QED
    BY <1>1, <1>2, <1>3, <1>4 DEF Grows


-------------------------------------------------------------------------------
(* Nothing is shown that GitHub did not have.                              *)

\* Nothing shown, or begun from, is later than what stands at GitHub.
LEMMA SourceStep ==
    ASSUME ScanFormInv, SourceInv, ScanInv, UNCHANGED changing, G!Next
    PROVE  SourceInv'
<1>1. ScanFormInv' /\ Grows
    BY ScanFormStep, GrowsStep
<1>2. ASSUME NEW p \in Projects, NEW i \in Items
      PROVE  seen'[p][i] <= source'[i] /\ began'[p][i] <= source'[i]
    <2>1. /\ source[i] \in Nat /\ source'[i] \in Nat /\ source[i] <= source'[i]
          /\ seen[p][i] \in Nat /\ seen[p][i] <= source[i] /\ seen'[p][i] \in Nat
          /\ began[p][i] \in Nat /\ began[p][i] <= source[i]
        BY <1>1 DEF ScanFormInv, Counts, SourceInv, Grows
    <2>2. seen'[p][i] <= source'[i]
        <3>1. CASE UNCHANGED seen
            BY <2>1, <3>1
        <3>2. ASSUME NEW e \in Items \X G!Versions, G!ApplyEvent(e)
              PROVE  seen'[p][i] <= source'[i]
            BY <2>1, <3>2, AppliedItem
        <3>3. UNCHANGED seen \/ \E e \in Items \X G!Versions : G!ApplyEvent(e)
            BY ScanCases DEF G!Change, G!TimePasses, G!Receive, G!ReceiveConflict, G!Startup,
               G!StartScheduler, G!Tick, G!EndTick, G!Crash, G!Consume, G!BeginPass, G!FetchPage,
               G!NextPage, Returns, G!projected
        <3> QED
            BY <3>1, <3>2, <3>3
    <2>3. began'[p][i] <= source'[i]
        <3>1. \/ UNCHANGED began
              \/ \E q \in Projects : G!BeginPass(q)
            BY ScanCases, Returned DEF G!Change, G!TimePasses, G!Receive, G!ReceiveConflict,
               G!Startup, G!StartScheduler, G!Tick, G!EndTick, G!Crash, G!Consume, G!FetchPage,
               G!NextPage, G!ApplyEvent, G!pass
        <3>2. ASSUME NEW q \in Projects, G!BeginPass(q) PROVE began'[p][i] <= source'[i]
            <4>1. began' = began \/ began' = [began EXCEPT ![q] = source]
                BY <3>2 DEF G!BeginPass
            <4> QED
                BY <2>1, <4>1 DEF ScanFormInv
        <3> QED
            BY <2>1, <3>1, <3>2
    <2> QED
        BY <2>2, <2>3
<1>3. ASSUME NEW d \in Deliveries, NEW i \in Items, delivery'[d].state # "NONE"
      PROVE  delivery'[d].at[i] <= source'[i]
    <2>1. /\ source[i] \in Nat /\ source'[i] \in Nat /\ source[i] <= source'[i]
        BY <1>1 DEF ScanFormInv, Counts, Grows
    <2>2. CASE delivery[d].state # "NONE"
        <3>1. delivery'[d].at = delivery[d].at /\ delivery[d].at[i] <= source[i]
            BY <1>1, <2>2 DEF Grows, SourceInv
        <3>2. delivery[d].at[i] \in Nat
            BY <2>2 DEF ScanFormInv, DeliveryRows, Counts
        <3> QED
            BY <2>1, <3>1, <3>2
    <2>3. CASE delivery[d].state = "NONE"
        <3>1. G!Receive(d)
            <4>1. ASSUME NEW f \in Deliveries, G!Receive(f) PROVE f = d
                BY <1>3, <2>3, <4>1 DEF G!Receive, ScanFormInv
            <4>2. ASSUME NEW f \in Deliveries, G!ReceiveConflict(f) PROVE FALSE
                BY <1>3, <2>3, <4>2 DEF G!ReceiveConflict, ScanFormInv
            <4>3. ASSUME NEW ok \in BOOLEAN, Returns(ok) PROVE FALSE
                <5>1. UNCHANGED delivery \/ \E b : delivery' = [delivery EXCEPT ![job.for].applied = b]
                    BY <4>3, Returned
                <5>2. ASSUME NEW b, delivery' = [delivery EXCEPT ![job.for].applied = b]
                      PROVE  delivery'[d].state = delivery[d].state
                    <6>1. delivery \in [Deliveries -> DeliveryRows]
                        BY DEF ScanFormInv
                    <6>2. \/ delivery'[d] = delivery[d]
                          \/ delivery'[d] = [delivery[d] EXCEPT !.applied = b]
                        BY <5>2, <6>1
                    <6> QED
                        BY <6>1, <6>2 DEF DeliveryRows
                <5> QED
                    BY <1>3, <2>3, <5>1, <5>2
            <4>4. \/ delivery' = delivery
                  \/ \E f \in Deliveries : G!Receive(f) \/ G!ReceiveConflict(f)
                  \/ \E ok \in BOOLEAN : Returns(ok)
                <5>1. ASSUME NEW r \in G!Rows, G!Consume(r) PROVE delivery' = delivery
                    BY <5>1 DEF G!Consume, G!ingress
                <5>2. ASSUME NEW q \in Projects, G!BeginPass(q) PROVE delivery' = delivery
                    BY <5>2 DEF G!BeginPass, G!ingress
                <5>3. ASSUME NEW e \in Items \X G!Versions, G!ApplyEvent(e)
                      PROVE  delivery' = delivery
                    BY <5>3 DEF G!ApplyEvent, G!ingress
                <5>4. ASSUME NEW j \in Items, G!Change(j) PROVE delivery' = delivery
                    BY <5>4 DEF G!Change, G!ingress
                <5>5. CASE \/ G!TimePasses \/ G!Startup \/ G!StartScheduler \/ G!Tick
                           \/ G!EndTick \/ G!Crash \/ G!FetchPage \/ G!NextPage
                    BY <5>5 DEF G!TimePasses, G!Startup, G!StartScheduler, G!Tick, G!EndTick,
                       G!Crash, G!FetchPage, G!NextPage, G!ingress
                <5> QED
                    BY <5>1, <5>2, <5>3, <5>4, <5>5, ScanCases
            <4>5. delivery' # delivery
                BY <1>3, <2>3
            <4> QED
                BY <4>1, <4>2, <4>3, <4>4, <4>5
        <3>2. delivery'[d].at = source
            BY <3>1 DEF G!Receive, ScanFormInv
        <3> QED
            BY <2>1, <3>2
    <2> QED
        BY <2>2, <2>3
<1>4. ASSUME NEW p \in Projects, NEW i \in Items, NEW v \in Nat, <<p, <<i, v>>>> \in keys'
      PROVE  v <= seen'[p][i]
    <2>1. seen[p][i] \in Nat /\ seen'[p][i] \in Nat /\ seen[p][i] <= seen'[p][i]
        BY <1>1 DEF ScanFormInv, Counts, Grows
    <2>2. CASE <<p, <<i, v>>>> \in keys
        BY <2>1, <2>2 DEF SourceInv
    <2>3. CASE <<p, <<i, v>>>> \notin keys
        <3>1. PICK e \in Items \X G!Versions : G!ApplyEvent(e)
            BY <1>4, <2>3, ScanCases DEF G!Change, G!TimePasses, G!Receive, G!ReceiveConflict,
               G!Startup, G!StartScheduler, G!Tick, G!EndTick, G!Crash, G!Consume, G!BeginPass,
               G!FetchPage, G!NextPage, Returns, G!projected
        <3> QED
            BY <1>4, <2>3, <3>1, AppliedItem
    <2> QED
        BY <2>2, <2>3
<1> QED
    BY <1>2, <1>3, <1>4 DEF SourceInv

-------------------------------------------------------------------------------
(* Applications are consumed once.                                         *)

\* A delivery and a project name a row.
LEMMA PairForms ==
    ASSUME NEW d \in Deliveries, NEW p \in Projects
    PROVE  <<d, p>> \in G!Rows /\ <<d, p>>[1] = d /\ <<d, p>>[2] = p
BY DEF G!Rows

\* The rows of applications are of connected projects and of deliveries that came.
LEMMA RowsStep ==
    ASSUME ScanFormInv, SourceInv, ScanInv, RowsInv, UNCHANGED changing, G!Next
    PROVE  RowsInv'
<1> USE DEF RowsInv
<1>1. ScanFormInv' /\ Grows /\ G!Connected' = G!Connected /\ G!Connected \subseteq Projects
    BY ScanFormStep, GrowsStep DEF Grows, G!Connected
<1>2. ASSUME UNCHANGED <<delivery, application>>, job'.op # "DOWN" => G!Connected # {},
             job'.op \in {"CONSUME", "SCAN"} => job'.op = job.op /\ job'.rows = job.rows,
             job'.op = "SCAN" => job'.for = job.for /\ job'.project = job.project
      PROVE  RowsInv'
    BY <1>1, <1>2
<1>3. ASSUME NEW i \in Items, G!Change(i) PROVE RowsInv'
    BY <1>2, <1>3 DEF G!Change, G!ingress
<1>4. CASE G!TimePasses
    BY <1>2, <1>4 DEF G!TimePasses, G!ingress
<1>5. ASSUME NEW d \in Deliveries, G!Receive(d) PROVE RowsInv'
    <2>1. /\ delivery[d].state = "NONE" /\ job.op # "DOWN" /\ UNCHANGED job
          /\ \A f \in Deliveries \ {d} : delivery'[f] = delivery[f]
          /\ delivery'[d].state = "VERIFIED"
          /\ \A r \in G!Rows : application'[r] = IF r[1] = d /\ r[2] \in G!Connected
                                                 THEN "PENDING" ELSE application[r]
        BY <1>5 DEF G!Receive, ScanFormInv
    <2>2. \A r \in G!Rows : application'[r] # "NONE" =>
              r[2] \in G!Connected /\ delivery'[r[1]].state # "NONE"
        <3> SUFFICES ASSUME NEW r \in G!Rows, application'[r] # "NONE"
                     PROVE  r[2] \in G!Connected /\ delivery'[r[1]].state # "NONE"
            OBVIOUS
        <3>1. r[1] \in Deliveries
            BY DEF G!Rows
        <3> QED
            BY <2>1, <3>1
    <2>3. \A f \in Deliveries : delivery'[f].state # "NONE" =>
              G!Connected # {} /\ \A p \in G!Connected : application'[<<f, p>>] # "NONE"
        BY <1>1, <2>1, PairForms
    <2>4. \A r \in G!Rows : application[r] \in G!Unfinished => application'[r] \in G!Unfinished
        BY <2>1 DEF G!Unfinished
    <2>5. job.op = "CONSUME" => job.rows \subseteq G!Rows
        BY JobForms
    <2>6. job.op = "SCAN" /\ job.for # None =>
              /\ <<job.for, job.project>> \in G!Rows /\ job.rows \subseteq G!Rows
        BY JobForms, PairForms DEF ApplicationScans
    <2> QED
        BY <1>1, <2>1, <2>2, <2>3, <2>4, <2>5, <2>6
<1>6. ASSUME NEW d \in Deliveries, G!ReceiveConflict(d) PROVE RowsInv'
    <2>1. UNCHANGED <<application, job>> /\ \A f \in Deliveries :
              (delivery'[f].state = "NONE") = (delivery[f].state = "NONE")
        BY <1>6 DEF G!ReceiveConflict, ScanFormInv, DeliveryRows
    <2>2. \A r \in G!Rows : r[1] \in Deliveries
        BY DEF G!Rows
    <2> QED
        BY <1>1, <2>1, <2>2
<1>7. CASE G!Startup
    <2>1. /\ G!Connected # {} /\ UNCHANGED <<delivery, application>>
          /\ job' = [op |-> "CONSUME", rows |-> {r \in G!Rows : application[r] \in G!Unfinished}]
        BY <1>7 DEF G!Startup, G!Step, G!ingress
    <2> QED
        BY <1>1, <2>1
<1>8. CASE G!StartScheduler \/ G!Tick \/ G!EndTick \/ G!Crash
    <2>1. UNCHANGED <<delivery, application>> /\ job'.op \in {"WAIT", "TICK", "DOWN"}
          /\ (job'.op # "DOWN" => job.op # "DOWN")
        BY <1>8 DEF G!StartScheduler, G!Tick, G!EndTick, G!Crash, G!Step, G!ingress
    <2> QED
        BY <1>2, <2>1
<1>9. ASSUME NEW r \in G!Rows, G!Consume(r) PROVE RowsInv'
    <2>1. /\ job.op = "CONSUME" /\ r \in job.rows /\ job.rows \subseteq G!Rows
          /\ application[r] \in G!Unfinished /\ UNCHANGED delivery /\ G!Connected # {}
        BY <1>9, JobForms DEF G!Consume
    <2>2. r[1] \in Deliveries /\ r[2] \in Projects /\ r = <<r[1], r[2]>> /\ r[1] # None
        BY ReconciliationAssumption DEF G!Rows
    <2>3. CASE /\ job' = G!Scan(r[2], r[1], job.rows \ {r}, 1) /\ UNCHANGED application
        <3>1. /\ job'.op = "SCAN" /\ job'.for = r[1] /\ job'.project = r[2]
              /\ job'.rows = job.rows \ {r}
            BY <2>3 DEF G!Scan
        <3> QED
            BY <1>1, <2>1, <2>2, <2>3, <3>1
    <2>4. CASE /\ job' = [job EXCEPT !.rows = @ \ {r}]
               /\ application' = [application EXCEPT ![r] = "FAILED_RETRYABLE"]
        <3>1. job'.op = "CONSUME" /\ job'.rows = job.rows \ {r}
            BY <2>1, <2>4, JobForms
        <3>2. \A s \in G!Rows :
                 (application'[s] = "NONE") = (application[s] = "NONE")
                 /\ (s # r => application'[s] = application[s])
            BY <2>1, <2>4 DEF ScanFormInv, G!Unfinished
        <3> QED
            BY <1>1, <2>1, <3>1, <3>2, PairForms
    <2> QED
        BY <1>9, <2>3, <2>4 DEF G!Consume, G!Step
<1>10. ASSUME NEW p \in Projects, G!BeginPass(p) PROVE RowsInv'
    <2>1. /\ job.op = "TICK" /\ UNCHANGED <<delivery, application>>
          /\ \/ \E page : job' = G!Scan(p, None, job.rows \ {p}, page)
             \/ job' = [job EXCEPT !.rows = @ \ {p}]
        BY <1>10 DEF G!BeginPass, G!Step, G!ingress
    <2>2. (job'.op = "SCAN" /\ job'.for = None) \/ job'.op = "TICK"
        BY <2>1, JobForms DEF G!Scan
    <2> QED
        BY <1>1, <2>1, <2>2
<1>11. CASE G!FetchPage \/ G!NextPage \/ \E e \in Items \X G!Versions : G!ApplyEvent(e)
    <2>1. job.op = "SCAN" /\ UNCHANGED <<delivery, application>>
        BY <1>11 DEF G!FetchPage, G!NextPage, G!ApplyEvent, G!ingress
    <2>2. \/ \E x : job' = [job EXCEPT !.fetched = TRUE, !.items = x]
          \/ job' = [job EXCEPT !.page = @ + 1, !.fetched = FALSE]
          \/ \E x : job' = [job EXCEPT !.items = x]
        BY <1>11 DEF G!FetchPage, G!NextPage, G!ApplyEvent, G!Step
    <2>3. job'.op = job.op /\ job'.rows = job.rows /\ job'.for = job.for
          /\ job'.project = job.project
        BY <2>1, <2>2, JobForms DEF PassScans, ApplicationScans
    <2> QED
        BY <1>2, <2>1, <2>3
<1>12. ASSUME NEW ok \in BOOLEAN, Returns(ok) PROVE RowsInv'
    <2>1. job.op = "SCAN"
        BY <1>12, Returned
    <2>2. CASE job.for = None
        BY <1>2, <1>12, <2>1, <2>2, Returned
    <2>3. CASE job.for # None
        <3>1. /\ job.for \in Deliveries /\ job.project \in Projects /\ job.rows \subseteq G!Rows
              /\ <<job.for, job.project>> \in G!Rows
            BY <2>1, <2>3, JobForms, PairForms DEF ApplicationScans
        <3> DEFINE row == <<job.for, job.project>>
        <3>2. application[row] \in G!Unfinished /\ row \notin job.rows
            BY <2>1, <2>3
        <3>3. /\ application' = [application EXCEPT ![row] =
                                     IF ok THEN "APPLIED" ELSE "FAILED_RETRYABLE"]
              /\ job' = [op |-> "CONSUME", rows |-> job.rows]
            BY <1>12, <2>3, Returned
        <3>4. \A f \in Deliveries : delivery'[f].state = delivery[f].state
            <4>1. \E b : delivery' = [delivery EXCEPT ![job.for].applied = b]
                BY <1>12, <2>3, Returned
            <4> QED
                BY <4>1 DEF ScanFormInv, DeliveryRows
        <3> HIDE DEF row
        <3>5. \A s \in G!Rows : /\ (application'[s] = "NONE") = (application[s] = "NONE")
                                /\ s # row => application'[s] = application[s]
            BY <3>1, <3>2, <3>3 DEF ScanFormInv, G!Unfinished, row
        <3>6. \A r \in job.rows : application[r] \in G!Unfinished
            BY <2>1, <2>3
        <3>7. \A s \in G!Rows : s[1] \in Deliveries
            BY DEF G!Rows
        <3>8. job'.op = "CONSUME" /\ job'.rows = job.rows /\ G!Connected # {}
            BY <2>1, <3>3
        <3>9. \A r \in G!Rows : application'[r] # "NONE" =>
                 r[2] \in G!Connected /\ delivery'[r[1]].state # "NONE"
            BY <3>4, <3>5, <3>7
        <3>10. \A d \in Deliveries : delivery'[d].state # "NONE" =>
                 G!Connected # {} /\ \A p \in G!Connected : application'[<<d, p>>] # "NONE"
            BY <1>1, <3>4, <3>5, PairForms
        <3>11. \A r \in job.rows : application'[r] \in G!Unfinished
            BY <3>1, <3>2, <3>5, <3>6
        <3> QED
            BY <1>1, <3>8, <3>9, <3>10, <3>11
    <2> QED
        BY <2>2, <2>3
<1> QED
    BY <1>3, <1>4, <1>5, <1>6, <1>7, <1>8, <1>9, <1>10, <1>11, <1>12, ScanCases


-------------------------------------------------------------------------------
(* What a scan has been through is shown.                                  *)

\* What a scan must reach is content that GitHub has had.
LEMMA BaseForm ==
    ASSUME ScanFormInv, SourceInv, RowsInv, job.op = "SCAN"
    PROVE  /\ Base \in Counts /\ \A i \in Items : Base[i] <= source[i]
           /\ job.for # None => job.for \in Deliveries /\ delivery[job.for].state # "NONE"
<1>1. CASE job.for = None
    BY <1>1, ScanForms DEF Base, ScanFormInv, SourceInv
<1>2. CASE job.for # None
    <2>1. job.for \in Deliveries /\ job.project \in Projects
        BY <1>2, JobForms DEF ApplicationScans
    <2>2. <<job.for, job.project>> \in G!Rows /\ application[<<job.for, job.project>>] # "NONE"
        BY <1>2, <2>1, PairForms DEF RowsInv, G!Unfinished
    <2>3. delivery[job.for].state # "NONE"
        BY <2>1, <2>2, PairForms DEF RowsInv
    <2> QED
        BY <1>2, <2>1, <2>3 DEF Base, ScanFormInv, DeliveryRows, SourceInv
<1> QED
    BY <1>1, <1>2

\* A scan that goes on has the same base.
LEMMA SameBase ==
    ASSUME ScanFormInv, SourceInv, RowsInv, Grows, job.op = "SCAN", UNCHANGED began,
           job'.for = job.for, job'.project = job.project
    PROVE  Base' = Base
<1>1. CASE job.for = None
    BY <1>1 DEF Base
<1>2. CASE job.for # None
    BY <1>2, BaseForm DEF Base, Grows
<1> QED
    BY <1>1, <1>2

\* What a scan has been through is shown as it was when the scan began, or later.
LEMMA ScanStep ==
    ASSUME ScanFormInv, SourceInv, ScanInv, RowsInv, ScansAreTrue, UNCHANGED changing, G!Next
    PROVE  ScanInv'
<1>1. ScanFormInv' /\ Grows
    BY ScanFormStep, GrowsStep
<1>2. ASSUME NEW p \in Projects, NEW i \in Items
      PROVE  /\ seen[p][i] \in Nat /\ seen'[p][i] \in Nat /\ seen[p][i] <= seen'[p][i]
             /\ source[i] \in Nat /\ source'[i] \in Nat /\ source[i] <= source'[i]
    BY <1>1 DEF ScanFormInv, Counts, Grows
<1>3. ASSUME UNCHANGED <<seen, began, job>> PROVE ScanInv'
    <2> SUFFICES ASSUME job.op = "SCAN" PROVE ScanInv'
        BY <1>3 DEF ScanInv
    <2>1. Base' = Base
        BY <1>1, <1>3, SameBase
    <2>2. \A e \in job.items : e[1] \in Items /\ e[2] \in Nat
        BY ScanForms
    <2>3. \A e \in job.items : e[2] <= source'[e[1]]
        <3> SUFFICES ASSUME NEW e \in job.items PROVE e[2] <= source'[e[1]]
            OBVIOUS
        <3>1. e[2] <= source[e[1]]
            BY DEF ScanInv
        <3>2. job.project \in Projects
            BY ScanForms
        <3> QED
            BY <1>2, <2>2, <3>1, <3>2
    <2>4. \A i \in Items : Passed(i)' = Passed(i)
        BY <1>3 DEF Passed
    <2> QED
        BY <1>3, <2>1, <2>3, <2>4 DEF ScanInv
<1>4. ASSUME job'.op # "SCAN" PROVE ScanInv'
    BY <1>4 DEF ScanInv
<1>5. ASSUME NEW r \in G!Rows, G!Consume(r) PROVE ScanInv'
    <2>1. CASE job' = G!Scan(r[2], r[1], job.rows \ {r}, 1)
        <3>1. job'.op = "SCAN" /\ job'.page = 1 /\ ~job'.fetched /\ job'.items = {}
            BY <2>1 DEF G!Scan
        <3>2. \A i \in Items : ~Passed(i)'
            BY <3>1, PageNumbers DEF Passed
        <3> QED
            BY <3>1, <3>2 DEF ScanInv
    <2>2. CASE job' = [job EXCEPT !.rows = @ \ {r}]
        <3>1. job'.op = "CONSUME"
            BY <1>5, <2>2, JobForms DEF G!Consume
        <3> QED
            BY <1>4, <3>1
    <2> QED
        BY <1>5, <2>1, <2>2 DEF G!Consume, G!Step
<1>6. ASSUME NEW p \in Projects, G!BeginPass(p) PROVE ScanInv'
    <2> DEFINE page == IF cursor[p].page = 0 THEN 1 ELSE cursor[p].page
    <2>1. CASE /\ job' = G!Scan(p, None, job.rows \ {p}, page)
               /\ began' = IF cursor[p].page = 0 THEN [began EXCEPT ![p] = source] ELSE began
               /\ UNCHANGED seen
        <3>1. /\ job'.op = "SCAN" /\ job'.page = page /\ ~job'.fetched /\ job'.items = {}
              /\ job'.project = p /\ job'.for = None
            BY <2>1 DEF G!Scan
        <3>2. Base' = began'[p]
            BY <3>1 DEF Base
        <3>3. \A i \in Items : Passed(i)' => began'[p][i] <= seen'[p][i]
            <4> SUFFICES ASSUME NEW i \in Items, Passed(i)' PROVE began'[p][i] <= seen'[p][i]
                OBVIOUS
            <4>1. G!Page(i) < page
                BY <3>1 DEF Passed
            <4>2. cursor[p].page # 0
                BY <4>1, PageNumbers
            <4>3. G!Page(i) < cursor[p].page
                BY <4>1, <4>2
            <4>4. seen[p][i] >= began[p][i]
                BY <4>3 DEF ScansAreTrue, G!RowsAreTrue
            <4>5. began[p][i] \in Nat /\ seen[p][i] \in Nat
                BY DEF ScanFormInv, Counts
            <4> QED
                BY <2>1, <4>2, <4>4, <4>5
        <3> QED
            BY <3>1, <3>2, <3>3 DEF ScanInv
    <2>2. CASE job' = [job EXCEPT !.rows = @ \ {p}]
        <3>1. job'.op = "TICK"
            BY <1>6, <2>2, JobForms DEF G!BeginPass
        <3> QED
            BY <1>4, <3>1
    <2> QED
        BY <1>6, <2>1, <2>2 DEF G!BeginPass, G!Step, G!projected
<1>7. CASE G!FetchPage
    <2> DEFINE items == {<<i, source[i]>> : i \in {i \in Items : G!Page(i) = job.page /\ source[i] > 0}}
    <2>1. /\ job.op = "SCAN" /\ ~job.fetched /\ UNCHANGED <<seen, source, began>>
          /\ job' = [job EXCEPT !.fetched = TRUE, !.items = items]
        BY <1>7 DEF G!FetchPage, G!Step, G!projected, G!pass
    <2>2. /\ job'.op = "SCAN" /\ job'.fetched /\ job'.items = items /\ job'.page = job.page
          /\ job'.for = job.for /\ job'.project = job.project
        BY <2>1, JobForms DEF PassScans, ApplicationScans
    <2>3. Base' = Base /\ job.project \in Projects /\ Base \in Counts
          /\ \A i \in Items : Base[i] <= source[i]
        BY <1>1, <2>1, <2>2, SameBase, ScanForms, BaseForm
    <2>4. \A e \in items : /\ e[1] \in Items /\ e[2] = source[e[1]] /\ G!Page(e[1]) = job.page
        OBVIOUS
    <2>5. \A e, f \in items : e[1] = f[1] => e = f
        OBVIOUS
    <2>6. \A e \in items : seen[job.project][e[1]] <= e[2] /\ Base[e[1]] <= e[2]
        BY <2>3, <2>4 DEF SourceInv
    <2>7. \A i \in Items : G!Page(i) = job.page /\ (\A e \in items : e[1] # i) => source[i] = 0
        <3> SUFFICES ASSUME NEW i \in Items, G!Page(i) = job.page, \A e \in items : e[1] # i,
                            source[i] # 0
                     PROVE  FALSE
            OBVIOUS
        <3>1. source[i] > 0
            BY DEF ScanFormInv, Counts
        <3>2. <<i, source[i]>> \in items
            BY <3>1
        <3> QED
            BY <3>2
    <2> HIDE DEF items
    <2>8. \A i \in Items : Passed(i)' => Base[i] <= seen[job.project][i]
        <3> SUFFICES ASSUME NEW i \in Items, Passed(i)' PROVE Base[i] <= seen[job.project][i]
            OBVIOUS
        <3>1. CASE G!Page(i) < job.page
            BY <2>1, <3>1 DEF ScanInv, Passed
        <3>2. CASE G!Page(i) = job.page /\ \A e \in items : e[1] # i
            <4>1. source[i] = 0 /\ Base[i] <= source[i] /\ Base[i] \in Nat
                BY <2>3, <2>7, <3>2 DEF Counts
            <4> QED
                BY <1>2, <2>3, <4>1
        <3> QED
            BY <2>2, <3>1, <3>2 DEF Passed
    <2>9. \A e \in items : e[2] <= source[e[1]]
        BY <1>2, <2>3, <2>4
    <2> QED
        BY <2>1, <2>2, <2>3, <2>4, <2>5, <2>6, <2>8, <2>9 DEF ScanInv
<1>8. CASE G!NextPage
    <2>1. /\ job.op = "SCAN" /\ job.fetched /\ job.items = {} /\ UNCHANGED <<seen, source, began>>
          /\ job' = [job EXCEPT !.page = @ + 1, !.fetched = FALSE]
        BY <1>8 DEF G!NextPage, G!Step, G!projected, G!pass
    <2>2. /\ job'.op = "SCAN" /\ ~job'.fetched /\ job'.items = {} /\ job'.page = job.page + 1
          /\ job'.for = job.for /\ job'.project = job.project
        BY <2>1, JobForms DEF PassScans, ApplicationScans
    <2>3. Base' = Base
        BY <1>1, <2>1, <2>2, SameBase
    <2>4. \A i \in Items : Passed(i)' => Passed(i)
        <3>1. job.page \in Nat
            BY <2>1, ScanForms, PageNumbers DEF G!Pages
        <3> QED
            BY <2>1, <2>2, <3>1, PageNumbers DEF Passed
    <2> QED
        BY <2>1, <2>2, <2>3, <2>4 DEF ScanInv
<1>9. ASSUME NEW e \in Items \X G!Versions, G!ApplyEvent(e) PROVE ScanInv'
    <2> DEFINE p == job.project
    <2>1. /\ job.op = "SCAN" /\ e \in job.items /\ p \in Projects /\ UNCHANGED <<source, began>>
          /\ job' = [job EXCEPT !.items = @ \ {e}]
          /\ \A q \in Projects, i \in Items : q # p \/ i # e[1] => seen'[q][i] = seen[q][i]
          /\ e[1] \in Items /\ e[2] \in Nat /\ e[2] <= seen'[p][e[1]]
        BY <1>9, AppliedItem
    <2>2. /\ job'.op = "SCAN" /\ job'.fetched = job.fetched /\ job'.items = job.items \ {e}
          /\ job'.page = job.page /\ job'.for = job.for /\ job'.project = p
        BY <2>1, JobForms DEF PassScans, ApplicationScans
    <2>3. Base' = Base /\ Base \in Counts
        BY <1>1, <2>1, <2>2, SameBase, BaseForm
    <2>4. ASSUME NEW f \in job.items, f # e
          PROVE  /\ G!Page(f[1]) = job.page /\ f[1] # e[1]
                 /\ seen'[p][f[1]] <= f[2] /\ Base[f[1]] <= f[2] /\ f[2] <= source[f[1]]
        <3>1. f[1] # e[1] /\ f[1] \in Items
            BY <2>1, <2>4, ScanForms DEF ScanInv
        <3>2. seen'[p][f[1]] = seen[p][f[1]]
            BY <2>1, <3>1
        <3> QED
            BY <2>1, <2>4, <3>1, <3>2 DEF ScanInv
    <2>5. ASSUME NEW i \in Items, Passed(i)' PROVE Base[i] <= seen'[p][i]
        <3>1. CASE i = e[1]
            <4>1. Base[i] <= e[2]
                BY <2>1, <3>1 DEF ScanInv
            <4>2. Base[i] \in Nat
                BY <2>3 DEF Counts
            <4> QED
                BY <1>2, <2>1, <3>1, <4>1, <4>2
        <3>2. CASE i # e[1]
            <4>1. Passed(i)
                BY <2>2, <2>5, <3>2 DEF Passed
            <4>2. Base[i] <= seen[p][i]
                BY <2>1, <4>1 DEF ScanInv
            <4> QED
                BY <2>1, <3>2, <4>2
        <3> QED
            BY <3>1, <3>2
    <2>6. ~job.fetched => job.items = {}
        BY <2>1 DEF ScanInv
    <2>7. \A f, g \in job.items : f[1] = g[1] => f = g
        BY <2>1 DEF ScanInv
    <2> HIDE DEF p
    <2> QED
        BY <2>1, <2>2, <2>3, <2>4, <2>5, <2>6, <2>7 DEF ScanInv
<1>10. \/ UNCHANGED <<seen, began, job>> \/ job'.op # "SCAN"
       \/ \E r \in G!Rows : G!Consume(r)
       \/ \E p \in Projects : G!BeginPass(p)
       \/ G!FetchPage \/ G!NextPage
       \/ \E e \in Items \X G!Versions : G!ApplyEvent(e)
    <2>1. ASSUME NEW ok \in BOOLEAN, Returns(ok) PROVE job'.op # "SCAN"
        <3>1. \/ job' = [op |-> "TICK", rows |-> job.rows]
              \/ job' = [op |-> "CONSUME", rows |-> job.rows]
            BY <2>1, Returned
        <3> QED
            BY <3>1
    <2>2. CASE G!Startup \/ G!StartScheduler \/ G!Tick \/ G!EndTick \/ G!Crash
        BY <2>2 DEF G!Startup, G!StartScheduler, G!Tick, G!EndTick, G!Crash, G!Step
    <2> QED
        BY <2>1, <2>2, ScanCases DEF G!Change, G!TimePasses, G!Receive, G!ReceiveConflict,
           G!projected, G!pass
<1> QED
    BY <1>3, <1>4, <1>5, <1>6, <1>7, <1>8, <1>9, <1>10


-------------------------------------------------------------------------------
(* The rows are true.                                                      *)

\* A scan that ends well has been through every item.
LEMMA AllPassed ==
    ASSUME ScanFormInv, ScanInv, Returns(TRUE), NEW i \in Items
    PROVE  Base[i] <= seen[job.project][i]
<1>1. job.op = "SCAN" /\ job.fetched /\ job.items = {} /\ job.page + 1 \notin G!Pages
    BY DEF Returns
<1>2. job.page \in G!Pages
    BY <1>1, ScanForms
<1>3. G!Page(i) <= job.page
    BY <1>1, <1>2, LastOfPages
<1>4. job.page \in Nat /\ G!Page(i) \in Nat
    BY <1>2, PageNumbers DEF G!Pages
<1>5. Passed(i)
    BY <1>1, <1>3, <1>4 DEF Passed
<1> QED
    BY <1>1, <1>5 DEF ScanInv

\* What a finished or a resumable pass has been through.
LEMMA CursorStep ==
    ASSUME ScanFormInv, SourceInv, ScanInv, RowsInv, ScansAreTrue, UNCHANGED changing, G!Next,
           NEW p \in Projects, NEW i \in Items,
           cursor'[p].status = "IDLE" \/ G!Page(i) < cursor'[p].page
    PROVE  seen'[p][i] >= began'[p][i]
<1>1. /\ ScanFormInv' /\ seen[p][i] \in Nat /\ seen'[p][i] \in Nat /\ seen[p][i] <= seen'[p][i]
      /\ began[p][i] \in Nat /\ G!Page(i) \in Nat \ {0} /\ cursor[p] \in CursorRows
    BY ScanFormStep, GrowsStep, PageNumbers DEF ScanFormInv, Counts, Grows
<1>2. ASSUME cursor'[p].status # "IDLE" \/ cursor[p].status = "IDLE",
             cursor'[p].page = cursor[p].page, began'[p] = began[p]
      PROVE  seen'[p][i] >= began'[p][i]
    <2>1. cursor[p].status = "IDLE" \/ G!Page(i) < cursor[p].page
        BY <1>2
    <2>2. seen[p][i] >= began[p][i]
        BY <2>1 DEF ScansAreTrue, G!RowsAreTrue
    <2> QED
        BY <1>1, <1>2, <2>2
<1>3. CASE UNCHANGED <<cursor, began>>
    BY <1>2, <1>3
<1>4. CASE G!TimePasses
    <2>1. /\ cursor'[p] = cursor[p] \/ cursor'[p] = [cursor[p] EXCEPT !.held = FALSE]
          /\ UNCHANGED began
        BY <1>4 DEF G!TimePasses, ScanFormInv
    <2> QED
        BY <1>1, <1>2, <2>1 DEF CursorRows
<1>5. ASSUME NEW q \in Projects, G!BeginPass(q) PROVE seen'[p][i] >= began'[p][i]
    <2>1. CASE q # p
        <3>1. cursor'[p] = cursor[p] /\ began'[p] = began[p]
            BY <1>5, <2>1 DEF G!BeginPass, ScanFormInv
        <3> QED
            BY <1>2, <3>1
    <2>2. CASE q = p
        <3>1. /\ \/ cursor'[p] = [cursor[p] EXCEPT !.status = "SCANNING"]
                 \/ cursor'[p] = [cursor[p] EXCEPT !.status = "FAILED_RETRYABLE", !.held = TRUE]
              /\ began'[p] = began[p] \/ cursor[p].page = 0
            BY <1>5, <2>2 DEF G!BeginPass, G!Failed, ScanFormInv
        <3>2. cursor'[p].status # "IDLE" /\ cursor'[p].page = cursor[p].page
            BY <1>1, <3>1 DEF CursorRows
        <3>3. cursor[p].page # 0
            BY <1>1, <3>2
        <3> QED
            BY <1>2, <3>1, <3>2, <3>3
    <2> QED
        BY <2>1, <2>2
<1>6. ASSUME NEW e \in Items \X G!Versions, G!ApplyEvent(e) PROVE seen'[p][i] >= began'[p][i]
    <2>1. /\ job.op = "SCAN" /\ UNCHANGED began /\ job.page \in G!Pages
          /\ cursor' = IF job.for = None
                       THEN [cursor EXCEPT ![job.project].page = job.page] ELSE cursor
        BY <1>6, AppliedItem, ScanForms
    <2>2. CASE job.for = None /\ p = job.project
        <3>1. cursor'[p].status = cursor[p].status /\ cursor'[p].page = job.page
            BY <1>1, <2>1, <2>2 DEF ScanFormInv, CursorRows
        <3>2. CASE cursor[p].status = "IDLE"
            <4>1. seen[p][i] >= began[p][i]
                BY <3>2 DEF ScansAreTrue, G!RowsAreTrue
            <4> QED
                BY <1>1, <2>1, <4>1
        <3>3. CASE G!Page(i) < job.page
            <4>1. began[p][i] <= seen[p][i]
                BY <2>1, <2>2, <3>3 DEF ScanInv, Passed, Base
            <4> QED
                BY <1>1, <2>1, <4>1
        <3> QED
            BY <3>1, <3>2, <3>3
    <2>3. CASE ~(job.for = None /\ p = job.project)
        <3>1. cursor'[p] = cursor[p]
            BY <2>1, <2>3 DEF ScanFormInv
        <3> QED
            BY <1>2, <2>1, <3>1
    <2> QED
        BY <2>2, <2>3
<1>7. ASSUME NEW ok \in BOOLEAN, Returns(ok) PROVE seen'[p][i] >= began'[p][i]
    <2>1. job.op = "SCAN" /\ UNCHANGED <<seen, began>>
        BY <1>7, Returned
    <2>2. CASE job.for = None /\ p = job.project
        <3>1. cursor' = [cursor EXCEPT ![p] =
                  IF ok THEN [status |-> "IDLE", page |-> 0, held |-> FALSE] ELSE G!Failed(p)]
            BY <1>7, <2>2, Returned
        <3>2. CASE ok
            <4>1. Base[i] <= seen[p][i]
                BY <1>7, <2>2, <3>2, AllPassed
            <4> QED
                BY <1>1, <2>1, <2>2, <4>1 DEF Base
        <3>3. CASE ~ok
            <4>1. cursor'[p].status # "IDLE" /\ cursor'[p].page = cursor[p].page
                BY <1>1, <3>1, <3>3 DEF G!Failed, ScanFormInv, CursorRows
            <4> QED
                BY <1>2, <2>1, <4>1
        <3> QED
            BY <3>2, <3>3
    <2>3. CASE ~(job.for = None /\ p = job.project)
        <3>1. cursor'[p] = cursor[p]
            BY <1>7, <2>1, <2>3, Returned DEF ScanFormInv
        <3> QED
            BY <1>2, <2>1, <3>1
    <2> QED
        BY <2>2, <2>3
<1> QED
    BY <1>3, <1>4, <1>5, <1>6, <1>7, ScanCases DEF G!Change, G!Receive, G!ReceiveConflict,
       G!Startup, G!StartScheduler, G!Tick, G!EndTick, G!Crash, G!Consume, G!FetchPage,
       G!NextPage, G!pass

\* An APPLIED application, and its delivery's applied_at.
LEMMA ApplicationStep ==
    ASSUME ScanFormInv, SourceInv, ScanInv, RowsInv, ScansAreTrue, UNCHANGED changing, G!Next,
           NEW d \in Deliveries, NEW p \in Projects, application'[<<d, p>>] = "APPLIED"
    PROVE  \/ application[<<d, p>>] = "APPLIED"
           \/ Returns(TRUE) /\ job.for = d /\ job.project = p
<1>1. <<d, p>> \in G!Rows
    BY PairForms
<1>2. CASE UNCHANGED application
    BY <1>2
<1>3. ASSUME NEW f \in Deliveries, G!Receive(f) PROVE application[<<d, p>>] = "APPLIED"
    BY <1>1, <1>3 DEF G!Receive
<1>4. ASSUME NEW r \in G!Rows, G!Consume(r) PROVE application[<<d, p>>] = "APPLIED"
    BY <1>1, <1>4 DEF G!Consume, ScanFormInv
<1>5. ASSUME NEW ok \in BOOLEAN, Returns(ok)
      PROVE  \/ application[<<d, p>>] = "APPLIED"
             \/ Returns(TRUE) /\ job.for = d /\ job.project = p
    <2>1. job.op = "SCAN"
        BY <1>5, Returned
    <2>2. CASE job.for = None
        BY <1>5, <2>2, Returned
    <2>3. CASE job.for # None
        <3>1. application' = [application EXCEPT ![<<job.for, job.project>>] =
                                  IF ok THEN "APPLIED" ELSE "FAILED_RETRYABLE"]
            BY <1>5, <2>3, Returned
        <3>2. CASE <<d, p>> = <<job.for, job.project>>
            <4>1. ok = TRUE
                BY <1>1, <3>1, <3>2 DEF ScanFormInv
            <4> QED
                BY <1>5, <3>2, <4>1
        <3>3. CASE <<d, p>> # <<job.for, job.project>>
            BY <1>1, <3>1, <3>3 DEF ScanFormInv
        <3> QED
            BY <3>2, <3>3
    <2> QED
        BY <2>2, <2>3
<1> QED
    BY <1>2, <1>3, <1>4, <1>5, ScanCases DEF G!Change, G!TimePasses, G!ReceiveConflict,
       G!Startup, G!StartScheduler, G!Tick, G!EndTick, G!Crash, G!BeginPass, G!FetchPage,
       G!NextPage, G!ApplyEvent, G!ingress

AppliedAt(d) ==
    delivery[d].state # "NONE" /\ \A p \in G!Connected : application[<<d, p>>] = "APPLIED"

\* A delivery is applied when all its rows are.
LEMMA DeliveryStep ==
    ASSUME ScanFormInv, SourceInv, ScanInv, RowsInv, ScansAreTrue, UNCHANGED changing, G!Next,
           NEW d \in Deliveries
    PROVE  delivery'[d].applied = AppliedAt(d)'
<1>1. /\ delivery[d].applied = AppliedAt(d) /\ G!Connected' = G!Connected
      /\ G!Connected \subseteq Projects
    BY GrowsStep DEF ScansAreTrue, G!RowsAreTrue, AppliedAt, Grows, G!Connected
<1>2. ASSUME delivery'[d].applied = delivery[d].applied,
             (delivery'[d].state = "NONE") = (delivery[d].state = "NONE"),
             \A p \in G!Connected :
                (application'[<<d, p>>] = "APPLIED") = (application[<<d, p>>] = "APPLIED")
      PROVE  delivery'[d].applied = AppliedAt(d)'
    BY <1>1, <1>2 DEF AppliedAt
<1>3. CASE UNCHANGED <<delivery, application>>
    BY <1>2, <1>3
<1>4. ASSUME NEW f \in Deliveries, G!Receive(f) PROVE delivery'[d].applied = AppliedAt(d)'
    <2>1. CASE f # d
        <3>1. delivery'[d] = delivery[d]
            BY <1>4, <2>1 DEF G!Receive, ScanFormInv
        <3>2. \A p \in G!Connected : application'[<<d, p>>] = application[<<d, p>>]
            BY <1>1, <1>4, <2>1, PairForms DEF G!Receive
        <3> QED
            BY <1>2, <3>1, <3>2
    <2>2. CASE f = d
        <3>1. delivery'[d].applied = FALSE
            BY <1>4, <2>2 DEF G!Receive, ScanFormInv
        <3>2. PICK p \in G!Connected : TRUE
            BY <1>4 DEF G!Receive, RowsInv
        <3>3. application'[<<d, p>>] = "PENDING"
            BY <1>1, <1>4, <2>2, <3>2, PairForms DEF G!Receive
        <3> QED
            BY <1>1, <3>1, <3>2, <3>3 DEF AppliedAt
    <2> QED
        BY <2>1, <2>2
<1>5. ASSUME NEW f \in Deliveries, G!ReceiveConflict(f) PROVE delivery'[d].applied = AppliedAt(d)'
    <2>1. /\ UNCHANGED application /\ delivery'[d].applied = delivery[d].applied
          /\ (delivery'[d].state = "NONE") = (delivery[d].state = "NONE")
        BY <1>5 DEF G!ReceiveConflict, ScanFormInv, DeliveryRows
    <2> QED
        BY <1>2, <2>1
<1>6. ASSUME NEW r \in G!Rows, G!Consume(r) PROVE delivery'[d].applied = AppliedAt(d)'
    <2>1. application[r] \in G!Unfinished /\ UNCHANGED delivery
        BY <1>6 DEF G!Consume, RowsInv
    <2>2. application' = application \/ application' = [application EXCEPT ![r] = "FAILED_RETRYABLE"]
        BY <1>6 DEF G!Consume
    <2>3. \A p \in G!Connected :
              (application'[<<d, p>>] = "APPLIED") = (application[<<d, p>>] = "APPLIED")
        BY <1>1, <2>1, <2>2, PairForms DEF ScanFormInv, G!Unfinished
    <2> QED
        BY <1>2, <2>1, <2>3
<1>7. ASSUME NEW ok \in BOOLEAN, Returns(ok) PROVE delivery'[d].applied = AppliedAt(d)'
    <2>1. job.op = "SCAN"
        BY <1>7, Returned
    <2>2. CASE job.for = None
        BY <1>3, <1>7, <2>2, Returned
    <2>3. CASE job.for # None
        <3> DEFINE f == job.for
                   q == job.project
                   done == ok /\ \A p \in G!Connected \ {q} : application[<<f, p>>] = "APPLIED"
        <3>1. /\ f \in Deliveries /\ q \in Projects /\ <<f, q>> \in G!Rows
              /\ application[<<f, q>>] \in G!Unfinished
            BY <2>1, <2>3, JobForms, PairForms DEF ApplicationScans, RowsInv
        <3>2. q \in G!Connected /\ delivery[f].state # "NONE"
            BY <3>1, PairForms DEF RowsInv, G!Unfinished
        <3>3. /\ application' = [application EXCEPT ![<<f, q>>] =
                                     IF ok THEN "APPLIED" ELSE "FAILED_RETRYABLE"]
              /\ delivery' = [delivery EXCEPT ![f].applied = @ \/ done]
            BY <1>7, <2>3, Returned
        <3> HIDE DEF f, q, done
        <3>4. /\ application'[<<f, q>>] = IF ok THEN "APPLIED" ELSE "FAILED_RETRYABLE"
              /\ \A g \in Deliveries, p \in Projects :
                    g # f \/ p # q => application'[<<g, p>>] = application[<<g, p>>]
            BY <3>1, <3>3, PairForms DEF ScanFormInv
        <3>5. CASE d # f
            <4>1. delivery'[d] = delivery[d]
                BY <3>3, <3>5 DEF ScanFormInv
            <4>2. \A p \in G!Connected : application'[<<d, p>>] = application[<<d, p>>]
                BY <1>1, <3>4, <3>5
            <4> QED
                BY <1>2, <4>1, <4>2
        <3>6. CASE d = f
            <4>1. ~AppliedAt(f)
                BY <3>1, <3>2 DEF AppliedAt, G!Unfinished
            <4>2. delivery[f].applied = FALSE
                BY <1>1, <3>6, <4>1 DEF AppliedAt
            <4>3. delivery'[f].state = delivery[f].state
                  /\ delivery'[f].applied = (delivery[f].applied \/ done)
                BY <3>1, <3>3 DEF ScanFormInv, DeliveryRows
            <4>4. CASE done
                <5>1. ok /\ \A p \in G!Connected : application'[<<f, p>>] = "APPLIED"
                    BY <1>1, <3>1, <3>4, <4>4 DEF done
                <5> QED
                    BY <1>1, <3>2, <3>6, <4>3, <4>4, <5>1 DEF AppliedAt
            <4>5. CASE ~done
                <5>1. PICK p \in G!Connected : application'[<<f, p>>] # "APPLIED"
                    BY <1>1, <3>1, <3>2, <3>4, <4>5 DEF done
                <5>2. ~AppliedAt(d)'
                    BY <1>1, <3>6, <5>1 DEF AppliedAt
                <5>3. delivery'[f].applied = FALSE
                    BY <4>2, <4>3, <4>5
                <5> QED
                    BY <3>6, <5>2, <5>3 DEF AppliedAt
            <4> QED
                BY <4>4, <4>5
        <3> QED
            BY <3>5, <3>6
    <2> QED
        BY <2>2, <2>3
<1> QED
    BY <1>3, <1>4, <1>5, <1>6, <1>7, ScanCases DEF G!Change, G!TimePasses, G!Startup,
       G!StartScheduler, G!Tick, G!EndTick, G!Crash, G!BeginPass, G!FetchPage, G!NextPage,
       G!ApplyEvent, G!ingress

\* A row that is applied, or a cursor that is idle, is borne out by the projections.
LEMMA TruthStep ==
    ASSUME ScanFormInv, SourceInv, ScanInv, RowsInv, ScansAreTrue, UNCHANGED changing, G!Next
    PROVE  ScansAreTrue'
<1>1. SourceInv' /\ ScanFormInv' /\ Grows
    BY SourceStep, ScanFormStep, GrowsStep
<1>2. ASSUME NEW p \in Projects, NEW i \in Items, NEW d \in Deliveries,
             application'[<<d, p>>] = "APPLIED"
      PROVE  seen'[p][i] >= delivery'[d].at[i]
    <2>1. seen[p][i] \in Nat /\ seen'[p][i] \in Nat /\ seen[p][i] <= seen'[p][i]
        BY <1>1 DEF ScanFormInv, Counts, Grows
    <2>2. CASE application[<<d, p>>] = "APPLIED"
        <3>1. delivery[d].state # "NONE"
            BY <2>2, PairForms DEF RowsInv
        <3>2. delivery'[d].at = delivery[d].at /\ delivery[d].at[i] \in Nat
            BY <1>1, <3>1 DEF Grows, ScanFormInv, DeliveryRows, Counts
        <3>3. seen[p][i] >= delivery[d].at[i]
            BY <2>2 DEF ScansAreTrue, G!RowsAreTrue
        <3> QED
            BY <2>1, <3>2, <3>3
    <2>3. CASE Returns(TRUE) /\ job.for = d /\ job.project = p
        <3>1. Base[i] <= seen[p][i] /\ job.op = "SCAN" /\ job.for # None
            BY <2>3, AllPassed, ReconciliationAssumption DEF Returns
        <3>2. delivery[d].state # "NONE" /\ Base = delivery[d].at /\ Base \in Counts
            BY <2>3, <3>1, BaseForm DEF Base
        <3>3. delivery'[d].at = delivery[d].at
            BY <1>1, <3>2 DEF Grows
        <3> QED
            BY <2>1, <3>1, <3>2, <3>3 DEF Counts
    <2> QED
        BY <1>2, <2>2, <2>3, ApplicationStep
<1>3. \A p \in Projects, i \in Items : seen'[p][i] <= source'[i]
    BY <1>1 DEF SourceInv
<1> QED
    BY <1>2, <1>3, CursorStep, DeliveryStep DEF ScansAreTrue, G!RowsAreTrue, AppliedAt

\* The invariant of the scans holds before the first.
LEMMA ScansInit == ConnectorsInit => ScansInv
<1> SUFFICES ASSUME ConnectorsInit PROVE ScansInv
    OBVIOUS
<1>1. G!Init
    BY DEF ConnectorsInit
<1>2. /\ seen = [p \in Projects |-> [i \in Items |-> 0]] /\ began = seen /\ keys = {}
      /\ source \in [Items -> {0, 1}]
      /\ delivery = [d \in Deliveries |-> [state |-> "NONE", applied |-> FALSE]]
      /\ application = [r \in G!Rows |-> "NONE"] /\ job = [op |-> "DOWN"]
      /\ cursor \in [Projects -> [status : {"NONE", "IDLE"}, page : {0}, held : {FALSE}]]
    BY <1>1 DEF G!Init
<1>3. ScanFormInv
    <2>1. seen \in [Projects -> Counts] /\ began \in [Projects -> Counts] /\ source \in Counts
        BY <1>2 DEF Counts
    <2>2. cursor \in [Projects -> CursorRows]
        BY <1>2 DEF CursorRows
    <2>3. delivery \in [Deliveries -> DeliveryRows]
        BY <1>2 DEF DeliveryRows
    <2>4. job \in Jobs
        BY <1>2 DEF Jobs
    <2>5. application \in [G!Rows -> {"NONE", "PENDING", "FAILED_RETRYABLE", "APPLIED"}]
        BY <1>2
    <2> QED
        BY <2>1, <2>2, <2>3, <2>4, <2>5 DEF ScanFormInv
<1>4. SourceInv /\ RowsInv /\ ScanInv
    <2>1. \A p \in Projects, i \in Items : seen[p][i] = 0 /\ began[p][i] = 0 /\ source[i] \in Nat
        BY <1>2
    <2>2. \A r \in G!Rows : application[r] = "NONE"
        BY <1>2
    <2>3. job.op = "DOWN" /\ \A d \in Deliveries : delivery[d].state = "NONE"
        BY <1>2
    <2> QED
        BY <1>2, <2>1, <2>2, <2>3 DEF SourceInv, RowsInv, ScanInv
<1>5. ScansAreTrue
    <2>1. \A p \in Projects, i \in Items : seen[p][i] = 0 /\ began[p][i] = 0 /\ source[i] \in Nat
        BY <1>2
    <2>2. \A d \in Deliveries, p \in Projects : application[<<d, p>>] # "APPLIED"
        BY <1>2, PairForms
    <2>3. \A d \in Deliveries : delivery[d].applied = FALSE /\ delivery[d].state = "NONE"
        BY <1>2
    <2>4. \A p \in Projects, i \in Items :
              seen[p][i] <= source[i] /\ seen[p][i] >= began[p][i]
        BY <2>1
    <2>5. \A d \in Deliveries : delivery[d].applied =
              (delivery[d].state # "NONE" /\ \A p \in G!Connected : application[<<d, p>>] = "APPLIED")
        BY <2>3
    <2> QED
        BY <2>2, <2>4, <2>5 DEF ScansAreTrue, G!RowsAreTrue
<1> QED
    BY <1>3, <1>4, <1>5 DEF ScansInv

\* A step that is not of a scan keeps it.
LEMMA ScansStay == ScansInv /\ UNCHANGED <<workload, scanning>> => ScansInv'
BY DEF ScansInv, scanning, ScanFormInv, SourceInv, RowsInv, ScanInv, Passed, Base, ScansAreTrue,
       G!RowsAreTrue, G!Connected

\* Every step of the server keeps it.
LEMMA ScansStep == ScansInv /\ [ConnectorsNext]_connectorVars => ScansInv'
<1> SUFFICES ASSUME ScansInv, [ConnectorsNext]_connectorVars PROVE ScansInv'
    OBVIOUS
<1>1. CASE UNCHANGED changing /\ G!Next
    BY <1>1, ScanFormStep, SourceStep, RowsStep, ScanStep, TruthStep DEF ScansInv
<1>2. CASE Next /\ UNCHANGED scanning
    <2>1. UNCHANGED workload
        BY <1>2, ZenonT(90) DEF Next, BeginMutate, IssueAuthorization, ProviderRefuses,
           ProviderChanges, Confirm, CommitRecovery, BeginRecovery, Step, ChangeElsewhere,
           Reconcile, Observe, ChangeEpoch, RemoveMember, RevokePermit, Restart
    <2> QED
        BY <1>2, <2>1, ScansStay
<1>3. CASE UNCHANGED connectorVars
    BY <1>3, ScansStay DEF connectorVars, vars
<1> QED
    BY <1>1, <1>2, <1>3 DEF ConnectorsNext


\* The rows of a project say no more than was done: an APPLIED application, an
\* applied_at, a finished pass and the cursor of one that will be resumed stand for
\* what the projection shows, and nothing is shown that GitHub did not have
\* (consumePendingWebhookApplications and runCursorRow, durable-worker.ts; the
\* pages of reconcileGitHubScope, reconciliation.ts).
THEOREM ScansStayTrue == ConnectorsSpec => []ScansAreTrue
<1>1. ScansInv => ScansAreTrue
    BY DEF ScansInv
<1> QED
    BY <1>1, ScansInit, ScansStep, PTL DEF ConnectorsSpec


\* Everything the connectors promise, of the server as it runs: its calls, its
\* scans and its webhooks beside each other.
THEOREM ConnectorsArePrudent ==
    ConnectorsSpec => /\ []ResultsAgree /\ []ScansAreTrue
                      /\ CommitsUnderItsAuthority /\ NoLostUpdate
BY ConnectorsImplementAuthority, ResultsAlwaysAgree, CommitsKeepTheirAuthority,
   ConfirmationsLoseNoUpdate, ScansStayTrue, PTL
===============================================================================
