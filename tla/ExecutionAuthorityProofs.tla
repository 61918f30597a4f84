---------------------- MODULE ExecutionAuthorityProofs ----------------------
(***************************************************************************)
(* Theorems about ExecutionAuthority, for every value of its constants.    *)
(*                                                                         *)
(* First the types of its variables, the order of a run's attempts, and    *)
(* that what has ended stays ended.  Then the mutation guard: it excludes, *)
(* it is released, and it implements MutationGuard; the argument follows   *)
(* StepKinds, by which a step continues, ends a run, launches one, or      *)
(* acknowledges a collision.  Then sessions, leases, permits and           *)
(* operations, which end together, with the run, the session or the        *)
(* revocation they rest on, and runs, which complete only on evidence:     *)
(* there the argument follows what one step can do to each of them         *)
(* (PermitsMove, SessionsMove, OperationsMove, RevocationsMove, RunsMove), *)
(* and EndInv is the inductive invariant.                                  *)
(***************************************************************************)
EXTENDS ExecutionAuthority, TLAPS

--------------------------------------------------------------------------------
(* What the helpers of the handlers return *)

\* Ending sessions leaves well-formed sessions and leases.
LEMMA CloseSessionsType ==
    ASSUME NEW S, NEW s \in {"RELEASED", "REVOKED"}, TypeOK, CloseSessions(S, s)
    PROVE  session' \in [Attempts -> SessionRow] /\ lease' \in [Attempts -> LeaseRow]
<1>1. ASSUME NEW a \in Attempts
      PROVE  session[a] \in SessionRow /\ [session[a] EXCEPT !.state = s] \in SessionRow
  <2>1. session[a] \in SessionRow
    BY DEF TypeOK
  <2> QED BY <2>1 DEF SessionRow
<1>2. ASSUME NEW a \in Attempts
      PROVE  lease[a] \in LeaseRow /\ [lease[a] EXCEPT !.state = s] \in LeaseRow
  <2>1. lease[a] \in LeaseRow
    BY DEF TypeOK
  <2> QED BY <2>1 DEF LeaseRow
<1>3. /\ session' = [a \in Attempts |-> IF a \in S /\ session[a].state = "ACTIVE"
                        THEN [session[a] EXCEPT !.state = s] ELSE session[a]]
      /\ lease' = [a \in Attempts |-> IF a \in S /\ lease[a].state = "ACTIVE"
                      THEN [lease[a] EXCEPT !.state = s] ELSE lease[a]]
  BY DEF CloseSessions
<1> QED BY <1>1, <1>2, <1>3

\* Revoking permits leaves well-formed permits.
LEMMA RevokePermitsType ==
    ASSUME NEW S, TypeOK, RevokePermits(S)
    PROVE  permit' \in [Attempts -> PermitRow]
<1>1. ASSUME NEW a \in Attempts
      PROVE  permit[a] \in PermitRow /\ [permit[a] EXCEPT !.state = "REVOKED"] \in PermitRow
  <2>1. permit[a] \in PermitRow
    BY DEF TypeOK
  <2> QED BY <2>1 DEF PermitRow
<1>2. permit' = [a \in Attempts |->
          IF a \in S /\ permit[a].state = "ISSUED"
          THEN [permit[a] EXCEPT !.state = "REVOKED"] ELSE permit[a]]
  BY DEF RevokePermits
<1> QED BY <1>1, <1>2

\* Issuing an attempt leaves well-formed attempts and permits.
LEMMA IssueAttemptType ==
    ASSUME NEW a \in Attempts, TypeOK, IssueAttempt(a)
    PROVE  attemptState' \in [Attempts -> AttemptStates] /\ permit' \in [Attempts -> PermitRow]
BY ConstantsAssumption DEF TypeOK, IssueAttempt, IssuedPermit, PermitRow, AttemptStates, ActiveAttempt

\* A guard is released or left as it was.
LEMMA GuardsAfterType ==
    ASSUME NEW r \in Runs, NEW next, TypeOK
    PROVE  GuardsAfter(r, next) \in [Runs -> {"NONE", "HELD", "RELEASED"}]
BY DEF TypeOK, GuardsAfter

\* A finalized run is in a state of a run, with a reason to wait of its own.
LEMMA FinalizeType ==
    ASSUME NEW r \in Runs, NEW mid \in RunStates, NEW reason \in WaitingReasons,
           NEW att, NEW res, NEW late, TypeOK, Finalize(r, mid, reason, att, res, late)
    PROVE  /\ runState' \in [Runs -> RunStates]
           /\ waitingReason' \in [Runs -> WaitingReasons]
           /\ guard' \in [Runs -> {"NONE", "HELD", "RELEASED"}]
           /\ overrides' = overrides
<1>1. FinalState(r, mid, att, res, late) \in RunStates
  BY DEF FinalState, RunStates
<1>2. FinalReason(r, reason, att, res) \in WaitingReasons
  BY DEF FinalReason, WaitingReasons
<1>3. runState' \in [Runs -> RunStates] /\ waitingReason' \in [Runs -> WaitingReasons]
  BY <1>1, <1>2 DEF Finalize, SetRun, TypeOK, WaitingReasons
<1>4. guard' \in [Runs -> {"NONE", "HELD", "RELEASED"}]
  BY GuardsAfterType DEF Finalize, TypeOK
<1> QED BY <1>3, <1>4 DEF Finalize

\* Withdrawing authority leaves well-formed state.
LEMMA WithdrawType ==
    ASSUME NEW S \in SUBSET Attempts, TypeOK, Withdraw(S)
    PROVE  /\ permit' \in [Attempts -> PermitRow]
           /\ session' \in [Attempts -> SessionRow]
           /\ lease' \in [Attempts -> LeaseRow]
           /\ intents' \subseteq Attempts \X {"CANCEL_ATTEMPT", "CHECKPOINT_AND_TERMINATE"}
           /\ runState' \in [Runs -> RunStates]
           /\ waitingReason' \in [Runs -> WaitingReasons]
<1>1. permit' \in [Attempts -> PermitRow]
  BY RevokePermitsType DEF Withdraw
<1>2. session' \in [Attempts -> SessionRow] /\ lease' \in [Attempts -> LeaseRow]
  BY CloseSessionsType DEF Withdraw
<1>3. intents' \subseteq Attempts \X {"CANCEL_ATTEMPT", "CHECKPOINT_AND_TERMINATE"}
  BY DEF Withdraw, TypeOK
<1>4. runState' \in [Runs -> RunStates] /\ waitingReason' \in [Runs -> WaitingReasons]
  BY DEF Withdraw, TypeOK, RunStates, WaitingReasons
<1> QED BY <1>1, <1>2, <1>3, <1>4

--------------------------------------------------------------------------------
(* Type correctness *)

\* A launch of either kind leaves everything but the guard well-formed.
LEMMA CreateRunType ==
    ASSUME NEW r \in Runs, TypeOK, CreateRun(r),
           guard' \in [Runs -> {"NONE", "HELD", "RELEASED"}], overrides' \subseteq Runs \X Runs
    PROVE  TypeOK'
<1>1. <<r, 1>> \in Attempts
  BY ConstantsAssumption DEF Attempts
<1>2. attemptState' \in [Attempts -> AttemptStates] /\ permit' \in [Attempts -> PermitRow]
  BY <1>1, IssueAttemptType DEF CreateRun
<1>3. runState' \in [Runs -> RunStates] /\ waitingReason' \in [Runs -> WaitingReasons]
  BY DEF CreateRun, SetRun, TypeOK, RunStates, WaitingReasons
<1>4. attemptCount' \in [Runs -> 0 .. MaximumAttempts]
  BY ConstantsAssumption DEF CreateRun, TypeOK
<1>5. runEpoch' \in [Runs -> Nat]
  BY DEF CreateRun, TypeOK
<1> QED BY <1>2, <1>3, <1>4, <1>5 DEF CreateRun, TypeOK, recordVars, outsideVars, revocationVars

\* Moving an attempt on leaves everything well-formed.
LEMMA MoveAttemptType ==
    ASSUME NEW a \in Attempts, NEW next \in AttemptStates, NEW mid \in RunStates,
           NEW reason \in WaitingReasons, NEW late, TypeOK,
           MoveAttempt(a, next, mid, reason, late)
    PROVE  TypeOK'
<1>1. a[1] \in Runs
  BY DEF Attempts
<1>2. /\ runState' \in [Runs -> RunStates]
      /\ waitingReason' \in [Runs -> WaitingReasons]
      /\ guard' \in [Runs -> {"NONE", "HELD", "RELEASED"}]
      /\ overrides' = overrides
  <2>1. Finalize(a[1], mid, reason,
                 IF a = Latest(a[1]) THEN next ELSE attemptState[Latest(a[1])],
                 result[Latest(a[1])], late)
    BY DEF MoveAttempt
  <2> HIDE DEF Finalize
  <2> QED BY <1>1, <2>1, FinalizeType
<1>3. session' \in [Attempts -> SessionRow] /\ lease' \in [Attempts -> LeaseRow]
  BY CloseSessionsType DEF MoveAttempt, TypeOK
<1>4. attemptState' \in [Attempts -> AttemptStates]
  BY DEF MoveAttempt, TypeOK
<1> QED BY <1>2, <1>3, <1>4 DEF MoveAttempt, TypeOK, recordVars, outsideVars, revocationVars

\* TypeOK is inductive.
LEMMA TypeStep == TypeOK /\ [Next]_vars => TypeOK'
<1> SUFFICES ASSUME TypeOK, [Next]_vars PROVE TypeOK'
  OBVIOUS
<1> USE ConstantsAssumption
<1>1. ASSUME NEW r \in Runs, LaunchRun(r) PROVE TypeOK'
  BY <1>1, CreateRunType DEF LaunchRun, TypeOK
<1>2. ASSUME NEW r \in Runs, AuthorizeAttempt(r) PROVE TypeOK'
  <2>1. attemptCount[r] + 1 \in 1 .. MaximumAttempts /\ <<r, attemptCount[r] + 1>> \in Attempts
    BY <1>2 DEF AuthorizeAttempt, BeginAttempt, BudgetLeft, TypeOK, Attempts
  <2>2. attemptState' \in [Attempts -> AttemptStates] /\ permit' \in [Attempts -> PermitRow]
    BY <1>2, <2>1, IssueAttemptType DEF AuthorizeAttempt, BeginAttempt
  <2>3. attemptCount' \in [Runs -> 0 .. MaximumAttempts]
    BY <1>2, <2>1 DEF AuthorizeAttempt, BeginAttempt, TypeOK
  <2>4. runState' \in [Runs -> RunStates] /\ waitingReason' \in [Runs -> WaitingReasons]
    BY <1>2 DEF AuthorizeAttempt, BeginAttempt, SetRun, TypeOK, RunStates, WaitingReasons
  <2> QED BY <1>2, <2>2, <2>3, <2>4 DEF AuthorizeAttempt, BeginAttempt, TypeOK, recordVars, outsideVars,
                                        revocationVars, guardVars
<1>3. ASSUME NEW r \in Runs, CancelRun(r) PROVE TypeOK'
  <2>1. permit' \in [Attempts -> PermitRow]
    BY <1>3, RevokePermitsType DEF CancelRun
  <2>2. session' \in [Attempts -> SessionRow] /\ lease' \in [Attempts -> LeaseRow]
    BY <1>3, CloseSessionsType DEF CancelRun
  <2>3. guard' \in [Runs -> {"NONE", "HELD", "RELEASED"}]
    BY <1>3, GuardsAfterType DEF CancelRun
  <2>4. operations' \subseteq OperationRow
    BY <1>3 DEF CancelRun, TypeOK, OperationRow
  <2>5. runState' \in [Runs -> RunStates] /\ waitingReason' \in [Runs -> WaitingReasons]
    BY <1>3 DEF CancelRun, SetRun, TypeOK, RunStates, WaitingReasons
  <2>6. intents' \subseteq Attempts \X {"CANCEL_ATTEMPT", "CHECKPOINT_AND_TERMINATE"}
    BY <1>3 DEF CancelRun, TypeOK, AttemptsOf
  <2> QED BY <1>3, <2>1, <2>2, <2>3, <2>4, <2>5, <2>6
          DEF CancelRun, TypeOK, recordVars, outsideVars, revocationVars
<1>4. ASSUME NEW r \in Runs, NEW g \in Runs, LaunchOverriding(r, g) PROVE TypeOK'
  BY <1>4, CreateRunType DEF LaunchOverriding, TypeOK
<1>5. ASSUME NEW r \in Runs, NEW g \in Runs, AcknowledgeCollision(g, r) PROVE TypeOK'
  BY <1>5 DEF AcknowledgeCollision, TypeOK, runVars, recordVars, outsideVars, revocationVars
<1>6. ASSUME NEW a \in Attempts, ExpirePermit(a) PROVE TypeOK'
  BY <1>6 DEF ExpirePermit, SetPermit, KeepsAllButPermit, TypeOK, PermitRow, runVars, guardVars,
         recordVars, outsideVars, revocationVars
<1>7. ASSUME NEW a \in Attempts, DenyPermit(a) PROVE TypeOK'
  BY <1>7 DEF DenyPermit, SetPermit, KeepsAllButPermit, TypeOK, PermitRow, runVars, guardVars,
         recordVars, outsideVars, revocationVars
<1>8. ASSUME NEW a \in Attempts, ConsumePermit(a) PROVE TypeOK'
  <2> DEFINE expires == Least(now + SessionSeconds, Deadline)
  <2>1. expires \in Nat /\ LeaseUntil(expires) \in Nat
    BY <1>8 DEF Least, LeaseUntil, TypeOK
  <2> HIDE DEF expires
  <2>2. session' \in [Attempts -> SessionRow]
    <3> DEFINE row == [state |-> "ACTIVE", fence |-> 1, expires |-> expires]
    <3>1. row \in SessionRow /\ session \in [Attempts -> SessionRow]
      BY <2>1 DEF SessionRow, TypeOK
    <3>2. session' = [session EXCEPT ![a] = row]
      BY <1>8 DEF ConsumePermit, OpenSession, expires
    <3> HIDE DEF row
    <3> QED BY <3>1, <3>2
  <2>3. lease' \in [Attempts -> LeaseRow]
    <3> DEFINE row == [state |-> "ACTIVE", fence |-> 1, expires |-> expires,
                       grace |-> LeaseUntil(expires)]
    <3>1. row \in LeaseRow /\ lease \in [Attempts -> LeaseRow]
      BY <2>1 DEF LeaseRow, TypeOK
    <3>2. lease' = lease \/ lease' = [lease EXCEPT ![a] = row]
      BY <1>8 DEF ConsumePermit, OpenSession, expires
    <3> HIDE DEF row
    <3> QED BY <3>1, <3>2
  <2>4. permit' \in [Attempts -> PermitRow]
    <3> DEFINE row == [permit[a] EXCEPT !.state = "CONSUMED"]
    <3>1. row \in PermitRow /\ permit \in [Attempts -> PermitRow]
      BY <1>8 DEF TypeOK, PermitRow
    <3>2. permit' = [permit EXCEPT ![a] = row]
      BY <1>8 DEF ConsumePermit, SetPermit
    <3> HIDE DEF row
    <3> QED BY <3>1, <3>2
  <2>5. UNCHANGED <<now, runVars, attemptCount, attemptState, guardVars, operations, recordVars,
                    intents, outsideVars, revocationVars, runEpoch>>
    BY <1>8 DEF ConsumePermit
  <2> QED BY <2>2, <2>3, <2>4, <2>5
          DEF TypeOK, runVars, guardVars, recordVars, outsideVars, revocationVars
<1>9. ASSUME NEW a \in Attempts, RenewSession(a) PROVE TypeOK'
  <2> DEFINE expires == Least(now + SessionSeconds, Deadline)
  <2>1. expires \in Nat /\ LeaseUntil(expires) \in Nat
    BY <1>9 DEF Least, LeaseUntil, TypeOK
  <2> HIDE DEF expires
  <2> DEFINE s == [session[a] EXCEPT !.fence = session[a].fence + 1, !.expires = expires]
             l == [lease[a] EXCEPT !.fence = lease[a].fence + 1, !.expires = expires,
                                   !.grace = LeaseUntil(expires)]
  <2>2. session[a] \in SessionRow /\ lease[a] \in LeaseRow
    BY <1>9 DEF TypeOK
  <2>3. s \in SessionRow /\ l \in LeaseRow
    <3>1. session[a].fence + 1 \in Nat /\ lease[a].fence + 1 \in Nat
      BY <2>2 DEF SessionRow, LeaseRow
    <3>2. s \in SessionRow
      BY <2>1, <2>2, <3>1 DEF SessionRow
    <3>3. l \in LeaseRow
      BY <2>1, <2>2, <3>1 DEF LeaseRow
    <3> QED BY <3>2, <3>3
  <2>4. session' = [session EXCEPT ![a] = s]
    BY <1>9 DEF RenewSession, expires
  <2>5. lease' = [lease EXCEPT ![a] = l] \/ lease' = lease
    BY <1>9 DEF RenewSession, expires
  <2> HIDE DEF s, l
  <2>6. session' \in [Attempts -> SessionRow] /\ lease' \in [Attempts -> LeaseRow]
    BY <1>9, <2>3, <2>4, <2>5 DEF TypeOK
  <2> QED BY <1>9, <2>6 DEF RenewSession, TypeOK, runVars, guardVars, recordVars,
                            outsideVars, revocationVars
<1>10. ASSUME NEW a \in Attempts, ReleaseSession(a) PROVE TypeOK'
  BY <1>10, CloseSessionsType DEF ReleaseSession, TypeOK, runVars, guardVars, recordVars,
                                  outsideVars,
                           revocationVars
<1>11. ASSUME NEW a \in Attempts, NEW k \in OperationKinds, AuthorizeOperation(a, k) PROVE TypeOK'
  <2>1. operations' \subseteq OperationRow
    BY <1>11 DEF AuthorizeOperation, TypeOK, OperationRow, LeaseFence, Least, SessionRow, LeaseRow
  <2> QED BY <1>11, <2>1 DEF AuthorizeOperation, KeepsAllButOperations, TypeOK, runVars, guardVars,
                      recordVars, outsideVars, revocationVars
<1>12. ASSUME NEW o \in operations, ConsumeOperation(o) PROVE TypeOK'
  <2>1. operations' \subseteq OperationRow
    BY <1>12 DEF ConsumeOperation, Replaces, TypeOK, OperationRow
  <2> QED BY <1>12, <2>1 DEF ConsumeOperation, KeepsAllButOperations, TypeOK, runVars, guardVars,
                      recordVars, outsideVars, revocationVars
<1>13. ASSUME NEW o \in operations, ExpireOperation(o) PROVE TypeOK'
  <2>1. operations' \subseteq OperationRow
    BY <1>13 DEF ExpireOperation, Replaces, TypeOK, OperationRow
  <2> QED BY <1>13, <2>1 DEF ExpireOperation, KeepsAllButOperations, TypeOK, runVars, guardVars,
                      recordVars, outsideVars, revocationVars
<1>14. ASSUME NEW a \in Attempts, NEW e \in AttemptEvents, NEW late \in BOOLEAN,
              AttemptEvent(a, e, late)
       PROVE  TypeOK'
  <2> DEFINE mid == CASE e = "PROCESS_STARTED" -> "RUNNING"
                      [] e \in {"LOST", "FAILED_TO_START"} -> "WAITING"
                      [] OTHER -> runState[a[1]]
             reason == CASE e = "PROCESS_STARTED" -> "NONE"
                         [] e \in {"LOST", "FAILED_TO_START"} -> "RETRY"
                         [] OTHER -> waitingReason[a[1]]
             next == NextAttempt(attemptState[a], e)
  <2>1. MoveAttempt(a, next, mid, reason, late)
    BY <1>14 DEF AttemptEvent
  <2>2. a[1] \in Runs
    BY <1>14 DEF Attempts
  <2>3. mid \in RunStates /\ reason \in WaitingReasons
    BY <1>14, <2>2 DEF TypeOK, RunStates, WaitingReasons
  <2>4. next \in AttemptStates
    BY <1>14 DEF NextAttempt, AttemptStates, ActiveAttempt, TerminalAttempt
  <2> HIDE DEF mid, reason, next
  <2> QED BY <2>1, <2>3, <2>4, MoveAttemptType
<1>15. ASSUME NEW a \in Attempts, NEW s \in Observations, NEW late \in BOOLEAN,
              ReconcileAttempt(a, s, late)
       PROVE  TypeOK'
  <2>1. PICK next \in {"RUNNING", "CANCELLED", "LOST"} :
           \/ MoveAttempt(a, next, "RUNNING", "NONE", late)
           \/ MoveAttempt(a, next, "WAITING", "RETRY", late)
    BY <1>15 DEF ReconcileAttempt
  <2>2. next \in AttemptStates
    BY <1>15 DEF AttemptStates, ActiveAttempt, TerminalAttempt
  <2>3. {"RUNNING", "WAITING"} \subseteq RunStates /\ {"NONE", "RETRY"} \subseteq WaitingReasons
    BY <1>15 DEF RunStates, WaitingReasons
  <2> QED BY <2>1, <2>2, <2>3, MoveAttemptType
<1>16. ASSUME NEW a \in Attempts, NEW c \in CheckpointReasons, RecordCheckpoint(a, c)
       PROVE  TypeOK'
  <2>1. runState' \in [Runs -> RunStates] /\ waitingReason' \in [Runs -> WaitingReasons]
    BY <1>16 DEF RecordCheckpoint, SetRun, TypeOK, RunStates, WaitingReasons
  <2>2. session' \in [Attempts -> SessionRow] /\ lease' \in [Attempts -> LeaseRow]
    BY <1>16, CloseSessionsType DEF RecordCheckpoint
  <2> QED BY <1>16, <2>1, <2>2 DEF RecordCheckpoint, TypeOK, guardVars, recordVars, outsideVars,
                            revocationVars
<1>17. ASSUME NEW a \in Attempts, NEW k \in Reported, RecordRunResult(a, k) PROVE TypeOK'
  <2> DEFINE mid == IF k \in Delivered THEN runState[a[1]] ELSE "WAITING"
             reason == CASE k = "BLOCKED" -> "BLOCKED"
                         [] k = "ESCALATED" -> "HUMAN_INPUT"
                         [] OTHER -> waitingReason[a[1]]
  <2>1. a[1] \in Runs
    BY <1>17 DEF Attempts
  <2>2. mid \in RunStates /\ reason \in WaitingReasons
    BY <1>17, <2>1 DEF TypeOK, RunStates, WaitingReasons
  <2>3. Finalize(a[1], mid, reason, attemptState[Latest(a[1])],
                 IF a = Latest(a[1]) THEN k ELSE result[Latest(a[1])], now >= Deadline)
    BY <1>17 DEF RecordRunResult
  <2> HIDE DEF mid, reason
  <2>4. /\ runState' \in [Runs -> RunStates]
        /\ waitingReason' \in [Runs -> WaitingReasons]
        /\ guard' \in [Runs -> {"NONE", "HELD", "RELEASED"}]
        /\ overrides' = overrides
    BY <1>17, <2>1, <2>2, <2>3, FinalizeType
  <2>5. result' \in [Attempts -> ResultKinds \cup {"NONE"}]
    BY <1>17 DEF RecordRunResult, TypeOK, ResultKinds, Delivered
  <2> QED BY <1>17, <2>4, <2>5 DEF RecordRunResult, TypeOK, outsideVars, revocationVars
<1>18. ASSUME NEW r \in Runs, NEW h \in DeliveredHeads, RecordDiff(r, h) PROVE TypeOK'
  <2> DEFINE row == [evidence[r] EXCEPT !.diff = h]
  <2>1. evidence[r] \in EvidenceRow /\ h \in Heads
    BY <1>18 DEF TypeOK
  <2>2. row \in EvidenceRow
    BY <1>18, <2>1 DEF EvidenceRow
  <2>3. evidence' = [evidence EXCEPT ![r] = row]
    BY <1>18 DEF RecordDiff
  <2> HIDE DEF row
  <2>4. evidence' \in [Runs -> EvidenceRow]
    BY <1>18, <2>2, <2>3 DEF TypeOK
  <2> QED BY <1>18, <2>4 DEF RecordDiff, RecordEvidence, TypeOK, runVars, guardVars,
                             outsideVars,
                      revocationVars
<1>19. ASSUME NEW r \in Runs, NEW h \in DeliveredHeads, RecordPublication(r, h) PROVE TypeOK'
  <2> DEFINE row == [evidence[r] EXCEPT !.published = h]
  <2>1. evidence[r] \in EvidenceRow /\ h \in Heads
    BY <1>19 DEF TypeOK
  <2>2. row \in EvidenceRow
    BY <1>19, <2>1 DEF EvidenceRow
  <2>3. evidence' = [evidence EXCEPT ![r] = row]
    BY <1>19 DEF RecordPublication
  <2> HIDE DEF row
  <2>4. evidence' \in [Runs -> EvidenceRow]
    BY <1>19, <2>2, <2>3 DEF TypeOK
  <2> QED BY <1>19, <2>4 DEF RecordPublication, RecordEvidence, TypeOK, runVars, guardVars,
                             outsideVars,
                      revocationVars
<1>20. ASSUME NEW r \in Runs, NEW h \in Heads, NEW g \in Gates, NEW outcome \in {"PASSED",
              "FAILED"}, RecordGate(r, h, g, outcome)
       PROVE  TypeOK'
  <2> DEFINE gates == [evidence[r].gates EXCEPT ![<<h, g>>] = outcome]
             row == [evidence[r] EXCEPT !.gates = gates]
  <2>1. evidence[r] \in EvidenceRow
    BY <1>20 DEF TypeOK
  <2>2. gates \in [Heads \X Gates -> {"NONE", "PASSED", "FAILED"}]
    BY <1>20, <2>1 DEF EvidenceRow
  <2>3. evidence' = [evidence EXCEPT ![r] = row]
    BY <1>20 DEF RecordGate
  <2> HIDE DEF gates
  <2>4. row \in EvidenceRow
    BY <1>20, <2>1, <2>2 DEF EvidenceRow
  <2> HIDE DEF row
  <2>5. evidence' \in [Runs -> EvidenceRow]
    BY <1>20, <2>3, <2>4 DEF TypeOK
  <2> QED BY <1>20, <2>5 DEF RecordGate, RecordEvidence, TypeOK, runVars, guardVars,
                             outsideVars,
                      revocationVars
<1>21. ASSUME NEW s \in RevocationKinds, ApplyRevocation(s) PROVE TypeOK'
  <2>1. Affected(s) \in SUBSET Attempts
    BY <1>21 DEF Affected, ActiveAttempts, AllRevocationKinds, EpochSources, MemberRoles
  <2>2. revoked' \in [EpochSources -> Nat]
    BY <1>21 DEF ApplyRevocation, TypeOK, SourceEpoch, EpochSources, MemberRoles
  <2>3. CASE s = "EXPOSURE"
    BY <1>21, <2>2, <2>3, RevokePermitsType
       DEF ApplyRevocation, TypeOK, runVars, guardVars, recordVars, outsideVars
  <2>4. CASE s # "EXPOSURE"
    BY <1>21, <2>1, <2>2, <2>4, WithdrawType
       DEF ApplyRevocation, TypeOK, guardVars, recordVars, outsideVars
  <2> QED BY <2>3, <2>4
<1>22. ASSUME NEW r \in RevocableRuns, RevokeRun(r) PROVE TypeOK'
  <2>1. AttemptsOf(r) \cap ActiveAttempts \in SUBSET Attempts
    BY <1>22 DEF AttemptsOf
  <2> QED BY <1>22, <2>1, WithdrawType DEF RevokeRun, TypeOK, guardVars, recordVars, outsideVars
<1>23. ASSUME ReplaceRunnerPolicy PROVE TypeOK'
  BY <1>23, RevokePermitsType DEF ReplaceRunnerPolicy, KeepsOwnState, TypeOK, runVars, guardVars,
                                  recordVars, revocationVars
<1>24. ASSUME ChangeRunnerFacts PROVE TypeOK'
  BY <1>24 DEF ChangeRunnerFacts, KeepsOwnState, TypeOK, runVars, guardVars, recordVars,
               revocationVars
<1>25. ASSUME RevokeRunner PROVE TypeOK'
  BY <1>25 DEF RevokeRunner, KeepsOwnState, TypeOK, runVars, guardVars, recordVars, revocationVars
<1>26. ASSUME AdvanceConnectorEpoch PROVE TypeOK'
  BY <1>26 DEF AdvanceConnectorEpoch, KeepsOwnState, TypeOK, runVars, guardVars, recordVars,
               revocationVars
<1>27. ASSUME NEW m \in Removable, RemoveMember(m) PROVE TypeOK'
  BY <1>27 DEF RemoveMember, KeepsOwnState, TypeOK, runVars, guardVars, recordVars, revocationVars
<1>28. ASSUME Tick PROVE TypeOK'
  BY <1>28 DEF Tick, KeepsOwnState, TypeOK, outsideVars, runVars, guardVars, recordVars,
               revocationVars
<1>29. CASE UNCHANGED vars
  BY <1>29 DEF TypeOK, vars
<1> QED BY <1>1, <1>2, <1>3, <1>4, <1>5, <1>6, <1>7, <1>8, <1>9, <1>10, <1>11, <1>12, <1>13, <1>14, <1>15,
          <1>16, <1>17, <1>18, <1>19, <1>20, <1>21, <1>22, <1>23, <1>24, <1>25, <1>26, <1>27, <1>28, <1>29
   DEF Next, RunStep, AuthorityStep, ReportStep, RevocationStep, OutsideStep

\* Every variable keeps its type, whatever the commands.
THEOREM TypeCorrect == Spec => []TypeOK
<1>1. Init => TypeOK
  BY ConstantsAssumption
     DEF Init, TypeOK, RunStates, WaitingReasons, AttemptStates, NoPermit, NoSession, NoLease,
         NoEvidence, PermitRow, SessionRow, LeaseRow, EvidenceRow
<1> QED BY <1>1, TypeStep, PTL DEF Spec

--------------------------------------------------------------------------------
(* Attempts: the rows of a run follow one another *)

\* The inductive form of AttemptsSequential: attempts are numbered as the run
\* counts them, and only rows that exist have permits and sessions.
AttemptsNumbered ==
    /\ \A a \in Attempts : attemptState[a] # "NONE" <=> a[2] <= attemptCount[a[1]]
    /\ \A r \in Runs : runState[r] = "NONE" <=> attemptCount[r] = 0
AuthorityHasAttempt ==
    \A a \in Attempts :
        permit[a].state # "NONE" \/ session[a].state # "NONE" => attemptState[a] # "NONE"
AttemptsInv == TypeOK /\ AttemptsNumbered /\ AuthorityHasAttempt /\ AttemptsSequential

\* A step that creates no permit and no session.
CreatesNoAuthority ==
    \A a \in Attempts :
        /\ permit'[a].state # "NONE" => permit[a].state # "NONE"
        /\ session'[a].state # "NONE" => session[a].state # "NONE"

\* Ending sessions makes none.
LEMMA CloseSessionsKeeps ==
    ASSUME NEW S, NEW s, TypeOK, CloseSessions(S, s), NEW a \in Attempts,
           session[a].state = "NONE"
    PROVE  session'[a].state = "NONE"
BY DEF CloseSessions, TypeOK, SessionRow

\* Revoking permits makes none.
LEMMA RevokePermitsKeeps ==
    ASSUME NEW S, TypeOK, RevokePermits(S), NEW a \in Attempts, permit[a].state = "NONE"
    PROVE  permit'[a].state = "NONE"
BY DEF RevokePermits, TypeOK, PermitRow

\* A step that moves no attempt, and no run to or from "NONE", COMPLETED or
\* FAILED, keeps the attempts in order.
LEMMA AttemptsKept ==
    ASSUME AttemptsInv, CreatesNoAuthority, UNCHANGED <<attemptCount, attemptState>>, TypeOK',
           \A r \in Runs : \/ runState'[r] = runState[r]
                           \/ Unfinished(r) /\ runState'[r] \in {"WAITING", "CANCELLED"}
    PROVE  AttemptsInv'
<1>1. AttemptsNumbered'
  BY DEF AttemptsInv, AttemptsNumbered, Unfinished, Launched, Attempts
<1>2. AuthorityHasAttempt'
  BY DEF AttemptsInv, AuthorityHasAttempt, CreatesNoAuthority
<1>3. AttemptsSequential'
  BY DEF AttemptsInv, AttemptsSequential, Latest, Attempts
<1> QED BY <1>1, <1>2, <1>3 DEF AttemptsInv

\* A launch creates the first attempt of a run that has none.
LEMMA CreateRunAttempts ==
    ASSUME NEW r \in Runs, AttemptsInv, CreateRun(r), TypeOK'
    PROVE  AttemptsInv'
<1>1. /\ runState' = [runState EXCEPT ![r] = "QUEUED"]
      /\ attemptCount' = [attemptCount EXCEPT ![r] = 1]
      /\ attemptState' = [attemptState EXCEPT ![<<r, 1>>] = "PENDING"]
      /\ \A a \in Attempts : a # <<r, 1>> => permit'[a] = permit[a]
      /\ session' = session
      /\ runState[r] = "NONE"
  BY DEF CreateRun, SetRun, IssueAttempt, IssuedPermit, AttemptsInv, TypeOK
<1>2. attemptCount[r] = 0 /\ <<r, 1>> \in Attempts
  BY <1>1, ConstantsAssumption DEF AttemptsInv, AttemptsNumbered, Attempts
<1>3. \A a \in Attempts : a[1] = r => attemptState[a] = "NONE"
  BY <1>2 DEF AttemptsInv, AttemptsNumbered, Attempts
<1>4. \A a \in Attempts : a[1] \in Runs /\ a[2] \in 1 .. MaximumAttempts /\ a = <<a[1], a[2]>>
  BY DEF Attempts
<1>5. AttemptsNumbered'
  BY <1>1, <1>2, <1>3, <1>4, ConstantsAssumption DEF AttemptsInv, AttemptsNumbered, TypeOK
<1>6. AuthorityHasAttempt'
  BY <1>1, <1>2 DEF AttemptsInv, AuthorityHasAttempt, TypeOK
<1>7. AttemptsSequential'
  BY <1>1, <1>2, <1>3, <1>4
     DEF AttemptsInv, AttemptsSequential, TypeOK, Latest, ActiveAttempt
<1> QED BY <1>5, <1>6, <1>7 DEF AttemptsInv

\* A further attempt is created only when no earlier one is active.
LEMMA AuthorizeAttemptAttempts ==
    ASSUME NEW r \in Runs, AttemptsInv, AuthorizeAttempt(r), TypeOK'
    PROVE  AttemptsInv'
<1> DEFINE n == attemptCount[r] + 1
           b == <<r, n>>
<1>1. n \in 1 .. MaximumAttempts /\ b \in Attempts
  BY DEF AuthorizeAttempt, BeginAttempt, BudgetLeft, AttemptsInv, TypeOK, Attempts
<1>2. /\ runState' = [runState EXCEPT ![r] = "RUNNING"]
      /\ attemptCount' = [attemptCount EXCEPT ![r] = n]
      /\ attemptState' = [attemptState EXCEPT ![b] = "PENDING"]
      /\ \A a \in Attempts : a # b => permit'[a] = permit[a]
      /\ session' = session
      /\ runState[r] # "NONE"
      /\ \A a \in Attempts : a[1] = r => attemptState[a] \notin ActiveAttempt
  BY DEF AuthorizeAttempt, BeginAttempt, SetRun, IssueAttempt, IssuedPermit, AttemptsInv, TypeOK, HasActiveAttempt, AttemptsOf
<1>3. \A a \in Attempts : a[1] \in Runs /\ a[2] \in 1 .. MaximumAttempts /\ a = <<a[1], a[2]>>
  BY DEF Attempts
<1>4. attemptCount[r] \in Nat /\ \A q \in Runs : attemptCount[q] \in Nat
  BY DEF AttemptsInv, TypeOK
<1> HIDE DEF b
<1>5. b[1] = r /\ b[2] = n
  BY DEF b
<1>6. AttemptsNumbered'
  <2>1. ASSUME NEW a \in Attempts PROVE attemptState'[a] # "NONE" <=> a[2] <= attemptCount'[a[1]]
    <3>1. CASE a = b
      BY <1>1, <1>2, <1>5, <3>1 DEF AttemptsInv, TypeOK
    <3>2. CASE a # b /\ a[1] = r
      <4>1. a[2] # n
        BY <1>3, <3>2 DEF b
      <4>2. a[2] <= attemptCount[r] <=> a[2] <= n
        BY <4>1, <1>3, <1>4
      <4> QED BY <1>2, <1>4, <3>2, <4>2 DEF AttemptsInv, AttemptsNumbered, TypeOK
    <3>3. CASE a[1] # r
      BY <1>2, <1>3, <1>5, <3>3 DEF AttemptsInv, AttemptsNumbered, TypeOK
    <3> QED BY <3>1, <3>2, <3>3
  <2>2. \A q \in Runs : runState'[q] = "NONE" <=> attemptCount'[q] = 0
    BY <1>1, <1>2 DEF AttemptsInv, AttemptsNumbered, TypeOK
  <2> QED BY <2>1, <2>2 DEF AttemptsNumbered
<1>7. AuthorityHasAttempt'
  BY <1>1, <1>2 DEF AttemptsInv, AuthorityHasAttempt, TypeOK
<1>8. AttemptsSequential'
  <2> SUFFICES ASSUME NEW a \in Attempts, attemptState'[a] \in ActiveAttempt
               PROVE  a = <<a[1], attemptCount'[a[1]]>>
                      /\ runState'[a[1]] \notin {"COMPLETED", "FAILED", "NONE"}
    BY DEF AttemptsSequential, Latest
  <2>1. CASE a[1] = r
    <3>1. a = b
      BY <1>2, <2>1
    <3> QED BY <1>2, <1>5, <3>1, <2>1 DEF b, AttemptsInv, TypeOK
  <2>2. CASE a[1] # r
    BY <1>2, <1>3, <1>5, <2>2 DEF AttemptsInv, AttemptsSequential, Latest, TypeOK
  <2> QED BY <2>1, <2>2
<1> QED BY <1>6, <1>7, <1>8 DEF AttemptsInv

\* Finalizing a run completes or fails it only if its latest attempt has ended.
LEMMA FinalizeAttempts ==
    ASSUME NEW r \in Runs, NEW mid \in RunStates \ {"NONE"}, NEW reason, NEW att, NEW res, NEW late,
           TypeOK, Finalize(r, mid, reason, att, res, late)
    PROVE  /\ \A q \in Runs \ {r} : runState'[q] = runState[q]
           /\ runState'[r] # "NONE"
           /\ \/ runState'[r] = mid
              \/ runState'[r] \notin {"COMPLETED", "FAILED"}
              \/ att \in TerminalAttempt
<1> DEFINE next == FinalState(r, mid, att, res, late)
<1>1. runState' = [runState EXCEPT ![r] = next]
  BY DEF Finalize, SetRun
<1>2. /\ next # "NONE"
      /\ next = mid \/ next \notin {"COMPLETED", "FAILED"} \/ att \in TerminalAttempt
  BY DEF FinalState, TerminalAttempt
<1> QED BY <1>1, <1>2 DEF TypeOK

\* An attempt moves only while it is active, and its run with it.
LEMMA MoveAttemptAttempts ==
    ASSUME NEW a \in Attempts, NEW next \in ActiveAttempt \cup TerminalAttempt,
           NEW mid \in RunStates \ {"NONE", "COMPLETED", "FAILED"}, NEW reason, NEW late,
           AttemptsInv, TypeOK', attemptState[a] \in ActiveAttempt,
           MoveAttempt(a, next, mid, reason, late)
    PROVE  AttemptsInv'
<1> DEFINE r == a[1]
           att == IF a = Latest(r) THEN next ELSE attemptState[Latest(r)]
<1>1. a[1] \in Runs /\ a[2] \in 1 .. MaximumAttempts /\ a = <<a[1], a[2]>>
  BY DEF Attempts
<1>2. a = Latest(r) /\ att = next
  BY DEF AttemptsInv, AttemptsSequential
<1>3. /\ attemptState' = [attemptState EXCEPT ![a] = next]
      /\ attemptCount' = attemptCount
      /\ permit' = permit
      /\ Finalize(r, mid, reason, att, result[Latest(r)], late)
  BY DEF MoveAttempt
<1> HIDE DEF att
<1>4. /\ \A q \in Runs \ {r} : runState'[q] = runState[q]
      /\ runState'[r] # "NONE"
      /\ runState'[r] \notin {"COMPLETED", "FAILED"} \/ next \in TerminalAttempt
  BY <1>1, <1>2, <1>3, FinalizeAttempts DEF AttemptsInv
<1>5. CreatesNoAuthority
  BY <1>3, CloseSessionsKeeps DEF CreatesNoAuthority, MoveAttempt, AttemptsInv
<1>6. attemptState[a] # "NONE" /\ next # "NONE"
  BY DEF ActiveAttempt, TerminalAttempt
<1>7. runState[r] # "NONE"
  BY <1>1 DEF AttemptsInv, AttemptsSequential
<1>8. AttemptsNumbered'
  <2>1. \A b \in Attempts : attemptState'[b] # "NONE" <=> attemptState[b] # "NONE"
    BY <1>3, <1>6 DEF AttemptsInv, TypeOK
  <2>2. \A q \in Runs : runState'[q] = "NONE" <=> runState[q] = "NONE"
    BY <1>4, <1>7
  <2> QED BY <1>3, <2>1, <2>2 DEF AttemptsInv, AttemptsNumbered
<1>9. AuthorityHasAttempt'
  BY <1>3, <1>5, <1>6 DEF AttemptsInv, AuthorityHasAttempt, CreatesNoAuthority, TypeOK
<1>10. AttemptsSequential'
  <2> SUFFICES ASSUME NEW b \in Attempts, attemptState'[b] \in ActiveAttempt
               PROVE  /\ b = Latest(b[1])
                      /\ runState'[b[1]] \notin {"COMPLETED", "FAILED", "NONE"}
    BY <1>3 DEF AttemptsSequential, Latest
  <2>1. attemptState[b] \in ActiveAttempt
    BY <1>3 DEF AttemptsInv, TypeOK
  <2>2. b = Latest(b[1]) /\ runState[b[1]] \notin {"COMPLETED", "FAILED", "NONE"}
    BY <2>1 DEF AttemptsInv, AttemptsSequential
  <2>3. CASE b[1] = r
    <3>1. b = a
      BY <1>2, <2>2, <2>3
    <3>2. next \in ActiveAttempt
      BY <1>3, <3>1 DEF AttemptsInv, TypeOK
    <3> QED BY <1>4, <2>2, <2>3, <3>2 DEF ActiveAttempt, TerminalAttempt
  <2>4. CASE b[1] # r
    BY <1>4, <2>2, <2>4 DEF Attempts
  <2> QED BY <2>3, <2>4
<1> QED BY <1>8, <1>9, <1>10 DEF AttemptsInv

\* AttemptsInv is inductive.
LEMMA AttemptsStep == AttemptsInv /\ [Next]_vars => AttemptsInv'
<1> SUFFICES ASSUME AttemptsInv, [Next]_vars PROVE AttemptsInv'
  OBVIOUS
<1>1. TypeOK /\ TypeOK'
  BY TypeStep DEF AttemptsInv
<1>2. ASSUME NEW r \in Runs, LaunchRun(r) PROVE AttemptsInv'
  BY <1>1, <1>2, CreateRunAttempts DEF LaunchRun
<1>3. ASSUME NEW r \in Runs, NEW g \in Runs, LaunchOverriding(r, g) PROVE AttemptsInv'
  BY <1>1, <1>3, CreateRunAttempts DEF LaunchOverriding
<1>4. ASSUME NEW r \in Runs, AuthorizeAttempt(r) PROVE AttemptsInv'
  BY <1>1, <1>4, AuthorizeAttemptAttempts
<1>5. ASSUME NEW r \in Runs, CancelRun(r) PROVE AttemptsInv'
  <2>1. CreatesNoAuthority
    BY <1>1, <1>5, CloseSessionsKeeps, RevokePermitsKeeps DEF CancelRun, CreatesNoAuthority
  <2>2. \A q \in Runs : runState'[q] = runState[q] \/ (Unfinished(q) /\ runState'[q] = "CANCELLED")
    BY <1>1, <1>5 DEF CancelRun, SetRun, Unfinished, Launched, TypeOK
  <2> QED BY <1>1, <1>5, <2>1, <2>2, AttemptsKept DEF CancelRun
<1>6. ASSUME UNCHANGED <<runState, attemptCount, attemptState>>, CreatesNoAuthority
      PROVE  AttemptsInv'
  BY <1>1, <1>6, AttemptsKept
<1>7. ASSUME NEW r \in Runs, NEW g \in Runs, AcknowledgeCollision(g, r) PROVE AttemptsInv'
  BY <1>6, <1>7 DEF AcknowledgeCollision, CreatesNoAuthority, runVars
<1>8. ASSUME NEW a \in Attempts, ExpirePermit(a) \/ DenyPermit(a) PROVE AttemptsInv'
  <2>1. CreatesNoAuthority
    BY <1>1, <1>8 DEF ExpirePermit, DenyPermit, SetPermit, KeepsAllButPermit, CreatesNoAuthority,
                      TypeOK, PermitRow
  <2> QED BY <1>6, <1>8, <2>1 DEF ExpirePermit, DenyPermit, KeepsAllButPermit, runVars
<1>9. ASSUME NEW a \in Attempts, ConsumePermit(a) PROVE AttemptsInv'
  <2>1. permit[a].state = "ISSUED" /\ UNCHANGED <<runState, attemptCount, attemptState>>
    BY <1>9 DEF ConsumePermit, OpenSession, runVars
  <2>2. attemptState[a] # "NONE"
    BY <2>1 DEF AttemptsInv, AuthorityHasAttempt
  <2>3. \A b \in Attempts : b # a => permit'[b] = permit[b] /\ session'[b] = session[b]
    BY <1>1, <1>9 DEF ConsumePermit, OpenSession, SetPermit, TypeOK
  <2>4. AuthorityHasAttempt'
    BY <2>1, <2>2, <2>3 DEF AttemptsInv, AuthorityHasAttempt
  <2>5. AttemptsNumbered' /\ AttemptsSequential'
    BY <2>1 DEF AttemptsInv, AttemptsNumbered, AttemptsSequential, Latest
  <2> QED BY <1>1, <2>4, <2>5 DEF AttemptsInv
<1>10. ASSUME NEW a \in Attempts, RenewSession(a) PROVE AttemptsInv'
  <2>1. CreatesNoAuthority
    BY <1>1, <1>10 DEF RenewSession, SessionUsable, CreatesNoAuthority, TypeOK
  <2> QED BY <1>6, <1>10, <2>1 DEF RenewSession, runVars
<1>11. ASSUME NEW a \in Attempts, ReleaseSession(a) PROVE AttemptsInv'
  <2>1. CreatesNoAuthority
    BY <1>1, <1>11, CloseSessionsKeeps DEF ReleaseSession, CreatesNoAuthority
  <2> QED BY <1>6, <1>11, <2>1 DEF ReleaseSession, runVars
<1>12. ASSUME KeepsAllButOperations PROVE AttemptsInv'
  BY <1>6, <1>12 DEF KeepsAllButOperations, CreatesNoAuthority, runVars
<1>13. ASSUME NEW a \in Attempts, NEW e \in AttemptEvents, NEW late \in BOOLEAN,
              AttemptEvent(a, e, late)
       PROVE  AttemptsInv'
  <2> DEFINE mid == CASE e = "PROCESS_STARTED" -> "RUNNING"
                      [] e \in {"LOST", "FAILED_TO_START"} -> "WAITING"
                      [] OTHER -> runState[a[1]]
             reason == CASE e = "PROCESS_STARTED" -> "NONE"
                         [] e \in {"LOST", "FAILED_TO_START"} -> "RETRY"
                         [] OTHER -> waitingReason[a[1]]
             next == NextAttempt(attemptState[a], e)
  <2>1. MoveAttempt(a, next, mid, reason, late)
    BY <1>13 DEF AttemptEvent
  <2>2. next \in ActiveAttempt \cup TerminalAttempt /\ attemptState[a] \in ActiveAttempt
    BY <1>13 DEF AttemptEvent, NextAttempt, ActiveAttempt, TerminalAttempt
  <2>3. mid \in RunStates \ {"NONE", "COMPLETED", "FAILED"}
    BY <1>1, <2>2 DEF AttemptsInv, AttemptsSequential, TypeOK, RunStates, Attempts
  <2> HIDE DEF mid, reason, next
  <2> QED BY <1>1, <2>1, <2>2, <2>3, MoveAttemptAttempts
<1>14. ASSUME NEW a \in Attempts, NEW s \in Observations, NEW late \in BOOLEAN,
              ReconcileAttempt(a, s, late)
       PROVE  AttemptsInv'
  <2>1. PICK next \in {"RUNNING", "CANCELLED", "LOST"} :
           \/ MoveAttempt(a, next, "RUNNING", "NONE", late)
           \/ MoveAttempt(a, next, "WAITING", "RETRY", late)
    BY <1>14, ConstantsAssumption DEF ReconcileAttempt
  <2>2. next \in ActiveAttempt \cup TerminalAttempt /\ attemptState[a] \in ActiveAttempt
    BY <1>14 DEF ReconcileAttempt, ActiveAttempt, TerminalAttempt
  <2>3. {"RUNNING", "WAITING"} \subseteq RunStates \ {"NONE", "COMPLETED", "FAILED"}
    BY DEF RunStates
  <2> QED BY <1>1, <2>1, <2>2, <2>3, MoveAttemptAttempts
<1>15. ASSUME NEW a \in Attempts, NEW c \in CheckpointReasons, RecordCheckpoint(a, c)
       PROVE  AttemptsInv'
  <2>1. a[1] \in Runs /\ a[2] \in 1 .. MaximumAttempts
    BY DEF Attempts
  <2>2. Unfinished(a[1])
    BY <1>1, <1>15, <2>1
       DEF RecordCheckpoint, Writable, Unfinished, Launched, AttemptsInv, AttemptsNumbered, TypeOK
  <2>3. CreatesNoAuthority
    BY <1>1, <1>15, CloseSessionsKeeps DEF RecordCheckpoint, CreatesNoAuthority
  <2>4. \A q \in Runs : runState'[q] = runState[q] \/ (Unfinished(q) /\ runState'[q] = "WAITING")
    BY <1>1, <1>15, <2>2 DEF RecordCheckpoint, SetRun, TypeOK
  <2> QED BY <1>1, <1>15, <2>3, <2>4, AttemptsKept DEF RecordCheckpoint
<1>16. ASSUME NEW a \in Attempts, NEW k \in Reported, RecordRunResult(a, k) PROVE AttemptsInv'
  <2> DEFINE r == a[1]
             mid == IF k \in Delivered THEN runState[r] ELSE "WAITING"
             reason == CASE k = "BLOCKED" -> "BLOCKED"
                         [] k = "ESCALATED" -> "HUMAN_INPUT"
                         [] OTHER -> waitingReason[r]
             att == attemptState[Latest(r)]
             res == IF a = Latest(r) THEN k ELSE result[Latest(r)]
  <2>1. a[1] \in Runs /\ a[2] \in 1 .. MaximumAttempts
    BY DEF Attempts
  <2>2. attemptState[a] # "NONE" /\ runState[r] # "NONE"
    BY <1>1, <1>16, <2>1 DEF RecordRunResult, AttemptsInv, AttemptsNumbered, TypeOK
  <2>3. /\ Finalize(r, mid, reason, att, res, now >= Deadline)
        /\ UNCHANGED <<attemptCount, attemptState, permit, session>>
        /\ k \notin Delivered => runState[r] \notin TerminalRun
    BY <1>16 DEF RecordRunResult, Writable
  <2>4. mid \in RunStates \ {"NONE"}
    BY <1>1, <2>1, <2>2 DEF TypeOK, RunStates
  <2>5. mid \in {"COMPLETED", "FAILED"} => mid = runState[r]
    OBVIOUS
  <2> HIDE DEF mid, reason, att, res
  <2>6. /\ \A q \in Runs \ {r} : runState'[q] = runState[q]
        /\ runState'[r] # "NONE"
        /\ \/ runState'[r] = mid
           \/ runState'[r] \notin {"COMPLETED", "FAILED"}
           \/ att \in TerminalAttempt
    BY <1>1, <2>1, <2>3, <2>4, FinalizeAttempts
  <2>7. AttemptsNumbered'
    BY <2>2, <2>3, <2>6 DEF AttemptsInv, AttemptsNumbered
  <2>8. AuthorityHasAttempt'
    BY <2>3 DEF AttemptsInv, AuthorityHasAttempt
  <2>9. AttemptsSequential'
    <3> SUFFICES ASSUME NEW b \in Attempts, attemptState[b] \in ActiveAttempt
                 PROVE  /\ b = Latest(b[1])
                        /\ runState'[b[1]] \notin {"COMPLETED", "FAILED", "NONE"}
      BY <2>3 DEF AttemptsSequential, Latest
    <3>1. b = Latest(b[1]) /\ runState[b[1]] \notin {"COMPLETED", "FAILED", "NONE"}
      BY DEF AttemptsInv, AttemptsSequential
    <3>2. CASE b[1] = r
      <4>1. att \notin TerminalAttempt
        BY <3>1, <3>2 DEF att, ActiveAttempt, TerminalAttempt
      <4> QED BY <2>5, <2>6, <3>1, <3>2, <4>1
    <3>3. CASE b[1] # r
      BY <2>6, <3>1, <3>3 DEF Attempts
    <3> QED BY <3>2, <3>3
  <2> QED BY <1>1, <2>7, <2>8, <2>9 DEF AttemptsInv
<1>17. ASSUME NEW r \in Runs, RecordEvidence(r) PROVE AttemptsInv'
  BY <1>6, <1>17 DEF RecordEvidence, CreatesNoAuthority, runVars
<1>18. ASSUME NEW S \in SUBSET Attempts, Withdraw(S), UNCHANGED <<attemptCount, attemptState>>,
              \A a \in S : attemptState[a] # "NONE"
       PROVE  AttemptsInv'
  <2>1. CreatesNoAuthority
    BY <1>1, <1>18, CloseSessionsKeeps, RevokePermitsKeeps DEF Withdraw, CreatesNoAuthority
  <2>2. \A a \in S : runState[a[1]] # "NONE"
    BY <1>1, <1>18 DEF AttemptsInv, AttemptsNumbered, TypeOK, Attempts
  <2>3. \A q \in Runs : runState'[q] = runState[q] \/ (Unfinished(q) /\ runState'[q] = "WAITING")
    BY <1>18, <2>2 DEF Withdraw, Unfinished, Launched
  <2> QED BY <1>1, <1>18, <2>1, <2>3, AttemptsKept
<1>19. ASSUME NEW s \in RevocationKinds, ApplyRevocation(s) PROVE AttemptsInv'
  <2>1. CASE s = "EXPOSURE"
    <3>1. CreatesNoAuthority
      BY <1>1, <1>19, <2>1, RevokePermitsKeeps DEF ApplyRevocation, CreatesNoAuthority
    <3> QED BY <1>6, <1>19, <2>1, <3>1 DEF ApplyRevocation, runVars
  <2>2. CASE s # "EXPOSURE"
    <3>1. Affected(s) \in SUBSET Attempts
      BY ConstantsAssumption
         DEF Affected, ActiveAttempts, AllRevocationKinds, EpochSources, MemberRoles
    <3>2. \A a \in Affected(s) : attemptState[a] # "NONE"
      BY ConstantsAssumption, <2>2
         DEF Affected, ActiveAttempts, AllRevocationKinds, EpochSources, MemberRoles,
             ActiveAttempt, AttemptsInv, AuthorityHasAttempt
    <3> QED BY <1>18, <1>19, <2>2, <3>1, <3>2 DEF ApplyRevocation
  <2> QED BY <2>1, <2>2
<1>20. ASSUME NEW r \in RevocableRuns, RevokeRun(r) PROVE AttemptsInv'
  <2>1. /\ AttemptsOf(r) \cap ActiveAttempts \in SUBSET Attempts
        /\ \A a \in AttemptsOf(r) \cap ActiveAttempts : attemptState[a] # "NONE"
    BY DEF AttemptsOf, ActiveAttempts, ActiveAttempt
  <2> QED BY <1>18, <1>20, <2>1 DEF RevokeRun
<1>21. ASSUME ReplaceRunnerPolicy PROVE AttemptsInv'
  <2>1. CreatesNoAuthority
    BY <1>1, <1>21, RevokePermitsKeeps DEF ReplaceRunnerPolicy, KeepsOwnState, CreatesNoAuthority
  <2> QED BY <1>6, <1>21, <2>1 DEF ReplaceRunnerPolicy, KeepsOwnState, runVars
<1>22. ASSUME KeepsOwnState, UNCHANGED permit PROVE AttemptsInv'
  BY <1>6, <1>22 DEF KeepsOwnState, CreatesNoAuthority, runVars
<1>23. ASSUME NEW m \in Removable, RemoveMember(m) PROVE AttemptsInv'
  BY <1>22, <1>23 DEF RemoveMember
<1>24. ASSUME ChangeRunnerFacts \/ RevokeRunner \/ AdvanceConnectorEpoch \/ Tick
       PROVE  AttemptsInv'
  BY <1>22, <1>24 DEF ChangeRunnerFacts, RevokeRunner, AdvanceConnectorEpoch, Tick
<1>25. CASE UNCHANGED vars
  BY <1>6, <1>25 DEF vars, CreatesNoAuthority
<1>26. ASSUME NEW o \in operations, ConsumeOperation(o) \/ ExpireOperation(o) PROVE AttemptsInv'
  BY <1>12, <1>26 DEF ConsumeOperation, ExpireOperation
<1>27. ASSUME NEW a \in Attempts, NEW k \in OperationKinds, AuthorizeOperation(a, k)
       PROVE  AttemptsInv'
  BY <1>12, <1>27 DEF AuthorizeOperation
<1>28. ASSUME NEW r \in Runs, NEW h \in Heads, RecordDiff(r, h) \/ RecordPublication(r, h)
       PROVE  AttemptsInv'
  BY <1>17, <1>28 DEF RecordDiff, RecordPublication
<1>29. ASSUME NEW r \in Runs, NEW h \in Heads, NEW g \in Gates,
              NEW outcome \in {"PASSED", "FAILED"},
              RecordGate(r, h, g, outcome)
       PROVE  AttemptsInv'
  BY <1>17, <1>29 DEF RecordGate
<1>30. CASE RunStep
  BY <1>2, <1>3, <1>4, <1>5, <1>7, <1>30 DEF RunStep
<1>31. CASE AuthorityStep
  BY <1>8, <1>9, <1>10, <1>11, <1>26, <1>27, <1>31 DEF AuthorityStep
<1>32. CASE ReportStep
  BY <1>13, <1>14, <1>15, <1>16, <1>28, <1>29, <1>32, ConstantsAssumption DEF ReportStep
<1>33. CASE RevocationStep
  BY <1>19, <1>20, <1>33 DEF RevocationStep
<1>34. CASE OutsideStep
  BY <1>21, <1>23, <1>24, <1>34 DEF OutsideStep
<1> QED BY <1>25, <1>30, <1>31, <1>32, <1>33, <1>34 DEF Next

\* Before any launch there is no attempt.
LEMMA AttemptsInit == Init => AttemptsInv
<1> SUFFICES ASSUME Init PROVE AttemptsInv
  OBVIOUS
<1>1. TypeOK
  BY ConstantsAssumption
     DEF Init, TypeOK, RunStates, WaitingReasons, AttemptStates, NoPermit, NoSession, NoLease,
         NoEvidence, PermitRow, SessionRow, LeaseRow, EvidenceRow
<1>2. AttemptsNumbered
  BY ConstantsAssumption DEF Init, AttemptsNumbered, Attempts
<1>3. AuthorityHasAttempt /\ AttemptsSequential
  BY DEF Init, AuthorityHasAttempt, AttemptsSequential, NoPermit, NoSession, ActiveAttempt
<1> QED BY <1>1, <1>2, <1>3 DEF AttemptsInv

\* AttemptsInv holds of every reachable state.
LEMMA AttemptsInvariant == Spec => []AttemptsInv
BY AttemptsInit, AttemptsStep, PTL DEF Spec

\* Of a run's attempts only the latest is ever active, and none is once the run
\* has completed or failed, for any number of runs and attempts.
THEOREM AttemptsFollowOneAnother == Spec => []AttemptsSequential
<1>1. AttemptsInv => AttemptsSequential
  BY DEF AttemptsInv
<1> QED BY <1>1, AttemptsInvariant, PTL

--------------------------------------------------------------------------------
(* What a step can do to the runs and the mutation guards *)

\* No run is launched or ends, and no guard is touched.
Continues ==
    /\ UNCHANGED guardVars
    /\ \A r \in Runs : /\ Unfinished(r)' <=> Unfinished(r)
                       /\ Launched(r)' <=> Launched(r)
                       /\ Unfinished(r) \/ runState'[r] = runState[r]

\* Run r ends, which may release guards.
Ends(r) ==
    /\ Unfinished(r)
    /\ \E t \in TerminalRun :
          /\ runState' = [runState EXCEPT ![r] = t]
          /\ guard' = GuardsAfter(r, t)
    /\ UNCHANGED overrides

\* A run that goes on releases no guard.
LEMMA GuardsAfterOngoing ==
    ASSUME TypeOK, NEW r \in Runs, NEW next, next \notin TerminalRun
    PROVE  GuardsAfter(r, next) = guard
BY DEF TypeOK, GuardsAfter

\* A handler that may write a run and finalizes it lets it go on or ends it.
LEMMA FinalizeKind ==
    ASSUME NEW r \in Runs, NEW mid \in RunStates \ {"NONE"}, NEW reason, NEW att, NEW res, NEW late,
           TypeOK, Launched(r), mid = runState[r] \/ (Unfinished(r) /\ mid \notin TerminalRun),
           Finalize(r, mid, reason, att, res, late)
    PROVE  Continues \/ Ends(r)
<1> DEFINE next == FinalState(r, mid, att, res, late)
<1>1. /\ runState' = [runState EXCEPT ![r] = next]
      /\ guard' = IF mid \in TerminalRun THEN guard ELSE GuardsAfter(r, next)
      /\ overrides' = overrides
  BY DEF Finalize, SetRun
<1>2. CASE mid \in TerminalRun
  <2>1. next = mid /\ mid = runState[r]
    BY <1>2 DEF FinalState
  <2>2. runState' = runState
    BY <1>1, <2>1 DEF TypeOK
  <2> QED BY <1>1, <1>2, <2>2 DEF Continues, guardVars, Unfinished, Launched
<1>3. CASE mid \notin TerminalRun
  <2>1. Unfinished(r)
    BY <1>3 DEF Unfinished
  <2>2. next \in {"COMPLETED", "FAILED", "WAITING", mid}
    BY DEF FinalState
  <2>3. CASE next \in TerminalRun
    BY <1>1, <1>3, <2>1, <2>3 DEF Ends
  <2>4. CASE next \notin TerminalRun
    <3>1. guard' = guard
      BY <1>1, <1>3, <2>4, GuardsAfterOngoing
    <3>2. next # "NONE"
      BY <2>2
    <3>3. \A q \in Runs : runState'[q] = IF q = r THEN next ELSE runState[q]
      BY <1>1 DEF TypeOK
    <3> HIDE DEF next
    <3> QED BY <1>1, <2>1, <2>4, <3>1, <3>2, <3>3 DEF Continues, guardVars, Unfinished, Launched
  <2> QED BY <2>3, <2>4
<1> QED BY <1>2, <1>3

\* Every step lets the runs go on, ends one, launches one, or acknowledges a
\* collision.
StepKind ==
    \/ Continues
    \/ \E r \in Runs : Ends(r) \/ LaunchRun(r)
    \/ \E r, g \in Runs : LaunchOverriding(r, g) \/ AcknowledgeCollision(g, r)

\* Every step from a state of AttemptsInv is of one of these kinds.
LEMMA StepKinds == AttemptsInv /\ [Next]_vars => StepKind
<1> SUFFICES ASSUME AttemptsInv, [Next]_vars PROVE StepKind
  OBVIOUS
<1>1. TypeOK
  BY DEF AttemptsInv
<1>2. ASSUME UNCHANGED <<runState, guardVars>> PROVE StepKind
  BY <1>2 DEF StepKind, Continues, Unfinished, Launched, guardVars
<1>3. CASE RunStep
  <2>1. ASSUME NEW r \in Runs, AuthorizeAttempt(r) PROVE StepKind
    BY <1>1, <2>1 DEF AuthorizeAttempt, BeginAttempt, SetRun, TypeOK, StepKind, Continues, Unfinished, Launched,
                      TerminalRun
  <2>2. ASSUME NEW r \in Runs, CancelRun(r) PROVE StepKind
    <3>1. "CANCELLED" \in TerminalRun /\ Ends(r)
      BY <2>2 DEF CancelRun, SetRun, Ends, Unfinished, Launched, TerminalRun
    <3> QED BY <3>1 DEF StepKind
  <2> QED BY <1>3, <2>1, <2>2 DEF RunStep, StepKind
<1>4. CASE AuthorityStep
  BY <1>2, <1>4, ZenonT(60) DEF AuthorityStep, ExpirePermit, DenyPermit, KeepsAllButPermit, ConsumePermit, OpenSession,
                    RenewSession, ReleaseSession, AuthorizeOperation, ConsumeOperation,
                    ExpireOperation, KeepsAllButOperations, runVars, guardVars
<1>5. ASSUME NEW a \in Attempts PROVE a[1] \in Runs /\ a[2] \in 1 .. MaximumAttempts
  BY DEF Attempts
<1>6. ASSUME NEW a \in Attempts, attemptState[a] # "NONE" PROVE Launched(a[1])
  BY <1>1, <1>5, <1>6 DEF AttemptsInv, AttemptsNumbered, Launched, TypeOK
<1>7. ASSUME NEW a \in Attempts, NEW e \in AttemptEvents, NEW late \in BOOLEAN,
             AttemptEvent(a, e, late)
      PROVE  StepKind
  <2> DEFINE mid == CASE e = "PROCESS_STARTED" -> "RUNNING"
                      [] e \in {"LOST", "FAILED_TO_START"} -> "WAITING"
                      [] OTHER -> runState[a[1]]
             reason == CASE e = "PROCESS_STARTED" -> "NONE"
                         [] e \in {"LOST", "FAILED_TO_START"} -> "RETRY"
                         [] OTHER -> waitingReason[a[1]]
             next == NextAttempt(attemptState[a], e)
  <2>1. MoveAttempt(a, next, mid, reason, late)
    BY <1>7 DEF AttemptEvent
  <2>2. attemptState[a] # "NONE"
    BY <1>7 DEF AttemptEvent, NextAttempt, ActiveAttempt
  <2>3. Launched(a[1])
    BY <1>6, <2>2
  <2>4. mid = runState[a[1]] \/ (Unfinished(a[1]) /\ mid \in {"RUNNING", "WAITING"})
    BY <1>7, <2>3 DEF AttemptEvent, Writable, Unfinished
  <2>5. /\ mid \in RunStates \ {"NONE"}
        /\ mid = runState[a[1]] \/ (Unfinished(a[1]) /\ mid \notin TerminalRun)
    BY <1>1, <1>5, <2>3, <2>4 DEF TypeOK, RunStates, TerminalRun, Launched
  <2> HIDE DEF mid, reason, next
  <2> QED BY <1>1, <1>5, <2>1, <2>3, <2>5, FinalizeKind DEF MoveAttempt, StepKind
<1>8. ASSUME NEW a \in Attempts, NEW s \in Observations, NEW late \in BOOLEAN,
             ReconcileAttempt(a, s, late)
      PROVE  StepKind
  <2>1. PICK next \in {"RUNNING", "CANCELLED", "LOST"} :
           \/ MoveAttempt(a, next, "RUNNING", "NONE", late)
           \/ MoveAttempt(a, next, "WAITING", "RETRY", late)
    BY <1>8, ConstantsAssumption DEF ReconcileAttempt
  <2>2. Launched(a[1]) /\ Unfinished(a[1])
    BY <1>6, <1>8 DEF ReconcileAttempt, ActiveAttempt, Writable, Unfinished
  <2>3. {"RUNNING", "WAITING"} \subseteq (RunStates \ {"NONE"}) \ TerminalRun
    BY DEF RunStates, TerminalRun
  <2> QED BY <1>1, <1>5, <2>1, <2>2, <2>3, FinalizeKind DEF MoveAttempt, StepKind
<1>9. ASSUME NEW a \in Attempts, NEW c \in CheckpointReasons, RecordCheckpoint(a, c)
      PROVE  StepKind
  <2>1. Unfinished(a[1])
    BY <1>6, <1>9 DEF RecordCheckpoint, Writable, Unfinished
  <2> QED BY <1>1, <1>5, <1>9, <2>1
          DEF RecordCheckpoint, SetRun, StepKind, Continues, Unfinished, Launched, TerminalRun,
              TypeOK
<1>10. ASSUME NEW a \in Attempts, NEW k \in Reported, RecordRunResult(a, k) PROVE StepKind
  <2> DEFINE r == a[1]
             mid == IF k \in Delivered THEN runState[r] ELSE "WAITING"
             reason == CASE k = "BLOCKED" -> "BLOCKED"
                         [] k = "ESCALATED" -> "HUMAN_INPUT"
                         [] OTHER -> waitingReason[r]
             att == attemptState[Latest(r)]
             res == IF a = Latest(r) THEN k ELSE result[Latest(r)]
  <2>1. Launched(r) /\ r \in Runs
    BY <1>5, <1>6, <1>10 DEF RecordRunResult
  <2>2. Finalize(r, mid, reason, att, res, now >= Deadline)
    BY <1>10 DEF RecordRunResult
  <2>3. /\ mid \in RunStates \ {"NONE"}
        /\ mid = runState[r] \/ (Unfinished(r) /\ mid \notin TerminalRun)
    BY <1>1, <1>10, <2>1
       DEF RecordRunResult, Writable, Unfinished, Launched, TypeOK, RunStates, TerminalRun
  <2> HIDE DEF mid, reason, att, res
  <2> QED BY <1>1, <2>1, <2>2, <2>3, FinalizeKind DEF StepKind
<1>11. CASE ReportStep
  <2>1. ASSUME NEW r \in Runs, RecordEvidence(r) PROVE StepKind
    BY <1>2, <2>1 DEF RecordEvidence, runVars, guardVars
  <2> QED BY <1>7, <1>8, <1>9, <1>10, <1>11, <2>1
          DEF ReportStep, RecordDiff, RecordPublication, RecordGate
<1>12. ASSUME NEW S \in SUBSET Attempts, Withdraw(S), UNCHANGED guardVars,
              \A a \in S : attemptState[a] # "NONE"
       PROVE  StepKind
  <2>1. \A a \in S : Launched(a[1])
    BY <1>6, <1>12
  <2>2. \A q \in Runs : runState'[q] = runState[q] \/ (Unfinished(q) /\ runState'[q] = "WAITING")
    BY <1>12, <2>1 DEF Withdraw, Unfinished
  <2> QED BY <1>12, <2>2 DEF StepKind, Continues, Unfinished, Launched, TerminalRun
<1>13. ASSUME NEW s \in RevocationKinds, ApplyRevocation(s) PROVE StepKind
  <2>1. CASE s = "EXPOSURE"
    BY <1>2, <1>13, <2>1 DEF ApplyRevocation, runVars, guardVars
  <2>2. CASE s # "EXPOSURE"
    <3>1. Affected(s) \in SUBSET Attempts
      BY ConstantsAssumption
         DEF Affected, ActiveAttempts, AllRevocationKinds, EpochSources, MemberRoles
    <3>2. \A a \in Affected(s) : attemptState[a] # "NONE"
      BY ConstantsAssumption, <2>2
         DEF Affected, ActiveAttempts, AllRevocationKinds, EpochSources, MemberRoles,
             ActiveAttempt, AttemptsInv, AuthorityHasAttempt
    <3> QED BY <1>12, <1>13, <2>2, <3>1, <3>2 DEF ApplyRevocation
  <2> QED BY <2>1, <2>2
<1>14. ASSUME NEW r \in RevocableRuns, RevokeRun(r) PROVE StepKind
  <2>1. /\ AttemptsOf(r) \cap ActiveAttempts \in SUBSET Attempts
        /\ \A a \in AttemptsOf(r) \cap ActiveAttempts : attemptState[a] # "NONE"
    BY DEF AttemptsOf, ActiveAttempts, ActiveAttempt
  <2> QED BY <1>12, <1>14, <2>1 DEF RevokeRun
<1>15. CASE RevocationStep
  BY <1>13, <1>14, <1>15 DEF RevocationStep
<1>16. CASE OutsideStep
  <2>1. KeepsOwnState
    BY <1>16 DEF OutsideStep, ReplaceRunnerPolicy, ChangeRunnerFacts, RevokeRunner,
                 AdvanceConnectorEpoch, RemoveMember, Tick
  <2> QED BY <1>2, <2>1 DEF KeepsOwnState, runVars, guardVars
<1>17. CASE UNCHANGED vars
  BY <1>2, <1>17 DEF vars, guardVars
<1> QED BY <1>3, <1>4, <1>11, <1>15, <1>16, <1>17 DEF Next

--------------------------------------------------------------------------------
(* What has ended stays ended *)

\* No step changes the state of a run that has ended.
LEMMA TerminalRunsStay ==
    ASSUME AttemptsInv, [Next]_vars, NEW r \in Runs, runState[r] \in TerminalRun
    PROVE  runState'[r] = runState[r]
<1>1. TypeOK /\ StepKind /\ Launched(r) /\ ~Unfinished(r)
  BY StepKinds DEF AttemptsInv, Launched, Unfinished, TerminalRun
<1>2. CASE Continues
  BY <1>1, <1>2 DEF Continues
<1>3. ASSUME NEW q \in Runs, Ends(q) PROVE runState'[r] = runState[r]
  BY <1>1, <1>3 DEF Ends, TypeOK
<1>4. ASSUME NEW q \in Runs, CreateRun(q) PROVE runState'[r] = runState[r]
  BY <1>1, <1>4 DEF CreateRun, SetRun, TypeOK, Launched
<1> QED BY <1>1, <1>2, <1>3, <1>4
        DEF StepKind, LaunchRun, LaunchOverriding, AcknowledgeCollision, runVars

\* No step changes the state of an attempt that has ended.
LEMMA TerminalAttemptsStay ==
    ASSUME AttemptsInv, [Next]_vars, NEW a \in Attempts, attemptState[a] \in TerminalAttempt
    PROVE  attemptState'[a] = attemptState[a]
<1>1. TypeOK /\ AttemptsNumbered /\ attemptState[a] \notin ActiveAttempt \cup {"NONE"}
  BY DEF AttemptsInv, TerminalAttempt, ActiveAttempt
<1>2. a[1] \in Runs /\ a[2] \in 1 .. MaximumAttempts /\ a = <<a[1], a[2]>>
  BY DEF Attempts
<1>3. a[2] <= attemptCount[a[1]] /\ attemptCount[a[1]] \in Nat
  BY <1>1, <1>2 DEF AttemptsNumbered, TypeOK
<1>4. ASSUME NEW r \in Runs, CreateRun(r) PROVE attemptState'[a] = attemptState[a]
  <2>1. attemptCount[r] = 0
    BY <1>1, <1>4 DEF CreateRun, AttemptsNumbered
  <2>2. a # <<r, 1>>
    BY <1>2, <1>3, <2>1
  <2> QED BY <1>1, <1>4, <2>2 DEF CreateRun, IssueAttempt, TypeOK
<1>5. ASSUME NEW r \in Runs, AuthorizeAttempt(r) PROVE attemptState'[a] = attemptState[a]
  <2>1. a # <<r, attemptCount[r] + 1>>
    BY <1>2, <1>3
  <2> QED BY <1>1, <1>5, <2>1 DEF AuthorizeAttempt, BeginAttempt, IssueAttempt, TypeOK
<1>6. CASE RunStep
  BY <1>4, <1>5, <1>6 DEF RunStep, LaunchRun, LaunchOverriding, AcknowledgeCollision, CancelRun
<1>7. CASE AuthorityStep
  BY <1>7 DEF AuthorityStep, ExpirePermit, DenyPermit, KeepsAllButPermit, ConsumePermit, OpenSession,
              RenewSession, ReleaseSession, AuthorizeOperation, ConsumeOperation,
              ExpireOperation, KeepsAllButOperations
<1>8. ASSUME NEW b \in Attempts, NEW next, NEW mid, NEW reason, NEW late,
             attemptState[b] \in ActiveAttempt, MoveAttempt(b, next, mid, reason, late)
      PROVE  attemptState'[a] = attemptState[a]
  BY <1>1, <1>8 DEF MoveAttempt, TypeOK
<1>9. ASSUME NEW b \in Attempts, NEW e \in AttemptEvents, NEW late \in BOOLEAN,
             AttemptEvent(b, e, late)
      PROVE  attemptState'[a] = attemptState[a]
  <2>1. attemptState[b] \in ActiveAttempt
    BY <1>9 DEF AttemptEvent, NextAttempt, ActiveAttempt
  <2> QED BY <1>8, <1>9, <2>1 DEF AttemptEvent
<1>10. ASSUME NEW b \in Attempts, NEW s \in Observations, NEW late \in BOOLEAN,
              ReconcileAttempt(b, s, late)
       PROVE  attemptState'[a] = attemptState[a]
  BY <1>8, <1>10 DEF ReconcileAttempt
<1>11. CASE ReportStep
  BY <1>9, <1>10, <1>11 DEF ReportStep, RecordCheckpoint, RecordDiff, RecordPublication, RecordGate,
                            RecordEvidence, RecordRunResult
<1>12. CASE RevocationStep
  BY <1>12 DEF RevocationStep, ApplyRevocation, RevokeRun
<1>13. CASE OutsideStep
  BY <1>13 DEF OutsideStep, ReplaceRunnerPolicy, ChangeRunnerFacts, RevokeRunner,
               AdvanceConnectorEpoch, RemoveMember, Tick, KeepsOwnState
<1>14. CASE UNCHANGED vars
  BY <1>14 DEF vars
<1> QED BY <1>6, <1>7, <1>11, <1>12, <1>13, <1>14 DEF Next

\* Late reports, retries, reconciliations and revocations never reopen a run or
\* an attempt that has ended.
THEOREM TerminalStatesAreFinal == Spec => TerminalIsFinal
<1>1. AttemptsInv /\ [Next]_vars =>
        [/\ \A r \in Runs : runState[r] \in TerminalRun => runState'[r] = runState[r]
         /\ \A a \in Attempts :
              attemptState[a] \in TerminalAttempt => attemptState'[a] = attemptState[a]]_vars
  BY TerminalRunsStay, TerminalAttemptsStay
<1> QED BY <1>1, AttemptsInvariant, PTL DEF Spec, TerminalIsFinal

--------------------------------------------------------------------------------
(* The mutation guard *)

\* The inductive form of MutationGuarded and GuardHeldForSomeone.
HeldByLaunchedMutator == \A g \in Runs : guard[g] = "HELD" => g \in MutatingRuns /\ Launched(g)
OneHeldPerRecord ==
    \A g, h \in Runs :
        guard[g] = "HELD" /\ guard[h] = "HELD" /\ RecordOf[g] = RecordOf[h] => g = h
OverridesOnOneRecord ==
    \A g, c \in Runs : <<g, c>> \in overrides =>
        /\ {g, c} \subseteq MutatingRuns
        /\ RecordOf[g] = RecordOf[c]
        /\ Launched(g)
        /\ Launched(c)
UnfinishedIsGuarded ==
    \A r \in MutatingRuns : Unfinished(r) =>
        \E g \in Runs : guard[g] = "HELD" /\ RecordOf[g] = RecordOf[r] /\ r \in Participants(g)
GuardInv ==
    /\ HeldByLaunchedMutator
    /\ OneHeldPerRecord
    /\ OverridesOnOneRecord
    /\ UnfinishedIsGuarded
    /\ GuardHeldForSomeone

\* Whoever takes part in a held guard is a launched mutating run of its record.
LEMMA ParticipantsOnOneRecord ==
    ASSUME GuardInv, NEW g \in Runs, guard[g] = "HELD", NEW p \in Participants(g)
    PROVE  p \in MutatingRuns /\ p \in Runs /\ RecordOf[p] = RecordOf[g] /\ Launched(p)
BY DEF GuardInv, HeldByLaunchedMutator, OverridesOnOneRecord, Participants

\* The guards that are left when run r has ended: those with another
\* participant at work.
LEMMA GuardsLeft ==
    ASSUME TypeOK, GuardInv, NEW r \in Runs, Ends(r)
    PROVE  /\ \A q \in Runs : Launched(q)' <=> Launched(q)
           /\ \A q \in Runs : Unfinished(q)' <=> Unfinished(q) /\ q # r
           /\ \A g \in Runs : Participants(g)' = Participants(g)
           /\ \A g \in Runs : guard'[g] = "HELD" <=>
                 guard[g] = "HELD" /\ \E p \in Participants(g) : Unfinished(p) /\ p # r
<1>1. PICK t \in TerminalRun : /\ runState' = [runState EXCEPT ![r] = t]
                               /\ guard' = GuardsAfter(r, t)
  BY DEF Ends
<1>2. \A q \in Runs : runState'[q] = IF q = r THEN t ELSE runState[q]
  BY <1>1 DEF TypeOK
<1>3. t # "NONE" /\ Unfinished(r) /\ overrides' = overrides
  BY DEF TerminalRun, Ends
<1>4. \A q \in Runs : Launched(q)' <=> Launched(q)
  BY <1>2, <1>3 DEF Launched, Unfinished
<1>5. \A q \in Runs : Unfinished(q)' <=> Unfinished(q) /\ q # r
  BY <1>2, <1>3 DEF Launched, Unfinished
<1>6. \A g \in Runs : Participants(g)' = Participants(g)
  BY <1>3 DEF Participants
<1>7. ASSUME NEW g \in Runs
      PROVE  guard'[g] = "HELD" <=>
                guard[g] = "HELD" /\ \E p \in Participants(g) : Unfinished(p) /\ p # r
  <2>1. CASE guard[g] # "HELD"
    BY <1>1, <2>1 DEF GuardsAfter
  <2>2. CASE guard[g] = "HELD" /\ r \in Participants(g)
    <3>1. guard'[g] = "HELD" <=> \E p \in Participants(g) \ {r} : runState[p] \notin TerminalRun
      BY <1>1, <2>2 DEF GuardsAfter
    <3>2. \A p \in Participants(g) : Launched(p)
      BY <2>2, ParticipantsOnOneRecord
    <3> QED BY <2>2, <3>1, <3>2 DEF Unfinished
  <2>3. CASE guard[g] = "HELD" /\ r \notin Participants(g)
    <3>1. guard'[g] = "HELD"
      BY <1>1, <2>3 DEF GuardsAfter
    <3> QED BY <2>3, <3>1 DEF GuardInv, GuardHeldForSomeone
  <2> QED BY <2>1, <2>2, <2>3
<1> QED BY <1>4, <1>5, <1>6, <1>7

\* A launch makes run r, and no other, a run at work.
LEMMA RunLaunched ==
    ASSUME TypeOK, NEW r \in Runs, CreateRun(r)
    PROVE  /\ ~Launched(r)
           /\ \A q \in Runs : Launched(q)' <=> Launched(q) \/ q = r
           /\ \A q \in Runs : Unfinished(q)' <=> Unfinished(q) \/ q = r
<1>1. runState' = [runState EXCEPT ![r] = "QUEUED"] /\ runState[r] = "NONE"
  BY DEF CreateRun, SetRun
<1>2. \A q \in Runs : runState'[q] = IF q = r THEN "QUEUED" ELSE runState[q]
  BY <1>1 DEF TypeOK
<1> QED BY <1>1, <1>2 DEF Launched, Unfinished, TerminalRun

\* GuardInv is inductive relative to AttemptsInv.
LEMMA GuardStep == AttemptsInv /\ GuardInv /\ [Next]_vars => GuardInv'
<1> SUFFICES ASSUME AttemptsInv, GuardInv, [Next]_vars PROVE GuardInv'
  OBVIOUS
<1>1. TypeOK
  BY DEF AttemptsInv
<1>2. StepKind
  BY StepKinds
<1>3. CASE Continues
  <2>1. \A g \in Runs : Participants(g)' = Participants(g)
    BY <1>3 DEF Continues, guardVars, Participants
  <2>2. HeldByLaunchedMutator' /\ OneHeldPerRecord' /\ OverridesOnOneRecord'
    BY <1>3 DEF Continues, guardVars, GuardInv, HeldByLaunchedMutator, OneHeldPerRecord,
                OverridesOnOneRecord
  <2>3. UnfinishedIsGuarded'
    BY <1>3, <2>1, ConstantsAssumption DEF Continues, guardVars, GuardInv, UnfinishedIsGuarded
  <2>4. GuardHeldForSomeone'
    BY <1>3, <2>1
       DEF Continues, guardVars, GuardInv, GuardHeldForSomeone, Participants
  <2> QED BY <2>2, <2>3, <2>4 DEF GuardInv
<1>4. ASSUME NEW r \in Runs, Ends(r) PROVE GuardInv'
  <2>1. /\ \A q \in Runs : Launched(q)' <=> Launched(q)
        /\ \A q \in Runs : Unfinished(q)' <=> Unfinished(q) /\ q # r
        /\ \A g \in Runs : Participants(g)' = Participants(g)
        /\ \A g \in Runs : guard'[g] = "HELD" <=>
              guard[g] = "HELD" /\ \E p \in Participants(g) : Unfinished(p) /\ p # r
        /\ overrides' = overrides
    BY <1>1, <1>4, GuardsLeft DEF Ends
  <2>2. HeldByLaunchedMutator' /\ OneHeldPerRecord' /\ OverridesOnOneRecord'
    BY <2>1 DEF GuardInv, HeldByLaunchedMutator, OneHeldPerRecord, OverridesOnOneRecord
  <2>3. UnfinishedIsGuarded'
    BY <2>1, ConstantsAssumption DEF GuardInv, UnfinishedIsGuarded
  <2>4. GuardHeldForSomeone'
    BY <2>1, ParticipantsOnOneRecord DEF GuardInv, GuardHeldForSomeone
  <2> QED BY <2>2, <2>3, <2>4 DEF GuardInv
<1>5. ASSUME NEW r \in Runs, LaunchRun(r) PROVE GuardInv'
  <2>1. /\ CreateRun(r)
        /\ r \in MutatingRuns => HeldOn(RecordOf[r]) = {}
        /\ guard' = IF r \in MutatingRuns THEN [guard EXCEPT ![r] = "HELD"] ELSE guard
        /\ overrides' = overrides
    BY <1>5 DEF LaunchRun, GuardFree
  <2>2. /\ ~Launched(r)
        /\ \A q \in Runs : Launched(q)' <=> Launched(q) \/ q = r
        /\ \A q \in Runs : Unfinished(q)' <=> Unfinished(q) \/ q = r
    BY <1>1, <2>1, RunLaunched
  <2>3. \A g \in Runs : guard'[g] = "HELD" <=> guard[g] = "HELD" \/ (g = r /\ r \in MutatingRuns)
    BY <1>1, <2>1 DEF TypeOK
  <2>4. \A g \in Runs : Participants(g)' = Participants(g) /\ g \in Participants(g)
    BY <2>1 DEF Participants
  <2>5. HeldByLaunchedMutator' /\ OverridesOnOneRecord'
    BY <2>1, <2>2, <2>3 DEF GuardInv, HeldByLaunchedMutator, OverridesOnOneRecord
  <2>6. OneHeldPerRecord'
    BY <2>1, <2>3 DEF GuardInv, OneHeldPerRecord, HeldOn
  <2>7. UnfinishedIsGuarded'
    BY <2>2, <2>3, <2>4, ConstantsAssumption DEF GuardInv, UnfinishedIsGuarded
  <2>8. GuardHeldForSomeone'
    BY <2>2, <2>3, <2>4, ParticipantsOnOneRecord DEF GuardInv, GuardHeldForSomeone
  <2> QED BY <2>5, <2>6, <2>7, <2>8 DEF GuardInv
<1>6. ASSUME NEW r \in Runs, NEW g \in Runs, LaunchOverriding(r, g) PROVE GuardInv'
  <2>1. /\ CreateRun(r)
        /\ r \in MutatingRuns
        /\ guard[g] = "HELD" /\ RecordOf[g] = RecordOf[r]
        /\ overrides' = overrides \cup {<<g, r>>}
        /\ guard' = guard
    BY <1>6 DEF LaunchOverriding, HeldOn
  <2>2. /\ \A q \in Runs : Launched(q)' <=> Launched(q) \/ q = r
        /\ \A q \in Runs : Unfinished(q)' <=> Unfinished(q) \/ q = r
    BY <1>1, <2>1, RunLaunched
  <2>3. \A h \in Runs : Participants(h) \subseteq Participants(h)'
    BY <2>1 DEF Participants
  <2>4. r \in Participants(g)'
    BY <2>1 DEF Participants
  <2>5. HeldByLaunchedMutator' /\ OneHeldPerRecord' /\ OverridesOnOneRecord'
    BY <2>1, <2>2
       DEF GuardInv, HeldByLaunchedMutator, OneHeldPerRecord, OverridesOnOneRecord
  <2>6. UnfinishedIsGuarded'
    BY <2>1, <2>2, <2>3, <2>4, ConstantsAssumption DEF GuardInv, UnfinishedIsGuarded
  <2>7. GuardHeldForSomeone'
    BY <2>1, <2>2, <2>3, ParticipantsOnOneRecord DEF GuardInv, GuardHeldForSomeone
  <2> QED BY <2>5, <2>6, <2>7 DEF GuardInv
<1>7. ASSUME NEW c \in Runs, NEW g \in Runs, AcknowledgeCollision(g, c) PROVE GuardInv'
  <2>1. /\ {g, c} \subseteq MutatingRuns
        /\ RecordOf[g] = RecordOf[c]
        /\ Launched(g) /\ Launched(c)
        /\ overrides' = overrides \cup {<<g, c>>}
        /\ UNCHANGED <<guard, runState>>
    BY <1>7 DEF AcknowledgeCollision, runVars, Launched
  <2>2. \A q \in Runs : (Launched(q)' <=> Launched(q)) /\ (Unfinished(q)' <=> Unfinished(q))
    BY <2>1 DEF Launched, Unfinished
  <2>3. \A h \in Runs : Participants(h) \subseteq Participants(h)'
    BY <2>1 DEF Participants
  <2>4. HeldByLaunchedMutator' /\ OneHeldPerRecord' /\ OverridesOnOneRecord'
    BY <2>1, <2>2
       DEF GuardInv, HeldByLaunchedMutator, OneHeldPerRecord, OverridesOnOneRecord
  <2>5. UnfinishedIsGuarded'
    BY <2>1, <2>2, <2>3, ConstantsAssumption DEF GuardInv, UnfinishedIsGuarded
  <2>6. GuardHeldForSomeone'
    BY <2>1, <2>2, <2>3, ParticipantsOnOneRecord DEF GuardInv, GuardHeldForSomeone
  <2> QED BY <2>4, <2>5, <2>6 DEF GuardInv
<1> QED BY <1>2, <1>3, <1>4, <1>5, <1>6, <1>7 DEF StepKind

\* Before any launch there is no guard.
LEMMA GuardInit == Init => GuardInv
BY ConstantsAssumption
   DEF Init, GuardInv, HeldByLaunchedMutator, OneHeldPerRecord, OverridesOnOneRecord,
       UnfinishedIsGuarded, GuardHeldForSomeone, Unfinished, Launched

\* GuardInv holds of every reachable state.
LEMMA GuardInvariant == Spec => [](AttemptsInv /\ GuardInv)
<1>1. Init => AttemptsInv /\ GuardInv
  BY AttemptsInit, GuardInit
<1>2. (AttemptsInv /\ GuardInv) /\ [Next]_vars => (AttemptsInv /\ GuardInv)'
  BY AttemptsStep, GuardStep
<1> QED BY <1>1, <1>2, PTL DEF Spec

\* An unfinished mutating run always has the one held guard of its record, its
\* own or one it was let in on, for any number of runs and records.
THEOREM MutatorsAreGuarded == Spec => []MutationGuarded
<1>1. GuardInv => MutationGuarded
  <2> SUFFICES ASSUME GuardInv, NEW r \in MutatingRuns, Unfinished(r)
               PROVE  \E g \in HeldOn(RecordOf[r]) :
                         r \in Participants(g) /\ HeldOn(RecordOf[r]) = {g}
    BY DEF MutationGuarded
  <2>1. PICK g \in Runs : guard[g] = "HELD" /\ RecordOf[g] = RecordOf[r] /\ r \in Participants(g)
    BY DEF GuardInv, UnfinishedIsGuarded
  <2>2. HeldOn(RecordOf[r]) = {g}
    BY <2>1 DEF GuardInv, OneHeldPerRecord, HeldOn
  <2> QED BY <2>1, <2>2
<1> QED BY <1>1, GuardInvariant, PTL

\* No guard outlives its participants, so no record stays reserved for runs
\* that have all ended.
THEOREM GuardsAreReleased == Spec => []GuardHeldForSomeone
<1>1. GuardInv => GuardHeldForSomeone
  BY DEF GuardInv
<1> QED BY <1>1, GuardInvariant, PTL

--------------------------------------------------------------------------------
(* ExecutionAuthority implements MutationGuard *)

Owners == [c \in Records |-> HeldOn(c)]
Members == [c \in Records |-> {r \in MutatingRuns : RecordOf[r] = c /\ Unfinished(r)}]
Left == {r \in MutatingRuns : runState[r] \in TerminalRun}

\* A launch that holds a free record's guard reserves the record.
LEMMA ReserveImplemented ==
    ASSUME AttemptsInv, GuardInv, NEW r \in MutatingRuns, LaunchRun(r)
    PROVE  MG!Reserve(r)
<1> DEFINE c == RecordOf[r]
<1>1. /\ TypeOK
      /\ r \in Runs
      /\ CreateRun(r)
      /\ HeldOn(c) = {}
      /\ guard' = [guard EXCEPT ![r] = "HELD"]
      /\ c \in Records
      /\ runState' = [runState EXCEPT ![r] = "QUEUED"]
  BY ConstantsAssumption DEF LaunchRun, GuardFree, AttemptsInv, CreateRun, SetRun
<1>2. /\ ~Launched(r)
      /\ \A q \in Runs : Unfinished(q)' <=> Unfinished(q) \/ q = r
  BY <1>1, RunLaunched
<1>3. \A q \in MutatingRuns : RecordOf[q] = c => ~Unfinished(q)
  BY <1>1 DEF GuardInv, UnfinishedIsGuarded, HeldOn
<1>4. Members[c] = {} /\ r \notin Left
  BY <1>1, <1>2, <1>3 DEF Members, Left, Launched, TerminalRun
<1>5. \A g \in Runs : guard'[g] = "HELD" <=> guard[g] = "HELD" \/ g = r
  BY <1>1 DEF TypeOK
<1>6. Owners' = [Owners EXCEPT ![c] = {r}]
  <2>1. \A d \in Records : HeldOn(d)' = IF d = c THEN {r} ELSE HeldOn(d)
    BY <1>1, <1>5 DEF HeldOn
  <2> QED BY <1>1, <2>1 DEF Owners
<1>7. Members' = [Members EXCEPT ![c] = {r}]
  <2>1. \A d \in Records : Members'[d] = IF d = c THEN {r} ELSE Members[d]
    BY <1>1, <1>2, <1>3, ConstantsAssumption DEF Members
  <2> QED BY <1>1, <2>1 DEF Members
<1>8. Left' = Left
  BY <1>1, <1>2, ConstantsAssumption DEF Left, TypeOK, TerminalRun, Launched
<1> QED BY <1>1, <1>4, <1>6, <1>7, <1>8 DEF MG!Reserve, MG!Fresh, Owners, Members, Left

\* A launch that overrides a held guard joins it.
LEMMA JoinImplemented ==
    ASSUME AttemptsInv, GuardInv, NEW r \in Runs, NEW g \in Runs, LaunchOverriding(r, g)
    PROVE  MG!Join(r) /\ r \in MutatingRuns
<1> DEFINE c == RecordOf[r]
<1>1. /\ TypeOK
      /\ r \in MutatingRuns
      /\ CreateRun(r)
      /\ guard[g] = "HELD" /\ RecordOf[g] = c
      /\ runState[g] \notin TerminalRun
      /\ guard' = guard
      /\ c \in Records
      /\ runState' = [runState EXCEPT ![r] = "QUEUED"]
  BY ConstantsAssumption
     DEF LaunchOverriding, HeldOn, Overridable, AttemptsInv, CreateRun, SetRun
<1>2. /\ ~Launched(r)
      /\ \A q \in Runs : Unfinished(q)' <=> Unfinished(q) \/ q = r
  BY <1>1, RunLaunched
<1>3. Owners[c] = {g}
  BY <1>1 DEF Owners, HeldOn, GuardInv, OneHeldPerRecord
<1>4. g \in Members[c]
  BY <1>1 DEF Members, GuardInv, HeldByLaunchedMutator, Unfinished
<1>5. r \notin Members[c] /\ r \notin Left
  BY <1>1, <1>2 DEF Members, Left, Unfinished, Launched, TerminalRun
<1>6. Members' = [Members EXCEPT ![c] = @ \cup {r}]
  <2>1. \A d \in Records : Members'[d] = IF d = c THEN Members[d] \cup {r} ELSE Members[d]
    BY <1>1, <1>2, ConstantsAssumption DEF Members
  <2> QED BY <1>1, <2>1 DEF Members
<1>7. Owners' = Owners
  BY <1>1 DEF Owners, HeldOn
<1>8. Left' = Left
  BY <1>1, <1>2, ConstantsAssumption DEF Left, TypeOK, TerminalRun, Launched
<1> QED BY <1>1, <1>3, <1>4, <1>5, <1>6, <1>7, <1>8
        DEF MG!Join, MG!Fresh, Owners, Members, Left

\* A mutating run that ends leaves, and the last one frees the record.
LEMMA LeaveImplemented ==
    ASSUME AttemptsInv, GuardInv, NEW r \in MutatingRuns, Ends(r)
    PROVE  MG!Leave(r)
<1> DEFINE c == RecordOf[r]
<1>1. TypeOK /\ r \in Runs /\ c \in Records /\ Unfinished(r)
  BY ConstantsAssumption DEF AttemptsInv, Ends
<1>2. /\ \A q \in Runs : Unfinished(q)' <=> Unfinished(q) /\ q # r
      /\ \A g \in Runs : guard'[g] = "HELD" <=>
            guard[g] = "HELD" /\ \E p \in Participants(g) : Unfinished(p) /\ p # r
  BY <1>1, GuardsLeft
<1>3. r \in Members[c]
  BY <1>1 DEF Members
<1>4. Members' = [Members EXCEPT ![c] = @ \ {r}]
  <2>1. \A d \in Records : Members'[d] = IF d = c THEN Members[d] \ {r} ELSE Members[d]
    BY <1>1, <1>2, ConstantsAssumption DEF Members
  <2> QED BY <1>1, <2>1 DEF Members
<1>5. ASSUME NEW d \in Records
      PROVE  HeldOn(d)' = IF d = c /\ Members[c] = {r} THEN {} ELSE HeldOn(d)
  <2>1. \A g \in HeldOn(d) : \A p \in Participants(g) : Unfinished(p) => p \in Members[d]
    BY <1>5, ParticipantsOnOneRecord DEF HeldOn, Members
  <2>2. CASE d = c /\ Members[c] = {r}
    BY <1>2, <2>1, <2>2 DEF HeldOn
  <2>3. CASE d = c /\ Members[c] # {r}
    <3>1. PICK q \in Members[c] : q # r
      BY <1>3, <2>3
    <3>2. PICK g \in Runs : guard[g] = "HELD" /\ RecordOf[g] = c /\ q \in Participants(g)
      BY <1>1, <3>1 DEF Members, GuardInv, UnfinishedIsGuarded
    <3>3. HeldOn(c) = {g}
      BY <3>2 DEF HeldOn, GuardInv, OneHeldPerRecord
    <3>4. guard'[g] = "HELD"
      BY <1>1, <1>2, <3>1, <3>2 DEF Members
    <3>5. HeldOn(c)' \subseteq HeldOn(c)
      BY <1>2 DEF HeldOn
    <3>6. g \in HeldOn(c)'
      BY <3>2, <3>4 DEF HeldOn
    <3> QED BY <2>3, <3>3, <3>5, <3>6
  <2>4. CASE d # c
    <3>1. \A g \in HeldOn(d) : \E p \in Participants(g) : Unfinished(p)
      BY DEF HeldOn, GuardInv, GuardHeldForSomeone
    <3>2. r \notin Members[d]
      BY <1>5, <2>4 DEF Members
    <3>3. \A g \in HeldOn(d) : guard'[g] = "HELD"
      BY <1>2, <2>1, <3>1, <3>2 DEF HeldOn
    <3> QED BY <1>2, <2>4, <3>3 DEF HeldOn
  <2> QED BY <2>2, <2>3, <2>4
<1>6. Owners' = IF Members[c] = {r} THEN [Owners EXCEPT ![c] = {}] ELSE Owners
  <2>1. \A d \in Records : Owners'[d] = IF d = c /\ Members[c] = {r} THEN {} ELSE Owners[d]
    BY <1>5 DEF Owners
  <2> QED BY <1>1, <2>1 DEF Owners
<1>7. Left' = Left \cup {r}
  BY <1>1, ConstantsAssumption DEF Ends, Left, TypeOK
<1> QED BY <1>3, <1>4, <1>6, <1>7 DEF MG!Leave, Owners, Members, Left

\* A step that no mutating run begins or ends with leaves the abstract state.
LEMMA StutterImplemented ==
    ASSUME AttemptsInv,
           \A g \in Runs : guard'[g] = "HELD" <=> guard[g] = "HELD",
           \A r \in MutatingRuns : /\ Unfinished(r)' <=> Unfinished(r)
                                   /\ runState'[r] \in TerminalRun <=> runState[r] \in TerminalRun
    PROVE  UNCHANGED MG!guardState
<1>1. \A d \in Records : HeldOn(d)' = HeldOn(d)
  BY DEF HeldOn
<1>2. Owners' = Owners
  BY <1>1 DEF Owners
<1>3. Members' = Members /\ Left' = Left
  BY DEF Members, Left
<1> QED BY <1>2, <1>3 DEF MG!guardState, Owners, Members, Left

\* Every step is a step of MutationGuard or leaves its state alone.
LEMMA GuardStepImplemented ==
    AttemptsInv /\ GuardInv /\ [Next]_vars => [MG!Next]_(MG!guardState)
<1> SUFFICES ASSUME AttemptsInv, GuardInv, [Next]_vars PROVE [MG!Next]_(MG!guardState)
  OBVIOUS
<1>1. TypeOK /\ StepKind /\ MutatingRuns \subseteq Runs
  BY StepKinds, ConstantsAssumption DEF AttemptsInv
<1>2. \A r \in Runs : runState[r] \in TerminalRun <=> Launched(r) /\ ~Unfinished(r)
  BY DEF Launched, Unfinished, TerminalRun
<1>3. \A r \in Runs : runState'[r] \in TerminalRun <=> Launched(r)' /\ ~Unfinished(r)'
  BY DEF Launched, Unfinished, TerminalRun
<1>4. CASE Continues
  BY <1>1, <1>2, <1>3, <1>4, StutterImplemented DEF Continues, guardVars
<1>5. ASSUME NEW r \in Runs, Ends(r) PROVE [MG!Next]_(MG!guardState)
  <2>1. CASE r \in MutatingRuns
    BY <1>5, <2>1, LeaveImplemented DEF MG!Next
  <2>2. CASE r \notin MutatingRuns
    <3>1. /\ \A q \in Runs : Launched(q)' <=> Launched(q)
          /\ \A q \in Runs : Unfinished(q)' <=> Unfinished(q) /\ q # r
          /\ \A g \in Runs : guard'[g] = "HELD" <=>
                guard[g] = "HELD" /\ \E p \in Participants(g) : Unfinished(p) /\ p # r
      BY <1>1, <1>5, GuardsLeft
    <3>2. \A g \in Runs : guard'[g] = "HELD" <=> guard[g] = "HELD"
      BY <2>2, <3>1, ParticipantsOnOneRecord DEF GuardInv, GuardHeldForSomeone
    <3> QED BY <1>1, <1>2, <1>3, <2>2, <3>1, <3>2, StutterImplemented
  <2> QED BY <2>1, <2>2
<1>6. ASSUME NEW r \in Runs, LaunchRun(r) PROVE [MG!Next]_(MG!guardState)
  <2>1. CASE r \in MutatingRuns
    BY <1>6, <2>1, ReserveImplemented DEF MG!Next
  <2>2. CASE r \notin MutatingRuns
    <3>1. CreateRun(r) /\ guard' = guard
      BY <1>6, <2>2 DEF LaunchRun
    <3>2. /\ \A q \in Runs : Launched(q)' <=> Launched(q) \/ q = r
          /\ \A q \in Runs : Unfinished(q)' <=> Unfinished(q) \/ q = r
      BY <1>1, <3>1, RunLaunched
    <3> QED BY <1>1, <1>2, <1>3, <2>2, <3>1, <3>2, StutterImplemented
  <2> QED BY <2>1, <2>2
<1>7. ASSUME NEW r \in Runs, NEW g \in Runs, LaunchOverriding(r, g)
      PROVE  [MG!Next]_(MG!guardState)
  BY <1>7, JoinImplemented DEF MG!Next
<1>8. ASSUME NEW r \in Runs, NEW g \in Runs, AcknowledgeCollision(g, r)
      PROVE  [MG!Next]_(MG!guardState)
  <2>1. UNCHANGED <<guard, runState>>
    BY <1>8 DEF AcknowledgeCollision, runVars
  <2> QED BY <1>1, <2>1, StutterImplemented DEF Unfinished, Launched
<1> QED BY <1>1, <1>4, <1>5, <1>6, <1>7, <1>8 DEF StepKind

\* Launches, overrides and every way a run can end implement the mutation guard
\* that MutationGuard describes, for any number of runs and records.
THEOREM AuthorityImplementsGuard == Spec => ImplementsGuard
<1>1. Init => MG!Init
  BY ConstantsAssumption DEF Init, MG!Init, HeldOn, Unfinished, Launched, TerminalRun
<1>2. AttemptsInv /\ GuardInv /\ [Next]_vars => [MG!Next]_(MG!guardState)
  BY GuardStepImplemented
<1> QED BY <1>1, <1>2, GuardInvariant, PTL DEF Spec, ImplementsGuard, MG!Spec

--------------------------------------------------------------------------------
(* What a step can do to permits, sessions, operations and revocations *)

\* Attempt a gets its row and its permit in this step; it has had no session.
Created(a) ==
    /\ attemptState[a] = "NONE"
    /\ session[a].state = "NONE" /\ session'[a] = session[a]
    /\ runState'[a[1]] \in {"QUEUED", "RUNNING"}

\* A permit is issued, and an attempt begins, only with a new attempt row.
PermitsMove ==
    \A a \in Attempts :
        /\ permit'[a].state = "ISSUED" => permit[a].state = "ISSUED" \/ Created(a)
        /\ attemptState[a] = "NONE" => attemptState'[a] = "NONE" \/ Created(a)

\* Sessions and leases are opened by a permit, renewed, or closed.
SessionsMove ==
    \/ UNCHANGED <<session, lease>>
    \/ \E S \in SUBSET Attempts, s \in {"RELEASED", "REVOKED"} : CloseSessions(S, s)
    \/ \E a \in Attempts : ConsumePermit(a) \/ RenewSession(a)

\* Authorized operations are added, carried out or expired one by one, and
\* revoked with their run.
OperationsMove ==
    \/ UNCHANGED operations
    \/ \E a \in Attempts, k \in OperationKinds : AuthorizeOperation(a, k)
    \/ \E o \in operations : ConsumeOperation(o) \/ ExpireOperation(o)
    \/ \E r \in Runs : CancelRun(r)

\* Revocations are recorded by the step that withdraws what they reach.
RevocationsMove ==
    \/ UNCHANGED revocationVars
    \/ \E s \in RevocationKinds : ApplyRevocation(s)
    \/ \E r \in RevocableRuns : RevokeRun(r)

\* Run r completes with this step, on the result and the gates it needs.
Completes(r) ==
    /\ runState'[r] = "COMPLETED"
    /\ attemptState'[Latest(r)] = "EXITED"
    /\ result'[Latest(r)] \in Delivered
    /\ GatesPassed(r)
    /\ evidence' = evidence

\* A run is cancelled by CANCEL_RUN only, and completes on evidence only.
RunsMove ==
    \A r \in Runs :
        \/ runState'[r] \in {runState[r], "QUEUED", "RUNNING", "WAITING", "FAILED"}
        \/ CancelRun(r)
        \/ Completes(r)

--------------------------------------------------------------------------------

\* A launch or a further authorization creates one attempt, and nothing else
\* gets a permit.
LEMMA IssueMoves ==
    ASSUME AttemptsInv, NEW b \in Attempts, IssueAttempt(b), attemptState[b] = "NONE",
           session' = session, runState'[b[1]] \in {"QUEUED", "RUNNING"}
    PROVE  PermitsMove
<1>1. /\ Created(b)
      /\ \A a \in Attempts : a # b => permit'[a] = permit[a] /\ attemptState'[a] = attemptState[a]
  BY DEF IssueAttempt, AttemptsInv, AuthorityHasAttempt, TypeOK, Created
<1> QED BY <1>1 DEF PermitsMove

\* PermitsMove is what every step does.
LEMMA PermitsStep == AttemptsInv /\ [Next]_vars => PermitsMove
<1> SUFFICES ASSUME AttemptsInv, [Next]_vars PROVE PermitsMove
  OBVIOUS
<1>1. TypeOK /\ AttemptsNumbered
  BY DEF AttemptsInv
<1>2. ASSUME NEW r \in Runs, CreateRun(r) PROVE PermitsMove
  <2>1. /\ <<r, 1>> \in Attempts
        /\ runState[r] = "NONE" /\ attemptCount[r] = 0
        /\ runState'[r] = "QUEUED"
        /\ IssueAttempt(<<r, 1>>)
        /\ session' = session
    BY <1>1, <1>2, ConstantsAssumption
       DEF CreateRun, SetRun, Attempts, TypeOK, AttemptsNumbered
  <2>2. attemptState[<<r, 1>>] = "NONE"
    BY <1>1, <2>1 DEF AttemptsNumbered
  <2> QED BY <2>1, <2>2, IssueMoves
<1>3. ASSUME NEW r \in Runs, AuthorizeAttempt(r) PROVE PermitsMove
  <2> DEFINE n == attemptCount[r] + 1
  <2>1. attemptCount[r] \in Nat /\ attemptCount[r] < MaximumAttempts
    BY <1>1, <1>3 DEF TypeOK, AuthorizeAttempt, BudgetLeft
  <2>2. n \in 1 .. MaximumAttempts /\ ~(n <= attemptCount[r])
    BY <2>1, ConstantsAssumption
  <2>3. <<r, n>> \in Attempts
    BY <2>2 DEF Attempts
  <2>4. attemptState[<<r, n>>] = "NONE"
    BY <1>1, <2>2, <2>3 DEF AttemptsNumbered
  <2>5. IssueAttempt(<<r, n>>) /\ session' = session /\ runState'[r] = "RUNNING"
    BY <1>1, <1>3 DEF AuthorizeAttempt, BeginAttempt, SetRun, TypeOK
  <2> QED BY <2>3, <2>4, <2>5, IssueMoves
<1>4. ASSUME NEW S, RevokePermits(S), attemptState' = attemptState PROVE PermitsMove
  BY <1>1, <1>4 DEF RevokePermits, PermitsMove, TypeOK, PermitRow
<1>5. ASSUME NEW a \in Attempts, NEW s \in {"EXPIRED", "REVOKED", "CONSUMED"}, SetPermit(a, s),
             attemptState' = attemptState
      PROVE  PermitsMove
  BY <1>1, <1>5 DEF SetPermit, PermitsMove, TypeOK, PermitRow
<1>6. ASSUME UNCHANGED <<permit, attemptState>> PROVE PermitsMove
  BY <1>6 DEF PermitsMove
<1>7. CASE RunStep
  BY <1>2, <1>3, <1>4, <1>6, <1>7
     DEF RunStep, LaunchRun, LaunchOverriding, AcknowledgeCollision, CancelRun
<1>8. CASE AuthorityStep
  BY <1>5, <1>6, <1>8
     DEF AuthorityStep, ExpirePermit, DenyPermit, KeepsAllButPermit, ConsumePermit,
         RenewSession, ReleaseSession, AuthorizeOperation, ConsumeOperation,
         ExpireOperation, KeepsAllButOperations
<1>9. ASSUME NEW a \in Attempts, NEW next, NEW mid, NEW reason, NEW late,
             attemptState[a] \in ActiveAttempt, MoveAttempt(a, next, mid, reason, late)
      PROVE  PermitsMove
  BY <1>1, <1>9 DEF MoveAttempt, PermitsMove, TypeOK, ActiveAttempt
<1>10. ASSUME NEW a \in Attempts, NEW e \in AttemptEvents, NEW late \in BOOLEAN,
              AttemptEvent(a, e, late)
       PROVE  PermitsMove
  <2>1. attemptState[a] \in ActiveAttempt
    BY <1>10 DEF AttemptEvent, NextAttempt, ActiveAttempt
  <2> QED BY <1>9, <1>10, <2>1 DEF AttemptEvent
<1>11. ASSUME NEW a \in Attempts, NEW s \in Observations, NEW late \in BOOLEAN,
              ReconcileAttempt(a, s, late)
       PROVE  PermitsMove
  BY <1>9, <1>11 DEF ReconcileAttempt
<1>12. CASE ReportStep
  BY <1>6, <1>10, <1>11, <1>12
     DEF ReportStep, RecordCheckpoint, RecordDiff, RecordPublication, RecordGate,
         RecordEvidence, RecordRunResult
<1>13. CASE RevocationStep
  BY <1>4, <1>13 DEF RevocationStep, ApplyRevocation, RevokeRun, Withdraw
<1>14. CASE OutsideStep
  BY <1>4, <1>6, <1>14
     DEF OutsideStep, ReplaceRunnerPolicy, ChangeRunnerFacts, RevokeRunner,
         AdvanceConnectorEpoch, RemoveMember, Tick, KeepsOwnState, outsideVars
<1>15. CASE UNCHANGED vars
  BY <1>6, <1>15 DEF vars
<1> QED BY <1>7, <1>8, <1>12, <1>13, <1>14, <1>15 DEF Next

\* SessionsMove, OperationsMove and RevocationsMove are what every step does.
LEMMA OthersStep == TypeOK /\ [Next]_vars => SessionsMove /\ OperationsMove /\ RevocationsMove
<1> SUFFICES ASSUME TypeOK, [Next]_vars PROVE SessionsMove /\ OperationsMove /\ RevocationsMove
  OBVIOUS
<1>1. ASSUME UNCHANGED <<session, lease>> PROVE SessionsMove
  BY <1>1 DEF SessionsMove
<1>2. ASSUME NEW S \in SUBSET Attempts, NEW s \in {"RELEASED", "REVOKED"}, CloseSessions(S, s)
      PROVE  SessionsMove
  BY <1>2 DEF SessionsMove
<1>3. CASE RunStep
  <2>1. ASSUME NEW r \in Runs, CancelRun(r)
        PROVE  SessionsMove /\ OperationsMove /\ RevocationsMove
    <3>1. AttemptsOf(r) \in SUBSET Attempts
      BY DEF AttemptsOf
    <3> QED BY <1>2, <2>1, <3>1 DEF CancelRun, OperationsMove, RevocationsMove
  <2>2. ASSUME UNCHANGED <<session, lease, operations, revocationVars>>
        PROVE  SessionsMove /\ OperationsMove /\ RevocationsMove
    BY <1>1, <2>2 DEF OperationsMove, RevocationsMove
  <2> QED BY <1>3, <2>1, <2>2
          DEF RunStep, LaunchRun, LaunchOverriding, CreateRun, AuthorizeAttempt,
              AcknowledgeCollision
<1>4. CASE AuthorityStep
  <2>1. RevocationsMove
    BY <1>4 DEF AuthorityStep, ExpirePermit, DenyPermit, KeepsAllButPermit, ConsumePermit,
         RenewSession, ReleaseSession, AuthorizeOperation, ConsumeOperation,
         ExpireOperation, KeepsAllButOperations, RevocationsMove
  <2>2. OperationsMove
    BY <1>4 DEF AuthorityStep, ExpirePermit, DenyPermit, KeepsAllButPermit, ConsumePermit,
         RenewSession, ReleaseSession, OperationsMove
  <2>3. ASSUME NEW a \in Attempts, ConsumePermit(a) \/ RenewSession(a) PROVE SessionsMove
    BY <2>3 DEF SessionsMove
  <2>4. ASSUME NEW a \in Attempts, ReleaseSession(a) PROVE SessionsMove
    BY <1>2, <2>4 DEF ReleaseSession
  <2>5. SessionsMove
    BY <1>1, <1>4, <2>3, <2>4
       DEF AuthorityStep, ExpirePermit, DenyPermit, KeepsAllButPermit, AuthorizeOperation,
           ConsumeOperation, ExpireOperation, KeepsAllButOperations
  <2> QED BY <2>1, <2>2, <2>5
<1>5. CASE ReportStep
  <2>1. RevocationsMove /\ OperationsMove
    <3>1. ASSUME NEW a, NEW e, NEW late, AttemptEvent(a, e, late) \/ ReconcileAttempt(a, e, late)
          PROVE  UNCHANGED <<operations, revocationVars>>
      BY <3>1 DEF AttemptEvent, ReconcileAttempt, MoveAttempt
    <3>2. UNCHANGED <<operations, revocationVars>>
      BY <1>5, <3>1 DEF ReportStep, RecordCheckpoint, RecordDiff, RecordPublication, RecordGate,
                        RecordEvidence, RecordRunResult
    <3> QED BY <3>2 DEF RevocationsMove, OperationsMove
  <2>2. ASSUME NEW a \in Attempts, NEW next, NEW mid, NEW reason, NEW late,
               MoveAttempt(a, next, mid, reason, late)
        PROVE  SessionsMove
    BY <1>1, <1>2, <2>2 DEF MoveAttempt
  <2>3. ASSUME NEW a \in Attempts, NEW c, RecordCheckpoint(a, c) PROVE SessionsMove
    BY <1>2, <2>3 DEF RecordCheckpoint
  <2>4. SessionsMove
    BY <1>1, <1>5, <2>2, <2>3
       DEF ReportStep, AttemptEvent, ReconcileAttempt, RecordDiff, RecordPublication, RecordGate,
           RecordEvidence, RecordRunResult
  <2> QED BY <2>1, <2>4
<1>6. CASE RevocationStep
  <2>1. RevocationsMove
    BY <1>6 DEF RevocationStep, RevocationsMove
  <2>2. OperationsMove
    BY <1>6 DEF RevocationStep, ApplyRevocation, RevokeRun, OperationsMove
  <2>3. ASSUME NEW s \in RevocationKinds, ApplyRevocation(s) PROVE SessionsMove
    <3>1. Affected(s) \in SUBSET Attempts
      BY ConstantsAssumption
         DEF Affected, ActiveAttempts, AllRevocationKinds, EpochSources, MemberRoles
    <3> QED BY <1>1, <1>2, <2>3, <3>1 DEF ApplyRevocation, Withdraw
  <2>4. ASSUME NEW r \in RevocableRuns, RevokeRun(r) PROVE SessionsMove
    <3>1. AttemptsOf(r) \cap ActiveAttempts \in SUBSET Attempts
      BY DEF AttemptsOf
    <3> QED BY <1>2, <2>4, <3>1 DEF RevokeRun, Withdraw
  <2> QED BY <1>6, <2>1, <2>2, <2>3, <2>4 DEF RevocationStep
<1>7. CASE OutsideStep \/ UNCHANGED vars
  <2>1. UNCHANGED <<session, lease, operations, revocationVars>>
    BY <1>7 DEF OutsideStep, ReplaceRunnerPolicy, ChangeRunnerFacts, RevokeRunner,
                AdvanceConnectorEpoch, RemoveMember, Tick, KeepsOwnState, vars, revocationVars
  <2> QED BY <1>1, <2>1 DEF OperationsMove, RevocationsMove
<1> QED BY <1>3, <1>4, <1>5, <1>6, <1>7 DEF Next

\* The termination intents only grow.
LEMMA IntentsStep == [Next]_vars => intents \subseteq intents'
<1> SUFFICES ASSUME [Next]_vars PROVE intents \subseteq intents'
  OBVIOUS
<1>1. CASE RunStep
  BY <1>1 DEF RunStep, LaunchRun, LaunchOverriding, CreateRun, AuthorizeAttempt,
              AcknowledgeCollision, CancelRun
<1>2. CASE AuthorityStep
  BY <1>2 DEF AuthorityStep, ExpirePermit, DenyPermit, KeepsAllButPermit, ConsumePermit,
              RenewSession, ReleaseSession, AuthorizeOperation, ConsumeOperation,
              ExpireOperation, KeepsAllButOperations
<1>3. ASSUME NEW a, NEW e, NEW late, AttemptEvent(a, e, late) \/ ReconcileAttempt(a, e, late)
      PROVE  intents' = intents
  BY <1>3 DEF AttemptEvent, ReconcileAttempt, MoveAttempt
<1>4. CASE ReportStep
  BY <1>3, <1>4 DEF ReportStep, RecordCheckpoint, RecordDiff, RecordPublication, RecordGate,
                    RecordEvidence, RecordRunResult
<1>5. CASE RevocationStep
  BY <1>5 DEF RevocationStep, ApplyRevocation, RevokeRun, Withdraw
<1>6. CASE OutsideStep \/ UNCHANGED vars
  BY <1>6 DEF OutsideStep, ReplaceRunnerPolicy, ChangeRunnerFacts, RevokeRunner,
              AdvanceConnectorEpoch, RemoveMember, Tick, KeepsOwnState, vars
<1> QED BY <1>1, <1>2, <1>4, <1>5, <1>6 DEF Next

\* A handler that finalizes run r leaves it with a state it may write, or
\* completes it.
LEMMA FinalizeMoves ==
    ASSUME TypeOK, NEW r \in Runs, NEW mid, NEW reason, NEW att, NEW res, NEW late,
           mid \in {runState[r], "RUNNING", "WAITING"},
           Finalize(r, mid, reason, att, res, late), evidence' = evidence,
           attemptState'[Latest(r)] = att, result'[Latest(r)] = res
    PROVE  RunsMove
<1> DEFINE next == FinalState(r, mid, att, res, late)
<1>1. \A q \in Runs : runState'[q] = IF q = r THEN next ELSE runState[q]
  BY DEF Finalize, SetRun, TypeOK
<1>2. \/ next \in {mid, "WAITING", "FAILED"}
      \/ next = "COMPLETED" /\ att = "EXITED" /\ res \in Delivered /\ GatesPassed(r)
  BY DEF FinalState
<1> HIDE DEF next
<1> QED BY <1>1, <1>2 DEF RunsMove, Completes

\* RunsMove is what every step does.
LEMMA RunsStep == AttemptsInv /\ [Next]_vars => RunsMove
<1> SUFFICES ASSUME AttemptsInv, [Next]_vars PROVE RunsMove
  OBVIOUS
<1>1. TypeOK /\ AttemptsSequential
  BY DEF AttemptsInv
<1>2. ASSUME NEW S \in SUBSET Runs, NEW x \in {"QUEUED", "RUNNING", "WAITING"},
             \A q \in Runs : runState'[q] = IF q \in S THEN x ELSE runState[q]
      PROVE  RunsMove
  BY <1>2 DEF RunsMove
<1>3. ASSUME NEW r \in Runs, NEW x \in {"QUEUED", "RUNNING", "WAITING"},
             runState' = [runState EXCEPT ![r] = x]
      PROVE  RunsMove
  BY <1>1, <1>2, <1>3 DEF RunsMove, TypeOK
<1>4. ASSUME runState' = runState PROVE RunsMove
  BY <1>4 DEF RunsMove
<1>5. CASE RunStep
  <2>1. ASSUME NEW r \in Runs, CreateRun(r) \/ AuthorizeAttempt(r) PROVE RunsMove
    BY <1>3, <2>1 DEF CreateRun, AuthorizeAttempt, BeginAttempt, SetRun
  <2>2. ASSUME NEW r \in Runs, CancelRun(r) PROVE RunsMove
    <3>1. \A q \in Runs : q # r => runState'[q] = runState[q]
      BY <1>1, <2>2 DEF CancelRun, SetRun, TypeOK
    <3> QED BY <2>2, <3>1 DEF RunsMove
  <2> QED BY <1>4, <1>5, <2>1, <2>2
          DEF RunStep, LaunchRun, LaunchOverriding, AcknowledgeCollision, runVars
<1>6. CASE AuthorityStep
  BY <1>4, <1>6
     DEF AuthorityStep, ExpirePermit, DenyPermit, KeepsAllButPermit, ConsumePermit,
         RenewSession, ReleaseSession, AuthorizeOperation, ConsumeOperation,
         ExpireOperation, KeepsAllButOperations, runVars
<1>7. ASSUME NEW a \in Attempts PROVE a[1] \in Runs /\ (attemptState[a] # "NONE" => Latest(a[1]) \in Attempts)
  <2>1. a[1] \in Runs /\ a[2] \in 1 .. MaximumAttempts
    BY DEF Attempts
  <2>2. CASE attemptState[a] # "NONE"
    <3>1. attemptCount[a[1]] \in 0 .. MaximumAttempts /\ a[2] <= attemptCount[a[1]]
      BY <2>1, <2>2 DEF AttemptsInv, AttemptsNumbered, TypeOK
    <3>2. attemptCount[a[1]] \in 1 .. MaximumAttempts
      BY <2>1, <3>1, ConstantsAssumption
    <3> QED BY <2>1, <3>2 DEF Latest, Attempts
  <2> QED BY <2>1, <2>2
<1>8. ASSUME NEW a \in Attempts, NEW next, NEW mid, NEW reason, NEW late,
             attemptState[a] # "NONE", mid \in {runState[a[1]], "RUNNING", "WAITING"},
             MoveAttempt(a, next, mid, reason, late)
      PROVE  RunsMove
  <2> DEFINE r == a[1]
             att == IF a = Latest(r) THEN next ELSE attemptState[Latest(r)]
             res == result[Latest(r)]
  <2>1. Finalize(r, mid, reason, att, res, late) /\ UNCHANGED <<attemptCount, recordVars>>
    BY <1>8 DEF MoveAttempt
  <2>2. attemptState' = [attemptState EXCEPT ![a] = next]
    BY <1>8 DEF MoveAttempt
  <2>3. attemptState'[Latest(r)] = att /\ result'[Latest(r)] = res /\ evidence' = evidence
    BY <1>1, <1>7, <1>8, <2>1, <2>2 DEF TypeOK, recordVars
  <2> HIDE DEF att, res
  <2> QED BY <1>1, <1>7, <1>8, <2>1, <2>3, FinalizeMoves
<1>9. ASSUME NEW a \in Attempts, NEW e \in AttemptEvents, NEW late \in BOOLEAN,
             AttemptEvent(a, e, late)
      PROVE  RunsMove
  <2>1. attemptState[a] # "NONE"
    BY <1>9 DEF AttemptEvent, NextAttempt, ActiveAttempt
  <2> DEFINE mid == CASE e = "PROCESS_STARTED" -> "RUNNING"
                      [] e \in {"LOST", "FAILED_TO_START"} -> "WAITING"
                      [] OTHER -> runState[a[1]]
             reason == CASE e = "PROCESS_STARTED" -> "NONE"
                         [] e \in {"LOST", "FAILED_TO_START"} -> "RETRY"
                         [] OTHER -> waitingReason[a[1]]
             next == NextAttempt(attemptState[a], e)
  <2>2. MoveAttempt(a, next, mid, reason, late)
    BY <1>9 DEF AttemptEvent
  <2>3. mid \in {runState[a[1]], "RUNNING", "WAITING"}
    OBVIOUS
  <2> HIDE DEF mid, reason, next
  <2> QED BY <1>8, <2>1, <2>2, <2>3
<1>10. ASSUME NEW a \in Attempts, NEW s \in Observations, NEW late \in BOOLEAN,
              ReconcileAttempt(a, s, late)
       PROVE  RunsMove
  <2>1. attemptState[a] # "NONE"
    BY <1>10 DEF ReconcileAttempt, ActiveAttempt
  <2>2. PICK next \in {"RUNNING", "CANCELLED", "LOST"} :
           \/ MoveAttempt(a, next, "RUNNING", "NONE", late)
           \/ MoveAttempt(a, next, "WAITING", "RETRY", late)
    BY <1>10, ConstantsAssumption DEF ReconcileAttempt
  <2> QED BY <1>8, <2>1, <2>2
<1>11. ASSUME NEW a \in Attempts, NEW c, RecordCheckpoint(a, c) PROVE RunsMove
  BY <1>3, <1>7, <1>11 DEF RecordCheckpoint, SetRun
<1>12. ASSUME NEW a \in Attempts, NEW k \in Reported, RecordRunResult(a, k) PROVE RunsMove
  <2> DEFINE r == a[1]
             mid == IF k \in Delivered THEN runState[r] ELSE "WAITING"
             reason == CASE k = "BLOCKED" -> "BLOCKED"
                         [] k = "ESCALATED" -> "HUMAN_INPUT"
                         [] OTHER -> waitingReason[r]
             att == attemptState[Latest(r)]
             res == IF a = Latest(r) THEN k ELSE result[Latest(r)]
  <2>1. /\ Finalize(r, mid, reason, att, res, now >= Deadline)
        /\ UNCHANGED <<attemptCount, attemptState, evidence>>
        /\ result' = [result EXCEPT ![a] = k]
        /\ attemptState[a] # "NONE"
    BY <1>12 DEF RecordRunResult
  <2>2. attemptState'[Latest(r)] = att /\ result'[Latest(r)] = res /\ evidence' = evidence
    BY <1>1, <1>7, <2>1 DEF TypeOK
  <2>3. mid \in {runState[r], "RUNNING", "WAITING"}
    OBVIOUS
  <2> HIDE DEF mid, reason, att, res
  <2> QED BY <1>1, <1>7, <2>1, <2>2, <2>3, FinalizeMoves
<1>13. CASE ReportStep
  BY <1>4, <1>9, <1>10, <1>11, <1>12, <1>13
     DEF ReportStep, RecordDiff, RecordPublication, RecordGate, RecordEvidence, runVars
<1>14. ASSUME NEW S, Withdraw(S) PROVE RunsMove
  BY <1>14 DEF Withdraw, RunsMove
<1>15. CASE RevocationStep
  BY <1>4, <1>14, <1>15 DEF RevocationStep, ApplyRevocation, RevokeRun, runVars
<1>16. CASE OutsideStep \/ UNCHANGED vars
  BY <1>4, <1>16
     DEF OutsideStep, ReplaceRunnerPolicy, ChangeRunnerFacts, RevokeRunner,
         AdvanceConnectorEpoch, RemoveMember, Tick, KeepsOwnState, vars, runVars
<1> QED BY <1>5, <1>6, <1>13, <1>15, <1>16 DEF Next

--------------------------------------------------------------------------------
(* A run completes on evidence *)

\* No run completes without an exited attempt, a delivered result and gates that
\* passed on the newest diff, for any number of attempts, gates and heads.
THEOREM CompletionNeedsEvidence == Spec => CompletionIsEvidenced
<1>1. AttemptsInv /\ [Next]_vars =>
        [\A r \in Runs : runState[r] # "COMPLETED" /\ runState'[r] = "COMPLETED" =>
          /\ attemptState'[Latest(r)] = "EXITED"
          /\ result'[Latest(r)] \in Delivered
          /\ \A h \in Heads : evidence'[r].diff = h =>
                \A g \in Gates : evidence'[r].gates[<<h, g>>] = "PASSED"]_vars
  <2> SUFFICES ASSUME AttemptsInv, [Next]_vars, NEW r \in Runs,
                      runState[r] # "COMPLETED", runState'[r] = "COMPLETED"
               PROVE  /\ attemptState'[Latest(r)] = "EXITED"
                      /\ result'[Latest(r)] \in Delivered
                      /\ \A h \in Heads : evidence'[r].diff = h =>
                            \A g \in Gates : evidence'[r].gates[<<h, g>>] = "PASSED"
    OBVIOUS
  <2>1. ~CancelRun(r)
    BY DEF CancelRun, SetRun, AttemptsInv, TypeOK
  <2>2. Completes(r)
    BY <2>1, RunsStep DEF RunsMove
  <2>3. ASSUME NEW h \in Heads, evidence'[r].diff = h, NEW g \in Gates
        PROVE  evidence'[r].gates[<<h, g>>] = "PASSED"
    <3>1. evidence[r].diff = h /\ h # NoHead
      BY <2>2, <2>3, ConstantsAssumption DEF Completes, NoHead
    <3>2. CurrentHead(r) = h
      BY <3>1 DEF CurrentHead
    <3> QED BY <2>2, <3>2 DEF Completes, GatesPassed
  <2> QED BY <2>2, <2>3 DEF Completes
<1> QED BY <1>1, AttemptsInvariant, PTL DEF Spec, CompletionIsEvidenced

--------------------------------------------------------------------------------
(* Authority ends together *)

\* What is known of sessions and leases: a permit that can still be consumed has
\* opened no session, only mutating attempts have leases, these follow their
\* sessions, and no session outlives the run's deadline.
PermitComesFirst == \A a \in Attempts : permit[a].state = "ISSUED" => session[a].state = "NONE"
MutatorsHoldLeases == \A a \in Attempts : a[1] \notin MutatingRuns => lease[a].state = "NONE"
SessionsWithinDeadline == \A a \in Attempts : session[a].expires <= Deadline
SessionInv ==
    PermitComesFirst /\ MutatorsHoldLeases /\ LeaseFollowsSession /\ SessionsWithinDeadline

\* What is known of an authorized operation: it names a fence its session has
\* reached, lives no longer than the session under that fence, and names a lease
\* when its kind needs one.
OperationsInv ==
    \A o \in operations :
        LET s == session[o.attempt]
        IN  /\ s.state # "NONE"
            /\ o.sessionFence <= s.fence
            /\ o.sessionFence = s.fence => o.expires <= s.expires
            /\ o.expires <= Deadline
            /\ NeedsLease(o.kind) => o.leaseFence # 0

EndInv == SessionInv /\ OperationsInv /\ CancelledRunHasNoAuthority /\ RevocationHolds

\* Closing sessions leaves fences and expiries, and closes leases with sessions.
LEMMA CloseMoves ==
    ASSUME TypeOK, SessionInv, NEW S \in SUBSET Attempts, NEW s \in {"RELEASED", "REVOKED"},
           CloseSessions(S, s), NEW a \in Attempts
    PROVE  /\ session'[a].fence = session[a].fence /\ session'[a].expires = session[a].expires
           /\ lease'[a].fence = lease[a].fence /\ lease'[a].expires = lease[a].expires
           /\ session'[a].state = IF a \in S /\ session[a].state = "ACTIVE" THEN s
                                  ELSE session[a].state
           /\ lease'[a].state = IF a \in S /\ lease[a].state = "ACTIVE" THEN s
                                ELSE lease[a].state
<1>1. session[a] \in SessionRow /\ lease[a] \in LeaseRow
  BY DEF TypeOK
<1>2. /\ session'[a] = IF a \in S /\ session[a].state = "ACTIVE"
                       THEN [session[a] EXCEPT !.state = s] ELSE session[a]
      /\ lease'[a] = IF a \in S /\ lease[a].state = "ACTIVE"
                     THEN [lease[a] EXCEPT !.state = s] ELSE lease[a]
  BY DEF CloseSessions
<1> QED BY <1>1, <1>2 DEF SessionRow, LeaseRow

\* A consumed permit opens the session of its attempt, a renewal moves both
\* fences on; no other attempt's authority is touched.
LEMMA OpenMoves ==
    ASSUME TypeOK, NEW a \in Attempts, ConsumePermit(a) \/ RenewSession(a)
    PROVE  /\ session'[a].state = "ACTIVE" /\ session'[a].expires <= Deadline
           /\ session'[a].fence = IF RenewSession(a) THEN session[a].fence + 1 ELSE 1
           /\ \/ a[1] \notin MutatingRuns /\ lease' = lease
              \/ /\ a[1] \in MutatingRuns
                 /\ lease'[a].state = "ACTIVE" /\ lease'[a].expires = session'[a].expires
                 /\ lease'[a].fence = IF RenewSession(a) THEN lease[a].fence + 1 ELSE 1
           /\ \A b \in Attempts : b # a => session'[b] = session[b] /\ lease'[b] = lease[b]
           /\ RenewSession(a) => session[a].state = "ACTIVE" /\ permit' = permit
           /\ ~RenewSession(a) => /\ permit[a].state = "ISSUED"
                                  /\ permit' = [permit EXCEPT ![a].state = "CONSUMED"]
<1> DEFINE expires == Least(now + SessionSeconds, Deadline)
<1>1. session[a] \in SessionRow /\ lease[a] \in LeaseRow /\ now \in Nat
  BY DEF TypeOK
<1>2. expires <= Deadline
  BY <1>1, ConstantsAssumption DEF Least
<1> HIDE DEF expires
<1>3. CASE RenewSession(a)
  <2> DEFINE s == [session[a] EXCEPT !.fence = session[a].fence + 1, !.expires = expires]
             l == [lease[a] EXCEPT !.fence = lease[a].fence + 1, !.expires = expires,
                                   !.grace = LeaseUntil(expires)]
  <2>1. session[a].state = "ACTIVE" /\ permit' = permit
    BY <1>3 DEF RenewSession, SessionUsable
  <2>2. session' = [session EXCEPT ![a] = s]
    BY <1>3 DEF RenewSession, expires
  <2>3. \/ a[1] \notin MutatingRuns /\ lease' = lease
        \/ a[1] \in MutatingRuns /\ lease[a].state = "ACTIVE" /\ lease' = [lease EXCEPT ![a] = l]
    BY <1>3 DEF RenewSession, expires
  <2>4. s.state = session[a].state /\ s.expires = expires /\ s.fence = session[a].fence + 1
    BY <1>1 DEF SessionRow
  <2>5. l.state = lease[a].state /\ l.expires = expires /\ l.fence = lease[a].fence + 1
    BY <1>1 DEF LeaseRow
  <2> HIDE DEF s, l
  <2>6. session'[a] = s /\ \A b \in Attempts : b # a => session'[b] = session[b]
    BY <2>2 DEF TypeOK
  <2>7. CASE a[1] \in MutatingRuns
    <3>1. lease'[a] = l /\ \A b \in Attempts : b # a => lease'[b] = lease[b]
      BY <2>3, <2>7 DEF TypeOK
    <3> QED BY <1>2, <1>3, <2>1, <2>3, <2>4, <2>5, <2>6, <2>7, <3>1
  <2>8. CASE a[1] \notin MutatingRuns
    BY <1>2, <1>3, <2>1, <2>3, <2>4, <2>6, <2>8
  <2> QED BY <2>7, <2>8
<1>4. CASE ~RenewSession(a)
  <2>1. /\ session' = [session EXCEPT ![a] =
                          [state |-> "ACTIVE", fence |-> 1, expires |-> expires]]
        /\ permit[a].state = "ISSUED" /\ permit' = [permit EXCEPT ![a].state = "CONSUMED"]
        /\ a[1] \notin MutatingRuns => lease' = lease
        /\ a[1] \in MutatingRuns =>
              lease' = [lease EXCEPT ![a] = [state |-> "ACTIVE", fence |-> 1,
                            expires |-> expires, grace |-> LeaseUntil(expires)]]
    BY <1>4 DEF ConsumePermit, OpenSession, SetPermit, expires
  <2>2. /\ session'[a] = [state |-> "ACTIVE", fence |-> 1, expires |-> expires]
        /\ \A b \in Attempts : b # a => session'[b] = session[b]
    BY <2>1 DEF TypeOK
  <2>3. CASE a[1] \in MutatingRuns
    <3>1. /\ lease'[a] = [state |-> "ACTIVE", fence |-> 1, expires |-> expires,
                          grace |-> LeaseUntil(expires)]
          /\ \A b \in Attempts : b # a => lease'[b] = lease[b]
      BY <2>1, <2>3 DEF TypeOK
    <3> QED BY <1>2, <1>4, <2>1, <2>2, <2>3, <3>1
  <2>4. CASE a[1] \notin MutatingRuns
    BY <1>2, <1>4, <2>1, <2>2, <2>4
  <2> QED BY <2>3, <2>4
<1> QED BY <1>3, <1>4

\* SessionInv is inductive relative to AttemptsInv.
LEMMA SessionStep == AttemptsInv /\ SessionInv /\ [Next]_vars => SessionInv'
<1> SUFFICES ASSUME AttemptsInv, SessionInv, [Next]_vars PROVE SessionInv'
  OBVIOUS
<1>1. TypeOK /\ PermitsMove /\ SessionsMove
  BY PermitsStep, OthersStep DEF AttemptsInv
<1>2. \A b \in Attempts : permit'[b].state = "ISSUED" => session[b].state = "NONE"
  BY <1>1 DEF PermitsMove, Created, SessionInv, PermitComesFirst
<1>3. CASE UNCHANGED <<session, lease>>
  BY <1>2, <1>3 DEF SessionInv, PermitComesFirst, MutatorsHoldLeases, LeaseFollowsSession,
                    SessionsWithinDeadline
<1>4. ASSUME NEW S \in SUBSET Attempts, NEW s \in {"RELEASED", "REVOKED"}, CloseSessions(S, s)
      PROVE  SessionInv'
  <2>1. ASSUME NEW a \in Attempts
        PROVE  /\ session'[a].fence = session[a].fence /\ session'[a].expires = session[a].expires
               /\ lease'[a].fence = lease[a].fence /\ lease'[a].expires = lease[a].expires
               /\ session'[a].state = IF a \in S /\ session[a].state = "ACTIVE" THEN s
                                      ELSE session[a].state
               /\ lease'[a].state = IF a \in S /\ lease[a].state = "ACTIVE" THEN s
                                    ELSE lease[a].state
    BY <1>1, <1>4, <2>1, CloseMoves
  <2>2. PermitComesFirst' /\ MutatorsHoldLeases'
    BY <1>2, <2>1 DEF SessionInv, PermitComesFirst, MutatorsHoldLeases
  <2>3. LeaseFollowsSession' /\ SessionsWithinDeadline'
    BY <2>1 DEF SessionInv, LeaseFollowsSession, SessionsWithinDeadline
  <2> QED BY <2>2, <2>3 DEF SessionInv
<1>5. ASSUME NEW a \in Attempts, ConsumePermit(a) \/ RenewSession(a) PROVE SessionInv'
  <2>1. /\ session'[a].state = "ACTIVE" /\ session'[a].expires <= Deadline
        /\ session'[a].fence = IF RenewSession(a) THEN session[a].fence + 1 ELSE 1
        /\ \/ a[1] \notin MutatingRuns /\ lease' = lease
           \/ /\ a[1] \in MutatingRuns
              /\ lease'[a].state = "ACTIVE" /\ lease'[a].expires = session'[a].expires
              /\ lease'[a].fence = IF RenewSession(a) THEN lease[a].fence + 1 ELSE 1
        /\ \A b \in Attempts : b # a => session'[b] = session[b] /\ lease'[b] = lease[b]
        /\ RenewSession(a) => session[a].state = "ACTIVE" /\ permit' = permit
        /\ ~RenewSession(a) => /\ permit[a].state = "ISSUED"
                               /\ permit' = [permit EXCEPT ![a].state = "CONSUMED"]
    BY <1>1, <1>5, OpenMoves
  <2>2. permit'[a].state # "ISSUED"
    <3>1. CASE RenewSession(a)
      BY <2>1, <3>1 DEF SessionInv, PermitComesFirst
    <3>2. CASE ~RenewSession(a)
      BY <1>1, <2>1, <3>2 DEF TypeOK, PermitRow
    <3> QED BY <3>1, <3>2
  <2>3. PermitComesFirst'
    BY <1>2, <2>1, <2>2 DEF PermitComesFirst
  <2>4. MutatorsHoldLeases'
    BY <2>1 DEF SessionInv, MutatorsHoldLeases
  <2>5. LeaseFollowsSession'
    BY <2>1 DEF SessionInv, LeaseFollowsSession
  <2>6. SessionsWithinDeadline'
    BY <2>1 DEF SessionInv, SessionsWithinDeadline
  <2> QED BY <2>3, <2>4, <2>5, <2>6 DEF SessionInv
<1> QED BY <1>1, <1>3, <1>4, <1>5 DEF SessionsMove

\* A session that exists only moves its fence on, and keeps its expiry until then.
LEMMA SessionsGrow ==
    ASSUME AttemptsInv, SessionInv, [Next]_vars, NEW a \in Attempts, session[a].state # "NONE"
    PROVE  /\ session'[a].state # "NONE"
           /\ session[a].fence <= session'[a].fence
           /\ session'[a].fence = session[a].fence => session'[a].expires = session[a].expires
<1>1. TypeOK /\ SessionsMove /\ session[a].fence \in Nat
  BY OthersStep DEF AttemptsInv, TypeOK, SessionRow
<1>2. CASE UNCHANGED <<session, lease>>
  BY <1>1, <1>2
<1>3. ASSUME NEW S \in SUBSET Attempts, NEW s \in {"RELEASED", "REVOKED"}, CloseSessions(S, s)
      PROVE  /\ session'[a].state # "NONE"
             /\ session'[a].fence = session[a].fence
             /\ session'[a].expires = session[a].expires
  BY <1>1, <1>3, CloseMoves
<1>4. ASSUME NEW b \in Attempts, ConsumePermit(b) \/ RenewSession(b)
      PROVE  /\ session'[a].state # "NONE"
             /\ \/ session'[a] = session[a]
                \/ session'[a].fence = session[a].fence + 1
  <2>1. /\ session'[b].state = "ACTIVE"
        /\ session'[b].fence = IF RenewSession(b) THEN session[b].fence + 1 ELSE 1
        /\ \A c \in Attempts : c # b => session'[c] = session[c]
        /\ ~RenewSession(b) => permit[b].state = "ISSUED"
    BY <1>1, <1>4, OpenMoves
  <2>2. CASE a = b
    BY <2>1, <2>2 DEF SessionInv, PermitComesFirst
  <2> QED BY <2>1, <2>2
<1> QED BY <1>1, <1>2, <1>3, <1>4 DEF SessionsMove

\* The row AUTHORIZE_OPERATION adds.
Authorized(o) ==
    /\ session[o.attempt].state = "ACTIVE"
    /\ o.sessionFence = session[o.attempt].fence
    /\ o.expires <= session[o.attempt].expires
    /\ NeedsLease(o.kind) => o.leaseFence # 0
    /\ KeepsAllButOperations
\* The same operation, in whatever state.
SameOperation(o, p) ==
    /\ o.attempt = p.attempt /\ o.kind = p.kind
    /\ o.sessionFence = p.sessionFence /\ o.leaseFence = p.leaseFence
    /\ o.expires = p.expires

\* Every operation was there before, and is authorized no longer once it was not,
\* or it is authorized by this step.
LEMMA OperationsKept ==
    ASSUME TypeOK, [Next]_vars, NEW o \in operations'
    PROVE  \/ \E p \in operations : SameOperation(o, p) /\ (o.state = "ISSUED" => p = o)
           \/ Authorized(o)
<1>1. OperationsMove /\ \A p \in operations : p \in OperationRow
  BY OthersStep DEF TypeOK
<1>2. ASSUME o \in operations
      PROVE  \E p \in operations : SameOperation(o, p) /\ (o.state = "ISSUED" => p = o)
  BY <1>2 DEF SameOperation
<1>3. ASSUME NEW p \in operations, NEW s \in {"CONSUMED", "EXPIRED", "REVOKED"},
             o = [p EXCEPT !.state = s]
      PROVE  SameOperation(o, p) /\ o.state # "ISSUED"
  BY <1>1, <1>3 DEF SameOperation, OperationRow
<1>4. ASSUME NEW p \in operations, ConsumeOperation(p) \/ ExpireOperation(p), o \notin operations
      PROVE  \E q \in operations : SameOperation(o, q) /\ o.state # "ISSUED"
  <2>1. o = [p EXCEPT !.state = "CONSUMED"] \/ o = [p EXCEPT !.state = "EXPIRED"]
    BY <1>4 DEF ConsumeOperation, ExpireOperation, Replaces
  <2> QED BY <1>3, <2>1
<1>5. ASSUME NEW r \in Runs, CancelRun(r), o \notin operations
      PROVE  \E q \in operations : SameOperation(o, q) /\ o.state # "ISSUED"
  <2>1. PICK p \in operations : o = [p EXCEPT !.state = "REVOKED"]
    BY <1>5 DEF CancelRun
  <2> QED BY <1>3, <2>1
<1>6. ASSUME NEW a \in Attempts, NEW k \in OperationKinds, AuthorizeOperation(a, k),
             o \notin operations
      PROVE  Authorized(o)
  <2> DEFINE lived == IF LeaseFence(a) = 0 THEN session[a].expires ELSE lease[a].expires
             until == Least(now + OperationSeconds, Least(session[a].expires, lived))
  <2>1. /\ o.attempt = a /\ o.kind = k /\ o.sessionFence = session[a].fence
        /\ o.leaseFence = LeaseFence(a) /\ o.expires = until
        /\ session[a].state = "ACTIVE" /\ KeepsAllButOperations
        /\ NeedsLease(k) => LeaseFence(a) # 0
    BY <1>6 DEF AuthorizeOperation, SessionUsable
  <2>2. until <= session[a].expires
    <3>1. now \in Nat /\ session[a].expires \in Nat /\ lived \in Nat
      BY DEF TypeOK, SessionRow, LeaseRow
    <3> HIDE DEF lived
    <3> QED BY <3>1, ConstantsAssumption DEF Least
  <2> HIDE DEF until
  <2> QED BY <2>1, <2>2 DEF Authorized
<1> QED BY <1>1, <1>2, <1>4, <1>5, <1>6 DEF OperationsMove

\* OperationsInv is inductive relative to AttemptsInv and SessionInv.
LEMMA OperationsStep == AttemptsInv /\ SessionInv /\ OperationsInv /\ [Next]_vars => OperationsInv'
<1> SUFFICES ASSUME AttemptsInv, SessionInv, OperationsInv, [Next]_vars, NEW o \in operations'
             PROVE  LET s == session'[o.attempt]
                    IN  /\ s.state # "NONE"
                        /\ o.sessionFence <= s.fence
                        /\ o.sessionFence = s.fence => o.expires <= s.expires
                        /\ o.expires <= Deadline
                        /\ NeedsLease(o.kind) => o.leaseFence # 0
  BY DEF OperationsInv
<1>1. TypeOK /\ TypeOK'
  BY TypeStep DEF AttemptsInv
<1> DEFINE a == o.attempt
<1>2. /\ a \in Attempts /\ o.sessionFence \in Nat /\ o.expires \in Nat
      /\ session[a].fence \in Nat /\ session[a].expires \in Nat
      /\ session'[a].fence \in Nat /\ session'[a].expires \in Nat
  BY <1>1 DEF TypeOK, OperationRow, SessionRow
<1>3. CASE \E p \in operations : SameOperation(o, p)
  <2>1. /\ session[a].state # "NONE"
        /\ o.sessionFence <= session[a].fence
        /\ o.sessionFence = session[a].fence => o.expires <= session[a].expires
        /\ o.expires <= Deadline
        /\ NeedsLease(o.kind) => o.leaseFence # 0
    BY <1>3 DEF OperationsInv, SameOperation
  <2>2. /\ session'[a].state # "NONE"
        /\ session[a].fence <= session'[a].fence
        /\ session'[a].fence = session[a].fence => session'[a].expires = session[a].expires
    BY <1>2, <2>1, SessionsGrow
  <2> QED BY <1>2, <2>1, <2>2
<1>4. CASE Authorized(o)
  <2>1. /\ session' = session /\ session[a].state = "ACTIVE"
        /\ o.sessionFence = session[a].fence
        /\ o.expires <= session[a].expires
        /\ NeedsLease(o.kind) => o.leaseFence # 0
    BY <1>4 DEF Authorized, KeepsAllButOperations
  <2>2. session[a].expires <= Deadline
    BY <1>2 DEF SessionInv, SessionsWithinDeadline
  <2> QED BY <1>2, <2>1, <2>2, ConstantsAssumption
<1> QED BY <1>1, <1>3, <1>4, OperationsKept

\* A lease is live only with its session.
LEMMA LeaseNeedsSession ==
    ASSUME SessionInv, NEW a \in Attempts, lease[a].state = "ACTIVE"
    PROVE  session[a].state = "ACTIVE" /\ a[1] \in MutatingRuns
BY DEF SessionInv, LeaseFollowsSession, MutatorsHoldLeases

\* A session becomes live only from a permit.
LEMMA SessionNeedsPermit ==
    ASSUME AttemptsInv, SessionInv, [Next]_vars, NEW a \in Attempts, session'[a].state = "ACTIVE"
    PROVE  session[a].state = "ACTIVE" \/ ConsumePermit(a)
<1>1. TypeOK /\ SessionsMove
  BY OthersStep DEF AttemptsInv
<1>2. ASSUME NEW S \in SUBSET Attempts, NEW s \in {"RELEASED", "REVOKED"}, CloseSessions(S, s)
      PROVE  session[a].state = "ACTIVE"
  <2>1. session'[a].state = IF a \in S /\ session[a].state = "ACTIVE" THEN s
                            ELSE session[a].state
    BY <1>1, <1>2, CloseMoves
  <2> QED BY <2>1
<1>3. ASSUME NEW b \in Attempts, ConsumePermit(b) \/ RenewSession(b)
      PROVE  session[a].state = "ACTIVE" \/ ConsumePermit(a)
  <2>1. /\ \A c \in Attempts : c # b => session'[c] = session[c]
        /\ RenewSession(b) => session[b].state = "ACTIVE"
    BY <1>1, <1>3, OpenMoves
  <2> QED BY <1>3, <2>1
<1> QED BY <1>1, <1>2, <1>3 DEF SessionsMove

\* Withdrawing authority from a set of attempts ends their permits and sessions.
LEMMA WithdrawnHoldNothing ==
    ASSUME TypeOK, SessionInv, NEW S \in SUBSET Attempts, NEW a \in S,
           CloseSessions(S, "REVOKED")
    PROVE  session'[a].state # "ACTIVE"
<1>1. a \in Attempts
  OBVIOUS
<1> QED BY <1>1, CloseMoves

\* A cancelled run keeps no authority: the run's state ends it, and nothing that
\* could renew it is left.
LEMMA CancelledStep ==
    AttemptsInv /\ SessionInv /\ CancelledRunHasNoAuthority /\ [Next]_vars
        => CancelledRunHasNoAuthority'
<1> SUFFICES ASSUME AttemptsInv, SessionInv, CancelledRunHasNoAuthority, [Next]_vars,
                    NEW a \in Attempts, runState'[a[1]] = "CANCELLED"
             PROVE  /\ permit'[a].state # "ISSUED"
                    /\ session'[a].state # "ACTIVE"
                    /\ lease'[a].state # "ACTIVE"
                    /\ \A o \in operations' : o.attempt = a => o.state # "ISSUED"
                    /\ attemptState'[a] \in ActiveAttempt => <<a, "CANCEL_ATTEMPT">> \in intents'
  BY DEF CancelledRunHasNoAuthority
<1>1. /\ TypeOK /\ TypeOK' /\ SessionInv'
      /\ PermitsMove /\ RunsMove /\ a[1] \in Runs
  BY TypeStep, SessionStep, PermitsStep, RunsStep DEF AttemptsInv, Attempts
<1>2. ASSUME session'[a].state # "ACTIVE" PROVE lease'[a].state # "ACTIVE"
  BY <1>1, <1>2 DEF SessionInv, LeaseFollowsSession, MutatorsHoldLeases
<1>3. CASE CancelRun(a[1])
  <2>1. a \in AttemptsOf(a[1]) /\ AttemptsOf(a[1]) \in SUBSET Attempts
    BY DEF AttemptsOf
  <2>2. permit'[a].state # "ISSUED"
    <3>1. permit'[a] = IF permit[a].state = "ISSUED"
                       THEN [permit[a] EXCEPT !.state = "REVOKED"] ELSE permit[a]
      BY <1>3, <2>1 DEF CancelRun, RevokePermits
    <3> QED BY <1>1, <3>1 DEF TypeOK, PermitRow
  <2>3. session'[a].state # "ACTIVE"
    BY <1>1, <1>3, <2>1, WithdrawnHoldNothing DEF CancelRun
  <2>4. ASSUME NEW o \in operations', o.attempt = a PROVE o.state # "ISSUED"
    <3>1. PICK p \in operations : o = IF p.attempt[1] = a[1] /\ p.state = "ISSUED"
                                      THEN [p EXCEPT !.state = "REVOKED"] ELSE p
      BY <1>3 DEF CancelRun
    <3>2. p \in OperationRow
      BY <1>1 DEF TypeOK
    <3> QED BY <2>4, <3>1, <3>2 DEF OperationRow
  <2>5. ASSUME attemptState'[a] \in ActiveAttempt PROVE <<a, "CANCEL_ATTEMPT">> \in intents'
    BY <1>3, <2>1, <2>5 DEF CancelRun, ActiveAttempts
  <2> QED BY <1>2, <2>2, <2>3, <2>4, <2>5
<1>4. CASE ~CancelRun(a[1])
  <2>1. runState[a[1]] = "CANCELLED"
    BY <1>1, <1>4 DEF RunsMove, Completes
  <2>2. /\ permit[a].state # "ISSUED"
        /\ session[a].state # "ACTIVE"
        /\ \A o \in operations : o.attempt = a => o.state # "ISSUED"
        /\ attemptState[a] \in ActiveAttempt => <<a, "CANCEL_ATTEMPT">> \in intents
    BY <2>1 DEF CancelledRunHasNoAuthority
  <2>3. ~Created(a)
    BY DEF Created
  <2>4. permit'[a].state # "ISSUED"
    BY <1>1, <2>2, <2>3 DEF PermitsMove
  <2>5. session'[a].state # "ACTIVE"
    BY <2>2, SessionNeedsPermit DEF ConsumePermit
  <2>6. ASSUME NEW o \in operations', o.attempt = a PROVE o.state # "ISSUED"
    <3>1. ~Authorized(o)
      BY <2>2, <2>6 DEF Authorized
    <3> QED BY <1>1, <2>2, <2>6, <3>1, OperationsKept
  <2>7. ASSUME attemptState'[a] \in ActiveAttempt PROVE <<a, "CANCEL_ATTEMPT">> \in intents'
    <3>1. attemptState[a] # "NONE"
      BY <1>1, <2>3, <2>7 DEF PermitsMove, ActiveAttempt
    <3>2. attemptState[a] \notin TerminalAttempt
      BY <2>7, TerminalAttemptsStay DEF ActiveAttempt, TerminalAttempt
    <3>3. attemptState[a] \in ActiveAttempt
      BY <1>1, <3>1, <3>2 DEF TypeOK, AttemptStates
    <3> QED BY <2>2, <3>3, IntentsStep
  <2> QED BY <1>2, <2>4, <2>5, <2>6, <2>7
<1> QED BY <1>3, <1>4

\* Run r, its runner or its dispatcher is revoked.
IsRevoked(r) == r \in revokedRuns \/ revoked["RUNNER"] > 0 \/ revoked["DISPATCHER"] > 0

\* A revocation is recorded together with the end of every session it reaches,
\* and no permit is consumed against it.
LEMMA RevocationsStep ==
    AttemptsInv /\ SessionInv /\ RevocationHolds /\ [Next]_vars => RevocationHolds'
<1> SUFFICES ASSUME AttemptsInv, SessionInv, RevocationHolds, [Next]_vars, NEW a \in Attempts,
                    attemptState'[a] \in ActiveAttempt, IsRevoked(a[1])'
             PROVE  session'[a].state # "ACTIVE" /\ lease'[a].state # "ACTIVE"
  BY DEF RevocationHolds, IsRevoked
<1>0. SessionInv'
  BY SessionStep
<1> SUFFICES ASSUME session'[a].state = "ACTIVE" PROVE FALSE
  BY <1>0 DEF SessionInv, LeaseFollowsSession, MutatorsHoldLeases
<1>1. TypeOK /\ PermitsMove /\ RevocationsMove /\ a[1] \in Runs
  BY PermitsStep, OthersStep DEF AttemptsInv, Attempts
<1>2. /\ "RUNNER" \in EpochSources /\ "DISPATCHER" \in EpochSources
      /\ revoked["RUNNER"] \in Nat /\ revoked["DISPATCHER"] \in Nat
  BY <1>1 DEF TypeOK, EpochSources, MemberRoles
<1>3. ~ConsumePermit(a)
  <2> SUFFICES ASSUME ConsumePermit(a) PROVE FALSE
    OBVIOUS
  <2>1. revoked' = revoked /\ revokedRuns' = revokedRuns /\ PermitStands(a)
    BY DEF ConsumePermit, revocationVars
  <2> QED BY <1>2, <2>1 DEF PermitStands, IsRevoked
<1>4. session[a].state = "ACTIVE"
  BY <1>3, SessionNeedsPermit
<1>5. attemptState[a] \in ActiveAttempt
  <2>1. attemptState[a] # "NONE"
    BY <1>4 DEF AttemptsInv, AuthorityHasAttempt
  <2>2. attemptState[a] \notin TerminalAttempt
    BY TerminalAttemptsStay DEF ActiveAttempt, TerminalAttempt
  <2> QED BY <1>1, <2>1, <2>2 DEF TypeOK, AttemptStates
<1>6. ~IsRevoked(a[1])
  BY <1>4, <1>5 DEF RevocationHolds, IsRevoked
<1>7. CASE UNCHANGED revocationVars
  BY <1>6, <1>7 DEF revocationVars, IsRevoked
<1>8. a \in ActiveAttempts /\ ActiveAttempts \in SUBSET Attempts /\ a \in AttemptsOf(a[1])
  BY <1>5 DEF ActiveAttempts, AttemptsOf
<1>9. ASSUME NEW s \in RevocationKinds, ApplyRevocation(s) PROVE FALSE
  <2>1. revokedRuns' = revokedRuns
    BY <1>9 DEF ApplyRevocation
  <2>2. revoked' = revoked \/ revoked' = [revoked EXCEPT ![s] = SourceEpoch(s)]
    BY <1>9 DEF ApplyRevocation
  <2>3. s \in {"RUNNER", "DISPATCHER"}
    BY <1>1, <1>2, <1>6, <2>1, <2>2 DEF TypeOK, IsRevoked
  <2>4. Affected(s) = ActiveAttempts
    BY <2>3 DEF Affected, MemberRoles
  <2>5. CloseSessions(ActiveAttempts, "REVOKED")
    BY <1>9, <2>3, <2>4 DEF ApplyRevocation, Withdraw
  <2> QED BY <1>1, <1>8, <2>5, WithdrawnHoldNothing
<1>10. ASSUME NEW r \in RevocableRuns, RevokeRun(r) PROVE FALSE
  <2>1. revoked' = revoked /\ revokedRuns' = revokedRuns \cup {r}
    BY <1>10 DEF RevokeRun
  <2>2. a[1] = r
    BY <1>6, <2>1 DEF IsRevoked
  <2>3. CloseSessions(AttemptsOf(r) \cap ActiveAttempts, "REVOKED")
    BY <1>10 DEF RevokeRun, Withdraw
  <2>4. a \in AttemptsOf(r) \cap ActiveAttempts /\ AttemptsOf(r) \cap ActiveAttempts \in SUBSET Attempts
    BY <1>8, <2>2
  <2> QED BY <1>1, <2>3, <2>4, WithdrawnHoldNothing
<1> QED BY <1>1, <1>7, <1>9, <1>10 DEF RevocationsMove

\* EndInv holds of every reachable state.
LEMMA EndInvariant == Spec => [](AttemptsInv /\ GuardInv /\ EndInv)
<1>1. Init => AttemptsInv /\ GuardInv /\ EndInv
  <2>1. Init => SessionInv /\ OperationsInv
    BY ConstantsAssumption
       DEF Init, SessionInv, PermitComesFirst, MutatorsHoldLeases, LeaseFollowsSession,
           SessionsWithinDeadline, OperationsInv, NoPermit, NoSession, NoLease
  <2>2. Init => CancelledRunHasNoAuthority /\ RevocationHolds
    BY DEF Init, CancelledRunHasNoAuthority, RevocationHolds, NoSession, NoLease, Attempts,
           ActiveAttempt
  <2> QED BY <2>1, <2>2, AttemptsInit, GuardInit DEF EndInv
<1>2. (AttemptsInv /\ GuardInv /\ EndInv) /\ [Next]_vars => (AttemptsInv /\ GuardInv /\ EndInv)'
  BY AttemptsStep, GuardStep, SessionStep, OperationsStep, CancelledStep, RevocationsStep
     DEF EndInv
<1> QED BY <1>1, <1>2, PTL DEF Spec

\* Two live leases on one record stand under its one guard.
LEMMA SharedUnderGuard == AttemptsInv /\ GuardInv /\ EndInv => LeasesShareGuard
<1> SUFFICES ASSUME AttemptsInv, GuardInv, EndInv, NEW a \in Attempts, NEW b \in Attempts,
                    RecordOf[a[1]] = RecordOf[b[1]],
                    \A x \in {a, b} : attemptState[x] \in ActiveAttempt /\ lease[x].state = "ACTIVE"
             PROVE  \E g \in Runs : guard[g] = "HELD" /\ {a[1], b[1]} \subseteq Participants(g)
  BY DEF LeasesShareGuard
<1>1. ASSUME NEW x \in {a, b} PROVE x[1] \in MutatingRuns /\ Unfinished(x[1])
  <2>1. x \in Attempts /\ attemptState[x] \in ActiveAttempt /\ lease[x].state = "ACTIVE"
    BY <1>1
  <2>2. x[1] \in MutatingRuns
    BY <2>1, LeaseNeedsSession DEF EndInv
  <2>3. runState[x[1]] \notin {"COMPLETED", "FAILED", "NONE"}
    BY <2>1 DEF AttemptsInv, AttemptsSequential
  <2>4. runState[x[1]] # "CANCELLED"
    BY <2>1 DEF EndInv, CancelledRunHasNoAuthority
  <2> QED BY <2>2, <2>3, <2>4 DEF Unfinished, Launched, TerminalRun
<1>2. PICK g \in Runs : guard[g] = "HELD" /\ RecordOf[g] = RecordOf[a[1]] /\ a[1] \in Participants(g)
  BY <1>1 DEF GuardInv, UnfinishedIsGuarded
<1>3. PICK h \in Runs : guard[h] = "HELD" /\ RecordOf[h] = RecordOf[b[1]] /\ b[1] \in Participants(h)
  BY <1>1 DEF GuardInv, UnfinishedIsGuarded
<1>4. g = h
  BY <1>2, <1>3 DEF GuardInv, OneHeldPerRecord
<1> QED BY <1>2, <1>3, <1>4

\* Authority ends with what it rests on, for any number of runs, attempts and records:
\* leases follow their sessions and share a record only under its guard, a cancelled
\* run keeps nothing it could still use, and a revocation leaves no session behind.
THEOREM AuthorityHasOneEnd == Spec => []AuthorityEndsTogether
<1>1. AttemptsInv /\ GuardInv /\ EndInv => AuthorityEndsTogether
  BY SharedUnderGuard DEF EndInv, SessionInv, AuthorityEndsTogether
<1> QED BY <1>1, EndInvariant, PTL

\* An operation that is carried out was authorized under the session that is live
\* now, neither renewed nor cancelled since, and within its deadline.
THEOREM OperationsStayWithinAuthority == Spec => OperationsWithinAuthority
<1>1. AttemptsInv /\ EndInv /\ [Next]_vars =>
        [\A o \in operations :
          o.state = "ISSUED" /\ [o EXCEPT !.state = "CONSUMED"] \in operations' \ operations =>
             LET a == o.attempt
             IN  /\ session[a].state = "ACTIVE"
                 /\ session[a].fence = o.sessionFence
                 /\ now < session[a].expires
                 /\ now < Deadline
                 /\ runState[a[1]] # "CANCELLED"
                 /\ NeedsLease(o.kind) =>
                        lease[a].state = "ACTIVE" /\ lease[a].fence = o.leaseFence]_vars
  <2> SUFFICES ASSUME AttemptsInv, EndInv, [Next]_vars, NEW o \in operations,
                      o.state = "ISSUED", [o EXCEPT !.state = "CONSUMED"] \in operations' \ operations
               PROVE  /\ session[o.attempt].state = "ACTIVE"
                      /\ session[o.attempt].fence = o.sessionFence
                      /\ now < session[o.attempt].expires
                      /\ now < Deadline
                      /\ runState[o.attempt[1]] # "CANCELLED"
                      /\ NeedsLease(o.kind) =>
                            /\ lease[o.attempt].state = "ACTIVE"
                            /\ lease[o.attempt].fence = o.leaseFence
    OBVIOUS
  <2> DEFINE done == [o EXCEPT !.state = "CONSUMED"]
             a == o.attempt
  <2>1. /\ OperationsMove /\ TypeOK /\ a \in Attempts
        /\ \A p \in operations : p \in OperationRow
    BY OthersStep DEF AttemptsInv, TypeOK, OperationRow
  <2>2. ConsumeOperation(o)
    <3>1. done.state = "CONSUMED" /\ done \notin operations /\ done \in operations'
      BY <2>1 DEF OperationRow
    <3>2. ASSUME NEW p \in operations, NEW s \in {"EXPIRED", "REVOKED"}
          PROVE  done # [p EXCEPT !.state = s]
      BY <2>1, <3>1 DEF OperationRow
    <3>3. ASSUME NEW p \in operations, ConsumeOperation(p) PROVE p = o
      <4>1. done = [p EXCEPT !.state = "CONSUMED"] /\ p.state = "ISSUED"
        BY <3>1, <3>3 DEF ConsumeOperation, Replaces
      <4> QED BY <2>1, <4>1 DEF OperationRow
    <3>4. ASSUME NEW p \in operations, ExpireOperation(p) PROVE FALSE
      BY <3>1, <3>2, <3>4 DEF ExpireOperation, Replaces
    <3>5. ASSUME NEW r \in Runs, CancelRun(r) PROVE FALSE
      <4>1. \E p \in operations : done = p \/ done = [p EXCEPT !.state = "REVOKED"]
        BY <3>1, <3>5 DEF CancelRun
      <4> QED BY <3>1, <3>2, <4>1
    <3>6. ASSUME NEW b \in Attempts, NEW k \in OperationKinds, AuthorizeOperation(b, k)
          PROVE  FALSE
      BY <3>1, <3>6 DEF AuthorizeOperation
    <3> QED BY <2>1, <3>1, <3>3, <3>4, <3>5, <3>6 DEF OperationsMove
  <2>3. /\ now < o.expires
        /\ session[a].state = "ACTIVE" /\ session[a].fence = o.sessionFence
        /\ o.leaseFence # 0 => LeaseFence(a) = o.leaseFence
    BY <2>2 DEF ConsumeOperation, FenceCurrent
  <2>4. /\ o.expires <= session[a].expires /\ o.expires <= Deadline
        /\ NeedsLease(o.kind) => o.leaseFence # 0
    BY <2>3 DEF EndInv, OperationsInv
  <2>5. now < session[a].expires /\ now < Deadline
    <3>1. now \in Nat /\ o.expires \in Nat /\ session[a].expires \in Nat
      BY <2>1 DEF TypeOK, OperationRow, SessionRow
    <3> QED BY <2>3, <2>4, <3>1, ConstantsAssumption
  <2>6. runState[a[1]] # "CANCELLED"
    BY <2>1, <2>3 DEF EndInv, CancelledRunHasNoAuthority
  <2>7. NeedsLease(o.kind) => lease[a].state = "ACTIVE" /\ lease[a].fence = o.leaseFence
    BY <2>3, <2>4 DEF LeaseFence
  <2> QED BY <2>3, <2>5, <2>6, <2>7
<1> QED BY <1>1, EndInvariant, PTL DEF Spec, OperationsWithinAuthority

===============================================================================
