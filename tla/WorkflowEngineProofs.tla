-------------------------- MODULE WorkflowEngineProofs --------------------------
(***************************************************************************)
(* Theorems about WorkflowEngine, for any executions, definitions and      *)
(* bounds that satisfy the constants' assumptions.                         *)
(***************************************************************************)
EXTENDS WorkflowEngine, FiniteSetTheorems, TLAPS

--------------------------------------------------------------------------------
(* Definitions: every target the engine selects is a node of the definition. *)

\* The node a transition leads to is a node of the definition.
LEMMA TargetIsNode ==
    ASSUME NEW d \in Definitions, NEW n, NEW k
    PROVE  TargetOf(d, n, k) \in NodesOf(d) \cup {None}
BY DefinitionsAssumption DEF TargetOf, From, ValidWorkflow, TransitionsValid

\* A node with an exact transition for a result has a target for it.
LEMMA ExactTarget ==
    ASSUME NEW d \in Definitions, NEW n, NEW k, NEW S, ExactTransition(d, n, k, S)
    PROVE  TargetOf(d, n, k) \in NodesOf(d)
BY DefinitionsAssumption DEF ExactTransition, TargetOf, From, ValidWorkflow, TransitionsValid

\* The targets named by an exact transition are nodes of the definition.
LEMMA ExactTargetNamed ==
    ASSUME NEW d \in Definitions, NEW n, NEW k, NEW t, ExactTransition(d, n, k, {t})
    PROVE  t \in NodesOf(d)
BY DefinitionsAssumption DEF ExactTransition, From, ValidWorkflow, TransitionsValid

\* An execution starts at a node of its definition.
LEMMA FirstIsNode ==
    ASSUME NEW d \in Definitions
    PROVE  TargetOf(d, StartOf(d), "STARTED") \in NodesOf(d)
<1>1. ValidWorkflow(d)
  BY DefinitionsAssumption
<1>2. OfKind(d, "START") # {}
  BY <1>1, FS_EmptySet DEF ValidWorkflow
<1>3. StartOf(d) \in OfKind(d, "START")
  BY <1>2 DEF StartOf
<1>4. StartOf(d) \in NodesOf(d) /\ d.kind[StartOf(d)] = "START"
  BY <1>3 DEF OfKind
<1>5. NodeValid(d, StartOf(d))
  BY <1>1, <1>4 DEF ValidWorkflow
<1>6. ExactTransition(d, StartOf(d), "STARTED", NodesOf(d))
  BY <1>4, <1>5 DEF NodeValid
<1> QED BY <1>6, ExactTarget

\* Routing selects a node of the definition, or none.
LEMMA RouteIsNode ==
    ASSUME NEW d \in Definitions, NEW n, NEW k
    PROVE  RouteStep(d, n, k).target \in NodesOf(d) \cup {None}
<1> DEFINE t == TargetOf(d, n, k)
<1>1. t \in NodesOf(d) \cup {None}
  BY TargetIsNode
<1>2. CASE t = None
  BY <1>2 DEF RouteStep
<1>3. CASE t # None /\ d.kind[t] # "RESULT_ROUTER"
  BY <1>1, <1>3 DEF RouteStep
<1>4. CASE t # None /\ d.kind[t] = "RESULT_ROUTER"
  <2> DEFINE r == d.router[t]
  <2>1. NodeValid(d, t)
    BY <1>1, <1>4, DefinitionsAssumption DEF ValidWorkflow
  <2>2. RouterValid(d, t)
    BY <2>1, <1>4 DEF NodeValid
  <2>3. \A key \in DOMAIN r.routes : r.routes[key] \in NodesOf(d)
    BY <2>2, ExactTargetNamed DEF RouterValid
  <2>4. r.fallback \in NodesOf(d)
    BY <2>2, ExactTargetNamed DEF RouterValid
  <2> QED BY <1>4, <2>3, <2>4 DEF RouteStep
<1> QED BY <1>2, <1>3, <1>4

\* A join commits to a node of the definition, or to none.
LEMMA JoinTargetIsNode ==
    ASSUME NEW d \in Definitions, NEW j \in OfKind(d, "JOIN"), NEW s, NEW b, NEW k
    PROVE  EvaluateJoin(d, j, s, b, k).target \in NodesOf(d) \cup {None}
<1> DEFINE terminal == s.terminal \cup {b}
           last == terminal = Range(d.branches[j])
<1>1. j \in NodesOf(d) /\ d.kind[j] = "JOIN"
  BY DEF OfKind
<1>2. JoinValid(d, j)
  <2>1. NodeValid(d, j)
    BY <1>1, DefinitionsAssumption DEF ValidWorkflow
  <2> QED BY <1>1, <2>1 DEF NodeValid
<1>3. TargetOf(d, j, k) \in NodesOf(d) \cup {None} /\ TargetOf(d, j, "ALL") \in NodesOf(d) \cup {None}
  BY TargetIsNode
<1>4. d.join[j].policy = "ANY" => d.join[j].fallback \in NodesOf(d)
  BY <1>2, ExactTargetNamed DEF JoinValid
<1>5. CASE s.committed # None \/ b \in s.terminal
  BY <1>5 DEF EvaluateJoin
<1>6. CASE /\ ~(s.committed # None \/ b \in s.terminal)
           /\ d.join[j].policy = "ANY" /\ k \in d.join[j].accepted
  BY <1>3, <1>6 DEF EvaluateJoin
<1>7. CASE /\ ~(s.committed # None \/ b \in s.terminal)
           /\ ~(d.join[j].policy = "ANY" /\ k \in d.join[j].accepted)
           /\ d.join[j].policy = "ALL" /\ last
  BY <1>3, <1>7 DEF EvaluateJoin
<1>8. CASE /\ ~(s.committed # None \/ b \in s.terminal)
           /\ ~(d.join[j].policy = "ANY" /\ k \in d.join[j].accepted)
           /\ ~(d.join[j].policy = "ALL" /\ last)
           /\ d.join[j].policy = "ANY" /\ last
  BY <1>4, <1>8 DEF EvaluateJoin
<1>9. CASE /\ ~(s.committed # None \/ b \in s.terminal)
           /\ ~(d.join[j].policy = "ANY" /\ k \in d.join[j].accepted)
           /\ ~(d.join[j].policy = "ALL" /\ last)
           /\ ~(d.join[j].policy = "ANY" /\ last)
  BY <1>9 DEF EvaluateJoin
<1> QED BY <1>5, <1>6, <1>7, <1>8, <1>9

\* What an agent run's result decides is a node of the definition, or nothing.
LEMMA OutcomeIsNode ==
    ASSUME NEW x, def[x] \in Definitions, NEW n, NEW k
    PROVE  Outcome(x, n, k).target \in NodesOf(def[x]) \cup {None}
<1> DEFINE d == def[x]
           j == JoinOf(d, n)
<1>1. CASE j = None
  BY <1>1, RouteIsNode DEF Outcome
<1>2. CASE j # None
  <2>1. j \in OfKind(d, "JOIN")
    BY <1>2 DEF JoinOf
  <2>2. EvaluateJoin(d, j, joined[x][j], n, k).target \in NodesOf(d) \cup {None}
    BY <2>1, JoinTargetIsNode
  <2> QED BY <1>2, <2>2 DEF Outcome
<1> QED BY <1>1, <1>2

--------------------------------------------------------------------------------
(* The inductive invariant of the rows and of the tick.                    *)

Reasons == {None, "OUTCOME", "TRANSITION_REQUIRED", "DEADLINE", "REVOKED", "BINDING_STALE"}
           \cup Stopped

\* The rows agree with one another.
RowsInv ==
    /\ intents \in Seq(Steps)
    /\ reason \in [Executions -> Reasons]
    /\ \A x \in Executions :
        /\ pending[x] # None => state[x] # "NEW" /\ pending[x] \in NodesOf(def[x])
        /\ state[x] = "NEW" => StepsOf(x) = {}
    /\ \A o \in Steps :
        /\ owner[o] # None => o[1] \in NodesOf(def[owner[o]])
        /\ step[o] = "RUNNING" => o \in dispatched
        /\ step[o] = "LAUNCH_INTENT" => o \notin dispatched

\* What the tick works on is among the rows it loaded it from.
TickInv ==
    /\ loaded \subseteq Range(intents) /\ cancels \subseteq outbox
    /\ phase \in {"RESOLVING", "LAUNCHING", "LAUNCHED"} => current \in Range(intents)
    /\ phase = "LAUNCHED" => run[current] # "NONE"
    /\ phase = "MARKING" => current \in outbox

TypeInv == TypeOK /\ RowsInv /\ TickInv

\* There are finitely many step occurrences.
LEMMA StepsFinite == IsFiniteSet(Steps)
<1>1. IsFiniteSet(RunNodes)
  <2>1. \A d \in Definitions : IsFiniteSet(OfKind(d, "AGENT_RUN"))
    BY DefinitionsAssumption, FS_Subset DEF WellFormed, OfKind
  <2>2. \A S \in {OfKind(d, "AGENT_RUN") : d \in Definitions} : IsFiniteSet(S)
    BY <2>1
  <2>3. IsFiniteSet({OfKind(d, "AGENT_RUN") : d \in Definitions})
    <3> DEFINE f == [d \in Definitions |-> OfKind(d, "AGENT_RUN")]
    <3>1. f \in [Definitions -> {OfKind(d, "AGENT_RUN") : d \in Definitions}]
      OBVIOUS
    <3>2. f \in Surjection(Definitions, {OfKind(d, "AGENT_RUN") : d \in Definitions})
      BY <3>1 DEF Surjection
    <3> QED BY <3>2, FS_Surjection, DefinitionsAssumption
  <2> QED BY <2>2, <2>3, FS_UNION DEF RunNodes
<1>2. IsFiniteSet(1..MaxRuns)
  BY BoundsAssumption, FS_Interval
<1> QED BY <1>1, <1>2, FS_Product DEF Steps

\* What entering a node schedules are agent runs of the definition.
LEMMA ScheduledType ==
    ASSUME NEW d \in Definitions, NEW t \in NodesOf(d)
    PROVE  Scheduled(d, t) \in Seq(OfKind(d, "AGENT_RUN"))
<1>1. CASE d.kind[t] = "AGENT_RUN"
  <2>1. t \in OfKind(d, "AGENT_RUN")
    BY <1>1 DEF OfKind
  <2> QED BY <1>1, <2>1 DEF Scheduled
<1>2. CASE d.kind[t] = "PARALLEL_SPLIT"
  <2>1. SplitValid(d, t)
    <3>1. NodeValid(d, t)
      BY DefinitionsAssumption DEF ValidWorkflow
    <3> QED BY <1>2, <3>1 DEF NodeValid
  <2>2. d.branches[t] \in Seq(NodesOf(d))
    BY <1>2, DefinitionsAssumption DEF WellFormed, OfKind
  <2>3. Range(d.branches[t]) \subseteq OfKind(d, "AGENT_RUN")
    BY <2>1 DEF SplitValid
  <2>4. \A i \in 1..Len(d.branches[t]) : d.branches[t][i] \in OfKind(d, "AGENT_RUN")
    BY <2>2, <2>3 DEF Range
  <2>5. d.branches[t] \in Seq(OfKind(d, "AGENT_RUN"))
    BY <2>2, <2>4
  <2> QED BY <1>2, <2>5 DEF Scheduled
<1>3. CASE d.kind[t] \notin {"AGENT_RUN", "PARALLEL_SPLIT"}
  BY <1>3 DEF Scheduled
<1> QED BY <1>1, <1>2, <1>3

\* The next occurrence of a node is told apart while the run bound leaves room.
LEMMA NextStepType ==
    ASSUME NEW x, NEW d \in Definitions, NEW n \in OfKind(d, "AGENT_RUN"),
           Cardinality(StepsOf(x)) + 1 <= d.maximumRunCount
    PROVE  NextStep(x, n) \in Steps /\ NextStep(x, n)[1] \in NodesOf(d)
<1> DEFINE mine == {o \in StepsOf(x) : o[1] = n}
<1>1. IsFiniteSet(StepsOf(x)) /\ Cardinality(StepsOf(x)) \in Nat
  BY StepsFinite, FS_Subset, FS_CardinalityType DEF StepsOf
<1>2. Cardinality(mine) \in Nat /\ Cardinality(mine) <= Cardinality(StepsOf(x))
  BY <1>1, FS_Subset, FS_CardinalityType
<1>3. d.maximumRunCount \in Nat /\ d.maximumRunCount <= MaxRuns /\ MaxRuns \in Nat
  BY DefinitionsAssumption, BoundsAssumption DEF WellFormed
<1>4. Cardinality(mine) + 1 \in 1..MaxRuns
  BY <1>1, <1>2, <1>3
<1>5. n \in RunNodes /\ n \in NodesOf(d)
  BY DEF RunNodes, OfKind
<1> QED BY <1>4, <1>5 DEF NextStep, Steps

\* A concatenation ranges over what its two parts range over.
LEMMA RangeOfConcat ==
    ASSUME NEW S, NEW a \in Seq(S), NEW b \in Seq(S)
    PROVE  a \o b \in Seq(S) /\ Range(a \o b) = Range(a) \cup Range(b)
<1> DEFINE c == a \o b
<1>1. c \in Seq(S) /\ Len(c) = Len(a) + Len(b)
  OBVIOUS
<1>2. \A i \in 1..Len(a) : c[i] = a[i] /\ i \in 1..Len(c)
  BY <1>1
<1>3. \A i \in 1..Len(b) : c[i + Len(a)] = b[i] /\ i + Len(a) \in 1..Len(c)
  BY <1>1
<1>4. \A i \in 1..Len(c) : i \in 1..Len(a) \/ i - Len(a) \in 1..Len(b)
  BY <1>1
<1>5. \A i \in 1..Len(c) :
        (i \in 1..Len(a) /\ c[i] = a[i]) \/ (i - Len(a) \in 1..Len(b) /\ c[i] = b[i - Len(a)])
  BY <1>1
<1>6. /\ Range(a) = {a[i] : i \in 1..Len(a)} /\ Range(b) = {b[i] : i \in 1..Len(b)}
      /\ Range(c) = {c[i] : i \in 1..Len(c)}
  BY <1>1 DEF Range
<1> HIDE DEF c
<1>7. Range(c) \subseteq Range(a) \cup Range(b)
  BY <1>5, <1>6
<1>8. Range(a) \cup Range(b) \subseteq Range(c)
  BY <1>2, <1>3, <1>6
<1> QED BY <1>1, <1>7, <1>8 DEF c

\* The occurrences of d's nodes that nobody owns.
UnownedOf(d) == {o \in Steps : owner[o] = None /\ o[1] \in NodesOf(d)}

\* The occurrences N are new rows of execution x; steps are the others.
Entered(x, steps, N) ==
    /\ intents' \in Seq(Steps) /\ Range(intents') = Range(intents) \cup N
    /\ owner' = [o \in Steps |-> IF o \in N THEN x ELSE owner[o]]
    /\ step' = [o \in Steps |-> IF o \in N THEN "LAUNCH_INTENT" ELSE steps[o]]

\* Entering a node schedules new occurrences, which nobody owned.
LEMMA EnterRows ==
    ASSUME TypeInv, NEW x \in Executions, NEW d \in Definitions, NEW t \in NodesOf(d),
           NEW steps \in [Steps -> StepStates], Enter(x, d, t, steps)
    PROVE  \E N \in SUBSET UnownedOf(d) : Entered(x, steps, N)
<1> DEFINE nodes == Scheduled(d, t)
           new == [i \in 1..Len(nodes) |-> NextStep(x, nodes[i])]
           N == Range(new)
<1>1. nodes \in Seq(OfKind(d, "AGENT_RUN")) /\ Len(nodes) \in Nat
  BY ScheduledType
<1>2. /\ new \in Seq(Steps) /\ Len(new) = Len(nodes)
      /\ \A i \in 1..Len(new) : new[i][1] \in NodesOf(d)
  <2>1. Cardinality(StepsOf(x)) \in Nat
    BY StepsFinite, FS_Subset, FS_CardinalityType DEF StepsOf
  <2>2. d.maximumRunCount \in Nat
    BY DefinitionsAssumption DEF WellFormed
  <2>3. Len(new) = Len(nodes)
    BY <1>1
  <2>4. \A i \in 1..Len(nodes) : nodes[i] \in OfKind(d, "AGENT_RUN")
    BY <1>1
  <2>5. \A i \in 1..Len(nodes) : Cardinality(StepsOf(x)) + 1 <= d.maximumRunCount
    BY <1>1, <2>1, <2>2, <2>3 DEF Enter
  <2>6. \A i \in 1..Len(nodes) :
          NextStep(x, nodes[i]) \in Steps /\ NextStep(x, nodes[i])[1] \in NodesOf(d)
    BY <2>4, <2>5, NextStepType
  <2>7. \A i \in 1..Len(new) : new[i] \in Steps /\ new[i][1] \in NodesOf(d)
    BY <2>3, <2>6
  <2>8. new \in Seq(Steps)
    BY <1>1, <2>3, <2>7
  <2> QED BY <2>3, <2>7, <2>8
<1>3. N \subseteq UnownedOf(d)
  <2>1. N \subseteq Steps
    BY <1>2 DEF Range
  <2>2. \A o \in N : owner[o] = None
    BY DEF Enter
  <2>3. \A o \in N : o[1] \in NodesOf(d)
    <3>1. DOMAIN new = 1..Len(new)
      BY <1>2
    <3> HIDE DEF new
    <3>2. \A o \in N : \E i \in DOMAIN new : o = new[i]
      BY DEF Range
    <3> HIDE DEF N
    <3> QED BY <1>2, <3>1, <3>2, ZenonT(30)
  <2> HIDE DEF N
  <2> QED BY <2>1, <2>2, <2>3 DEF UnownedOf
<1>4. intents' \in Seq(Steps) /\ Range(intents') = Range(intents) \cup N
  <2>1. intents' = intents \o new /\ intents \in Seq(Steps)
    BY DEF Enter, TypeInv, RowsInv
  <2>2. N = Range(new)
    OBVIOUS
  <2> HIDE DEF new, N
  <2>3. intents \o new \in Seq(Steps)
    BY <1>2, <2>1
  <2>4. Range(intents \o new) = Range(intents) \cup Range(new)
    BY <1>2, <2>1, RangeOfConcat
  <2> QED BY <2>1, <2>2, <2>3, <2>4
<1>5. /\ owner' = [o \in Steps |-> IF o \in N THEN x ELSE owner[o]]
      /\ step' = [o \in Steps |-> IF o \in N THEN "LAUNCH_INTENT" ELSE steps[o]]
  BY DEF Enter
<1>6. Entered(x, steps, N)
  BY <1>4, <1>5 DEF Entered
<1> HIDE DEF N
<1> QED BY <1>3, <1>6

\* It moves the execution to a state that is not the one of a stopped execution.
LEMMA EnterState ==
    ASSUME NEW x, NEW d \in Definitions, NEW t \in NodesOf(d), NEW steps, Enter(x, d, t, steps)
    PROVE  \E st \in Open \cup Terminal, why \in Reasons \ Stopped : Becomes(x, st, why)
<1> DEFINE k == d.kind[t]
<1>1. CASE k = "TERMINAL"
  <2>1. d.outcome[t] \in Terminal
    BY <1>1, DefinitionsAssumption DEF WellFormed, OfKind, Terminal
  <2>2. Becomes(x, d.outcome[t], "OUTCOME")
    BY <1>1 DEF Enter
  <2> QED BY <2>1, <2>2 DEF Reasons, Stopped
<1>2. CASE k \in {"AGENT_RUN", "PARALLEL_SPLIT"}
  <2>1. Becomes(x, "ACTIVE", None)
    BY <1>2 DEF Enter
  <2> QED BY <2>1 DEF Reasons, Stopped, Open, None
<1>3. CASE k = "HUMAN_DECISION"
  <2>1. Becomes(x, "WAITING", None)
    BY <1>3 DEF Enter
  <2> QED BY <2>1 DEF Reasons, Stopped, Open, None
<1>4. CASE k \notin {"TERMINAL", "AGENT_RUN", "PARALLEL_SPLIT", "HUMAN_DECISION"}
  <2>1. Becomes(x, "WAITING", "TRANSITION_REQUIRED")
    BY <1>4 DEF Enter
  <2> QED BY <2>1 DEF Reasons, Stopped, Open
<1> QED BY <1>1, <1>2, <1>3, <1>4

--------------------------------------------------------------------------------
(* Type correctness.                                                       *)

\* The initial state satisfies the invariant.
LEMMA TypeInit == Init => TypeInv
<1> SUFFICES ASSUME Init PROVE TypeInv
  OBVIOUS
<1>1. TypeOK
  BY BoundsAssumption DEF Init, TypeOK, States, StepStates, Phases, Range
<1>2. RowsInv
  <2>1. \A x \in Executions : StepsOf(x) = {}
    BY ExecutionsAssumption DEF Init, StepsOf
  <2> QED BY <2>1 DEF Init, RowsInv, Reasons
<1>3. TickInv
  BY DEF Init, TickInv
<1> QED BY <1>1, <1>2, <1>3 DEF TypeInv

\* The steps of the tick that touch the tick's own variables, the authority's or
\* the clock's only, and the steps of the rest of the world.
LEMMA TypeTick ==
    ASSUME TypeInv,
           \/ Select \/ Resolve \/ LaunchRefused \/ Launch \/ LoadCancellations
           \/ MarkRequested \/ TickEnd \/ Crash
           \/ \E o \in Steps : CancelRun(o) \/ CancelRefused(o) \/ RunEnds(o)
           \/ \E x \in Executions : RecordMoves(x) \/ DeadlinePasses(x)
    PROVE  TypeInv'
<1> USE DEF TypeInv, TypeOK, RowsInv, TickInv, executionVars, stepVars, tickVars, authorityVars,
            StepsOf, Phases
<1>1. CASE Select
  <2>1. \A i \in DOMAIN intents : intents[i] \in Range(intents)
    BY DEF Range
  <2>2. Range(intents) \subseteq Steps
    OBVIOUS
  <2>3. current' \in Range(intents) /\ loaded' \subseteq loaded
    BY <1>1, <2>1 DEF Select
  <2> QED BY <1>1, <2>2, <2>3 DEF Select
<1>2. CASE Resolve
  BY <1>2 DEF Resolve
<1>3. CASE LaunchRefused
  BY <1>3 DEF LaunchRefused
<1>4. CASE Launch
  <2>1. run' \in [Steps -> {"NONE", "LIVE", "ENDED"}] /\ run'[current] # "NONE"
    BY <1>4 DEF Launch
  <2>2. \A o \in Steps : run[o] # "NONE" => run'[o] # "NONE"
    BY <1>4 DEF Launch
  <2> QED BY <1>4, <2>1, <2>2 DEF Launch
<1>5. CASE LoadCancellations
  BY <1>5 DEF LoadCancellations
<1>6. CASE MarkRequested
  BY <1>6 DEF MarkRequested
<1>7. CASE TickEnd
  BY <1>7 DEF TickEnd
<1>8. CASE Crash
  BY <1>8 DEF Crash
<1>9. ASSUME NEW o \in Steps, CancelRun(o) PROVE TypeInv'
  BY <1>9 DEF CancelRun
<1>10. ASSUME NEW o \in Steps, CancelRefused(o) PROVE TypeInv'
  BY <1>10 DEF CancelRefused
<1>11. ASSUME NEW o \in Steps, RunEnds(o) PROVE TypeInv'
  BY <1>11 DEF RunEnds
<1>12. ASSUME NEW x \in Executions, RecordMoves(x) PROVE TypeInv'
  BY <1>12 DEF RecordMoves
<1>13. ASSUME NEW x \in Executions, DeadlinePasses(x) PROVE TypeInv'
  BY <1>13 DEF DeadlinePasses
<1> QED BY <1>1, <1>2, <1>3, <1>4, <1>5, <1>6, <1>7, <1>8, <1>9, <1>10, <1>11, <1>12, <1>13

\* Stopping an execution's steps queues recorded runs and invalidates intents.
LEMMA StopRows ==
    ASSUME TypeInv, NEW x \in Executions, NEW inv \in SUBSET Range(intents),
           NEW out \in SUBSET dispatched, outbox \subseteq out, NEW steps \in [Steps -> StepStates],
           \A o \in Steps : steps[o] = "RUNNING" => o \in dispatched,
           StopSteps(x, inv, out, steps)
    PROVE  /\ invalidated' \subseteq Range(intents)
           /\ outbox \subseteq outbox' /\ outbox' \subseteq dispatched
BY DEF StopSteps, UndispatchedIn, StepsOf, TypeInv, TypeOK


\* The commands of members that schedule nothing, and the deadline and the
\* binding found by the tick.
LEMMA TypeStops ==
    ASSUME TypeInv,
           \/ TickBegin \/ ResolveStale
           \/ \E x \in Executions : Pause(x) \/ Cancel(x) \/ Revoke(x)
    PROVE  TypeInv'
<1> USE DEF TypeInv, TypeOK, RowsInv, TickInv, executionVars, stepVars, tickVars, authorityVars,
            StepsOf, Phases, Becomes, States, Open, Terminal, Outcomes, Reasons, Stopped
<1>1. CASE TickBegin
  <2>1. /\ invalidated' \subseteq Range(intents) /\ outbox \subseteq outbox'
        /\ outbox' \subseteq dispatched /\ loaded' \subseteq Range(intents)
    BY <1>1 DEF TickBegin, UndispatchedIn, RunningSteps
  <2>2. state' \in [Executions -> States] /\ reason' \in [Executions -> Reasons]
    BY <1>1 DEF TickBegin
  <2>3. \A x \in Executions : state'[x] = "NEW" <=> state[x] = "NEW"
    BY <1>1 DEF TickBegin, Overdue
  <2> QED BY <1>1, <2>1, <2>2, <2>3 DEF TickBegin
<1>2. CASE ResolveStale
  <2>1. current \in Steps /\ owner[current] \in Executions
    BY <1>2 DEF ResolveStale
  <2>2. state' \in [Executions -> States] /\ reason' \in [Executions -> Reasons]
    BY <1>2 DEF ResolveStale
  <2>3. \A x \in Executions : state'[x] = "NEW" <=> state[x] = "NEW"
    BY <1>2 DEF ResolveStale
  <2>4. invalidated' \subseteq Range(intents)
    BY <1>2 DEF ResolveStale
  <2> QED BY <1>2, <2>1, <2>2, <2>3, <2>4 DEF ResolveStale
<1>3. ASSUME NEW x \in Executions, Pause(x) PROVE TypeInv'
  BY <1>3 DEF Pause
<1>4. ASSUME NEW x \in Executions, Cancel(x) \/ Revoke(x) PROVE TypeInv'
  <2>1. /\ invalidated' \subseteq Range(intents)
        /\ outbox \subseteq outbox' /\ outbox' \subseteq dispatched
    BY <1>4, StopRows DEF Cancel, Revoke
  <2>2. state' \in [Executions -> States] /\ reason' \in [Executions -> Reasons]
    BY <1>4 DEF Cancel, Revoke
  <2>3. \A y \in Executions : state'[y] = "NEW" <=> state[y] = "NEW"
    BY <1>4 DEF Cancel, Revoke
  <2> QED BY <1>4, <2>1, <2>2, <2>3 DEF Cancel, Revoke
<1> QED BY <1>1, <1>2, <1>3, <1>4

\* Recording a launch that was answered keeps the rows together.
LEMMA TypeRecord == ASSUME TypeInv, Record PROVE TypeInv'
<1> USE DEF TypeInv, TypeOK, RowsInv, TickInv, executionVars, stepVars, tickVars, authorityVars,
            StepsOf, Phases, Becomes, States, Open, Terminal, Outcomes, Reasons, Stopped
<1>1. current \in Steps /\ owner[current] \in Executions /\ current \in Range(intents)
  BY DEF Record
<1>2. state' \in [Executions -> States] /\ reason' \in [Executions -> Reasons]
  <2>1. \/ UNCHANGED <<state, reason>>
        \/ /\ state' = [state EXCEPT ![owner[current]] = "FAILED"]
           /\ reason' = [reason EXCEPT ![owner[current]] = "DEADLINE"]
    BY DEF Record
  <2> QED BY <1>1, <2>1
<1>3. \A x \in Executions : state'[x] = "NEW" <=> state[x] = "NEW"
  BY <1>1 DEF Record
<1>4. /\ step' \in [Steps -> StepStates] /\ step'[current] \in {"RUNNING", "CANCELLED"}
      /\ \A o \in Steps \ {current} : step'[o] = step[o]
  BY <1>1 DEF Record, StepStates
<1>5. dispatched' = dispatched \cup {current} /\ \A o \in dispatched' : run[o] # "NONE"
  BY DEF Record
<1>6. /\ invalidated' \subseteq Range(intents)
      /\ outbox \subseteq outbox' /\ outbox' \subseteq dispatched'
  BY <1>1 DEF Record
<1>7. \A o \in Steps : owner[o] = None <=> step'[o] = "NONE"
  BY <1>1, <1>4
<1> QED BY <1>1, <1>2, <1>3, <1>4, <1>5, <1>6, <1>7 DEF Record

\* A command that enters a node keeps the rows together, whatever it has made
\* of the steps before.
LEMMA TypeEnter ==
    ASSUME TypeInv, NEW x \in Executions, NEW d \in Definitions, NEW t \in NodesOf(d),
           NEW steps \in [Steps -> StepStates],
           \A o \in Steps : /\ steps[o] = "NONE" <=> step[o] = "NONE"
                            /\ steps[o] = "RUNNING" => o \in dispatched
                            /\ steps[o] = "LAUNCH_INTENT" => o \notin dispatched,
           Enter(x, d, t, steps),
           def' = [def EXCEPT ![x] = d], def[x] = d \/ state[x] = "NEW",
           pending' \in [Executions -> AllNodes \cup {None}],
           pending'[x] # None => pending'[x] \in NodesOf(d),
           \A y \in Executions \ {x} : pending'[y] = pending[y],
           invalidated' \subseteq Range(intents),
           outbox \subseteq outbox', outbox' \subseteq dispatched,
           UNCHANGED <<dispatched, requested, tickVars, authorityVars, expired>>
    PROVE  TypeInv'
<1>1. PICK N \in SUBSET UnownedOf(d) : Entered(x, steps, N)
  BY EnterRows
<1> USE DEF Entered, UnownedOf
<1>2. node' = [node EXCEPT ![x] = t]
  BY DEF Enter
<1>3. PICK st \in Open \cup Terminal, why \in Reasons \ Stopped : Becomes(x, st, why)
  BY EnterState
<1>4. t \in AllNodes
  BY DEF AllNodes
<1>5. N \cap dispatched = {}
  BY DEF TypeInv, TypeOK
<1>6. x # None
  BY ExecutionsAssumption
<1>7. /\ owner' \in [Steps -> Executions \cup {None}] /\ step' \in [Steps -> StepStates]
      /\ \A o \in Steps : owner'[o] = None <=> step'[o] = "NONE"
  BY <1>1, <1>6 DEF TypeInv, TypeOK, StepStates
<1>8. Range(intents') = {o \in Steps : owner'[o] # None}
  BY <1>1, <1>6 DEF TypeInv, TypeOK
<1>9. /\ state' \in [Executions -> States] /\ reason' \in [Executions -> Reasons]
      /\ state'[x] # "NEW" /\ \A y \in Executions \ {x} : state'[y] = state[y]
  BY <1>3 DEF Becomes, TypeInv, TypeOK, RowsInv, States, Open, Terminal, Outcomes
<1>10. /\ def' \in [Executions -> Definitions \cup {NoDefinition}]
       /\ node' \in [Executions -> AllNodes \cup {None}]
       /\ \A y \in Executions : state'[y] # "NEW" =>
            def'[y] \in Definitions /\ node'[y] \in NodesOf(def'[y])
  BY <1>2, <1>4, <1>9 DEF TypeInv, TypeOK
<1>11. TypeOK'
  BY <1>1, <1>7, <1>8, <1>9, <1>10 DEF TypeInv, TypeOK, tickVars, authorityVars
<1>12. \A o \in Steps : /\ step'[o] = "RUNNING" => o \in dispatched'
                        /\ step'[o] = "LAUNCH_INTENT" => o \notin dispatched'
  BY <1>1, <1>5
<1>13. \A y \in Executions :
         /\ pending'[y] # None => state'[y] # "NEW" /\ pending'[y] \in NodesOf(def'[y])
         /\ state'[y] = "NEW" => StepsOf(y)' = {}
  BY <1>1, <1>9 DEF TypeInv, TypeOK, RowsInv, StepsOf
<1>14. \A o \in Steps : owner'[o] # None => o[1] \in NodesOf(def'[owner'[o]])
  <2> SUFFICES ASSUME NEW o \in Steps, owner'[o] # None
               PROVE  o[1] \in NodesOf(def'[owner'[o]])
    OBVIOUS
  <2>1. CASE o \in N
    BY <1>1, <2>1 DEF TypeInv, TypeOK
  <2>2. CASE o \notin N
    <3>1. owner'[o] = owner[o] /\ owner[o] \in Executions /\ o[1] \in NodesOf(def[owner[o]])
      BY <1>1, <2>2 DEF TypeInv, TypeOK, RowsInv
    <3>2. state[owner[o]] # "NEW"
      BY <3>1 DEF TypeInv, RowsInv, StepsOf
    <3> QED BY <3>1, <3>2 DEF TypeInv, TypeOK
  <2> QED BY <2>1, <2>2
<1>15. RowsInv'
  BY <1>1, <1>9, <1>12, <1>13, <1>14 DEF RowsInv
<1>16. TickInv'
  BY <1>1 DEF TypeInv, TickInv, tickVars, authorityVars
<1> QED BY <1>11, <1>15, <1>16 DEF TypeInv


\* A command that enters no node: it may move the execution, select a target
\* and end steps.
LEMMA TypeStays ==
    ASSUME TypeInv, NEW x \in Executions, state[x] \in Open,
           NEW st \in Open \cup Terminal, NEW why \in Reasons, Becomes(x, st, why),
           step' \in [Steps -> StepStates],
           \A o \in Steps : /\ step'[o] = "NONE" <=> step[o] = "NONE"
                            /\ step'[o] = "RUNNING" => o \in dispatched
                            /\ step'[o] = "LAUNCH_INTENT" => o \notin dispatched,
           node' \in [Executions -> AllNodes \cup {None}], node'[x] \in NodesOf(def[x]),
           pending' \in [Executions -> AllNodes \cup {None}],
           pending'[x] # None => pending'[x] \in NodesOf(def[x]),
           \A y \in Executions \ {x} : node'[y] = node[y] /\ pending'[y] = pending[y],
           invalidated' \subseteq Range(intents),
           outbox \subseteq outbox', outbox' \subseteq dispatched,
           UNCHANGED <<def, owner, intents, dispatched, requested, tickVars, authorityVars, expired>>
    PROVE  TypeInv'
<1> USE DEF Becomes, States, Open, Terminal, Outcomes
<1>1. /\ state' \in [Executions -> States] /\ reason' \in [Executions -> Reasons]
      /\ \A y \in Executions : state'[y] = "NEW" <=> state[y] = "NEW"
  BY DEF TypeInv, TypeOK, RowsInv
<1>2. TypeOK'
  BY <1>1 DEF TypeInv, TypeOK, tickVars, authorityVars
<1>3. RowsInv'
  <2>1. \A y \in Executions : state[y] # "NEW" => StepsOf(y)' = StepsOf(y)
    BY DEF StepsOf
  <2> QED BY <1>1, <2>1 DEF TypeInv, RowsInv, StepsOf
<1>4. TickInv'
  BY DEF TypeInv, TickInv, tickVars, authorityVars
<1> QED BY <1>2, <1>3, <1>4 DEF TypeInv

\* The rows say of each step whether it has been dispatched.
LEMMA StepFacts ==
    ASSUME TypeInv
    PROVE  /\ step \in [Steps -> StepStates]
           /\ \A o \in Steps : /\ step[o] = "RUNNING" => o \in dispatched
                               /\ step[o] = "LAUNCH_INTENT" => o \notin dispatched
           /\ invalidated \subseteq Range(intents) /\ outbox \subseteq dispatched
BY DEF TypeInv, TypeOK, RowsInv

\* An execution that has started has a definition, and is at one of its nodes.
LEMMA StartedFacts ==
    ASSUME TypeInv, NEW x \in Executions, state[x] # "NEW"
    PROVE  /\ def[x] \in Definitions /\ node[x] \in NodesOf(def[x])
           /\ def = [def EXCEPT ![x] = def[x]]
           /\ pending[x] # None => pending[x] \in NodesOf(def[x])
           /\ node \in [Executions -> AllNodes \cup {None}]
           /\ pending \in [Executions -> AllNodes \cup {None}]
BY DEF TypeInv, TypeOK, RowsInv

\* Starting an execution enters the first node of its definition.
LEMMA TypeStart ==
    ASSUME TypeInv, NEW x \in Executions, NEW d \in Definitions, Start(x, d)
    PROVE  TypeInv'
<1> DEFINE first == TargetOf(d, StartOf(d), "STARTED")
<1>1. first \in NodesOf(d)
  BY FirstIsNode
<1>2. pending[x] = None
  BY DEF Start, StoreExecution, TypeInv, RowsInv
<1>3. /\ Enter(x, d, first, step) /\ def' = [def EXCEPT ![x] = d]
      /\ UNCHANGED <<pending, invalidated, outbox>>
      /\ UNCHANGED <<dispatched, requested, tickVars, authorityVars, expired>>
      /\ state[x] = "NEW"
  BY DEF Start, StoreExecution
<1>4. pending' \in [Executions -> AllNodes \cup {None}]
  BY <1>3 DEF TypeInv, TypeOK
<1> HIDE DEF first
<1> QED BY <1>1, <1>2, <1>3, <1>4, StepFacts, TypeEnter

\* Resuming an execution ends it, makes it active or enters its pending target.
LEMMA TypeResume == ASSUME TypeInv, NEW x \in Executions, Resume(x) PROVE TypeInv'
<1>1. state[x] \in Open /\ state[x] # "NEW"
  BY DEF Resume, Open
<1>2. /\ UNCHANGED <<def, dispatched, requested, tickVars, authorityVars, expired>>
  BY DEF Resume
<1>3. ASSUME StopSteps(x, invalidated, outbox, step), Becomes(x, "FAILED", "DEADLINE"),
             UNCHANGED <<node, pending, owner, step, intents>>
      PROVE  TypeInv'
  <2>1. invalidated' \subseteq Range(intents) /\ outbox \subseteq outbox' /\ outbox' \subseteq dispatched
    BY <1>3, StepFacts, StopRows
  <2>2. "FAILED" \in Open \cup Terminal /\ "DEADLINE" \in Reasons
    BY DEF Terminal, Outcomes, Reasons
  <2> QED BY <1>1, <1>2, <1>3, <2>1, <2>2, StepFacts, StartedFacts, TypeStays
<1>4. ASSUME NEW st \in {"WAITING", "ACTIVE"}, Becomes(x, st, None),
             UNCHANGED <<node, pending, owner, step, intents, invalidated, outbox>>
      PROVE  TypeInv'
  <2>1. st \in Open \cup Terminal /\ None \in Reasons
    BY DEF Open, Reasons
  <2> QED BY <1>1, <1>2, <1>4, <2>1, StepFacts, StartedFacts, TypeStays
<1>5. ASSUME pending[x] # None, EnterPending(x), UNCHANGED <<invalidated, outbox>>
      PROVE  TypeInv'
  <2>1. Enter(x, def[x], pending[x], step) /\ pending' = [pending EXCEPT ![x] = None]
    BY <1>5 DEF EnterPending
  <2>2. pending' \in [Executions -> AllNodes \cup {None}] /\ pending'[x] = None
        /\ \A y \in Executions \ {x} : pending'[y] = pending[y]
    BY <1>1, <2>1, StartedFacts
  <2>3. def[x] \in Definitions /\ pending[x] \in NodesOf(def[x]) /\ def' = [def EXCEPT ![x] = def[x]]
    BY <1>1, <1>2, <1>5, StartedFacts
  <2> QED BY <1>2, <1>5, <2>1, <2>2, <2>3, StepFacts, TypeEnter
<1> QED BY <1>3, <1>4, <1>5 DEF Resume

\* The choice of a decision leads to a node of the definition.
LEMMA DecisionTarget ==
    ASSUME TypeInv, NEW x \in Executions, NEW k, Decide(x, k)
    PROVE  TargetOf(def[x], node[x], k) \in NodesOf(def[x])
<1>1. def[x] \in Definitions /\ node[x] \in NodesOf(def[x])
  BY StartedFacts DEF Decide
<1>2. NodeValid(def[x], node[x]) /\ def[x].kind[node[x]] = "HUMAN_DECISION"
      /\ k \in def[x].results[node[x]]
  BY <1>1, DefinitionsAssumption DEF ValidWorkflow, Decide
<1>3. ExactTransition(def[x], node[x], k, NodesOf(def[x]))
  BY <1>2 DEF NodeValid
<1> QED BY <1>1, <1>3, ExactTarget

\* A decision ends the execution at a cycle bound, or enters the chosen target.
LEMMA TypeDecide ==
    ASSUME TypeInv, NEW x \in Executions, NEW k, Decide(x, k)
    PROVE  TypeInv'
<1> DEFINE d == def[x]
           n == node[x]
           t == TargetOf(d, n, k)
<1>1. state[x] \in Open /\ state[x] # "NEW"
  BY DEF Decide, Open
<1>2. UNCHANGED <<def, pending, dispatched, requested, tickVars, authorityVars, expired>>
  BY DEF Decide
<1>3. d \in Definitions /\ n \in NodesOf(d)
  BY <1>1, StartedFacts
<1>4. t \in NodesOf(d)
  BY DecisionTarget
<1>5. ASSUME StopSteps(x, invalidated, outbox, step), Becomes(x, "FAILED", "CYCLE_BOUND"),
             UNCHANGED <<node, owner, step, intents>>
      PROVE  TypeInv'
  <2>1. invalidated' \subseteq Range(intents) /\ outbox \subseteq outbox' /\ outbox' \subseteq dispatched
    BY <1>5, StepFacts, StopRows
  <2>2. "FAILED" \in Open \cup Terminal /\ "CYCLE_BOUND" \in Reasons
    BY DEF Terminal, Outcomes, Reasons, Stopped
  <2> QED BY <1>1, <1>2, <1>5, <2>1, <2>2, StepFacts, StartedFacts, TypeStays
<1>6. ASSUME Enter(x, d, t, step), UNCHANGED <<invalidated, outbox>>
      PROVE  TypeInv'
  <2>1. def' = [def EXCEPT ![x] = d]
    BY <1>1, <1>2, StartedFacts
  <2> HIDE DEF t
  <2> QED BY <1>1, <1>2, <1>3, <1>4, <1>6, <2>1, StepFacts, StartedFacts, TypeEnter
<1> QED BY <1>5, <1>6 DEF Decide


\* What a result makes of the steps: one is terminal, and losing branches that
\* were not launched are cancelled.
AfterResult(x, o, branches) ==
    [s \in Steps |-> CASE s = o -> "TERMINAL"
                       [] s \in Losers(x, branches) \ dispatched -> "CANCELLED"
                       [] OTHER -> step[s]]

\* Ending a running step and cancelling losers creates no row, and nothing runs
\* that was not recorded.
LEMMA ResultRows ==
    ASSUME TypeInv, NEW x \in Executions, NEW o \in Steps, step[o] = "RUNNING", NEW branches
    PROVE  /\ AfterResult(x, o, branches) \in [Steps -> StepStates]
           /\ \A s \in Steps :
                /\ AfterResult(x, o, branches)[s] = "NONE" <=> step[s] = "NONE"
                /\ AfterResult(x, o, branches)[s] = "RUNNING" => s \in dispatched
                /\ AfterResult(x, o, branches)[s] = "LAUNCH_INTENT" => s \notin dispatched
           /\ invalidated \cup (Losers(x, branches) \ dispatched) \subseteq Range(intents)
           /\ outbox \cup {s \in Losers(x, branches) : step[s] = "RUNNING"} \subseteq dispatched
<1> DEFINE L == Losers(x, branches)
<1>1. x # None /\ L \subseteq {s \in Steps : owner[s] = x}
  BY ExecutionsAssumption DEF Losers, StepsOf
<1>2. \A s \in L : step[s] # "NONE"
  BY <1>1 DEF TypeInv, TypeOK
<1>3. L \subseteq Range(intents)
  BY <1>1 DEF TypeInv, TypeOK
<1>4. AfterResult(x, o, branches) \in [Steps -> StepStates]
  BY StepFacts DEF AfterResult, StepStates
<1>5. ASSUME NEW s \in Steps
      PROVE  /\ s = o => AfterResult(x, o, branches)[s] = "TERMINAL"
             /\ s # o /\ s \in L \ dispatched => AfterResult(x, o, branches)[s] = "CANCELLED"
             /\ s # o /\ s \notin L \ dispatched => AfterResult(x, o, branches)[s] = step[s]
  <2>1. o \notin L \ dispatched
    BY StepFacts
  <2> QED BY <2>1 DEF AfterResult
<1> HIDE DEF L
<1>6. \A s \in Steps :
        /\ AfterResult(x, o, branches)[s] = "NONE" <=> step[s] = "NONE"
        /\ AfterResult(x, o, branches)[s] = "RUNNING" => s \in dispatched
        /\ AfterResult(x, o, branches)[s] = "LAUNCH_INTENT" => s \notin dispatched
  BY <1>2, <1>5, StepFacts
<1>7. /\ invalidated \cup (L \ dispatched) \subseteq Range(intents)
      /\ outbox \cup {s \in L : step[s] = "RUNNING"} \subseteq dispatched
  BY <1>1, <1>3, StepFacts
<1> QED BY <1>4, <1>6, <1>7 DEF L

\* Accepting the result of an agent run keeps the rows together.
LEMMA TypeAccept ==
    ASSUME TypeInv, NEW o \in Steps, NEW k, Accept(o, k)
    PROVE  TypeInv'
<1> DEFINE x == owner[o]
           d == def[x]
           e == Outcome(x, o[1], k)
           L == Losers(x, e.cancel)
           steps == AfterResult(x, o, e.cancel)
           inv == invalidated \cup (L \ dispatched)
           out == outbox \cup {s \in L : step[s] = "RUNNING"}
<1>1. step[o] = "RUNNING" /\ state[x] \in Open
  BY DEF Accept
<1>2. x \in Executions
  BY <1>1 DEF TypeInv, TypeOK
<1>3. state[x] # "NEW" /\ d \in Definitions /\ node[x] \in NodesOf(d)
  BY <1>1, <1>2, StartedFacts DEF Open
<1>4. e.target \in NodesOf(d) \cup {None} /\ o[1] \in NodesOf(d)
  BY <1>2, <1>3, OutcomeIsNode, ExecutionsAssumption DEF TypeInv, RowsInv
<1>5. UNCHANGED <<def, decided, coordination, dispatched, requested, tickVars, authorityVars, expired>>
  BY DEF Accept
<1>6. /\ steps \in [Steps -> StepStates]
      /\ \A s \in Steps : /\ steps[s] = "NONE" <=> step[s] = "NONE"
                          /\ steps[s] = "RUNNING" => s \in dispatched
                          /\ steps[s] = "LAUNCH_INTENT" => s \notin dispatched
      /\ inv \subseteq Range(intents) /\ outbox \subseteq out /\ out \subseteq dispatched
  BY <1>1, <1>2, ResultRows
<1>7. \/ /\ StopSteps(x, inv, out, steps) /\ Becomes(x, "FAILED", "CYCLE_BOUND")
         /\ step' = steps /\ UNCHANGED <<node, pending, owner, intents>>
      \/ /\ Becomes(x, "WAITING", "TRANSITION_REQUIRED")
         /\ node' = [node EXCEPT ![x] = o[1]]
         /\ step' = steps /\ invalidated' = inv /\ outbox' = out
         /\ UNCHANGED <<pending, owner, intents>>
      \/ /\ e.target # None /\ Becomes(x, "PAUSED", None)
         /\ node' = [node EXCEPT ![x] = o[1]] /\ pending' = [pending EXCEPT ![x] = e.target]
         /\ step' = steps /\ invalidated' = inv /\ outbox' = out
         /\ UNCHANGED <<owner, intents>>
      \/ /\ e.target # None /\ Enter(x, d, e.target, steps)
         /\ invalidated' = inv /\ outbox' = out /\ UNCHANGED pending
  BY DEF Accept, Proceed, AfterResult
<1>8. def' = [def EXCEPT ![x] = d] /\ NodesOf(d) \subseteq AllNodes
  BY <1>2, <1>3, <1>5, StartedFacts DEF AllNodes
<1> HIDE DEF L, steps, inv, out, e
<1>9. CASE /\ StopSteps(x, inv, out, steps) /\ Becomes(x, "FAILED", "CYCLE_BOUND")
           /\ step' = steps /\ UNCHANGED <<node, pending, owner, intents>>
  <2>1. invalidated' \subseteq Range(intents) /\ outbox \subseteq outbox' /\ outbox' \subseteq dispatched
    BY <1>2, <1>6, <1>9, StopRows
  <2>2. "FAILED" \in Open \cup Terminal /\ "CYCLE_BOUND" \in Reasons
    BY DEF Terminal, Outcomes, Reasons, Stopped
  <2> QED BY <1>1, <1>2, <1>3, <1>5, <1>6, <1>9, <2>1, <2>2, StartedFacts, TypeStays
<1>10. CASE /\ Becomes(x, "WAITING", "TRANSITION_REQUIRED")
            /\ node' = [node EXCEPT ![x] = o[1]]
            /\ step' = steps /\ invalidated' = inv /\ outbox' = out
            /\ UNCHANGED <<pending, owner, intents>>
  <2>1. "WAITING" \in Open \cup Terminal /\ "TRANSITION_REQUIRED" \in Reasons
    BY DEF Open, Reasons
  <2>2. /\ node' \in [Executions -> AllNodes \cup {None}] /\ node'[x] \in NodesOf(d)
        /\ \A y \in Executions \ {x} : node'[y] = node[y]
    BY <1>2, <1>3, <1>4, <1>8, <1>10, StartedFacts
  <2> QED BY <1>1, <1>2, <1>3, <1>5, <1>6, <1>10, <2>1, <2>2, StartedFacts, TypeStays
<1>11. CASE /\ e.target # None /\ Becomes(x, "PAUSED", None)
            /\ node' = [node EXCEPT ![x] = o[1]] /\ pending' = [pending EXCEPT ![x] = e.target]
            /\ step' = steps /\ invalidated' = inv /\ outbox' = out
            /\ UNCHANGED <<owner, intents>>
  <2>1. "PAUSED" \in Open \cup Terminal /\ None \in Reasons
    BY DEF Open, Reasons
  <2>2. /\ node' \in [Executions -> AllNodes \cup {None}] /\ node'[x] \in NodesOf(d)
        /\ \A y \in Executions \ {x} : node'[y] = node[y]
    BY <1>2, <1>3, <1>4, <1>8, <1>11, StartedFacts
  <2>3. /\ pending' \in [Executions -> AllNodes \cup {None}] /\ pending'[x] \in NodesOf(d)
        /\ \A y \in Executions \ {x} : pending'[y] = pending[y]
    BY <1>2, <1>3, <1>4, <1>8, <1>11, StartedFacts
  <2> QED BY <1>1, <1>2, <1>3, <1>5, <1>6, <1>11, <2>1, <2>2, <2>3, TypeStays
<1>12. CASE /\ e.target # None /\ Enter(x, d, e.target, steps)
            /\ invalidated' = inv /\ outbox' = out /\ UNCHANGED pending
  <2>1. e.target \in NodesOf(d)
    BY <1>4, <1>12
  <2> QED BY <1>2, <1>3, <1>5, <1>6, <1>8, <1>12, <2>1, StartedFacts, TypeEnter
<1> QED BY <1>7, <1>9, <1>10, <1>11, <1>12

\* The invariant is preserved by every step.
LEMMA TypeStep == TypeInv /\ [Next]_vars => TypeInv'
<1> SUFFICES ASSUME TypeInv, [Next]_vars PROVE TypeInv'
  OBVIOUS
<1>1. CASE Tick \/ Crash
  BY <1>1, TypeTick, TypeStops, TypeRecord DEF Tick
<1>2. ASSUME NEW x \in Executions,
             \/ \E d \in Definitions : Start(x, d)
             \/ Pause(x) \/ Resume(x) \/ Cancel(x) \/ Revoke(x)
             \/ \E k \in ResultKeys : Decide(x, k)
             \/ RecordMoves(x) \/ DeadlinePasses(x)
      PROVE  TypeInv'
  BY <1>2, TypeStart, TypeStops, TypeResume, TypeDecide, TypeTick
<1>3. ASSUME NEW o \in Steps, RunEnds(o) \/ \E k \in ResultKeys : Accept(o, k)
      PROVE  TypeInv'
  BY <1>3, TypeTick, TypeAccept
<1>4. CASE UNCHANGED vars
  BY <1>4 DEF vars, executionVars, stepVars, tickVars, authorityVars, TypeInv, TypeOK, RowsInv,
              TickInv, StepsOf
<1> QED BY <1>1, <1>2, <1>3, <1>4 DEF Next

\* The invariant holds in every reachable state.
LEMMA TypeInvariant == Spec => []TypeInv
<1>1. QED BY TypeInit, TypeStep, PTL DEF Spec

\* Type correctness, with the agreement of the rows it states: an occurrence is
\* owned when its row exists, only dispatched intents have runs, and only runs
\* that were recorded are queued for cancellation.
THEOREM TypeCorrect == Spec => []TypeOK
<1>1. TypeInv => TypeOK
  BY DEF TypeInv
<1> QED BY <1>1, TypeInvariant, PTL

--------------------------------------------------------------------------------
(* What no step changes: rows stay with their execution, executions keep      *)
(* their definition, and only Record makes a step run.                         *)

OwnersStay == \A o \in Steps : owner[o] # None => owner'[o] = owner[o]
DefinitionsStay ==
    \A x \in Executions : state[x] # "NEW" => state'[x] # "NEW" /\ def'[x] = def[x]
NoNewRunning == \A o \in Steps : step'[o] = "RUNNING" => step[o] = "RUNNING"
TerminalStays ==
    \A x \in Executions : state[x] \in Terminal =>
        /\ state'[x] = state[x] /\ reason'[x] = reason[x] /\ node'[x] = node[x]
        /\ \A o \in Steps : owner'[o] = x => owner[o] = x
Stays == OwnersStay /\ DefinitionsStay /\ NoNewRunning /\ TerminalStays

\* The state of an execution that has not started is no open or terminal one.
LEMMA StateSets ==
    /\ Terminal = {"COMPLETED", "FAILED", "CANCELLED"} /\ Open = {"ACTIVE", "WAITING", "PAUSED"}
    /\ Open \cap Terminal = {} /\ "NEW" \notin Open \cup Terminal
BY DEF Terminal, Outcomes, Open

\* The step moves execution x only, which is not terminal, and keeps its
\* definition unless it starts.
MovesOnly(x) ==
    /\ state[x] \notin Terminal
    /\ \/ def' = def
       \/ state[x] = "NEW" /\ \E d \in Definitions : def' = [def EXCEPT ![x] = d]
    /\ \E st \in Open \cup Terminal, why \in Reasons : Becomes(x, st, why)
    /\ \A y \in Executions \ {x} : node'[y] = node[y]

\* A step that moves one open execution, adds rows to it and makes none run
\* keeps the rest.
LEMMA StaysByMove ==
    ASSUME TypeInv, NEW x \in Executions, MovesOnly(x), NoNewRunning,
           \A o \in Steps : owner'[o] = owner[o] \/ (owner[o] = None /\ owner'[o] = x)
    PROVE  Stays
<1>1. OwnersStay
  BY DEF OwnersStay
<1>2. /\ \A y \in Executions \ {x} : state'[y] = state[y] /\ reason'[y] = reason[y] /\ def'[y] = def[y]
      /\ state'[x] \in Open \cup Terminal
      /\ state[x] # "NEW" => def'[x] = def[x]
  BY DEF MovesOnly, Becomes, TypeInv, TypeOK, RowsInv
<1>3. DefinitionsStay
  BY <1>2, StateSets DEF DefinitionsStay
<1>4. TerminalStays
  BY <1>2 DEF TerminalStays, MovesOnly
<1> QED BY <1>1, <1>3, <1>4 DEF Stays

\* Entering a node adds rows to the execution that enters it.
LEMMA StaysByEnter ==
    ASSUME TypeInv, NEW x \in Executions, state[x] \notin Terminal,
           NEW d \in Definitions, NEW t \in NodesOf(d),
           NEW steps \in [Steps -> StepStates],
           \A o \in Steps : steps[o] = "RUNNING" => step[o] = "RUNNING",
           Enter(x, d, t, steps),
           def' = def \/ (state[x] = "NEW" /\ def' = [def EXCEPT ![x] = d])
    PROVE  Stays
<1>1. PICK N \in SUBSET UnownedOf(d) : Entered(x, steps, N)
  BY EnterRows
<1>2. \E st \in Open \cup Terminal, why \in Reasons : Becomes(x, st, why)
  BY EnterState
<1>3. MovesOnly(x)
  BY <1>2 DEF MovesOnly, Enter, TypeInv, TypeOK
<1>4. NoNewRunning
  BY <1>1 DEF NoNewRunning, Entered
<1>5. \A o \in Steps : owner'[o] = owner[o] \/ (owner[o] = None /\ owner'[o] = x)
  BY <1>1 DEF Entered, UnownedOf
<1> QED BY <1>3, <1>4, <1>5, StaysByMove

\* What accepting a result does: it ends one step of an open execution, cancels
\* others that were not launched, and either enters a target or adds no row.
After(o, k) == AfterResult(owner[o], o, Outcome(owner[o], o[1], k).cancel)
AcceptEnters(o, k) ==
    /\ Outcome(owner[o], o[1], k).target \in NodesOf(def[owner[o]])
    /\ Enter(owner[o], def[owner[o]], Outcome(owner[o], o[1], k).target, After(o, k))
AcceptEnds(o, k) ==
    /\ step' = After(o, k) /\ owner' = owner
    /\ \A y \in Executions \ {owner[o]} : node'[y] = node[y]
    /\ \/ Becomes(owner[o], "WAITING", "TRANSITION_REQUIRED")
       \/ Becomes(owner[o], "PAUSED", None)
       \/ /\ Becomes(owner[o], "FAILED", "CYCLE_BOUND")
          /\ \A s \in Steps : owner[s] = owner[o] /\ After(o, k)[s] = "RUNNING" => s \in outbox'

LEMMA AcceptFacts ==
    ASSUME TypeInv, NEW o \in Steps, NEW k, Accept(o, k)
    PROVE  /\ owner[o] \in Executions /\ state[owner[o]] \in Open
           /\ def[owner[o]] \in Definitions /\ run[o] = "ENDED"
           /\ UNCHANGED <<def, dispatched, run>> /\ outbox \subseteq outbox'
           /\ After(o, k) \in [Steps -> StepStates]
           /\ \A s \in Steps : \/ After(o, k)[s] = step[s]
                               \/ After(o, k)[s] = "TERMINAL" /\ s = o
                               \/ After(o, k)[s] = "CANCELLED" /\ s \notin dispatched
           /\ AcceptEnters(o, k) \/ AcceptEnds(o, k)
<1> DEFINE x == owner[o]
           e == Outcome(x, o[1], k)
           L == Losers(x, e.cancel)
           out == outbox \cup {s \in L : step[s] = "RUNNING"}
<1>1. step[o] = "RUNNING" /\ state[x] \in Open /\ run[o] = "ENDED"
  BY DEF Accept
<1>2. x \in Executions
  BY <1>1 DEF TypeInv, TypeOK
<1>3. def[x] \in Definitions
  BY <1>1, <1>2, StartedFacts, StateSets
<1>4. UNCHANGED <<def, dispatched, run>>
  BY DEF Accept, authorityVars
<1>5. After(o, k) \in [Steps -> StepStates]
  BY <1>1, <1>2, ResultRows DEF After
<1>6. \A s \in Steps : \/ After(o, k)[s] = step[s]
                       \/ After(o, k)[s] = "TERMINAL" /\ s = o
                       \/ After(o, k)[s] = "CANCELLED" /\ s \notin dispatched
  BY DEF After, AfterResult
<1>7. e.target \in NodesOf(def[x]) \cup {None}
  BY <1>3, OutcomeIsNode
<1>8. \/ /\ StopSteps(x, invalidated \cup (L \ dispatched), out, After(o, k))
         /\ Becomes(x, "FAILED", "CYCLE_BOUND")
         /\ step' = After(o, k) /\ UNCHANGED <<node, owner>>
      \/ /\ Becomes(x, "WAITING", "TRANSITION_REQUIRED") \/ Becomes(x, "PAUSED", None)
         /\ node' = [node EXCEPT ![x] = o[1]] /\ step' = After(o, k) /\ owner' = owner
         /\ outbox' = out
      \/ /\ e.target # None /\ Enter(x, def[x], e.target, After(o, k)) /\ outbox' = out
  BY DEF Accept, Proceed, After, AfterResult
<1> HIDE DEF L, e
<1>9. outbox \subseteq outbox'
  BY <1>8 DEF StopSteps
<1>10. CASE /\ StopSteps(x, invalidated \cup (L \ dispatched), out, After(o, k))
            /\ Becomes(x, "FAILED", "CYCLE_BOUND")
            /\ step' = After(o, k) /\ UNCHANGED <<node, owner>>
  <2>1. AcceptEnds(o, k)
    BY <1>10 DEF StopSteps, StepsOf, AcceptEnds
  <2> QED BY <1>1, <1>2, <1>3, <1>4, <1>5, <1>6, <1>9, <2>1
<1>11. CASE /\ Becomes(x, "WAITING", "TRANSITION_REQUIRED") \/ Becomes(x, "PAUSED", None)
            /\ node' = [node EXCEPT ![x] = o[1]] /\ step' = After(o, k) /\ owner' = owner
            /\ outbox' = out
  <2>1. AcceptEnds(o, k)
    BY <1>11 DEF AcceptEnds, TypeInv, TypeOK
  <2> QED BY <1>1, <1>2, <1>3, <1>4, <1>5, <1>6, <1>9, <2>1
<1>12. CASE e.target # None /\ Enter(x, def[x], e.target, After(o, k)) /\ outbox' = out
  <2>1. AcceptEnters(o, k)
    BY <1>7, <1>12 DEF AcceptEnters, e
  <2> QED BY <1>1, <1>2, <1>3, <1>4, <1>5, <1>6, <1>9, <2>1
<1> QED BY <1>8, <1>10, <1>11, <1>12

\* Accepting a result keeps the rest.
LEMMA AcceptStays ==
    ASSUME TypeInv, NEW o \in Steps, NEW k, Accept(o, k)
    PROVE  Stays
<1>1. /\ owner[o] \in Executions /\ state[owner[o]] \notin Terminal
      /\ def[owner[o]] \in Definitions /\ def' = def
      /\ After(o, k) \in [Steps -> StepStates]
      /\ \A s \in Steps : After(o, k)[s] = "RUNNING" => step[s] = "RUNNING"
  BY AcceptFacts, StateSets
<1>2. CASE AcceptEnters(o, k)
  BY <1>1, <1>2, StaysByEnter DEF AcceptEnters
<1>3. CASE AcceptEnds(o, k)
  <2>1. MovesOnly(owner[o])
    BY <1>1, <1>3, StateSets DEF AcceptEnds, MovesOnly, Reasons, Stopped
  <2> QED BY <1>1, <1>3, <2>1, StaysByMove DEF AcceptEnds, NoNewRunning
<1> QED BY <1>2, <1>3, AcceptFacts

\* Every step but Record keeps all of this.
LEMMA NextStays == ASSUME TypeInv, [Next]_vars, ~Record PROVE Stays
<1> DEFINE Same == UNCHANGED <<executionVars, owner, step>>
<1>1. ASSUME Same PROVE Stays
  BY <1>1 DEF Stays, OwnersStay, DefinitionsStay, NoNewRunning, TerminalStays, executionVars
<1>2. CASE UNCHANGED vars
  BY <1>1, <1>2 DEF vars, stepVars
<1>3. CASE Tick \/ Crash
  <2>1. CASE TickBegin
    <3>1. OwnersStay /\ NoNewRunning /\ UNCHANGED <<owner, step, def, node>>
      BY <2>1 DEF TickBegin, OwnersStay, NoNewRunning
    <3>2. DefinitionsStay
      BY <2>1 DEF TickBegin, DefinitionsStay
    <3>3. TerminalStays
      BY <2>1, <3>1, StateSets DEF TickBegin, TerminalStays, Overdue
    <3> QED BY <3>1, <3>2, <3>3 DEF Stays
  <2>2. CASE ResolveStale
    <3>1. CASE seen /\ state[owner[current]] = "ACTIVE"
      <4>1. owner[current] \in Executions
        BY <2>2 DEF ResolveStale, TypeInv, TypeOK, TickInv
      <4>2. MovesOnly(owner[current])
        BY <2>2, <3>1, StateSets DEF ResolveStale, MovesOnly, Reasons
      <4> QED BY <2>2, <4>1, <4>2, StaysByMove DEF ResolveStale, NoNewRunning
    <3>2. CASE ~(seen /\ state[owner[current]] = "ACTIVE")
      <4>1. Same
        BY <2>2, <3>2 DEF ResolveStale, executionVars
      <4> QED BY <1>1, <4>1
    <3> QED BY <3>1, <3>2
  <2>3. CASE ~(TickBegin \/ ResolveStale)
    <3>1. Same
      BY <1>3, <2>3 DEF Tick, Crash, Select, Resolve, LaunchRefused, Launch, LoadCancellations,
                        MarkRequested, TickEnd, CancelRun, CancelRefused, stepVars
    <3> QED BY <1>1, <3>1
  <2> QED BY <2>1, <2>2, <2>3
<1>4. ASSUME NEW x \in Executions, NEW d \in Definitions, Start(x, d) PROVE Stays
  <2>1. TargetOf(d, StartOf(d), "STARTED") \in NodesOf(d)
    BY FirstIsNode
  <2>2. /\ Enter(x, d, TargetOf(d, StartOf(d), "STARTED"), step)
        /\ state[x] = "NEW" /\ def' = [def EXCEPT ![x] = d]
    BY <1>4 DEF Start, StoreExecution
  <2> QED BY <2>1, <2>2, StaysByEnter, StepFacts, StateSets
<1>5. ASSUME NEW x \in Executions, Pause(x) \/ Cancel(x) \/ Revoke(x) PROVE Stays
  <2>1. MovesOnly(x)
    BY <1>5, StateSets DEF Pause, Cancel, Revoke, MovesOnly, Reasons, Stopped
  <2> QED BY <1>5, <2>1, StaysByMove DEF Pause, Cancel, Revoke, NoNewRunning, stepVars
<1>6. ASSUME NEW x \in Executions, Resume(x) PROVE Stays
  <2>1. state[x] \notin Terminal /\ state[x] # "NEW" /\ def' = def
    BY <1>6, StateSets DEF Resume
  <2>2. CASE EnterPending(x) /\ pending[x] # None
    <3>1. def[x] \in Definitions /\ pending[x] \in NodesOf(def[x])
      BY <2>1, <2>2, StartedFacts
    <3> QED BY <2>1, <2>2, <3>1, StaysByEnter, StepFacts DEF EnterPending
  <2>3. CASE ~(EnterPending(x) /\ pending[x] # None)
    <3>1. MovesOnly(x) /\ UNCHANGED <<owner, step>>
      BY <1>6, <2>1, <2>3, StateSets DEF Resume, MovesOnly, Reasons
    <3> QED BY <3>1, StaysByMove DEF NoNewRunning
  <2> QED BY <2>2, <2>3
<1>7. ASSUME NEW x \in Executions, NEW k, Decide(x, k) PROVE Stays
  <2>1. state[x] \notin Terminal /\ state[x] # "NEW" /\ def' = def
    BY <1>7, StateSets DEF Decide
  <2>2. CASE Enter(x, def[x], TargetOf(def[x], node[x], k), step)
    <3>1. def[x] \in Definitions /\ TargetOf(def[x], node[x], k) \in NodesOf(def[x])
      BY <1>7, <2>1, DecisionTarget, StartedFacts
    <3> QED BY <2>1, <2>2, <3>1, StaysByEnter, StepFacts
  <2>3. CASE ~Enter(x, def[x], TargetOf(def[x], node[x], k), step)
    <3>1. MovesOnly(x) /\ UNCHANGED <<owner, step>>
      BY <1>7, <2>1, <2>3, StateSets DEF Decide, MovesOnly, Reasons, Stopped
    <3> QED BY <3>1, StaysByMove DEF NoNewRunning
  <2> QED BY <2>2, <2>3
<1>8. ASSUME NEW o \in Steps, NEW k, Accept(o, k) PROVE Stays
  BY <1>8, AcceptStays
<1>9. ASSUME NEW x \in Executions, RecordMoves(x) \/ DeadlinePasses(x) PROVE Stays
  BY <1>1, <1>9 DEF RecordMoves, DeadlinePasses, stepVars
<1>10. ASSUME NEW o \in Steps, RunEnds(o) PROVE Stays
  BY <1>1, <1>10 DEF RunEnds, stepVars
<1> QED BY <1>2, <1>3, <1>4, <1>5, <1>6, <1>7, <1>8, <1>9, <1>10 DEF Next


--------------------------------------------------------------------------------
(* Concurrency.                                                            *)

\* The execution the tick is launching for has room for one more running step.
RoomToLaunch ==
    phase \in {"LAUNCHING", "LAUNCHED"} =>
        Cardinality(RunningSteps(owner[current])) < def[owner[current]].maximumConcurrency

ConcurrencyInv == TypeInv /\ ConcurrencyBounded /\ RoomToLaunch

\* The running steps of an execution are finitely many.
LEMMA RunningFinite ==
    ASSUME NEW x
    PROVE  IsFiniteSet(RunningSteps(x)) /\ Cardinality(RunningSteps(x)) \in Nat
BY StepsFinite, FS_Subset, FS_CardinalityType DEF RunningSteps, StepsOf

\* No step but Record adds to the running steps of an execution.
LEMMA RunningShrinks ==
    ASSUME TypeInv, Stays, NEW x \in Executions
    PROVE  RunningSteps(x)' \subseteq RunningSteps(x)
<1>1. \A o \in Steps : step[o] # "NONE" => owner'[o] = owner[o]
  BY DEF Stays, OwnersStay, TypeInv, TypeOK
<1>2. \A o \in Steps : step'[o] = "RUNNING" => step[o] = "RUNNING"
  BY DEF Stays, NoNewRunning
<1> QED BY <1>1, <1>2 DEF RunningSteps, StepsOf

\* Fewer running steps are no more than before.
LEMMA ShrinksBound ==
    ASSUME NEW x, RunningSteps(x)' \subseteq RunningSteps(x)
    PROVE  Cardinality(RunningSteps(x)') \in Nat
           /\ Cardinality(RunningSteps(x)') <= Cardinality(RunningSteps(x))
<1>1. IsFiniteSet(RunningSteps(x)) /\ Cardinality(RunningSteps(x)) \in Nat
  BY RunningFinite
<1> QED BY <1>1, FS_Subset, FS_CardinalityType

\* The tick gets to a launch from the resolution that found room for it.
LEMMA TickMoves ==
    ASSUME [Next]_vars, ~Record, phase' \in {"LAUNCHING", "LAUNCHED"}
    PROVE  /\ current' = current
           /\ \/ phase \in {"LAUNCHING", "LAUNCHED"}
              \/ /\ phase = "RESOLVING"
                 /\ Cardinality(RunningSteps(owner[current])) < def[owner[current]].maximumConcurrency
<1>1. CASE Tick \/ Crash \/ UNCHANGED vars
  BY <1>1 DEF Tick, TickBegin, Select, ResolveStale, Resolve, LaunchRefused, Launch,
              LoadCancellations, CancelRun, CancelRefused, MarkRequested, TickEnd, Crash, vars, tickVars
<1>2. CASE ~(Tick \/ Crash \/ UNCHANGED vars)
  <2>1. ASSUME NEW x \in Executions, \E d \in Definitions : Start(x, d) PROVE UNCHANGED tickVars
    BY <2>1 DEF Start, StoreExecution
  <2>2. ASSUME NEW x \in Executions,
               Pause(x) \/ Resume(x) \/ Cancel(x) \/ Revoke(x) \/ RecordMoves(x) \/ DeadlinePasses(x)
        PROVE  UNCHANGED tickVars
    BY <2>2 DEF Pause, Resume, Cancel, Revoke, RecordMoves, DeadlinePasses
  <2>3. ASSUME NEW x \in Executions, \E k \in ResultKeys : Decide(x, k) PROVE UNCHANGED tickVars
    BY <2>3 DEF Decide
  <2>4. ASSUME NEW o \in Steps, RunEnds(o) PROVE UNCHANGED tickVars
    BY <2>4 DEF RunEnds
  <2>5. ASSUME NEW o \in Steps, \E k \in ResultKeys : Accept(o, k) PROVE UNCHANGED tickVars
    BY <2>5 DEF Accept
  <2>6. UNCHANGED tickVars
    BY <1>2, <2>1, <2>2, <2>3, <2>4, <2>5 DEF Next
  <2> QED BY <2>6 DEF tickVars
<1> QED BY <1>1, <1>2

\* Every step preserves the bound and the room.
LEMMA ConcurrencyStep == ConcurrencyInv /\ [Next]_vars => ConcurrencyInv'
<1> SUFFICES ASSUME ConcurrencyInv, [Next]_vars PROVE ConcurrencyInv'
  OBVIOUS
<1>1. TypeInv /\ TypeInv'
  BY TypeStep DEF ConcurrencyInv
<1>2. \A d \in Definitions : d.maximumConcurrency \in Nat \ {0}
  BY DefinitionsAssumption DEF WellFormed
<1>3. CASE Record
  <2>0. current \in Range(intents) /\ owner[current] \in Executions /\ current \in Steps
    BY <1>1, <1>3 DEF Record, TypeInv, TypeOK, TickInv
  <2> PICK x \in Executions, c \in Steps : x = owner[current] /\ c = current
    BY <2>0
  <2>1. c \in Range(intents) /\ x = owner[c]
    BY <2>0
  <2>2. state[x] # "NEW" /\ def[x] \in Definitions
    BY <1>1, <2>1 DEF TypeInv, TypeOK, RowsInv, StepsOf
  <2>3. Cardinality(RunningSteps(x)) < def[x].maximumConcurrency
    BY <1>3, <2>1 DEF Record, ConcurrencyInv, RoomToLaunch
  <2>4. owner' = owner /\ def' = def /\ \A o \in Steps \ {c} : step'[o] = step[o]
    BY <1>1, <1>3 DEF Record, TypeInv, TypeOK
  <2>5. RunningSteps(x)' \subseteq RunningSteps(x) \cup {c}
    BY <2>4 DEF RunningSteps, StepsOf
  <2>6. Cardinality(RunningSteps(x)') <= def[x].maximumConcurrency
    <3>1. IsFiniteSet(RunningSteps(x)) /\ Cardinality(RunningSteps(x)) \in Nat
      BY RunningFinite
    <3>2. /\ IsFiniteSet(RunningSteps(x) \cup {c})
          /\ Cardinality(RunningSteps(x) \cup {c}) <= Cardinality(RunningSteps(x)) + 1
          /\ Cardinality(RunningSteps(x) \cup {c}) \in Nat
      <4>1. /\ IsFiniteSet(RunningSteps(x) \cup {c})
            /\ Cardinality(RunningSteps(x) \cup {c}) =
                 IF c \in RunningSteps(x) THEN Cardinality(RunningSteps(x))
                                          ELSE Cardinality(RunningSteps(x)) + 1
        BY <3>1, FS_AddElement, Zenon
      <4> QED BY <3>1, <4>1
    <3>3. /\ Cardinality(RunningSteps(x)') <= Cardinality(RunningSteps(x) \cup {c})
          /\ Cardinality(RunningSteps(x)') \in Nat
      BY <2>5, <3>2, FS_Subset, FS_CardinalityType
    <3> QED BY <1>2, <2>2, <2>3, <3>1, <3>2, <3>3
  <2>7. \A y \in Executions : state'[y] = "NEW" <=> state[y] = "NEW"
    BY <1>1, <1>3, <2>1 DEF Record, Becomes, TypeInv, TypeOK, Open
  <2>8. ASSUME NEW y \in Executions, y # x PROVE RunningSteps(y)' = RunningSteps(y)
    BY <2>4, <2>8 DEF RunningSteps, StepsOf
  <2>9. ConcurrencyBounded'
    <3> SUFFICES ASSUME NEW y \in Executions, state'[y] # "NEW"
                 PROVE  Cardinality(RunningSteps(y)') <= def'[y].maximumConcurrency
      BY DEF ConcurrencyBounded
    <3>1. CASE y = x
      BY <2>4, <2>6, <3>1
    <3>2. CASE y # x
      BY <2>4, <2>7, <2>8, <3>2 DEF ConcurrencyInv, ConcurrencyBounded
    <3> QED BY <3>1, <3>2
  <2>10. RoomToLaunch'
    BY <1>3 DEF Record, RoomToLaunch
  <2> QED BY <1>1, <2>9, <2>10 DEF ConcurrencyInv
<1>4. CASE ~Record
  <2>1. Stays
    BY <1>1, <1>4, NextStays
  <2>2. \A y \in Executions : RunningSteps(y)' \subseteq RunningSteps(y)
    BY <1>1, <2>1, RunningShrinks
  <2>3. \A y \in Executions : /\ Cardinality(RunningSteps(y)') \in Nat
                              /\ Cardinality(RunningSteps(y)') <= Cardinality(RunningSteps(y))
    BY <2>2, ShrinksBound
  <2>4. \A y \in Executions : Cardinality(RunningSteps(y)) \in Nat
    BY RunningFinite
  <2>5. ConcurrencyBounded'
    <3> SUFFICES ASSUME NEW y \in Executions, state'[y] # "NEW"
                 PROVE  Cardinality(RunningSteps(y)') <= def'[y].maximumConcurrency
      BY DEF ConcurrencyBounded
    <3>1. def'[y] \in Definitions
      BY <1>1 DEF TypeInv, TypeOK
    <3>2. CASE state[y] # "NEW"
      <4>1. def'[y] = def[y]
        BY <2>1, <3>2 DEF Stays, DefinitionsStay
      <4> QED BY <1>2, <2>3, <2>4, <3>1, <3>2, <4>1 DEF ConcurrencyInv, ConcurrencyBounded
    <3>3. CASE state[y] = "NEW"
      <4>1. RunningSteps(y)' = {}
        BY <1>1, <2>2, <3>3 DEF TypeInv, RowsInv, RunningSteps
      <4> QED BY <1>2, <3>1, <4>1, FS_EmptySet
    <3> QED BY <3>2, <3>3
  <2>6. RoomToLaunch'
    <3> SUFFICES ASSUME phase' \in {"LAUNCHING", "LAUNCHED"},
                        NEW x, x = owner'[current']
                 PROVE  Cardinality(RunningSteps(x)') < def'[x].maximumConcurrency
      BY DEF RoomToLaunch, RunningSteps, StepsOf
    <3>1. /\ current' = current /\ phase \in {"RESOLVING", "LAUNCHING", "LAUNCHED"}
          /\ Cardinality(RunningSteps(owner[current])) < def[owner[current]].maximumConcurrency
      BY <1>4, TickMoves DEF ConcurrencyInv, RoomToLaunch
    <3>2. current \in Steps /\ x \in Executions /\ owner[current] = x
      BY <1>1, <2>1, <3>1 DEF TypeInv, TypeOK, TickInv, Stays, OwnersStay
    <3>3. state[x] # "NEW"
      BY <1>1, <3>2 DEF TypeInv, RowsInv, StepsOf
    <3>4. def[x] \in Definitions /\ def'[x] = def[x]
      BY <1>1, <2>1, <3>2, <3>3 DEF TypeInv, TypeOK, Stays, DefinitionsStay
    <3> QED BY <1>2, <2>3, <2>4, <3>1, <3>2, <3>4
  <2> QED BY <1>1, <2>5, <2>6 DEF ConcurrencyInv
<1> QED BY <1>3, <1>4

\* An execution never has more running steps than its definition allows: room is
\* checked before a launch is sent, and only recording that launch takes it.
THEOREM ConcurrencyHolds == Spec => []ConcurrencyBounded
<1>1. Init => ConcurrencyInv
  BY TypeInit DEF Init, ConcurrencyInv, ConcurrencyBounded, RoomToLaunch
<1>2. ConcurrencyInv => ConcurrencyBounded
  BY DEF ConcurrencyInv
<1> QED BY <1>1, <1>2, ConcurrencyStep, PTL DEF Spec

--------------------------------------------------------------------------------
(* Terminal executions.                                                    *)

\* A terminal execution is final: only Record could make a step of it run, and
\* what it records for a terminal execution is cancelled.
THEOREM TerminalExecutionsAreFinal == Spec => TerminalIsFinal
<1> DEFINE Final ==
        \A x \in Executions : state[x] \in Terminal =>
            /\ state'[x] = state[x] /\ node'[x] = node[x]
            /\ StepsOf(x)' = StepsOf(x) /\ RunningSteps(x)' \subseteq RunningSteps(x)
<1>1. ASSUME TypeInv, [Next]_vars PROVE Final
  <2> SUFFICES ASSUME NEW x \in Executions, state[x] \in Terminal
               PROVE  /\ state'[x] = state[x] /\ node'[x] = node[x]
                      /\ StepsOf(x)' = StepsOf(x) /\ RunningSteps(x)' \subseteq RunningSteps(x)
    OBVIOUS
  <2>1. CASE Record
    <3>1. owner' = owner /\ node' = node /\ current \in Steps /\ owner[current] \in Executions
      BY <1>1, <2>1 DEF Record, TypeInv, TypeOK, TickInv
    <3>2. state'[x] = state[x]
      BY <1>1, <2>1, <3>1, StateSets DEF Record, Becomes, TypeInv, TypeOK
    <3>3. \A o \in Steps : step'[o] = "RUNNING" /\ owner[o] = x => step[o] = "RUNNING"
      BY <1>1, <2>1, <3>1, StateSets DEF Record, StillValid, TypeInv, TypeOK
    <3> QED BY <3>1, <3>2, <3>3 DEF RunningSteps, StepsOf
  <2>2. CASE ~Record
    <3>1. Stays
      BY <1>1, <2>2, NextStays
    <3>2. state'[x] = state[x] /\ node'[x] = node[x]
      BY <3>1 DEF Stays, TerminalStays
    <3>3. StepsOf(x)' = StepsOf(x)
      BY <3>1, ExecutionsAssumption DEF Stays, TerminalStays, OwnersStay, StepsOf
    <3> QED BY <1>1, <3>1, <3>2, <3>3, RunningShrinks
  <2> QED BY <2>1, <2>2
<1>2. TypeInv /\ [Next]_vars => [Final]_vars
  BY <1>1
<1>3. Spec => [][Final]_vars
  BY <1>2, TypeInvariant, PTL DEF Spec
<1> QED BY <1>3 DEF TerminalIsFinal


--------------------------------------------------------------------------------
(* Stopped executions.                                                     *)

\* An execution that was stopped is over; a recorded step that was cancelled is
\* queued for cancellation, one that is terminal has no live run, and the
\* running steps of a stopped execution are queued.
StoppedInv ==
    /\ TypeInv
    /\ \A x \in Executions : reason[x] \in Stopped => state[x] \in Terminal
    /\ \A o \in Steps :
        /\ step[o] = "CANCELLED" /\ o \in dispatched => o \in outbox
        /\ step[o] = "TERMINAL" => run[o] = "ENDED"
        /\ step[o] = "RUNNING" /\ reason[owner[o]] \in Stopped => o \in outbox

\* What is queued for cancellation, recorded or ended stays so.
LEMMA RowsStay ==
    ASSUME TypeInv, [Next]_vars
    PROVE  /\ outbox \subseteq outbox' /\ dispatched \subseteq dispatched'
           /\ \A o \in Steps : run[o] = "ENDED" => run'[o] = "ENDED"
<1> USE DEF executionVars, stepVars, authorityVars, tickVars, TypeInv, TypeOK
<1>1. CASE Tick
  BY <1>1 DEF Tick, TickBegin, Select, ResolveStale, Resolve, LaunchRefused, Launch, Record,
              LoadCancellations, CancelRun, CancelRefused, MarkRequested, TickEnd
<1>2. CASE Crash \/ UNCHANGED vars
  BY <1>2 DEF Crash, vars
<1>3. ASSUME NEW x \in Executions, \E d \in Definitions : Start(x, d)
      PROVE  UNCHANGED <<outbox, dispatched, run>>
  BY <1>3 DEF Start, StoreExecution
<1>4. ASSUME NEW x \in Executions, Pause(x) \/ RecordMoves(x) \/ DeadlinePasses(x)
      PROVE  UNCHANGED <<outbox, dispatched, run>>
  BY <1>4 DEF Pause, RecordMoves, DeadlinePasses
<1>5. ASSUME NEW x \in Executions, Resume(x) \/ Cancel(x) \/ Revoke(x)
      PROVE  outbox \subseteq outbox' /\ UNCHANGED <<dispatched, run>>
  BY <1>5 DEF Resume, Cancel, Revoke, StopSteps
<1>6. ASSUME NEW x \in Executions, \E k \in ResultKeys : Decide(x, k)
      PROVE  outbox \subseteq outbox' /\ UNCHANGED <<dispatched, run>>
  BY <1>6 DEF Decide, StopSteps
<1>7. ASSUME NEW o \in Steps, \E k \in ResultKeys : Accept(o, k)
      PROVE  outbox \subseteq outbox' /\ UNCHANGED <<dispatched, run>>
  BY <1>7, AcceptFacts
<1>8. ASSUME NEW o \in Steps, RunEnds(o)
      PROVE  /\ UNCHANGED <<outbox, dispatched>>
             /\ \A s \in Steps : run[s] = "ENDED" => run'[s] = "ENDED"
  BY <1>8 DEF RunEnds
<1> QED BY <1>1, <1>2, <1>3, <1>4, <1>5, <1>6, <1>7, <1>8 DEF Next

\* If execution x is a stopped one after the step, it is over and its running
\* steps are queued for cancellation.
StopsQueued(x) ==
    reason'[x] \in Stopped =>
        /\ state'[x] \in Terminal
        /\ \A o \in Steps : owner'[o] = x /\ step'[o] = "RUNNING" => o \in outbox'

\* A step that neither records nor accepts keeps the invariant if every
\* execution it moves is stopped with its running steps queued.
LEMMA StoppedByMove ==
    ASSUME StoppedInv, [Next]_vars, ~Record, dispatched' = dispatched,
           \A o \in Steps : \/ step'[o] = step[o]
                            \/ step'[o] = "LAUNCH_INTENT"
                            \/ step'[o] = "CANCELLED" /\ o \notin dispatched
                            \/ step'[o] = "TERMINAL" /\ run[o] = "ENDED",
           \A x \in Executions : \/ reason'[x] = reason[x] /\ state'[x] = state[x]
                                 \/ StopsQueued(x)
    PROVE  StoppedInv'
<1>1. TypeInv /\ TypeInv' /\ Stays
  BY TypeStep, NextStays DEF StoppedInv
<1>2. /\ outbox \subseteq outbox'
      /\ \A o \in Steps : run[o] = "ENDED" => run'[o] = "ENDED"
  BY <1>1, RowsStay
<1>3. \A x \in Executions : reason'[x] \in Stopped => state'[x] \in Terminal
  BY DEF StoppedInv, StopsQueued
<1>4. \A o \in Steps : /\ step'[o] = "CANCELLED" /\ o \in dispatched' => o \in outbox'
                       /\ step'[o] = "TERMINAL" => run'[o] = "ENDED"
  BY <1>2 DEF StoppedInv
<1>5. ASSUME NEW o \in Steps, step'[o] = "RUNNING", reason'[owner'[o]] \in Stopped
      PROVE  o \in outbox'
  <2>1. step[o] = "RUNNING" /\ owner[o] # None /\ owner'[o] = owner[o] /\ owner[o] \in Executions
    BY <1>1, <1>5 DEF Stays, NoNewRunning, OwnersStay, TypeInv, TypeOK
  <2>2. CASE StopsQueued(owner[o])
    BY <1>5, <2>1, <2>2 DEF StopsQueued
  <2>3. CASE reason'[owner[o]] = reason[owner[o]]
    BY <1>2, <1>5, <2>1, <2>3 DEF StoppedInv
  <2> QED BY <2>1, <2>2, <2>3
<1> QED BY <1>1, <1>3, <1>4, <1>5 DEF StoppedInv

\* Recording a launch: what is recorded for an execution that was stopped is
\* queued for cancellation.
LEMMA StoppedRecord == ASSUME StoppedInv, [Next]_vars, Record PROVE StoppedInv'
<1>1. TypeInv /\ TypeInv'
  BY TypeStep DEF StoppedInv
<1>2. /\ current \in Steps /\ owner[current] \in Executions /\ owner' = owner /\ run' = run
      /\ outbox \subseteq outbox' /\ dispatched' = dispatched \cup {current}
      /\ \A o \in Steps \ {current} : step'[o] = step[o]
  BY <1>1 DEF Record, TypeInv, TypeOK, TickInv, authorityVars
<1>3. \/ step'[current] = "RUNNING" /\ state[owner[current]] \in Open
         /\ UNCHANGED <<state, reason>>
      \/ step'[current] = "CANCELLED" /\ current \in outbox'
  BY <1>1, <1>2, StateSets DEF Record, StillValid, TypeInv, TypeOK
<1>4. /\ \A x \in Executions : \/ state'[x] = state[x] /\ reason'[x] = reason[x]
                               \/ state'[x] = "FAILED" /\ reason'[x] = "DEADLINE"
  BY <1>1, <1>2 DEF Record, Becomes, TypeInv, TypeOK, RowsInv
<1>5. \A x \in Executions : reason'[x] \in Stopped => state'[x] \in Terminal /\ reason[x] \in Stopped
  BY <1>4, StateSets DEF StoppedInv, Stopped
<1>6. \A o \in Steps : /\ step'[o] = "CANCELLED" /\ o \in dispatched' => o \in outbox'
                       /\ step'[o] = "TERMINAL" => run'[o] = "ENDED"
  BY <1>2, <1>3 DEF StoppedInv
<1>7. ASSUME NEW o \in Steps, step'[o] = "RUNNING", reason'[owner'[o]] \in Stopped
      PROVE  o \in outbox'
  <2>1. owner'[o] = owner[o] /\ owner[o] \in Executions
    BY <1>1, <1>2, <1>7 DEF TypeInv, TypeOK, StepStates
  <2>2. CASE o = current
    BY <1>2, <1>3, <1>5, <1>7, <2>1, <2>2, StateSets DEF StoppedInv
  <2>3. CASE o # current
    BY <1>2, <1>5, <1>7, <2>1, <2>3 DEF StoppedInv
  <2> QED BY <2>2, <2>3
<1> QED BY <1>1, <1>5, <1>6, <1>7 DEF StoppedInv


\* A step that moves execution x only, and stops it with its running steps
\* queued if it stops it at all, moves each execution in one of the two ways.
LEMMA OneMoves ==
    ASSUME TypeInv, NEW x \in Executions, NEW st, NEW why, Becomes(x, st, why), StopsQueued(x)
    PROVE  \A y \in Executions : \/ reason'[y] = reason[y] /\ state'[y] = state[y]
                                 \/ StopsQueued(y)
<1>1. \A y \in Executions \ {x} : reason'[y] = reason[y] /\ state'[y] = state[y]
  BY DEF Becomes, TypeInv, TypeOK, RowsInv
<1> QED BY <1>1

\* Entering a node stops no execution.
LEMMA StoppedEnter ==
    ASSUME StoppedInv, [Next]_vars, ~Record, dispatched' = dispatched,
           NEW x \in Executions, NEW d \in Definitions, NEW t \in NodesOf(d),
           NEW steps \in [Steps -> StepStates],
           \A o \in Steps : \/ steps[o] = step[o]
                            \/ steps[o] = "CANCELLED" /\ o \notin dispatched
                            \/ steps[o] = "TERMINAL" /\ run[o] = "ENDED",
           Enter(x, d, t, steps)
    PROVE  StoppedInv'
<1>1. TypeInv
  BY DEF StoppedInv
<1>2. PICK N \in SUBSET UnownedOf(d) : Entered(x, steps, N)
  BY <1>1, EnterRows
<1>3. PICK st \in Open \cup Terminal, why \in Reasons \ Stopped : Becomes(x, st, why)
  BY EnterState
<1>4. StopsQueued(x)
  BY <1>1, <1>3 DEF StopsQueued, Becomes, TypeInv, RowsInv
<1>5. \A y \in Executions : \/ reason'[y] = reason[y] /\ state'[y] = state[y]
                            \/ StopsQueued(y)
  BY <1>1, <1>3, <1>4, OneMoves
<1>6. \A o \in Steps : \/ step'[o] = step[o]
                       \/ step'[o] = "LAUNCH_INTENT"
                       \/ step'[o] = "CANCELLED" /\ o \notin dispatched
                       \/ step'[o] = "TERMINAL" /\ run[o] = "ENDED"
  BY <1>2 DEF Entered
<1> QED BY <1>5, <1>6, StoppedByMove

\* Stopping an execution, or moving it for another reason, without new rows.
LEMMA StoppedMove ==
    ASSUME StoppedInv, [Next]_vars, ~Record, UNCHANGED <<dispatched, owner, step>>,
           NEW x \in Executions, NEW st, NEW why, Becomes(x, st, why),
           why \in Stopped => st \in Terminal /\ RunningSteps(x) \subseteq outbox'
    PROVE  StoppedInv'
<1>1. TypeInv
  BY DEF StoppedInv
<1>2. StopsQueued(x)
  BY <1>1 DEF StopsQueued, Becomes, RunningSteps, StepsOf, TypeInv, TypeOK, RowsInv
<1>3. \A y \in Executions : \/ reason'[y] = reason[y] /\ state'[y] = state[y]
                            \/ StopsQueued(y)
  BY <1>1, <1>2, OneMoves
<1> QED BY <1>3, StoppedByMove

\* Accepting a result stops an execution with its running steps queued.
LEMMA StoppedAccept ==
    ASSUME StoppedInv, [Next]_vars, ~Record, NEW o \in Steps, NEW k, Accept(o, k)
    PROVE  StoppedInv'
<1>1. TypeInv
  BY DEF StoppedInv
<1>2. /\ owner[o] \in Executions /\ def[owner[o]] \in Definitions /\ dispatched' = dispatched
      /\ After(o, k) \in [Steps -> StepStates]
      /\ \A s \in Steps : \/ After(o, k)[s] = step[s]
                          \/ After(o, k)[s] = "CANCELLED" /\ s \notin dispatched
                          \/ After(o, k)[s] = "TERMINAL" /\ run[s] = "ENDED"
  BY <1>1, AcceptFacts
<1>3. CASE AcceptEnters(o, k)
  BY <1>2, <1>3, StoppedEnter DEF AcceptEnters
<1>4. CASE AcceptEnds(o, k)
  <2>1. PICK st, why : Becomes(owner[o], st, why)
    BY <1>4 DEF AcceptEnds
  <2>2. StopsQueued(owner[o])
    BY <1>1, <1>2, <1>4 DEF StopsQueued, AcceptEnds, Becomes, TypeInv, TypeOK, RowsInv, Stopped,
                            Terminal, Outcomes, None
  <2>3. \A y \in Executions : \/ reason'[y] = reason[y] /\ state'[y] = state[y]
                              \/ StopsQueued(y)
    BY <1>1, <1>2, <2>1, <2>2, OneMoves
  <2>4. step' = After(o, k)
    BY <1>4 DEF AcceptEnds
  <2> QED BY <1>2, <2>3, <2>4, StoppedByMove
<1> QED BY <1>1, <1>3, <1>4, AcceptFacts

\* Every step preserves the invariant.
LEMMA StoppedStep == StoppedInv /\ [Next]_vars => StoppedInv'
<1> SUFFICES ASSUME StoppedInv, [Next]_vars PROVE StoppedInv'
  OBVIOUS
<1>0. TypeInv
  BY DEF StoppedInv
<1> DEFINE Same == UNCHANGED <<state, reason, dispatched, step>>
<1>1. CASE Record
  BY <1>1, StoppedRecord
<1>2. CASE ~Record /\ Same
  BY <1>2, StoppedByMove
<1>3. CASE ~Record /\ TickBegin
  <2>1. \A x \in Executions : \/ reason'[x] = reason[x] /\ state'[x] = state[x]
                              \/ StopsQueued(x)
    BY <1>3 DEF TickBegin, StopsQueued, Stopped
  <2> QED BY <1>3, <2>1, StoppedByMove DEF TickBegin
<1>4. CASE ~Record /\ ResolveStale /\ ~Same
  <2>1. owner[current] \in Executions
    BY <1>0, <1>4 DEF ResolveStale, TypeInv, TypeOK, TickInv
  <2>2. Becomes(owner[current], "WAITING", "BINDING_STALE") /\ UNCHANGED <<dispatched, owner, step>>
    BY <1>4 DEF ResolveStale
  <2> QED BY <1>4, <2>1, <2>2, StoppedMove DEF Stopped
<1>5. ASSUME NEW x \in Executions, NEW d \in Definitions, Start(x, d), ~Record PROVE StoppedInv'
  BY <1>0, <1>5, FirstIsNode, StepFacts, StoppedEnter DEF Start, StoreExecution
<1>6. ASSUME NEW x \in Executions, Pause(x) \/ Cancel(x) \/ Revoke(x), ~Record PROVE StoppedInv'
  <2>1. CASE Pause(x)
    BY <1>6, <2>1, StoppedMove DEF Pause, stepVars, Stopped, None
  <2>2. CASE Revoke(x)
    BY <1>6, <2>2, StoppedMove DEF Revoke, Stopped
  <2>3. CASE Cancel(x)
    <3>1. RunningSteps(x) \subseteq outbox' /\ "CANCELLED" \in Terminal
      BY <2>3, StateSets DEF Cancel, StopSteps, RunningSteps
    <3> QED BY <1>6, <2>3, <3>1, StoppedMove DEF Cancel
  <2> QED BY <1>6, <2>1, <2>2, <2>3
<1>7. ASSUME NEW x \in Executions, Resume(x), ~Record PROVE StoppedInv'
  <2>1. state[x] # "NEW" /\ UNCHANGED <<dispatched, def>>
    BY <1>7, StateSets DEF Resume
  <2>2. CASE EnterPending(x) /\ pending[x] # None
    <3>1. def[x] \in Definitions /\ pending[x] \in NodesOf(def[x])
      BY <1>0, <2>1, <2>2, StartedFacts
    <3> QED BY <1>0, <1>7, <2>1, <2>2, <3>1, StepFacts, StoppedEnter DEF EnterPending
  <2>3. CASE ~(EnterPending(x) /\ pending[x] # None)
    <3>1. UNCHANGED <<owner, step>> /\ \E st, why : Becomes(x, st, why) /\ why \notin Stopped
      BY <1>7, <2>3 DEF Resume, Stopped, None
    <3> QED BY <1>7, <2>1, <3>1, StoppedMove
  <2> QED BY <2>2, <2>3
<1>8. ASSUME NEW x \in Executions, NEW k, Decide(x, k), ~Record PROVE StoppedInv'
  <2>1. state[x] # "NEW" /\ UNCHANGED <<dispatched, def>>
    BY <1>8 DEF Decide
  <2>2. CASE Enter(x, def[x], TargetOf(def[x], node[x], k), step)
    <3>1. def[x] \in Definitions /\ TargetOf(def[x], node[x], k) \in NodesOf(def[x])
      BY <1>0, <1>8, <2>1, DecisionTarget, StartedFacts
    <3> QED BY <1>0, <1>8, <2>1, <2>2, <3>1, StepFacts, StoppedEnter
  <2>3. CASE ~Enter(x, def[x], TargetOf(def[x], node[x], k), step)
    <3>1. /\ UNCHANGED <<owner, step>> /\ Becomes(x, "FAILED", "CYCLE_BOUND")
          /\ RunningSteps(x) \subseteq outbox' /\ "FAILED" \in Terminal
      BY <1>8, <2>3, StateSets DEF Decide, StopSteps, RunningSteps
    <3> QED BY <1>8, <2>1, <3>1, StoppedMove
  <2> QED BY <2>2, <2>3
<1>9. ASSUME NEW o \in Steps, NEW k, Accept(o, k), ~Record PROVE StoppedInv'
  BY <1>9, StoppedAccept
<1>10. CASE Tick \/ Crash \/ UNCHANGED vars
  <2>1. TickBegin \/ ResolveStale \/ Record \/ Same
    BY <1>10 DEF Tick, Crash, Select, Resolve, LaunchRefused, Launch, LoadCancellations,
                 MarkRequested, TickEnd, CancelRun, CancelRefused, vars, executionVars, stepVars
  <2> QED BY <1>1, <1>2, <1>3, <1>4, <2>1
<1>11. ASSUME NEW x \in Executions, RecordMoves(x) \/ DeadlinePasses(x) PROVE StoppedInv'
  <2>1. Same
    BY <1>11 DEF RecordMoves, DeadlinePasses, executionVars, stepVars
  <2> QED BY <1>1, <1>2, <2>1
<1>12. ASSUME NEW o \in Steps, RunEnds(o) PROVE StoppedInv'
  <2>1. Same
    BY <1>12 DEF RunEnds, executionVars, stepVars
  <2> QED BY <1>1, <1>2, <2>1
<1> QED BY <1>1, <1>5, <1>6, <1>7, <1>8, <1>9, <1>10, <1>11, <1>12 DEF Next

\* Once an execution is cancelled or stopped at a cycle bound, every live run
\* recorded for it has a cancellation queued, launches under way included.
THEOREM StoppedChildrenQueued == Spec => []StoppedChildrenAreCancelled
<1>1. Init => StoppedInv
  <2> SUFFICES ASSUME Init PROVE StoppedInv
    OBVIOUS
  <2>1. \A x \in Executions : reason[x] \notin Stopped
    BY DEF Init, Stopped, None
  <2> QED BY <2>1, TypeInit DEF Init, StoppedInv
<1>2. StoppedInv => StoppedChildrenAreCancelled
  <2> SUFFICES ASSUME StoppedInv, NEW o \in dispatched, reason[owner[o]] \in Stopped, run[o] = "LIVE"
               PROVE  o \in outbox
    BY DEF StoppedChildrenAreCancelled
  <2>1. o \in Steps /\ step[o] \in {"RUNNING", "TERMINAL", "CANCELLED"}
    BY DEF StoppedInv, TypeInv, TypeOK, RowsInv, StepStates
  <2> QED BY <2>1 DEF StoppedInv
<1> QED BY <1>1, <1>2, StoppedStep, PTL DEF Spec

--------------------------------------------------------------------------------
(* Where joins stand.  The two theorems of this part are about definitions     *)
(* whose joins are passed once: validation also accepts others.                *)

Joins(d) == OfKind(d, "JOIN")

\* What a search finds, an edge does not leave.
LEMMA ReachableIsUnleft ==
    ASSUME NEW d, NEW m \in NodesOf(d)
    PROVE  /\ m \in Reachable(d, m)
           /\ \A p \in Reachable(d, m), q \in NodesOf(d) : Edge(d, p, q) => q \in Reachable(d, m)
<1> SUFFICES ASSUME NEW p \in Reachable(d, m), NEW q \in NodesOf(d), Edge(d, p, q)
             PROVE  q \in Reachable(d, m)
  BY DEF Reachable
<1>1. \A C \in Unleft(d) : m \in C => q \in C
  BY DEF Reachable, Unleft
<1> QED BY <1>1 DEF Reachable

\* A transition is an edge.
LEMMA TargetIsNext ==
    ASSUME NEW d \in Definitions, NEW n \in NodesOf(d), NEW k, TargetOf(d, n, k) # None
    PROVE  Edge(d, n, TargetOf(d, n, k))
<1>1. \E t \in From(d, n) : t[2] = k
  BY DEF TargetOf
<1>2. PICK t \in From(d, n) : TargetOf(d, n, k) = t[3]
  BY <1>1 DEF TargetOf
<1> QED BY <1>2 DEF Edge, From

\* So is an exact one that is named.
LEMMA NamedIsNext ==
    ASSUME NEW d \in Definitions, NEW n, NEW k, NEW t, ExactTransition(d, n, k, {t})
    PROVE  Edge(d, n, t)
BY DEF ExactTransition, From, Edge

\* A route leads to what is reached from where its node is reached from.
LEMMA RouteIsReached ==
    ASSUME NEW d \in Definitions, NEW m \in NodesOf(d), NEW n \in Reachable(d, m), NEW k,
           RouteStep(d, n, k).target # None
    PROVE  RouteStep(d, n, k).target \in Reachable(d, m)
<1> DEFINE t == TargetOf(d, n, k)
<1>1. n \in NodesOf(d) /\ t \in NodesOf(d) \cup {None}
  BY TargetIsNode DEF Reachable
<1>2. t # None
  BY DEF RouteStep
<1>3. t \in Reachable(d, m)
  BY <1>1, <1>2, TargetIsNext, ReachableIsUnleft
<1>4. CASE d.kind[t] # "RESULT_ROUTER"
  BY <1>2, <1>3, <1>4 DEF RouteStep
<1>5. CASE d.kind[t] = "RESULT_ROUTER"
  <2> DEFINE r == d.router[t]
  <2>1. NodeValid(d, t)
    BY <1>1, <1>2, DefinitionsAssumption DEF ValidWorkflow
  <2>2. RouterValid(d, t)
    BY <2>1, <1>5 DEF NodeValid
  <2>3. \A key \in DOMAIN r.routes : Edge(d, t, r.routes[key]) /\ r.routes[key] \in NodesOf(d)
    BY <2>2, ExactTargetNamed, NamedIsNext DEF RouterValid
  <2>4. Edge(d, t, r.fallback) /\ r.fallback \in NodesOf(d)
    BY <2>2, ExactTargetNamed, NamedIsNext DEF RouterValid
  <2>5. RouteStep(d, n, k).target = IF k \in DOMAIN r.routes THEN r.routes[k] ELSE r.fallback
    BY <1>2, <1>5 DEF RouteStep
  <2>6. Edge(d, t, RouteStep(d, n, k).target) /\ RouteStep(d, n, k).target \in NodesOf(d)
    BY <2>3, <2>4, <2>5
  <2> HIDE DEF t
  <2> QED BY <1>3, <2>6, ReachableIsUnleft
<1> QED BY <1>4, <1>5

\* The join a node is a branch of, if it is one.
LEMMA JoinOfBranch ==
    ASSUME NEW d, NEW n
    PROVE  \/ JoinOf(d, n) = None /\ \A j \in Joins(d) : n \notin Range(d.branches[j])
           \/ JoinOf(d, n) \in Joins(d) /\ n \in Range(d.branches[JoinOf(d, n)])
BY DEF JoinOf, Joins

\* A branch of join j is not a branch of another one.
LEMMA JoinIsOne ==
    ASSUME NEW d \in Definitions, JoinsApart(d), NEW j \in Joins(d), NEW n \in Range(d.branches[j])
    PROVE  JoinOf(d, n) = j
<1>1. None \notin NodesOf(d) /\ Joins(d) \subseteq NodesOf(d)
  BY DefinitionsAssumption DEF WellFormed, Joins, OfKind
<1>2. JoinOf(d, n) \in Joins(d) /\ n \in Range(d.branches[JoinOf(d, n)])
  BY <1>1, JoinOfBranch
<1> QED BY <1>2 DEF JoinsApart, Joins

\* The branches of a split are those of one join.
LEMMA SplitHasJoin ==
    ASSUME NEW d \in Definitions, NEW s \in NodesOf(d), d.kind[s] = "PARALLEL_SPLIT"
    PROVE  \E j \in Joins(d) : Range(d.branches[j]) = Range(d.branches[s])
<1>1. NodeValid(d, s)
  BY DefinitionsAssumption DEF ValidWorkflow
<1>2. SplitValid(d, s)
  BY <1>1 DEF NodeValid
<1>3. {j \in OfKind(d, "JOIN") : SameBranches(d, j, s)} # {}
  BY <1>2, FS_EmptySet DEF SplitValid
<1> QED BY <1>3 DEF SameBranches, Joins

\* A valid join.
LEMMA JoinsAreValid == ASSUME NEW d \in Definitions, NEW j \in Joins(d) PROVE JoinValid(d, j)
<1>1. j \in NodesOf(d) /\ d.kind[j] = "JOIN"
  BY DEF Joins, OfKind
<1>2. NodeValid(d, j)
  BY <1>1, DefinitionsAssumption DEF ValidWorkflow
<1> QED BY <1>1, <1>2 DEF NodeValid

--------------------------------------------------------------------------------
(* The turn of an execution: what it goes on with.  It is one agent run, one   *)
(* group of branches whose join is not committed, one decision, or a target    *)
(* selected while it was paused.                                               *)

JoinKeys == ResultKeys \cup {None, "ALL", "FALLBACK"}
JoinStates(d) == [Joins(d) -> [terminal : SUBSET NodesOf(d), committed : JoinKeys]]

Alive == {"LAUNCH_INTENT", "RUNNING"}
StepsIn(x, j) == {o \in StepsOf(x) : o[1] \in Range(def[x].branches[j])}
Singles(x) == {o \in StepsOf(x) : step[o] \in Alive /\ JoinOf(def[x], o[1]) = None}
Gathering(x) == {j \in Joins(def[x]) : joined[x][j].committed = None /\ StepsIn(x, j) # {}}
Deciding(x) == def[x].kind[node[x]] = "HUMAN_DECISION" /\ node[x] \notin decided[x]

OneTurn(x) ==
    /\ \A o, p \in Singles(x) : o = p
    /\ \A i, j \in Gathering(x) : i = j
    /\ Singles(x) # {} => Gathering(x) = {}
    /\ Deciding(x) \/ pending[x] # None => Singles(x) = {} /\ Gathering(x) = {}
    /\ ~ (Deciding(x) /\ pending[x] # None)
TurnForm(x) ==
    /\ joined[x] \in JoinStates(def[x])
    /\ \A o \in StepsOf(x) : o[1] \in OfKind(def[x], "AGENT_RUN")

\* A row that was not dispatched is to be launched or was cancelled before it was;
\* the tick launches no row that was dispatched.
FreshInv ==
    /\ \A o \in Steps : owner[o] # None /\ o \notin dispatched =>
          \/ step[o] = "LAUNCH_INTENT"
          \/ step[o] = "CANCELLED" /\ o \in invalidated
    /\ loaded \cap dispatched = {}
    /\ phase \in {"RESOLVING", "LAUNCHING", "LAUNCHED"} => current \notin dispatched \cup loaded

TurnInv ==
    /\ TypeInv /\ FreshInv
    /\ joined = [x \in Executions |-> joined[x]] /\ decided = [x \in Executions |-> decided[x]]
    /\ \A x \in Executions : state[x] # "NEW" => TurnForm(x) /\ OneTurn(x)

\* The step gives execution x no new turn and takes back nothing.
Keeps(x) ==
    /\ state[x] = "NEW" => state'[x] = "NEW"
    /\ state[x] # "NEW" =>
         /\ def'[x] = def[x] /\ joined'[x] = joined[x] /\ pending'[x] = pending[x]
         /\ StepsOf(x)' = StepsOf(x)
         /\ Deciding(x)' => Deciding(x) /\ node'[x] = node[x]
         /\ \A o \in StepsOf(x) :
              /\ step'[o] \in Alive => step[o] \in Alive
              /\ step[o] = "TERMINAL" => step'[o] = "TERMINAL"
              /\ step'[o] = "RUNNING" => step[o] = "RUNNING" \/ o \notin dispatched \cup invalidated

\* What it keeps is one turn.
LEMMA TurnKept ==
    ASSUME NEW x, state[x] # "NEW", TurnForm(x), OneTurn(x), Keeps(x)
    PROVE  TurnForm(x)' /\ OneTurn(x)'
<1>1. /\ def'[x] = def[x] /\ joined'[x] = joined[x] /\ pending'[x] = pending[x]
      /\ StepsOf(x)' = StepsOf(x)
      /\ Deciding(x)' => Deciding(x)
  BY DEF Keeps
<1>2. Singles(x)' \subseteq Singles(x)
  BY <1>1 DEF Keeps, Singles
<1>3. Gathering(x)' = Gathering(x)
  BY <1>1 DEF Gathering, StepsIn
<1>4. TurnForm(x)'
  BY <1>1 DEF TurnForm
<1>5. OneTurn(x)'
  BY <1>1, <1>2, <1>3 DEF OneTurn
<1> QED BY <1>4, <1>5

\* No row is alive but those of branches of joins that are committed.
Clear(x, d, steps, joins) ==
    \A o \in StepsOf(x) :
        /\ steps[o] \in Alive => JoinOf(d, o[1]) # None
        /\ \A j \in Joins(d) : o[1] \in Range(d.branches[j]) => joins[j].committed # None

\* Entering a node adds the next occurrences of what it schedules.
LEMMA EnterNodes ==
    ASSUME TypeInv, NEW x \in Executions, NEW d \in Definitions, NEW t \in NodesOf(d),
           NEW steps, Enter(x, d, t, steps)
    PROVE  /\ \A o \in StepsOf(x) : o \in StepsOf(x)' /\ step'[o] = steps[o]
           /\ \A o \in StepsOf(x)' \ StepsOf(x) :
                 /\ o[1] \in Range(Scheduled(d, t)) /\ o = NextStep(x, o[1])
                 /\ step'[o] = "LAUNCH_INTENT" /\ owner[o] = None
<1> DEFINE nodes == Scheduled(d, t)
           new == [i \in 1..Len(nodes) |-> NextStep(x, nodes[i])]
<1>1. nodes \in Seq(OfKind(d, "AGENT_RUN")) /\ Len(nodes) \in Nat
  BY ScheduledType
<1>2. /\ \A o \in Range(new) : owner[o] = None
      /\ owner' = [o \in Steps |-> IF o \in Range(new) THEN x ELSE owner[o]]
      /\ step' = [o \in Steps |-> IF o \in Range(new) THEN "LAUNCH_INTENT" ELSE steps[o]]
  BY DEF Enter
<1>3. x # None
  BY ExecutionsAssumption
<1>4. ASSUME NEW o \in Range(new) PROVE o[1] \in Range(nodes) /\ o = NextStep(x, o[1])
  <2>1. PICK i \in 1..Len(nodes) : o = NextStep(x, nodes[i])
    BY <1>4 DEF Range
  <2>2. o[1] = nodes[i]
    BY <2>1 DEF NextStep
  <2>3. nodes[i] \in Range(nodes)
    BY <1>1 DEF Range
  <2> QED BY <2>1, <2>2, <2>3
<1> HIDE DEF new, nodes
<1>5. \A o \in StepsOf(x) : o \in Steps /\ o \notin Range(new)
  BY <1>2, <1>3 DEF StepsOf
<1>6. \A o \in StepsOf(x)' \ StepsOf(x) : o \in Steps /\ o \in Range(new)
  BY <1>2 DEF StepsOf
<1>7. \A o \in StepsOf(x) : o \in StepsOf(x)' /\ step'[o] = steps[o]
  BY <1>2, <1>5 DEF StepsOf
<1> QED BY <1>2, <1>4, <1>6, <1>7 DEF nodes

\* What is entered is the one thing the execution goes on with.
LEMMA EnterTurn ==
    ASSUME TypeInv, NEW x \in Executions, NEW d \in Definitions, NEW t \in NodesOf(d),
           NEW steps, Enter(x, d, t, steps), def'[x] = d, pending'[x] = None, JoinsApart(d),
           joined'[x] \in JoinStates(d), Clear(x, d, steps, joined'[x]),
           \A o \in StepsOf(x) : o[1] \in OfKind(d, "AGENT_RUN")
    PROVE  /\ TurnForm(x)' /\ OneTurn(x)'
           /\ \A o \in Singles(x)' : o[1] = t
           /\ \A j \in Gathering(x)' : \E b \in Range(d.branches[j]) : b = t \/ Edge(d, t, b)
           /\ node'[x] = t
<1> DEFINE new == StepsOf(x)' \ StepsOf(x)
<1>1. /\ \A o \in StepsOf(x) : o \in StepsOf(x)' /\ step'[o] = steps[o]
      /\ \A o \in new : o[1] \in Range(Scheduled(d, t)) /\ o = NextStep(x, o[1])
  BY EnterNodes
<1>2. node'[x] = t
  BY DEF Enter, TypeInv, TypeOK
<1>3. TurnForm(x)'
  <2>1. Range(Scheduled(d, t)) \subseteq OfKind(d, "AGENT_RUN")
    BY ScheduledType DEF Range
  <2> QED BY <1>1, <2>1 DEF TurnForm
<1>4. Singles(x)' \subseteq new /\ \A o \in Singles(x)' : JoinOf(d, o[1]) = None
  BY <1>1 DEF Clear, Singles
<1>5. \A j \in Gathering(x)' : j \in Joins(d) /\ \E o \in new : o[1] \in Range(d.branches[j])
  BY <1>1 DEF Clear, Gathering, StepsIn
<1>6. \A j \in Gathering(x)' : \E o \in new : JoinOf(d, o[1]) = j /\ o[1] \in Range(d.branches[j])
  BY <1>5, JoinIsOne
<1>7. \A j \in Joins(d) : j # None
  BY DefinitionsAssumption DEF WellFormed, Joins, OfKind
<1> HIDE DEF new
<1>8. CASE d.kind[t] = "AGENT_RUN"
  <2>1. Range(Scheduled(d, t)) = {t}
    BY <1>8 DEF Scheduled, Range
  <2>2. \A o \in new : o = NextStep(x, t) /\ o[1] = t
    BY <1>1, <2>1
  <2>3. ~ Deciding(x)'
    BY <1>2, <1>8 DEF Deciding
  <2>4. OneTurn(x)'
    BY <1>4, <1>5, <1>6, <1>7, <2>2, <2>3 DEF OneTurn
  <2> QED BY <1>2, <1>3, <1>4, <1>5, <2>2, <2>4
<1>9. CASE d.kind[t] = "PARALLEL_SPLIT"
  <2>1. Range(Scheduled(d, t)) = Range(d.branches[t])
    BY <1>9 DEF Scheduled
  <2>2. PICK i \in Joins(d) : Range(d.branches[i]) = Range(d.branches[t])
    BY <1>9, SplitHasJoin
  <2>3. \A o \in new : JoinOf(d, o[1]) = i /\ Edge(d, t, o[1])
    BY <1>1, <1>9, <2>1, <2>2, JoinIsOne DEF Edge
  <2>4. ~ Deciding(x)'
    BY <1>2, <1>9 DEF Deciding
  <2>5. Singles(x)' = {} /\ \A j \in Gathering(x)' : j = i
    BY <1>4, <1>6, <1>7, <2>3
  <2>6. OneTurn(x)'
    BY <2>4, <2>5 DEF OneTurn
  <2> QED BY <1>2, <1>3, <1>6, <2>3, <2>5, <2>6
<1>10. CASE d.kind[t] \notin {"AGENT_RUN", "PARALLEL_SPLIT"}
  <2>1. new = {}
    BY <1>1, <1>10 DEF Scheduled, Range
  <2>2. Singles(x)' = {} /\ Gathering(x)' = {}
    BY <1>4, <1>5, <2>1
  <2>3. OneTurn(x)'
    BY <2>2 DEF OneTurn
  <2> QED BY <1>2, <1>3, <2>2, <2>3
<1> QED BY <1>8, <1>9, <1>10

\* When the one turn is taken, nothing alive is left but branches of joins that
\* are committed.
LEMMA TurnTaken ==
    ASSUME NEW x, OneTurn(x), Deciding(x) \/ pending[x] # None
    PROVE  Clear(x, def[x], step, joined[x])
<1>1. Singles(x) = {} /\ Gathering(x) = {}
  BY DEF OneTurn
<1> QED BY <1>1 DEF Clear, Singles, Gathering, StepsIn

\* A branch that ends leaves its join as it is but for its own entry, or commits
\* it: then the branches that have not ended are cancelled, if the definition
\* says so, and a target that is selected lies behind the join.
JoinWaits(s, b, e) ==
    /\ e.target = None /\ e.cancel = {}
    /\ e.state.committed = s.committed
    /\ s.terminal \subseteq e.state.terminal /\ e.state.terminal \subseteq s.terminal \cup {b}
JoinCommits(d, j, s, b, e) ==
    /\ s.committed = None /\ e.state.committed # None
    /\ e.state.terminal = s.terminal \cup {b}
    /\ e.target # None => Edge(d, j, e.target)
    /\ d.join[j].remainder = "CANCEL_REMAINDER" /\ e.state.committed \in d.join[j].accepted =>
         Range(d.branches[j]) \subseteq e.state.terminal \cup e.cancel

LEMMA JoinEvaluated ==
    ASSUME NEW d \in Definitions, NEW j \in Joins(d), NEW b \in NodesOf(d),
           NEW k \in ResultKeys \ {None},
           NEW s \in [terminal : SUBSET NodesOf(d), committed : JoinKeys]
    PROVE  LET e == EvaluateJoin(d, j, s, b, k) IN
           /\ e.state \in [terminal : SUBSET NodesOf(d), committed : JoinKeys]
           /\ JoinWaits(s, b, e) \/ JoinCommits(d, j, s, b, e)
<1> DEFINE e == EvaluateJoin(d, j, s, b, k)
           S == [terminal : SUBSET NodesOf(d), committed : JoinKeys]
           terminal == s.terminal \cup {b}
           last == terminal = Range(d.branches[j])
           r == d.join[j]
<1>1. JoinValid(d, j) /\ j \in NodesOf(d)
  BY JoinsAreValid DEF Joins, OfKind
<1>2. \A key : TargetOf(d, j, key) # None => Edge(d, j, TargetOf(d, j, key))
  BY <1>1, TargetIsNext
<1>3. r.policy = "ANY" => Edge(d, j, r.fallback)
  BY <1>1, NamedIsNext DEF JoinValid
<1>4. /\ r.policy = "ALL" => r.remainder = None
      /\ r.policy \in {"ANY", "ALL"}
  BY <1>1 DEF JoinValid
<1>5. CASE s.committed # None \/ b \in s.terminal
  <2>1. e = [state |-> s, target |-> None, cancel |-> {}]
    BY <1>5 DEF EvaluateJoin
  <2> HIDE DEF e
  <2>2. JoinWaits(s, b, e) /\ e.state \in S
    BY <2>1 DEF JoinWaits
  <2> QED BY <2>2 DEF e
<1>6. CASE /\ ~(s.committed # None \/ b \in s.terminal)
           /\ r.policy = "ANY" /\ k \in r.accepted
  <2>1. e = [state |-> [terminal |-> terminal, committed |-> k], target |-> TargetOf(d, j, k),
             cancel |-> IF r.remainder = "CANCEL_REMAINDER"
                        THEN Range(d.branches[j]) \ terminal ELSE {}]
    BY <1>6 DEF EvaluateJoin
  <2> HIDE DEF e
  <2>2. e.state \in S
    BY <2>1 DEF JoinKeys
  <2>3. JoinCommits(d, j, s, b, e)
    BY <1>2, <1>6, <2>1 DEF JoinCommits
  <2> QED BY <2>2, <2>3 DEF e
<1>7. CASE /\ ~(s.committed # None \/ b \in s.terminal)
           /\ ~(r.policy = "ANY" /\ k \in r.accepted)
           /\ r.policy = "ALL" /\ last
  <2>1. e = [state |-> [terminal |-> terminal, committed |-> "ALL"],
             target |-> TargetOf(d, j, "ALL"), cancel |-> {}]
    BY <1>7 DEF EvaluateJoin
  <2> HIDE DEF e
  <2>2. e.state \in S
    BY <2>1 DEF JoinKeys
  <2>3. JoinCommits(d, j, s, b, e)
    BY <1>2, <1>4, <1>7, <2>1 DEF JoinCommits, None
  <2> QED BY <2>2, <2>3 DEF e
<1>8. CASE /\ ~(s.committed # None \/ b \in s.terminal)
           /\ ~(r.policy = "ANY" /\ k \in r.accepted)
           /\ ~(r.policy = "ALL" /\ last)
           /\ r.policy = "ANY" /\ last
  <2>1. e = [state |-> [terminal |-> terminal, committed |-> "FALLBACK"],
             target |-> r.fallback, cancel |-> {}]
    BY <1>8 DEF EvaluateJoin
  <2> HIDE DEF e
  <2>2. e.state \in S
    BY <2>1 DEF JoinKeys
  <2>3. JoinCommits(d, j, s, b, e)
    BY <1>3, <1>8, <2>1 DEF JoinCommits, None
  <2> QED BY <2>2, <2>3 DEF e
<1>9. CASE /\ ~(s.committed # None \/ b \in s.terminal)
           /\ ~(r.policy = "ANY" /\ k \in r.accepted)
           /\ ~(r.policy = "ALL" /\ last)
           /\ ~(r.policy = "ANY" /\ last)
  <2>1. e = [state |-> [s EXCEPT !.terminal = terminal], target |-> None, cancel |-> {}]
    BY <1>9 DEF EvaluateJoin
  <2>2. [s EXCEPT !.terminal = terminal] = [terminal |-> terminal, committed |-> s.committed]
    OBVIOUS
  <2> HIDE DEF e
  <2>3. JoinWaits(s, b, e) /\ e.state \in S
    BY <2>1, <2>2 DEF JoinWaits
  <2> QED BY <2>3 DEF e
<1> QED BY <1>5, <1>6, <1>7, <1>8, <1>9

\* A run reports a key that is not the mark for none.
LEMMA ResultIsKey ==
    ASSUME TurnInv, NEW o \in Steps, NEW k \in ResultKeys, Accept(o, k)
    PROVE  /\ owner[o] \in Executions /\ def[owner[o]] \in Definitions
           /\ state[owner[o]] \in Open /\ state[owner[o]] # "NEW"
           /\ o \in StepsOf(owner[o]) /\ o[1] \in OfKind(def[owner[o]], "AGENT_RUN")
           /\ TurnForm(owner[o]) /\ OneTurn(owner[o])
           /\ step[o] = "RUNNING" /\ o \in dispatched
           /\ k # None
<1>1. /\ owner[o] \in Executions /\ def[owner[o]] \in Definitions /\ state[owner[o]] \in Open
      /\ step[o] = "RUNNING" /\ o \in dispatched
  BY AcceptFacts, StepFacts DEF TurnInv, Accept
<1>2. state[owner[o]] # "NEW" /\ o \in StepsOf(owner[o])
  BY <1>1, StateSets DEF StepsOf
<1>3. TurnForm(owner[o]) /\ OneTurn(owner[o])
  BY <1>1, <1>2 DEF TurnInv
<1>4. o[1] \in OfKind(def[owner[o]], "AGENT_RUN")
  BY <1>2, <1>3 DEF TurnForm
<1>5. None \notin def[owner[o]].results[o[1]]
  BY <1>1, <1>4, DefinitionsAssumption DEF WellFormed
<1>6. k # None
  BY <1>5 DEF Accept, SystemResults, None
<1> QED BY <1>1, <1>2, <1>3, <1>4, <1>6

\* What the result of a run decides: its own route, or what its join makes of it.
RunRoutes(o, k) ==
    LET x == owner[o]
        e == Outcome(x, o[1], k)
    IN  /\ JoinOf(def[x], o[1]) = None
        /\ e.cancel = {} /\ e.joins = joined[x]
        /\ e.target = RouteStep(def[x], o[1], k).target
BranchOf(o) == JoinOf(def[owner[o]], o[1])
Evaluated(o, k) ==
    LET e == Outcome(owner[o], o[1], k)
    IN  [state |-> e.joins[BranchOf(o)], target |-> e.target, cancel |-> e.cancel]
BranchEnds(o, k) ==
    LET x == owner[o]
        e == Outcome(x, o[1], k)
        j == BranchOf(o)
    IN  /\ j \in Joins(def[x]) /\ o[1] \in Range(def[x].branches[j])
        /\ \A i \in Joins(def[x]) \ {j} : e.joins[i] = joined[x][i]
BranchWaits(o, k) == JoinWaits(joined[owner[o]][BranchOf(o)], o[1], Evaluated(o, k))
BranchCommits(o, k) ==
    JoinCommits(def[owner[o]], BranchOf(o), joined[owner[o]][BranchOf(o)], o[1], Evaluated(o, k))

LEMMA OutcomeDecides ==
    ASSUME TurnInv, NEW o \in Steps, NEW k \in ResultKeys, Accept(o, k)
    PROVE  /\ Outcome(owner[o], o[1], k).joins \in JoinStates(def[owner[o]])
           /\ \/ RunRoutes(o, k)
              \/ BranchEnds(o, k) /\ (BranchWaits(o, k) \/ BranchCommits(o, k))
<1> DEFINE x == owner[o]
           d == def[x]
           n == o[1]
           j == JoinOf(d, n)
           e == Outcome(x, n, k)
           ev == EvaluateJoin(d, j, joined[x][j], n, k)
<1>1. /\ x \in Executions /\ d \in Definitions /\ k \in ResultKeys \ {None}
      /\ n \in NodesOf(d) /\ joined[x] \in JoinStates(d)
  BY ResultIsKey DEF TurnForm, OfKind
<1>2. CASE j = None
  <2>1. e = [target |-> RouteStep(d, n, k).target, edges |-> RouteStep(d, n, k).edges,
             cancel |-> {}, joins |-> joined[x]]
    BY <1>2 DEF Outcome
  <2> HIDE DEF e
  <2>2. /\ e.target = RouteStep(d, n, k).target /\ e.cancel = {} /\ e.joins = joined[x]
    BY <2>1
  <2>3. RunRoutes(o, k)
    BY <1>2, <2>2 DEF RunRoutes, e
  <2> QED BY <1>1, <2>2, <2>3 DEF e
<1>3. CASE j # None
  <2>1. j \in Joins(d) /\ n \in Range(d.branches[j])
    BY <1>3, JoinOfBranch
  <2>2. e.target = ev.target /\ e.cancel = ev.cancel /\ e.joins = [joined[x] EXCEPT ![j] = ev.state]
    BY <1>3 DEF Outcome
  <2>3. joined[x][j] \in [terminal : SUBSET NodesOf(d), committed : JoinKeys]
    BY <1>1, <2>1 DEF JoinStates
  <2>4. /\ ev.state \in [terminal : SUBSET NodesOf(d), committed : JoinKeys]
        /\ JoinWaits(joined[x][j], n, ev) \/ JoinCommits(d, j, joined[x][j], n, ev)
    BY <1>1, <2>1, <2>3, JoinEvaluated
  <2> HIDE DEF e, ev
  <2>5. e.joins \in JoinStates(d) /\ e.joins[j] = ev.state
        /\ \A i \in Joins(d) \ {j} : e.joins[i] = joined[x][i]
    BY <1>1, <2>1, <2>2, <2>4 DEF JoinStates
  <2>6. BranchEnds(o, k)
    BY <2>1, <2>5 DEF BranchEnds, BranchOf, e
  <2>7. /\ Evaluated(o, k).state = ev.state /\ Evaluated(o, k).target = ev.target
        /\ Evaluated(o, k).cancel = ev.cancel
    BY <2>2, <2>5 DEF Evaluated, BranchOf, e
  <2>8. BranchWaits(o, k) \/ BranchCommits(o, k)
    <3>1. BranchOf(o) = j
      BY DEF BranchOf
    <3> HIDE DEF j
    <3> QED BY <2>4, <2>7, <3>1 DEF BranchWaits, BranchCommits, JoinWaits, JoinCommits
  <2> QED BY <2>5, <2>6, <2>8 DEF e
<1> QED BY <1>2, <1>3

\* A result that selects a target takes the execution's one turn.
LEMMA AcceptTakes ==
    ASSUME TurnInv, NEW o \in Steps, NEW k \in ResultKeys, Accept(o, k),
           Outcome(owner[o], o[1], k).target # None
    PROVE  /\ Clear(owner[o], def[owner[o]], After(o, k), Outcome(owner[o], o[1], k).joins)
           /\ pending[owner[o]] = None
           /\ RunRoutes(o, k) => o \in Singles(owner[o])
           /\ ~ RunRoutes(o, k) => /\ BranchEnds(o, k) /\ BranchCommits(o, k)
                                   /\ BranchOf(o) \in Gathering(owner[o])
<1> DEFINE x == owner[o]
           d == def[x]
           e == Outcome(x, o[1], k)
<1>1. /\ x \in Executions /\ d \in Definitions /\ o \in StepsOf(x) /\ OneTurn(x)
      /\ step[o] = "RUNNING"
  BY ResultIsKey
<1>2. \A s \in Steps : After(o, k)[s] \in Alive => s # o /\ step[s] \in Alive
  BY DEF After, AfterResult, Alive
<1>3. CASE RunRoutes(o, k)
  <2>1. o \in Singles(x) /\ e.joins = joined[x]
    BY <1>1, <1>3 DEF Singles, Alive, RunRoutes
  <2>2. Gathering(x) = {} /\ pending[x] = None /\ \A p \in Singles(x) : p = o
    BY <1>1, <2>1 DEF OneTurn
  <2> HIDE DEF e
  <2>3. Clear(x, d, After(o, k), e.joins)
    <3> SUFFICES ASSUME NEW s \in StepsOf(x)
                 PROVE  /\ After(o, k)[s] \in Alive => JoinOf(d, s[1]) # None
                        /\ \A j \in Joins(d) :
                              s[1] \in Range(d.branches[j]) => e.joins[j].committed # None
      BY DEF Clear
    <3>1. After(o, k)[s] \in Alive => JoinOf(d, s[1]) # None
      BY <1>2, <2>2 DEF Singles, StepsOf
    <3>2. \A j \in Joins(d) : s[1] \in Range(d.branches[j]) => joined[x][j].committed # None
      BY <2>2 DEF Gathering, StepsIn
    <3> QED BY <2>1, <3>1, <3>2
  <2> QED BY <1>3, <2>1, <2>2, <2>3 DEF e
<1>4. CASE ~ RunRoutes(o, k)
  <2>1. BranchEnds(o, k) /\ BranchCommits(o, k)
    BY <1>4, OutcomeDecides DEF BranchWaits, JoinWaits, Evaluated
  <2> DEFINE i == BranchOf(o)
  <2>2. /\ i \in Joins(d) /\ o[1] \in Range(d.branches[i])
        /\ \A j \in Joins(d) \ {i} : e.joins[j] = joined[x][j]
    BY <2>1 DEF BranchEnds
  <2>3. joined[x][i].committed = None /\ e.joins[i].committed # None
    BY <2>1 DEF BranchCommits, JoinCommits, Evaluated
  <2> HIDE DEF e, i
  <2>4. i \in Gathering(x)
    BY <1>1, <2>2, <2>3 DEF Gathering, StepsIn
  <2>5. Singles(x) = {} /\ pending[x] = None /\ \A j \in Gathering(x) : j = i
    BY <1>1, <2>4 DEF OneTurn
  <2>6. Clear(x, d, After(o, k), e.joins)
    <3> SUFFICES ASSUME NEW s \in StepsOf(x)
                 PROVE  /\ After(o, k)[s] \in Alive => JoinOf(d, s[1]) # None
                        /\ \A j \in Joins(d) :
                              s[1] \in Range(d.branches[j]) => e.joins[j].committed # None
      BY DEF Clear
    <3>1. After(o, k)[s] \in Alive => JoinOf(d, s[1]) # None
      BY <1>2, <2>5 DEF Singles, StepsOf
    <3>2. ASSUME NEW j \in Joins(d), s[1] \in Range(d.branches[j]) PROVE e.joins[j].committed # None
      BY <2>2, <2>3, <2>5, <3>2 DEF Gathering, StepsIn
    <3> QED BY <3>1, <3>2
  <2> QED BY <1>4, <2>1, <2>4, <2>5, <2>6 DEF e, i
<1> QED BY <1>3, <1>4

\* Accepting a result stores what the joins have become, and stays, selects or
\* enters the target.
AcceptRests(o, k) ==
    /\ step' = After(o, k) /\ owner' = owner /\ pending' = pending
    /\ node' = node \/ node' = [node EXCEPT ![owner[o]] = o[1]]
AcceptSelects(o, k) ==
    /\ Outcome(owner[o], o[1], k).target # None
    /\ step' = After(o, k) /\ owner' = owner
    /\ node' = [node EXCEPT ![owner[o]] = o[1]]
    /\ pending' = [pending EXCEPT ![owner[o]] = Outcome(owner[o], o[1], k).target]
AcceptGoesOn(o, k) ==
    /\ Outcome(owner[o], o[1], k).target # None
    /\ Outcome(owner[o], o[1], k).target \in NodesOf(def[owner[o]])
    /\ Enter(owner[o], def[owner[o]], Outcome(owner[o], o[1], k).target, After(o, k))
    /\ pending' = pending

LEMMA AcceptMoves ==
    ASSUME TypeInv, NEW o \in Steps, NEW k, Accept(o, k)
    PROVE  LET lost == Losers(owner[o], Outcome(owner[o], o[1], k).cancel) IN
           /\ joined' = [joined EXCEPT ![owner[o]] = Outcome(owner[o], o[1], k).joins]
           /\ UNCHANGED <<def, decided, dispatched, run, tickVars>>
           /\ invalidated \cup (lost \ dispatched) \subseteq invalidated'
           /\ outbox \cup {s \in lost : step[s] = "RUNNING"} \subseteq outbox'
           /\ AcceptRests(o, k) \/ AcceptSelects(o, k) \/ AcceptGoesOn(o, k)
<1> DEFINE x == owner[o]
           e == Outcome(x, o[1], k)
           lost == Losers(x, e.cancel)
           inv == invalidated \cup (lost \ dispatched)
           out == outbox \cup {s \in lost : step[s] = "RUNNING"}
<1>1. /\ joined' = [joined EXCEPT ![x] = e.joins]
      /\ UNCHANGED <<def, decided, dispatched, run, tickVars>>
  BY DEF Accept, authorityVars
<1>2. e.target \in NodesOf(def[x]) \cup {None}
  BY AcceptFacts, OutcomeIsNode
<1>3. \/ /\ StopSteps(x, inv, out, After(o, k))
         /\ step' = After(o, k) /\ UNCHANGED <<node, pending, owner>>
      \/ /\ node' = [node EXCEPT ![x] = o[1]] /\ step' = After(o, k) /\ owner' = owner
         /\ pending' = pending /\ invalidated' = inv /\ outbox' = out
      \/ /\ e.target # None
         /\ node' = [node EXCEPT ![x] = o[1]] /\ step' = After(o, k) /\ owner' = owner
         /\ pending' = [pending EXCEPT ![x] = e.target] /\ invalidated' = inv /\ outbox' = out
      \/ /\ e.target # None /\ Enter(x, def[x], e.target, After(o, k))
         /\ pending' = pending /\ invalidated' = inv /\ outbox' = out
  BY DEF Accept, Proceed, After, AfterResult
<1> HIDE DEF e, lost, inv, out
<1>4. inv \subseteq invalidated' /\ out \subseteq outbox'
  BY <1>3 DEF StopSteps
<1>5. AcceptRests(o, k) \/ AcceptSelects(o, k) \/ AcceptGoesOn(o, k)
  BY <1>2, <1>3 DEF AcceptRests, AcceptSelects, AcceptGoesOn, e
<1> QED BY <1>1, <1>4, <1>5 DEF e, lost, inv, out

\* No new turn of an execution whose definition stays, and one turn is kept.
LEMMA TurnShrinks ==
    ASSUME NEW x, OneTurn(x), Singles(x)' \subseteq Singles(x), Gathering(x)' \subseteq Gathering(x),
           Deciding(x)' => Deciding(x), pending'[x] = pending[x]
    PROVE  OneTurn(x)'
BY DEF OneTurn

\* After a result the execution still has one turn, and what it has is what it had
\* or lies where the result leads.
AcceptPasses(x, o, k) ==
    LET d == def[x]
        t == Outcome(x, o[1], k).target
    IN  \/ /\ Singles(x)' \subseteq Singles(x) /\ Gathering(x)' \subseteq Gathering(x)
           /\ Deciding(x)' => Deciding(x) /\ node'[x] = node[x]
           /\ pending'[x] = pending[x]
        \/ /\ t \in NodesOf(d)
           /\ \A p \in Singles(x)' : p[1] = t
           /\ \A j \in Gathering(x)' : \E b \in Range(d.branches[j]) : b = t \/ Edge(d, t, b)
           /\ Deciding(x)' => node'[x] = t
           /\ pending'[x] # None => pending'[x] = t

LEMMA AcceptTurn ==
    ASSUME TurnInv, \A d \in Definitions : JoinsApart(d),
           NEW o \in Steps, NEW k \in ResultKeys, Accept(o, k), NEW x, x = owner[o]
    PROVE  TurnForm(x)' /\ OneTurn(x)' /\ AcceptPasses(x, o, k)
<1> DEFINE d == def[x]
           e == Outcome(x, o[1], k)
<1>0. TypeInv
  BY DEF TurnInv
<1>1. /\ x \in Executions /\ d \in Definitions /\ o \in StepsOf(x) /\ OneTurn(x) /\ TurnForm(x)
      /\ o[1] \in OfKind(d, "AGENT_RUN") /\ state[x] # "NEW"
  BY ResultIsKey
<1>2. joined'[x] = e.joins /\ e.joins \in JoinStates(d) /\ def'[x] = d /\ decided'[x] = decided[x]
  BY <1>0, <1>1, AcceptMoves, OutcomeDecides DEF TurnInv
<1>3. /\ node \in [Executions -> AllNodes \cup {None}]
      /\ pending \in [Executions -> AllNodes \cup {None}]
  BY <1>0 DEF TypeInv, TypeOK
<1>4. \A s \in Steps : After(o, k)[s] \in Alive => step[s] \in Alive
  BY DEF After, AfterResult, Alive
<1>5. \A j \in Joins(d) : e.joins[j].committed = None => joined[x][j].committed = None
  <2>1. CASE RunRoutes(o, k)
    BY <2>1 DEF RunRoutes
  <2>2. CASE BranchEnds(o, k) /\ (BranchWaits(o, k) \/ BranchCommits(o, k))
    BY <2>2 DEF BranchEnds, BranchWaits, BranchCommits, JoinWaits, JoinCommits, Evaluated
  <2> QED BY <2>1, <2>2, OutcomeDecides
<1>6. d.kind[o[1]] = "AGENT_RUN"
  BY <1>1 DEF OfKind
<1> HIDE DEF e
<1>7. ASSUME step' = After(o, k), owner' = owner
      PROVE  /\ TurnForm(x)'
             /\ Singles(x)' \subseteq Singles(x) /\ Gathering(x)' \subseteq Gathering(x)
  <2>1. StepsOf(x)' = StepsOf(x)
    BY <1>7 DEF StepsOf
  <2>2. Singles(x)' \subseteq Singles(x)
    BY <1>2, <1>4, <1>7, <2>1 DEF Singles, StepsOf
  <2>3. Gathering(x)' \subseteq Gathering(x)
    BY <1>2, <1>5, <2>1 DEF Gathering, StepsIn
  <2>4. TurnForm(x)'
    BY <1>1, <1>2, <2>1 DEF TurnForm
  <2> QED BY <2>2, <2>3, <2>4
<1>8. CASE AcceptRests(o, k)
  <2>1. /\ TurnForm(x)' /\ pending'[x] = pending[x]
        /\ Singles(x)' \subseteq Singles(x) /\ Gathering(x)' \subseteq Gathering(x)
    BY <1>7, <1>8 DEF AcceptRests
  <2>2. Deciding(x)' => Deciding(x) /\ node'[x] = node[x]
    <3>1. CASE node' = node
      BY <1>2, <3>1 DEF Deciding
    <3>2. CASE node' = [node EXCEPT ![x] = o[1]]
      <4>1. node'[x] = o[1]
        BY <1>1, <1>3, <3>2
      <4> QED BY <1>2, <1>6, <4>1 DEF Deciding
    <3> QED BY <1>8, <3>1, <3>2 DEF AcceptRests
  <2>3. OneTurn(x)'
    BY <1>1, <2>1, <2>2, TurnShrinks
  <2> QED BY <2>1, <2>2, <2>3 DEF AcceptPasses
<1>9. CASE AcceptSelects(o, k)
  <2>1. /\ TurnForm(x)'
        /\ Singles(x)' \subseteq Singles(x) /\ Gathering(x)' \subseteq Gathering(x)
        /\ node'[x] = o[1] /\ pending'[x] = e.target /\ e.target # None
    BY <1>1, <1>3, <1>7, <1>9 DEF AcceptSelects, e
  <2>2. Clear(x, d, After(o, k), e.joins)
    BY <1>9, AcceptTakes DEF AcceptSelects, e
  <2>3. Singles(x)' = {} /\ Gathering(x)' = {}
    <3>1. StepsOf(x)' = StepsOf(x) /\ step' = After(o, k)
      BY <1>9 DEF StepsOf, AcceptSelects
    <3> QED BY <1>2, <2>2, <3>1 DEF Clear, Singles, Gathering, StepsIn
  <2>4. ~ Deciding(x)'
    BY <1>2, <1>6, <2>1 DEF Deciding
  <2>5. OneTurn(x)'
    BY <2>3, <2>4 DEF OneTurn
  <2>6. e.target \in NodesOf(d)
    BY <1>1, <2>1, OutcomeIsNode DEF e
  <2> QED BY <2>1, <2>3, <2>4, <2>5, <2>6 DEF AcceptPasses, e
<1>10. CASE AcceptGoesOn(o, k)
  <2>1. /\ Clear(x, d, After(o, k), e.joins) /\ pending[x] = None
        /\ e.target \in NodesOf(d) /\ Enter(x, d, e.target, After(o, k)) /\ pending' = pending
    BY <1>10, AcceptTakes DEF AcceptGoesOn, e
  <2>2. \A s \in StepsOf(x) : s[1] \in OfKind(d, "AGENT_RUN")
    BY <1>1 DEF TurnForm
  <2>3. JoinsApart(d)
    BY <1>1
  <2>4. /\ TurnForm(x)' /\ OneTurn(x)'
        /\ \A p \in Singles(x)' : p[1] = e.target
        /\ \A j \in Gathering(x)' : \E b \in Range(d.branches[j]) : b = e.target \/ Edge(d, e.target, b)
        /\ node'[x] = e.target
    BY <1>0, <1>1, <1>2, <2>1, <2>2, <2>3, EnterTurn
  <2> QED BY <2>1, <2>4 DEF AcceptPasses, e
<1> QED BY <1>0, <1>8, <1>9, <1>10, AcceptMoves


\* What was invalidated stays so, and a row is new, unchanged, or has ended.
RowMoves ==
    /\ invalidated \subseteq invalidated'
    /\ \A s \in Steps : owner'[s] # None =>
          \/ owner'[s] = owner[s] /\ step'[s] = step[s]
          \/ owner'[s] = owner[s] /\ s \in dispatched'
          \/ owner'[s] = owner[s] /\ step'[s] = "CANCELLED" /\ s \in invalidated'
          \/ step'[s] = "LAUNCH_INTENT"

\* Entering a node moves rows in this way if what it starts from does.
LEMMA EnterMovesRows ==
    ASSUME TypeInv, NEW x \in Executions, NEW d \in Definitions, NEW t \in NodesOf(d),
           NEW steps \in [Steps -> StepStates], Enter(x, d, t, steps),
           invalidated \subseteq invalidated',
           \A s \in Steps : \/ steps[s] = step[s] \/ s \in dispatched'
                            \/ steps[s] = "CANCELLED" /\ s \in invalidated'
    PROVE  RowMoves
<1>1. PICK N \in SUBSET UnownedOf(d) : Entered(x, steps, N)
  BY EnterRows
<1>2. \A s \in Steps : \/ s \in N /\ step'[s] = "LAUNCH_INTENT"
                       \/ owner'[s] = owner[s] /\ step'[s] = steps[s]
  BY <1>1 DEF Entered
<1> QED BY <1>2 DEF RowMoves

LEMMA AcceptMovesRows ==
    ASSUME TypeInv, NEW o \in Steps, NEW k, Accept(o, k)
    PROVE  RowMoves
<1> DEFINE lost == Losers(owner[o], Outcome(owner[o], o[1], k).cancel)
<1>1. /\ invalidated \cup (lost \ dispatched) \subseteq invalidated' /\ dispatched' = dispatched
      /\ AcceptRests(o, k) \/ AcceptSelects(o, k) \/ AcceptGoesOn(o, k)
  BY AcceptMoves
<1>2. /\ owner[o] \in Executions /\ def[owner[o]] \in Definitions
      /\ After(o, k) \in [Steps -> StepStates] /\ o \in dispatched
  BY AcceptFacts, StepFacts DEF Accept
<1>3. \A s \in Steps : \/ After(o, k)[s] = step[s] \/ s \in dispatched'
                       \/ After(o, k)[s] = "CANCELLED" /\ s \in invalidated'
  BY <1>1, <1>2 DEF After, AfterResult
<1>4. CASE AcceptGoesOn(o, k)
  BY <1>1, <1>2, <1>3, <1>4, EnterMovesRows DEF AcceptGoesOn
<1>5. CASE step' = After(o, k) /\ owner' = owner
  BY <1>1, <1>3, <1>5 DEF RowMoves
<1> QED BY <1>1, <1>4, <1>5 DEF AcceptRests, AcceptSelects

LEMMA RowsMove == ASSUME TypeInv, [Next]_vars PROVE RowMoves
<1> DEFINE Same == owner' = owner /\ step' = step /\ invalidated \subseteq invalidated'
<1>1. ASSUME Same PROVE RowMoves
  BY <1>1 DEF RowMoves
<1>2. CASE Tick \/ Crash \/ UNCHANGED vars
  <2>1. CASE Record
    <3>1. invalidated \subseteq invalidated' /\ owner' = owner /\ dispatched' = dispatched \cup {current}
          /\ \A s \in Steps \ {current} : step'[s] = step[s]
      BY <2>1 DEF Record, TypeInv, TypeOK
    <3> QED BY <3>1 DEF RowMoves
  <2>2. CASE ~ Record
    <3>1. Same
      BY <1>2, <2>2 DEF Tick, Crash, TickBegin, Select, ResolveStale, Resolve, LaunchRefused, Launch,
         LoadCancellations, CancelRun, CancelRefused, MarkRequested, TickEnd, vars, stepVars
    <3> QED BY <1>1, <3>1
  <2> QED BY <2>1, <2>2
<1>3. ASSUME NEW x \in Executions, NEW d \in Definitions, Start(x, d) PROVE RowMoves
  BY <1>3, FirstIsNode, StepFacts, EnterMovesRows DEF Start, StoreExecution
<1>4. ASSUME NEW x \in Executions,
             Pause(x) \/ Cancel(x) \/ Revoke(x) \/ RecordMoves(x) \/ DeadlinePasses(x)
      PROVE  RowMoves
  <2>1. Same
    BY <1>4 DEF Pause, Cancel, Revoke, RecordMoves, DeadlinePasses, StopSteps, stepVars
  <2> QED BY <1>1, <2>1
<1>5. ASSUME NEW x \in Executions, Resume(x) PROVE RowMoves
  <2>1. state[x] # "NEW"
    BY <1>5, StateSets DEF Resume
  <2>2. CASE EnterPending(x) /\ pending[x] # None /\ invalidated' = invalidated
    <3>1. def[x] \in Definitions /\ pending[x] \in NodesOf(def[x])
      BY <2>1, <2>2, StartedFacts
    <3> QED BY <2>2, <3>1, StepFacts, EnterMovesRows DEF EnterPending
  <2>3. CASE Same
    BY <1>1, <2>3
  <2> QED BY <1>5, <2>2, <2>3 DEF Resume, StopSteps
<1>6. ASSUME NEW x \in Executions, NEW k, Decide(x, k) PROVE RowMoves
  <2>1. state[x] # "NEW"
    BY <1>6 DEF Decide
  <2>2. CASE Enter(x, def[x], TargetOf(def[x], node[x], k), step) /\ invalidated' = invalidated
    <3>1. def[x] \in Definitions /\ TargetOf(def[x], node[x], k) \in NodesOf(def[x])
      BY <1>6, <2>1, DecisionTarget, StartedFacts
    <3> QED BY <2>2, <3>1, StepFacts, EnterMovesRows
  <2>3. CASE Same
    BY <1>1, <2>3
  <2> QED BY <1>6, <2>2, <2>3 DEF Decide, StopSteps
<1>7. ASSUME NEW o \in Steps, NEW k, Accept(o, k) PROVE RowMoves
  BY <1>7, AcceptMovesRows
<1>8. ASSUME NEW o \in Steps, RunEnds(o) PROVE RowMoves
  BY <1>1, <1>8 DEF RunEnds, stepVars
<1> QED BY <1>2, <1>3, <1>4, <1>5, <1>6, <1>7, <1>8 DEF Next

\* What the tick has loaded was not dispatched when it loaded it, and is dispatched
\* by this tick only.
LEMMA FreshStep == ASSUME TypeInv, FreshInv, [Next]_vars PROVE FreshInv'
<1> DEFINE Fresh == /\ loaded \cap dispatched = {}
                    /\ phase \in {"RESOLVING", "LAUNCHING", "LAUNCHED"} =>
                          current \notin dispatched \cup loaded
<1>1. Fresh'
  <2>1. CASE UNCHANGED <<tickVars, dispatched>>
    BY <2>1 DEF tickVars, FreshInv
  <2>2. CASE Tick \/ Crash \/ UNCHANGED vars
    <3>1. CASE Select
      <4>1. PICK i \in DOMAIN intents :
              /\ intents[i] \in loaded /\ current' = intents[i]
              /\ loaded' = loaded \ {intents[j] : j \in 1..i}
        BY <3>1 DEF Select
      <4>2. i \in 1..i
        BY <4>1 DEF TypeInv, RowsInv
      <4>3. dispatched' = dispatched
        BY <3>1 DEF Select, stepVars
      <4>4. current' \in loaded /\ current' \notin loaded' /\ loaded' \subseteq loaded
        BY <4>1, <4>2
      <4> QED BY <4>3, <4>4 DEF FreshInv
    <3>2. CASE TickBegin
      BY <3>2 DEF TickBegin
    <3>3. CASE Record
      BY <3>3 DEF Record, FreshInv
    <3>4. CASE Resolve \/ Launch
      BY <3>4 DEF Resolve, Launch, FreshInv, stepVars
    <3>5. CASE ResolveStale \/ LaunchRefused \/ LoadCancellations \/ MarkRequested \/ TickEnd
      BY <3>5 DEF ResolveStale, LaunchRefused, LoadCancellations, MarkRequested, TickEnd, FreshInv, stepVars
    <3>6. CASE Crash \/ UNCHANGED vars
      BY <3>6 DEF Crash, FreshInv, vars, stepVars, tickVars
    <3>7. ASSUME NEW o \in Steps, CancelRun(o) \/ CancelRefused(o) PROVE Fresh'
      BY <3>7 DEF CancelRun, CancelRefused, FreshInv, stepVars
    <3> QED BY <2>2, <3>1, <3>2, <3>3, <3>4, <3>5, <3>6, <3>7 DEF Tick
  <2>3. ASSUME NEW x \in Executions, NEW d \in Definitions, Start(x, d)
        PROVE  UNCHANGED <<tickVars, dispatched>>
    BY <2>3 DEF Start, StoreExecution
  <2>4. ASSUME NEW x \in Executions,
               Pause(x) \/ Resume(x) \/ Cancel(x) \/ Revoke(x) \/ RecordMoves(x) \/ DeadlinePasses(x)
        PROVE  UNCHANGED <<tickVars, dispatched>>
    BY <2>4 DEF Pause, Resume, Cancel, Revoke, RecordMoves, DeadlinePasses, stepVars
  <2>5. ASSUME NEW x \in Executions, NEW k, Decide(x, k) PROVE UNCHANGED <<tickVars, dispatched>>
    BY <2>5 DEF Decide
  <2>6. ASSUME NEW o \in Steps, NEW k, Accept(o, k) PROVE UNCHANGED <<tickVars, dispatched>>
    BY <2>6 DEF Accept
  <2>7. ASSUME NEW o \in Steps, RunEnds(o) PROVE UNCHANGED <<tickVars, dispatched>>
    BY <2>7 DEF RunEnds, stepVars
  <2> HIDE DEF Fresh
  <2> QED BY <2>1, <2>2, <2>3, <2>4, <2>5, <2>6, <2>7 DEF Next
<1>2. RowMoves /\ dispatched \subseteq dispatched'
  BY RowsMove, RowsStay
<1>3. ASSUME NEW s \in Steps, owner'[s] # None, s \notin dispatched'
      PROVE  \/ step'[s] = "LAUNCH_INTENT"
             \/ step'[s] = "CANCELLED" /\ s \in invalidated'
  BY <1>2, <1>3 DEF RowMoves, FreshInv
<1> QED BY <1>1, <1>3 DEF FreshInv



\* A step that leaves the execution's own row and its step's rows alone, but for
\* launches that are recorded or cancelled, keeps its turn.
LEMMA KeepsByRows ==
    ASSUME TypeInv, NEW x, state[x] = "NEW" => state'[x] = "NEW",
           def'[x] = def[x], joined'[x] = joined[x], pending'[x] = pending[x],
           node'[x] = node[x], decided'[x] = decided[x],
           \A s \in Steps : owner'[s] = x <=> owner[s] = x,
           \A s \in StepsOf(x) :
               \/ step'[s] = step[s]
               \/ /\ step[s] \in {"LAUNCH_INTENT", "CANCELLED"}
                  /\ \/ step'[s] = "CANCELLED"
                     \/ /\ step[s] = "LAUNCH_INTENT" /\ step'[s] = "RUNNING"
                        /\ s \notin dispatched \cup invalidated
    PROVE  Keeps(x)
<1>1. StepsOf(x)' = StepsOf(x)
  BY DEF StepsOf
<1>2. Deciding(x)' => Deciding(x)
  BY DEF Deciding
<1> QED BY <1>1, <1>2 DEF Keeps, Alive

\* Entering a node for one execution keeps the turns of the others.
LEMMA EnterKeepsOthers ==
    ASSUME TypeInv, NEW x \in Executions, NEW d \in Definitions, NEW t \in NodesOf(d),
           NEW steps \in [Steps -> StepStates], Enter(x, d, t, steps),
           NEW y \in Executions \ {x}, \A s \in StepsOf(y) : steps[s] = step[s],
           def'[y] = def[y], joined'[y] = joined[y], pending'[y] = pending[y], decided'[y] = decided[y]
    PROVE  Keeps(y)
<1>1. PICK N \in SUBSET UnownedOf(d) : Entered(x, steps, N)
  BY EnterRows
<1>2. y # None
  BY ExecutionsAssumption
<1>3. /\ \A s \in Steps : owner'[s] = y <=> owner[s] = y
      /\ \A s \in StepsOf(y) : step'[s] = step[s]
  BY <1>1, <1>2 DEF Entered, UnownedOf, StepsOf
<1>4. node'[y] = node[y] /\ state'[y] = state[y]
  BY EnterState DEF Enter, Becomes, TypeInv, TypeOK
<1> QED BY <1>3, <1>4, KeepsByRows

\* An execution that enters the target that was pending, or that was decided on.
Enters(x) ==
    /\ state[x] # "NEW"
    /\ def' = def /\ joined' = joined /\ pending'[x] = None
    /\ \E t \in NodesOf(def[x]) :
          /\ Enter(x, def[x], t, step)
          /\ \/ pending[x] = t
             \/ Deciding(x) /\ Edge(def[x], node[x], t)
Starts(x) == \E d \in Definitions : Start(x, d)
Accepts(x) == \E o \in Steps, k \in ResultKeys : owner[o] = x /\ Accept(o, k)
TurnMoves(x) == Keeps(x) \/ Starts(x) \/ Enters(x) \/ Accepts(x)

LEMMA TickKeeps ==
    ASSUME TurnInv, Tick \/ Crash \/ UNCHANGED vars, NEW x \in Executions
    PROVE  Keeps(x)
<1>1. TypeInv /\ FreshInv
  BY DEF TurnInv
<1>2. UNCHANGED <<def, node, pending, joined, decided, owner>>
  BY DEF Tick, Crash, TickBegin, Select, ResolveStale, Resolve, LaunchRefused, Launch, Record,
         LoadCancellations, CancelRun, CancelRefused, MarkRequested, TickEnd, vars,
         executionVars, stepVars
<1>3. state[x] = "NEW" => state'[x] = "NEW"
  <2>1. CASE Record
    <3>1. \/ state' = state
          \/ state[owner[current]] \in Open /\ state' = [state EXCEPT ![owner[current]] = "FAILED"]
      BY <2>1 DEF Record, Becomes
    <3> QED BY <1>1, <3>1, StateSets DEF TypeInv, TypeOK
  <2>2. CASE TickBegin
    BY <2>2, StateSets DEF TickBegin, Overdue
  <2>3. CASE ResolveStale
    BY <1>1, <2>3 DEF ResolveStale, Becomes, TypeInv, TypeOK
  <2>4. CASE ~ (Record \/ TickBegin \/ ResolveStale)
    BY <2>4 DEF Tick, Crash, Select, Resolve, LaunchRefused, Launch, LoadCancellations, CancelRun,
                CancelRefused, MarkRequested, TickEnd, vars, executionVars
  <2> QED BY <2>1, <2>2, <2>3, <2>4
<1>4. CASE Record
  <2>1. /\ current \in Steps /\ owner[current] # None
        /\ current \notin dispatched
    BY <1>1, <1>4 DEF Record, TypeInv, TypeOK, TickInv, FreshInv
  <2>2. \/ step[current] = "LAUNCH_INTENT"
        \/ step[current] = "CANCELLED" /\ current \in invalidated
    BY <1>1, <2>1 DEF FreshInv
  <2>3. /\ \A s \in Steps \ {current} : step'[s] = step[s]
        /\ \/ step'[current] = "CANCELLED"
           \/ step'[current] = "RUNNING" /\ current \notin invalidated
    BY <1>1, <1>4, <2>1 DEF Record, StillValid, TypeInv, TypeOK
  <2>4. \A s \in StepsOf(x) :
               \/ step'[s] = step[s]
               \/ /\ step[s] \in {"LAUNCH_INTENT", "CANCELLED"}
                  /\ \/ step'[s] = "CANCELLED"
                     \/ /\ step[s] = "LAUNCH_INTENT" /\ step'[s] = "RUNNING"
                        /\ s \notin dispatched \cup invalidated
    BY <2>1, <2>2, <2>3 DEF StepsOf
  <2> QED BY <1>1, <1>2, <1>3, <2>4, KeepsByRows
<1>5. CASE ~ Record
  <2>1. step' = step
    BY <1>5 DEF Tick, Crash, TickBegin, Select, ResolveStale, Resolve, LaunchRefused, Launch,
         LoadCancellations, CancelRun, CancelRefused, MarkRequested, TickEnd, vars, stepVars
  <2> QED BY <1>1, <1>2, <1>3, <2>1, KeepsByRows
<1> QED BY <1>4, <1>5

\* Every step keeps the turn of an execution, or gives it one.
LEMMA EveryTurnMoves ==
    ASSUME TurnInv, [Next]_vars, NEW x \in Executions
    PROVE  TurnMoves(x)
<1>0. TypeInv /\ \A y \in Executions : state[y] # "NEW" => OneTurn(y)
  BY DEF TurnInv
<1> DEFINE Rows == /\ UNCHANGED <<def, joined, pending, decided, owner, step>>
                   /\ node'[x] = node[x] /\ (state[x] = "NEW" => state'[x] = "NEW")
<1>1. ASSUME Rows PROVE Keeps(x)
  BY <1>0, <1>1, KeepsByRows
<1>2. CASE Tick \/ Crash \/ UNCHANGED vars
  BY <1>2, TickKeeps DEF TurnMoves
<1>3. ASSUME NEW y \in Executions, NEW d \in Definitions, Start(y, d) PROVE TurnMoves(x)
  <2>1. CASE x = y
    BY <1>3, <2>1 DEF TurnMoves, Starts
  <2>2. CASE x # y
    <3>1. /\ Enter(y, d, TargetOf(d, StartOf(d), "STARTED"), step)
          /\ TargetOf(d, StartOf(d), "STARTED") \in NodesOf(d)
      BY <1>3, FirstIsNode DEF Start
    <3>2. def'[x] = def[x] /\ joined'[x] = joined[x] /\ pending' = pending /\ decided' = decided
      BY <1>0, <1>3, <2>2 DEF Start, StoreExecution, TurnInv, TypeInv, TypeOK
    <3>3. Keeps(x)
      BY <1>0, <2>2, <3>1, <3>2, StepFacts, EnterKeepsOthers
    <3> QED BY <3>3 DEF TurnMoves
  <2> QED BY <2>1, <2>2
<1>4. ASSUME NEW y \in Executions,
             Pause(y) \/ Cancel(y) \/ Revoke(y) \/ RecordMoves(y) \/ DeadlinePasses(y)
      PROVE  TurnMoves(x)
  <2>1. UNCHANGED <<def, joined, pending, decided, owner, step, node>>
    BY <1>4 DEF Pause, Cancel, Revoke, RecordMoves, DeadlinePasses, executionVars, stepVars
  <2>2. state[x] = "NEW" => state'[x] = "NEW"
    BY <1>0, <1>4, StateSets DEF Pause, Cancel, Revoke, RecordMoves, DeadlinePasses, executionVars,
                                 Becomes, TypeInv, TypeOK
  <2> QED BY <1>1, <2>1, <2>2 DEF TurnMoves
<1>5. ASSUME NEW y \in Executions, Resume(y) PROVE TurnMoves(x)
  <2>1. state[y] # "NEW" /\ def' = def /\ joined' = joined /\ decided' = decided
    BY <1>5, StateSets DEF Resume
  <2>2. CASE EnterPending(y) /\ pending[y] # None
    <3>1. /\ def[y] \in Definitions /\ pending[y] \in NodesOf(def[y])
          /\ Enter(y, def[y], pending[y], step)
          /\ pending' = [pending EXCEPT ![y] = None]
      BY <1>0, <2>1, <2>2, StartedFacts DEF EnterPending
    <3>2. CASE x = y
      <4>1. pending'[x] = None
        BY <1>0, <3>1, <3>2 DEF TypeInv, TypeOK
      <4>2. Enters(x)
        BY <2>1, <3>1, <3>2, <4>1 DEF Enters
      <4> QED BY <4>2 DEF TurnMoves
    <3>3. CASE x # y
      <4>1. pending'[x] = pending[x]
        BY <1>0, <3>1, <3>3 DEF TypeInv, TypeOK
      <4>2. Keeps(x)
        BY <1>0, <2>1, <3>1, <3>3, <4>1, StepFacts, EnterKeepsOthers
      <4> QED BY <4>2 DEF TurnMoves
    <3> QED BY <3>2, <3>3
  <2>3. CASE ~ (EnterPending(y) /\ pending[y] # None)
    <3>1. /\ UNCHANGED <<pending, owner, step, node>> /\ \E st, why : Becomes(y, st, why)
      BY <1>5, <2>3 DEF Resume
    <3>2. state[x] = "NEW" => state'[x] = "NEW"
      BY <1>0, <2>1, <3>1 DEF Becomes, TypeInv, TypeOK
    <3> QED BY <1>1, <2>1, <3>1, <3>2 DEF TurnMoves
  <2> QED BY <2>2, <2>3
<1>6. ASSUME NEW y \in Executions, NEW k, Decide(y, k) PROVE TurnMoves(x)
  <2>1. /\ state[y] # "NEW" /\ def' = def /\ joined' = joined /\ pending' = pending
        /\ decided' = [decided EXCEPT ![y] = @ \cup {node[y]}]
        /\ Deciding(y)
    BY <1>6 DEF Decide, Deciding
  <2>2. def[y] \in Definitions /\ TargetOf(def[y], node[y], k) \in NodesOf(def[y])
        /\ node[y] \in NodesOf(def[y])
    BY <1>0, <1>6, <2>1, DecisionTarget, StartedFacts
  <2>3. CASE Enter(y, def[y], TargetOf(def[y], node[y], k), step)
    <3>1. CASE x = y
      <4>1. pending'[x] = None
        BY <1>0, <2>1, <3>1 DEF OneTurn
      <4>2. Edge(def[x], node[x], TargetOf(def[x], node[x], k))
        <5>1. None \notin NodesOf(def[y])
          BY <2>2, DefinitionsAssumption DEF WellFormed
        <5> QED BY <2>2, <3>1, <5>1, TargetIsNext
      <4>3. Enters(x)
        BY <2>1, <2>2, <2>3, <3>1, <4>1, <4>2 DEF Enters
      <4> QED BY <4>3 DEF TurnMoves
    <3>2. CASE x # y
      <4>1. decided'[x] = decided[x]
        BY <2>1, <3>2 DEF TurnInv
      <4>2. Keeps(x)
        BY <1>0, <2>1, <2>2, <2>3, <3>2, <4>1, StepFacts, EnterKeepsOthers
      <4> QED BY <4>2 DEF TurnMoves
    <3> QED BY <3>1, <3>2
  <2>4. CASE ~ Enter(y, def[y], TargetOf(def[y], node[y], k), step)
    <3>1. UNCHANGED <<owner, step, node>> /\ Becomes(y, "FAILED", "CYCLE_BOUND")
      BY <1>6, <2>4 DEF Decide
    <3>2. state[x] = "NEW" => state'[x] = "NEW"
      BY <1>0, <2>1, <3>1 DEF Becomes, TypeInv, TypeOK
    <3>3. Deciding(x)' => Deciding(x)
      BY <2>1, <3>1 DEF Deciding, TurnInv
    <3>4. StepsOf(x)' = StepsOf(x)
      BY <3>1 DEF StepsOf
    <3>5. Keeps(x)
      BY <2>1, <3>1, <3>2, <3>3, <3>4 DEF Keeps
    <3> QED BY <3>5 DEF TurnMoves
  <2> QED BY <2>3, <2>4
<1>7. ASSUME NEW o \in Steps, NEW k \in ResultKeys, Accept(o, k) PROVE TurnMoves(x)
  <2> DEFINE y == owner[o]
  <2>1. CASE x = y
    BY <1>7, <2>1 DEF TurnMoves, Accepts
  <2>2. CASE x # y
    <3>1. /\ joined' = [joined EXCEPT ![y] = Outcome(y, o[1], k).joins]
          /\ UNCHANGED <<def, decided>>
          /\ AcceptRests(o, k) \/ AcceptSelects(o, k) \/ AcceptGoesOn(o, k)
      BY <1>0, <1>7, AcceptMoves
    <3>2. /\ y \in Executions /\ def[y] \in Definitions /\ After(o, k) \in [Steps -> StepStates]
      BY <1>0, <1>7, AcceptFacts
    <3>3. joined'[x] = joined[x] /\ def'[x] = def[x] /\ decided'[x] = decided[x]
      BY <2>2, <3>1 DEF TurnInv
    <3>4. \A s \in StepsOf(x) : After(o, k)[s] = step[s]
      BY <2>2 DEF After, AfterResult, Losers, StepsOf
    <3>5. state'[x] = state[x]
      <4>1. AcceptEnters(o, k) => \E st, why : Becomes(y, st, why)
        BY <3>2, EnterState DEF AcceptEnters
      <4>2. AcceptEnds(o, k) => \E st, why : Becomes(y, st, why)
        BY DEF AcceptEnds
      <4>3. \E st, why : Becomes(y, st, why)
        BY <1>0, <1>7, <4>1, <4>2, AcceptFacts
      <4> QED BY <1>0, <2>2, <4>3 DEF Becomes, TypeInv, TypeOK
    <3>6. CASE AcceptGoesOn(o, k)
      <4>1. Keeps(x)
        BY <1>0, <2>2, <3>2, <3>3, <3>4, <3>6, EnterKeepsOthers DEF AcceptGoesOn
      <4> QED BY <4>1 DEF TurnMoves
    <3>7. CASE AcceptRests(o, k) \/ AcceptSelects(o, k)
      <4>1. step' = After(o, k) /\ owner' = owner
        BY <3>7 DEF AcceptRests, AcceptSelects
      <4>2. node'[x] = node[x] /\ pending'[x] = pending[x]
        BY <1>0, <2>2, <3>7 DEF AcceptRests, AcceptSelects, TypeInv, TypeOK
      <4>3. Keeps(x)
        BY <1>0, <3>3, <3>4, <3>5, <4>1, <4>2, KeepsByRows
      <4> QED BY <4>3 DEF TurnMoves
    <3> QED BY <3>1, <3>6, <3>7
  <2> QED BY <2>1, <2>2
<1>8. ASSUME NEW o \in Steps, RunEnds(o) PROVE TurnMoves(x)
  <2>1. Rows
    BY <1>8 DEF RunEnds, executionVars, stepVars
  <2> QED BY <1>1, <2>1 DEF TurnMoves
<1> QED BY <1>2, <1>3, <1>4, <1>5, <1>6, <1>7, <1>8 DEF Next



\* Joins and decisions are kept for each execution.
LEMMA FormStays ==
    ASSUME TurnInv, [Next]_vars
    PROVE  /\ joined' = [x \in Executions |-> joined'[x]]
           /\ decided' = [x \in Executions |-> decided'[x]]
<1>0. joined = [x \in Executions |-> joined[x]] /\ decided = [x \in Executions |-> decided[x]]
  BY DEF TurnInv
<1>1. ASSUME NEW x \in Executions, NEW d \in Definitions, Start(x, d)
      PROVE  decided' = decided /\ \E v : joined' = [joined EXCEPT ![x] = v]
  BY <1>1 DEF Start, StoreExecution
<1>2. ASSUME NEW x \in Executions, NEW k, Decide(x, k)
      PROVE  joined' = joined /\ \E v : decided' = [decided EXCEPT ![x] = v]
  BY <1>2 DEF Decide
<1>3. ASSUME NEW o \in Steps, NEW k, Accept(o, k)
      PROVE  decided' = decided /\ \E x, v : joined' = [joined EXCEPT ![x] = v]
  BY <1>3 DEF Accept
<1>4. ASSUME NEW x \in Executions,
             Pause(x) \/ Resume(x) \/ Cancel(x) \/ Revoke(x) \/ RecordMoves(x) \/ DeadlinePasses(x)
      PROVE  joined' = joined /\ decided' = decided
  BY <1>4 DEF Pause, Resume, Cancel, Revoke, RecordMoves, DeadlinePasses, executionVars
<1>5. ASSUME NEW o \in Steps, RunEnds(o) PROVE joined' = joined /\ decided' = decided
  BY <1>5 DEF RunEnds, executionVars
<1>6. CASE Tick \/ Crash \/ UNCHANGED vars
  <2>1. joined' = joined /\ decided' = decided
    BY <1>6 DEF Tick, Crash, TickBegin, Select, ResolveStale, Resolve, LaunchRefused, Launch, Record,
         LoadCancellations, CancelRun, CancelRefused, MarkRequested, TickEnd, vars, executionVars
  <2> QED BY <1>0, <2>1
<1>7. \/ joined' = joined /\ decided' = decided
      \/ decided' = decided /\ \E x, v : joined' = [joined EXCEPT ![x] = v]
      \/ joined' = joined /\ \E x, v : decided' = [decided EXCEPT ![x] = v]
  <2>1. CASE Tick \/ Crash \/ UNCHANGED vars
    BY <2>1 DEF Tick, Crash, TickBegin, Select, ResolveStale, Resolve, LaunchRefused, Launch, Record,
         LoadCancellations, CancelRun, CancelRefused, MarkRequested, TickEnd, vars, executionVars
  <2> QED BY <1>1, <1>2, <1>3, <1>4, <1>5, <2>1 DEF Next
<1> QED BY <1>0, <1>7

\* A new execution has the turn of its first node.
LEMMA StartTurn ==
    ASSUME TurnInv, NEW x \in Executions, NEW d \in Definitions, JoinsApart(d), Start(x, d)
    PROVE  /\ TurnForm(x)' /\ OneTurn(x)'
           /\ StepsOf(x) = {} /\ pending[x] = None /\ def'[x] = d
           /\ joined'[x] = [j \in Joins(d) |-> JoinStart] /\ d \in Definitions
<1> DEFINE t == TargetOf(d, StartOf(d), "STARTED")
<1>1. /\ Enter(x, d, t, step) /\ t \in NodesOf(d) /\ state[x] = "NEW"
      /\ def' = [def EXCEPT ![x] = d] /\ pending' = pending
      /\ joined' = [joined EXCEPT ![x] = [j \in OfKind(d, "JOIN") |-> JoinStart]]
  BY FirstIsNode DEF Start, StoreExecution
<1>2. TypeInv /\ joined = [y \in Executions |-> joined[y]]
  BY DEF TurnInv
<1>3. /\ def'[x] = d /\ joined'[x] = [j \in Joins(d) |-> JoinStart]
      /\ StepsOf(x) = {} /\ pending[x] = None
  BY <1>1, <1>2 DEF TypeInv, TypeOK, RowsInv, Joins
<1>4. joined'[x] \in JoinStates(d)
  <2>1. JoinStart \in [terminal : SUBSET NodesOf(d), committed : JoinKeys]
    BY DEF JoinStart, JoinKeys
  <2> QED BY <1>3, <2>1 DEF JoinStates
<1>5. Clear(x, d, step, joined'[x])
  BY <1>3 DEF Clear
<1> HIDE DEF t
<1>6. TurnForm(x)' /\ OneTurn(x)'
  BY <1>1, <1>2, <1>3, <1>4, <1>5, EnterTurn
<1> QED BY <1>3, <1>6

\* Entering the pending target, or the one decided on, takes the turn and gives a new one.
LEMMA EntersTurn ==
    ASSUME TurnInv, NEW x \in Executions, Enters(x), JoinsApart(def[x])
    PROVE  /\ TurnForm(x)' /\ OneTurn(x)'
           /\ \E t \in NodesOf(def[x]) :
                /\ pending[x] = t \/ (Deciding(x) /\ pending[x] = None /\ Edge(def[x], node[x], t))
                /\ Enter(x, def[x], t, step)
                /\ \A o \in Singles(x)' : o[1] = t
                /\ \A j \in Gathering(x)' : \E b \in Range(def[x].branches[j]) : b = t \/ Edge(def[x], t, b)
                /\ node'[x] = t
<1>1. PICK t \in NodesOf(def[x]) :
        /\ Enter(x, def[x], t, step)
        /\ \/ pending[x] = t
           \/ Deciding(x) /\ Edge(def[x], node[x], t)
  BY DEF Enters
<1>2. /\ state[x] # "NEW" /\ def'[x] = def[x] /\ joined'[x] = joined[x] /\ pending'[x] = None
  BY DEF Enters
<1>3. TypeInv /\ TurnForm(x) /\ OneTurn(x) /\ def[x] \in Definitions
  BY <1>2, StartedFacts DEF TurnInv
<1>4. None \notin NodesOf(def[x])
  BY <1>3, DefinitionsAssumption DEF WellFormed
<1>5. Clear(x, def[x], step, joined[x])
  BY <1>1, <1>3, <1>4, TurnTaken
<1>6. pending[x] = t \/ (Deciding(x) /\ pending[x] = None /\ Edge(def[x], node[x], t))
  BY <1>1, <1>3 DEF OneTurn
<1>7. joined'[x] \in JoinStates(def[x]) /\ \A o \in StepsOf(x) : o[1] \in OfKind(def[x], "AGENT_RUN")
  BY <1>2, <1>3 DEF TurnForm
<1>8. /\ TurnForm(x)' /\ OneTurn(x)'
      /\ \A o \in Singles(x)' : o[1] = t
      /\ \A j \in Gathering(x)' : \E b \in Range(def[x].branches[j]) : b = t \/ Edge(def[x], t, b)
      /\ node'[x] = t
  BY <1>1, <1>2, <1>3, <1>5, <1>7, EnterTurn
<1> QED BY <1>1, <1>6, <1>8

\* Every step preserves that an execution has one turn.
LEMMA TurnStep ==
    ASSUME \A d \in Definitions : JoinsApart(d), TurnInv, [Next]_vars
    PROVE  TurnInv'
<1>1. TypeInv /\ FreshInv
  BY DEF TurnInv
<1>2. TypeInv' /\ FreshInv'
  BY <1>1, TypeStep, FreshStep
<1>3. ASSUME NEW x \in Executions, state'[x] # "NEW" PROVE TurnForm(x)' /\ OneTurn(x)'
  <2>1. CASE Keeps(x)
    <3>1. state[x] # "NEW"
      BY <1>3, <2>1 DEF Keeps
    <3>2. TurnForm(x) /\ OneTurn(x)
      BY <3>1 DEF TurnInv
    <3> QED BY <2>1, <3>1, <3>2, TurnKept
  <2>2. CASE Starts(x)
    BY <2>2, StartTurn DEF Starts
  <2>3. CASE Enters(x)
    <3>1. def[x] \in Definitions
      BY <1>1, <2>3, StartedFacts DEF Enters
    <3> QED BY <2>3, <3>1, EntersTurn
  <2>4. CASE Accepts(x)
    BY <2>4, AcceptTurn DEF Accepts
  <2> QED BY <2>1, <2>2, <2>3, <2>4, EveryTurnMoves DEF TurnMoves
<1>4. /\ joined' = [x \in Executions |-> joined'[x]]
      /\ decided' = [x \in Executions |-> decided'[x]]
  BY FormStays
<1> QED BY <1>2, <1>3, <1>4 DEF TurnInv

LEMMA TurnInit == Init => TurnInv
<1> SUFFICES ASSUME Init PROVE TurnInv
  OBVIOUS
<1>1. TypeInv
  BY TypeInit
<1>2. FreshInv
  BY DEF Init, FreshInv
<1>3. \A x \in Executions : state[x] = "NEW"
  BY DEF Init
<1>4. joined = [x \in Executions |-> joined[x]] /\ decided = [x \in Executions |-> decided[x]]
  BY DEF Init
<1> QED BY <1>1, <1>2, <1>3, <1>4 DEF TurnInv

\* No step of an execution is taken back, where no run is a branch of two joins: a
\* terminal execution is final, and no result arrives while a target is pending that
\* could select another.
THEOREM MovesOfExecutionsStand ==
    (\A d \in Definitions : JoinsApart(d)) => (Spec => MovesStand)
<1> SUFFICES ASSUME \A d \in Definitions : JoinsApart(d)
             PROVE  Spec => MovesStand
  OBVIOUS
<1> DEFINE Stand ==
        \A x \in Executions : pending[x] # None =>
            \/ pending'[x] = pending[x]
            \/ pending'[x] = None /\ node'[x] = pending[x]
<1>1. ASSUME TurnInv, [Next]_vars PROVE Stand
  <2> SUFFICES ASSUME NEW x \in Executions, pending[x] # None
               PROVE  \/ pending'[x] = pending[x]
                      \/ pending'[x] = None /\ node'[x] = pending[x]
    OBVIOUS
  <2>0. TypeInv
    BY <1>1 DEF TurnInv
  <2>1. state[x] # "NEW"
    BY <2>0 DEF TypeInv, RowsInv
  <2>2. CASE Keeps(x)
    BY <2>1, <2>2 DEF Keeps
  <2>3. CASE Starts(x)
    BY <2>1, <2>3 DEF Starts, Start
  <2>4. CASE Enters(x)
    <3>1. def[x] \in Definitions
      BY <2>0, <2>1, StartedFacts
    <3> QED BY <1>1, <2>4, <3>1, EntersTurn DEF Enters
  <2>5. CASE Accepts(x)
    <3>1. PICK o \in Steps, k \in ResultKeys : owner[o] = x /\ Accept(o, k)
      BY <2>5 DEF Accepts
    <3>2. AcceptRests(o, k) \/ AcceptSelects(o, k) \/ AcceptGoesOn(o, k)
      BY <2>0, <3>1, AcceptMoves
    <3>3. ~ AcceptSelects(o, k)
      BY <1>1, <3>1, AcceptTakes DEF AcceptSelects
    <3> QED BY <3>2, <3>3 DEF AcceptRests, AcceptGoesOn
  <2> QED BY <1>1, <2>2, <2>3, <2>4, <2>5, EveryTurnMoves DEF TurnMoves
<1>2. TurnInv /\ [Next]_vars => [Stand]_vars
  BY <1>1
<1>3. TurnInv /\ [Next]_vars => TurnInv'
  BY TurnStep
<1>4. Spec => [][Stand]_vars
  BY <1>2, <1>3, TurnInit, PTL DEF Spec
<1> QED BY <1>4, TerminalExecutionsAreFinal DEF MovesStand, PendingIsEntered



--------------------------------------------------------------------------------
(* Losing branches.  Where nothing behind a join leads back to its branches,    *)
(* what is alive once it has committed lies behind it, and so what lost stays   *)
(* lost: no run of a branch is scheduled again.                                 *)

\* A join that has not committed has one run of each of its branches, and one
\* that is terminal of each it counts.
Gathers(x, j) ==
    joined[x][j].committed = None =>
        /\ \A o, p \in StepsIn(x, j) : o[1] = p[1] => o = p
        /\ \A b \in joined[x][j].terminal :
              \E o \in StepsIn(x, j) : o[1] = b /\ step[o] = "TERMINAL"

\* Once it has, the execution goes on behind it.
Behind(x, j) ==
    joined[x][j].committed # None =>
        /\ \A o \in Singles(x) : o[1] \in Reachable(def[x], j)
        /\ Gathering(x) \subseteq Reachable(def[x], j)
        /\ Deciding(x) => node[x] \in Reachable(def[x], j)
        /\ pending[x] # None => pending[x] \in Reachable(def[x], j)

\* Of these rows none is to be launched, and what runs is queued for cancellation.
Withdrawn(rows, steps, launched, inv, out) ==
    \A s \in rows : /\ s \notin launched => s \in inv
                    /\ steps[s] = "RUNNING" => s \in out
Lose(d, j, key) ==
    key # None /\ d.join[j].remainder = "CANCEL_REMAINDER" /\ key \in d.join[j].accepted
Lost(x, j) ==
    Lose(def[x], j, joined[x][j].committed) =>
        Withdrawn(StepsIn(x, j), step, dispatched, invalidated, outbox)

LosersInv ==
    /\ TurnInv /\ StoppedInv
    /\ \A x \in Executions : state[x] # "NEW" =>
          \A j \in Joins(def[x]) : Gathers(x, j) /\ Behind(x, j) /\ Lost(x, j)

\* What is entered behind a node schedules what is behind it.
LEMMA ScheduledIsReached ==
    ASSUME NEW d \in Definitions, NEW m \in NodesOf(d), NEW t \in Reachable(d, m)
    PROVE  Range(Scheduled(d, t)) \subseteq Reachable(d, m)
<1>1. t \in NodesOf(d) /\ Range(Scheduled(d, t)) \subseteq NodesOf(d)
  <2>1. t \in NodesOf(d)
    BY DEF Reachable
  <2>2. Scheduled(d, t) \in Seq(OfKind(d, "AGENT_RUN"))
    BY <2>1, ScheduledType
  <2> QED BY <2>1, <2>2 DEF Range, OfKind
<1>2. CASE d.kind[t] = "AGENT_RUN"
  BY <1>2 DEF Scheduled, Range
<1>3. CASE d.kind[t] = "PARALLEL_SPLIT"
  <2>1. \A b \in Range(Scheduled(d, t)) : Edge(d, t, b)
    BY <1>3 DEF Scheduled, Edge
  <2> QED BY <1>1, <2>1, ReachableIsUnleft
<1>4. CASE d.kind[t] \notin {"AGENT_RUN", "PARALLEL_SPLIT"}
  BY <1>4 DEF Scheduled, Range
<1> QED BY <1>2, <1>3, <1>4

\* So is the join of a branch that is behind it, or that an edge leads to.
LEMMA GatheredIsReached ==
    ASSUME NEW d \in Definitions, NEW m \in NodesOf(d), NEW t \in Reachable(d, m),
           NEW j \in Joins(d), NEW b \in Range(d.branches[j]), b = t \/ Edge(d, t, b)
    PROVE  j \in Reachable(d, m)
<1>1. j \in NodesOf(d) /\ d.kind[j] = "JOIN" /\ Range(d.branches[j]) \subseteq NodesOf(d)
  BY DefinitionsAssumption DEF Joins, OfKind, WellFormed, Range
<1>2. Edge(d, b, j)
  BY <1>1 DEF Edge
<1>3. b \in Reachable(d, m)
  BY <1>1, ReachableIsUnleft
<1> QED BY <1>1, <1>2, <1>3, ReachableIsUnleft

\* A step that keeps the turn of an execution keeps what its joins have made.
LEMMA KeepsLosers ==
    ASSUME TypeInv, [Next]_vars, NEW x \in Executions, state[x] # "NEW", Keeps(x),
           NEW j \in Joins(def[x]), Gathers(x, j), Behind(x, j), Lost(x, j)
    PROVE  Gathers(x, j)' /\ Behind(x, j)' /\ Lost(x, j)'
<1>1. /\ def'[x] = def[x] /\ joined'[x] = joined[x] /\ pending'[x] = pending[x]
      /\ StepsOf(x)' = StepsOf(x) /\ (Deciding(x)' => Deciding(x) /\ node'[x] = node[x])
      /\ \A o \in StepsOf(x) :
            /\ step'[o] \in Alive => step[o] \in Alive
            /\ step[o] = "TERMINAL" => step'[o] = "TERMINAL"
            /\ step'[o] = "RUNNING" => step[o] = "RUNNING" \/ o \notin dispatched \cup invalidated
  BY DEF Keeps
<1>2. StepsIn(x, j)' = StepsIn(x, j) /\ StepsIn(x, j) \subseteq StepsOf(x)
  BY <1>1 DEF StepsIn
<1>3. Singles(x)' \subseteq Singles(x) /\ Gathering(x)' = Gathering(x)
  BY <1>1 DEF Singles, Gathering, StepsIn
<1>4. invalidated \subseteq invalidated' /\ outbox \subseteq outbox' /\ dispatched \subseteq dispatched'
  BY RowsMove, RowsStay DEF RowMoves
<1>5. Gathers(x, j)'
  BY <1>1, <1>2 DEF Gathers
<1>6. Behind(x, j)'
  BY <1>1, <1>3 DEF Behind
<1>7. Lost(x, j)'
  BY <1>1, <1>2, <1>4 DEF Lost, Withdrawn
<1> QED BY <1>5, <1>6, <1>7

\* Entering a node behind every join that has committed, while no other has gathered
\* anything.
LEMMA EnterLosers ==
    ASSUME TypeInv, NEW x \in Executions, NEW d \in Definitions, NEW t \in NodesOf(d),
           NEW steps, Enter(x, d, t, steps), def'[x] = d, pending'[x] = None,
           JoinsApart(d), NoWayBack(d),
           joined'[x] \in JoinStates(d), Clear(x, d, steps, joined'[x]),
           \A o \in StepsOf(x) : o[1] \in OfKind(d, "AGENT_RUN"),
           NEW j \in Joins(d),
           joined'[x][j].committed = None => joined'[x][j].terminal = {},
           joined'[x][j].committed # None => t \in Reachable(d, j),
           Lose(d, j, joined'[x][j].committed) =>
               Withdrawn({o \in StepsOf(x) : o[1] \in Range(d.branches[j])},
                         steps, dispatched', invalidated', outbox')
    PROVE  Gathers(x, j)' /\ Behind(x, j)' /\ Lost(x, j)'
<1> DEFINE new == StepsOf(x)' \ StepsOf(x)
<1>1. /\ \A o \in StepsOf(x) : o \in StepsOf(x)' /\ step'[o] = steps[o]
      /\ \A o \in new : o[1] \in Range(Scheduled(d, t)) /\ o = NextStep(x, o[1])
  BY EnterNodes
<1>2. /\ \A o \in Singles(x)' : o[1] = t
      /\ \A i \in Gathering(x)' : \E b \in Range(d.branches[i]) : b = t \/ Edge(d, t, b)
      /\ node'[x] = t
  BY EnterTurn
<1>3. StepsIn(x, j)' = {o \in StepsOf(x)' : o[1] \in Range(d.branches[j])}
  BY DEF StepsIn
<1>4. j \in NodesOf(d) /\ Gathering(x)' \subseteq Joins(d)
  BY DEF Joins, OfKind, Gathering
<1>5. Gathers(x, j)'
  <2> SUFFICES ASSUME joined'[x][j].committed = None
               PROVE  \A o, p \in StepsIn(x, j)' : o[1] = p[1] => o = p
    BY DEF Gathers
  <2>1. \A o \in StepsIn(x, j)' : o = NextStep(x, o[1])
    BY <1>1, <1>3 DEF Clear
  <2> QED BY <2>1
<1>6. Behind(x, j)'
  <2> SUFFICES ASSUME joined'[x][j].committed # None PROVE Behind(x, j)'
    BY DEF Behind
  <2>1. t \in Reachable(d, j)
    OBVIOUS
  <2>2. Gathering(x)' \subseteq Reachable(d, j)
    BY <1>2, <1>4, <2>1, GatheredIsReached
  <2> QED BY <1>2, <2>1, <2>2 DEF Behind
<1>7. Lost(x, j)'
  <2> SUFFICES ASSUME Lose(d, j, joined'[x][j].committed)
               PROVE  Withdrawn(StepsIn(x, j)', step', dispatched', invalidated', outbox')
    BY DEF Lost
  <2>1. Range(Scheduled(d, t)) \cap Range(d.branches[j]) = {}
    BY <1>4, ScheduledIsReached DEF Lose, NoWayBack, Joins
  <2>2. \A o \in StepsIn(x, j)' : o \in StepsOf(x) /\ o[1] \in Range(d.branches[j])
    BY <1>1, <1>3, <2>1
  <2> QED BY <1>1, <2>2 DEF Withdrawn
<1> QED BY <1>5, <1>6, <1>7



\* A step that is terminal was dispatched.
LEMMA TerminalWasDispatched ==
    ASSUME TypeInv, FreshInv, NEW o \in Steps, step[o] = "TERMINAL"
    PROVE  o \in dispatched
<1>1. owner[o] # None
  BY DEF TypeInv, TypeOK
<1> QED BY <1>1 DEF FreshInv

\* Where a result leads is behind every join that has committed with it.
LEMMA AcceptLeadsOn ==
    ASSUME TurnInv, NEW o \in Steps, NEW k \in ResultKeys, Accept(o, k), NEW x, x = owner[o],
           Outcome(x, o[1], k).target # None, NEW j \in Joins(def[x]), Behind(x, j),
           Outcome(x, o[1], k).joins[j].committed # None
    PROVE  Outcome(x, o[1], k).target \in Reachable(def[x], j)
<1> DEFINE d == def[x]
           e == Outcome(x, o[1], k)
           i == BranchOf(o)
<1>1. d \in Definitions /\ j \in NodesOf(d) /\ e.target \in NodesOf(d)
  BY ResultIsKey, OutcomeIsNode DEF Joins, OfKind
<1>2. CASE RunRoutes(o, k)
  <2>1. /\ e.joins = joined[x] /\ e.target = RouteStep(d, o[1], k).target
    BY <1>2 DEF RunRoutes
  <2>2. o \in Singles(x)
    BY <1>2, AcceptTakes
  <2>3. o[1] \in Reachable(d, j)
    BY <2>1, <2>2 DEF Behind
  <2> QED BY <1>1, <2>1, <2>3, RouteIsReached
<1>3. CASE ~ RunRoutes(o, k)
  <2>1. BranchEnds(o, k) /\ BranchCommits(o, k) /\ i \in Gathering(x)
    BY <1>3, AcceptTakes
  <2>2. i \in Joins(d) /\ \A h \in Joins(d) \ {i} : e.joins[h] = joined[x][h]
    BY <2>1 DEF BranchEnds
  <2>3. Edge(d, i, e.target)
    BY <2>1 DEF BranchCommits, JoinCommits, Evaluated
  <2> HIDE DEF e, i
  <2>4. i \in Reachable(d, j)
    <3>1. CASE i = j
      BY <1>1, <3>1, ReachableIsUnleft
    <3>2. CASE i # j
      BY <2>1, <2>2, <3>2 DEF Behind, e
    <3> QED BY <3>1, <3>2
  <2>5. e.target \in Reachable(d, j)
    BY <1>1, <2>3, <2>4, ReachableIsUnleft DEF e
  <2> QED BY <2>5 DEF e
<1> QED BY <1>2, <1>3

\* What the execution goes on with after a result is behind every join that has committed.
LEMMA AcceptBehind ==
    ASSUME TurnInv, \A d \in Definitions : JoinsApart(d),
           NEW o \in Steps, NEW k \in ResultKeys, Accept(o, k), NEW x, x = owner[o],
           NEW j \in Joins(def[x]), Behind(x, j)
    PROVE  Behind(x, j)'
<1> DEFINE d == def[x]
           e == Outcome(x, o[1], k)
           t == e.target
<1>1. x \in Executions /\ d \in Definitions /\ j \in NodesOf(d) /\ OneTurn(x)
  BY ResultIsKey DEF Joins, OfKind
<1>2. joined'[x] = e.joins /\ def'[x] = d
  BY <1>1, AcceptMoves DEF TurnInv
<1> SUFFICES ASSUME e.joins[j].committed # None PROVE Behind(x, j)'
  BY <1>2 DEF Behind
<1>3. AcceptPasses(x, o, k)
  BY AcceptTurn
<1>4. CASE t # None
  <2>1. t \in Reachable(d, j)
    BY <1>4, AcceptLeadsOn
  <2>2. CASE /\ Singles(x)' \subseteq Singles(x) /\ Gathering(x)' \subseteq Gathering(x)
             /\ Deciding(x)' => Deciding(x) /\ node'[x] = node[x]
             /\ pending'[x] = pending[x]
    <3> HIDE DEF e
    <3>1. CASE joined[x][j].committed # None
      BY <1>2, <2>2, <3>1 DEF Behind
    <3>2. CASE joined[x][j].committed = None
      <4>1. j \in Gathering(x) /\ ~ RunRoutes(o, k)
        <5>1. ~ RunRoutes(o, k)
          BY <3>2 DEF RunRoutes, e
        <5>2. BranchEnds(o, k) /\ BranchOf(o) \in Gathering(x)
          BY <1>4, <5>1, AcceptTakes DEF e
        <5>3. BranchOf(o) = j
          BY <3>2, <5>2 DEF BranchEnds, e
        <5> QED BY <5>1, <5>2, <5>3
      <4>2. Singles(x) = {} /\ ~ Deciding(x) /\ pending[x] = None /\ \A i \in Gathering(x) : i = j
        BY <1>1, <4>1 DEF OneTurn
      <4>3. Gathering(x)' = {}
        BY <1>2, <2>2, <4>2 DEF Gathering
      <4> QED BY <1>2, <2>2, <4>2, <4>3 DEF Behind
    <3> QED BY <3>1, <3>2
  <2>3. CASE /\ t \in NodesOf(d)
             /\ \A p \in Singles(x)' : p[1] = t
             /\ \A i \in Gathering(x)' : \E b \in Range(d.branches[i]) : b = t \/ Edge(d, t, b)
             /\ Deciding(x)' => node'[x] = t
             /\ pending'[x] # None => pending'[x] = t
    <3> HIDE DEF t
    <3>1. Gathering(x)' \subseteq Joins(d)
      BY <1>2 DEF Gathering
    <3>2. Gathering(x)' \subseteq Reachable(d, j)
      BY <1>1, <2>1, <2>3, <3>1, GatheredIsReached
    <3> QED BY <1>2, <2>1, <2>3, <3>2 DEF Behind
  <2> QED BY <1>3, <2>2, <2>3 DEF AcceptPasses
<1>5. CASE t = None
  <2>1. /\ Singles(x)' \subseteq Singles(x) /\ Gathering(x)' \subseteq Gathering(x)
        /\ Deciding(x)' => Deciding(x) /\ node'[x] = node[x]
        /\ pending'[x] = pending[x]
    <3>1. None \notin NodesOf(d)
      BY <1>1, DefinitionsAssumption DEF WellFormed
    <3> QED BY <1>3, <1>5, <3>1 DEF AcceptPasses
  <2>2. CASE joined[x][j].committed # None
    BY <1>2, <2>1, <2>2 DEF Behind
  <2>3. CASE joined[x][j].committed = None
    <3>1. BranchEnds(o, k)
      BY <2>3, OutcomeDecides DEF RunRoutes
    <3>2. BranchOf(o) = j
      BY <2>3, <3>1 DEF BranchEnds
    <3>3. j \in Gathering(x)
      <4>1. o \in StepsOf(x)
        BY ResultIsKey
      <4> QED BY <2>3, <3>1, <3>2, <4>1 DEF BranchEnds, Gathering, StepsIn
    <3> HIDE DEF e
    <3>4. Singles(x) = {} /\ ~ Deciding(x) /\ pending[x] = None /\ \A i \in Gathering(x) : i = j
      BY <1>1, <3>3 DEF OneTurn
    <3>5. Gathering(x)' = {}
      BY <1>2, <2>1, <3>4 DEF Gathering
    <3> QED BY <1>2, <2>1, <3>4, <3>5 DEF Behind
  <2> QED BY <2>2, <2>3
<1> QED BY <1>4, <1>5



\* A join that has not committed with a result counts terminal branches only.
LEMMA AcceptCounts ==
    ASSUME TurnInv, NEW o \in Steps, NEW k \in ResultKeys, Accept(o, k), NEW x, x = owner[o],
           NEW j \in Joins(def[x]), Gathers(x, j), Outcome(x, o[1], k).joins[j].committed = None
    PROVE  /\ joined[x][j].committed = None
           /\ \A b \in Outcome(x, o[1], k).joins[j].terminal :
                 \E p \in StepsIn(x, j) : p[1] = b /\ After(o, k)[p] = "TERMINAL"
<1> DEFINE d == def[x]
           e == Outcome(x, o[1], k)
<1>1. \A p \in Steps : step[p] = "TERMINAL" => After(o, k)[p] = "TERMINAL"
  BY TerminalWasDispatched DEF After, AfterResult, TurnInv
<1>2. After(o, k)[o] = "TERMINAL" /\ o \in StepsOf(x)
  BY ResultIsKey DEF After, AfterResult
<1>3. \/ e.joins[j] = joined[x][j]
      \/ /\ o[1] \in Range(d.branches[j]) /\ e.joins[j].committed = joined[x][j].committed
         /\ e.joins[j].terminal \subseteq joined[x][j].terminal \cup {o[1]}
  <2>1. CASE RunRoutes(o, k)
    BY <2>1 DEF RunRoutes
  <2>2. CASE BranchEnds(o, k) /\ BranchOf(o) # j
    BY <2>2 DEF BranchEnds
  <2>3. CASE BranchEnds(o, k) /\ BranchOf(o) = j /\ BranchWaits(o, k)
    BY <2>3 DEF BranchEnds, BranchWaits, JoinWaits, Evaluated
  <2>4. CASE BranchEnds(o, k) /\ BranchOf(o) = j /\ BranchCommits(o, k)
    BY <2>4 DEF BranchCommits, JoinCommits, Evaluated
  <2> QED BY <2>1, <2>2, <2>3, <2>4, OutcomeDecides
<1> HIDE DEF e
<1>4. joined[x][j].committed = None
  BY <1>3 DEF e
<1>5. \A p \in StepsIn(x, j) : p \in Steps
  BY DEF StepsIn, StepsOf
<1>6. \A b \in joined[x][j].terminal : \E p \in StepsIn(x, j) : p[1] = b /\ After(o, k)[p] = "TERMINAL"
  BY <1>1, <1>4, <1>5 DEF Gathers
<1>7. o[1] \in Range(d.branches[j]) => o \in StepsIn(x, j)
  BY <1>2 DEF StepsIn
<1> QED BY <1>2, <1>3, <1>4, <1>6, <1>7 DEF e

\* When an ANY join has committed with a result, what lost is withdrawn by it.
LEMMA AcceptWithdraws ==
    ASSUME TurnInv, NEW o \in Steps, NEW k \in ResultKeys, Accept(o, k), NEW x, x = owner[o],
           NEW j \in Joins(def[x]), Gathers(x, j), Lost(x, j),
           Lose(def[x], j, Outcome(x, o[1], k).joins[j].committed)
    PROVE  Withdrawn(StepsIn(x, j), After(o, k), dispatched', invalidated', outbox')
<1> DEFINE d == def[x]
           e == Outcome(x, o[1], k)
           lost == Losers(x, e.cancel)
<1>0. TypeInv /\ FreshInv
  BY DEF TurnInv
<1>1. /\ dispatched' = dispatched
      /\ invalidated \cup (lost \ dispatched) \subseteq invalidated'
      /\ outbox \cup {s \in lost : step[s] = "RUNNING"} \subseteq outbox'
  BY <1>0, AcceptMoves
<1>2. /\ \A s \in Steps : After(o, k)[s] = "RUNNING" => step[s] = "RUNNING" /\ s # o
      /\ \A s \in Steps : step[s] = "TERMINAL" => s \in dispatched
      /\ o \in dispatched /\ o \in StepsOf(x)
  BY <1>0, ResultIsKey, TerminalWasDispatched DEF After, AfterResult
<1>3. \A s \in StepsIn(x, j) : s \in Steps /\ s \in StepsOf(x) /\ s[1] \in Range(d.branches[j])
  BY DEF StepsIn, StepsOf
<1>4. CASE e.joins[j].committed = joined[x][j].committed
  <2>1. Withdrawn(StepsIn(x, j), step, dispatched, invalidated, outbox)
    BY <1>4 DEF Lost
  <2> QED BY <1>1, <1>2, <1>3, <2>1 DEF Withdrawn
<1>5. CASE BranchEnds(o, k) /\ BranchOf(o) = j /\ BranchCommits(o, k)
  <2>1. /\ joined[x][j].committed = None /\ o[1] \in Range(d.branches[j])
        /\ e.joins[j].terminal = joined[x][j].terminal \cup {o[1]}
        /\ Range(d.branches[j]) \subseteq e.joins[j].terminal \cup e.cancel
    BY <1>5 DEF BranchEnds, BranchCommits, JoinCommits, Evaluated, Lose
  <2>2. /\ \A s, p \in StepsIn(x, j) : s[1] = p[1] => s = p
        /\ \A b \in joined[x][j].terminal :
              \E p \in StepsIn(x, j) : p[1] = b /\ step[p] = "TERMINAL"
    BY <2>1 DEF Gathers
  <2>3. o \in StepsIn(x, j)
    BY <1>2, <2>1 DEF StepsIn
  <2> HIDE DEF e
  <2> SUFFICES ASSUME NEW s \in StepsIn(x, j)
               PROVE  /\ s \notin dispatched => s \in invalidated'
                      /\ After(o, k)[s] = "RUNNING" => s \in outbox'
    BY <1>1 DEF Withdrawn
  <2>4. CASE s[1] \in e.cancel
    <3>1. s \in lost
      BY <1>3, <2>4 DEF Losers
    <3> QED BY <1>1, <1>2, <1>3, <3>1
  <2>5. CASE s[1] = o[1]
    <3>1. s = o
      BY <2>2, <2>3, <2>5
    <3> QED BY <1>2, <1>3, <3>1
  <2>6. CASE s[1] \in joined[x][j].terminal
    <3>1. step[s] = "TERMINAL"
      BY <2>2, <2>6
    <3> QED BY <1>2, <1>3, <3>1
  <2> QED BY <1>3, <2>1, <2>4, <2>5, <2>6
<1>6. \/ e.joins[j].committed = joined[x][j].committed
      \/ BranchEnds(o, k) /\ BranchOf(o) = j /\ BranchCommits(o, k)
  <2>1. CASE RunRoutes(o, k)
    BY <2>1 DEF RunRoutes
  <2>2. CASE BranchEnds(o, k) /\ BranchOf(o) # j
    BY <2>2 DEF BranchEnds
  <2>3. CASE BranchEnds(o, k) /\ BranchOf(o) = j /\ BranchWaits(o, k)
    BY <2>3 DEF BranchEnds, BranchWaits, JoinWaits, Evaluated
  <2> QED BY <2>1, <2>2, <2>3, OutcomeDecides
<1> QED BY <1>4, <1>5, <1>6

\* Accepting a result keeps what the joins of the execution have made.
LEMMA AcceptLosers ==
    ASSUME TurnInv, \A d \in Definitions : JoinsApart(d) /\ NoWayBack(d),
           NEW o \in Steps, NEW k \in ResultKeys, Accept(o, k), NEW x, x = owner[o],
           NEW j \in Joins(def[x]), Gathers(x, j), Behind(x, j), Lost(x, j)
    PROVE  Gathers(x, j)' /\ Behind(x, j)' /\ Lost(x, j)'
<1> DEFINE d == def[x]
           e == Outcome(x, o[1], k)
<1>1. /\ TypeInv /\ x \in Executions /\ d \in Definitions /\ TurnForm(x)
  BY ResultIsKey DEF TurnInv
<1>2. /\ joined'[x] = e.joins /\ def'[x] = d
      /\ AcceptRests(o, k) \/ AcceptSelects(o, k) \/ AcceptGoesOn(o, k)
  BY <1>1, AcceptMoves DEF TurnInv
<1>3. e.joins \in JoinStates(d)
  BY OutcomeDecides
<1>4. Behind(x, j)'
  BY AcceptBehind
<1>5. CASE AcceptGoesOn(o, k)
  <2>1. /\ e.target # None /\ e.target \in NodesOf(d) /\ pending' = pending
        /\ Enter(x, d, e.target, After(o, k))
    BY <1>5 DEF AcceptGoesOn
  <2>2. Clear(x, d, After(o, k), e.joins) /\ pending[x] = None
    BY <2>1, AcceptTakes
  <2>3. e.joins[j].committed = None => e.joins[j].terminal = {}
    <3> SUFFICES ASSUME e.joins[j].committed = None PROVE e.joins[j].terminal = {}
      OBVIOUS
    <3>1. StepsIn(x, j) = {}
      BY <2>2 DEF Clear, StepsIn
    <3> QED BY <3>1, AcceptCounts
  <2>4. e.joins[j].committed # None => e.target \in Reachable(d, j)
    BY <2>1, AcceptLeadsOn
  <2>5. Lose(d, j, e.joins[j].committed) =>
           Withdrawn({s \in StepsOf(x) : s[1] \in Range(d.branches[j])},
                     After(o, k), dispatched', invalidated', outbox')
    BY AcceptWithdraws DEF StepsIn
  <2>6. \A s \in StepsOf(x) : s[1] \in OfKind(d, "AGENT_RUN")
    BY <1>1 DEF TurnForm
  <2>7. JoinsApart(d) /\ NoWayBack(d)
    BY <1>1
  <2> HIDE DEF e, d
  <2> QED BY <1>1, <1>2, <1>3, <2>1, <2>2, <2>3, <2>4, <2>5, <2>6, <2>7, EnterLosers DEF d
<1>6. CASE AcceptRests(o, k) \/ AcceptSelects(o, k)
  <2>1. step' = After(o, k) /\ owner' = owner
    BY <1>6 DEF AcceptRests, AcceptSelects
  <2>2. StepsIn(x, j)' = StepsIn(x, j)
    BY <1>2, <2>1 DEF StepsIn, StepsOf
  <2>3. Gathers(x, j)'
    <3> SUFFICES ASSUME e.joins[j].committed = None
                 PROVE  /\ \A s, p \in StepsIn(x, j) : s[1] = p[1] => s = p
                        /\ \A b \in e.joins[j].terminal :
                              \E s \in StepsIn(x, j) : s[1] = b /\ After(o, k)[s] = "TERMINAL"
      BY <1>2, <2>1, <2>2 DEF Gathers
    <3> QED BY AcceptCounts DEF Gathers
  <2>4. Lost(x, j)'
    <3> SUFFICES ASSUME Lose(d, j, e.joins[j].committed)
                 PROVE  Withdrawn(StepsIn(x, j), After(o, k), dispatched', invalidated', outbox')
      BY <1>2, <2>1, <2>2 DEF Lost
    <3> QED BY AcceptWithdraws
  <2> QED BY <1>4, <2>3, <2>4
<1> QED BY <1>2, <1>5, <1>6

\* Every step preserves the invariant.
LEMMA LosersStep ==
    ASSUME \A d \in Definitions : JoinsApart(d) /\ NoWayBack(d), LosersInv, [Next]_vars
    PROVE  LosersInv'
<1>1. TurnInv /\ StoppedInv /\ TypeInv
  BY DEF LosersInv, TurnInv
<1>2. TurnInv' /\ StoppedInv'
  BY <1>1, TurnStep, StoppedStep
<1>3. ASSUME NEW x \in Executions, state'[x] # "NEW", NEW j, j \in Joins(def'[x])
      PROVE  Gathers(x, j)' /\ Behind(x, j)' /\ Lost(x, j)'
  <2>1. CASE Keeps(x)
    <3>1. state[x] # "NEW" /\ def'[x] = def[x]
      BY <1>3, <2>1 DEF Keeps
    <3>2. Gathers(x, j) /\ Behind(x, j) /\ Lost(x, j)
      BY <1>3, <3>1 DEF LosersInv
    <3> QED BY <1>1, <1>3, <2>1, <3>1, <3>2, KeepsLosers
  <2>2. CASE Starts(x)
    <3>1. PICK d \in Definitions : Start(x, d)
      BY <2>2 DEF Starts
    <3>2. JoinsApart(d) /\ NoWayBack(d)
      OBVIOUS
    <3>3. /\ StepsOf(x) = {} /\ pending[x] = None /\ def'[x] = d
          /\ joined'[x] = [i \in Joins(d) |-> JoinStart]
      BY <1>1, <3>1, <3>2, StartTurn
    <3>4. /\ Enter(x, d, TargetOf(d, StartOf(d), "STARTED"), step) /\ pending' = pending
          /\ TargetOf(d, StartOf(d), "STARTED") \in NodesOf(d)
      BY <3>1, FirstIsNode DEF Start
    <3>5. JoinStart \in [terminal : SUBSET NodesOf(d), committed : JoinKeys]
      BY DEF JoinStart, JoinKeys
    <3>6. joined'[x] \in JoinStates(d) /\ joined'[x][j].committed = None /\ joined'[x][j].terminal = {}
      BY <1>3, <3>3, <3>5 DEF JoinStates, JoinStart
    <3>7. Clear(x, d, step, joined'[x]) /\ \A o \in StepsOf(x) : o[1] \in OfKind(d, "AGENT_RUN")
      BY <3>3 DEF Clear
    <3>8. ~ Lose(d, j, joined'[x][j].committed)
      BY <3>6 DEF Lose
    <3> DEFINE t == TargetOf(d, StartOf(d), "STARTED")
    <3>9. t \in NodesOf(d) /\ Enter(x, d, t, step)
      BY <3>4
    <3> HIDE DEF t
    <3> QED BY <1>1, <1>3, <3>2, <3>3, <3>4, <3>6, <3>7, <3>8, <3>9, EnterLosers
  <2>3. CASE Enters(x)
    <3> DEFINE d == def[x]
    <3>1. /\ d \in Definitions /\ state[x] # "NEW" /\ OneTurn(x) /\ TurnForm(x)
          /\ def'[x] = d /\ joined'[x] = joined[x] /\ pending'[x] = None
      BY <1>1, <2>3, StartedFacts DEF Enters, TurnInv
    <3>2. JoinsApart(d) /\ NoWayBack(d) /\ None \notin NodesOf(d)
      BY <3>1, DefinitionsAssumption DEF WellFormed
    <3>3. PICK t \in NodesOf(d) :
            /\ pending[x] = t \/ (Deciding(x) /\ pending[x] = None /\ Edge(d, node[x], t))
            /\ Enter(x, d, t, step)
      BY <1>1, <2>3, <3>2, EntersTurn
    <3>4. Gathers(x, j) /\ Behind(x, j) /\ Lost(x, j) /\ j \in Joins(d)
      BY <1>3, <3>1 DEF LosersInv
    <3>5. Deciding(x) \/ pending[x] # None
      BY <3>2, <3>3
    <3>6. Clear(x, d, step, joined[x])
      BY <3>1, <3>5, TurnTaken
    <3>7. joined[x][j].committed = None => joined[x][j].terminal = {}
      <4> SUFFICES ASSUME joined[x][j].committed = None PROVE joined[x][j].terminal = {}
        OBVIOUS
      <4>1. StepsIn(x, j) = {}
        BY <3>4, <3>6 DEF Clear, StepsIn
      <4> QED BY <3>4, <4>1 DEF Gathers
    <3>8. joined[x][j].committed # None => t \in Reachable(d, j)
      <4>1. j \in NodesOf(d)
        BY <3>4 DEF Joins, OfKind
      <4> QED BY <3>2, <3>3, <3>4, <4>1, ReachableIsUnleft DEF Behind
    <3>9. Lose(d, j, joined[x][j].committed) =>
             Withdrawn({o \in StepsOf(x) : o[1] \in Range(d.branches[j])},
                       step, dispatched', invalidated', outbox')
      <4> SUFFICES ASSUME Lose(d, j, joined[x][j].committed)
                   PROVE  Withdrawn(StepsIn(x, j), step, dispatched', invalidated', outbox')
        BY DEF StepsIn
      <4>1. Withdrawn(StepsIn(x, j), step, dispatched, invalidated, outbox)
        BY <3>4 DEF Lost
      <4>2. invalidated \subseteq invalidated' /\ outbox \subseteq outbox' /\ dispatched \subseteq dispatched'
        BY <1>1, RowsMove, RowsStay DEF RowMoves
      <4> QED BY <4>1, <4>2 DEF Withdrawn
    <3>10. joined[x] \in JoinStates(d) /\ \A o \in StepsOf(x) : o[1] \in OfKind(d, "AGENT_RUN")
      BY <3>1 DEF TurnForm
    <3> HIDE DEF d
    <3> QED BY <1>1, <1>3, <3>1, <3>2, <3>3, <3>4, <3>6, <3>7, <3>8, <3>9, <3>10, EnterLosers
  <2>4. CASE Accepts(x)
    <3>1. PICK o \in Steps, k \in ResultKeys : owner[o] = x /\ Accept(o, k)
      BY <2>4 DEF Accepts
    <3>2. state[x] # "NEW" /\ def'[x] = def[x]
      BY <1>1, <3>1, ResultIsKey, AcceptMoves
    <3>3. Gathers(x, j) /\ Behind(x, j) /\ Lost(x, j) /\ j \in Joins(def[x])
      BY <1>3, <3>2 DEF LosersInv
    <3> QED BY <1>1, <3>1, <3>3, AcceptLosers
  <2> QED BY <1>1, <2>1, <2>2, <2>3, <2>4, EveryTurnMoves DEF TurnMoves
<1> QED BY <1>2, <1>3 DEF LosersInv

\* The keys a join accepts are results of its branches.
LEMMA AcceptedIsKey ==
    ASSUME NEW d \in Definitions, NEW j \in Joins(d)
    PROVE  None \notin d.join[j].accepted
<1>1. JoinValid(d, j)
  BY JoinsAreValid
<1>2. PICK s \in OfKind(d, "PARALLEL_SPLIT") : SameBranches(d, s, j)
  <2>1. {s \in OfKind(d, "PARALLEL_SPLIT") : SameBranches(d, s, j)} # {}
    <3>1. Cardinality({s \in OfKind(d, "PARALLEL_SPLIT") : SameBranches(d, s, j)}) = 1
      BY <1>1 DEF JoinValid
    <3> QED BY <3>1, FS_EmptySet
  <2> QED BY <2>1
<1>3. s \in NodesOf(d) /\ d.kind[s] = "PARALLEL_SPLIT"
  BY DEF OfKind
<1>4. NodeValid(d, s)
  BY <1>3, DefinitionsAssumption DEF ValidWorkflow
<1>5. Range(d.branches[j]) \subseteq OfKind(d, "AGENT_RUN")
  BY <1>2, <1>3, <1>4 DEF NodeValid, SplitValid, SameBranches
<1>6. \A b \in OfKind(d, "AGENT_RUN") : None \notin d.results[b]
  BY DefinitionsAssumption DEF WellFormed
<1>7. d.join[j].accepted \subseteq SystemResults \cup UNION {d.results[b] : b \in Range(d.branches[j])}
  BY <1>1 DEF JoinValid
<1>8. None \notin UNION {d.results[b] : b \in Range(d.branches[j])}
  BY <1>5, <1>6
<1>9. None \notin SystemResults
  BY DEF None, SystemResults
<1> QED BY <1>7, <1>8, <1>9

\* Once an ANY join has committed under CANCEL_REMAINDER no losing branch is left to
\* be launched, and every losing run that is live has a cancellation queued, where no
\* run is a branch of two joins and nothing behind a join leads back to its branches.
THEOREM LosersCancelled ==
    (\A d \in Definitions : JoinsApart(d) /\ NoWayBack(d)) => (Spec => []LosersAreCancelled)
<1> SUFFICES ASSUME \A d \in Definitions : JoinsApart(d) /\ NoWayBack(d)
             PROVE  Spec => []LosersAreCancelled
  OBVIOUS
<1>1. Init => LosersInv
  <2> SUFFICES ASSUME Init PROVE LosersInv
    OBVIOUS
  <2>1. \A x \in Executions : state[x] = "NEW" /\ reason[x] \notin Stopped
    BY DEF Init, Stopped, None
  <2>2. StoppedInv
    BY <2>1, TypeInit DEF Init, StoppedInv
  <2> QED BY <2>1, <2>2, TurnInit DEF LosersInv
<1>2. LosersInv /\ [Next]_vars => LosersInv'
  BY LosersStep
<1>3. LosersInv => LosersAreCancelled
  <2> SUFFICES ASSUME LosersInv, NEW o \in Steps, owner[o] # None,
                      NEW x, x = owner[o], NEW j, j = JoinOf(def[x], o[1]), j # None,
                      def[x].join[j].remainder = "CANCEL_REMAINDER",
                      joined[x][j].committed \in def[x].join[j].accepted
               PROVE  /\ o \notin dispatched => o \in invalidated
                      /\ o \in dispatched /\ run[o] = "LIVE" => o \in outbox
    BY DEF LosersAreCancelled
  <2>1. TypeInv /\ StoppedInv /\ x \in Executions /\ o \in StepsOf(x)
    BY DEF LosersInv, StoppedInv, TypeInv, TypeOK, StepsOf
  <2>2. state[x] # "NEW" /\ def[x] \in Definitions
    BY <2>1, StartedFacts DEF TypeInv, RowsInv
  <2>3. j \in Joins(def[x]) /\ o[1] \in Range(def[x].branches[j])
    BY JoinOfBranch
  <2>4. Lost(x, j) /\ Lose(def[x], j, joined[x][j].committed) /\ o \in StepsIn(x, j)
    BY <2>1, <2>2, <2>3, AcceptedIsKey DEF LosersInv, Lose, StepsIn
  <2>5. (o \notin dispatched => o \in invalidated) /\ (step[o] = "RUNNING" => o \in outbox)
    BY <2>4 DEF Lost, Withdrawn
  <2>6. o \in dispatched => step[o] \in {"RUNNING", "TERMINAL", "CANCELLED"}
    BY <2>1 DEF TypeInv, TypeOK, RowsInv, StepStates
  <2> QED BY <2>1, <2>5, <2>6 DEF StoppedInv
<1> QED BY <1>1, <1>2, <1>3, PTL DEF Spec

=============================================================================
