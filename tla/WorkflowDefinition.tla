-------------------------- MODULE WorkflowDefinition --------------------------
(***************************************************************************)
(* Workflow definitions (shared/contracts/workflow.ts): what makes one     *)
(* publishable (server/modules/workflows/validation.ts), and the pure      *)
(* functions that choose where an execution goes next (joins.ts,           *)
(* conditions.ts and the look-ups of workflow-engine.ts).                  *)
(*                                                                         *)
(* A definition is a record.  Its nodes are the domain of `kind'; every    *)
(* other field is a function of the nodes of the kinds it belongs to:      *)
(*   results       AGENT_RUN: resultKeys; HUMAN_DECISION: choices          *)
(*   transitions   the set of triples <<from, resultKey, to>>              *)
(*   branches      PARALLEL_SPLIT and JOIN: branchKeys, a sequence         *)
(*   join          JOIN: policy, accepted, fallback, remainder             *)
(*   router        RESULT_ROUTER: source, routes, fallback                 *)
(*   outcome       TERMINAL: the state the execution ends in               *)
(*   maximumRunCount, maximumConcurrency, maximumParallelBranches          *)
(*   cycleBounds   cycle signature, a sequence of nodes -> its bound       *)
(* Run templates, and with them the equality of result contracts and the   *)
(* INSPECT_ONLY mode of branches, are left out: a definition here has      *)
(* passed those checks.  Node keys are unique because `kind' is a          *)
(* function; the deadline of a definition is a clock of WorkflowEngine.    *)
(***************************************************************************)
EXTENDS Integers, Sequences, FiniteSets, Functions

Kinds == {"START", "AGENT_RUN", "HUMAN_DECISION", "RESULT_ROUTER", "PARALLEL_SPLIT",
          "JOIN", "TERMINAL"}
Outcomes == {"COMPLETED", "FAILED", "CANCELLED"}
SystemResults == {"RUN_FAILED", "RUN_CANCELLED"}
None == "NONE"

NodesOf(d) == DOMAIN d.kind
OfKind(d, k) == {n \in NodesOf(d) : d.kind[n] = k}
StartOf(d) == CHOOSE n \in OfKind(d, "START") : TRUE
From(d, n) == {t \in d.transitions : t[1] = n}

\* The shape the schema gives a definition.
WellFormed(d) ==
    /\ IsFiniteSet(NodesOf(d)) /\ None \notin NodesOf(d)
    /\ \A n \in NodesOf(d) : d.kind[n] \in Kinds
    /\ \A n \in OfKind(d, "PARALLEL_SPLIT") \cup OfKind(d, "JOIN") :
           d.branches[n] \in Seq(NodesOf(d))
    /\ \A n \in OfKind(d, "TERMINAL") : d.outcome[n] \in Outcomes
    /\ \A n \in OfKind(d, "AGENT_RUN") : None \notin d.results[n]
    /\ {d.maximumRunCount, d.maximumConcurrency, d.maximumParallelBranches} \subseteq Nat \ {0}

\* Node n has exactly one transition for result key k, and it leads into S.
ExactTransition(d, n, k, S) ==
    /\ Cardinality({t \in From(d, n) : t[2] = k}) = 1
    /\ \E t \in From(d, n) : t[2] = k /\ t[3] \in S
Exposes(d, n, keys) == \A t \in From(d, n) : t[2] \in keys
Injective(s) == Cardinality(Range(s)) = Len(s)
SameBranches(d, m, n) == Range(d.branches[m]) = Range(d.branches[n])

\* A typed output selects one target, and names nodes of the definition.
TransitionsValid(d) ==
    \A t \in d.transitions :
        /\ t[1] \in NodesOf(d) /\ t[3] \in NodesOf(d)
        /\ \A u \in d.transitions : t[1] = u[1] /\ t[2] = u[2] => t[3] = u[3]

AgentRunValid(d, n) ==
    /\ (\A j \in OfKind(d, "JOIN") : n \notin Range(d.branches[j]))
         => \A k \in d.results[n] : ExactTransition(d, n, k, NodesOf(d))
    /\ Exposes(d, n, d.results[n] \cup SystemResults)

RouterValid(d, n) ==
    LET r == d.router[n] IN
    /\ r.source \in OfKind(d, "AGENT_RUN")
    /\ DOMAIN r.routes = d.results[r.source]
    /\ \A k \in DOMAIN r.routes : ExactTransition(d, n, k, {r.routes[k]})
    /\ ExactTransition(d, n, "FALLBACK", {r.fallback})
    /\ Exposes(d, n, DOMAIN r.routes \cup {"FALLBACK"})

SplitValid(d, n) ==
    /\ Cardinality({j \in OfKind(d, "JOIN") : SameBranches(d, j, n)}) = 1
    /\ Injective(d.branches[n]) /\ Len(d.branches[n]) <= d.maximumParallelBranches
    /\ Range(d.branches[n]) \subseteq OfKind(d, "AGENT_RUN")
    /\ From(d, n) = {}

JoinValid(d, n) ==
    LET j == d.join[n]
        reported == SystemResults \cup UNION {d.results[b] : b \in Range(d.branches[n])}
    IN  /\ Cardinality({s \in OfKind(d, "PARALLEL_SPLIT") : SameBranches(d, s, n)}) = 1
        /\ Injective(d.branches[n]) /\ j.accepted \subseteq reported
        /\ \/ /\ j.policy = "ANY" /\ j.remainder \in {"CANCEL_REMAINDER", "LET_FINISH"}
              /\ \A k \in j.accepted : ExactTransition(d, n, k, NodesOf(d))
              /\ ExactTransition(d, n, "FALLBACK", {j.fallback})
              /\ Exposes(d, n, j.accepted \cup {"FALLBACK"})
           \/ /\ j.policy = "ALL" /\ j.remainder = None
              /\ ExactTransition(d, n, "ALL", NodesOf(d))
              /\ Exposes(d, n, {"ALL"})

NodeValid(d, n) ==
    CASE d.kind[n] = "START" ->
            ExactTransition(d, n, "STARTED", NodesOf(d)) /\ Exposes(d, n, {"STARTED"})
      [] d.kind[n] = "AGENT_RUN" -> AgentRunValid(d, n)
      [] d.kind[n] = "HUMAN_DECISION" ->
            /\ \A k \in d.results[n] : ExactTransition(d, n, k, NodesOf(d))
            /\ Exposes(d, n, d.results[n])
      [] d.kind[n] = "RESULT_ROUTER" -> RouterValid(d, n)
      [] d.kind[n] = "PARALLEL_SPLIT" -> SplitValid(d, n)
      [] d.kind[n] = "JOIN" -> JoinValid(d, n)
      [] d.kind[n] = "TERMINAL" -> From(d, n) = {}

\* The graph of an execution: transitions, split to branch, branch to join.
Edge(d, m, n) ==
    \/ \E t \in d.transitions : t[1] = m /\ t[3] = n
    \/ d.kind[m] = "PARALLEL_SPLIT" /\ n \in Range(d.branches[m])
    \/ d.kind[n] = "JOIN" /\ m \in Range(d.branches[n])

\* What a search along the edges finds, from m on: what is in every set of nodes
\* that contains m and that no edge leaves.
Unleft(d) == {C \in SUBSET NodesOf(d) : \A m \in C, n \in NodesOf(d) : Edge(d, m, n) => n \in C}
Reachable(d, m) == {n \in NodesOf(d) : \A C \in Unleft(d) : m \in C => n \in C}

CycleEdges(c) == {<<c[i], c[(i % Len(c)) + 1]>> : i \in DOMAIN c}
ClosingEdge(c) == <<c[Len(c)], c[1]>>

\* Every cycle's edges are named by a bounded signature, a real closed cycle.
CyclesBounded(d) ==
    /\ \A c \in DOMAIN d.cycleBounds :
        /\ d.cycleBounds[c] \in Nat \ {0} /\ Injective(c)
        /\ \A e \in CycleEdges(c) :
               e[1] \in NodesOf(d) /\ e[2] \in NodesOf(d) /\ Edge(d, e[1], e[2])
    /\ \A m, n \in NodesOf(d) :
        Edge(d, m, n) /\ m \in Reachable(d, n)
            => \E c \in DOMAIN d.cycleBounds : <<m, n>> \in CycleEdges(c)

ValidWorkflow(d) ==
    /\ Cardinality(OfKind(d, "START")) = 1 /\ OfKind(d, "TERMINAL") # {}
    /\ TransitionsValid(d)
    /\ \A n \in NodesOf(d) :
        /\ NodeValid(d, n)
        /\ n \in Reachable(d, StartOf(d))
        /\ Reachable(d, n) \cap OfKind(d, "TERMINAL") # {}
    /\ CyclesBounded(d)

\* Two conditions under which a join is passed once in an execution: no run is a
\* branch of two joins, and nothing behind a join leads back to its branches.
\* Validation asks for neither.
JoinsApart(d) ==
    \A i, j \in OfKind(d, "JOIN") : i # j => Range(d.branches[i]) \cap Range(d.branches[j]) = {}
NoWayBack(d) == \A j \in OfKind(d, "JOIN") : Range(d.branches[j]) \cap Reachable(d, j) = {}

-----------------------------------------------------------------------------
(* Where an execution goes next; None when nothing is selected.            *)

TargetOf(d, n, k) ==
    IF \E t \in From(d, n) : t[2] = k
        THEN (CHOOSE t \in From(d, n) : t[2] = k)[3] ELSE None

JoinOf(d, n) ==
    IF \E j \in OfKind(d, "JOIN") : n \in Range(d.branches[j])
        THEN CHOOSE j \in OfKind(d, "JOIN") : n \in Range(d.branches[j]) ELSE None

\* Where result k of step n leads, through a router if one is next, and the
\* edges passed on the way.
RouteStep(d, n, k) ==
    LET t == TargetOf(d, n, k) IN
    IF t = None THEN [target |-> None, edges |-> {}]
    ELSE IF d.kind[t] # "RESULT_ROUTER" THEN [target |-> t, edges |-> {<<n, t>>}]
    ELSE LET r == d.router[t]
             to == IF k \in DOMAIN r.routes THEN r.routes[k] ELSE r.fallback
         IN  [target |-> to, edges |-> {<<n, t>>, <<t, to>>}]

\* A join's state: the branches that are terminal, and the key it committed.
JoinStart == [terminal |-> {}, committed |-> None]

\* The branch b of join j ends with result k.
EvaluateJoin(d, j, s, b, k) ==
    LET terminal == s.terminal \cup {b}
        last == terminal = Range(d.branches[j])
        commit(key, to, cancel) ==
            [state |-> [terminal |-> terminal, committed |-> key], target |-> to, cancel |-> cancel]
    IN  IF s.committed # None \/ b \in s.terminal
        THEN [state |-> s, target |-> None, cancel |-> {}]
        ELSE IF d.join[j].policy = "ANY" /\ k \in d.join[j].accepted
        THEN commit(k, TargetOf(d, j, k),
                    IF d.join[j].remainder = "CANCEL_REMAINDER"
                        THEN Range(d.branches[j]) \ terminal ELSE {})
        ELSE IF d.join[j].policy = "ALL" /\ last
        THEN commit("ALL", TargetOf(d, j, "ALL"), {})
        ELSE IF d.join[j].policy = "ANY" /\ last
        THEN commit("FALLBACK", d.join[j].fallback, {})
        ELSE [state |-> [s EXCEPT !.terminal = terminal], target |-> None, cancel |-> {}]

=============================================================================
