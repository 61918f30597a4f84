------------------------------ MODULE ManagedLoop ------------------------------
(***************************************************************************)
(* The state of a managed loop: attempts counted against a budget, and a   *)
(* stop policy that must match several times in a row                      *)
(* (workflows/managed-loops.ts, workflows/stop-policy.ts).                 *)
(*                                                                         *)
(* Reports of attempts and evaluations carry identities and may be repeated*)
(* with the same or with other content.  The policy is a combination of    *)
(* sources that must match `count' times in a row; a source may be unknown.*)
(***************************************************************************)
EXTENDS Naturals, Sequences, FiniteSets

CONSTANTS
    Events, Evaluations,
    Sources, Policies,  \* [count, join, negated]
    MaxAttempts,
    MaxAnonymous,       \* reports without an identity
    None

Truth == {"TRUE", "FALSE", "UNKNOWN"}
Kinds == {"ATTEMPT_CREATED", "FAILED_TO_START", "LOST"}

VARIABLES
    workload,
    loop,               \* managed_loop_state
    overdue,            \* the deadline of the workflow has passed
    recorded,           \* managed_loop_events: the kind, by identity
    anonymous,          \* how many reports without identity were counted
    evaluated,          \* managed_loop_policy_evaluations
    history             \* ghost: what the condition was, each evaluation once

loops == <<loop, overdue, recorded, anonymous, evaluated, history>>
vars == <<workload, loops>>

TypeOK ==
    /\ loop # None => loop.attempts \in 0 .. MaxAttempts /\ loop.matches \in Nat
    /\ \A e \in Events : recorded[e] \in Kinds \cup {None}
    /\ anonymous \in 0 .. MaxAnonymous

Init ==
    /\ loop = None /\ overdue = FALSE
    /\ recorded = [e \in Events |-> None] /\ anonymous = 0
    /\ evaluated = [v \in Evaluations |-> None] /\ history = <<>>

Requested == "LOOP" \in workload /\ UNCHANGED workload

CreateLoop ==
    /\ Requested /\ loop = None
    /\ \E p \in Policies : loop' = [policy |-> p, attempts |-> 0, matches |-> 0]
    /\ UNCHANGED <<overdue, recorded, anonymous, evaluated, history>>

DeadlinePasses ==
    /\ Requested /\ ~overdue
    /\ overdue' = TRUE
    /\ UNCHANGED <<loop, recorded, anonymous, evaluated, history>>

\* advanceManagedLoop: one more, within the budget and the deadline.
Advances == ~overdue /\ loop.attempts + 1 <= MaxAttempts
Counted == loop' = [loop EXCEPT !.attempts = @ + 1]

Known(e, kind) == recorded[e] # None

\* record: what is known under its identity changes nothing, and is a conflict if
\* it is of another kind.  What is refused is not recorded, and may come again.
Record(e, kind) ==
    /\ Requested /\ loop # None
    /\ ~Known(e, kind) /\ Advances
    /\ Counted /\ recorded' = [recorded EXCEPT ![e] = kind]
    /\ UNCHANGED <<overdue, anonymous, evaluated, history>>

RecordAnonymous ==
    /\ Requested /\ loop # None /\ anonymous < MaxAnonymous
    /\ Advances
    /\ Counted /\ anonymous' = anonymous + 1
    /\ UNCHANGED <<overdue, recorded, evaluated, history>>

-------------------------------------------------------------------------------
And(S) == IF "FALSE" \in S THEN "FALSE" ELSE IF "UNKNOWN" \in S THEN "UNKNOWN" ELSE "TRUE"
Or(S) == IF "TRUE" \in S THEN "TRUE" ELSE IF "UNKNOWN" \in S THEN "UNKNOWN" ELSE "FALSE"
Not(t) == CASE t = "UNKNOWN" -> t [] t = "TRUE" -> "FALSE" [] t = "FALSE" -> "TRUE"

\* The condition under the count: ALL or ANY of the sources, or NOT that.
Condition(policy, facts) ==
    LET S == {facts[s] : s \in Sources}
        joined == IF policy.join = "ALL" THEN And(S) ELSE Or(S)
    IN  IF policy.negated THEN Not(joined) ELSE joined

\* Slip: what is not known ends the row of matches.
MatchesAfterReset(t, matches) == IF t = "TRUE" THEN matches + 1 ELSE 0

\* CONSECUTIVE_MATCHES of evaluateStopPolicy.
MatchesAfter(t, matches) ==
    CASE t = "TRUE" -> matches + 1 [] t = "FALSE" -> 0 [] t = "UNKNOWN" -> matches
Outcome(t, policy, matches) ==
    IF t = "UNKNOWN" THEN t ELSE IF matches >= policy.count THEN "TRUE" ELSE "FALSE"

\* evaluate: once for each identity; the same again has the first result again.
Evaluate(v) ==
    /\ Requested /\ loop # None /\ evaluated[v] = None
    /\ \E facts \in [Sources -> Truth] :
         LET t == Condition(loop.policy, facts)
             n == MatchesAfter(t, loop.matches)
         IN  /\ loop' = [loop EXCEPT !.matches = n]
             /\ evaluated' = [evaluated EXCEPT ![v] = Outcome(t, loop.policy, n)]
             /\ history' = Append(history, [facts |-> facts, result |-> evaluated'[v]])
    /\ UNCHANGED <<overdue, recorded, anonymous>>

Next ==
    \/ CreateLoop \/ DeadlinePasses
    \/ \E e \in Events, kind \in Kinds : Record(e, kind)
    \/ RecordAnonymous
    \/ \E v \in Evaluations : Evaluate(v)

-------------------------------------------------------------------------------
\* The sources for which the policy holds, said without three values: it does not
\* whatever the unknown ones are, it does whatever they are, or that is not known.
Completions(facts) ==
    {g \in [Sources -> {"TRUE", "FALSE"}] :
        \A s \in Sources : facts[s] # "UNKNOWN" => g[s] = facts[s]}
Holds(policy, g) ==
    policy.negated # (IF policy.join = "ALL" THEN \A s \in Sources : g[s] = "TRUE"
                                             ELSE \E s \in Sources : g[s] = "TRUE")
Settled(policy, facts) ==
    IF \A g \in Completions(facts) : Holds(policy, g) THEN "TRUE"
    ELSE IF \A g \in Completions(facts) : ~Holds(policy, g) THEN "FALSE"
    ELSE "UNKNOWN"

\* It held at the last `count' of the first i evaluations that were decided.
HeldInARow(truths, i, count) ==
    LET decided == {j \in 1 .. i : truths[j] # "UNKNOWN"}
        latest == {j \in decided : Cardinality({k \in decided : k >= j}) <= count}
    IN  Cardinality(decided) >= count /\ \A j \in latest : truths[j] = "TRUE"

\* Each report counts once, whatever is repeated and in whatever order; and the
\* policy is met just when it held at the last `count' evaluations that could be
\* decided, the ones that could not neither counting nor breaking the row.
LoopCounts ==
    loop # None =>
        /\ loop.attempts = Cardinality({e \in Events : recorded[e] # None}) + anonymous
        /\ \A i \in DOMAIN history :
             LET truths == [j \in DOMAIN history |-> Settled(loop.policy, history[j].facts)]
             IN  history[i].result =
                   IF truths[i] = "UNKNOWN" THEN "UNKNOWN"
                   ELSE IF HeldInARow(truths, i, loop.policy.count) THEN "TRUE" ELSE "FALSE"
================================================================================
