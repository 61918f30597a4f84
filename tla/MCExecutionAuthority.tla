------------------------- MODULE MCExecutionAuthority -------------------------
(* Values of the constants of ExecutionAuthority for TLC. *)
EXTENDS ExecutionAuthority

CONSTANTS
    r1, r2, c1,
    Bystanders,         \* runs that take part where no session is opened
    Loners,             \* runs that are alone in their behaviour
    MaxTouched          \* a bound: sources of authority withdrawn in one behaviour

\* Every run works on the one Coordination Record c1.
OnOneRecord == [r \in Runs |-> c1]

\* The sources of authority that were withdrawn or revoked.
Touched ==
    {s \in EpochSources \cup {"RUN"} :
        \/ s \in EpochSources /\ revoked[s] > 0
        \/ s = "RUN" /\ revokedRuns # {}
        \/ s = "EXPOSURE" /\ runnerFacts > 1
        \/ s = "RUNNER" /\ ~runnerLive
        \/ s \in removed
        \/ s = "CONNECTOR" /\ connectorEpoch > 1}

InPlay == {r \in Runs : runState[r] # "NONE"}

\* The bounds of the run.  A third run matters to the record's guard alone, a run
\* that does not mutate only to its own operations; where authority is withdrawn,
\* one run has had a session.
FewTouched ==
    /\ Cardinality(Touched) <= MaxTouched
    /\ InPlay \cap Bystanders # {} =>
        /\ Touched = {} /\ now = 0 /\ MutatingRuns \subseteq InPlay
        /\ \A a \in Attempts : session[a].state = "NONE"
    /\ Touched # {} =>
        Cardinality({r \in Runs : \E a \in AttemptsOf(r) : session[a].state # "NONE"}) <= 1
    /\ InPlay \cap Loners # {} => Cardinality(InPlay) = 1
    /\ \A o \in operations : o.kind = "EXECUTE_LOCAL_GATE" => o.attempt[1] \in Loners

================================================================================
