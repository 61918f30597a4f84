--------------------------- MODULE MCWorkflowEngine ---------------------------
(* Definitions for the runs of WorkflowEngine: shapes of workflow that the *)
(* validation accepts, as small as their features allow.  Fields and       *)
(* elements stand in the order in which TLC sorts them.                    *)
EXTENDS WorkflowEngine

\* A step that is retried once when its run fails, routed by its result, and
\* sent back at most once by a member's decision.
MCLoop ==
    [kind |-> [start |-> "START", a |-> "AGENT_RUN", route |-> "RESULT_ROUTER",
               ask |-> "HUMAN_DECISION", done |-> "TERMINAL", dropped |-> "TERMINAL"],
     results |-> [a |-> {"DONE", "ESCALATE"}, ask |-> {"RETRY", "STOP"}],
     transitions |-> {<<"start", "STARTED", "a">>, <<"a", "DONE", "route">>,
                      <<"a", "ESCALATE", "route">>, <<"a", "RUN_FAILED", "a">>,
                      <<"route", "DONE", "done">>, <<"route", "ESCALATE", "ask">>,
                      <<"route", "FALLBACK", "ask">>, <<"ask", "RETRY", "a">>,
                      <<"ask", "STOP", "dropped">>},
     branches |-> <<>>, join |-> <<>>,
     router |-> [route |-> [source |-> "a", routes |-> [DONE |-> "done", ESCALATE |-> "ask"],
                            fallback |-> "ask"]],
     outcome |-> [done |-> "COMPLETED", dropped |-> "FAILED"],
     maximumRunCount |-> 3, maximumConcurrency |-> 1, maximumParallelBranches |-> 2,
     cycleBounds |-> [c \in {<<"a">>, <<"a", "route", "ask">>} |-> 1]]

\* Two branches, then a decision.
MCPair(policy, remainder, transitions) ==
    [kind |-> [start |-> "START", a |-> "AGENT_RUN", ask |-> "HUMAN_DECISION",
               done |-> "TERMINAL", join |-> "JOIN", split |-> "PARALLEL_SPLIT",
               b |-> "AGENT_RUN"],
     results |-> [a |-> {"OK"}, ask |-> {"STOP"}, b |-> {"OK"}],
     transitions |-> transitions,
     branches |-> [join |-> <<"a", "b">>, split |-> <<"a", "b">>],
     join |-> [join |-> [fallback |-> "ask", policy |-> policy, remainder |-> remainder,
                         accepted |-> {"OK"}]],
     router |-> <<>>, outcome |-> [done |-> "COMPLETED"],
     maximumRunCount |-> 3, maximumConcurrency |-> 2, maximumParallelBranches |-> 2,
     cycleBounds |-> <<>>]
MCAnyTransitions ==
    {<<"start", "STARTED", "split">>, <<"ask", "STOP", "done">>,
     <<"join", "FALLBACK", "ask">>, <<"join", "OK", "ask">>}

\* The first accepted branch cancels the other, or lets it finish.
MCRace == MCPair("ANY", "CANCEL_REMAINDER", MCAnyTransitions)
MCLetFinish == MCPair("ANY", "LET_FINISH", MCAnyTransitions)

\* Both branches one at a time, then one more step.
MCAll ==
    [kind |-> [start |-> "START", a |-> "AGENT_RUN", ask |-> "HUMAN_DECISION",
               done |-> "TERMINAL", join |-> "JOIN", split |-> "PARALLEL_SPLIT",
               b |-> "AGENT_RUN", next |-> "AGENT_RUN"],
     results |-> [a |-> {"OK"}, ask |-> {"STOP"}, b |-> {"OK"}, next |-> {"OK"}],
     transitions |-> {<<"start", "STARTED", "split">>, <<"ask", "STOP", "done">>,
                      <<"join", "ALL", "next">>, <<"next", "RUN_FAILED", "ask">>,
                      <<"next", "OK", "done">>},
     branches |-> [join |-> <<"a", "b">>, split |-> <<"a", "b">>],
     join |-> [join |-> [fallback |-> "ask", policy |-> "ALL", remainder |-> None,
                         accepted |-> {"OK"}]],
     router |-> <<>>, outcome |-> [done |-> "COMPLETED"],
     maximumRunCount |-> 3, maximumConcurrency |-> 1, maximumParallelBranches |-> 2,
     cycleBounds |-> <<>>]

MCDefinitions == {MCLoop, MCAll, MCRace, MCLetFinish}

\* Each of them passes its joins once.
ASSUME OncePassed == \A d \in MCDefinitions : JoinsApart(d) /\ NoWayBack(d)

=============================================================================
