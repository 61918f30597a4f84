------------------------------ MODULE Automation ------------------------------
(***************************************************************************)
(* What workflows are started from: the configuration of runs, what members*)
(* author, and managed loops, as the server composes them                  *)
(* (server/dependencies.ts).                                               *)
(*                                                                         *)
(* A workflow preset is bound to run preset versions that resolve when it  *)
(* is bound.  A workflow that is started with it resolves them again, by   *)
(* then perhaps in vain.  Managed loops share nothing with the rest.       *)
(***************************************************************************)
EXTENDS Configuration

CONSTANTS
    Clients, Keys, MaxSent,
    Events, Evaluations, Sources, Policies, MaxAttempts, MaxAnonymous

VARIABLES
    member, line, copies, projects, write, projectWrite, request, sent, underWay, answer,
    loop, overdue, recorded, anonymous, evaluated, history

\* Run preset versions that RESOLVE_PERSONAL_RUN_PRESET_BINDINGS resolves.
Bindings == [preset : Presets, version : Versions]
Offered == {o \in Bindings : Exact(o.preset, o.version)}

A == INSTANCE Authoring WITH offered <- Offered
L == INSTANCE ManagedLoop

\* What a client may ask for.
Requests ==
    [by : Clients, op : A!Operations, key : Keys, bound : Bindings \cup {None}, base : Nat]

\* What a managed loop may be.
StopPolicies == [count : Nat, join : {"ALL", "ANY"}, negated : BOOLEAN]
ManagedLoops == [policy : Policies, attempts : 0 .. MaxAttempts, matches : Nat]

ASSUME AutomationAssumption ==
    /\ MaxSent \in Nat /\ None \notin [digest : Requests, result : {"OK"}]
    /\ IsFiniteSet(Events) /\ MaxAttempts \in Nat /\ MaxAnonymous \in Nat
    /\ Policies \subseteq StopPolicies /\ None \notin ManagedLoops \cup L!Kinds

configuration == <<owned, stored, granted, launches, envelope>>
authoring ==
    <<member, line, copies, projects, write, projectWrite, request, sent, underWay, answer>>
looping == <<loop, overdue, recorded, anonymous, evaluated, history>>
allVars == <<workload, configuration, authoring, looping>>

\* start of a workflow with a stored preset, up to its launches.
StartWorkflow(r) ==
    \E n \in DOMAIN line["PRESET"] :
        LET bound == line["PRESET"][n].bound IN ResolveStep(r, bound.preset, bound.version)

AutomationInit == Init /\ A!Init /\ L!Init

AutomationNext ==
    \/ (Steps \/ \E r \in Runs : StartWorkflow(r)) /\ UNCHANGED <<authoring, looping>>
    \/ A!Next /\ UNCHANGED <<configuration, looping>>
    \/ L!Next /\ UNCHANGED <<configuration, authoring>>

AutomationSpec == AutomationInit /\ [][AutomationNext]_allVars

-------------------------------------------------------------------------------
\* A run keeps the configuration its dispatcher was shown, and what was stored with
\* it can be delivered.
KeptAsShown == TypeOK /\ StoredAsShown /\ SnapshotReadable

\* However often, concurrently and under whatever key a member's request is sent, it
\* has one effect at most, and has had it if the answer says so; nobody writes over a
\* revision they have not seen, and no project is created for who ceased to be an
\* owner while it was on its way (workflows/drafts.ts, templates and projects).
RequestsCountOnce == A!TypeOK /\ A!OneEffect /\ A!NoLostUpdate

\* Each report counts once against the budget of a loop, and its policy is met just
\* when it held at the last evaluations that could be decided.
LoopCounts == L!TypeOK /\ L!LoopCounts
================================================================================
