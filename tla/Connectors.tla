------------------------------ MODULE Connectors ------------------------------
(***************************************************************************)
(* What the server changes at a provider, and what it reads there, under   *)
(* one authority of the connector (server/connector-production-            *)
(* composition.ts).  The items a scan lists are others than those a member *)
(* or an attempt changes: what a scan does to the projection of such an    *)
(* item is the observation of ConnectorAuthority.                          *)
(***************************************************************************)
EXTENDS ConnectorAuthority

CONSTANTS
    Projects, Items, PageSize, Deliveries, MaxVersion

ASSUME ReconciliationAssumption ==
    /\ MaxVersion \in Nat \ {0} /\ PageSize \in Nat \ {0}
    /\ Items # {} /\ IsFiniteSet(Items) /\ Items = 1..Cardinality(Items)
    /\ None \notin Deliveries

VARIABLES
    source, seen, keys, now, cursor, delivery, application, job, began

\* currentScopeNow: what a scan looks at, before it begins and for each item.
G == INSTANCE GitHubReconciliation WITH usable <- Usable(epoch.epoch)

changing == <<authority, provider, ledger, observation, work>>
scanning == <<source, seen, keys, now, cursor, delivery, application, job, began>>
connectorVars == <<vars, scanning>>

ConnectorsInit == Init /\ G!Init

ConnectorsNext ==
    \/ Next /\ UNCHANGED scanning
    \/ UNCHANGED changing /\ G!Next

ConnectorsSpec == ConnectorsInit /\ [][ConnectorsNext]_connectorVars

-------------------------------------------------------------------------------
\* A project's cursor, its webhook applications and its projections tell the same
\* story, whenever the connector's authority ends or the server stops.
ScansAreTrue == G!RowsAreTrue

=============================================================================
