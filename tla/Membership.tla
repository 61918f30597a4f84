------------------------------ MODULE Membership ------------------------------
(***************************************************************************)
(* Members and the runners they own (server/modules/identity and           *)
(* server/modules/runners over one database).                              *)
(*                                                                         *)
(* A runner is paired from a live device of a member who is active, and    *)
(* every command of its owner looks at the owner's membership.  Removing a *)
(* member ends in one transaction what they hold and what rests on their   *)
(* runners, whatever command of either module is between its read and its  *)
(* own transaction (identity/revocation.ts).                               *)
(***************************************************************************)
EXTENDS Identity

CONSTANTS
    Runners, Pairings, Acknowledgements, Exposures, Launches, Tokens, Proofs,
    MaxRevision, MaxPolicy, Horizon

ASSUME RegistryAssumption ==
    /\ Members # {} /\ Runners # {} /\ None \notin Members \cup Runners
    /\ MaxRevision \in Nat \ {0} /\ MaxPolicy \in Nat \ {0} /\ Horizon \in Nat
    /\ None \notin Nat \cup Pairings
    /\ \A w \in Workloads : "BOOTSTRAP" \in w => w \cap {"RUNNER", "PAIR"} = {}

VARIABLES
    clock, pairing, runner, mapping, profile, acknowledgement, exposure, changes,
    lease, token, proof, launch,
    command             \* commands of the registry between read and transaction

ActiveMembers == {m \in Members : Active(m)}
WithDevice == {m \in Members : \E f \in Families : family[f].state = "LIVE" /\ family[f].of = m}

R == INSTANCE RunnerRegistry WITH
    active <- ActiveMembers, device <- WithDevice, work <- command

registry == <<clock, pairing, runner, mapping, profile, acknowledgement, exposure, changes,
              lease, token, proof, launch, command>>
membershipVars == <<vars, registry>>

MembershipInit == Init /\ R!Init

\* removeMemberTransaction.
RemoveMember(m) ==
    /\ \/ \E c \in Clients : InWork(c, "REMOVE") /\ work[c].with.member = m /\ CommitRemoval(c)
       \/ Use("OFFBOARD") /\ \E s \in Sessions : RemoveAtOnce(s, m)
    /\ R!RemoveMember(m)

MembershipNext ==
    \/ Next /\ UNCHANGED registry
    \/ UNCHANGED <<rowVars, work>> /\ R!Next
    \/ \E m \in Members : RemoveMember(m)

MembershipSpec == MembershipInit /\ [][MembershipNext]_membershipVars

-------------------------------------------------------------------------------
\* Whatever is issued once buys one thing, however it is presented: invitations,
\* challenges, recovery codes, refresh credentials, pairings and request proofs.
AcceptedOnce ==
    /\ TypeOK /\ UsedOnce /\ RefreshedOnce
    /\ R!TypeOK /\ R!PairedOnce /\ R!ProofOnce

\* Nothing a revoked runner's owner let others do is in force, be it the runner
\* or its owner that was revoked, and whenever.
RevokedHoldsNothing == R!RevokedHoldsNothing

\* RunnerRegistry, for runners of members that come and go.
StaysWithdrawn == R!StaysWithdrawn
ConsumedIsAllowed == R!ConsumedIsAllowed

===============================================================================
