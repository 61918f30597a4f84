--------------------------- MODULE RunnerRegistry ---------------------------
(***************************************************************************)
(* Runners, what their owners let the team dispatch to them, and what that *)
(* lets a launch do (server/modules/runners; the launch's side of it in    *)
(* server/dependencies.ts and server/modules/execution-authority).         *)
(*                                                                         *)
(* A device of a member begins a pairing, the member confirms it, and the  *)
(* runner's key consumes it.  The runner's owner maps a project to it,     *)
(* advertises a profile in numbered versions, and acknowledges the exact   *)
(* facts of an exposure: mapping revision, profile version and policy      *)
(* revision.  An exposure of acknowledged facts lets any member launch.    *)
(* Facts change under a launch: each is compared again in the transaction  *)
(* that records the run, authorizes its attempt, or consumes its permit.   *)
(*                                                                         *)
(* A command whose transaction repeats the checks of its read is one       *)
(* action; where it relies on what it read before an await it is a Read    *)
(* and a Commit.  One project and one profile stand for each of them; the  *)
(* security policy of a runner is set when it is paired and never changes. *)
(* Time passes in ticks of 300 seconds.                                    *)
(***************************************************************************)
EXTENDS Integers, FiniteSets

CONSTANTS
    Members, Runners, Pairings, Acknowledgements, Exposures, Launches,
    Tokens,             \* access tokens of runners
    Proofs,             \* signed request proofs, named by their jti
    Clients,            \* commands in work at once
    Workloads,          \* sets of commands, one of which a behaviour uses
    MaxRevision,        \* mapping revisions and profile versions
    MaxPolicy,          \* policy revisions
    Horizon,            \* ticks of 300 seconds
    None

VARIABLES
    workload, clock,
    active,             \* members that have not been removed: Identity
    device,             \* members with a live device family: Identity
    pairing,            \* runner_pairings
    runner,             \* runners and their one credential
    mapping,            \* runner_mapping_versions, by revision
    profile,            \* the latest of safe_profile_versions
    acknowledgement,    \* runner_exposure_acknowledgements
    exposure,           \* runner_exposures
    changes,            \* runner_authority_change_outbox
    lease,              \* last_heartbeat_at and repository observations
    token,              \* the access map, in the server's memory
    proof,              \* request proofs and their rows of dpop_replays
    launch,             \* runs, their attempt and its permit
    work                \* commands between their read and their transaction

grants == <<pairing, runner, mapping, profile, acknowledgement, exposure, changes>>
sessions == <<lease, token, proof>>
vars == <<workload, clock, active, device, grants, sessions, launch, work>>

Revisions == 1..MaxRevision
Idle == [op |-> "IDLE"]
Policies == 1..MaxPolicy
Facts == [runner : Runners, mapping : Revisions, version : Revisions, policy : Policies]

\* contract.ts: RUNNER_ACCESS_SECONDS, the clock skew of a proof, and the life
\* of its row in dpop_replays, in ticks.
AccessTicks == 2
SkewTicks == 1
ReplayTicks == 2

TypeOK ==
    /\ clock \in 0..Horizon /\ active \subseteq Members /\ device \subseteq active
    /\ \A q \in Pairings :
         /\ pairing[q].state \in {"NONE", "PENDING", "CONFIRMED", "CONSUMED", "ENDED"}
         /\ pairing[q].state # "NONE" => pairing[q].of \in Members
    /\ \A r \in Runners :
         /\ runner[r].state \in {"NONE", "LIVE", "REVOKED"}
         /\ runner[r].state # "NONE" => runner[r].owner \in Members
         /\ runner[r].epoch = IF runner[r].state = "REVOKED" THEN 2 ELSE 1
         /\ runner[r].policy \in Policies /\ runner[r].audience \in {"OWNER_ONLY", "TEAM"}
         /\ runner[r].credential = (runner[r].state = "LIVE")
         /\ \A v \in Revisions : mapping[r][v] \in {"NONE", "LIVE", "REVOKED"}
         /\ Cardinality({v \in Revisions : mapping[r][v] = "LIVE"}) <= 1
         /\ profile[r] \in 0..MaxRevision
         /\ lease[r].observed \subseteq {v \in Revisions : mapping[r][v] # "NONE"}
    /\ \A a \in Acknowledgements :
         /\ acknowledgement[a].state \in {"NONE", "LIVE", "REVOKED"}
         /\ acknowledgement[a].state # "NONE" => acknowledgement[a].facts \in Facts
    /\ \A e \in Exposures :
         /\ exposure[e].state \in {"NONE", "LIVE", "REVOKED"}
         /\ exposure[e].state # "NONE" =>
              exposure[e].facts = acknowledgement[exposure[e].by].facts
    /\ \A l \in Launches :
         launch[l].state \in {"NONE", "RECORDED", "ISSUED", "CONSUMED", "REVOKED"}
    /\ \A t \in Tokens : token[t].state \in {"NONE", "HELD", "CONNECTED", "GONE"}

-------------------------------------------------------------------------------
NewIn(table) == CHOOSE x \in DOMAIN table : table[x].state = "NONE"
HasNew(table) == \E x \in DOMAIN table : table[x].state = "NONE"

Requested(op) == op \in workload /\ UNCHANGED <<workload, clock, work>>

Read(c, op, arguments) ==
    /\ op \in workload /\ work[c] = Idle
    /\ work' = [work EXCEPT ![c] = [op |-> op, with |-> arguments]]
    /\ UNCHANGED <<workload, clock, active, device, grants, sessions, launch>>

InWork(c, op) == work[c].op = op
Commit(c) == work' = [work EXCEPT ![c] = Idle] /\ UNCHANGED <<workload, clock>>

\* memberAuthority, activeOwner and, in the transaction, revalidateOwner.
OwnedBy(r, m) == runner[r].state = "LIVE" /\ runner[r].owner = m /\ m \in active

\* currentSubject: the facts of an exposure of the runner, now.
Subject(r, v, p) == [runner |-> r, mapping |-> v, version |-> p, policy |-> runner[r].policy]
IsCurrent(f) ==
    /\ runner[f.runner].state = "LIVE" /\ mapping[f.runner][f.mapping] = "LIVE"
    /\ profile[f.runner] = f.version /\ runner[f.runner].policy = f.policy

\* inspectEligibility for a member who does not own the runner.
Eligible(e) ==
    /\ exposure[e].state = "LIVE"
    /\ acknowledgement[exposure[e].by].state = "LIVE"
    /\ IsCurrent(exposure[e].facts)
    /\ runner[exposure[e].facts.runner].audience = "TEAM"

\* teamExposureIsLive: by facts, not by the exposure's id; the audience and the
\* latest profile version are not looked at.
TeamExposureIsLive(f) ==
    \E e \in Exposures :
        /\ exposure[e].state = "LIVE" /\ exposure[e].facts = f
        /\ acknowledgement[exposure[e].by].state = "LIVE"

-------------------------------------------------------------------------------
\* A deployment whose first runner is paired, mapped and has a profile, as far as
\* the workload does not do that itself.
Init ==
    /\ workload \in Workloads
    /\ clock = 0
    /\ pairing = [q \in Pairings |-> [state |-> "NONE", of |-> None]]
    /\ runner = [r \in Runners |->
         IF "RUNNER" \in workload /\ r = CHOOSE x \in Runners : TRUE
         THEN [state |-> "LIVE", owner |-> CHOOSE m \in active : TRUE, by |-> None, epoch |-> 1,
               policy |-> 1, audience |-> "OWNER_ONLY", credential |-> TRUE]
         ELSE [state |-> "NONE", owner |-> None, by |-> None, epoch |-> 1, policy |-> 1,
               audience |-> "OWNER_ONLY", credential |-> FALSE]]
    /\ mapping = [r \in Runners |-> [v \in Revisions |->
         IF runner[r].state = "LIVE" /\ v = 1 /\ "MAP" \notin workload THEN "LIVE" ELSE "NONE"]]
    /\ profile = [r \in Runners |->
         IF runner[r].state = "LIVE" /\ "PROFILE" \notin workload THEN 1 ELSE 0]
    /\ acknowledgement = [a \in Acknowledgements |-> [state |-> "NONE", facts |-> None]]
    /\ exposure = [e \in Exposures |-> [state |-> "NONE", facts |-> None, by |-> None]]
    /\ changes = {}
    /\ lease = [r \in Runners |-> [beat |-> "NEVER", observed |-> {}]]
    /\ token = [t \in Tokens |-> [state |-> "NONE"]]
    /\ proof = [p \in Proofs |-> [state |-> "NONE"]]
    /\ launch = [l \in Launches |-> [state |-> "NONE"]]
    /\ work = [c \in Clients |-> Idle]

Tick ==
    /\ "TIME" \in workload /\ clock < Horizon
    /\ clock' = clock + 1
    /\ lease' = [r \in Runners |->
         [lease[r] EXCEPT !.beat = IF @ = "NEVER" THEN @ ELSE "OLD", !.observed = {}]]
    /\ UNCHANGED <<workload, active, device, grants, token, proof, launch, work>>

\* A pairing lives 600 seconds from its beginning.
ExpirePairing(q) ==
    /\ pairing[q].state \in {"PENDING", "CONFIRMED"}
    /\ pairing' = [pairing EXCEPT ![q].state = "ENDED"]
    /\ Requested("TIME")
    /\ UNCHANGED <<active, device, runner, mapping, profile, acknowledgement, exposure,
                   changes, sessions, launch>>

Abandon(c) ==
    /\ work[c] # Idle
    /\ work' = [work EXCEPT ![c] = Idle]
    /\ UNCHANGED <<workload, clock, active, device, grants, sessions, launch>>

-------------------------------------------------------------------------------
\* beginPairing: the device is looked at before the digests, not after them.
ReadPairing(c, m) == m \in device /\ Read(c, "PAIR", [member |-> m])
CommitPairing(c) ==
    /\ InWork(c, "PAIR") /\ HasNew(pairing)
    /\ pairing' = [pairing EXCEPT ![NewIn(pairing)] =
                     [state |-> "PENDING", of |-> work[c].with.member]]
    /\ Commit(c)
    /\ UNCHANGED <<active, device, runner, mapping, profile, acknowledgement, exposure,
                   changes, sessions, launch>>

\* confirmPairing, by the member whose device began it.
ConfirmPairing(q) ==
    /\ pairing[q].state = "PENDING" /\ pairing[q].of \in active
    /\ pairing' = [pairing EXCEPT ![q].state = "CONFIRMED"]
    /\ Requested("PAIR")
    /\ UNCHANGED <<active, device, runner, mapping, profile, acknowledgement, exposure,
                   changes, sessions, launch>>

NewRunner(r, q) ==
    /\ runner' = [runner EXCEPT ![r] =
         [state |-> "LIVE", owner |-> pairing[q].of, by |-> q, epoch |-> 1, policy |-> 1,
          audience |-> "OWNER_ONLY", credential |-> TRUE]]
    /\ pairing' = [pairing EXCEPT ![q].state = "CONSUMED"]
    /\ UNCHANGED <<active, device, mapping, profile, acknowledgement, exposure, changes,
                   sessions, launch>>

ReadConsumption(c, q) ==
    /\ pairing[q].state = "CONFIRMED"
    /\ Read(c, "CONSUME", [pairing |-> q])

\* Slip: the pairing is not compared with the row read before the key's proof.
CommitConsumptionTwice(c) ==
    /\ InWork(c, "CONSUME") /\ HasNew(runner)
    /\ pairing[work[c].with.pairing].of \in active
    /\ NewRunner(NewIn(runner), work[c].with.pairing)
    /\ Commit(c)

\* consumePairing: the member and the pairing's revision are compared again.
CommitConsumption(c) ==
    /\ InWork(c, "CONSUME") /\ HasNew(runner)
    /\ pairing[work[c].with.pairing].state = "CONFIRMED"
    /\ pairing[work[c].with.pairing].of \in active
    /\ NewRunner(NewIn(runner), work[c].with.pairing)
    /\ Commit(c)

-------------------------------------------------------------------------------
\* registerMapping always inserts revision 1: a project once mapped, whose last
\* mapping has been revoked, is refused by the table's key.
RegisterMapping(r) ==
    /\ OwnedBy(r, runner[r].owner) /\ mapping[r][1] = "NONE"
    /\ mapping' = [mapping EXCEPT ![r][1] = "LIVE"]
    /\ Requested("MAP")
    /\ UNCHANGED <<active, device, pairing, runner, profile, acknowledgement, exposure,
                   changes, sessions, launch>>

ReplaceMapping(r, v) ==
    /\ OwnedBy(r, runner[r].owner) /\ mapping[r][v] = "LIVE" /\ v < MaxRevision
    /\ mapping' = [mapping EXCEPT ![r][v] = "REVOKED", ![r][v + 1] = "LIVE"]
    /\ Requested("MAP")
    /\ UNCHANGED <<active, device, pairing, runner, profile, acknowledgement, exposure,
                   changes, sessions, launch>>

RevokeMapping(r, v) ==
    /\ OwnedBy(r, runner[r].owner) /\ mapping[r][v] = "LIVE"
    /\ mapping' = [mapping EXCEPT ![r][v] = "REVOKED"]
    /\ Requested("MAP")
    /\ UNCHANGED <<active, device, pairing, runner, profile, acknowledgement, exposure,
                   changes, sessions, launch>>

\* advertiseProfile: the version after the one the owner has seen; the table's
\* key refuses the second of two that have seen the same.
AdvertiseProfile(r) ==
    /\ OwnedBy(r, runner[r].owner) /\ profile[r] < MaxRevision
    /\ profile' = [profile EXCEPT ![r] = @ + 1]
    /\ Requested("PROFILE")
    /\ UNCHANGED <<active, device, pairing, runner, mapping, acknowledgement, exposure,
                   changes, sessions, launch>>

\* acknowledgeExposure of the facts previewExposureAcknowledgement showed.
AcknowledgeExposure(r, v) ==
    /\ OwnedBy(r, runner[r].owner) /\ HasNew(acknowledgement) /\ profile[r] \in Revisions
    /\ LET f == Subject(r, v, profile[r]) IN
         /\ IsCurrent(f)
         /\ acknowledgement' = [acknowledgement EXCEPT ![NewIn(acknowledgement)] =
                                  [state |-> "LIVE", facts |-> f]]
    /\ Requested("EXPOSE")
    /\ UNCHANGED <<active, device, pairing, runner, mapping, profile, exposure, changes,
                   sessions, launch>>

RevokeAcknowledgement(a) ==
    /\ acknowledgement[a].state = "LIVE"
    /\ OwnedBy(acknowledgement[a].facts.runner, runner[acknowledgement[a].facts.runner].owner)
    /\ acknowledgement' = [acknowledgement EXCEPT ![a].state = "REVOKED"]
    /\ Requested("EXPOSE")
    /\ UNCHANGED <<active, device, pairing, runner, mapping, profile, exposure, changes,
                   sessions, launch>>

\* createExposure: whether the acknowledgement stands is what the row said
\* before the awaits; its facts are compared with the current ones.
ReadExposure(c, a) ==
    /\ acknowledgement[a].state = "LIVE"
    /\ OwnedBy(acknowledgement[a].facts.runner, runner[acknowledgement[a].facts.runner].owner)
    /\ Read(c, "EXPOSE", [acknowledgement |-> a])

Unexposed(f) ==
    \A e \in Exposures : exposure[e].state = "LIVE" =>
        \/ exposure[e].facts.runner # f.runner
        \/ exposure[e].facts.mapping # f.mapping \/ exposure[e].facts.version # f.version

NewExposure(a) ==
    exposure' = [exposure EXCEPT ![NewIn(exposure)] =
                   [state |-> "LIVE", facts |-> acknowledgement[a].facts, by |-> a]]

\* Slip: the owner and the facts are those of the read.
CommitExposureUnseen(c) ==
    /\ InWork(c, "EXPOSE") /\ HasNew(exposure)
    /\ Unexposed(acknowledgement[work[c].with.acknowledgement].facts)
    /\ NewExposure(work[c].with.acknowledgement)
    /\ Commit(c)
    /\ UNCHANGED <<active, device, pairing, runner, mapping, profile, acknowledgement,
                   changes, sessions, launch>>

CommitExposure(c) ==
    /\ InWork(c, "EXPOSE") /\ HasNew(exposure)
    /\ LET f == acknowledgement[work[c].with.acknowledgement].facts IN
         /\ OwnedBy(f.runner, runner[f.runner].owner) /\ IsCurrent(f)
         /\ runner[f.runner].audience = "TEAM"
         /\ Unexposed(f)
    /\ NewExposure(work[c].with.acknowledgement)
    /\ Commit(c)
    /\ UNCHANGED <<active, device, pairing, runner, mapping, profile, acknowledgement,
                   changes, sessions, launch>>

RevokeExposure(e) ==
    /\ exposure[e].state = "LIVE"
    /\ OwnedBy(exposure[e].facts.runner, runner[exposure[e].facts.runner].owner)
    /\ exposure' = [exposure EXCEPT ![e].state = "REVOKED"]
    /\ Requested("EXPOSE")
    /\ UNCHANGED <<active, device, pairing, runner, mapping, profile, acknowledgement,
                   changes, sessions, launch>>

WithdrawPermits(r) ==
    launch' = [l \in Launches |->
        IF launch[l].state = "ISSUED" /\ launch[l].runner = r
        THEN [launch[l] EXCEPT !.state = "REVOKED"] ELSE launch[l]]

\* Slip: the policy keeps its revision, and its permits.
ReplacePolicyInPlace(r, audience) ==
    /\ runner[r].state = "LIVE" /\ runner[r].policy < MaxPolicy
    /\ runner' = [runner EXCEPT ![r].audience = audience]
    /\ Requested("POLICY")
    /\ UNCHANGED <<active, device, pairing, mapping, profile, acknowledgement, exposure,
                   changes, sessions, launch>>

\* executeReplacePolicy: a new revision, and the runner's issued permits fall.
ReplacePolicy(r, audience) ==
    /\ runner[r].state = "LIVE" /\ runner[r].policy < MaxPolicy
    /\ runner' = [runner EXCEPT ![r].audience = audience, ![r].policy = @ + 1]
    /\ WithdrawPermits(r)
    /\ Requested("POLICY")
    /\ UNCHANGED <<active, device, pairing, mapping, profile, acknowledgement, exposure,
                   changes, sessions>>

-------------------------------------------------------------------------------
\* Everything that rests on a runner falls with it, in one transaction.
Withdraw(gone) ==
    /\ runner' = [r \in Runners |->
         IF r \in gone THEN [runner[r] EXCEPT !.state = "REVOKED", !.epoch = @ + 1, !.credential = FALSE]
         ELSE runner[r]]
    /\ mapping' = [r \in Runners |-> [v \in Revisions |->
         IF r \in gone /\ mapping[r][v] = "LIVE" THEN "REVOKED" ELSE mapping[r][v]]]
    /\ acknowledgement' = [a \in Acknowledgements |->
         IF acknowledgement[a].state = "LIVE" /\ acknowledgement[a].facts.runner \in gone
         THEN [acknowledgement[a] EXCEPT !.state = "REVOKED"] ELSE acknowledgement[a]]
    /\ exposure' = [e \in Exposures |->
         IF exposure[e].state = "LIVE" /\ exposure[e].facts.runner \in gone
         THEN [exposure[e] EXCEPT !.state = "REVOKED"] ELSE exposure[e]]
    /\ changes' = changes \cup gone

Revoke(r) ==
    /\ OwnedBy(r, runner[r].owner)
    /\ Withdraw({r})
    /\ Requested("REVOKE")
    /\ UNCHANGED <<active, device, pairing, profile, sessions, launch>>

\* removeMemberTransaction, its part for runners and pairings: a step of Identity's
\* removal, in Membership.
RemoveMember(m) ==
    /\ m \in active
    /\ active' = active \ {m} /\ device' = device \ {m}
    /\ Withdraw({r \in Runners : runner[r].state = "LIVE" /\ runner[r].owner = m})
    /\ pairing' = [q \in Pairings |->
         IF pairing[q].state \in {"PENDING", "CONFIRMED"} /\ pairing[q].of = m
         THEN [pairing[q] EXCEPT !.state = "ENDED"] ELSE pairing[q]]
    /\ UNCHANGED <<workload, clock, profile, sessions, launch, work>>

-------------------------------------------------------------------------------
\* exchangeCredential: the credential is compared again after the key's proof.
ExchangeCredential(r) ==
    /\ runner[r].credential /\ runner[r].owner \in active /\ HasNew(token)
    /\ token' = [token EXCEPT ![NewIn(token)] =
         [state |-> "HELD", runner |-> r, epoch |-> runner[r].epoch,
          expires |-> clock + AccessTicks]]
    /\ Requested("ACCESS")
    /\ UNCHANGED <<active, device, grants, lease, proof, launch>>

\* The runner signs a proof for its token; its clock may be ahead or behind.
SignProof(t, at) ==
    /\ token[t].state = "HELD" /\ HasNew(proof)
    /\ proof' = [proof EXCEPT ![NewIn(proof)] =
         [state |-> "SIGNED", for |-> t, issued |-> at, uses |-> 0, row |-> None]]
    /\ Requested("ACCESS")
    /\ UNCHANGED <<active, device, grants, lease, token, launch>>

LiveToken(t) == token[t].state \in {"HELD", "CONNECTED"} /\ clock < token[t].expires

StandsForRunner(t) ==
    /\ runner[token[t].runner].credential /\ runner[token[t].runner].epoch = token[t].epoch
    /\ runner[token[t].runner].owner \in active

\* Rows of dpop_replays past their time are deleted before the proof's is sought.
Remembered(p) == proof[p].row # None /\ clock < proof[p].row

\* authenticateAccess, which the upgrade of a connection is.
AuthenticateAccess(p) ==
    /\ proof[p].state = "SIGNED"
    /\ LET t == proof[p].for IN
         /\ LiveToken(t) /\ StandsForRunner(t)
         /\ clock - proof[p].issued \in (-SkewTicks)..SkewTicks
         /\ ~Remembered(p)
         /\ token' = [token EXCEPT ![t].state = "CONNECTED"]
    /\ proof' = [proof EXCEPT ![p].uses = @ + 1, ![p].row = clock + ReplayTicks]
    /\ Requested("ACCESS")
    /\ UNCHANGED <<active, device, grants, lease, launch>>

\* heartbeat of a connection: one observation that does not name the mapping
\* in force refuses the whole of it.
Heartbeat(t, observed) ==
    /\ token[t].state = "CONNECTED" /\ clock < token[t].expires
    /\ LET r == token[t].runner IN
         /\ runner[r].state = "LIVE" /\ runner[r].epoch = token[t].epoch
         /\ runner[r].owner \in active
         /\ \A v \in observed : mapping[r][v] = "LIVE"
         /\ lease' = [lease EXCEPT ![r] = [beat |-> "RECENT", observed |-> @.observed \cup observed]]
    /\ Requested("HEARTBEAT")
    /\ UNCHANGED <<active, device, grants, token, proof, launch>>

\* The server stops: its access map and its connections are gone.
Restart ==
    /\ token' = [t \in Tokens |-> IF token[t].state = "NONE" THEN token[t] ELSE [state |-> "GONE"]]
    /\ work' = [c \in Clients |-> Idle]
    /\ "RESTART" \in workload
    /\ UNCHANGED <<workload, clock, active, device, grants, lease, proof, launch>>

-------------------------------------------------------------------------------
LaunchFacts(w) == [runner |-> w.runner, mapping |-> w.mapping, version |-> w.version,
                   policy |-> w.policy]

\* resolveLaunch and databaseAuthorityFacts: a preset of the member, bound to a
\* mapping revision and a profile version; a member who does not own the runner
\* launches through the exposure it finds, if it finds one.
ReadLaunch(c, m, r, v, p) ==
    /\ m \in active /\ runner[r].state = "LIVE" /\ p <= profile[r]
    /\ mapping[r][v] # "NONE"
    /\ Read(c, "LAUNCH",
         [by |-> m, runner |-> r, epoch |-> runner[r].epoch, policy |-> runner[r].policy,
          mapping |-> v, version |-> p,
          team |-> m # runner[r].owner /\
                   \E e \in Exposures : /\ exposure[e].state = "LIVE"
                                        /\ exposure[e].facts.runner = r
                                        /\ exposure[e].facts.mapping = v
                                        /\ exposure[e].facts.version = p])

\* Slip: the policy revision is the one the facts were read with.
FactsMatchAnyPolicy(w) ==
    /\ runner[w.runner].state = "LIVE" /\ runner[w.runner].epoch = w.epoch
    /\ mapping[w.runner][w.mapping] = "LIVE"
    /\ w.team => TeamExposureIsLive(LaunchFacts(w))

\* currentFactsMatch, currentAttemptFactsMatch.
FactsMatch(w) ==
    /\ runner[w.runner].state = "LIVE" /\ runner[w.runner].epoch = w.epoch
    /\ runner[w.runner].policy = w.policy
    /\ mapping[w.runner][w.mapping] = "LIVE"
    /\ w.team => TeamExposureIsLive(LaunchFacts(w))

\* The launch's configuration, compared in the same transaction: without an
\* exposure the runner must be the member's own.
ConfigurationCurrent(w) == ~w.team => runner[w.runner].owner = w.by

CommitLaunch(c) ==
    /\ InWork(c, "LAUNCH") /\ HasNew(launch)
    /\ LET w == work[c].with IN
         /\ w.by \in active /\ FactsMatch(w) /\ ConfigurationCurrent(w)
         /\ launch' = [launch EXCEPT ![NewIn(launch)] =
              [state |-> "RECORDED", by |-> w.by, runner |-> w.runner, epoch |-> w.epoch,
               policy |-> w.policy, mapping |-> w.mapping, version |-> w.version, team |-> w.team]]
    /\ Commit(c)
    /\ UNCHANGED <<active, device, grants, sessions>>

\* AUTHORIZE_ATTEMPT of the run, with facts refreshed before the transaction.
ReadAttempt(c, l) ==
    /\ launch[l].state = "RECORDED"
    /\ Read(c, "ATTEMPT", [launch |-> l, facts |-> [launch[l] EXCEPT
         !.epoch = runner[launch[l].runner].epoch, !.policy = runner[launch[l].runner].policy]])

CommitAttempt(c) ==
    /\ InWork(c, "ATTEMPT")
    /\ LET l == work[c].with.launch IN
         /\ launch[l].state = "RECORDED" /\ FactsMatch(work[c].with.facts)
         /\ launch' = [launch EXCEPT ![l] = [work[c].with.facts EXCEPT !.state = "ISSUED"]]
    /\ Commit(c)
    /\ UNCHANGED <<active, device, grants, sessions>>

PermitStands(l) ==
    /\ FactsMatch(launch[l])
    /\ launch[l].by \in active /\ runner[launch[l].runner].owner \in active

\* CONSUME_DISPATCH_PERMIT, as far as the runner's facts decide it.
ConsumePermit(l) ==
    /\ launch[l].state = "ISSUED"
    /\ launch' = [launch EXCEPT ![l].state = IF PermitStands(l) THEN "CONSUMED" ELSE "REVOKED"]
    /\ Requested("ATTEMPT")
    /\ UNCHANGED <<active, device, grants, sessions>>

-------------------------------------------------------------------------------
Use(op) == op \in workload

Next ==
    \/ Use("TIME") /\ (Tick \/ \E q \in Pairings : ExpirePairing(q))
    \/ Use("RESTART") /\ Restart
    \/ \E c \in Clients : Abandon(c)
    \/ Use("PAIR") /\ \E c \in Clients : CommitPairing(c) \/ \E m \in Members : ReadPairing(c, m)
    \/ Use("PAIR") /\ \E q \in Pairings : ConfirmPairing(q)
    \/ Use("CONSUME") /\ \E c \in Clients :
         CommitConsumption(c) \/ \E q \in Pairings : ReadConsumption(c, q)
    \/ Use("MAP") /\ \E r \in Runners :
         RegisterMapping(r) \/ \E v \in Revisions : ReplaceMapping(r, v) \/ RevokeMapping(r, v)
    \/ Use("PROFILE") /\ \E r \in Runners : AdvertiseProfile(r)
    \/ Use("EXPOSE") /\
         \/ \E r \in Runners, v \in Revisions : AcknowledgeExposure(r, v)
         \/ \E a \in Acknowledgements : RevokeAcknowledgement(a)
         \/ \E c \in Clients : CommitExposure(c) \/ \E a \in Acknowledgements : ReadExposure(c, a)
         \/ \E e \in Exposures : RevokeExposure(e)
    \/ Use("POLICY") /\ \E r \in Runners, audience \in {"OWNER_ONLY", "TEAM"} :
         ReplacePolicy(r, audience)
    \/ Use("REVOKE") /\ \E r \in Runners : Revoke(r)
    \/ Use("ACCESS") /\
         \/ \E r \in Runners : ExchangeCredential(r)
         \/ \E t \in Tokens, at \in 0..(Horizon + SkewTicks) : SignProof(t, at)
         \/ \E p \in Proofs : AuthenticateAccess(p)
    \/ Use("HEARTBEAT") /\ \E t \in Tokens, observed \in SUBSET Revisions : Heartbeat(t, observed)
    \/ Use("LAUNCH") /\ \E c \in Clients :
         \/ \E m \in Members, r \in Runners, v, p \in Revisions : ReadLaunch(c, m, r, v, p)
         \/ CommitLaunch(c)
    \/ Use("ATTEMPT") /\ \E c \in Clients :
         CommitAttempt(c) \/ \E l \in Launches : ReadAttempt(c, l)
    \/ Use("ATTEMPT") /\ \E l \in Launches : ConsumePermit(l)

-------------------------------------------------------------------------------
\* One runner comes of one pairing, and none of a pairing that its member did
\* not confirm or was removed before: two keys that answer one confirmed pairing
\* at once do not both become runners (runner-registry.ts:713).
PairedOnce ==
    \A r, s \in Runners : runner[r].by # None =>
        /\ pairing[runner[r].by].state = "CONSUMED" /\ pairing[runner[r].by].of = runner[r].owner
        /\ r # s => runner[r].by # runner[s].by

\* A revoked runner, and so each runner of a removed member, has no mapping,
\* acknowledgement or exposure in force, also none that a command read before the
\* revocation and committed after it (runner-registry.ts:1371, 1677,
\* revocation.ts:219).
RevokedHoldsNothing ==
    /\ \A r \in Runners : runner[r].state = "LIVE" => runner[r].owner \in active
    /\ \A r \in Runners : runner[r].state = "REVOKED" =>
         /\ r \in changes
         /\ \A v \in Revisions : mapping[r][v] # "LIVE"
         /\ \A e \in Exposures :
              exposure[e].state = "LIVE" => exposure[e].facts.runner # r
         /\ \A a \in Acknowledgements :
              acknowledgement[a].state = "LIVE" => acknowledgement[a].facts.runner # r

\* A signed request proof is accepted once.  Its row may be deleted while its
\* time is still within the skew, when the runner's clock is ahead: then the
\* token it is signed for has expired (authentication.ts:14, 96, 110, 133).
ProofOnce == \A p \in Proofs : proof[p].state = "SIGNED" => proof[p].uses <= 1

\* What the owner withdraws stays withdrawn: an exposure that once could be
\* dispatched to and now cannot will not be again, whatever its owner does to the
\* policy, the mapping and the profile; only a new acknowledgement brings the
\* runner back (runner-registry.ts:1766, execution-authority.ts:2802).
StaysWithdrawn ==
    [][\A e \in Exposures : exposure[e].state # "NONE" /\ ~Eligible(e) => ~Eligible(e)']_vars

\* A permit that is consumed for a member who does not own the runner stands on
\* a team audience, a mapping and an acknowledged exposure in force at that
\* moment, however long ago the launch was resolved; and one for the owner's own
\* runner needs no exposure (execution-authority.ts:1265, persistence.ts:138).
ConsumedIsAllowed ==
    [][\A l \in Launches : launch[l].state = "ISSUED" /\ launch'[l].state = "CONSUMED" =>
         LET w == launch[l] IN
           /\ mapping[w.runner][w.mapping] = "LIVE"
           /\ w.by # runner[w.runner].owner =>
                /\ runner[w.runner].audience = "TEAM"
                /\ \E e \in Exposures : /\ exposure[e].state = "LIVE"
                                        /\ exposure[e].facts = LaunchFacts(w)
                                        /\ acknowledgement[exposure[e].by].state = "LIVE"]_vars
================================================================================
