--------------------------- MODULE MembershipProofs ---------------------------
(***************************************************************************)
(* Theorems about Membership.                                              *)
(***************************************************************************)
EXTENDS Membership, FiniteSetTheorems, TLAPS

-------------------------------------------------------------------------------
(* The rows and the commands of Identity, by their forms.                  *)

MemberRows == [status : {"NONE", "ACTIVE", "REVOKED"}, role : Roles, by : Invitations \cup {None}]
\* What a session, a passkey or a member may come from.
Origins == Challenges \cup Invitations \cup Sessions \cup RecoveryCodes \cup {None}
SessionRows == [state : {"NONE", "LIVE", "IDLE", "ENDED"}, kind : Kinds,
                of : Members \cup {None}, by : Origins]
PasskeyRows == [state : {"NONE", "LIVE", "REVOKED"}, of : Members \cup {None},
                by : Challenges \cup {None}]
ChallengeRows == [state : {"NONE", "OPEN", "SPENT"}, purpose : Purposes,
                  to : Members \cup Invitations \cup Passkeys \cup {None}]
InvitationRows == [state : {"NONE", "PENDING", "EXCHANGED", "ACCEPTED", "ENDED"},
                   by : Keys \cup {None}]
IdentityRows == [of : Members \cup {None}, live : BOOLEAN]
RecoveryRows == [generation : 0..MaxGeneration, unused : SUBSET Codes]
FamilyRows == [state : {"NONE", "PENDING", "APPROVED", "LIVE", "ENDED"}, of : Members \cup {None},
               generation : 0..(MaxRefreshes + 1), tokens : SUBSET (Nat \X Clients)]

Tables == {"member", "session", "passkey", "challenge", "invitation", "set"}
Rows == Tables \X (Members \cup Sessions \cup Passkeys \cup Challenges \cup Invitations)
Work(op, arguments) == [op : {op}, rows : SUBSET Rows, fresh : BOOLEAN, with : arguments]
Works ==
    {Idle}
      \cup Work("BOOTSTRAP", [challenge : Challenges])
      \cup Work("REGISTER", [session : Sessions, challenge : Challenges])
      \cup Work("AUTHENTICATE", [challenge : Challenges, passkey : Passkeys])
      \cup Work("ROTATE", [session : Sessions])
      \cup Work("ROLE", [session : Sessions, challenge : Challenges, passkey : Passkeys,
                         member : Members, role : Roles])
      \cup Work("REMOVE", [session : Sessions, member : Members])
      \cup Work("INVITE", [session : Sessions, key : Keys])
      \cup Work("ACCEPT", [invitation : Invitations, challenge : Challenges])
      \cup Work("ACCEPT_PROVIDER", [invitation : Invitations, identity : Identities])
      \cup Work("LINK", [session : Sessions, identity : Identities, new : BOOLEAN])
      \cup Work("REDEEM", [member : Members, code : RecoveryCodes])
      \cup Work("DEVICE", [family : Families, generation : 0..MaxRefreshes])

FormInv ==
    /\ member \in [Members -> MemberRows] /\ session \in [Sessions -> SessionRows]
    /\ passkey \in [Passkeys -> PasskeyRows] /\ challenge \in [Challenges -> ChallengeRows]
    /\ invitation \in [Invitations -> InvitationRows]
    /\ identity \in [Identities -> IdentityRows] /\ recovery \in [Members -> RecoveryRows]
    /\ hostCode \subseteq Members /\ family \in [Families -> FamilyRows]
    /\ outbox \in [Members -> {"NONE", "PENDING", "DISPATCHED"}]
    /\ receipts \subseteq Keys /\ work \in [Clients -> Works]
    /\ \A s \in Sessions : session[s].state # "NONE" => session[s].of \in Members
    /\ \A p \in Passkeys : passkey[p].state # "NONE" => passkey[p].of \in Members
    /\ \A f \in Families : family[f].state \in {"APPROVED", "LIVE"} => family[f].of \in Members

-------------------------------------------------------------------------------
(* The inductive invariant of Identity.                                    *)

\* Before there is an owner there is nothing to join by.
OwnerFirst ==
    /\ \A i \in Invitations : invitation[i].state # "NONE" => Bootstrapped
    /\ OwnerRemains

\* A device family is of an active member while it lives, and has no token otherwise;
\* whoever exchanges or refreshes has read its member's row.
FamiliesInv ==
    /\ \A f \in Families : IF family[f].state = "LIVE" THEN Active(family[f].of)
                           ELSE family[f].tokens = {}
    /\ \A c \in Clients : InWork(c, "DEVICE") =>
         LET f == work[c].with.family IN
            /\ family[f].state \in {"APPROVED", "LIVE", "ENDED"}
            /\ family[f].of \in Members /\ M(family[f].of) \in work[c].rows
            /\ work[c].fresh => Active(family[f].of)
    /\ \A f \in Families : \A t \in family[f].tokens : t[1] < family[f].generation

\* What b can buy has been bought.
Spent(b) ==
    /\ b \in Challenges => challenge[b].state = "SPENT"
    /\ b \in Invitations => invitation[b].state = "ACCEPTED"
    /\ b \in Sessions => session[b].state = "ENDED"
    /\ b \in RecoveryCodes =>
         LET set == recovery[b[1]] IN
            b[2] < set.generation \/ (b[2] = set.generation /\ b[3] \notin set.unused)

\* Whatever came from something has spent it.
SpentInv ==
    /\ \A m \in Members : Spent(member[m].by)
    /\ \A s \in Sessions : Spent(session[s].by)
    /\ \A p \in Passkeys : Spent(passkey[p].by)
    /\ \A i \in Invitations : invitation[i].by = None \/ invitation[i].by \in receipts
    /\ \A c \in Clients : InWork(c, "REDEEM") =>
         LET w == work[c].with IN
            /\ w.code[1] = w.member /\ <<"set", w.member>> \in work[c].rows
            /\ w.code[2] <= recovery[w.member].generation
            /\ work[c].fresh => w.code[2] = recovery[w.member].generation

IdentityInv ==
    /\ FormInv /\ OwnerFirst /\ FamiliesInv /\ SpentInv
    /\ RemovedHoldsNothing /\ UsedOnce /\ RefreshedOnce

-------------------------------------------------------------------------------
(* The rows and the commands of the registry.                              *)

PairingRows == [state : {"NONE", "PENDING", "CONFIRMED", "CONSUMED", "ENDED"},
                of : Members \cup {None}]
RunnerRows == [state : {"NONE", "LIVE", "REVOKED"}, owner : Members \cup {None},
               by : Pairings \cup {None}, epoch : {1, 2}, policy : R!Policies,
               audience : {"OWNER_ONLY", "TEAM"}, credential : BOOLEAN]
AcknowledgementRows == [state : {"NONE", "LIVE", "REVOKED"}, facts : R!Facts \cup {None}]
ExposureRows == [state : {"NONE", "LIVE", "REVOKED"}, facts : R!Facts \cup {None},
                 by : Acknowledgements \cup {None}]
TokenRows == [state : {"NONE", "GONE"}]
               \cup [state : {"HELD", "CONNECTED"}, runner : Runners, epoch : {1, 2}, expires : Nat]
ProofRows == [state : {"NONE"}]
               \cup [state : {"SIGNED"}, for : Tokens, issued : Nat, uses : Nat, row : Nat \cup {None}]
LaunchRows == [state : {"RECORDED", "ISSUED", "CONSUMED", "REVOKED"}, by : Members,
               runner : Runners, epoch : {1, 2}, policy : R!Policies, mapping : R!Revisions,
               version : R!Revisions, team : BOOLEAN]
LaunchRequests == [by : Members, runner : Runners, epoch : {1, 2}, policy : R!Policies,
                   mapping : R!Revisions, version : R!Revisions, team : BOOLEAN]
Commands ==
    [op : {"IDLE"}]
      \cup [op : {"PAIR"}, with : [member : Members]]
      \cup [op : {"CONSUME"}, with : [pairing : Pairings]]
      \cup [op : {"EXPOSE"}, with : [acknowledgement : Acknowledgements]]
      \cup [op : {"LAUNCH"}, with : LaunchRequests]
      \cup [op : {"ATTEMPT"}, with : [launch : Launches, facts : LaunchRows]]

RegistryForm ==
    /\ clock \in 0..Horizon /\ pairing \in [Pairings -> PairingRows]
    /\ runner \in [Runners -> RunnerRows]
    /\ mapping \in [Runners -> [R!Revisions -> {"NONE", "LIVE", "REVOKED"}]]
    /\ profile \in [Runners -> 0..MaxRevision]
    /\ acknowledgement \in [Acknowledgements -> AcknowledgementRows]
    /\ exposure \in [Exposures -> ExposureRows] /\ changes \subseteq Runners
    /\ lease \in [Runners -> [beat : {"NEVER", "RECENT", "OLD"}, observed : SUBSET R!Revisions]]
    /\ token \in [Tokens -> TokenRows] /\ proof \in [Proofs -> ProofRows]
    /\ launch \in [Launches -> [state : {"NONE"}] \cup LaunchRows]
    /\ command \in [Clients -> Commands]

-------------------------------------------------------------------------------
(* The inductive invariant of the registry.                                *)

\* A runner has an owner while it lives, whose pairing it came of, and a credential.
RunnersInv ==
    /\ \A q \in Pairings : pairing[q].state # "NONE" => pairing[q].of \in Members
    /\ \A r \in Runners :
         /\ runner[r].state # "NONE" => runner[r].owner \in Members
         /\ runner[r].state = "NONE" => runner[r].by = None
         /\ runner[r].epoch = IF runner[r].state = "REVOKED" THEN 2 ELSE 1
         /\ runner[r].credential = (runner[r].state = "LIVE")
         /\ \A v \in R!Revisions : mapping[r][v] # "NONE" => mapping[r][1] # "NONE"
         /\ \A v, w \in R!Revisions : mapping[r][v] = "LIVE" /\ w > v => mapping[r][w] = "NONE"
         /\ \A v \in lease[r].observed : mapping[r][v] # "NONE"
    /\ R!PairedOnce

\* Facts that were acknowledged stood once, and are not ahead of what stands; those of
\* the policy in force are exposed to a team.
Stood(f) ==
    /\ f \in R!Facts
    /\ runner[f.runner].state # "NONE" /\ mapping[f.runner][f.mapping] # "NONE"
    /\ f.version <= profile[f.runner] /\ f.policy <= runner[f.runner].policy
FactsInv ==
    /\ \A a \in Acknowledgements :
         acknowledgement[a].state # "NONE" => Stood(acknowledgement[a].facts)
    /\ \A e \in Exposures : exposure[e].state # "NONE" =>
         LET a == exposure[e].by
             f == exposure[e].facts
         IN  /\ a \in Acknowledgements /\ acknowledgement[a].state # "NONE"
             /\ f = acknowledgement[a].facts
             /\ f.policy = runner[f.runner].policy => runner[f.runner].audience = "TEAM"
    /\ \A c \in Clients : command[c].op = "EXPOSE" =>
         acknowledgement[command[c].with.acknowledgement].state # "NONE"

\* A token lives two ticks from the clock, and the row of a proof outlives its token.
ProofsInv ==
    /\ \A t \in Tokens : token[t].state \in {"HELD", "CONNECTED"} =>
         token[t].expires <= clock + R!AccessTicks
    /\ \A j \in Proofs : proof[j].state = "SIGNED" =>
         /\ token[proof[j].for].state # "NONE" /\ proof[j].uses \in {0, 1}
         /\ proof[j].uses = 1 =>
              /\ proof[j].row \in Nat
              /\ token[proof[j].for].state \in {"HELD", "CONNECTED"} =>
                   token[proof[j].for].expires <= proof[j].row

\* A launch without an exposure is of the runner's owner.
OwnOrTeam(w) ==
    runner[w.runner].state # "NONE" /\ (w.by = runner[w.runner].owner \/ w.team)
LaunchesInv ==
    /\ \A l \in Launches : launch[l].state # "NONE" => OwnOrTeam(launch[l])
    /\ \A c \in Clients : command[c].op = "ATTEMPT" =>
         LET w == command[c].with IN
            /\ launch[w.launch].state # "NONE"
            /\ OwnOrTeam(w.facts)

RegistryInv ==
    /\ RegistryForm /\ RunnersInv /\ FactsInv /\ ProofsInv /\ LaunchesInv
    /\ R!RevokedHoldsNothing

Inv == IdentityInv /\ RegistryInv

-------------------------------------------------------------------------------
(* What the forms say of rows and commands.                                *)

\* A command in work that turns stale is otherwise as it was.
LEMMA Stale ==
    ASSUME NEW op, NEW arguments, NEW w \in Work(op, arguments)
    PROVE  LET u == [w EXCEPT !.fresh = FALSE] IN
              /\ u \in Work(op, arguments)
              /\ u.op = w.op /\ u.rows = w.rows /\ u.with = w.with /\ u.fresh = FALSE
BY DEF Work

\* What a write makes of a command in work.
LEMMA AfterWrite ==
    ASSUME NEW w \in Works, NEW W
    PROVE  /\ After(w, W) \in Works
           /\ After(w, W).op = w.op
           /\ w # Idle => /\ After(w, W).rows = w.rows /\ After(w, W).with = w.with
                          /\ After(w, W).fresh => w.fresh /\ w.rows \cap W = {}
<1>1. CASE w = Idle
  BY <1>1 DEF After
<1>2. CASE w # Idle
  <2>1. [w EXCEPT !.fresh = FALSE] \in Works
    BY <1>2, Stale DEF Works
  <2>2. LET u == [w EXCEPT !.fresh = FALSE] IN
           u.op = w.op /\ u.rows = w.rows /\ u.with = w.with /\ u.fresh = FALSE
    BY <1>2, Stale DEF Works
  <2> QED BY <1>2, <2>1, <2>2 DEF After
<1> QED BY <1>1, <1>2

\* What a command in work brings with it.
LEMMA InWorkForms ==
    ASSUME NEW w \in Works
    PROVE  /\ w.op = "BOOTSTRAP" => w.with.challenge \in Challenges
           /\ w.op = "REGISTER" => w.with.session \in Sessions /\ w.with.challenge \in Challenges
           /\ w.op = "AUTHENTICATE" => w.with.challenge \in Challenges /\ w.with.passkey \in Passkeys
           /\ w.op = "ROTATE" => w.with.session \in Sessions
           /\ w.op = "ROLE" => /\ w.with.session \in Sessions /\ w.with.challenge \in Challenges
                               /\ w.with.passkey \in Passkeys /\ w.with.member \in Members
                               /\ w.with.role \in Roles
           /\ w.op = "REMOVE" => w.with.session \in Sessions /\ w.with.member \in Members
           /\ w.op = "INVITE" => w.with.session \in Sessions /\ w.with.key \in Keys
           /\ w.op = "ACCEPT" => w.with.invitation \in Invitations /\ w.with.challenge \in Challenges
           /\ w.op = "ACCEPT_PROVIDER" =>
                w.with.invitation \in Invitations /\ w.with.identity \in Identities
           /\ w.op = "LINK" => /\ w.with.session \in Sessions /\ w.with.identity \in Identities
                               /\ w.with.new \in BOOLEAN
           /\ w.op = "REDEEM" => w.with.member \in Members /\ w.with.code \in RecoveryCodes
           /\ w.op = "DEVICE" => w.with.family \in Families /\ w.with.generation \in 0..MaxRefreshes
BY DEF Works, Work, Idle

\* A row that a table has room for.
LEMMA NewInTable ==
    ASSUME NEW table, HasNew(table)
    PROVE  NewIn(table) \in DOMAIN table /\ table[NewIn(table)].state = "NONE"
BY DEF HasNew, NewIn

-------------------------------------------------------------------------------
(* The steps of Identity, and who writes which table.                      *)

\* A step that removes member m.
Removes(m) ==
    \/ \E c \in Clients : InWork(c, "REMOVE") /\ work[c].with.member = m /\ CommitRemoval(c)
    \/ \E s \in Sessions : RemoveAtOnce(s, m)

\* A command goes into work with what it read.
ReadsNow(w) ==
    /\ w \in Works
    /\ w.op = "DEVICE" =>
         /\ family[w.with.family].state \in {"APPROVED", "LIVE"}
         /\ M(family[w.with.family].of) \in w.rows /\ Active(family[w.with.family].of)
    /\ w.op = "REDEEM" =>
         /\ w.with.code[1] = w.with.member /\ <<"set", w.with.member>> \in w.rows
         /\ w.with.code[2] = recovery[w.with.member].generation
Reads ==
    /\ \E c \in Clients : \E w \in Works : ReadsNow(w) /\ work' = [work EXCEPT ![c] = w]
    /\ UNCHANGED rowVars

\* What a step may do to the members.
WritesMember ==
    \/ \E c \in Clients, m \in Members :
         CommitBootstrap(c, m) \/ CommitAcceptance(c, m) \/ CommitProviderAcceptance(c, m)
    \/ \E c \in Clients : CommitRoleChange(c)
    \/ \E m \in Members : Removes(m)

WritesSession ==
    \/ Lapse
    \/ \E c \in Clients, m \in Members :
         CommitBootstrap(c, m) \/ CommitAcceptance(c, m) \/ CommitProviderAcceptance(c, m)
    \/ \E c \in Clients : \/ CommitRegistration(c) \/ CommitAuthentication(c)
                          \/ CommitRotation(c) \/ CommitRedemption(c)
    \/ \E m \in Members : RedeemHostRecovery(m) \/ Removes(m)

WritesPasskey ==
    \/ \E c \in Clients, m \in Members : CommitBootstrap(c, m) \/ CommitAcceptance(c, m)
    \/ \E c \in Clients : CommitRegistration(c)
    \/ \E s \in Sessions, p \in Passkeys : RevokePasskey(s, p)
    \/ \E m \in Members : Removes(m)

WritesChallenge ==
    \/ Lapse
    \/ \E a \in Members \cup Invitations \cup {None} : BeginPasskeyRegistration(a)
    \/ \E p \in Passkeys \cup {None} : BeginPasskeyAuthentication(p)
    \/ \E s \in Sessions : BeginMemberRoleChange(s)
    \/ \E c \in Clients, m \in Members : CommitBootstrap(c, m) \/ CommitAcceptance(c, m)
    \/ \E c \in Clients : CommitRegistration(c) \/ CommitAuthentication(c) \/ CommitRoleChange(c)

WritesInvitation ==
    \/ Lapse
    \/ \E c \in Clients : CommitInvite(c)
    \/ \E i \in Invitations : ExchangeInvitation(i) \/ \E s \in Sessions : RevokeInvitation(s, i)
    \/ \E c \in Clients, m \in Members : CommitAcceptance(c, m) \/ CommitProviderAcceptance(c, m)

WritesIdentity ==
    \/ \E c \in Clients, m \in Members : CommitProviderAcceptance(c, m)
    \/ \E c \in Clients : CommitLink(c)
    \/ \E m \in Members : Removes(m)

WritesRecovery ==
    \/ \E s \in Sessions : GenerateRecoveryCodes(s)
    \/ \E c \in Clients : CommitRedemption(c)

WritesFamily ==
    \/ Lapse
    \/ \E f \in Families : BeginDevice(f) \/ ReplayRefresh(f) \/ \E s \in Sessions : ApproveDevice(s, f)
    \/ \E c \in Clients : CommitExchange(c) \/ CommitRefresh(c)
    \/ \E m \in Members : Removes(m)

\* The steps that write no more than one of the small tables.
WritesOther ==
    \/ \E m \in Members : DispatchRemoval(m) \/ GenerateHostRecovery(m)
    \/ \E c \in Clients : Abandon(c)

IdentityStep ==
    \/ Reads \/ UNCHANGED <<rowVars, work>>
    \/ WritesMember \/ WritesSession \/ WritesPasskey \/ WritesChallenge \/ WritesInvitation
    \/ WritesIdentity \/ WritesRecovery \/ WritesFamily \/ WritesOther


\* A command that is read goes into work in its form.
LEMMA ReadIsReads ==
    ASSUME FormInv, NEW c \in Clients, NEW op, NEW rows \in SUBSET Rows, NEW arguments,
           Read(c, op, rows, arguments),
           ReadsNow([op |-> op, rows |-> rows, fresh |-> TRUE, with |-> arguments])
    PROVE  Reads
BY DEF Read, Reads, ReadsNow

\* A session that stands is of a member, and its rows are rows.
LEMMA RowsAreRows ==
    /\ \A m \in Members : M(m) \in Rows /\ <<"set", m>> \in Rows
    /\ \A s \in Sessions : S(s) \in Rows
    /\ \A p \in Passkeys : P(p) \in Rows
    /\ \A x \in Challenges : X(x) \in Rows
    /\ \A i \in Invitations : I(i) \in Rows
BY DEF M, S, P, X, I, Rows, Tables

LEMMA OwnRowsAreRows ==
    ASSUME FormInv, NEW s \in Sessions, session[s].state # "NONE"
    PROVE  OwnRows(s) \subseteq Rows
BY RowsAreRows DEF FormInv, OwnRows

LEMMA ReadSteps ==
    ASSUME FormInv, NEW c \in Clients,
           \/ \E s \in Sessions, x \in Challenges : ReadRegistration(c, s, x)
           \/ \E x \in Challenges : ReadBootstrap(c, x)
           \/ \E x \in Challenges, p \in Passkeys : ReadAuthentication(c, x, p)
           \/ \E s \in Sessions : ReadRotation(c, s)
           \/ \E s \in Sessions, x \in Challenges, p \in Passkeys, m \in Members, role \in Roles :
                ReadRoleChange(c, s, x, p, m, role)
           \/ \E s \in Sessions, m \in Members : ReadRemoval(c, s, m)
           \/ \E s \in Sessions, k \in Keys : ReadInvite(c, s, k)
           \/ \E i \in Invitations, x \in Challenges : ReadAcceptance(c, i, x)
           \/ \E i \in Invitations, x \in Identities : ReadProviderAcceptance(c, i, x)
           \/ \E s \in Sessions, x \in Identities : ReadLink(c, s, x)
           \/ \E m \in Members, k \in Codes : ReadRedemption(c, m, k)
           \/ \E f \in Families : ReadExchange(c, f) \/ ReadRefresh(c, f)
    PROVE  Reads
<1> DEFINE W(op, rows, arguments) == [op |-> op, rows |-> rows, fresh |-> TRUE, with |-> arguments]
<1>1. ASSUME NEW s \in Sessions, NEW x \in Challenges, ReadRegistration(c, s, x) PROVE Reads
  <2>1. session[s].state # "NONE"
    BY <1>1 DEF ReadRegistration, Valid
  <2>2. OwnRows(s) \cup {X(x)} \in SUBSET Rows
    BY <2>1, OwnRowsAreRows, RowsAreRows
  <2>3. ReadsNow(W("REGISTER", OwnRows(s) \cup {X(x)}, [session |-> s, challenge |-> x]))
    BY <2>2 DEF ReadsNow, Works, Work
  <2> QED BY <1>1, <2>2, <2>3, ReadIsReads DEF ReadRegistration
<1>2. ASSUME NEW x \in Challenges, ReadBootstrap(c, x) PROVE Reads
  <2>2. {X(x)} \in SUBSET Rows
    BY RowsAreRows
  <2>3. ReadsNow(W("BOOTSTRAP", {X(x)}, [challenge |-> x]))
    BY <2>2 DEF ReadsNow, Works, Work
  <2> QED BY <1>2, <2>2, <2>3, ReadIsReads DEF ReadBootstrap
<1>3. ASSUME NEW x \in Challenges, NEW p \in Passkeys, ReadAuthentication(c, x, p) PROVE Reads
  <2> DEFINE rows == {X(x), P(p), M(passkey[p].of)}
  <2>1. passkey[p].of \in Members
    BY <1>3 DEF ReadAuthentication, FormInv
  <2>2. rows \in SUBSET Rows
    BY <2>1, RowsAreRows
  <2>3. ReadsNow(W("AUTHENTICATE", rows, [challenge |-> x, passkey |-> p]))
    BY <2>2 DEF ReadsNow, Works, Work
  <2> QED BY <1>3, <2>2, <2>3, ReadIsReads DEF ReadAuthentication
<1>4. ASSUME NEW s \in Sessions, ReadRotation(c, s) PROVE Reads
  <2>3. ReadsNow(W("ROTATE", {}, [session |-> s]))
    BY DEF ReadsNow, Works, Work
  <2> QED BY <1>4, <2>3, ReadIsReads DEF ReadRotation
<1>5. ASSUME NEW s \in Sessions, NEW x \in Challenges, NEW p \in Passkeys, NEW m \in Members,
             NEW role \in Roles, ReadRoleChange(c, s, x, p, m, role)
      PROVE  Reads
  <2> DEFINE rows == OwnRows(s) \cup {X(x), P(p), M(m)}
             with == [session |-> s, challenge |-> x, passkey |-> p, member |-> m, role |-> role]
  <2>1. session[s].state # "NONE"
    BY <1>5 DEF ReadRoleChange, ValidOwner, Valid
  <2>2. rows \in SUBSET Rows
    BY <2>1, OwnRowsAreRows, RowsAreRows
  <2>3. ReadsNow(W("ROLE", rows, with))
    BY <2>2 DEF ReadsNow, Works, Work
  <2> QED BY <1>5, <2>2, <2>3, ReadIsReads DEF ReadRoleChange
<1>6. ASSUME NEW s \in Sessions, NEW m \in Members, ReadRemoval(c, s, m) PROVE Reads
  <2> DEFINE rows == OwnRows(s) \cup {M(m)}
  <2>1. session[s].state # "NONE"
    BY <1>6 DEF ReadRemoval, ValidOwner, Valid
  <2>2. rows \in SUBSET Rows
    BY <2>1, OwnRowsAreRows, RowsAreRows
  <2>3. ReadsNow(W("REMOVE", rows, [session |-> s, member |-> m]))
    BY <2>2 DEF ReadsNow, Works, Work
  <2> QED BY <1>6, <2>2, <2>3, ReadIsReads DEF ReadRemoval
<1>7. ASSUME NEW s \in Sessions, NEW k \in Keys, ReadInvite(c, s, k) PROVE Reads
  <2>1. session[s].state # "NONE"
    BY <1>7 DEF ReadInvite, ValidOwner, Valid
  <2>2. OwnRows(s) \in SUBSET Rows
    BY <2>1, OwnRowsAreRows
  <2>3. ReadsNow(W("INVITE", OwnRows(s), [session |-> s, key |-> k]))
    BY <2>2 DEF ReadsNow, Works, Work
  <2> QED BY <1>7, <2>2, <2>3, ReadIsReads DEF ReadInvite
<1>8. ASSUME NEW i \in Invitations, NEW x \in Challenges, ReadAcceptance(c, i, x) PROVE Reads
  <2>2. {I(i), X(x)} \in SUBSET Rows
    BY RowsAreRows
  <2>3. ReadsNow(W("ACCEPT", {I(i), X(x)}, [invitation |-> i, challenge |-> x]))
    BY <2>2 DEF ReadsNow, Works, Work
  <2> QED BY <1>8, <2>2, <2>3, ReadIsReads DEF ReadAcceptance
<1>9. ASSUME NEW i \in Invitations, NEW x \in Identities, ReadProviderAcceptance(c, i, x)
      PROVE  Reads
  <2>2. {I(i)} \in SUBSET Rows
    BY RowsAreRows
  <2>3. ReadsNow(W("ACCEPT_PROVIDER", {I(i)}, [invitation |-> i, identity |-> x]))
    BY <2>2 DEF ReadsNow, Works, Work
  <2> QED BY <1>9, <2>2, <2>3, ReadIsReads DEF ReadProviderAcceptance
<1>10. ASSUME NEW s \in Sessions, NEW x \in Identities, ReadLink(c, s, x) PROVE Reads
  <2> DEFINE with == [session |-> s, identity |-> x, new |-> ~identity[x].live]
  <2>1. session[s].state # "NONE"
    BY <1>10 DEF ReadLink, Valid
  <2>2. OwnRows(s) \in SUBSET Rows
    BY <2>1, OwnRowsAreRows
  <2>3. with \in [session : Sessions, identity : Identities, new : BOOLEAN]
    OBVIOUS
  <2>4. ReadsNow(W("LINK", OwnRows(s), with))
    <3> HIDE DEF with
    <3> QED BY <2>2, <2>3 DEF ReadsNow, Works, Work
  <2> QED BY <1>10, <2>2, <2>4, ReadIsReads DEF ReadLink
<1>11. ASSUME NEW m \in Members, NEW k \in Codes, ReadRedemption(c, m, k) PROVE Reads
  <2> DEFINE rows == {M(m), <<"set", m>>}
             code == <<m, recovery[m].generation, k>>
  <2>1. rows \in SUBSET Rows
    BY RowsAreRows
  <2>2. code \in RecoveryCodes /\ code[1] = m /\ code[2] = recovery[m].generation
    BY DEF FormInv, RecoveryRows, RecoveryCodes
  <2>3. ReadsNow(W("REDEEM", rows, [member |-> m, code |-> code]))
    <3>1. <<"set", m>> \in rows
      OBVIOUS
    <3> HIDE DEF code, rows
    <3> QED BY <2>1, <2>2, <3>1 DEF ReadsNow, Works, Work
  <2> QED BY <1>11, <2>1, <2>3, ReadIsReads DEF ReadRedemption
<1>12. ASSUME NEW f \in Families, ReadExchange(c, f) \/ ReadRefresh(c, f) PROVE Reads
  <2>1. family[f].state \in {"APPROVED", "LIVE"} /\ Active(family[f].of)
    BY <1>12 DEF ReadExchange, ReadRefresh
  <2>2. {M(family[f].of)} \in SUBSET Rows
    BY <2>1, RowsAreRows DEF FormInv
  <2>3. ASSUME NEW g \in 0..MaxRefreshes
        PROVE  ReadsNow(W("DEVICE", {M(family[f].of)}, [family |-> f, generation |-> g]))
    BY <2>1, <2>2 DEF ReadsNow, Works, Work
  <2>4. CASE ReadExchange(c, f)
    <3>1. 0 \in 0..MaxRefreshes
      BY IdentityAssumption
    <3> QED BY <2>4, <2>2, <2>3, <3>1, ReadIsReads DEF ReadExchange
  <2>5. CASE ReadRefresh(c, f)
    <3>1. family[f].generation \in 0..MaxRefreshes
      BY <2>5, IdentityAssumption DEF ReadRefresh, FormInv, FamilyRows
    <3> QED BY <2>5, <2>2, <2>3, <3>1, ReadIsReads DEF ReadRefresh
  <2> QED BY <1>12, <2>4, <2>5
<1> QED BY <1>1, <1>2, <1>3, <1>4, <1>5, <1>6, <1>7, <1>8, <1>9, <1>10, <1>11, <1>12

\* Every step of Membership is one of Identity's, or none of its business.
LEMMA StepsOfIdentity ==
    ASSUME FormInv, [MembershipNext]_membershipVars
    PROVE  IdentityStep
<1>1. CASE Next
  BY <1>1, ReadSteps DEF Next, IdentityStep, WritesMember, WritesSession, WritesPasskey,
     WritesChallenge, WritesInvitation, WritesIdentity, WritesRecovery, WritesFamily, WritesOther
<1>2. CASE \E m \in Members : RemoveMember(m)
  BY <1>2 DEF RemoveMember, Removes, IdentityStep, WritesMember
<1>3. CASE UNCHANGED <<rowVars, work>>
  BY <1>3 DEF IdentityStep
<1> QED BY <1>1, <1>2, <1>3 DEF MembershipNext, membershipVars, vars

\* Who writes a table: every other step leaves it.
Written ==
    /\ member' = member \/ WritesMember
    /\ session' = session \/ WritesSession
    /\ passkey' = passkey \/ WritesPasskey
    /\ challenge' = challenge \/ WritesChallenge
    /\ invitation' = invitation \/ WritesInvitation
    /\ identity' = identity \/ WritesIdentity
    /\ recovery' = recovery \/ WritesRecovery
    /\ family' = family \/ WritesFamily

LEMMA Writers ==
    ASSUME IdentityStep
    PROVE  Written
<1>1. CASE Reads \/ UNCHANGED <<rowVars, work>>
  BY <1>1 DEF Reads, rowVars, Written
<1>2. ASSUME Lapse
      PROVE  Written
  <2>1. UNCHANGED <<member, passkey, identity, recovery>>
    BY <1>2 DEF Lapse
  <2>2. WritesSession /\ WritesChallenge /\ WritesInvitation /\ WritesFamily
    BY <1>2 DEF WritesSession, WritesChallenge, WritesInvitation, WritesFamily
  <2> QED BY <2>1, <2>2 DEF Written
<1>3. ASSUME NEW a \in Members \cup Invitations \cup {None}, BeginPasskeyRegistration(a)
      PROVE  Written
  <2>1. UNCHANGED <<member, session, passkey, invitation, identity, recovery, family>>
    BY <1>3 DEF BeginPasskeyRegistration, NewChallenge
  <2>2. WritesChallenge
    BY <1>3 DEF WritesChallenge
  <2> QED BY <2>1, <2>2 DEF Written
<1>4. ASSUME NEW p \in Passkeys \cup {None}, BeginPasskeyAuthentication(p)
      PROVE  Written
  <2>1. UNCHANGED <<member, session, passkey, invitation, identity, recovery, family>>
    BY <1>4 DEF BeginPasskeyAuthentication, NewChallenge
  <2>2. WritesChallenge
    BY <1>4 DEF WritesChallenge
  <2> QED BY <2>1, <2>2 DEF Written
<1>5. ASSUME NEW s \in Sessions, BeginMemberRoleChange(s)
      PROVE  Written
  <2>1. UNCHANGED <<member, session, passkey, invitation, identity, recovery, family>>
    BY <1>5 DEF BeginMemberRoleChange, NewChallenge
  <2>2. WritesChallenge
    BY <1>5 DEF WritesChallenge
  <2> QED BY <2>1, <2>2 DEF Written
<1>6. ASSUME NEW c \in Clients, NEW m \in Members, CommitBootstrap(c, m)
      PROVE  Written
  <2>1. UNCHANGED <<invitation, identity, recovery, family>>
    BY <1>6 DEF CommitBootstrap
  <2>2. WritesMember /\ WritesSession /\ WritesPasskey /\ WritesChallenge
    BY <1>6 DEF WritesMember, WritesSession, WritesPasskey, WritesChallenge
  <2> QED BY <2>1, <2>2 DEF Written
<1>7. ASSUME NEW c \in Clients, CommitRegistration(c)
      PROVE  Written
  <2>1. UNCHANGED <<member, invitation, identity, recovery, family>>
    BY <1>7 DEF CommitRegistration
  <2>2. WritesSession /\ WritesPasskey /\ WritesChallenge
    BY <1>7 DEF WritesSession, WritesPasskey, WritesChallenge
  <2> QED BY <2>1, <2>2 DEF Written
<1>8. ASSUME NEW c \in Clients, CommitAuthentication(c)
      PROVE  Written
  <2>1. UNCHANGED <<member, passkey, invitation, identity, recovery, family>>
    BY <1>8 DEF CommitAuthentication
  <2>2. WritesSession /\ WritesChallenge
    BY <1>8 DEF WritesSession, WritesChallenge
  <2> QED BY <2>1, <2>2 DEF Written
<1>9. ASSUME NEW c \in Clients, CommitRotation(c)
      PROVE  Written
  <2>1. UNCHANGED <<member, passkey, challenge, invitation, identity, recovery, family>>
    BY <1>9 DEF CommitRotation
  <2>2. WritesSession
    BY <1>9 DEF WritesSession
  <2> QED BY <2>1, <2>2 DEF Written
<1>10. ASSUME NEW s \in Sessions, NEW p \in Passkeys, RevokePasskey(s, p)
      PROVE  Written
  <2>1. UNCHANGED <<member, session, challenge, invitation, identity, recovery, family>>
    BY <1>10 DEF RevokePasskey
  <2>2. WritesPasskey
    BY <1>10 DEF WritesPasskey
  <2> QED BY <2>1, <2>2 DEF Written
<1>11. ASSUME NEW c \in Clients, CommitRoleChange(c)
      PROVE  Written
  <2>1. UNCHANGED <<session, passkey, invitation, identity, recovery, family>>
    BY <1>11 DEF CommitRoleChange
  <2>2. WritesMember /\ WritesChallenge
    BY <1>11 DEF WritesMember, WritesChallenge
  <2> QED BY <2>1, <2>2 DEF Written
<1>12. ASSUME NEW m \in Members, Removes(m)
      PROVE  Written
  <2>1. UNCHANGED <<challenge, invitation, recovery>>
    BY <1>12 DEF Removes, CommitRemoval, RemoveAtOnce
  <2>2. WritesMember /\ WritesSession /\ WritesPasskey /\ WritesIdentity /\ WritesFamily
    BY <1>12 DEF WritesMember, WritesSession, WritesPasskey, WritesIdentity, WritesFamily
  <2> QED BY <2>1, <2>2 DEF Written
<1>13. ASSUME NEW m \in Members, DispatchRemoval(m)
      PROVE  Written
  <2>1. UNCHANGED <<member, session, passkey, challenge, invitation, identity, recovery, family>>
    BY <1>13 DEF DispatchRemoval
  <2> QED BY <2>1 DEF Written
<1>14. ASSUME NEW c \in Clients, CommitInvite(c)
      PROVE  Written
  <2>1. UNCHANGED <<member, session, passkey, challenge, identity, recovery, family>>
    BY <1>14 DEF CommitInvite
  <2>2. WritesInvitation
    BY <1>14 DEF WritesInvitation
  <2> QED BY <2>1, <2>2 DEF Written
<1>15. ASSUME NEW i \in Invitations, ExchangeInvitation(i)
      PROVE  Written
  <2>1. UNCHANGED <<member, session, passkey, challenge, identity, recovery, family>>
    BY <1>15 DEF ExchangeInvitation
  <2>2. WritesInvitation
    BY <1>15 DEF WritesInvitation
  <2> QED BY <2>1, <2>2 DEF Written
<1>16. ASSUME NEW s \in Sessions, NEW i \in Invitations, RevokeInvitation(s, i)
      PROVE  Written
  <2>1. UNCHANGED <<member, session, passkey, challenge, identity, recovery, family>>
    BY <1>16 DEF RevokeInvitation
  <2>2. WritesInvitation
    BY <1>16 DEF WritesInvitation
  <2> QED BY <2>1, <2>2 DEF Written
<1>17. ASSUME NEW c \in Clients, NEW m \in Members, CommitAcceptance(c, m)
      PROVE  Written
  <2>1. UNCHANGED <<identity, recovery, family>>
    BY <1>17 DEF CommitAcceptance
  <2>2. WritesMember /\ WritesSession /\ WritesPasskey /\ WritesChallenge /\ WritesInvitation
    BY <1>17 DEF WritesMember, WritesSession, WritesPasskey, WritesChallenge, WritesInvitation
  <2> QED BY <2>1, <2>2 DEF Written
<1>18. ASSUME NEW c \in Clients, NEW m \in Members, CommitProviderAcceptance(c, m)
      PROVE  Written
  <2>1. UNCHANGED <<passkey, challenge, recovery, family>>
    BY <1>18 DEF CommitProviderAcceptance
  <2>2. WritesMember /\ WritesSession /\ WritesInvitation /\ WritesIdentity
    BY <1>18 DEF WritesMember, WritesSession, WritesInvitation, WritesIdentity
  <2> QED BY <2>1, <2>2 DEF Written
<1>19. ASSUME NEW c \in Clients, CommitLink(c)
      PROVE  Written
  <2>1. UNCHANGED <<member, session, passkey, challenge, invitation, recovery, family>>
    BY <1>19 DEF CommitLink
  <2>2. WritesIdentity
    BY <1>19 DEF WritesIdentity
  <2> QED BY <2>1, <2>2 DEF Written
<1>20. ASSUME NEW s \in Sessions, GenerateRecoveryCodes(s)
      PROVE  Written
  <2>1. UNCHANGED <<member, session, passkey, challenge, invitation, identity, family>>
    BY <1>20 DEF GenerateRecoveryCodes
  <2>2. WritesRecovery
    BY <1>20 DEF WritesRecovery
  <2> QED BY <2>1, <2>2 DEF Written
<1>21. ASSUME NEW c \in Clients, CommitRedemption(c)
      PROVE  Written
  <2>1. UNCHANGED <<member, passkey, challenge, invitation, identity, family>>
    BY <1>21 DEF CommitRedemption
  <2>2. WritesSession /\ WritesRecovery
    BY <1>21 DEF WritesSession, WritesRecovery
  <2> QED BY <2>1, <2>2 DEF Written
<1>22. ASSUME NEW m \in Members, GenerateHostRecovery(m)
      PROVE  Written
  <2>1. UNCHANGED <<member, session, passkey, challenge, invitation, identity, recovery, family>>
    BY <1>22 DEF GenerateHostRecovery
  <2> QED BY <2>1 DEF Written
<1>23. ASSUME NEW m \in Members, RedeemHostRecovery(m)
      PROVE  Written
  <2>1. UNCHANGED <<member, passkey, challenge, invitation, identity, recovery, family>>
    BY <1>23 DEF RedeemHostRecovery
  <2>2. WritesSession
    BY <1>23 DEF WritesSession
  <2> QED BY <2>1, <2>2 DEF Written
<1>24. ASSUME NEW f \in Families, BeginDevice(f)
      PROVE  Written
  <2>1. UNCHANGED <<member, session, passkey, challenge, invitation, identity, recovery>>
    BY <1>24 DEF BeginDevice
  <2>2. WritesFamily
    BY <1>24 DEF WritesFamily
  <2> QED BY <2>1, <2>2 DEF Written
<1>25. ASSUME NEW s \in Sessions, NEW f \in Families, ApproveDevice(s, f)
      PROVE  Written
  <2>1. UNCHANGED <<member, session, passkey, challenge, invitation, identity, recovery>>
    BY <1>25 DEF ApproveDevice
  <2>2. WritesFamily
    BY <1>25 DEF WritesFamily
  <2> QED BY <2>1, <2>2 DEF Written
<1>26. ASSUME NEW c \in Clients, CommitExchange(c)
      PROVE  Written
  <2>1. UNCHANGED <<member, session, passkey, challenge, invitation, identity, recovery>>
    BY <1>26 DEF CommitExchange
  <2>2. WritesFamily
    BY <1>26 DEF WritesFamily
  <2> QED BY <2>1, <2>2 DEF Written
<1>27. ASSUME NEW c \in Clients, CommitRefresh(c)
      PROVE  Written
  <2>1. UNCHANGED <<member, session, passkey, challenge, invitation, identity, recovery>>
    BY <1>27 DEF CommitRefresh
  <2>2. WritesFamily
    BY <1>27 DEF WritesFamily
  <2> QED BY <2>1, <2>2 DEF Written
<1>28. ASSUME NEW f \in Families, ReplayRefresh(f)
      PROVE  Written
  <2>1. UNCHANGED <<member, session, passkey, challenge, invitation, identity, recovery>>
    BY <1>28 DEF ReplayRefresh
  <2>2. WritesFamily
    BY <1>28 DEF WritesFamily
  <2> QED BY <2>1, <2>2 DEF Written
<1>29. ASSUME NEW c \in Clients, Abandon(c)
      PROVE  Written
  <2>1. UNCHANGED <<member, session, passkey, challenge, invitation, identity, recovery, family>>
    BY <1>29 DEF Abandon, rowVars
  <2> QED BY <2>1 DEF Written
<1> QED BY <1>1, <1>2, <1>3, <1>4, <1>5, <1>6, <1>7, <1>8, <1>9, <1>10, <1>11, <1>12, <1>13,
    <1>14, <1>15, <1>16, <1>17, <1>18, <1>19, <1>20, <1>21, <1>22, <1>23, <1>24, <1>25, <1>26,
    <1>27, <1>28, <1>29 DEF IdentityStep, WritesMember, WritesSession, WritesPasskey,
    WritesChallenge, WritesInvitation, WritesIdentity, WritesRecovery, WritesFamily, WritesOther


-------------------------------------------------------------------------------
(* What is bought once.                                                    *)

\* b is spent by this step, and on nothing before.
Buys(b) == b \in Origins /\ (b # None => ~Spent(b) /\ Spent(b)')

LEMMA BuysNothing == Buys(None)
BY DEF Buys, Origins

LEMMA BuysChallenge ==
    ASSUME NEW x \in Challenges, challenge[x].state = "OPEN", challenge'[x].state = "SPENT"
    PROVE  Buys(x)
<1>1. x \notin Invitations /\ x \notin Sessions /\ x \notin RecoveryCodes
  BY NamesAssumption
<1> QED BY <1>1 DEF Buys, Spent, Origins

LEMMA BuysInvitation ==
    ASSUME NEW i \in Invitations, invitation[i].state = "EXCHANGED", invitation'[i].state = "ACCEPTED"
    PROVE  Buys(i)
<1>1. i \notin Challenges /\ i \notin Sessions /\ i \notin RecoveryCodes
  BY NamesAssumption
<1> QED BY <1>1 DEF Buys, Spent, Origins

LEMMA BuysSession ==
    ASSUME NEW s \in Sessions, session[s].state = "LIVE", session'[s].state = "ENDED"
    PROVE  Buys(s)
<1>1. s \notin Challenges /\ s \notin Invitations /\ s \notin RecoveryCodes
  BY NamesAssumption
<1> QED BY <1>1 DEF Buys, Spent, Origins

LEMMA BuysCode ==
    ASSUME NEW b \in RecoveryCodes, recovery[b[1]].generation = b[2], b[2] \in Nat,
           b[3] \in recovery[b[1]].unused, recovery'[b[1]].generation = b[2],
           b[3] \notin recovery'[b[1]].unused
    PROVE  Buys(b)
<1>1. b \notin Challenges /\ b \notin Invitations /\ b \notin Sessions
  BY NamesAssumption
<1>2. ~Spent(b)
  BY DEF Spent
<1>3. Spent(b)'
  BY <1>1 DEF Spent
<1> QED BY <1>2, <1>3 DEF Buys, Origins

\* Challenges are spent, invitations accepted and sessions ended for good, and codes
\* are used or replaced.
ChallengesMove ==
    /\ challenge' \in [Challenges -> ChallengeRows]
    /\ \A x \in Challenges : challenge[x].state = "SPENT" => challenge'[x].state = "SPENT"

LEMMA ChallengesStep ==
    ASSUME FormInv, IdentityStep
    PROVE  ChallengesMove
<1>1. CASE challenge' = challenge
  BY <1>1 DEF FormInv, ChallengesMove
<1>2. ASSUME NEW x \in Challenges, Consume(x) PROVE ChallengesMove
  BY <1>2 DEF FormInv, ChallengesMove, Consume, ChallengeRows
<1>3. ASSUME NEW purpose \in Purposes, NEW to \in Members \cup Invitations \cup Passkeys \cup {None},
             NewChallenge(purpose, to)
      PROVE  ChallengesMove
  <2>1. NewIn(challenge) \in Challenges /\ challenge[NewIn(challenge)].state = "NONE"
    BY <1>3, NewInTable DEF NewChallenge, FormInv
  <2>2. [state |-> "OPEN", purpose |-> purpose, to |-> to] \in ChallengeRows
    BY DEF ChallengeRows
  <2> HIDE DEF ChallengeRows
  <2> QED BY <1>3, <2>1, <2>2 DEF NewChallenge, FormInv, ChallengesMove
<1>4. CASE Lapse
  <2>1. ASSUME NEW x \in Challenges, challenge' = [challenge EXCEPT ![x].state = "SPENT"]
        PROVE  ChallengesMove
    <3> DEFINE row == [challenge[x] EXCEPT !.state = "SPENT"]
    <3>1. row \in ChallengeRows /\ row.state = "SPENT"
      BY DEF FormInv, ChallengeRows
    <3>2. challenge' = [challenge EXCEPT ![x] = row]
      BY <2>1
    <3> HIDE DEF row
    <3> QED BY <3>1, <3>2 DEF FormInv, ChallengesMove
  <2>2. challenge' = challenge
        \/ \E x \in Challenges : challenge' = [challenge EXCEPT ![x].state = "SPENT"]
    BY <1>4, Zenon DEF Lapse
  <2> QED BY <1>1, <2>1, <2>2
<1>5. ASSUME NEW a \in Members \cup Invitations \cup {None}, BeginPasskeyRegistration(a)
      PROVE  ChallengesMove
  BY <1>3, <1>5 DEF BeginPasskeyRegistration, Purposes
<1>6. ASSUME NEW p \in Passkeys \cup {None}, BeginPasskeyAuthentication(p)
      PROVE  ChallengesMove
  BY <1>3, <1>6 DEF BeginPasskeyAuthentication, Purposes
<1>7. ASSUME NEW s \in Sessions, BeginMemberRoleChange(s) PROVE ChallengesMove
  <2>1. session[s].of \in Members
    BY <1>7 DEF BeginMemberRoleChange, ValidOwner, Valid, FormInv
  <2> QED BY <1>3, <1>7, <2>1 DEF BeginMemberRoleChange, Purposes
<1>8. ASSUME NEW c \in Clients, NEW m \in Members, CommitBootstrap(c, m) PROVE ChallengesMove
  <2>1. work[c].with.challenge \in Challenges
    BY <1>8, InWorkForms DEF CommitBootstrap, Current, InWork, FormInv
  <2> QED BY <1>2, <1>8, <2>1 DEF CommitBootstrap
<1>9. ASSUME NEW c \in Clients, NEW m \in Members, CommitAcceptance(c, m) PROVE ChallengesMove
  <2>1. work[c].with.challenge \in Challenges
    BY <1>9, InWorkForms DEF CommitAcceptance, Current, InWork, FormInv
  <2> QED BY <1>2, <1>9, <2>1 DEF CommitAcceptance
<1>10. ASSUME NEW c \in Clients, CommitRegistration(c) PROVE ChallengesMove
  <2>1. work[c].with.challenge \in Challenges
    BY <1>10, InWorkForms DEF CommitRegistration, Current, InWork, FormInv
  <2> QED BY <1>2, <1>10, <2>1 DEF CommitRegistration
<1>11. ASSUME NEW c \in Clients, CommitAuthentication(c) PROVE ChallengesMove
  <2>1. work[c].with.challenge \in Challenges
    BY <1>11, InWorkForms DEF CommitAuthentication, Current, InWork, FormInv
  <2> QED BY <1>2, <1>11, <2>1 DEF CommitAuthentication
<1>12. ASSUME NEW c \in Clients, CommitRoleChange(c) PROVE ChallengesMove
  <2>1. work[c].with.challenge \in Challenges
    BY <1>12, InWorkForms DEF CommitRoleChange, Current, InWork, FormInv
  <2> QED BY <1>2, <1>12, <2>1 DEF CommitRoleChange
<1> QED BY <1>1, <1>4, <1>5, <1>6, <1>7, <1>8, <1>9, <1>10, <1>11, <1>12, Writers
        DEF Written, WritesChallenge

\* An invitation comes of a request that is then answered, and of an owner.
InvitationsMove ==
    /\ invitation' \in [Invitations -> InvitationRows]
    /\ \A i \in Invitations : invitation[i].state = "ACCEPTED" => invitation'[i].state = "ACCEPTED"
    /\ \A i \in Invitations :
         \/ invitation'[i].by = invitation[i].by /\ (invitation[i].state = "NONE" => invitation'[i].state = "NONE")
         \/ /\ Bootstrapped /\ invitation'[i].by \in Keys \ receipts
            /\ invitation'[i].by \in receipts'
            /\ \A j \in Invitations \ {i} : invitation'[j].by = invitation[j].by

LEMMA InvitationsStep ==
    ASSUME FormInv, IdentityStep
    PROVE  InvitationsMove
<1>1. CASE invitation' = invitation
  BY <1>1 DEF FormInv, InvitationsMove
<1>3. ASSUME NEW c \in Clients, CommitInvite(c) PROVE InvitationsMove
  <2> DEFINE i == NewIn(invitation)
             k == work[c].with.key
             s == work[c].with.session
             row == [state |-> "PENDING", by |-> k]
  <2>1. k \in Keys /\ s \in Sessions
    BY <1>3, InWorkForms DEF CommitInvite, Current, InWork, FormInv
  <2>2. i \in Invitations /\ invitation[i].state = "NONE"
    BY <1>3, NewInTable DEF CommitInvite, FormInv
  <2>3. Bootstrapped
    <3>1. session[s].of \in Members /\ Active(session[s].of)
      BY <1>3, <2>1 DEF CommitInvite, ValidOwner, Valid, FormInv
    <3> QED BY <3>1 DEF Active, Bootstrapped
  <2>4. k \notin receipts /\ k \in receipts'
    BY <1>3 DEF CommitInvite, Answered, StoreAnswer
  <2>5. invitation' = [invitation EXCEPT ![i] = row] /\ row \in InvitationRows
    BY <1>3, <2>1 DEF CommitInvite, InvitationRows
  <2>6. row.by = k
    OBVIOUS
  <2> HIDE DEF i, row, k
  <2> QED BY <2>1, <2>2, <2>3, <2>4, <2>5, <2>6 DEF FormInv, InvitationsMove
<1>4. ASSUME NEW i \in Invitations, NEW state \in {"EXCHANGED", "ENDED", "ACCEPTED"},
             invitation[i].state \in {"PENDING", "EXCHANGED"},
             invitation' = [invitation EXCEPT ![i].state = state]
      PROVE  InvitationsMove
  <2> DEFINE row == [invitation[i] EXCEPT !.state = state]
  <2>1. row \in InvitationRows /\ row.by = invitation[i].by /\ row.state # "NONE"
    BY DEF FormInv, InvitationRows
  <2>2. invitation' = [invitation EXCEPT ![i] = row]
    BY <1>4
  <2> HIDE DEF row
  <2>3. invitation' \in [Invitations -> InvitationRows]
    BY <2>1, <2>2 DEF FormInv
  <2>4. /\ invitation'[i].by = invitation[i].by /\ invitation[i].state \notin {"NONE", "ACCEPTED"}
        /\ \A j \in Invitations \ {i} : invitation'[j] = invitation[j]
    BY <1>4, <2>1, <2>2 DEF FormInv
  <2> QED BY <2>3, <2>4 DEF InvitationsMove
<1>5. ASSUME NEW i \in Invitations, ExchangeInvitation(i) PROVE InvitationsMove
  BY <1>4, <1>5 DEF ExchangeInvitation
<1>6. ASSUME NEW i \in Invitations, NEW s \in Sessions, RevokeInvitation(s, i) PROVE InvitationsMove
  BY <1>4, <1>6 DEF RevokeInvitation
<1>7. ASSUME NEW c \in Clients, NEW m \in Members, CommitAcceptance(c, m) PROVE InvitationsMove
  <2>1. work[c].with.invitation \in Invitations
    BY <1>7, InWorkForms DEF CommitAcceptance, Current, InWork, FormInv
  <2> QED BY <1>4, <1>7, <2>1 DEF CommitAcceptance
<1>8. ASSUME NEW c \in Clients, NEW m \in Members, CommitProviderAcceptance(c, m)
      PROVE  InvitationsMove
  <2>1. work[c].with.invitation \in Invitations
    BY <1>8, InWorkForms DEF CommitProviderAcceptance, Current, InWork, FormInv
  <2> QED BY <1>4, <1>8, <2>1 DEF CommitProviderAcceptance
<1>9. CASE Lapse
  <2>1. invitation' = invitation
        \/ \E i \in Invitations : /\ invitation[i].state \in {"PENDING", "EXCHANGED"}
                                 /\ invitation' = [invitation EXCEPT ![i].state = "ENDED"]
    BY <1>9, Zenon DEF Lapse
  <2> QED BY <1>1, <1>4, <2>1
<1> QED BY <1>1, <1>3, <1>5, <1>6, <1>7, <1>8, <1>9, Writers DEF Written, WritesInvitation


\* A set of codes is replaced by one of a later generation, or a code of it is used.
RecoveryMove ==
    /\ recovery' \in [Members -> RecoveryRows]
    /\ \A m \in Members :
         \/ recovery'[m].generation > recovery[m].generation
         \/ /\ recovery'[m].generation = recovery[m].generation
            /\ recovery'[m].unused \subseteq recovery[m].unused

LEMMA RecoveryStep ==
    ASSUME FormInv, IdentityStep
    PROVE  RecoveryMove
<1>1. CASE recovery' = recovery
  BY <1>1 DEF FormInv, RecoveryMove
<1>2. ASSUME NEW s \in Sessions, GenerateRecoveryCodes(s) PROVE RecoveryMove
  <2> DEFINE m == session[s].of
             row == [generation |-> recovery[m].generation + 1, unused |-> Codes]
  <2>1. m \in Members
    BY <1>2 DEF GenerateRecoveryCodes, Valid, FormInv
  <2>2. recovery[m].generation \in 0..MaxGeneration /\ recovery[m].generation < MaxGeneration
    BY <1>2, <2>1 DEF GenerateRecoveryCodes, FormInv, RecoveryRows
  <2>3. row \in RecoveryRows /\ row.generation > recovery[m].generation
    BY <2>2, IdentityAssumption DEF RecoveryRows
  <2>4. recovery' = [recovery EXCEPT ![m] = row]
    BY <1>2 DEF GenerateRecoveryCodes
  <2> HIDE DEF m, row
  <2> QED BY <2>1, <2>3, <2>4 DEF FormInv, RecoveryMove
<1>3. ASSUME NEW c \in Clients, CommitRedemption(c) PROVE RecoveryMove
  <2>1. work[c].with.member \in Members
    BY <1>3, InWorkForms DEF CommitRedemption, Current, InWork, FormInv
  <2> QED BY <1>3, <2>1 DEF CommitRedemption, FormInv, RecoveryMove, RecoveryRows
<1> QED BY <1>1, <1>2, <1>3, Writers DEF Written, WritesRecovery

\* A device code becomes a family of the member who approved it, which rotates its
\* credentials and ends with its tokens.
Issued(f) ==
    \/ family'[f] = family[f]
    \/ /\ family[f].state = "NONE" /\ family'[f].state = "PENDING"
       /\ family'[f].tokens = family[f].tokens
    \/ /\ family[f].state = "PENDING" /\ family'[f].state = "APPROVED"
       /\ family'[f].of \in Members /\ family'[f].tokens = family[f].tokens
    \/ /\ family[f].state = "APPROVED" /\ family'[f].state = "LIVE"
       /\ family'[f].of = family[f].of /\ Active(family[f].of) /\ member' = member
       /\ family'[f].generation = 1 /\ \E c \in Clients : family'[f].tokens = {<<0, c>>}
    \/ /\ family[f].state = "LIVE" /\ family'[f].state = "LIVE" /\ family'[f].of = family[f].of
       /\ family'[f].generation = family[f].generation + 1
       /\ \E c \in Clients :
            family'[f].tokens = family[f].tokens \cup {<<family[f].generation, c>>}
    \/ /\ family[f].state # "LIVE" /\ family'[f].state = "ENDED"
       /\ family'[f].of = family[f].of /\ family'[f].tokens = family[f].tokens
    \/ /\ family[f].state = "LIVE" /\ family'[f].state = "ENDED"
       /\ family'[f].of = family[f].of /\ family'[f].tokens = {}
FamiliesMove ==
    /\ family' \in [Families -> FamilyRows]
    /\ \A f \in Families : Issued(f)

LEMMA FamiliesStep ==
    ASSUME FormInv, FamiliesInv, IdentityStep
    PROVE  FamiliesMove
<1>1. CASE family' = family
  BY <1>1 DEF FormInv, FamiliesMove, Issued
<1>2. ASSUME NEW f \in Families, NEW row \in FamilyRows, family' = [family EXCEPT ![f] = row],
             Issued(f)
      PROVE  FamiliesMove
  <2>1. \A g \in Families \ {f} : Issued(g)
    BY <1>2 DEF FormInv, Issued
  <2> QED BY <1>2, <2>1 DEF FormInv, FamiliesMove
<1>3. CASE Lapse
  <2>1. ASSUME NEW f \in Families, family[f].state \in {"PENDING", "APPROVED"},
               family' = [family EXCEPT ![f].state = "ENDED"]
        PROVE  FamiliesMove
    <3> DEFINE row == [family[f] EXCEPT !.state = "ENDED"]
    <3>1. row \in FamilyRows /\ row.state = "ENDED" /\ row.of = family[f].of
            /\ row.tokens = family[f].tokens
      BY DEF FormInv, FamilyRows
    <3>2. family' = [family EXCEPT ![f] = row]
      BY <2>1
    <3> HIDE DEF row
    <3>3. family'[f] = row
      BY <3>2 DEF FormInv
    <3>4. Issued(f)
      BY <2>1, <3>1, <3>3 DEF Issued
    <3> QED BY <1>2, <3>1, <3>2, <3>4
  <2> QED BY <1>1, <1>3, <2>1 DEF Lapse
<1>4. ASSUME NEW f \in Families, BeginDevice(f) PROVE FamiliesMove
  <2> DEFINE row == [family[f] EXCEPT !.state = "PENDING"]
  <2>1. row \in FamilyRows /\ row.state = "PENDING" /\ row.tokens = family[f].tokens
    BY DEF FormInv, FamilyRows
  <2>2. family' = [family EXCEPT ![f] = row] /\ family[f].state = "NONE"
    BY <1>4 DEF BeginDevice
  <2> HIDE DEF row
  <2>3. family'[f] = row
    BY <2>2 DEF FormInv
  <2>4. Issued(f)
    BY <2>1, <2>2, <2>3 DEF Issued
  <2> QED BY <1>2, <2>1, <2>2, <2>4
<1>5. ASSUME NEW s \in Sessions, NEW f \in Families, ApproveDevice(s, f) PROVE FamiliesMove
  <2> DEFINE row == [family[f] EXCEPT !.state = "APPROVED", !.of = session[s].of]
  <2>1. session[s].of \in Members
    BY <1>5 DEF ApproveDevice, Valid, FormInv
  <2>2. row \in FamilyRows /\ row.state = "APPROVED" /\ row.of \in Members
          /\ row.tokens = family[f].tokens
    BY <2>1 DEF FormInv, FamilyRows
  <2>3. family' = [family EXCEPT ![f] = row] /\ family[f].state = "PENDING"
    BY <1>5 DEF ApproveDevice
  <2> HIDE DEF row
  <2>4. family'[f] = row
    BY <2>3 DEF FormInv
  <2>5. Issued(f)
    BY <2>2, <2>3, <2>4 DEF Issued
  <2> QED BY <1>2, <2>2, <2>3, <2>5
<1>6. ASSUME NEW f \in Families, family[f].state = "LIVE",
             family' = [family EXCEPT ![f].state = "ENDED", ![f].tokens = {}]
      PROVE  FamiliesMove
  <2> DEFINE row == [family[f] EXCEPT !.state = "ENDED", !.tokens = {}]
  <2>1. row \in FamilyRows /\ row.state = "ENDED" /\ row.of = family[f].of /\ row.tokens = {}
    BY DEF FormInv, FamilyRows
  <2>2. family' = [family EXCEPT ![f] = row]
    BY <1>6
  <2> HIDE DEF row
  <2>3. family'[f] = row
    BY <2>2 DEF FormInv
  <2>4. Issued(f)
    BY <1>6, <2>1, <2>3 DEF Issued
  <2> QED BY <1>2, <2>1, <2>2, <2>4
<1>7. ASSUME NEW f \in Families, ReplayRefresh(f) PROVE FamiliesMove
  BY <1>6, <1>7 DEF ReplayRefresh
<1>8. ASSUME NEW c \in Clients, CommitExchange(c) PROVE FamiliesMove
  <2> DEFINE f == work[c].with.family
             tokens == {<<0, c>>}
             row == [family[f] EXCEPT !.state = "LIVE", !.generation = 1, !.tokens = tokens]
  <2>1. f \in Families
    BY <1>8, InWorkForms DEF CommitExchange, Current, InWork, FormInv
  <2>3. family' = [family EXCEPT ![f] = row] /\ family[f].state = "APPROVED" /\ member' = member
    BY <1>8 DEF CommitExchange
  <2>7. tokens \in SUBSET (Nat \X Clients) /\ 1 \in 0..(MaxRefreshes + 1)
    BY IdentityAssumption
  <2> HIDE DEF tokens, f
  <2>2. row \in FamilyRows /\ row.state = "LIVE" /\ row.of = family[f].of /\ row.generation = 1
          /\ row.tokens = tokens
    BY <2>1, <2>7 DEF FormInv, FamilyRows
  <2>4. Active(family[f].of)
    BY <1>8 DEF CommitExchange, Current, FamiliesInv, f
  <2> HIDE DEF row
  <2>5. family'[f] = row
    BY <2>1, <2>3 DEF FormInv
  <2>6. Issued(f)
    BY <2>2, <2>3, <2>4, <2>5 DEF Issued, tokens
  <2> QED BY <1>2, <2>1, <2>2, <2>3, <2>6
<1>9. ASSUME NEW c \in Clients, CommitRefresh(c) PROVE FamiliesMove
  <2> DEFINE f == work[c].with.family
  <2>1. f \in Families /\ work[c].with.generation \in 0..MaxRefreshes
    BY <1>9, InWorkForms DEF CommitRefresh, InWork, FormInv
  <2>2. CASE EndReplayed(c, f)
    BY <1>6, <2>1, <2>2 DEF EndReplayed
  <2>3. CASE Rotate(c, f)
    <3> DEFINE tokens == family[f].tokens \cup {<<family[f].generation, c>>}
               row == [family[f] EXCEPT !.generation = family[f].generation + 1, !.tokens = tokens]
    <3>1. family[f].generation \in 0..MaxRefreshes /\ family[f].state = "LIVE"
      BY <2>1, <2>3 DEF Rotate
    <3>2. tokens \in SUBSET (Nat \X Clients)
      BY <2>1, <3>1, IdentityAssumption DEF FormInv, FamilyRows
    <3>3. family' = [family EXCEPT ![f] = row]
      BY <2>3 DEF Rotate
    <3>7. family[f].generation + 1 \in 0..(MaxRefreshes + 1)
      BY <3>1, IdentityAssumption
    <3> HIDE DEF tokens, f
    <3>4. row \in FamilyRows /\ row.state = "LIVE" /\ row.of = family[f].of
            /\ row.generation = family[f].generation + 1 /\ row.tokens = tokens
      BY <2>1, <3>1, <3>2, <3>7 DEF FormInv, FamilyRows
    <3> HIDE DEF row
    <3>5. family'[f] = row
      BY <2>1, <3>3 DEF FormInv
    <3>6. Issued(f)
      BY <3>1, <3>4, <3>5 DEF Issued, tokens
    <3> QED BY <1>2, <2>1, <3>3, <3>4, <3>6
  <2> QED BY <1>9, <2>2, <2>3 DEF CommitRefresh
<1>10. ASSUME NEW m \in Members, Removes(m) PROVE FamiliesMove
  <2>1. Offboard(m)
    BY <1>10 DEF Removes, CommitRemoval, RemoveAtOnce
  <2>2. family' = [f \in Families |->
           IF family[f].of = m /\ family[f].state = "LIVE"
           THEN [family[f] EXCEPT !.state = "ENDED", !.tokens = {}] ELSE family[f]]
    BY <2>1 DEF Offboard
  <2>3. ASSUME NEW f \in Families
        PROVE  family'[f] \in FamilyRows /\ Issued(f)
    <3> DEFINE row == [family[f] EXCEPT !.state = "ENDED", !.tokens = {}]
    <3>1. row \in FamilyRows /\ row.state = "ENDED" /\ row.of = family[f].of /\ row.tokens = {}
      BY DEF FormInv, FamilyRows
    <3>2. family[f] \in FamilyRows
      BY DEF FormInv
    <3>3. family'[f] = family[f] \/ (family[f].state = "LIVE" /\ family'[f] = row)
      BY <2>2
    <3> HIDE DEF row
    <3> QED BY <3>1, <3>2, <3>3 DEF Issued
  <2> HIDE DEF FamilyRows
  <2> QED BY <2>2, <2>3 DEF FamiliesMove
<1> QED BY <1>1, <1>3, <1>4, <1>5, <1>7, <1>8, <1>9, <1>10, Writers DEF Written, WritesFamily


\* A removal is of an active member beside whom there is an active owner.
LEMMA RemovesOffboards ==
    ASSUME NEW m \in Members, Removes(m)
    PROVE  /\ Offboard(m) /\ Active(m) /\ AnotherOwner(m)
           /\ \A c \in Clients : work'[c] \in {Idle, After(work[c], RowsOfMember(m))}
BY DEF Removes, CommitRemoval, RemoveAtOnce, Removable, Commit, Requested, Write

\* A member joins with what they bought, may change role, and is removed for good.
Joined(m) ==
    /\ member[m].status = "NONE" /\ member'[m].status = "ACTIVE"
    /\ \E b \in Origins : member'[m].by = b /\ Buys(b)
    /\ \A n \in Members \ {m} : member'[n] = member[n]
Stayed(m) ==
    /\ member'[m].by = member[m].by
    /\ \/ member'[m].status = member[m].status
       \/ member'[m].status = "REVOKED" /\ member[m].status = "ACTIVE" /\ Removes(m)
MembersMove ==
    /\ member' \in [Members -> MemberRows]
    /\ \A m \in Members : Joined(m) \/ Stayed(m)

LEMMA JoinedMoves ==
    ASSUME FormInv, NEW m \in Members, NEW role \in Roles, NEW by \in Invitations \cup {None},
           NewMember(m, role, by), Buys(by)
    PROVE  MembersMove
<1> DEFINE row == [status |-> "ACTIVE", role |-> role, by |-> by]
<1>1. row \in MemberRows /\ row.status = "ACTIVE" /\ row.by = by
  BY DEF MemberRows
<1>2. member' = [member EXCEPT ![m] = row] /\ member[m].status = "NONE"
  BY DEF NewMember, Newcomers
<1> HIDE DEF row
<1>3. member'[m] = row /\ \A n \in Members \ {m} : member'[n] = member[n]
  BY <1>2 DEF FormInv
<1>4. Joined(m)
  BY <1>1, <1>2, <1>3 DEF Joined, Buys
<1>5. \A n \in Members \ {m} : Stayed(n)
  BY <1>3 DEF Stayed
<1> QED BY <1>1, <1>2, <1>4, <1>5 DEF FormInv, MembersMove

LEMMA ConsumedIsSpent ==
    ASSUME FormInv, NEW x \in Challenges, challenge[x].state = "OPEN", Consume(x)
    PROVE  Buys(x)
<1>1. challenge'[x].state = "SPENT"
  BY DEF Consume, FormInv, ChallengeRows
<1> QED BY <1>1, BuysChallenge

LEMMA AcceptedIsSpent ==
    ASSUME FormInv, NEW i \in Invitations, invitation[i].state = "EXCHANGED",
           invitation' = [invitation EXCEPT ![i].state = "ACCEPTED"]
    PROVE  Buys(i)
<1>1. invitation'[i].state = "ACCEPTED"
  BY DEF FormInv, InvitationRows
<1> QED BY <1>1, BuysInvitation

LEMMA MembersStep ==
    ASSUME FormInv, IdentityStep
    PROVE  MembersMove
<1>1. CASE member' = member
  BY <1>1 DEF FormInv, MembersMove, Stayed
<1>2. ASSUME NEW c \in Clients, NEW m \in Members, CommitBootstrap(c, m) PROVE MembersMove
  <2>1. NewMember(m, "OWNER", None)
    BY <1>2 DEF CommitBootstrap
  <2> QED BY <2>1, JoinedMoves, BuysNothing DEF Roles
<1>3. ASSUME NEW c \in Clients, NEW m \in Members, CommitAcceptance(c, m) PROVE MembersMove
  <2> DEFINE i == work[c].with.invitation
  <2>1. i \in Invitations
    BY <1>3, InWorkForms DEF CommitAcceptance, Current, InWork, FormInv
  <2>2. Buys(i)
    BY <1>3, <2>1, AcceptedIsSpent DEF CommitAcceptance
  <2>3. NewMember(m, "MEMBER", i)
    BY <1>3 DEF CommitAcceptance
  <2> QED BY <2>1, <2>2, <2>3, JoinedMoves DEF Roles
<1>4. ASSUME NEW c \in Clients, NEW m \in Members, CommitProviderAcceptance(c, m)
      PROVE  MembersMove
  <2> DEFINE i == work[c].with.invitation
  <2>1. i \in Invitations
    BY <1>4, InWorkForms DEF CommitProviderAcceptance, Current, InWork, FormInv
  <2>2. Buys(i)
    BY <1>4, <2>1, AcceptedIsSpent DEF CommitProviderAcceptance
  <2>3. NewMember(m, "MEMBER", i)
    BY <1>4 DEF CommitProviderAcceptance
  <2> QED BY <2>1, <2>2, <2>3, JoinedMoves DEF Roles
<1>5. ASSUME NEW c \in Clients, CommitRoleChange(c) PROVE MembersMove
  <2>1. work[c].with.member \in Members /\ work[c].with.role \in Roles
    BY <1>5, InWorkForms DEF CommitRoleChange, Current, InWork, FormInv
  <2>2. member' = [member EXCEPT ![work[c].with.member].role = work[c].with.role]
    BY <1>5 DEF CommitRoleChange
  <2> QED BY <2>1, <2>2 DEF FormInv, MemberRows, MembersMove, Stayed
<1>6. ASSUME NEW m \in Members, Removes(m) PROVE MembersMove
  <2>1. member' = [member EXCEPT ![m].status = "REVOKED"] /\ member[m].status = "ACTIVE"
    BY <1>6, RemovesOffboards DEF Offboard, Active
  <2>2. member' \in [Members -> MemberRows]
    BY <2>1 DEF FormInv, MemberRows
  <2>3. Stayed(m)
    BY <1>6, <2>1 DEF FormInv, MemberRows, Stayed
  <2>4. \A n \in Members \ {m} : Stayed(n)
    BY <2>1 DEF FormInv, Stayed
  <2> QED BY <2>2, <2>3, <2>4 DEF MembersMove
<1> QED BY <1>1, <1>2, <1>3, <1>4, <1>5, <1>6, Writers DEF Written, WritesMember

\* A session begins with what bought it, for a member who is not removed, and ends for good.
Began(s) ==
    /\ session[s].state = "NONE" /\ session'[s].of \in Members
    /\ member'[session'[s].of].status # "REVOKED"
    /\ \E b \in Origins : session'[s].by = b /\ Buys(b)
    /\ \A t \in Sessions \ {s} : session'[t].by = session[t].by
Lasted(s) ==
    /\ session'[s].of = session[s].of /\ session'[s].by = session[s].by
    /\ session'[s].state # "NONE" => session'[s].of \in Members
    /\ \/ session'[s].state = session[s].state \/ session'[s].state = "ENDED"
       \/ session'[s].state = "IDLE" /\ session[s].state = "LIVE"
SessionsMove ==
    /\ session' \in [Sessions -> SessionRows]
    /\ \A s \in Sessions : session'[s].state # "NONE" => session'[s].of \in Members
    /\ \A s \in Sessions : Began(s) \/ Lasted(s)

LEMMA BeganMoves ==
    ASSUME FormInv, HasNew(session), NEW m \in Members, NEW kind \in Kinds, NEW by,
           NewSession(NewIn(session), m, kind, by), member'[m].status # "REVOKED", Buys(by)
    PROVE  SessionsMove
<1> DEFINE s == NewIn(session)
           row == [state |-> "LIVE", kind |-> kind, of |-> m, by |-> by]
<1>1. s \in Sessions /\ session[s].state = "NONE"
  BY NewInTable DEF FormInv
<1>2. row \in SessionRows /\ row.of = m /\ row.by = by
  BY DEF SessionRows, Buys
<1>3. session' = [session EXCEPT ![s] = row]
  BY DEF NewSession
<1> HIDE DEF row, s
<1>4. session'[s] = row /\ \A t \in Sessions \ {s} : session'[t] = session[t]
  BY <1>1, <1>3 DEF FormInv
<1>5. Began(s)
  BY <1>1, <1>2, <1>4 DEF Began, Buys
<1>6. \A t \in Sessions \ {s} : Lasted(t)
  BY <1>4 DEF Lasted, FormInv
<1>7. \A t \in Sessions : session'[t].state # "NONE" => session'[t].of \in Members
  BY <1>2, <1>4 DEF FormInv
<1> QED BY <1>1, <1>2, <1>3, <1>5, <1>6, <1>7 DEF FormInv, SessionsMove

LEMMA LastedMoves ==
    ASSUME FormInv, NEW s \in Sessions, NEW state \in {"IDLE", "ENDED"},
           session[s].state # "NONE", state = "ENDED" \/ session[s].state = "LIVE",
           session' = [session EXCEPT ![s].state = state]
    PROVE  SessionsMove
<1>1. session[s] \in SessionRows /\ session[s].of \in Members
  BY DEF FormInv
<1> DEFINE row == [session[s] EXCEPT !.state = state]
<1>2. /\ row \in SessionRows /\ row.of = session[s].of /\ row.by = session[s].by
      /\ row.state = state
  BY <1>1 DEF SessionRows
<1>3. session' = [session EXCEPT ![s] = row]
  OBVIOUS
<1> HIDE DEF row
<1>4. session'[s] = row /\ \A t \in Sessions \ {s} : session'[t] = session[t]
  BY <1>3 DEF FormInv
<1>5. \A t \in Sessions : Lasted(t)
  BY <1>1, <1>2, <1>4 DEF Lasted, FormInv
<1> QED BY <1>2, <1>3, <1>5 DEF FormInv, SessionsMove, Lasted


LEMMA SessionsStep ==
    ASSUME FormInv, SpentInv, RemovedHoldsNothing, IdentityStep
    PROVE  SessionsMove
<1>1. CASE session' = session
  BY <1>1 DEF FormInv, SessionsMove, Lasted
<1>2. CASE Lapse
  BY <1>1, <1>2, LastedMoves DEF Lapse
<1>3. ASSUME NEW c \in Clients, NEW m \in Members, CommitBootstrap(c, m) PROVE SessionsMove
  <2> DEFINE x == work[c].with.challenge
  <2>1. x \in Challenges
    BY <1>3, InWorkForms DEF CommitBootstrap, Current, InWork, FormInv
  <2>2. Buys(x)
    BY <1>3, <2>1, ConsumedIsSpent DEF CommitBootstrap, Open
  <2>3. member'[m].status # "REVOKED"
    BY <1>3 DEF CommitBootstrap, NewMember, FormInv
  <2>4. HasNew(session) /\ NewSession(NewIn(session), m, "BROWSER", x)
    BY <1>3 DEF CommitBootstrap
  <2> QED BY <2>2, <2>3, <2>4, BeganMoves DEF Kinds
<1>4. ASSUME NEW c \in Clients, NEW m \in Members, CommitAcceptance(c, m) PROVE SessionsMove
  <2> DEFINE i == work[c].with.invitation
  <2>1. i \in Invitations
    BY <1>4, InWorkForms DEF CommitAcceptance, Current, InWork, FormInv
  <2>2. Buys(i)
    BY <1>4, <2>1, AcceptedIsSpent DEF CommitAcceptance
  <2>3. member'[m].status # "REVOKED"
    BY <1>4 DEF CommitAcceptance, NewMember, FormInv
  <2>4. HasNew(session) /\ NewSession(NewIn(session), m, "BROWSER", i)
    BY <1>4 DEF CommitAcceptance
  <2> QED BY <2>2, <2>3, <2>4, BeganMoves DEF Kinds
<1>5. ASSUME NEW c \in Clients, NEW m \in Members, CommitProviderAcceptance(c, m)
      PROVE  SessionsMove
  <2> DEFINE i == work[c].with.invitation
  <2>1. i \in Invitations
    BY <1>5, InWorkForms DEF CommitProviderAcceptance, Current, InWork, FormInv
  <2>2. Buys(i)
    BY <1>5, <2>1, AcceptedIsSpent DEF CommitProviderAcceptance
  <2>3. member'[m].status # "REVOKED"
    BY <1>5 DEF CommitProviderAcceptance, NewMember, FormInv
  <2>4. HasNew(session) /\ NewSession(NewIn(session), m, "BROWSER", i)
    BY <1>5 DEF CommitProviderAcceptance
  <2> QED BY <2>2, <2>3, <2>4, BeganMoves DEF Kinds
<1>6. ASSUME NEW c \in Clients, CommitRegistration(c) PROVE SessionsMove
  <2> DEFINE s == work[c].with.session
  <2>1. s \in Sessions
    BY <1>6, InWorkForms DEF CommitRegistration, Current, InWork, FormInv
  <2>2. session[s].state # "NONE"
    BY <1>6 DEF CommitRegistration, MayRegister
  <2>3. session' = session \/ session' = [session EXCEPT ![s].state = "ENDED"]
    BY <1>6 DEF CommitRegistration
  <2> QED BY <1>1, <2>1, <2>2, <2>3, LastedMoves
<1>7. ASSUME NEW c \in Clients, CommitAuthentication(c) PROVE SessionsMove
  <2> DEFINE x == work[c].with.challenge
             p == work[c].with.passkey
  <2>1. x \in Challenges /\ p \in Passkeys
    BY <1>7, InWorkForms DEF CommitAuthentication, Current, InWork, FormInv
  <2>2. Buys(x)
    BY <1>7, <2>1, ConsumedIsSpent DEF CommitAuthentication, Open
  <2>3. passkey[p].of \in Members /\ member'[passkey[p].of].status # "REVOKED"
    BY <1>7, <2>1 DEF CommitAuthentication, Active, FormInv
  <2>4. HasNew(session) /\ NewSession(NewIn(session), passkey[p].of, "BROWSER", x)
    BY <1>7 DEF CommitAuthentication
  <2> QED BY <2>2, <2>3, <2>4, BeganMoves DEF Kinds
<1>8. ASSUME NEW c \in Clients, CommitRotation(c) PROVE SessionsMove
  <2> DEFINE s == work[c].with.session
             n == NewIn(session)
             old == [session[s] EXCEPT !.state = "ENDED"]
             new == [state |-> "LIVE", kind |-> "BROWSER", of |-> session[s].of, by |-> s]
  <2>1. s \in Sessions
    BY <1>8, InWorkForms DEF CommitRotation, InWork, FormInv
  <2>2. n \in Sessions /\ session[n].state = "NONE" /\ session[s].state = "LIVE"
    BY <1>8, NewInTable DEF CommitRotation, FormInv
  <2>3. session[s].of \in Members /\ session[s] \in SessionRows
    BY <2>1, <2>2 DEF FormInv
  <2>4. /\ old \in SessionRows /\ old.of = session[s].of /\ old.by = session[s].by
        /\ old.state = "ENDED"
    BY <2>3 DEF SessionRows
  <2>5. new \in SessionRows /\ new.of = session[s].of /\ new.by = s
    BY <2>1, <2>3 DEF SessionRows, Kinds, Origins
  <2>6. session' = [session EXCEPT ![s] = old, ![n] = new] /\ member' = member
    BY <1>8 DEF CommitRotation
  <2>7. member[session[s].of].status # "REVOKED"
    BY <2>1, <2>2, <2>3 DEF RemovedHoldsNothing
  <2> HIDE DEF old, new, s, n
  <2>8. /\ session'[s] = old /\ session'[n] = new
        /\ \A t \in Sessions \ {s, n} : session'[t] = session[t]
    BY <2>1, <2>2, <2>6 DEF FormInv
  <2>9. Buys(s)
    BY <2>1, <2>2, <2>4, <2>8, BuysSession
  <2>10. Began(n)
    BY <2>1, <2>2, <2>3, <2>4, <2>5, <2>6, <2>7, <2>8, <2>9 DEF Began, Origins
  <2>11. \A t \in Sessions \ {n} : Lasted(t)
    BY <2>3, <2>4, <2>8 DEF Lasted, FormInv
  <2>12. session' \in [Sessions -> SessionRows]
    BY <2>4, <2>5, <2>6 DEF FormInv
  <2>13. \A t \in Sessions : session'[t].state # "NONE" => session'[t].of \in Members
    BY <2>10, <2>11 DEF Began, Lasted
  <2> QED BY <2>10, <2>11, <2>12, <2>13 DEF SessionsMove
<1>9. ASSUME NEW c \in Clients, CommitRedemption(c) PROVE SessionsMove
  <2> DEFINE m == work[c].with.member
             b == work[c].with.code
  <2>1. m \in Members /\ b \in RecoveryCodes
    BY <1>9, InWorkForms DEF CommitRedemption, Current, InWork, FormInv
  <2>2. b[1] = m /\ b[2] = recovery[m].generation
    BY <1>9 DEF CommitRedemption, Current, SpentInv
  <2>3. Active(m) /\ b[3] \in recovery[m].unused
          /\ recovery' = [recovery EXCEPT ![m].unused = recovery[m].unused \ {b[3]}]
    BY <1>9 DEF CommitRedemption
  <2>4. recovery'[m].generation = b[2] /\ b[3] \notin recovery'[m].unused /\ b[2] \in Nat
    BY <2>1, <2>2, <2>3, IdentityAssumption DEF FormInv, RecoveryRows
  <2>5. Buys(b)
    BY <2>1, <2>2, <2>3, <2>4, BuysCode
  <2>6. member'[m].status # "REVOKED"
    BY <1>9, <2>3 DEF CommitRedemption, Active
  <2>7. HasNew(session) /\ NewSession(NewIn(session), m, "RECOVERY", b)
    BY <1>9 DEF CommitRedemption
  <2> QED BY <2>1, <2>5, <2>6, <2>7, BeganMoves DEF Kinds
<1>10. ASSUME NEW m \in Members, RedeemHostRecovery(m) PROVE SessionsMove
  <2>1. CASE m \in ActiveOwners
    <3>1. HasNew(session) /\ NewSession(NewIn(session), m, "HOST_RECOVERY", None)
      BY <1>10, <2>1 DEF RedeemHostRecovery
    <3>2. member'[m].status # "REVOKED"
      BY <1>10, <2>1 DEF RedeemHostRecovery, ActiveOwners, Active
    <3> QED BY <3>1, <3>2, BeganMoves, BuysNothing DEF Kinds
  <2>2. CASE m \notin ActiveOwners
    BY <1>1, <1>10, <2>2 DEF RedeemHostRecovery
  <2> QED BY <2>1, <2>2
<1>11. ASSUME NEW m \in Members, Removes(m) PROVE SessionsMove
  <2>1. session' = [s \in Sessions |->
           IF session[s].of = m THEN [session[s] EXCEPT !.state = "ENDED"] ELSE session[s]]
    BY <1>11, RemovesOffboards DEF Offboard
  <2>2. ASSUME NEW s \in Sessions
        PROVE  session'[s] \in SessionRows /\ Lasted(s)
    <3> DEFINE row == [session[s] EXCEPT !.state = "ENDED"]
    <3>1. row \in SessionRows /\ row.of = session[s].of /\ row.by = session[s].by
            /\ row.state = "ENDED"
      BY DEF FormInv, SessionRows
    <3>2. session'[s] = session[s] \/ (session[s].of = m /\ session'[s] = row)
      BY <2>1
    <3> HIDE DEF row
    <3> QED BY <3>1, <3>2 DEF Lasted, FormInv
  <2> HIDE DEF SessionRows
  <2> QED BY <2>1, <2>2 DEF SessionsMove, Lasted
<1> QED BY <1>1, <1>2, <1>3, <1>4, <1>5, <1>6, <1>7, <1>8, <1>9, <1>10, <1>11, Writers
        DEF Written, WritesSession

\* A passkey comes of a challenge, for a member who is not removed, and is revoked for good.
Enrolled(p) ==
    /\ passkey[p].state = "NONE" /\ passkey'[p].of \in Members
    /\ member'[passkey'[p].of].status # "REVOKED"
    /\ \E b \in Origins : passkey'[p].by = b /\ Buys(b)
    /\ \A q \in Passkeys \ {p} : passkey'[q].by = passkey[q].by
Remained(p) ==
    /\ passkey'[p].of = passkey[p].of /\ passkey'[p].by = passkey[p].by
    /\ passkey'[p].state # "NONE" => passkey'[p].of \in Members
    /\ passkey'[p].state = passkey[p].state \/ passkey'[p].state = "REVOKED"
PasskeysMove ==
    /\ passkey' \in [Passkeys -> PasskeyRows]
    /\ \A p \in Passkeys : passkey'[p].state # "NONE" => passkey'[p].of \in Members
    /\ \A p \in Passkeys : Enrolled(p) \/ Remained(p)

LEMMA EnrolledMoves ==
    ASSUME FormInv, HasNew(passkey), NEW m \in Members, NEW x \in Challenges,
           NewPasskey(NewIn(passkey), m, x), member'[m].status # "REVOKED", Buys(x)
    PROVE  PasskeysMove
<1> DEFINE p == NewIn(passkey)
           row == [state |-> "LIVE", of |-> m, by |-> x]
<1>1. p \in Passkeys /\ passkey[p].state = "NONE"
  BY NewInTable DEF FormInv
<1>2. row \in PasskeyRows /\ row.of = m /\ row.by = x /\ x \in Origins
  BY DEF PasskeyRows, Origins
<1>3. passkey' = [passkey EXCEPT ![p] = row]
  BY DEF NewPasskey
<1> HIDE DEF row, p
<1>4. passkey'[p] = row /\ \A q \in Passkeys \ {p} : passkey'[q] = passkey[q]
  BY <1>1, <1>3 DEF FormInv
<1>5. Enrolled(p)
  BY <1>1, <1>2, <1>4 DEF Enrolled
<1>6. \A q \in Passkeys \ {p} : Remained(q)
  BY <1>4 DEF Remained, FormInv
<1>7. \A q \in Passkeys : passkey'[q].state # "NONE" => passkey'[q].of \in Members
  BY <1>2, <1>4 DEF FormInv
<1> QED BY <1>1, <1>2, <1>3, <1>5, <1>6, <1>7 DEF FormInv, PasskeysMove

LEMMA PasskeysStep ==
    ASSUME FormInv, IdentityStep
    PROVE  PasskeysMove
<1>1. CASE passkey' = passkey
  BY <1>1 DEF FormInv, PasskeysMove, Remained
<1>2. ASSUME NEW c \in Clients, NEW m \in Members, CommitBootstrap(c, m) PROVE PasskeysMove
  <2> DEFINE x == work[c].with.challenge
  <2>1. x \in Challenges
    BY <1>2, InWorkForms DEF CommitBootstrap, Current, InWork, FormInv
  <2>2. Buys(x)
    BY <1>2, <2>1, ConsumedIsSpent DEF CommitBootstrap, Open
  <2>3. member'[m].status # "REVOKED"
    BY <1>2 DEF CommitBootstrap, NewMember, FormInv
  <2>4. HasNew(passkey) /\ NewPasskey(NewIn(passkey), m, x)
    BY <1>2 DEF CommitBootstrap
  <2> QED BY <2>1, <2>2, <2>3, <2>4, EnrolledMoves
<1>3. ASSUME NEW c \in Clients, NEW m \in Members, CommitAcceptance(c, m) PROVE PasskeysMove
  <2> DEFINE x == work[c].with.challenge
  <2>1. x \in Challenges
    BY <1>3, InWorkForms DEF CommitAcceptance, Current, InWork, FormInv
  <2>2. Buys(x)
    BY <1>3, <2>1, ConsumedIsSpent DEF CommitAcceptance, Open
  <2>3. member'[m].status # "REVOKED"
    BY <1>3 DEF CommitAcceptance, NewMember, FormInv
  <2>4. HasNew(passkey) /\ NewPasskey(NewIn(passkey), m, x)
    BY <1>3 DEF CommitAcceptance
  <2> QED BY <2>1, <2>2, <2>3, <2>4, EnrolledMoves
<1>4. ASSUME NEW c \in Clients, CommitRegistration(c) PROVE PasskeysMove
  <2> DEFINE x == work[c].with.challenge
             s == work[c].with.session
  <2>1. x \in Challenges /\ s \in Sessions
    BY <1>4, InWorkForms DEF CommitRegistration, Current, InWork, FormInv
  <2>2. Buys(x)
    BY <1>4, <2>1, ConsumedIsSpent DEF CommitRegistration, Open
  <2>3. session[s].of \in Members /\ member'[session[s].of].status # "REVOKED"
    BY <1>4, <2>1 DEF CommitRegistration, MayRegister, Active, FormInv
  <2>4. HasNew(passkey) /\ NewPasskey(NewIn(passkey), session[s].of, x)
    BY <1>4 DEF CommitRegistration
  <2> QED BY <2>1, <2>2, <2>3, <2>4, EnrolledMoves
<1>5. ASSUME NEW s \in Sessions, NEW p \in Passkeys, RevokePasskey(s, p) PROVE PasskeysMove
  <2> DEFINE row == [passkey[p] EXCEPT !.state = "REVOKED"]
  <2>1. row \in PasskeyRows /\ row.of = passkey[p].of /\ row.by = passkey[p].by
          /\ row.state = "REVOKED"
    BY DEF FormInv, PasskeyRows
  <2>2. passkey' = [passkey EXCEPT ![p] = row] /\ passkey[p].of \in Members
    BY <1>5 DEF RevokePasskey, FormInv
  <2> HIDE DEF row
  <2>3. passkey'[p] = row /\ \A q \in Passkeys \ {p} : passkey'[q] = passkey[q]
    BY <2>2 DEF FormInv
  <2>4. \A q \in Passkeys : Remained(q)
    BY <2>1, <2>2, <2>3 DEF Remained, FormInv
  <2> QED BY <2>1, <2>2, <2>4 DEF FormInv, PasskeysMove, Remained
<1>6. ASSUME NEW m \in Members, Removes(m) PROVE PasskeysMove
  <2>1. passkey' = [p \in Passkeys |->
           IF passkey[p].of = m THEN [passkey[p] EXCEPT !.state = "REVOKED"] ELSE passkey[p]]
    BY <1>6, RemovesOffboards DEF Offboard
  <2>2. ASSUME NEW p \in Passkeys
        PROVE  passkey'[p] \in PasskeyRows /\ Remained(p)
    <3> DEFINE row == [passkey[p] EXCEPT !.state = "REVOKED"]
    <3>1. row \in PasskeyRows /\ row.of = passkey[p].of /\ row.by = passkey[p].by
            /\ row.state = "REVOKED"
      BY DEF FormInv, PasskeyRows
    <3>2. passkey'[p] = passkey[p] \/ (passkey[p].of = m /\ passkey'[p] = row)
      BY <2>1
    <3> HIDE DEF row
    <3> QED BY <3>1, <3>2 DEF Remained, FormInv
  <2> HIDE DEF PasskeyRows
  <2> QED BY <2>1, <2>2 DEF PasskeysMove, Remained
<1> QED BY <1>1, <1>2, <1>3, <1>4, <1>5, <1>6, Writers DEF Written, WritesPasskey


\* A provider identity is linked to a member who is not removed.
IdentitiesMove ==
    /\ identity' \in [Identities -> IdentityRows]
    /\ \A x \in Identities :
         \/ ~identity'[x].live \/ identity'[x] = identity[x]
         \/ identity'[x].of \in Members /\ member'[identity'[x].of].status # "REVOKED"

LEMMA LinkedMoves ==
    ASSUME FormInv, NEW x \in Identities, NEW m \in Members, member'[m].status # "REVOKED",
           identity' = [identity EXCEPT ![x] = [of |-> m, live |-> TRUE]]
    PROVE  IdentitiesMove
<1> DEFINE row == [of |-> m, live |-> TRUE]
<1>1. row \in IdentityRows /\ row.of = m
  BY DEF IdentityRows
<1>2. identity' = [identity EXCEPT ![x] = row]
  OBVIOUS
<1> HIDE DEF row
<1> QED BY <1>1, <1>2 DEF FormInv, IdentitiesMove

LEMMA IdentitiesStep ==
    ASSUME FormInv, IdentityStep
    PROVE  IdentitiesMove
<1>1. CASE identity' = identity
  BY <1>1 DEF FormInv, IdentitiesMove
<1>2. ASSUME NEW c \in Clients, NEW m \in Members, CommitProviderAcceptance(c, m)
      PROVE  IdentitiesMove
  <2>1. work[c].with.identity \in Identities
    BY <1>2, InWorkForms DEF CommitProviderAcceptance, Current, InWork, FormInv
  <2>2. member'[m].status # "REVOKED"
    BY <1>2 DEF CommitProviderAcceptance, NewMember, FormInv
  <2> QED BY <1>2, <2>1, <2>2, LinkedMoves DEF CommitProviderAcceptance
<1>3. ASSUME NEW c \in Clients, CommitLink(c) PROVE IdentitiesMove
  <2> DEFINE x == work[c].with.identity
             s == work[c].with.session
  <2>1. x \in Identities /\ s \in Sessions
    BY <1>3, InWorkForms DEF CommitLink, Current, InWork, FormInv
  <2>2. session[s].of \in Members /\ member'[session[s].of].status # "REVOKED"
    BY <1>3, <2>1 DEF CommitLink, Valid, Active, FormInv
  <2>3. \/ identity' = identity
        \/ identity' = [identity EXCEPT ![x] = [of |-> session[s].of, live |-> TRUE]]
    BY <1>3 DEF CommitLink
  <2> QED BY <1>1, <2>1, <2>2, <2>3, LinkedMoves
<1>4. ASSUME NEW m \in Members, Removes(m) PROVE IdentitiesMove
  <2>1. identity' = [x \in Identities |->
           IF identity[x].of = m THEN [identity[x] EXCEPT !.live = FALSE] ELSE identity[x]]
    BY <1>4, RemovesOffboards DEF Offboard
  <2> QED BY <2>1, ZenonT(60) DEF FormInv, IdentityRows, IdentitiesMove
<1> QED BY <1>1, <1>2, <1>3, <1>4, Writers DEF Written, WritesIdentity

\* The tables of a step, together.
Moves ==
    /\ MembersMove /\ SessionsMove /\ PasskeysMove /\ ChallengesMove /\ InvitationsMove
    /\ IdentitiesMove /\ RecoveryMove /\ FamiliesMove

LEMMA StepMoves ==
    ASSUME FormInv, SpentInv, FamiliesInv, RemovedHoldsNothing, IdentityStep
    PROVE  Moves
BY MembersStep, SessionsStep, PasskeysStep, ChallengesStep, InvitationsStep, IdentitiesStep,
   RecoveryStep, FamiliesStep DEF Moves

-------------------------------------------------------------------------------
(* The commands in work.                                                   *)

\* A command in work stays what it is, and is stale when the row of a member it read
\* is the row of one removed, or the set of codes it read replaced.
Held(c) ==
    /\ work'[c].op = work[c].op /\ work'[c].rows = work[c].rows /\ work'[c].with = work[c].with
    /\ work'[c].fresh =>
         /\ work[c].fresh
         /\ \A m \in Members : M(m) \in work[c].rows =>
              (member'[m].status = "REVOKED" => member[m].status = "REVOKED")
         /\ \A m \in Members : <<"set", m>> \in work[c].rows =>
              recovery'[m].generation = recovery[m].generation
WorkMove ==
    /\ work' \in [Clients -> Works]
    /\ \A c \in Clients :
         \/ work'[c] = Idle
         \/ work[c] # Idle /\ Held(c)
         \/ ReadsNow(work'[c]) /\ UNCHANGED rowVars

\* What a transaction that writes W makes of the commands in work.
Touches(W) ==
    /\ work' = [c \in Clients |-> work'[c]]
    /\ \A c \in Clients : work'[c] = Idle \/ work'[c] = After(work[c], W)

LEMMA TransactionsTouch ==
    ASSUME FormInv, NEW W
    PROVE  /\ Write(W) => Touches(W)
           /\ \A c \in Clients : Commit(c, W) => Touches(W)
           /\ \A c \in Clients : Abandon(c) => Touches({})
           /\ work' = work => Touches({})
<1>1. Write(W) => Touches(W)
  BY DEF Write, Touches
<1>2. ASSUME NEW c \in Clients, Commit(c, W) PROVE Touches(W)
  BY <1>2 DEF Commit, Touches
<1>3. \A d \in Clients : After(work[d], {}) = work[d]
  BY DEF After
<1>4. ASSUME NEW c \in Clients, Abandon(c) PROVE Touches({})
  BY <1>3, <1>4 DEF Abandon, Touches, FormInv
<1>5. work' = work => Touches({})
  BY <1>3 DEF Touches, FormInv
<1> QED BY <1>1, <1>2, <1>4, <1>5

\* A write of the rows of those removed, and of the sets replaced.
LEMMA WriteMoves ==
    ASSUME FormInv, NEW W, Touches(W),
           \A m \in Members : member'[m].status = "REVOKED" =>
              member[m].status = "REVOKED" \/ M(m) \in W,
           \A m \in Members : recovery'[m].generation = recovery[m].generation
                                \/ <<"set", m>> \in W
    PROVE  WorkMove
<1>1. ASSUME NEW c \in Clients
      PROVE  /\ work'[c] \in Works
             /\ work'[c] = Idle \/ (work[c] # Idle /\ Held(c))
  <2>1. work[c] \in Works /\ Idle \in Works
    BY DEF FormInv, Works
  <2>4. work'[c] = Idle \/ work'[c] = After(work[c], W)
    BY DEF Touches
  <2>2. CASE work'[c] = Idle
    BY <2>1, <2>2
  <2>3. CASE work'[c] = After(work[c], W)
    <3>1. CASE work[c] = Idle
      BY <2>1, <2>3, <3>1 DEF After
    <3>2. CASE work[c] # Idle
      BY <2>1, <2>3, <3>2, AfterWrite DEF Held
    <3> QED BY <3>1, <3>2
  <2> QED BY <2>2, <2>3, <2>4
<1> HIDE DEF Works
<1> QED BY <1>1 DEF WorkMove, Touches


LEMMA WorkStep ==
    ASSUME FormInv, Moves, IdentityStep
    PROVE  WorkMove
<1>1. CASE Reads
  <2>1. PICK c \in Clients, w \in Works : ReadsNow(w) /\ work' = [work EXCEPT ![c] = w]
    BY <1>1 DEF Reads
  <2>2. \A d \in Clients \ {c} : work'[d] = work[d]
    BY <2>1 DEF FormInv
  <2>3. work'[c] = w /\ work' \in [Clients -> Works]
    BY <2>1 DEF FormInv
  <2>4. \A d \in Clients \ {c} : work'[d] = Idle \/ (work[d] # Idle /\ Held(d))
    BY <1>1, <2>2 DEF Reads, Held, rowVars
  <2> QED BY <1>1, <2>1, <2>3, <2>4 DEF WorkMove, Reads
<1>2. ASSUME NEW m \in Members, Removes(m) PROVE WorkMove
  <2> DEFINE W == RowsOfMember(m)
  <2>1. Touches(W)
    <3>1. (\E c \in Clients : Commit(c, W)) \/ Write(W)
      BY <1>2 DEF Removes, CommitRemoval, RemoveAtOnce, Requested
    <3> HIDE DEF W
    <3> QED BY <3>1, TransactionsTouch
  <2>2. member' = [member EXCEPT ![m].status = "REVOKED"] /\ recovery' = recovery
    BY <1>2, RemovesOffboards DEF Offboard, Removes, CommitRemoval, RemoveAtOnce
  <2>3. M(m) \in W
    BY DEF RowsOfMember
  <2> HIDE DEF W
  <2>4. \A n \in Members : member'[n].status = "REVOKED" => member[n].status = "REVOKED" \/ M(n) \in W
    BY <2>2, <2>3 DEF FormInv
  <2> QED BY <2>1, <2>2, <2>4, WriteMoves
<1>3. CASE ~\E m \in Members : Removes(m)
  <2>1. \A n \in Members : member'[n].status = "REVOKED" => member[n].status = "REVOKED"
    BY <1>3 DEF Moves, MembersMove, Joined, Stayed
  <2>2. ASSUME NEW s \in Sessions, GenerateRecoveryCodes(s) PROVE WorkMove
    <3> DEFINE W == {<<"set", session[s].of>>}
    <3>1. Touches(W)
      BY <2>2, TransactionsTouch DEF GenerateRecoveryCodes, Requested
    <3>2. session[s].of \in Members
      BY <2>2 DEF GenerateRecoveryCodes, Valid, FormInv
    <3>3. \A n \in Members : recovery'[n].generation = recovery[n].generation \/ <<"set", n>> \in W
      BY <2>2, <3>2 DEF GenerateRecoveryCodes, FormInv
    <3> HIDE DEF W
    <3> QED BY <2>1, <3>1, <3>3, WriteMoves
  <2>3. ASSUME NEW W, Touches(W), \A n \in Members : recovery'[n].generation = recovery[n].generation
        PROVE  WorkMove
    BY <2>1, <2>3, WriteMoves
  <2>4. ASSUME NEW W, (\E c \in Clients : Commit(c, W)) \/ Write(W) \/ work' = work,
               recovery' = recovery
        PROVE  WorkMove
    BY <2>3, <2>4, TransactionsTouch
  <2>5. CASE UNCHANGED <<rowVars, work>> \/ Lapse
    BY <2>4, <2>5 DEF rowVars, Lapse
  <2>6. ASSUME NEW c \in Clients, Abandon(c) PROVE WorkMove
    BY <2>3, <2>6, TransactionsTouch DEF Abandon, rowVars
  <2>7. ASSUME NEW c \in Clients, NEW m \in Members, CommitBootstrap(c, m) PROVE WorkMove
    BY <2>4, <2>7 DEF CommitBootstrap
  <2>8. ASSUME NEW c \in Clients, NEW m \in Members, CommitAcceptance(c, m) PROVE WorkMove
    BY <2>4, <2>8 DEF CommitAcceptance
  <2>9. ASSUME NEW c \in Clients, NEW m \in Members, CommitProviderAcceptance(c, m) PROVE WorkMove
    BY <2>4, <2>9 DEF CommitProviderAcceptance
  <2>10. ASSUME NEW c \in Clients, CommitRoleChange(c) PROVE WorkMove
    BY <2>4, <2>10 DEF CommitRoleChange
  <2>11. ASSUME NEW c \in Clients, CommitRegistration(c) PROVE WorkMove
    <3>1. \E W : Commit(c, W)
      BY <2>11 DEF CommitRegistration
    <3>2. recovery' = recovery
      BY <2>11 DEF CommitRegistration
    <3> QED BY <2>4, <3>1, <3>2
  <2>12. ASSUME NEW c \in Clients, CommitAuthentication(c) PROVE WorkMove
    BY <2>4, <2>12 DEF CommitAuthentication
  <2>13. ASSUME NEW c \in Clients, CommitRotation(c) PROVE WorkMove
    BY <2>4, <2>13 DEF CommitRotation
  <2>14. ASSUME NEW c \in Clients, CommitRedemption(c) PROVE WorkMove
    <3>1. work[c].with.member \in Members
      BY <2>14, InWorkForms DEF CommitRedemption, Current, InWork, FormInv
    <3>2. \A n \in Members : recovery'[n].generation = recovery[n].generation
      BY <2>14, <3>1 DEF CommitRedemption, FormInv, RecoveryRows
    <3>3. Commit(c, {})
      BY <2>14 DEF CommitRedemption
    <3> QED BY <2>3, <3>2, <3>3, TransactionsTouch
  <2>15. ASSUME NEW m \in Members, RedeemHostRecovery(m) \/ GenerateHostRecovery(m) PROVE WorkMove
    BY <2>4, <2>15 DEF RedeemHostRecovery, GenerateHostRecovery, Requested
  <2>16. ASSUME NEW s \in Sessions, NEW p \in Passkeys, RevokePasskey(s, p) PROVE WorkMove
    BY <2>4, <2>16 DEF RevokePasskey, Requested
  <2>17. ASSUME NEW a \in Members \cup Invitations \cup {None}, BeginPasskeyRegistration(a)
         PROVE  WorkMove
    BY <2>4, <2>17 DEF BeginPasskeyRegistration, NewChallenge, Requested
  <2>18. ASSUME NEW p \in Passkeys \cup {None}, BeginPasskeyAuthentication(p) PROVE WorkMove
    BY <2>4, <2>18 DEF BeginPasskeyAuthentication, NewChallenge, Requested
  <2>19. ASSUME NEW s \in Sessions, BeginMemberRoleChange(s) PROVE WorkMove
    BY <2>4, <2>19 DEF BeginMemberRoleChange, NewChallenge, Requested
  <2>20. ASSUME NEW c \in Clients, CommitInvite(c) PROVE WorkMove
    BY <2>4, <2>20 DEF CommitInvite
  <2>21. ASSUME NEW i \in Invitations, ExchangeInvitation(i) PROVE WorkMove
    BY <2>4, <2>21 DEF ExchangeInvitation, Requested
  <2>22. ASSUME NEW i \in Invitations, NEW s \in Sessions, RevokeInvitation(s, i) PROVE WorkMove
    BY <2>4, <2>22 DEF RevokeInvitation, Requested
  <2>23. ASSUME NEW c \in Clients, CommitLink(c) PROVE WorkMove
    BY <2>4, <2>23 DEF CommitLink
  <2>24. ASSUME NEW f \in Families, BeginDevice(f) \/ ReplayRefresh(f) PROVE WorkMove
    BY <2>4, <2>24 DEF BeginDevice, ReplayRefresh, Requested
  <2>25. ASSUME NEW f \in Families, NEW s \in Sessions, ApproveDevice(s, f) PROVE WorkMove
    BY <2>4, <2>25 DEF ApproveDevice, Requested
  <2>26. ASSUME NEW c \in Clients, CommitExchange(c) \/ CommitRefresh(c) PROVE WorkMove
    BY <2>4, <2>26 DEF CommitExchange, CommitRefresh
  <2>27. ASSUME NEW m \in Members, DispatchRemoval(m) PROVE WorkMove
    BY <2>4, <2>27 DEF DispatchRemoval
  <2> QED BY <1>1, <1>3, <2>2, <2>5, <2>6, <2>7, <2>8, <2>9, <2>10, <2>11, <2>12, <2>13, <2>14,
      <2>15, <2>16, <2>17, <2>18, <2>19, <2>20, <2>21, <2>22, <2>23, <2>24, <2>25, <2>26, <2>27
      DEF IdentityStep, WritesMember, WritesSession, WritesPasskey, WritesChallenge,
      WritesInvitation, WritesIdentity, WritesRecovery, WritesFamily, WritesOther
<1> QED BY <1>2, <1>3


-------------------------------------------------------------------------------
(* The invariant of Identity is kept.                                      *)

\* The small tables: the codes of the host, the answers to requests, the outbox.
SmallMove ==
    /\ hostCode' \subseteq Members /\ receipts' \subseteq Keys /\ receipts \subseteq receipts'
    /\ outbox' \in [Members -> {"NONE", "PENDING", "DISPATCHED"}]

LEMMA SmallTables ==
    ASSUME FormInv, IdentityStep
    PROVE  SmallMove
<1> DEFINE Small == UNCHANGED <<hostCode, outbox, receipts>>
<1>1. CASE Small
  BY <1>1 DEF FormInv, SmallMove
<1>2. CASE Reads \/ UNCHANGED <<rowVars, work>> \/ Lapse \/ \E c \in Clients : Abandon(c)
  BY <1>1, <1>2 DEF Reads, rowVars, Lapse, Abandon
<1>3. ASSUME NEW c \in Clients, NEW m \in Members,
             CommitBootstrap(c, m) \/ CommitAcceptance(c, m) \/ CommitProviderAcceptance(c, m)
      PROVE  SmallMove
  <2>1. Small
    BY <1>3 DEF CommitBootstrap, CommitAcceptance, CommitProviderAcceptance
  <2> QED BY <1>1, <2>1
<1>4. ASSUME NEW c \in Clients,
             \/ CommitRoleChange(c) \/ CommitRegistration(c) \/ CommitAuthentication(c)
             \/ CommitRotation(c) \/ CommitRedemption(c) \/ CommitLink(c)
             \/ CommitExchange(c) \/ CommitRefresh(c)
      PROVE  SmallMove
  <2>1. Small
    BY <1>4 DEF CommitRoleChange, CommitRegistration, CommitAuthentication, CommitRotation,
       CommitRedemption, CommitLink, CommitExchange, CommitRefresh
  <2> QED BY <1>1, <2>1
<1>5. ASSUME NEW s \in Sessions,
             \/ \E p \in Passkeys : RevokePasskey(s, p)
             \/ \E i \in Invitations : RevokeInvitation(s, i)
             \/ \E f \in Families : ApproveDevice(s, f)
             \/ GenerateRecoveryCodes(s) \/ BeginMemberRoleChange(s)
      PROVE  SmallMove
  <2>1. Small
    BY <1>5 DEF RevokePasskey, RevokeInvitation, ApproveDevice, GenerateRecoveryCodes,
       BeginMemberRoleChange, NewChallenge
  <2> QED BY <1>1, <2>1
<1>6. CASE \/ \E a \in Members \cup Invitations \cup {None} : BeginPasskeyRegistration(a)
           \/ \E p \in Passkeys \cup {None} : BeginPasskeyAuthentication(p)
           \/ \E i \in Invitations : ExchangeInvitation(i)
           \/ \E f \in Families : BeginDevice(f) \/ ReplayRefresh(f)
  BY <1>1, <1>6 DEF BeginPasskeyRegistration, BeginPasskeyAuthentication, NewChallenge,
     ExchangeInvitation, BeginDevice, ReplayRefresh
<1>7. ASSUME NEW m \in Members, RedeemHostRecovery(m) \/ GenerateHostRecovery(m) PROVE SmallMove
  BY <1>7 DEF RedeemHostRecovery, GenerateHostRecovery, FormInv, SmallMove
<1>8. ASSUME NEW m \in Members, DispatchRemoval(m) PROVE SmallMove
  BY <1>8 DEF DispatchRemoval, FormInv, SmallMove
<1>9. ASSUME NEW c \in Clients, CommitInvite(c) PROVE SmallMove
  <2>1. work[c].with.key \in Keys
    BY <1>9, InWorkForms DEF CommitInvite, Current, InWork, FormInv
  <2> QED BY <1>9, <2>1 DEF CommitInvite, StoreAnswer, FormInv, SmallMove
<1>10. ASSUME NEW m \in Members, Removes(m) PROVE SmallMove
  <2>1. UNCHANGED <<hostCode, receipts>> /\ outbox' = [outbox EXCEPT ![m] = "PENDING"]
    BY <1>10, RemovesOffboards DEF Removes, CommitRemoval, RemoveAtOnce, Offboard
  <2> QED BY <2>1 DEF FormInv, SmallMove
<1> QED BY <1>2, <1>3, <1>4, <1>5, <1>6, <1>7, <1>8, <1>9, <1>10
    DEF IdentityStep, WritesMember, WritesSession, WritesPasskey, WritesChallenge,
    WritesInvitation, WritesIdentity, WritesRecovery, WritesFamily, WritesOther

LEMMA FormKept ==
    ASSUME FormInv, FamiliesInv, Moves, WorkMove, IdentityStep
    PROVE  FormInv'
<1>1. \A f \in Families : family'[f].state \in {"APPROVED", "LIVE"} => family'[f].of \in Members
  BY DEF Moves, FamiliesMove, Issued, FormInv
<1>2. /\ member' \in [Members -> MemberRows] /\ session' \in [Sessions -> SessionRows]
      /\ passkey' \in [Passkeys -> PasskeyRows] /\ challenge' \in [Challenges -> ChallengeRows]
      /\ invitation' \in [Invitations -> InvitationRows]
      /\ identity' \in [Identities -> IdentityRows] /\ recovery' \in [Members -> RecoveryRows]
      /\ family' \in [Families -> FamilyRows] /\ work' \in [Clients -> Works]
      /\ \A s \in Sessions : session'[s].state # "NONE" => session'[s].of \in Members
      /\ \A p \in Passkeys : passkey'[p].state # "NONE" => passkey'[p].of \in Members
  BY DEF Moves, MembersMove, SessionsMove, PasskeysMove, ChallengesMove, InvitationsMove,
     IdentitiesMove, RecoveryMove, FamiliesMove, WorkMove
<1>3. /\ hostCode' \subseteq Members /\ receipts' \subseteq Keys
      /\ outbox' \in [Members -> {"NONE", "PENDING", "DISPATCHED"}]
  BY SmallTables DEF SmallMove
<1> QED BY <1>1, <1>2, <1>3 DEF FormInv

\* What is spent stays spent.
LEMMA SpentStays ==
    ASSUME FormInv, Moves, NEW b, Spent(b)
    PROVE  Spent(b)'
<1>1. b \in Challenges => challenge'[b].state = "SPENT"
  BY DEF Spent, Moves, ChallengesMove
<1>2. b \in Invitations => invitation'[b].state = "ACCEPTED"
  BY DEF Spent, Moves, InvitationsMove
<1>3. b \in Sessions => session'[b].state = "ENDED"
  BY DEF Spent, Moves, SessionsMove, Began, Lasted
<1>4. ASSUME b \in RecoveryCodes
      PROVE  \/ b[2] < recovery'[b[1]].generation
             \/ b[2] = recovery'[b[1]].generation /\ b[3] \notin recovery'[b[1]].unused
  <2>1. b[1] \in Members /\ b[2] \in 0..MaxGeneration
    BY <1>4 DEF RecoveryCodes
  <2>2. recovery[b[1]].generation \in 0..MaxGeneration /\ recovery'[b[1]].generation \in 0..MaxGeneration
    BY <2>1 DEF Moves, RecoveryMove, FormInv, RecoveryRows
  <2>3. \/ b[2] < recovery[b[1]].generation
        \/ b[2] = recovery[b[1]].generation /\ b[3] \notin recovery[b[1]].unused
    BY <1>4 DEF Spent
  <2>4. \/ recovery'[b[1]].generation > recovery[b[1]].generation
        \/ /\ recovery'[b[1]].generation = recovery[b[1]].generation
           /\ recovery'[b[1]].unused \subseteq recovery[b[1]].unused
    BY <2>1 DEF Moves, RecoveryMove
  <2> QED BY <2>1, <2>2, <2>3, <2>4, IdentityAssumption
<1> QED BY <1>1, <1>2, <1>3, <1>4 DEF Spent

LEMMA SpentNone == Spent(None)
BY NamesAssumption DEF Spent

LEMMA BoughtIsSpent ==
    ASSUME NEW b, Buys(b)
    PROVE  Spent(b)'
<1>1. CASE b = None
  BY <1>1, NamesAssumption DEF Spent
<1> QED BY <1>1 DEF Buys

LEMMA SpentKept ==
    ASSUME FormInv, SpentInv, Moves, WorkMove, IdentityStep
    PROVE  SpentInv'
<1>1. ASSUME NEW m \in Members PROVE Spent(member[m].by)'
  <2>1. CASE Joined(m)
    BY <2>1, BoughtIsSpent DEF Joined
  <2>2. CASE Stayed(m)
    BY <2>2, SpentStays DEF Stayed, SpentInv
  <2> QED BY <2>1, <2>2 DEF Moves, MembersMove
<1>2. ASSUME NEW s \in Sessions PROVE Spent(session[s].by)'
  <2>1. CASE Began(s)
    BY <2>1, BoughtIsSpent DEF Began
  <2>2. CASE Lasted(s)
    BY <2>2, SpentStays DEF Lasted, SpentInv
  <2> QED BY <2>1, <2>2 DEF Moves, SessionsMove
<1>3. ASSUME NEW p \in Passkeys PROVE Spent(passkey[p].by)'
  <2>1. CASE Enrolled(p)
    BY <2>1, BoughtIsSpent DEF Enrolled
  <2>2. CASE Remained(p)
    BY <2>2, SpentStays DEF Remained, SpentInv
  <2> QED BY <2>1, <2>2 DEF Moves, PasskeysMove
<1>4. \A i \in Invitations : invitation'[i].by = None \/ invitation'[i].by \in receipts'
  BY SmallTables DEF SmallMove, SpentInv, Moves, InvitationsMove
<1>5. ASSUME NEW c \in Clients, work'[c].op = "REDEEM"
      PROVE  LET w == work'[c].with IN
                /\ w.code[1] = w.member /\ <<"set", w.member>> \in work'[c].rows
                /\ w.code[2] <= recovery'[w.member].generation
                /\ work'[c].fresh => w.code[2] = recovery'[w.member].generation
  <2>1. work'[c] # Idle
    BY <1>5 DEF Idle
  <2>2. CASE work[c] # Idle /\ Held(c)
    <3> DEFINE m == work[c].with.member
               n == work[c].with.code[2]
    <3>1. work[c].op = "REDEEM" /\ work'[c].rows = work[c].rows /\ work'[c].with = work[c].with
      BY <1>5, <2>2 DEF Held
    <3>2. m \in Members /\ work[c].with.code \in RecoveryCodes
      BY <3>1, InWorkForms DEF FormInv
    <3>3. n \in Nat
      BY <3>2, IdentityAssumption DEF RecoveryCodes
    <3>8. recovery[m] \in RecoveryRows /\ recovery'[m] \in RecoveryRows
      BY <3>2 DEF Moves, RecoveryMove, FormInv
    <3>9. recovery[m].generation \in Nat /\ recovery'[m].generation \in Nat
      BY <3>8, IdentityAssumption DEF RecoveryRows
    <3>4. recovery'[m].generation >= recovery[m].generation
      BY <3>2, <3>9 DEF Moves, RecoveryMove
    <3>5. /\ work[c].with.code[1] = m /\ <<"set", m>> \in work[c].rows
          /\ n <= recovery[m].generation
          /\ work[c].fresh => n = recovery[m].generation
      BY <3>1 DEF SpentInv, InWork
    <3>6. work'[c].fresh => work[c].fresh /\ recovery'[m].generation = recovery[m].generation
      BY <2>2, <3>2, <3>5 DEF Held
    <3>7. n <= recovery'[m].generation /\ (work'[c].fresh => n = recovery'[m].generation)
      BY <3>3, <3>4, <3>5, <3>6, <3>9
    <3> QED BY <3>1, <3>5, <3>7
  <2>3. CASE ReadsNow(work'[c]) /\ UNCHANGED rowVars
    <3>1. work'[c].with.member \in Members
      BY <1>5, <2>3, InWorkForms DEF ReadsNow
    <3>2. recovery' = recovery
      BY <2>3 DEF rowVars
    <3>3. recovery[work'[c].with.member].generation \in Nat
      BY <3>1, IdentityAssumption DEF FormInv, RecoveryRows
    <3> QED BY <1>5, <2>3, <3>2, <3>3 DEF ReadsNow
  <2> QED BY <2>1, <2>2, <2>3 DEF WorkMove
<1> QED BY <1>1, <1>2, <1>3, <1>4, <1>5 DEF SpentInv, InWork


\* A count above one is of another owner.
LEMMA AnotherIsLeft ==
    ASSUME FormInv, NEW m \in Members, AnotherOwner(m), ActiveOwners # {}
    PROVE  ActiveOwners \ {m} # {}
<1>1. IsFiniteSet(ActiveOwners)
  BY IdentityAssumption, FS_Subset DEF ActiveOwners
<1>2. CASE m \notin ActiveOwners
  BY <1>2
<1>3. CASE m \in ActiveOwners
  <2>1. Cardinality(ActiveOwners) > 1
    BY <1>3 DEF AnotherOwner
  <2>2. Cardinality(ActiveOwners) \in Nat
    BY <1>1, FS_CardinalityType
  <2>3. Cardinality(ActiveOwners \ {m}) = Cardinality(ActiveOwners) - 1
    BY <1>1, <1>3, FS_RemoveElement
  <2>4. Cardinality(ActiveOwners \ {m}) # 0
    BY <2>1, <2>2, <2>3
  <2> QED BY <2>4, FS_EmptySet
<1> QED BY <1>2, <1>3

\* Owners stay while there are any, and a deployment begins with one.
LEMMA OwnersStay ==
    ASSUME FormInv, OwnerFirst, Moves, IdentityStep
    PROVE  /\ ActiveOwners # {} => ActiveOwners' # {}
           /\ Bootstrapped' => Bootstrapped \/ ActiveOwners' # {}
<1> DEFINE Goal == /\ ActiveOwners # {} => ActiveOwners' # {}
                   /\ Bootstrapped' => Bootstrapped \/ ActiveOwners' # {}
<1>1. CASE member' = member
  BY <1>1 DEF ActiveOwners, Active, Bootstrapped
<1>2. ASSUME NEW m \in Members, NEW role \in Roles, NEW by, NewMember(m, role, by)
      PROVE  /\ ActiveOwners # {} => ActiveOwners' # {}
             /\ role = "OWNER" => ActiveOwners' # {}
  <2>1. member[m].status = "NONE"
          /\ member' = [member EXCEPT ![m] = [status |-> "ACTIVE", role |-> role, by |-> by]]
    BY <1>2 DEF NewMember, Newcomers
  <2>2. ActiveOwners \subseteq ActiveOwners'
    BY <2>1 DEF ActiveOwners, Active, FormInv
  <2>3. role = "OWNER" => m \in ActiveOwners'
    BY <2>1 DEF ActiveOwners, Active, FormInv
  <2> QED BY <2>2, <2>3
<1>3. ASSUME NEW c \in Clients, NEW m \in Members, CommitBootstrap(c, m) PROVE Goal
  BY <1>2, <1>3 DEF CommitBootstrap, Roles
<1>4. ASSUME NEW c \in Clients, NEW m \in Members, CommitAcceptance(c, m) PROVE Goal
  <2>1. work[c].with.invitation \in Invitations
    BY <1>4, InWorkForms DEF CommitAcceptance, Current, InWork, FormInv
  <2>2. Bootstrapped
    BY <1>4, <2>1 DEF CommitAcceptance, OwnerFirst
  <2> QED BY <1>2, <1>4, <2>2 DEF CommitAcceptance, Roles
<1>5. ASSUME NEW c \in Clients, NEW m \in Members, CommitProviderAcceptance(c, m) PROVE Goal
  <2>1. work[c].with.invitation \in Invitations
    BY <1>5, InWorkForms DEF CommitProviderAcceptance, Current, InWork, FormInv
  <2>2. Bootstrapped
    BY <1>5, <2>1 DEF CommitProviderAcceptance, OwnerFirst
  <2> QED BY <1>2, <1>5, <2>2 DEF CommitProviderAcceptance, Roles
<1>6. ASSUME NEW m \in Members, Active(m), ActiveOwners \ {m} \subseteq ActiveOwners',
             AnotherOwner(m) \/ ActiveOwners \subseteq ActiveOwners'
      PROVE  Goal
  <2>1. Bootstrapped
    BY <1>6 DEF Active, Bootstrapped
  <2> QED BY <1>6, <2>1, AnotherIsLeft
<1>7. ASSUME NEW c \in Clients, CommitRoleChange(c) PROVE Goal
  <2> DEFINE m == work[c].with.member
             role == work[c].with.role
  <2>1. m \in Members /\ role \in Roles
    BY <1>7, InWorkForms DEF CommitRoleChange, Current, InWork, FormInv
  <2>2. /\ Active(m) /\ (role # "OWNER" => AnotherOwner(m))
        /\ member' = [member EXCEPT ![m].role = role]
    BY <1>7 DEF CommitRoleChange
  <2>3. ActiveOwners \ {m} \subseteq ActiveOwners'
    BY <2>2 DEF ActiveOwners, Active, FormInv
  <2>4. role = "OWNER" => ActiveOwners \subseteq ActiveOwners'
    BY <2>2 DEF ActiveOwners, Active, FormInv, MemberRows
  <2> QED BY <1>6, <2>1, <2>2, <2>3, <2>4
<1>8. ASSUME NEW m \in Members, Removes(m) PROVE Goal
  <2>1. /\ Active(m) /\ AnotherOwner(m)
        /\ member' = [member EXCEPT ![m].status = "REVOKED"]
    BY <1>8, RemovesOffboards DEF Offboard
  <2>2. ActiveOwners \ {m} \subseteq ActiveOwners'
    BY <2>1 DEF ActiveOwners, Active, FormInv
  <2> QED BY <1>6, <2>1, <2>2
<1> QED BY <1>1, <1>3, <1>4, <1>5, <1>7, <1>8, Writers DEF Written, WritesMember

LEMMA OwnerKept ==
    ASSUME FormInv, OwnerFirst, Moves, IdentityStep
    PROVE  OwnerFirst'
<1>1. Bootstrapped => Bootstrapped'
  BY DEF Bootstrapped, Moves, MembersMove, Joined, Stayed
<1>2. \A i \in Invitations : invitation'[i].state # "NONE" => Bootstrapped'
  BY <1>1 DEF OwnerFirst, Moves, InvitationsMove
<1>3. Bootstrapped' => ActiveOwners' # {}
  BY OwnersStay DEF OwnerFirst, OwnerRemains
<1> QED BY <1>2, <1>3 DEF OwnerFirst, OwnerRemains

\* Who is active stays so but for a removal, which ends their families.
LEMMA ActiveStays ==
    ASSUME FormInv, Moves, NEW m \in Members, Active(m), ~Removes(m)
    PROVE  Active(m)'
BY DEF Moves, MembersMove, Joined, Stayed, Active

LEMMA FamiliesKept ==
    ASSUME FormInv, FamiliesInv, Moves, WorkMove, IdentityStep
    PROVE  FamiliesInv'
<1>1. ASSUME NEW f \in Families
      PROVE  IF family'[f].state = "LIVE" THEN member'[family'[f].of].status = "ACTIVE"
             ELSE family'[f].tokens = {}
  <2>1. Issued(f)
    BY DEF Moves, FamiliesMove
  <2>2. CASE family'[f].state # "LIVE"
    BY <2>1, <2>2 DEF Issued, FamiliesInv
  <2>3. CASE family'[f].state = "LIVE"
    <3>1. family'[f].of = family[f].of /\ Active(family[f].of) /\ family[f].of \in Members
      BY <2>1, <2>3 DEF Issued, FamiliesInv, FormInv
    <3>2. family[f].state = "LIVE" \/ member' = member
      BY <2>1, <2>3 DEF Issued
    <3>3. CASE member' = member
      BY <2>3, <3>1, <3>3 DEF Active
    <3>4. CASE family[f].state = "LIVE"
      <4>1. ~Removes(family[f].of)
        <5>1. SUFFICES ASSUME Removes(family[f].of) PROVE FALSE
          OBVIOUS
        <5>2. family' = [g \in Families |->
                 IF family[g].of = family[f].of /\ family[g].state = "LIVE"
                 THEN [family[g] EXCEPT !.state = "ENDED", !.tokens = {}] ELSE family[g]]
          BY <3>1, <5>1, RemovesOffboards DEF Offboard
        <5>3. family'[f].state = "ENDED"
          BY <3>4, <5>2 DEF FormInv, FamilyRows
        <5> QED BY <2>3, <5>3
      <4> QED BY <2>3, <3>1, <4>1, ActiveStays DEF Active
    <3> QED BY <3>2, <3>3, <3>4
  <2> QED BY <2>2, <2>3
<1>2. ASSUME NEW c \in Clients, work'[c].op = "DEVICE"
      PROVE  LET f == work'[c].with.family IN
                /\ family'[f].state \in {"APPROVED", "LIVE", "ENDED"}
                /\ family'[f].of \in Members /\ M(family'[f].of) \in work'[c].rows
                /\ work'[c].fresh => member'[family'[f].of].status = "ACTIVE"
  <2>1. work'[c] # Idle
    BY <1>2 DEF Idle
  <2>2. CASE work[c] # Idle /\ Held(c)
    <3> DEFINE f == work[c].with.family
               m == family[f].of
    <3>1. work[c].op = "DEVICE" /\ work'[c].rows = work[c].rows /\ work'[c].with = work[c].with
      BY <1>2, <2>2 DEF Held
    <3>2. f \in Families
      BY <3>1, InWorkForms DEF FormInv
    <3>3. /\ family[f].state \in {"APPROVED", "LIVE", "ENDED"}
          /\ m \in Members /\ M(m) \in work[c].rows
          /\ work[c].fresh => member[m].status = "ACTIVE"
      BY <3>1 DEF FamiliesInv, InWork, Active
    <3>4. Issued(f)
      BY <3>2 DEF Moves, FamiliesMove
    <3> HIDE DEF f
    <3>5. family'[f].of = family[f].of /\ family'[f].state \in {"APPROVED", "LIVE", "ENDED"}
      BY <3>3, <3>4 DEF Issued
    <3> HIDE DEF m
    <3>6. ASSUME work'[c].fresh PROVE member'[m].status = "ACTIVE"
      <4>1. work[c].fresh /\ (member'[m].status = "REVOKED" => member[m].status = "REVOKED")
        BY <2>2, <3>3, <3>6 DEF Held
      <4>2. Joined(m) \/ Stayed(m)
        BY <3>3 DEF Moves, MembersMove
      <4> QED BY <3>3, <4>1, <4>2 DEF Joined, Stayed
    <3> QED BY <3>1, <3>3, <3>5, <3>6 DEF f, m
  <2>3. CASE ReadsNow(work'[c]) /\ UNCHANGED rowVars
    <3> DEFINE f == work'[c].with.family
    <3>1. f \in Families
      BY <1>2, <2>3, InWorkForms DEF ReadsNow
    <3>2. family' = family /\ member' = member
      BY <2>3 DEF rowVars
    <3>3. /\ family[f].state \in {"APPROVED", "LIVE"} /\ M(family[f].of) \in work'[c].rows
          /\ member[family[f].of].status = "ACTIVE"
      BY <1>2, <2>3 DEF ReadsNow, Active
    <3>4. family[f].of \in Members
      BY <3>1, <3>3 DEF FormInv
    <3> QED BY <3>2, <3>3, <3>4
  <2> QED BY <2>1, <2>2, <2>3 DEF WorkMove
<1>3. ASSUME NEW f \in Families, NEW t \in family'[f].tokens
      PROVE  t[1] < family'[f].generation
  <2>1. Issued(f) /\ family[f] \in FamilyRows
    BY DEF Moves, FamiliesMove, FormInv
  <2>2. \A u \in family[f].tokens : u[1] < family[f].generation /\ u[1] \in Nat
    BY <2>1 DEF FamiliesInv, FamilyRows
  <2>3. family[f].generation \in Nat
    BY <2>1, IdentityAssumption DEF FamilyRows
  <2>4. family[f].state # "LIVE" => family[f].tokens = {}
    BY DEF FamiliesInv
  <2> QED BY <2>1, <2>2, <2>3, <2>4 DEF Issued
<1> QED BY <1>1, <1>2, <1>3 DEF FamiliesInv, InWork, Active


LEMMA RemovedKept ==
    ASSUME FormInv, FamiliesInv', RemovedHoldsNothing, Moves, IdentityStep
    PROVE  RemovedHoldsNothing'
<1> SUFFICES ASSUME NEW m \in Members, member'[m].status = "REVOKED"
             PROVE  /\ \A s \in Sessions : session'[s].of = m => session'[s].state = "ENDED"
                    /\ \A p \in Passkeys : passkey'[p].of = m => passkey'[p].state = "REVOKED"
                    /\ \A x \in Identities : identity'[x].of = m => ~identity'[x].live
                    /\ \A f \in Families : family'[f].of = m =>
                         family'[f].state # "LIVE" /\ family'[f].tokens = {}
  BY DEF RemovedHoldsNothing
<1>1. \A f \in Families : family'[f].of = m => family'[f].state # "LIVE" /\ family'[f].tokens = {}
  BY DEF FamiliesInv, Active
<1>2. member[m].status = "REVOKED" \/ Removes(m)
  BY DEF Moves, MembersMove, Joined, Stayed
<1>3. CASE member[m].status = "REVOKED"
  <2>1. \A s \in Sessions : session'[s].of = m => session'[s].state = "ENDED"
    BY <1>3 DEF RemovedHoldsNothing, Moves, SessionsMove, Began, Lasted
  <2>2. \A p \in Passkeys : passkey'[p].of = m => passkey'[p].state = "REVOKED"
    BY <1>3 DEF RemovedHoldsNothing, Moves, PasskeysMove, Enrolled, Remained
  <2>3. \A x \in Identities : identity'[x].of = m => ~identity'[x].live
    BY <1>3 DEF RemovedHoldsNothing, Moves, IdentitiesMove
  <2> QED BY <1>1, <2>1, <2>2, <2>3
<1>4. CASE Removes(m)
  <2>1. Offboard(m)
    BY <1>4, RemovesOffboards
  <2>2. \A s \in Sessions : session'[s].of = m => session'[s].state = "ENDED"
    BY <2>1 DEF Offboard, FormInv, SessionRows
  <2>3. \A p \in Passkeys : passkey'[p].of = m => passkey'[p].state = "REVOKED"
    BY <2>1 DEF Offboard, FormInv, PasskeyRows
  <2>4. \A x \in Identities : identity'[x].of = m => ~identity'[x].live
    BY <2>1 DEF Offboard, FormInv, IdentityRows
  <2> QED BY <1>1, <2>2, <2>3, <2>4
<1> QED BY <1>2, <1>3, <1>4

LEMMA UsedKept ==
    ASSUME FormInv, SpentInv, UsedOnce, Moves
    PROVE  UsedOnce'
<1>1. ASSUME NEW m \in Members, NEW n \in Members, m # n, member'[m].by = member'[n].by
      PROVE  member'[m].by = None
  <2>1. ASSUME NEW k \in Members, NEW l \in Members, k # l, Joined(k), member'[k].by = member'[l].by
        PROVE  member'[k].by = None
    <3>1. member'[l].by = member[l].by /\ Spent(member[l].by)
      BY <2>1 DEF Joined, SpentInv
    <3> QED BY <2>1, <3>1 DEF Joined, Buys
  <2>2. CASE Joined(m) \/ Joined(n)
    BY <1>1, <2>1, <2>2
  <2>3. CASE Stayed(m) /\ Stayed(n)
    BY <1>1, <2>3 DEF Stayed, UsedOnce
  <2> QED BY <2>2, <2>3 DEF Moves, MembersMove
<1>2. ASSUME NEW p \in Passkeys, NEW q \in Passkeys, p # q, passkey'[p].by = passkey'[q].by
      PROVE  passkey'[p].by = None
  <2>1. ASSUME NEW k \in Passkeys, NEW l \in Passkeys, k # l, Enrolled(k), passkey'[k].by = passkey'[l].by
        PROVE  passkey'[k].by = None
    <3>1. passkey'[l].by = passkey[l].by /\ Spent(passkey[l].by)
      BY <2>1 DEF Enrolled, SpentInv
    <3> QED BY <2>1, <3>1 DEF Enrolled, Buys
  <2>2. CASE Enrolled(p) \/ Enrolled(q)
    BY <1>2, <2>1, <2>2
  <2>3. CASE Remained(p) /\ Remained(q)
    BY <1>2, <2>3 DEF Remained, UsedOnce
  <2> QED BY <2>2, <2>3 DEF Moves, PasskeysMove
<1>3. ASSUME NEW s \in Sessions, NEW t \in Sessions, s # t, session'[s].by = session'[t].by
      PROVE  session'[s].by = None
  <2>1. ASSUME NEW k \in Sessions, NEW l \in Sessions, k # l, Began(k), session'[k].by = session'[l].by
        PROVE  session'[k].by = None
    <3>1. session'[l].by = session[l].by /\ Spent(session[l].by)
      BY <2>1 DEF Began, SpentInv
    <3> QED BY <2>1, <3>1 DEF Began, Buys
  <2>2. CASE Began(s) \/ Began(t)
    BY <1>3, <2>1, <2>2
  <2>3. CASE Lasted(s) /\ Lasted(t)
    BY <1>3, <2>3 DEF Lasted, UsedOnce
  <2> QED BY <2>2, <2>3 DEF Moves, SessionsMove
<1>4. ASSUME NEW i \in Invitations, NEW j \in Invitations, i # j,
             invitation'[i].by = invitation'[j].by
      PROVE  invitation'[i].by = None
  <2>1. ASSUME NEW k \in Invitations, NEW l \in Invitations, k # l,
               invitation'[k].by \in Keys \ receipts, invitation'[l].by = invitation[l].by,
               invitation'[k].by = invitation'[l].by
        PROVE  FALSE
    BY <2>1, NamesAssumption DEF SpentInv
  <2> QED BY <1>4, <2>1 DEF Moves, InvitationsMove, UsedOnce
<1> QED BY <1>1, <1>2, <1>3, <1>4 DEF UsedOnce

LEMMA RefreshedKept ==
    ASSUME FormInv, FamiliesInv, RefreshedOnce, Moves
    PROVE  RefreshedOnce'
<1> SUFFICES ASSUME NEW f \in Families, NEW t \in family'[f].tokens, NEW u \in family'[f].tokens,
                    t[1] = u[1]
             PROVE  t = u
  BY DEF RefreshedOnce
<1>1. Issued(f) /\ family[f] \in FamilyRows
  BY DEF Moves, FamiliesMove, FormInv
<1>2. \A w \in family[f].tokens : w[1] < family[f].generation /\ w[1] \in Nat
  BY <1>1 DEF FamiliesInv, FamilyRows
<1>3. family[f].generation \in Nat
  BY <1>1, IdentityAssumption DEF FamilyRows
<1>4. \A w \in family[f].tokens : w[1] # family[f].generation
  BY <1>2, <1>3
<1>5. \A v, w \in family[f].tokens : v[1] = w[1] => v = w
  BY DEF RefreshedOnce
<1>6. family[f].state # "LIVE" => family[f].tokens = {}
  BY DEF FamiliesInv
<1>7. \/ family'[f].tokens = family[f].tokens \/ family'[f].tokens = {}
      \/ \E w : family'[f].tokens = {w}
      \/ \E c \in Clients : family'[f].tokens = family[f].tokens \cup {<<family[f].generation, c>>}
  BY <1>1, <1>6 DEF Issued
<1> QED BY <1>4, <1>5, <1>7

LEMMA IdentityKept ==
    ASSUME IdentityInv, [MembershipNext]_membershipVars
    PROVE  IdentityInv'
<1> USE DEF IdentityInv
<1>1. IdentityStep
  BY StepsOfIdentity
<1>2. Moves
  BY <1>1, StepMoves
<1>3. WorkMove
  BY <1>1, <1>2, WorkStep
<1>4. FormInv' /\ OwnerFirst' /\ FamiliesInv' /\ SpentInv'
  BY <1>1, <1>2, <1>3, FormKept, OwnerKept, FamiliesKept, SpentKept
<1>5. RemovedHoldsNothing' /\ UsedOnce' /\ RefreshedOnce'
  BY <1>1, <1>2, <1>4, RemovedKept, UsedKept, RefreshedKept
<1> QED BY <1>4, <1>5


\* An empty database, or a deployment in use, begins within it.
LEMMA IdentityBegins ==
    ASSUME Init
    PROVE  IdentityInv
<1> DEFINE present == IF "BOOTSTRAP" \in workload THEN {}
                      ELSE IF workload \cap {"ROLE", "REMOVE", "RUNNER", "PAIR"} # {} THEN Owners
                      ELSE {CHOOSE o \in Owners : TRUE}
           home == CHOOSE f \in [present -> Sessions] : IsInjective(f)
           key == CHOOSE f \in [present -> Passkeys] : IsInjective(f)
           first == CHOOSE o \in Owners : TRUE
<1>1. first \in Owners /\ Owners \subseteq Members
  BY IdentityAssumption
<1>2. present \subseteq Members
  BY <1>1
<1>3. member = [m \in Members |->
         [status |-> IF m \in present THEN "ACTIVE" ELSE "NONE",
          role |-> IF m \in present THEN "OWNER" ELSE "MEMBER", by |-> None]]
  BY DEF Init
<1>4. session = [s \in Sessions |->
         IF \E m \in present : home[m] = s
         THEN [NoSession EXCEPT !.state = "LIVE", !.of = CHOOSE m \in present : home[m] = s]
         ELSE NoSession]
  BY DEF Init
<1>5. passkey = [p \in Passkeys |->
         IF \E m \in present : key[m] = p
         THEN [NoPasskey EXCEPT !.state = "LIVE", !.of = CHOOSE m \in present : key[m] = p]
         ELSE NoPasskey]
  BY DEF Init
<1>6. "PAIR" \in workload => first \in present
  BY <1>1, RegistryAssumption DEF Init
<1> HIDE DEF present, home, key, first
<1>7. /\ member \in [Members -> MemberRows]
      /\ \A m \in Members : /\ member[m].status = IF m \in present THEN "ACTIVE" ELSE "NONE"
                            /\ member[m].role = IF m \in present THEN "OWNER" ELSE "MEMBER"
                            /\ member[m].by = None
  BY <1>3 DEF MemberRows, Roles
<1>8. ASSUME NEW s \in Sessions
      PROVE  /\ session[s] \in SessionRows /\ session[s].by = None
             /\ session[s].state # "NONE" => session[s].of \in Members
  <2>1. CASE \E m \in present : home[m] = s
    <3> DEFINE m == CHOOSE n \in present : home[n] = s
    <3>1. m \in Members
      BY <1>2, <2>1
    <3> HIDE DEF m
    <3>2. session[s] = [NoSession EXCEPT !.state = "LIVE", !.of = m]
      BY <1>4, <2>1 DEF m
    <3> QED BY <3>1, <3>2 DEF NoSession, SessionRows, Kinds, Origins
  <2>2. CASE ~\E m \in present : home[m] = s
    BY <1>4, <2>2 DEF NoSession, SessionRows, Kinds, Origins
  <2> QED BY <2>1, <2>2
<1>9. ASSUME NEW p \in Passkeys
      PROVE  /\ passkey[p] \in PasskeyRows /\ passkey[p].by = None
             /\ passkey[p].state # "NONE" => passkey[p].of \in Members
  <2>1. CASE \E m \in present : key[m] = p
    <3> DEFINE m == CHOOSE n \in present : key[n] = p
    <3>1. m \in Members
      BY <1>2, <2>1
    <3> HIDE DEF m
    <3>2. passkey[p] = [NoPasskey EXCEPT !.state = "LIVE", !.of = m]
      BY <1>5, <2>1 DEF m
    <3> QED BY <3>1, <3>2 DEF NoPasskey, PasskeyRows
  <2>2. CASE ~\E m \in present : key[m] = p
    BY <1>5, <2>2 DEF NoPasskey, PasskeyRows
  <2> QED BY <2>1, <2>2
<1>10. /\ challenge \in [Challenges -> ChallengeRows]
       /\ invitation \in [Invitations -> InvitationRows]
       /\ \A i \in Invitations : invitation[i].state = "NONE" /\ invitation[i].by = None
       /\ identity \in [Identities -> IdentityRows]
  BY DEF Init, ChallengeRows, InvitationRows, IdentityRows, Purposes
<1>11. recovery \in [Members -> RecoveryRows]
  <2>1. [generation |-> 0, unused |-> {}] \in RecoveryRows
    BY IdentityAssumption DEF RecoveryRows
  <2>2. recovery = [m \in Members |-> [generation |-> 0, unused |-> {}]]
    BY DEF Init
  <2> QED BY <2>1, <2>2
<1>12. /\ hostCode \subseteq Members /\ receipts \subseteq Keys
       /\ outbox \in [Members -> {"NONE", "PENDING", "DISPATCHED"}]
       /\ work \in [Clients -> Works] /\ \A c \in Clients : work[c] = Idle
  BY DEF Init, Works
<1>13. ASSUME NEW f \in Families
       PROVE  /\ family[f] \in FamilyRows /\ family[f].tokens = {}
              /\ family[f].state \in {"NONE", "LIVE"}
              /\ family[f].state = "LIVE" => family[f].of \in Members /\ Active(family[f].of)
  <2>1. 1 \in 0..(MaxRefreshes + 1) /\ 0 \in 0..(MaxRefreshes + 1)
    BY IdentityAssumption
  <2>2. family[f] = IF "PAIR" \in workload
           THEN [state |-> "LIVE", of |-> first, generation |-> 1, tokens |-> {}]
           ELSE [state |-> "NONE", of |-> None, generation |-> 0, tokens |-> {}]
    BY DEF Init, first
  <2>3. CASE "PAIR" \in workload
    <3>1. family[f] = [state |-> "LIVE", of |-> first, generation |-> 1, tokens |-> {}]
      BY <2>2, <2>3
    <3>2. first \in Members /\ Active(first)
      BY <1>1, <1>6, <1>7, <2>3 DEF Active
    <3> QED BY <2>1, <3>1, <3>2 DEF FamilyRows
  <2>4. CASE "PAIR" \notin workload
    <3>1. family[f] = [state |-> "NONE", of |-> None, generation |-> 0, tokens |-> {}]
      BY <2>2, <2>4
    <3> QED BY <2>1, <3>1 DEF FamilyRows
  <2> QED BY <2>3, <2>4
<1>14. /\ session \in [Sessions -> SessionRows] /\ passkey \in [Passkeys -> PasskeyRows]
       /\ family \in [Families -> FamilyRows]
  <2>1. /\ session = [s \in Sessions |-> session[s]] /\ passkey = [p \in Passkeys |-> passkey[p]]
        /\ family = [f \in Families |-> family[f]]
    BY <1>4, <1>5 DEF Init
  <2> HIDE DEF SessionRows, PasskeyRows, FamilyRows
  <2> QED BY <1>8, <1>9, <1>13, <2>1
<1>15. FormInv
  BY <1>7, <1>8, <1>9, <1>10, <1>11, <1>12, <1>13, <1>14 DEF FormInv
<1>16. OwnerFirst
  BY <1>2, <1>7, <1>10 DEF OwnerFirst, OwnerRemains, Bootstrapped, ActiveOwners, Active
<1>17. FamiliesInv
  BY <1>12, <1>13 DEF FamiliesInv, InWork, Idle
<1>18. SpentInv
  BY <1>7, <1>8, <1>9, <1>10, <1>12, SpentNone DEF SpentInv, InWork, Idle
<1>19. RemovedHoldsNothing
  BY <1>7 DEF RemovedHoldsNothing
<1>20. UsedOnce /\ RefreshedOnce
  BY <1>7, <1>8, <1>9, <1>10, <1>13 DEF UsedOnce, RefreshedOnce
<1> QED BY <1>15, <1>16, <1>17, <1>18, <1>19, <1>20 DEF IdentityInv


-------------------------------------------------------------------------------
(* Theorems about Identity.                                                *)

\* Identity's invariant holds of every behaviour.
LEMMA IdentityHolds == MembershipSpec => []IdentityInv
<1>1. MembershipInit => IdentityInv
  BY IdentityBegins DEF MembershipInit
<1>2. IdentityInv /\ [MembershipNext]_membershipVars => IdentityInv'
  BY IdentityKept
<1> QED BY <1>1, <1>2, PTL DEF MembershipSpec

\* Once bootstrapped the deployment has an active owner, whoever demotes or removes whom
\* at once (identity-authority.ts:1445, revocation.ts:86).
THEOREM OwnersRemain == MembershipSpec => []OwnerRemains
<1>1. IdentityInv => OwnerRemains
  BY DEF IdentityInv, OwnerFirst
<1> QED BY <1>1, IdentityHolds, PTL

\* A removed member holds no session, passkey, identity, device or token, also none that a
\* command read before the removal and committed after it (revocation.ts:95-133).
THEOREM RemovedMembersHoldNothing == MembershipSpec => []RemovedHoldsNothing
<1>1. IdentityInv => RemovedHoldsNothing
  BY DEF IdentityInv
<1> QED BY <1>1, IdentityHolds, PTL


-------------------------------------------------------------------------------
(* The steps of the registry, and who writes which table.                  *)

\* While the registry works the members stay, and while Identity works none leaves but
\* by the removal that both take part in.
RegistryStep ==
    \/ R!Next /\ ActiveMembers' = ActiveMembers
    \/ \E m \in Members : R!RemoveMember(m)
    \/ UNCHANGED registry /\ ActiveMembers \subseteq ActiveMembers'

LEMMA MembersComeOnly ==
    ASSUME FormInv, Next
    PROVE  ActiveMembers \subseteq ActiveMembers'
<1>1. CASE member' = member
  BY <1>1 DEF ActiveMembers, Active
<1>2. ASSUME NEW m \in Members, NEW role, NEW by, NewMember(m, role, by)
      PROVE  ActiveMembers \subseteq ActiveMembers'
  BY <1>2 DEF NewMember, Newcomers, ActiveMembers, Active, FormInv
<1>3. CASE Reads
  BY <1>1, <1>3 DEF Reads, rowVars
<1>4. CASE Lapse \/ \E c \in Clients : Abandon(c)
  BY <1>1, <1>4 DEF Lapse, Abandon, rowVars
<1>5. ASSUME NEW c \in Clients, NEW m \in Members,
             CommitBootstrap(c, m) \/ CommitAcceptance(c, m) \/ CommitProviderAcceptance(c, m)
      PROVE  ActiveMembers \subseteq ActiveMembers'
  BY <1>2, <1>5 DEF CommitBootstrap, CommitAcceptance, CommitProviderAcceptance
<1>6. ASSUME NEW c \in Clients, CommitRoleChange(c)
      PROVE  ActiveMembers \subseteq ActiveMembers'
  BY <1>6 DEF CommitRoleChange, ActiveMembers, Active, FormInv, MemberRows
<1>7. ASSUME NEW c \in Clients,
             \/ CommitRegistration(c) \/ CommitAuthentication(c) \/ CommitInvite(c)
             \/ CommitRotation(c) \/ CommitRedemption(c) \/ CommitLink(c)
             \/ CommitExchange(c) \/ CommitRefresh(c)
      PROVE  ActiveMembers \subseteq ActiveMembers'
  <2>1. member' = member
    BY <1>7 DEF CommitRegistration, CommitAuthentication, CommitInvite, CommitRotation,
       CommitRedemption, CommitLink, CommitExchange, CommitRefresh
  <2> QED BY <1>1, <2>1
<1>8. ASSUME NEW s \in Sessions,
             \/ \E p \in Passkeys : RevokePasskey(s, p)
             \/ \E i \in Invitations : RevokeInvitation(s, i)
             \/ \E f \in Families : ApproveDevice(s, f)
             \/ GenerateRecoveryCodes(s) \/ BeginMemberRoleChange(s)
      PROVE  ActiveMembers \subseteq ActiveMembers'
  <2>1. member' = member
    BY <1>8 DEF RevokePasskey, RevokeInvitation, ApproveDevice, GenerateRecoveryCodes,
       BeginMemberRoleChange, NewChallenge
  <2> QED BY <1>1, <2>1
<1>9. CASE \/ \E a \in Members \cup Invitations \cup {None} : BeginPasskeyRegistration(a)
           \/ \E p \in Passkeys \cup {None} : BeginPasskeyAuthentication(p)
           \/ \E i \in Invitations : ExchangeInvitation(i)
           \/ \E f \in Families : BeginDevice(f) \/ ReplayRefresh(f)
           \/ \E m \in Members : \/ RedeemHostRecovery(m) \/ GenerateHostRecovery(m)
                                 \/ DispatchRemoval(m)
  <2>1. member' = member
    BY <1>9 DEF BeginPasskeyRegistration, BeginPasskeyAuthentication, NewChallenge,
       ExchangeInvitation, BeginDevice, ReplayRefresh, RedeemHostRecovery, GenerateHostRecovery,
       DispatchRemoval
  <2> QED BY <1>1, <2>1
<1> QED BY <1>3, <1>4, <1>5, <1>6, <1>7, <1>8, <1>9, ReadSteps DEF Next

LEMMA StepsOfRegistry ==
    ASSUME FormInv, [MembershipNext]_membershipVars
    PROVE  RegistryStep
<1>1. CASE Next /\ UNCHANGED registry
  BY <1>1, MembersComeOnly DEF RegistryStep
<1>2. CASE UNCHANGED <<rowVars, work>> /\ R!Next
  BY <1>2 DEF RegistryStep, ActiveMembers, Active, rowVars
<1>3. CASE \E m \in Members : RemoveMember(m)
  BY <1>3 DEF RemoveMember, RegistryStep
<1>4. CASE UNCHANGED membershipVars
  BY <1>4 DEF membershipVars, vars, rowVars, RegistryStep, ActiveMembers, Active
<1> QED BY <1>1, <1>2, <1>3, <1>4 DEF MembershipNext

\* Runners that fall, one or all of a member's.
Falls ==
    \/ \E r \in Runners : R!Revoke(r)
    \/ \E m \in Members : R!RemoveMember(m)
WritesPairing ==
    \/ \E q \in Pairings : R!ExpirePairing(q) \/ R!ConfirmPairing(q)
    \/ \E c \in Clients : R!CommitPairing(c) \/ R!CommitConsumption(c)
    \/ \E m \in Members : R!RemoveMember(m)
WritesRunner ==
    \/ \E c \in Clients : R!CommitConsumption(c)
    \/ \E r \in Runners, audience \in {"OWNER_ONLY", "TEAM"} : R!ReplacePolicy(r, audience)
    \/ Falls
WritesMapping ==
    \/ \E r \in Runners : \/ R!RegisterMapping(r)
                          \/ \E v \in R!Revisions : R!ReplaceMapping(r, v) \/ R!RevokeMapping(r, v)
    \/ Falls
WritesProfile == \E r \in Runners : R!AdvertiseProfile(r)
WritesAcknowledgement ==
    \/ \E r \in Runners, v \in R!Revisions : R!AcknowledgeExposure(r, v)
    \/ \E a \in Acknowledgements : R!RevokeAcknowledgement(a)
    \/ Falls
WritesExposure ==
    \/ \E c \in Clients : R!CommitExposure(c)
    \/ \E e \in Exposures : R!RevokeExposure(e)
    \/ Falls
WritesLease ==
    R!Tick \/ \E t \in Tokens, observed \in SUBSET R!Revisions : R!Heartbeat(t, observed)
WritesToken ==
    \/ R!Restart \/ \E r \in Runners : R!ExchangeCredential(r)
    \/ \E j \in Proofs : R!AuthenticateAccess(j)
WritesProof ==
    \/ \E t \in Tokens, at \in 0..(Horizon + R!SkewTicks) : R!SignProof(t, at)
    \/ \E j \in Proofs : R!AuthenticateAccess(j)
WritesLaunch ==
    \/ \E r \in Runners, audience \in {"OWNER_ONLY", "TEAM"} : R!ReplacePolicy(r, audience)
    \/ \E c \in Clients : R!CommitLaunch(c) \/ R!CommitAttempt(c)
    \/ \E l \in Launches : R!ConsumePermit(l)
WritesCommand ==
    \/ R!Restart
    \/ \E c \in Clients : \/ R!Abandon(c) \/ R!Commit(c)
                          \/ \E m \in Members : R!ReadPairing(c, m)
                          \/ \E q \in Pairings : R!ReadConsumption(c, q)
                          \/ \E a \in Acknowledgements : R!ReadExposure(c, a)
                          \/ \E m \in Members, r \in Runners, v, p \in R!Revisions :
                               R!ReadLaunch(c, m, r, v, p)
                          \/ \E l \in Launches : R!ReadAttempt(c, l)

RegistryWritten ==
    /\ clock' = clock \/ R!Tick
    /\ pairing' = pairing \/ WritesPairing
    /\ runner' = runner \/ WritesRunner
    /\ mapping' = mapping \/ WritesMapping
    /\ profile' = profile \/ WritesProfile
    /\ acknowledgement' = acknowledgement \/ WritesAcknowledgement
    /\ exposure' = exposure \/ WritesExposure
    /\ changes' = changes \/ Falls
    /\ lease' = lease \/ WritesLease
    /\ token' = token \/ WritesToken
    /\ proof' = proof \/ WritesProof
    /\ launch' = launch \/ WritesLaunch
    /\ command' = command \/ WritesCommand


LEMMA RegistryWriters ==
    ASSUME RegistryStep
    PROVE  RegistryWritten
<1>1. ASSUME R!Tick
      PROVE  RegistryWritten
  <2>1. UNCHANGED <<pairing, runner, mapping, profile, acknowledgement, exposure, changes,
      token, proof, launch, command>>
    BY <1>1 DEF R!Tick, R!grants, R!sessions
  <2>2. WritesLease
    BY <1>1 DEF WritesLease
  <2> QED BY <2>1, <2>2, <1>1 DEF RegistryWritten
<1>2. ASSUME NEW q \in Pairings,
             R!ExpirePairing(q)
      PROVE  RegistryWritten
  <2>1. UNCHANGED <<clock, runner, mapping, profile, acknowledgement, exposure, changes, lease,
      token, proof, launch, command>>
    BY <1>2 DEF R!ExpirePairing, R!Requested, R!grants, R!sessions
  <2>2. WritesPairing
    BY <1>2 DEF WritesPairing
  <2> QED BY <2>1, <2>2 DEF RegistryWritten
<1>3. ASSUME R!Restart
      PROVE  RegistryWritten
  <2>1. UNCHANGED <<clock, pairing, runner, mapping, profile, acknowledgement, exposure,
      changes, lease, proof, launch>>
    BY <1>3 DEF R!Restart, R!grants, R!sessions
  <2>2. WritesToken /\ WritesCommand
    BY <1>3 DEF WritesToken, WritesCommand
  <2> QED BY <2>1, <2>2 DEF RegistryWritten
<1>4. ASSUME NEW c \in Clients,
             R!Abandon(c)
      PROVE  RegistryWritten
  <2>1. UNCHANGED <<clock, pairing, runner, mapping, profile, acknowledgement, exposure,
      changes, lease, token, proof, launch>>
    BY <1>4 DEF R!Abandon, R!grants, R!sessions
  <2>2. WritesCommand
    BY <1>4 DEF WritesCommand
  <2> QED BY <2>1, <2>2 DEF RegistryWritten
<1>5. ASSUME NEW c \in Clients,
             R!CommitPairing(c)
      PROVE  RegistryWritten
  <2>1. UNCHANGED <<clock, runner, mapping, profile, acknowledgement, exposure, changes, lease,
      token, proof, launch>>
    BY <1>5 DEF R!CommitPairing, R!Commit, R!grants, R!sessions
  <2>2. WritesPairing /\ WritesCommand
    BY <1>5 DEF WritesPairing, WritesCommand, R!CommitPairing
  <2> QED BY <2>1, <2>2 DEF RegistryWritten
<1>6. ASSUME NEW c \in Clients, NEW m \in Members,
             R!ReadPairing(c, m)
      PROVE  RegistryWritten
  <2>1. UNCHANGED <<clock, pairing, runner, mapping, profile, acknowledgement, exposure,
      changes, lease, token, proof, launch>>
    BY <1>6 DEF R!ReadPairing, R!Read, R!grants, R!sessions
  <2>2. WritesCommand
    BY <1>6 DEF WritesCommand
  <2> QED BY <2>1, <2>2 DEF RegistryWritten
<1>7. ASSUME NEW q \in Pairings,
             R!ConfirmPairing(q)
      PROVE  RegistryWritten
  <2>1. UNCHANGED <<clock, runner, mapping, profile, acknowledgement, exposure, changes, lease,
      token, proof, launch, command>>
    BY <1>7 DEF R!ConfirmPairing, R!Requested, R!grants, R!sessions
  <2>2. WritesPairing
    BY <1>7 DEF WritesPairing
  <2> QED BY <2>1, <2>2 DEF RegistryWritten
<1>8. ASSUME NEW c \in Clients,
             R!CommitConsumption(c)
      PROVE  RegistryWritten
  <2>1. UNCHANGED <<clock, mapping, profile, acknowledgement, exposure, changes, lease, token,
      proof, launch>>
    BY <1>8 DEF R!CommitConsumption, R!Commit, R!NewRunner, R!grants, R!sessions
  <2>2. WritesPairing /\ WritesRunner /\ WritesCommand
    BY <1>8 DEF WritesPairing, WritesRunner, WritesCommand, R!CommitConsumption
  <2> QED BY <2>1, <2>2 DEF RegistryWritten
<1>9. ASSUME NEW c \in Clients, NEW q \in Pairings,
             R!ReadConsumption(c, q)
      PROVE  RegistryWritten
  <2>1. UNCHANGED <<clock, pairing, runner, mapping, profile, acknowledgement, exposure,
      changes, lease, token, proof, launch>>
    BY <1>9 DEF R!ReadConsumption, R!Read, R!grants, R!sessions
  <2>2. WritesCommand
    BY <1>9 DEF WritesCommand
  <2> QED BY <2>1, <2>2 DEF RegistryWritten
<1>10. ASSUME NEW r \in Runners,
             R!RegisterMapping(r)
      PROVE  RegistryWritten
  <2>1. UNCHANGED <<clock, pairing, runner, profile, acknowledgement, exposure, changes, lease,
      token, proof, launch, command>>
    BY <1>10 DEF R!RegisterMapping, R!Requested, R!grants, R!sessions
  <2>2. WritesMapping
    BY <1>10 DEF WritesMapping
  <2> QED BY <2>1, <2>2 DEF RegistryWritten
<1>11. ASSUME NEW r \in Runners, NEW v \in R!Revisions,
             R!ReplaceMapping(r, v) \/ R!RevokeMapping(r, v)
      PROVE  RegistryWritten
  <2>1. UNCHANGED <<clock, pairing, runner, profile, acknowledgement, exposure, changes, lease,
      token, proof, launch, command>>
    BY <1>11 DEF R!ReplaceMapping, R!RevokeMapping, R!Requested, R!grants, R!sessions
  <2>2. WritesMapping
    BY <1>11 DEF WritesMapping
  <2> QED BY <2>1, <2>2 DEF RegistryWritten
<1>12. ASSUME NEW r \in Runners,
             R!AdvertiseProfile(r)
      PROVE  RegistryWritten
  <2>1. UNCHANGED <<clock, pairing, runner, mapping, acknowledgement, exposure, changes, lease,
      token, proof, launch, command>>
    BY <1>12 DEF R!AdvertiseProfile, R!Requested, R!grants, R!sessions
  <2>2. WritesProfile
    BY <1>12 DEF WritesProfile
  <2> QED BY <2>1, <2>2 DEF RegistryWritten
<1>13. ASSUME NEW r \in Runners, NEW v \in R!Revisions,
             R!AcknowledgeExposure(r, v)
      PROVE  RegistryWritten
  <2>1. UNCHANGED <<clock, pairing, runner, mapping, profile, exposure, changes, lease, token,
      proof, launch, command>>
    BY <1>13 DEF R!AcknowledgeExposure, R!Requested, R!grants, R!sessions
  <2>2. WritesAcknowledgement
    BY <1>13 DEF WritesAcknowledgement
  <2> QED BY <2>1, <2>2 DEF RegistryWritten
<1>14. ASSUME NEW a \in Acknowledgements,
             R!RevokeAcknowledgement(a)
      PROVE  RegistryWritten
  <2>1. UNCHANGED <<clock, pairing, runner, mapping, profile, exposure, changes, lease, token,
      proof, launch, command>>
    BY <1>14 DEF R!RevokeAcknowledgement, R!Requested, R!grants, R!sessions
  <2>2. WritesAcknowledgement
    BY <1>14 DEF WritesAcknowledgement
  <2> QED BY <2>1, <2>2 DEF RegistryWritten
<1>15. ASSUME NEW c \in Clients,
             R!CommitExposure(c)
      PROVE  RegistryWritten
  <2>1. UNCHANGED <<clock, pairing, runner, mapping, profile, acknowledgement, changes, lease,
      token, proof, launch>>
    BY <1>15 DEF R!CommitExposure, R!Commit, R!grants, R!sessions
  <2>2. WritesExposure /\ WritesCommand
    BY <1>15 DEF WritesExposure, WritesCommand, R!CommitExposure
  <2> QED BY <2>1, <2>2 DEF RegistryWritten
<1>16. ASSUME NEW c \in Clients, NEW a \in Acknowledgements,
             R!ReadExposure(c, a)
      PROVE  RegistryWritten
  <2>1. UNCHANGED <<clock, pairing, runner, mapping, profile, acknowledgement, exposure,
      changes, lease, token, proof, launch>>
    BY <1>16 DEF R!ReadExposure, R!Read, R!grants, R!sessions
  <2>2. WritesCommand
    BY <1>16 DEF WritesCommand
  <2> QED BY <2>1, <2>2 DEF RegistryWritten
<1>17. ASSUME NEW e \in Exposures,
             R!RevokeExposure(e)
      PROVE  RegistryWritten
  <2>1. UNCHANGED <<clock, pairing, runner, mapping, profile, acknowledgement, changes, lease,
      token, proof, launch, command>>
    BY <1>17 DEF R!RevokeExposure, R!Requested, R!grants, R!sessions
  <2>2. WritesExposure
    BY <1>17 DEF WritesExposure
  <2> QED BY <2>1, <2>2 DEF RegistryWritten
<1>18. ASSUME NEW r \in Runners, NEW audience \in {"OWNER_ONLY", "TEAM"},
             R!ReplacePolicy(r, audience)
      PROVE  RegistryWritten
  <2>1. UNCHANGED <<clock, pairing, mapping, profile, acknowledgement, exposure, changes, lease,
      token, proof, command>>
    BY <1>18 DEF R!ReplacePolicy, R!Requested, R!grants, R!sessions
  <2>2. WritesRunner /\ WritesLaunch
    BY <1>18 DEF WritesRunner, WritesLaunch
  <2> QED BY <2>1, <2>2 DEF RegistryWritten
<1>19. ASSUME NEW r \in Runners,
             R!Revoke(r)
      PROVE  RegistryWritten
  <2>1. UNCHANGED <<clock, pairing, profile, lease, token, proof, launch, command>>
    BY <1>19 DEF R!Revoke, R!Requested, R!grants, R!sessions
  <2>2. WritesRunner /\ WritesMapping /\ WritesAcknowledgement /\ WritesExposure /\ Falls
    BY <1>19 DEF WritesRunner, WritesMapping, WritesAcknowledgement, WritesExposure, Falls
  <2> QED BY <2>1, <2>2 DEF RegistryWritten
<1>20. ASSUME NEW m \in Members,
             R!RemoveMember(m)
      PROVE  RegistryWritten
  <2>1. UNCHANGED <<clock, profile, lease, token, proof, launch, command>>
    BY <1>20 DEF R!RemoveMember, R!grants, R!sessions
  <2>2. WritesPairing /\ WritesRunner /\ WritesMapping /\ WritesAcknowledgement /\ WritesExposure /\ Falls
    BY <1>20 DEF WritesPairing, WritesRunner, WritesMapping, WritesAcknowledgement,
       WritesExposure, Falls
  <2> QED BY <2>1, <2>2 DEF RegistryWritten
<1>21. ASSUME NEW r \in Runners,
             R!ExchangeCredential(r)
      PROVE  RegistryWritten
  <2>1. UNCHANGED <<clock, pairing, runner, mapping, profile, acknowledgement, exposure,
      changes, lease, proof, launch, command>>
    BY <1>21 DEF R!ExchangeCredential, R!Requested, R!grants, R!sessions
  <2>2. WritesToken
    BY <1>21 DEF WritesToken
  <2> QED BY <2>1, <2>2 DEF RegistryWritten
<1>22. ASSUME NEW t \in Tokens, NEW at \in 0..(Horizon + R!SkewTicks),
             R!SignProof(t, at)
      PROVE  RegistryWritten
  <2>1. UNCHANGED <<clock, pairing, runner, mapping, profile, acknowledgement, exposure,
      changes, lease, token, launch, command>>
    BY <1>22 DEF R!SignProof, R!Requested, R!grants, R!sessions
  <2>2. WritesProof
    BY <1>22 DEF WritesProof
  <2> QED BY <2>1, <2>2 DEF RegistryWritten
<1>23. ASSUME NEW j \in Proofs,
             R!AuthenticateAccess(j)
      PROVE  RegistryWritten
  <2>1. UNCHANGED <<clock, pairing, runner, mapping, profile, acknowledgement, exposure,
      changes, lease, launch, command>>
    BY <1>23 DEF R!AuthenticateAccess, R!Requested, R!grants, R!sessions
  <2>2. WritesToken /\ WritesProof
    BY <1>23 DEF WritesToken, WritesProof
  <2> QED BY <2>1, <2>2 DEF RegistryWritten
<1>24. ASSUME NEW t \in Tokens, NEW observed \in SUBSET R!Revisions,
             R!Heartbeat(t, observed)
      PROVE  RegistryWritten
  <2>1. UNCHANGED <<clock, pairing, runner, mapping, profile, acknowledgement, exposure,
      changes, token, proof, launch, command>>
    BY <1>24 DEF R!Heartbeat, R!Requested, R!grants, R!sessions
  <2>2. WritesLease
    BY <1>24 DEF WritesLease
  <2> QED BY <2>1, <2>2 DEF RegistryWritten
<1>25. ASSUME NEW c \in Clients, NEW m \in Members, NEW r \in Runners, NEW v \in R!Revisions,
             NEW p \in R!Revisions,
             R!ReadLaunch(c, m, r, v, p)
      PROVE  RegistryWritten
  <2>1. UNCHANGED <<clock, pairing, runner, mapping, profile, acknowledgement, exposure,
      changes, lease, token, proof, launch>>
    BY <1>25 DEF R!ReadLaunch, R!Read, R!grants, R!sessions
  <2>2. WritesCommand
    BY <1>25 DEF WritesCommand
  <2> QED BY <2>1, <2>2 DEF RegistryWritten
<1>26. ASSUME NEW c \in Clients,
             R!CommitLaunch(c)
      PROVE  RegistryWritten
  <2>1. UNCHANGED <<clock, pairing, runner, mapping, profile, acknowledgement, exposure,
      changes, lease, token, proof>>
    BY <1>26 DEF R!CommitLaunch, R!Commit, R!grants, R!sessions
  <2>2. WritesLaunch /\ WritesCommand
    BY <1>26 DEF WritesLaunch, WritesCommand, R!CommitLaunch
  <2> QED BY <2>1, <2>2 DEF RegistryWritten
<1>27. ASSUME NEW c \in Clients, NEW l \in Launches,
             R!ReadAttempt(c, l)
      PROVE  RegistryWritten
  <2>1. UNCHANGED <<clock, pairing, runner, mapping, profile, acknowledgement, exposure,
      changes, lease, token, proof, launch>>
    BY <1>27 DEF R!ReadAttempt, R!Read, R!grants, R!sessions
  <2>2. WritesCommand
    BY <1>27 DEF WritesCommand
  <2> QED BY <2>1, <2>2 DEF RegistryWritten
<1>28. ASSUME NEW c \in Clients,
             R!CommitAttempt(c)
      PROVE  RegistryWritten
  <2>1. UNCHANGED <<clock, pairing, runner, mapping, profile, acknowledgement, exposure,
      changes, lease, token, proof>>
    BY <1>28 DEF R!CommitAttempt, R!Commit, R!grants, R!sessions
  <2>2. WritesLaunch /\ WritesCommand
    BY <1>28 DEF WritesLaunch, WritesCommand, R!CommitAttempt
  <2> QED BY <2>1, <2>2 DEF RegistryWritten
<1>29. ASSUME NEW l \in Launches,
             R!ConsumePermit(l)
      PROVE  RegistryWritten
  <2>1. UNCHANGED <<clock, pairing, runner, mapping, profile, acknowledgement, exposure,
      changes, lease, token, proof, command>>
    BY <1>29 DEF R!ConsumePermit, R!Requested, R!grants, R!sessions
  <2>2. WritesLaunch
    BY <1>29 DEF WritesLaunch
  <2> QED BY <2>1, <2>2 DEF RegistryWritten
<1>30. CASE UNCHANGED registry
  BY <1>30 DEF registry, RegistryWritten
<1> QED BY <1>1, <1>2, <1>3, <1>4, <1>5, <1>6, <1>7, <1>8, <1>9, <1>10, <1>11, <1>12, <1>13,
    <1>14, <1>15, <1>16, <1>17, <1>18, <1>19, <1>20, <1>21, <1>22, <1>23, <1>24, <1>25, <1>26,
    <1>27, <1>28, <1>29, <1>30 DEF RegistryStep, R!Next


-------------------------------------------------------------------------------
(* What a step may do to each table of the registry.                       *)

LEMMA RoomInTable ==
    ASSUME NEW table, R!HasNew(table)
    PROVE  R!NewIn(table) \in DOMAIN table /\ table[R!NewIn(table)].state = "NONE"
BY DEF R!HasNew, R!NewIn

\* What a command of the registry brings with it.
LEMMA CommandForms ==
    ASSUME NEW w \in Commands
    PROVE  /\ w.op = "PAIR" => w.with.member \in Members
           /\ w.op = "CONSUME" => w.with.pairing \in Pairings
           /\ w.op = "EXPOSE" => w.with.acknowledgement \in Acknowledgements
           /\ w.op = "LAUNCH" => w.with \in LaunchRequests
           /\ w.op = "ATTEMPT" => w.with.launch \in Launches /\ w.with.facts \in LaunchRows
BY DEF Commands

\* Runners that fall were live, and take with them what rests on them.
LEMMA FallsWithdraw ==
    ASSUME FormInv, Falls
    PROVE  \E gone \in SUBSET Runners :
             /\ R!Withdraw(gone)
             /\ \A r \in gone : runner[r].state = "LIVE"
             /\ \A r \in Runners : runner[r].state = "LIVE" /\ r \notin gone =>
                  runner[r].owner \notin ActiveMembers \/ runner[r].owner \in ActiveMembers'
<1>1. ASSUME NEW r \in Runners, R!Revoke(r)
      PROVE  /\ R!Withdraw({r}) /\ runner[r].state = "LIVE" /\ ActiveMembers' = ActiveMembers
  BY <1>1 DEF R!Revoke, R!OwnedBy
<1>2. ASSUME NEW m \in Members, R!RemoveMember(m)
      PROVE  /\ R!Withdraw({r \in Runners : runner[r].state = "LIVE" /\ runner[r].owner = m})
             /\ ActiveMembers' = ActiveMembers \ {m}
  BY <1>2 DEF R!RemoveMember
<1>3. ASSUME NEW m \in Members, R!RemoveMember(m)
      PROVE  \E gone \in SUBSET Runners :
               /\ R!Withdraw(gone)
               /\ \A r \in gone : runner[r].state = "LIVE"
               /\ \A r \in Runners : runner[r].state = "LIVE" /\ r \notin gone =>
                    runner[r].owner \notin ActiveMembers \/ runner[r].owner \in ActiveMembers'
  <2> DEFINE gone == {r \in Runners : runner[r].state = "LIVE" /\ runner[r].owner = m}
  <2>1. R!Withdraw(gone) /\ ActiveMembers' = ActiveMembers \ {m}
    BY <1>2, <1>3
  <2>2. gone \in SUBSET Runners /\ \A r \in gone : runner[r].state = "LIVE"
    OBVIOUS
  <2>3. \A r \in Runners : runner[r].state = "LIVE" /\ r \notin gone => runner[r].owner # m
    OBVIOUS
  <2> HIDE DEF gone
  <2> QED BY <2>1, <2>2, <2>3
<1>4. ASSUME NEW r \in Runners, R!Revoke(r)
      PROVE  \E gone \in SUBSET Runners :
               /\ R!Withdraw(gone)
               /\ \A s \in gone : runner[s].state = "LIVE"
               /\ \A s \in Runners : runner[s].state = "LIVE" /\ s \notin gone =>
                    runner[s].owner \notin ActiveMembers \/ runner[s].owner \in ActiveMembers'
  <2> DEFINE gone == {r}
  <2>1. R!Withdraw(gone) /\ ActiveMembers' = ActiveMembers
    BY <1>1, <1>4
  <2>2. gone \in SUBSET Runners /\ \A s \in gone : runner[s].state = "LIVE"
    BY <1>1, <1>4
  <2> HIDE DEF gone
  <2> QED BY <2>1, <2>2
<1> QED BY <1>3, <1>4 DEF Falls

\* A pairing is of one member, and ends for good.
PairingsMove ==
    /\ pairing' \in [Pairings -> PairingRows]
    /\ \A q \in Pairings :
         \/ pairing'[q] = pairing[q]
         \/ pairing[q].state = "NONE" /\ pairing'[q].of \in Members
         \/ /\ pairing[q].state \in {"PENDING", "CONFIRMED"} /\ pairing'[q].state # "NONE"
            /\ pairing'[q].of = pairing[q].of

LEMMA PairingsStep ==
    ASSUME RegistryForm, RegistryStep
    PROVE  PairingsMove
<1>1. CASE pairing' = pairing
  BY <1>1 DEF RegistryForm, PairingsMove
<1>2. ASSUME NEW q \in Pairings, NEW state \in {"CONFIRMED", "CONSUMED", "ENDED"},
             pairing[q].state \in {"PENDING", "CONFIRMED"},
             pairing' = [pairing EXCEPT ![q].state = state]
      PROVE  PairingsMove
  BY <1>2 DEF RegistryForm, PairingRows, PairingsMove
<1>3. ASSUME NEW q \in Pairings, R!ExpirePairing(q) \/ R!ConfirmPairing(q) PROVE PairingsMove
  BY <1>2, <1>3 DEF R!ExpirePairing, R!ConfirmPairing
<1>4. ASSUME NEW c \in Clients, R!CommitConsumption(c) PROVE PairingsMove
  <2>1. command[c].with.pairing \in Pairings
    BY <1>4, CommandForms DEF R!CommitConsumption, R!InWork, RegistryForm
  <2> QED BY <1>2, <1>4, <2>1 DEF R!CommitConsumption, R!NewRunner
<1>5. ASSUME NEW c \in Clients, R!CommitPairing(c) PROVE PairingsMove
  <2> DEFINE q == R!NewIn(pairing)
             row == [state |-> "PENDING", of |-> command[c].with.member]
  <2>1. command[c].with.member \in Members
    BY <1>5, CommandForms DEF R!CommitPairing, R!InWork, RegistryForm
  <2>2. q \in Pairings /\ pairing[q].state = "NONE"
    BY <1>5, RoomInTable DEF R!CommitPairing, RegistryForm
  <2>3. row \in PairingRows /\ row.of \in Members
    BY <2>1 DEF PairingRows
  <2>4. pairing' = [pairing EXCEPT ![q] = row]
    BY <1>5 DEF R!CommitPairing
  <2> HIDE DEF q, row
  <2> QED BY <2>2, <2>3, <2>4 DEF RegistryForm, PairingsMove
<1>6. ASSUME NEW m \in Members, R!RemoveMember(m) PROVE PairingsMove
  <2>1. pairing' = [q \in Pairings |->
           IF pairing[q].state \in {"PENDING", "CONFIRMED"} /\ pairing[q].of = m
           THEN [pairing[q] EXCEPT !.state = "ENDED"] ELSE pairing[q]]
    BY <1>6 DEF R!RemoveMember
  <2> QED BY <2>1 DEF RegistryForm, PairingRows, PairingsMove
<1> QED BY <1>1, <1>3, <1>4, <1>5, <1>6, RegistryWriters DEF RegistryWritten, WritesPairing

\* A runner comes of a confirmed pairing, has a policy of ever later revisions, and falls
\* for good.
Continued(r) ==
    /\ runner'[r].state = runner[r].state /\ runner'[r].owner = runner[r].owner
    /\ runner'[r].by = runner[r].by /\ runner'[r].epoch = runner[r].epoch
    /\ runner'[r].credential = runner[r].credential
    /\ \/ runner'[r].policy = runner[r].policy /\ runner'[r].audience = runner[r].audience
       \/ runner'[r].policy > runner[r].policy
Paired(r) ==
    /\ runner[r].state = "NONE" /\ runner'[r].state = "LIVE" /\ runner'[r].epoch = 1
    /\ runner'[r].policy = 1 /\ runner'[r].credential
    /\ ActiveMembers' = ActiveMembers
    /\ \E q \in Pairings :
         /\ pairing[q].state = "CONFIRMED" /\ pairing'[q].state = "CONSUMED"
         /\ pairing'[q].of = pairing[q].of /\ pairing[q].of \in ActiveMembers
         /\ runner'[r].by = q /\ runner'[r].owner = pairing[q].of
    /\ \A s \in Runners \ {r} : runner'[s] = runner[s]
Fell(r) ==
    /\ runner[r].state = "LIVE" /\ runner'[r].state = "REVOKED"
    /\ runner'[r].owner = runner[r].owner /\ runner'[r].by = runner[r].by
    /\ runner'[r].epoch = runner[r].epoch + 1 /\ ~runner'[r].credential
    /\ runner'[r].policy = runner[r].policy /\ runner'[r].audience = runner[r].audience
RunnersMove ==
    /\ runner' \in [Runners -> RunnerRows]
    /\ \A r \in Runners : Continued(r) \/ Paired(r) \/ Fell(r)

LEMMA RunnersStep ==
    ASSUME FormInv, RegistryForm, RunnersInv, RegistryStep
    PROVE  RunnersMove
<1>1. CASE runner' = runner
  BY <1>1 DEF RegistryForm, RunnersMove, Continued
<1>2. ASSUME NEW c \in Clients, R!CommitConsumption(c) PROVE RunnersMove
  <2> DEFINE q == command[c].with.pairing
             r == R!NewIn(runner)
             row == [state |-> "LIVE", owner |-> pairing[q].of, by |-> q, epoch |-> 1, policy |-> 1,
                     audience |-> "OWNER_ONLY", credential |-> TRUE]
  <2>1. q \in Pairings
    BY <1>2, CommandForms DEF R!CommitConsumption, R!InWork, RegistryForm
  <2>2. r \in Runners /\ runner[r].state = "NONE"
    BY <1>2, RoomInTable DEF R!CommitConsumption, RegistryForm
  <2>3. pairing[q].state = "CONFIRMED" /\ pairing[q].of \in ActiveMembers
    BY <1>2 DEF R!CommitConsumption
  <2>4. /\ runner' = [runner EXCEPT ![r] = row] /\ pairing' = [pairing EXCEPT ![q].state = "CONSUMED"]
        /\ ActiveMembers' = ActiveMembers
    BY <1>2 DEF R!CommitConsumption, R!NewRunner
  <2>5. 1 \in R!Policies
    BY RegistryAssumption DEF R!Policies
  <2>6. pairing[q].of \in Members
    BY <2>3 DEF ActiveMembers
  <2>7. pairing'[q].state = "CONSUMED" /\ pairing'[q].of = pairing[q].of
    BY <2>1, <2>4 DEF RegistryForm, PairingRows
  <2> HIDE DEF q
  <2>8. /\ row \in RunnerRows /\ row.state = "LIVE" /\ row.owner = pairing[q].of /\ row.by = q
        /\ row.epoch = 1 /\ row.policy = 1 /\ row.credential
    BY <2>1, <2>5, <2>6 DEF RunnerRows
  <2> HIDE DEF row, r
  <2>9. runner'[r] = row /\ \A s \in Runners \ {r} : runner'[s] = runner[s]
    BY <2>2, <2>4 DEF RegistryForm
  <2>10. Paired(r)
    BY <2>1, <2>2, <2>3, <2>4, <2>7, <2>8, <2>9 DEF Paired
  <2>11. \A s \in Runners \ {r} : Continued(s)
    BY <2>9 DEF Continued
  <2> QED BY <2>4, <2>8, <2>10, <2>11 DEF RegistryForm, RunnersMove
<1>3. ASSUME NEW r \in Runners, NEW audience \in {"OWNER_ONLY", "TEAM"}, R!ReplacePolicy(r, audience)
      PROVE  RunnersMove
  <2> DEFINE policy == runner[r].policy + 1
             row == [runner[r] EXCEPT !.audience = audience, !.policy = policy]
  <2>1. runner[r].policy \in 1..MaxPolicy /\ runner[r].policy < MaxPolicy
    BY <1>3 DEF R!ReplacePolicy, RegistryForm, RunnerRows, R!Policies
  <2>2. policy \in R!Policies /\ policy > runner[r].policy
    BY <2>1, RegistryAssumption DEF R!Policies
  <2>3. runner' = [runner EXCEPT ![r] = row]
    BY <1>3 DEF R!ReplacePolicy
  <2> HIDE DEF policy
  <2>4. /\ row \in RunnerRows /\ row.state = runner[r].state /\ row.owner = runner[r].owner
        /\ row.by = runner[r].by /\ row.epoch = runner[r].epoch
        /\ row.credential = runner[r].credential /\ row.policy = policy
    BY <2>2, ZenonT(60) DEF RegistryForm, RunnerRows
  <2> HIDE DEF row
  <2>5. runner'[r] = row /\ \A s \in Runners \ {r} : runner'[s] = runner[s]
    BY <2>3 DEF RegistryForm
  <2>6. \A s \in Runners : Continued(s)
    BY <2>2, <2>4, <2>5 DEF Continued
  <2> QED BY <2>3, <2>4, <2>6 DEF RegistryForm, RunnersMove
<1>4. CASE Falls
  <2>1. PICK gone \in SUBSET Runners : R!Withdraw(gone) /\ \A r \in gone : runner[r].state = "LIVE"
    BY <1>4, FallsWithdraw
  <2>2. runner' = [r \in Runners |->
          IF r \in gone
          THEN [runner[r] EXCEPT !.state = "REVOKED", !.epoch = runner[r].epoch + 1,
                                 !.credential = FALSE]
          ELSE runner[r]]
    BY <2>1 DEF R!Withdraw
  <2>3. ASSUME NEW r \in Runners
        PROVE  runner'[r] \in RunnerRows /\ (Continued(r) \/ Fell(r))
    <3>1. CASE r \in gone
      <4> DEFINE row == [runner[r] EXCEPT !.state = "REVOKED", !.epoch = runner[r].epoch + 1,
                                          !.credential = FALSE]
      <4>1. runner[r].state = "LIVE" /\ runner[r].epoch = 1 /\ runner[r] \in RunnerRows
        BY <2>1, <3>1 DEF RunnersInv, RegistryForm
      <4>4. /\ row.state = "REVOKED" /\ row.owner = runner[r].owner
            /\ row.by = runner[r].by /\ row.epoch = runner[r].epoch + 1
            /\ row.policy = runner[r].policy /\ row.audience = runner[r].audience
        BY <4>1 DEF RunnerRows
      <4>5. row.credential = FALSE
        <5>1. \A b : [runner[r] EXCEPT !.state = "REVOKED", !.epoch = runner[r].epoch + 1,
                                       !.credential = b].credential = b
          BY <4>1 DEF RunnerRows
        <5> QED BY <5>1
      <4>6. row \in RunnerRows
        <5>1. \A b \in BOOLEAN, n \in {1, 2} :
                [runner[r] EXCEPT !.state = "REVOKED", !.epoch = n, !.credential = b] \in RunnerRows
          BY <4>1 DEF RunnerRows
        <5>2. runner[r].epoch + 1 \in {1, 2}
          BY <4>1
        <5> HIDE DEF RunnerRows
        <5> QED BY <5>1, <5>2
      <4>2. /\ row \in RunnerRows /\ row.state = "REVOKED" /\ row.owner = runner[r].owner
            /\ row.by = runner[r].by /\ row.epoch = runner[r].epoch + 1 /\ ~row.credential
            /\ row.policy = runner[r].policy /\ row.audience = runner[r].audience
        BY <4>4, <4>5, <4>6
      <4>3. runner'[r] = row
        BY <2>2, <3>1
      <4> HIDE DEF row
      <4> QED BY <4>1, <4>2, <4>3 DEF Fell
    <3>2. CASE r \notin gone
      <4>1. runner'[r] = runner[r]
        BY <2>2, <3>2
      <4> QED BY <4>1 DEF RegistryForm, Continued
    <3> QED BY <3>1, <3>2
  <2> HIDE DEF RunnerRows
  <2> QED BY <2>2, <2>3 DEF RunnersMove
<1> QED BY <1>1, <1>2, <1>3, <1>4, RegistryWriters DEF RegistryWritten, WritesRunner


\* Mapping revisions come one after the other, and are revoked for good.
Mapped(r, v) ==
    \/ mapping'[r][v] = mapping[r][v]
    \/ /\ mapping[r][v] = "NONE" /\ mapping'[r][v] = "LIVE"
       /\ runner[r].state = "LIVE" /\ runner' = runner
    \/ mapping[r][v] = "LIVE" /\ mapping'[r][v] = "REVOKED"
MappingMove ==
    /\ mapping' \in [Runners -> [R!Revisions -> {"NONE", "LIVE", "REVOKED"}]]
    /\ \A r \in Runners, v \in R!Revisions : Mapped(r, v)
    /\ \A r \in Runners, v \in R!Revisions : mapping'[r][v] # "NONE" => mapping'[r][1] # "NONE"
    /\ \A r \in Runners, v, w \in R!Revisions :
         mapping'[r][v] = "LIVE" /\ w > v => mapping'[r][w] = "NONE"

LEMMA MappingStep ==
    ASSUME FormInv, RegistryForm, RunnersInv, RegistryStep
    PROVE  MappingMove
<1>1. CASE mapping' = mapping
  BY <1>1 DEF RegistryForm, RunnersInv, MappingMove, Mapped
<1>2. /\ 1 \in R!Revisions /\ R!Revisions \subseteq Nat /\ \A v \in R!Revisions : v >= 1
      /\ \A v \in R!Revisions : v < MaxRevision => v + 1 \in R!Revisions
  BY RegistryAssumption DEF R!Revisions
<1>3. ASSUME NEW r \in Runners, R!RegisterMapping(r) PROVE MappingMove
  <2>1. /\ mapping' = [mapping EXCEPT ![r][1] = "LIVE"] /\ mapping[r][1] = "NONE"
        /\ runner[r].state = "LIVE" /\ runner' = runner
    BY <1>3 DEF R!RegisterMapping, R!OwnedBy
  <2>2. \A v \in R!Revisions : mapping[r][v] = "NONE"
    BY <2>1 DEF RunnersInv
  <2>3. /\ mapping' \in [Runners -> [R!Revisions -> {"NONE", "LIVE", "REVOKED"}]]
        /\ mapping'[r][1] = "LIVE"
        /\ \A v \in R!Revisions \ {1} : mapping'[r][v] = "NONE"
        /\ \A s \in Runners \ {r} : mapping'[s] = mapping[s]
    BY <1>2, <2>1, <2>2 DEF RegistryForm
  <2>4. \A s \in Runners, v \in R!Revisions : Mapped(s, v)
    BY <2>1, <2>2, <2>3 DEF Mapped
  <2>5. \A s \in Runners, v \in R!Revisions : mapping'[s][v] # "NONE" => mapping'[s][1] # "NONE"
    BY <2>3 DEF RunnersInv
  <2>6. \A s \in Runners, v, w \in R!Revisions :
          mapping'[s][v] = "LIVE" /\ w > v => mapping'[s][w] = "NONE"
    BY <1>2, <2>3 DEF RunnersInv
  <2> QED BY <2>3, <2>4, <2>5, <2>6 DEF MappingMove
<1>4. ASSUME NEW r \in Runners, NEW v \in R!Revisions, R!ReplaceMapping(r, v) PROVE MappingMove
  <2>1. /\ mapping' = [mapping EXCEPT ![r][v] = "REVOKED", ![r][v + 1] = "LIVE"]
        /\ mapping[r][v] = "LIVE" /\ v < MaxRevision
        /\ runner[r].state = "LIVE" /\ runner' = runner
    BY <1>4 DEF R!ReplaceMapping, R!OwnedBy
  <2> DEFINE n == v + 1
  <2>2. n \in R!Revisions /\ n > v /\ n # v
    BY <1>2, <2>1
  <2>3. mapping' = [mapping EXCEPT ![r][v] = "REVOKED", ![r][n] = "LIVE"]
    BY <2>1
  <2>4. \A w \in R!Revisions : w > v => mapping[r][w] = "NONE"
    BY <2>1 DEF RunnersInv
  <2>5. mapping[r][1] # "NONE"
    BY <2>1 DEF RunnersInv
  <2>6. \A w \in R!Revisions : mapping[r][w] = "LIVE" => ~(w < v)
    BY <2>1, <1>2 DEF RunnersInv
  <2>7. \A w \in R!Revisions : w > n => w > v
    BY <1>2, <2>2
  <2> HIDE DEF n
  <2>8. /\ mapping' \in [Runners -> [R!Revisions -> {"NONE", "LIVE", "REVOKED"}]]
        /\ mapping'[r][n] = "LIVE" /\ mapping'[r][v] = "REVOKED"
        /\ \A w \in R!Revisions \ {v, n} : mapping'[r][w] = mapping[r][w]
        /\ \A s \in Runners \ {r} : mapping'[s] = mapping[s]
    BY <2>2, <2>3 DEF RegistryForm
  <2>9. \A s \in Runners, w \in R!Revisions : Mapped(s, w)
    BY <2>1, <2>2, <2>4, <2>8 DEF Mapped
  <2>10. \A s \in Runners, w \in R!Revisions : mapping'[s][w] # "NONE" => mapping'[s][1] # "NONE"
    BY <1>2, <2>5, <2>8 DEF RunnersInv
  <2>11. ASSUME NEW u \in R!Revisions, NEW w \in R!Revisions, mapping'[r][u] = "LIVE", w > u
         PROVE  mapping'[r][w] = "NONE"
    <3>1. u = n
      <4>1. SUFFICES ASSUME u # n PROVE FALSE
        OBVIOUS
      <4>2. mapping[r][u] = "LIVE" /\ u # v
        BY <2>8, <2>11, <4>1
      <4>3. u > v
        BY <1>2, <2>6, <4>2
      <4> QED BY <2>4, <4>2, <4>3
    <3>2. w > v /\ w # n /\ w # v
      BY <1>2, <2>2, <2>7, <2>11, <3>1
    <3> QED BY <2>4, <2>8, <3>2
  <2>12. \A s \in Runners, u, w \in R!Revisions :
          mapping'[s][u] = "LIVE" /\ w > u => mapping'[s][w] = "NONE"
    BY <2>8, <2>11 DEF RunnersInv
  <2> QED BY <2>8, <2>9, <2>10, <2>12 DEF MappingMove
<1>5. ASSUME mapping' \in [Runners -> [R!Revisions -> {"NONE", "LIVE", "REVOKED"}]],
             \A r \in Runners, v \in R!Revisions :
                \/ mapping'[r][v] = mapping[r][v]
                \/ mapping[r][v] = "LIVE" /\ mapping'[r][v] = "REVOKED"
      PROVE  MappingMove
  <2>1. \A r \in Runners, v \in R!Revisions :
          /\ mapping'[r][v] = "LIVE" => mapping[r][v] = "LIVE"
          /\ mapping'[r][v] = "NONE" <=> mapping[r][v] = "NONE"
    BY <1>5
  <2> QED BY <1>2, <1>5, <2>1 DEF MappingMove, Mapped, RunnersInv
<1>6. ASSUME NEW r \in Runners, NEW v \in R!Revisions, R!RevokeMapping(r, v) PROVE MappingMove
  <2>1. mapping' = [mapping EXCEPT ![r][v] = "REVOKED"] /\ mapping[r][v] = "LIVE"
    BY <1>6 DEF R!RevokeMapping
  <2> QED BY <1>5, <2>1 DEF RegistryForm
<1>7. CASE Falls
  <2>1. PICK gone \in SUBSET Runners : R!Withdraw(gone)
    BY <1>7, FallsWithdraw
  <2>2. mapping' = [r \in Runners |-> [v \in R!Revisions |->
          IF r \in gone /\ mapping[r][v] = "LIVE" THEN "REVOKED" ELSE mapping[r][v]]]
    BY <2>1 DEF R!Withdraw
  <2> QED BY <1>5, <2>2 DEF RegistryForm
<1> QED BY <1>1, <1>3, <1>4, <1>6, <1>7, RegistryWriters DEF RegistryWritten, WritesMapping

ProfilesMove ==
    /\ profile' \in [Runners -> 0..MaxRevision]
    /\ \A r \in Runners : profile'[r] >= profile[r]

LEMMA ProfilesStep ==
    ASSUME RegistryForm, RegistryStep
    PROVE  ProfilesMove
<1>1. CASE profile' = profile
  BY <1>1, RegistryAssumption DEF RegistryForm, ProfilesMove
<1>2. ASSUME NEW r \in Runners, R!AdvertiseProfile(r) PROVE ProfilesMove
  <2>1. profile' = [profile EXCEPT ![r] = profile[r] + 1] /\ profile[r] < MaxRevision
    BY <1>2 DEF R!AdvertiseProfile
  <2>2. profile[r] + 1 \in 0..MaxRevision
    BY <2>1, RegistryAssumption DEF RegistryForm
  <2> QED BY <2>1, <2>2, RegistryAssumption DEF RegistryForm, ProfilesMove
<1> QED BY <1>1, <1>2, RegistryWriters DEF RegistryWritten, WritesProfile


\* Facts are acknowledged while they stand, and an acknowledgement is revoked for good.
Unmoved == runner' = runner /\ mapping' = mapping /\ profile' = profile
Acknowledged(a) ==
    \/ acknowledgement'[a] = acknowledgement[a]
    \/ /\ acknowledgement[a].state = "NONE" /\ acknowledgement'[a].state = "LIVE" /\ Unmoved
       /\ \E f \in R!Facts : acknowledgement'[a].facts = f /\ R!IsCurrent(f)
    \/ /\ acknowledgement[a].state = "LIVE" /\ acknowledgement'[a].state = "REVOKED"
       /\ acknowledgement'[a].facts = acknowledgement[a].facts
AcknowledgementsMove ==
    /\ acknowledgement' \in [Acknowledgements -> AcknowledgementRows]
    /\ \A a \in Acknowledgements : Acknowledged(a)

LEMMA AcknowledgementsStep ==
    ASSUME FormInv, RegistryForm, RegistryStep
    PROVE  AcknowledgementsMove
<1>1. CASE acknowledgement' = acknowledgement
  BY <1>1 DEF RegistryForm, AcknowledgementsMove, Acknowledged
<1>2. ASSUME NEW r \in Runners, NEW v \in R!Revisions, R!AcknowledgeExposure(r, v)
      PROVE  AcknowledgementsMove
  <2> DEFINE f == R!Subject(r, v, profile[r])
             a == R!NewIn(acknowledgement)
             row == [state |-> "LIVE", facts |-> f]
  <2>1. f \in R!Facts /\ R!IsCurrent(f)
    BY <1>2 DEF R!AcknowledgeExposure, R!Subject, R!Facts, RegistryForm, RunnerRows
  <2>2. a \in Acknowledgements /\ acknowledgement[a].state = "NONE"
    BY <1>2, RoomInTable DEF R!AcknowledgeExposure, RegistryForm
  <2>3. acknowledgement' = [acknowledgement EXCEPT ![a] = row] /\ Unmoved
    BY <1>2 DEF R!AcknowledgeExposure, Unmoved
  <2> HIDE DEF f
  <2>4. row \in AcknowledgementRows /\ row.state = "LIVE" /\ row.facts = f
    BY <2>1 DEF AcknowledgementRows
  <2> HIDE DEF a, row
  <2>5. /\ acknowledgement'[a] = row
        /\ \A b \in Acknowledgements \ {a} : acknowledgement'[b] = acknowledgement[b]
    BY <2>2, <2>3 DEF RegistryForm
  <2>6. \A b \in Acknowledgements : Acknowledged(b)
    BY <2>1, <2>2, <2>3, <2>4, <2>5 DEF Acknowledged
  <2> QED BY <2>3, <2>4, <2>6 DEF RegistryForm, AcknowledgementsMove
<1>3. ASSUME NEW gone \in SUBSET Acknowledgements,
             \A a \in gone : acknowledgement[a].state = "LIVE",
             acknowledgement' = [a \in Acknowledgements |->
               IF a \in gone THEN [acknowledgement[a] EXCEPT !.state = "REVOKED"]
               ELSE acknowledgement[a]]
      PROVE  AcknowledgementsMove
  <2>1. ASSUME NEW row \in AcknowledgementRows
        PROVE  LET u == [row EXCEPT !.state = "REVOKED"] IN
                  u \in AcknowledgementRows /\ u.state = "REVOKED" /\ u.facts = row.facts
    BY DEF AcknowledgementRows
  <2>2. ASSUME NEW a \in Acknowledgements
        PROVE  acknowledgement'[a] \in AcknowledgementRows /\ Acknowledged(a)
    <3>1. acknowledgement[a] \in AcknowledgementRows
      BY DEF RegistryForm
    <3> HIDE DEF AcknowledgementRows
    <3> QED BY <1>3, <2>1, <3>1 DEF Acknowledged
  <2> HIDE DEF AcknowledgementRows
  <2> QED BY <1>3, <2>2 DEF AcknowledgementsMove
<1>4. ASSUME NEW a \in Acknowledgements, R!RevokeAcknowledgement(a) PROVE AcknowledgementsMove
  <2>1. /\ acknowledgement' = [acknowledgement EXCEPT ![a].state = "REVOKED"]
        /\ acknowledgement[a].state = "LIVE"
    BY <1>4 DEF R!RevokeAcknowledgement
  <2>2. acknowledgement' = [b \in Acknowledgements |->
           IF b \in {a} THEN [acknowledgement[b] EXCEPT !.state = "REVOKED"]
           ELSE acknowledgement[b]]
    BY <2>1 DEF RegistryForm
  <2> QED BY <1>3, <2>1, <2>2
<1>5. CASE Falls
  <2>1. PICK gone \in SUBSET Runners : R!Withdraw(gone)
    BY <1>5, FallsWithdraw
  <2> DEFINE with == {a \in Acknowledgements :
                        acknowledgement[a].state = "LIVE" /\ acknowledgement[a].facts.runner \in gone}
  <2>2. acknowledgement' = [a \in Acknowledgements |->
          IF a \in with THEN [acknowledgement[a] EXCEPT !.state = "REVOKED"] ELSE acknowledgement[a]]
    BY <2>1 DEF R!Withdraw
  <2>3. with \in SUBSET Acknowledgements /\ \A a \in with : acknowledgement[a].state = "LIVE"
    OBVIOUS
  <2> HIDE DEF with
  <2> QED BY <1>3, <2>2, <2>3
<1> QED BY <1>1, <1>2, <1>4, <1>5, RegistryWriters DEF RegistryWritten, WritesAcknowledgement

\* Facts of a team's runner are exposed while they stand, and not again by the same exposure.
Exposed(e) ==
    \/ exposure'[e] = exposure[e]
    \/ /\ exposure[e].state = "NONE" /\ exposure'[e].state = "LIVE" /\ Unmoved
       /\ acknowledgement' = acknowledgement
       /\ \E c \in Clients, a \in Acknowledgements :
            /\ command[c].op = "EXPOSE" /\ command[c].with.acknowledgement = a
            /\ exposure'[e].by = a /\ exposure'[e].facts = acknowledgement[a].facts
            /\ R!IsCurrent(acknowledgement[a].facts)
            /\ runner[acknowledgement[a].facts.runner].audience = "TEAM"
    \/ /\ exposure[e].state = "LIVE" /\ exposure'[e].state = "REVOKED"
       /\ exposure'[e].facts = exposure[e].facts /\ exposure'[e].by = exposure[e].by
ExposuresMove ==
    /\ exposure' \in [Exposures -> ExposureRows]
    /\ \A e \in Exposures : Exposed(e)

LEMMA ExposuresStep ==
    ASSUME FormInv, RegistryForm, RegistryStep
    PROVE  ExposuresMove
<1>1. CASE exposure' = exposure
  BY <1>1 DEF RegistryForm, ExposuresMove, Exposed
<1>2. ASSUME NEW c \in Clients, R!CommitExposure(c)
      PROVE  ExposuresMove
  <2> DEFINE a == command[c].with.acknowledgement
             f == acknowledgement[a].facts
             e == R!NewIn(exposure)
             row == [state |-> "LIVE", facts |-> f, by |-> a]
  <2>1. a \in Acknowledgements /\ command[c].op = "EXPOSE"
    BY <1>2, CommandForms DEF R!CommitExposure, R!InWork, RegistryForm
  <2>2. /\ R!IsCurrent(f) /\ runner[f.runner].audience = "TEAM" /\ Unmoved
        /\ acknowledgement' = acknowledgement /\ exposure' = [exposure EXCEPT ![e] = row]
    BY <1>2 DEF R!CommitExposure, R!NewExposure, Unmoved
  <2>3. e \in Exposures /\ exposure[e].state = "NONE"
    BY <1>2, RoomInTable DEF R!CommitExposure, RegistryForm
  <2>4. f \in R!Facts \cup {None}
    BY <2>1 DEF RegistryForm, AcknowledgementRows
  <2> HIDE DEF f
  <2>6. row \in ExposureRows /\ row.state = "LIVE" /\ row.facts = f /\ row.by = a
    BY <2>1, <2>4 DEF ExposureRows
  <2> HIDE DEF e, row
  <2>7. exposure'[e] = row /\ \A x \in Exposures \ {e} : exposure'[x] = exposure[x]
    BY <2>2, <2>3 DEF RegistryForm
  <2>8. Exposed(e)
    BY <2>1, <2>2, <2>3, <2>6, <2>7 DEF Exposed, f
  <2>9. \A x \in Exposures \ {e} : Exposed(x)
    BY <2>7 DEF Exposed
  <2> QED BY <2>2, <2>6, <2>8, <2>9 DEF RegistryForm, ExposuresMove
<1>3. ASSUME NEW gone \in SUBSET Exposures, \A e \in gone : exposure[e].state = "LIVE",
             exposure' = [e \in Exposures |->
               IF e \in gone THEN [exposure[e] EXCEPT !.state = "REVOKED"] ELSE exposure[e]]
      PROVE  ExposuresMove
  <2>1. ASSUME NEW row \in ExposureRows
        PROVE  LET u == [row EXCEPT !.state = "REVOKED"] IN
                  /\ u \in ExposureRows /\ u.state = "REVOKED" /\ u.facts = row.facts
                  /\ u.by = row.by
    BY DEF ExposureRows
  <2>2. ASSUME NEW e \in Exposures PROVE exposure'[e] \in ExposureRows /\ Exposed(e)
    <3>1. exposure[e] \in ExposureRows
      BY DEF RegistryForm
    <3> HIDE DEF ExposureRows
    <3> QED BY <1>3, <2>1, <3>1 DEF Exposed
  <2> HIDE DEF ExposureRows
  <2> QED BY <1>3, <2>2 DEF ExposuresMove
<1>4. ASSUME NEW e \in Exposures, R!RevokeExposure(e) PROVE ExposuresMove
  <2>1. exposure' = [exposure EXCEPT ![e].state = "REVOKED"] /\ exposure[e].state = "LIVE"
    BY <1>4 DEF R!RevokeExposure
  <2>2. exposure' = [x \in Exposures |->
           IF x \in {e} THEN [exposure[x] EXCEPT !.state = "REVOKED"] ELSE exposure[x]]
    BY <2>1 DEF RegistryForm
  <2> QED BY <1>3, <2>1, <2>2
<1>5. CASE Falls
  <2>1. PICK gone \in SUBSET Runners : R!Withdraw(gone)
    BY <1>5, FallsWithdraw
  <2> DEFINE with == {e \in Exposures : exposure[e].state = "LIVE" /\ exposure[e].facts.runner \in gone}
  <2>2. exposure' = [e \in Exposures |->
          IF e \in with THEN [exposure[e] EXCEPT !.state = "REVOKED"] ELSE exposure[e]]
    BY <2>1 DEF R!Withdraw
  <2>3. with \in SUBSET Exposures /\ \A e \in with : exposure[e].state = "LIVE"
    OBVIOUS
  <2> HIDE DEF with
  <2> QED BY <1>3, <2>2, <2>3
<1> QED BY <1>1, <1>2, <1>4, <1>5, RegistryWriters DEF RegistryWritten, WritesExposure


\* Time passes; what a lease observed is mapped; whoever falls is reported.
ClockMove == clock' \in 0..Horizon /\ clock' >= clock
LeasesMove ==
    /\ lease' \in [Runners -> [beat : {"NEVER", "RECENT", "OLD"}, observed : SUBSET R!Revisions]]
    /\ \A r \in Runners : \A v \in lease'[r].observed :
         v \in lease[r].observed \/ mapping[r][v] = "LIVE"
ChangesMove == changes' \subseteq Runners /\ changes \subseteq changes'

LEMMA ClockStep ==
    ASSUME RegistryForm, RegistryStep
    PROVE  ClockMove
<1>1. clock \in 0..Horizon /\ Horizon \in Nat
  BY RegistryAssumption DEF RegistryForm
<1>2. clock' = clock \/ (clock' = clock + 1 /\ clock < Horizon)
  BY RegistryWriters DEF RegistryWritten, R!Tick
<1> QED BY <1>1, <1>2 DEF ClockMove

LEMMA LeasesStep ==
    ASSUME RegistryForm, RegistryStep
    PROVE  LeasesMove
<1>1. CASE lease' = lease
  BY <1>1 DEF RegistryForm, LeasesMove
<1>2. CASE R!Tick
  <2>1. lease' = [r \in Runners |->
           [lease[r] EXCEPT !.beat = IF lease[r].beat = "NEVER" THEN lease[r].beat ELSE "OLD",
                            !.observed = {}]]
    BY <1>2 DEF R!Tick
  <2>2. ASSUME NEW r \in Runners
        PROVE  /\ lease'[r] \in [beat : {"NEVER", "RECENT", "OLD"}, observed : SUBSET R!Revisions]
               /\ lease'[r].observed = {}
    <3>1. lease[r] \in [beat : {"NEVER", "RECENT", "OLD"}, observed : SUBSET R!Revisions]
      BY DEF RegistryForm
    <3>2. \A beat \in {"NEVER", "RECENT", "OLD"} :
            LET row == [lease[r] EXCEPT !.beat = beat, !.observed = {}] IN
               /\ row \in [beat : {"NEVER", "RECENT", "OLD"}, observed : SUBSET R!Revisions]
               /\ row.observed = {}
      BY <3>1
    <3> QED BY <2>1, <3>1, <3>2
  <2> QED BY <2>1, <2>2 DEF LeasesMove
<1>3. ASSUME NEW t \in Tokens, NEW observed \in SUBSET R!Revisions, R!Heartbeat(t, observed)
      PROVE  LeasesMove
  <2> DEFINE r == token[t].runner
             row == [beat |-> "RECENT", observed |-> lease[r].observed \cup observed]
  <2>1. r \in Runners
    BY <1>3 DEF R!Heartbeat, RegistryForm, TokenRows
  <2>2. lease' = [lease EXCEPT ![r] = row] /\ \A v \in observed : mapping[r][v] = "LIVE"
    BY <1>3 DEF R!Heartbeat
  <2>3. /\ row \in [beat : {"NEVER", "RECENT", "OLD"}, observed : SUBSET R!Revisions]
        /\ row.observed = lease[r].observed \cup observed
    BY <2>1 DEF RegistryForm
  <2> HIDE DEF row
  <2> QED BY <2>1, <2>2, <2>3 DEF RegistryForm, LeasesMove
<1> QED BY <1>1, <1>2, <1>3, RegistryWriters DEF RegistryWritten, WritesLease

LEMMA ChangesStep ==
    ASSUME FormInv, RegistryForm, RegistryStep
    PROVE  ChangesMove
<1>1. CASE Falls
  <2>1. PICK gone \in SUBSET Runners : R!Withdraw(gone)
    BY <1>1, FallsWithdraw
  <2> QED BY <2>1 DEF R!Withdraw, RegistryForm, ChangesMove
<1> QED BY <1>1, RegistryWriters DEF RegistryWritten, RegistryForm, ChangesMove

\* A token lives two ticks, and is used and dropped.
Token(t) ==
    \/ token'[t] = token[t]
    \/ /\ token[t].state = "NONE" /\ token'[t].state = "HELD"
       /\ token'[t].expires = clock + R!AccessTicks
    \/ /\ token[t].state \in {"HELD", "CONNECTED"} /\ token'[t].state = "CONNECTED"
       /\ token'[t].expires = token[t].expires
    \/ token[t].state # "NONE" /\ token'[t].state = "GONE"
TokensMove ==
    /\ token' \in [Tokens -> TokenRows]
    /\ \A t \in Tokens : Token(t)

LEMMA TokensStep ==
    ASSUME RegistryForm, RegistryStep
    PROVE  TokensMove
<1>1. CASE token' = token
  BY <1>1 DEF RegistryForm, TokensMove, Token
<1>2. CASE R!Restart
  <2>1. token' = [t \in Tokens |->
           IF token[t].state = "NONE" THEN token[t] ELSE [state |-> "GONE"]]
    BY <1>2 DEF R!Restart
  <2>2. [state |-> "GONE"] \in TokenRows
    BY DEF TokenRows
  <2> QED BY <2>1, <2>2 DEF RegistryForm, TokensMove, Token
<1>3. ASSUME NEW r \in Runners, R!ExchangeCredential(r) PROVE TokensMove
  <2> DEFINE t == R!NewIn(token)
             row == [state |-> "HELD", runner |-> r, epoch |-> runner[r].epoch,
                     expires |-> clock + R!AccessTicks]
  <2>1. t \in Tokens /\ token[t].state = "NONE"
    BY <1>3, RoomInTable DEF R!ExchangeCredential, RegistryForm
  <2>2. token' = [token EXCEPT ![t] = row]
    BY <1>3 DEF R!ExchangeCredential
  <2>3. clock + R!AccessTicks \in Nat /\ runner[r].epoch \in {1, 2}
    BY RegistryAssumption DEF RegistryForm, RunnerRows, R!AccessTicks
  <2>4. row \in TokenRows /\ row.state = "HELD" /\ row.expires = clock + R!AccessTicks
    BY <2>3 DEF TokenRows
  <2> HIDE DEF t, row
  <2>5. token'[t] = row /\ \A x \in Tokens \ {t} : token'[x] = token[x]
    BY <2>1, <2>2 DEF RegistryForm
  <2> QED BY <2>1, <2>2, <2>4, <2>5 DEF RegistryForm, TokensMove, Token
<1>4. ASSUME NEW j \in Proofs, R!AuthenticateAccess(j) PROVE TokensMove
  <2> DEFINE t == proof[j].for
             row == [token[t] EXCEPT !.state = "CONNECTED"]
  <2>1. t \in Tokens
    BY <1>4 DEF R!AuthenticateAccess, RegistryForm, ProofRows
  <2>2. token' = [token EXCEPT ![t] = row] /\ token[t].state \in {"HELD", "CONNECTED"}
    BY <1>4 DEF R!AuthenticateAccess, R!LiveToken
  <2> DEFINE TokensInUse == [state : {"HELD", "CONNECTED"}, runner : Runners, epoch : {1, 2},
                             expires : Nat]
  <2>5. token[t] \in TokensInUse
    BY <2>1, <2>2 DEF RegistryForm, TokenRows
  <2>6. row \in TokensInUse /\ row.state = "CONNECTED" /\ row.expires = token[t].expires
    BY <2>5
  <2>3. row \in TokenRows /\ row.state = "CONNECTED" /\ row.expires = token[t].expires
    BY <2>6 DEF TokenRows
  <2> HIDE DEF t, row
  <2>4. token'[t] = row /\ \A x \in Tokens \ {t} : token'[x] = token[x]
    BY <2>1, <2>2 DEF RegistryForm
  <2> QED BY <2>1, <2>2, <2>3, <2>4 DEF RegistryForm, TokensMove, Token
<1> QED BY <1>1, <1>2, <1>3, <1>4, RegistryWriters DEF RegistryWritten, WritesToken

\* A proof is signed for a token that is held, and accepted while the token lives and its
\* row is not remembered.
Proof(j) ==
    \/ proof'[j] = proof[j]
    \/ /\ proof[j].state = "NONE" /\ proof'[j].state = "SIGNED" /\ proof'[j].uses = 0
       /\ \E t \in Tokens : proof'[j].for = t /\ token[t].state = "HELD"
    \/ /\ proof[j].state = "SIGNED" /\ proof'[j].state = "SIGNED"
       /\ proof'[j].for = proof[j].for /\ proof'[j].uses = proof[j].uses + 1
       /\ proof'[j].row = clock + R!ReplayTicks
       /\ R!LiveToken(proof[j].for) /\ ~R!Remembered(j)
ProofsMove ==
    /\ proof' \in [Proofs -> ProofRows]
    /\ \A j \in Proofs : Proof(j)

LEMMA ProofsStep ==
    ASSUME RegistryForm, RegistryStep
    PROVE  ProofsMove
<1>1. CASE proof' = proof
  BY <1>1 DEF RegistryForm, ProofsMove, Proof
<1>2. ASSUME NEW t \in Tokens, NEW at \in 0..(Horizon + R!SkewTicks), R!SignProof(t, at)
      PROVE  ProofsMove
  <2> DEFINE j == R!NewIn(proof)
             row == [state |-> "SIGNED", for |-> t, issued |-> at, uses |-> 0, row |-> None]
  <2>1. j \in Proofs /\ proof[j].state = "NONE"
    BY <1>2, RoomInTable DEF R!SignProof, RegistryForm
  <2>2. proof' = [proof EXCEPT ![j] = row] /\ token[t].state = "HELD"
    BY <1>2 DEF R!SignProof
  <2>3. at \in Nat
    BY RegistryAssumption DEF R!SkewTicks
  <2>4. row \in ProofRows /\ row.state = "SIGNED" /\ row.uses = 0 /\ row.for = t
    BY <2>3 DEF ProofRows
  <2> HIDE DEF j, row
  <2>5. proof'[j] = row /\ \A x \in Proofs \ {j} : proof'[x] = proof[x]
    BY <2>1, <2>2 DEF RegistryForm
  <2> QED BY <2>1, <2>2, <2>4, <2>5 DEF RegistryForm, ProofsMove, Proof
<1>3. ASSUME NEW j \in Proofs, R!AuthenticateAccess(j) PROVE ProofsMove
  <2> DEFINE uses == proof[j].uses + 1
             until == clock + R!ReplayTicks
             row == [proof[j] EXCEPT !.uses = uses, !.row = until]
  <2>1. proof' = [proof EXCEPT ![j] = row] /\ proof[j].state = "SIGNED"
    BY <1>3 DEF R!AuthenticateAccess
  <2>2. R!LiveToken(proof[j].for) /\ ~R!Remembered(j)
    BY <1>3 DEF R!AuthenticateAccess
  <2>3. uses \in Nat /\ until \in Nat
    BY <2>1, RegistryAssumption DEF RegistryForm, ProofRows, R!ReplayTicks
  <2> HIDE DEF uses, until
  <2>4. /\ row \in ProofRows /\ row.state = "SIGNED" /\ row.for = proof[j].for
        /\ row.uses = uses /\ row.row = until
    BY <2>1, <2>3 DEF RegistryForm, ProofRows
  <2> HIDE DEF row
  <2>5. proof'[j] = row /\ \A x \in Proofs \ {j} : proof'[x] = proof[x]
    BY <2>1 DEF RegistryForm
  <2>6. Proof(j)
    BY <2>1, <2>2, <2>4, <2>5 DEF Proof, uses, until
  <2> QED BY <2>1, <2>4, <2>5, <2>6 DEF RegistryForm, ProofsMove, Proof
<1> QED BY <1>1, <1>2, <1>3, RegistryWriters DEF RegistryWritten, WritesProof


\* A launch is recorded and authorized of the runner's owner or through an exposure, and
\* stays of whom it was.
Ordered(l) ==
    /\ launch'[l].state # "NONE"
    /\ \E w \in LaunchRows : launch'[l] = w /\ OwnOrTeam(w)
Advanced(l) ==
    /\ launch[l].state # "NONE" /\ launch'[l].state # "NONE"
    /\ launch'[l].by = launch[l].by /\ launch'[l].team = launch[l].team
    /\ launch'[l].runner = launch[l].runner
LaunchesMove ==
    /\ launch' \in [Launches -> [state : {"NONE"}] \cup LaunchRows]
    /\ \A l \in Launches : launch'[l] = launch[l] \/ Ordered(l) \/ Advanced(l)

LEMMA InUse ==
    ASSUME NEW row \in [state : {"NONE"}] \cup LaunchRows, row.state # "NONE",
           NEW state \in {"RECORDED", "ISSUED", "CONSUMED", "REVOKED"}
    PROVE  /\ row \in LaunchRows
           /\ LET u == [row EXCEPT !.state = state] IN
                 /\ u \in LaunchRows /\ u.state = state /\ u.by = row.by /\ u.runner = row.runner
                 /\ u.team = row.team
<1>1. row \in LaunchRows
  OBVIOUS
<1>2. ASSUME NEW u, u = [row EXCEPT !.state = state]
      PROVE  /\ u \in LaunchRows /\ u.state = state /\ u.by = row.by /\ u.runner = row.runner
             /\ u.team = row.team
  BY <1>1, <1>2 DEF LaunchRows
<1> QED BY <1>1, <1>2

LEMMA LaunchesStep ==
    ASSUME RegistryForm, LaunchesInv, RegistryStep
    PROVE  LaunchesMove
<1>1. CASE launch' = launch
  BY <1>1 DEF RegistryForm, LaunchesMove
<1>2. ASSUME NEW gone \in SUBSET Launches, \A l \in gone : launch[l].state = "ISSUED",
             NEW state \in {"CONSUMED", "REVOKED"},
             launch' = [l \in Launches |->
               IF l \in gone THEN [launch[l] EXCEPT !.state = state] ELSE launch[l]]
      PROVE  LaunchesMove
  <2>1. ASSUME NEW l \in Launches
        PROVE  /\ launch'[l] \in [state : {"NONE"}] \cup LaunchRows
               /\ launch'[l] = launch[l] \/ Advanced(l)
    <3>1. launch[l] \in [state : {"NONE"}] \cup LaunchRows
      BY DEF RegistryForm
    <3>2. CASE l \in gone
      <4>1. launch[l].state # "NONE" /\ launch'[l] = [launch[l] EXCEPT !.state = state]
        BY <1>2, <3>2
      <4> DEFINE row == launch[l]
      <4>2. row \in [state : {"NONE"}] \cup LaunchRows /\ row.state # "NONE"
        BY <3>1, <4>1
      <4>3. state \in {"RECORDED", "ISSUED", "CONSUMED", "REVOKED"}
        OBVIOUS
      <4> HIDE DEF row
      <4>4. LET u == [row EXCEPT !.state = state] IN
               /\ u \in LaunchRows /\ u.state = state /\ u.by = row.by
               /\ u.runner = row.runner /\ u.team = row.team
        BY <4>2, <4>3, InUse
      <4> QED BY <4>1, <4>4 DEF Advanced, row
    <3>3. CASE l \notin gone
      BY <1>2, <3>1, <3>3
    <3> QED BY <3>2, <3>3
  <2> HIDE DEF LaunchRows
  <2> QED BY <1>2, <2>1 DEF LaunchesMove
<1>3. ASSUME NEW r \in Runners, NEW audience \in {"OWNER_ONLY", "TEAM"}, R!ReplacePolicy(r, audience)
      PROVE  LaunchesMove
  <2> DEFINE gone == {l \in Launches : launch[l].state = "ISSUED" /\ launch[l].runner = r}
  <2>1. launch' = [l \in Launches |->
           IF l \in gone THEN [launch[l] EXCEPT !.state = "REVOKED"] ELSE launch[l]]
    BY <1>3 DEF R!ReplacePolicy, R!WithdrawPermits
  <2>2. gone \in SUBSET Launches /\ \A l \in gone : launch[l].state = "ISSUED"
    OBVIOUS
  <2> HIDE DEF gone
  <2> QED BY <1>2, <2>1, <2>2
<1>4. ASSUME NEW l \in Launches, R!ConsumePermit(l) PROVE LaunchesMove
  <2>1. launch[l].state = "ISSUED"
    BY <1>4 DEF R!ConsumePermit
  <2>2. PICK state \in {"CONSUMED", "REVOKED"} : launch' = [launch EXCEPT ![l].state = state]
    BY <1>4 DEF R!ConsumePermit
  <2>3. launch' = [x \in Launches |->
           IF x \in {l} THEN [launch[x] EXCEPT !.state = state] ELSE launch[x]]
    BY <2>2 DEF RegistryForm
  <2> QED BY <1>2, <2>1, <2>3
<1>5. ASSUME NEW l \in Launches, NEW row \in LaunchRows, OwnOrTeam(row),
             launch' = [launch EXCEPT ![l] = row]
      PROVE  LaunchesMove
  <2>1. row.state # "NONE"
    BY DEF LaunchRows
  <2> HIDE DEF LaunchRows
  <2>2. launch'[l] = row /\ \A x \in Launches \ {l} : launch'[x] = launch[x]
    BY <1>5 DEF RegistryForm
  <2> QED BY <1>5, <2>1, <2>2 DEF RegistryForm, LaunchesMove, Ordered
<1>6. ASSUME NEW c \in Clients, R!CommitLaunch(c) PROVE LaunchesMove
  <2> DEFINE w == command[c].with
             row == [state |-> "RECORDED", by |-> w.by, runner |-> w.runner, epoch |-> w.epoch,
                     policy |-> w.policy, mapping |-> w.mapping, version |-> w.version,
                     team |-> w.team]
  <2>1. w \in LaunchRequests
    BY <1>6, CommandForms DEF R!CommitLaunch, R!InWork, RegistryForm
  <2>2. /\ runner[w.runner].state = "LIVE" /\ (~w.team => runner[w.runner].owner = w.by)
        /\ launch' = [launch EXCEPT ![R!NewIn(launch)] = row]
    BY <1>6 DEF R!CommitLaunch, R!FactsMatch, R!ConfigurationCurrent
  <2>3. R!NewIn(launch) \in Launches
    BY <1>6, RoomInTable DEF R!CommitLaunch, RegistryForm
  <2> HIDE DEF w
  <2>4. row \in LaunchRows /\ row.runner = w.runner /\ row.by = w.by /\ row.team = w.team
    BY <2>1 DEF LaunchRequests, LaunchRows
  <2>5. w.team \in BOOLEAN
    BY <2>1 DEF LaunchRequests
  <2> HIDE DEF row
  <2>6. OwnOrTeam(row)
    BY <2>2, <2>4, <2>5 DEF OwnOrTeam
  <2> QED BY <1>5, <2>2, <2>3, <2>4, <2>6
<1>7. ASSUME NEW c \in Clients, R!CommitAttempt(c) PROVE LaunchesMove
  <2> DEFINE l == command[c].with.launch
             w == command[c].with.facts
             row == [w EXCEPT !.state = "ISSUED"]
  <2>1. l \in Launches /\ w \in LaunchRows /\ OwnOrTeam(w)
    BY <1>7, CommandForms DEF R!CommitAttempt, R!InWork, RegistryForm, LaunchesInv
  <2>2. launch' = [launch EXCEPT ![l] = row]
    BY <1>7 DEF R!CommitAttempt
  <2> HIDE DEF w, l
  <2>3. row \in LaunchRows /\ row.runner = w.runner /\ row.by = w.by /\ row.team = w.team
    <3>1. w.state # "NONE"
      BY <2>1 DEF LaunchRows
    <3> QED BY <2>1, <3>1, InUse
  <2> HIDE DEF row
  <2>4. OwnOrTeam(row)
    BY <2>1, <2>3 DEF OwnOrTeam
  <2> QED BY <1>5, <2>1, <2>2, <2>3, <2>4
<1> QED BY <1>1, <1>3, <1>4, <1>6, <1>7, RegistryWriters DEF RegistryWritten, WritesLaunch

\* A command brings from its read what an acknowledgement or a launch has been.
Came(c) ==
    /\ command'[c].op = "EXPOSE" =>
         acknowledgement[command'[c].with.acknowledgement].state # "NONE"
    /\ command'[c].op = "ATTEMPT" =>
         /\ launch[command'[c].with.launch].state # "NONE"
         /\ \E w \in LaunchRows : command'[c].with.facts = w /\ OwnOrTeam(w)
CommandsMove ==
    /\ command' \in [Clients -> Commands]
    /\ \A c \in Clients : command'[c] = command[c] \/ Came(c)

LEMMA CommandsStep ==
    ASSUME RegistryForm, LaunchesInv, RegistryStep
    PROVE  CommandsMove
<1>1. CASE command' = command
  BY <1>1 DEF RegistryForm, CommandsMove
<1>2. R!Idle \in Commands /\ R!Idle.op = "IDLE"
  BY DEF R!Idle, Commands
<1>3. CASE R!Restart
  <2>1. command' = [c \in Clients |-> R!Idle]
    BY <1>3 DEF R!Restart
  <2> QED BY <1>2, <2>1 DEF CommandsMove, Came
<1>4. ASSUME NEW c \in Clients, NEW w \in Commands, command' = [command EXCEPT ![c] = w],
             w.op = "EXPOSE" => acknowledgement[w.with.acknowledgement].state # "NONE",
             w.op = "ATTEMPT" => launch[w.with.launch].state # "NONE" /\ OwnOrTeam(w.with.facts)
      PROVE  CommandsMove
  <2>1. w.op = "ATTEMPT" => w.with.facts \in LaunchRows
    BY CommandForms
  <2> HIDE DEF Commands, LaunchRows
  <2>2. command'[c] = w /\ \A x \in Clients \ {c} : command'[x] = command[x]
    BY <1>4 DEF RegistryForm
  <2>3. Came(c)
    BY <1>4, <2>1, <2>2 DEF Came
  <2> QED BY <1>4, <2>2, <2>3 DEF RegistryForm, CommandsMove
<1>5. ASSUME NEW c \in Clients, R!Abandon(c) \/ R!Commit(c) PROVE CommandsMove
  BY <1>2, <1>4, <1>5 DEF R!Abandon, R!Commit
<1>6. ASSUME NEW c \in Clients, NEW op, NEW arguments, R!Read(c, op, arguments),
             [op |-> op, with |-> arguments] \in Commands, op \in {"PAIR", "CONSUME", "LAUNCH"}
      PROVE  CommandsMove
  BY <1>4, <1>6 DEF R!Read
<1>7. ASSUME NEW c \in Clients, NEW m \in Members, R!ReadPairing(c, m) PROVE CommandsMove
  <2>1. [op |-> "PAIR", with |-> [member |-> m]] \in Commands
    BY DEF Commands
  <2> QED BY <1>6, <1>7, <2>1 DEF R!ReadPairing
<1>8. ASSUME NEW c \in Clients, NEW q \in Pairings, R!ReadConsumption(c, q) PROVE CommandsMove
  <2>1. [op |-> "CONSUME", with |-> [pairing |-> q]] \in Commands
    BY DEF Commands
  <2> QED BY <1>6, <1>8, <2>1 DEF R!ReadConsumption
<1>9. ASSUME NEW c \in Clients, NEW a \in Acknowledgements, R!ReadExposure(c, a) PROVE CommandsMove
  <2> DEFINE w == [op |-> "EXPOSE", with |-> [acknowledgement |-> a]]
  <2>1. w \in Commands /\ w.op = "EXPOSE" /\ w.with.acknowledgement = a
    BY DEF Commands
  <2>2. acknowledgement[a].state # "NONE" /\ command' = [command EXCEPT ![c] = w]
    BY <1>9 DEF R!ReadExposure, R!Read
  <2> HIDE DEF w
  <2> QED BY <1>4, <2>1, <2>2
<1>10. ASSUME NEW c \in Clients, NEW m \in Members, NEW r \in Runners, NEW v \in R!Revisions,
              NEW p \in R!Revisions, R!ReadLaunch(c, m, r, v, p)
       PROVE  CommandsMove
  <2> DEFINE team == m # runner[r].owner /\
                     \E e \in Exposures : /\ exposure[e].state = "LIVE"
                                          /\ exposure[e].facts.runner = r
                                          /\ exposure[e].facts.mapping = v
                                          /\ exposure[e].facts.version = p
             w == [by |-> m, runner |-> r, epoch |-> runner[r].epoch, policy |-> runner[r].policy,
                   mapping |-> v, version |-> p, team |-> team]
  <2>1. team \in BOOLEAN
    OBVIOUS
  <2>2. R!Read(c, "LAUNCH", w)
    BY <1>10 DEF R!ReadLaunch
  <2>3. runner[r].epoch \in {1, 2} /\ runner[r].policy \in R!Policies
    BY DEF RegistryForm, RunnerRows
  <2> HIDE DEF team
  <2>4. w \in LaunchRequests
    BY <2>1, <2>3 DEF LaunchRequests
  <2> HIDE DEF w
  <2>5. [op |-> "LAUNCH", with |-> w] \in Commands
    BY <2>4 DEF Commands
  <2> QED BY <1>6, <2>2, <2>5
<1>11. ASSUME NEW c \in Clients, NEW l \in Launches, R!ReadAttempt(c, l) PROVE CommandsMove
  <2> DEFINE epoch == runner[launch[l].runner].epoch
             policy == runner[launch[l].runner].policy
             facts == [launch[l] EXCEPT !.epoch = epoch, !.policy = policy]
             w == [op |-> "ATTEMPT", with |-> [launch |-> l, facts |-> facts]]
  <2>1. launch[l].state = "RECORDED" /\ command' = [command EXCEPT ![c] = w]
    BY <1>11 DEF R!ReadAttempt, R!Read
  <2>2. launch[l] \in LaunchRows /\ OwnOrTeam(launch[l])
    BY <2>1, InUse DEF RegistryForm, LaunchesInv
  <2>3. epoch \in {1, 2} /\ policy \in R!Policies
    BY <2>2 DEF RegistryForm, RunnerRows, LaunchRows
  <2> HIDE DEF epoch, policy
  <2>4. /\ facts \in LaunchRows /\ facts.runner = launch[l].runner /\ facts.by = launch[l].by
        /\ facts.team = launch[l].team
    BY <2>2, <2>3 DEF LaunchRows
  <2> HIDE DEF facts
  <2>5. w \in Commands /\ w.op = "ATTEMPT" /\ w.with.launch = l /\ w.with.facts = facts
    BY <2>4 DEF Commands
  <2> HIDE DEF w
  <2>6. OwnOrTeam(facts)
    BY <2>2, <2>4 DEF OwnOrTeam
  <2> QED BY <1>4, <2>1, <2>5, <2>6
<1> QED BY <1>1, <1>3, <1>5, <1>7, <1>8, <1>9, <1>10, <1>11, RegistryWriters
    DEF RegistryWritten, WritesCommand


RegistryMoves ==
    /\ PairingsMove /\ RunnersMove /\ MappingMove /\ ProfilesMove /\ AcknowledgementsMove
    /\ ExposuresMove /\ ClockMove /\ LeasesMove /\ ChangesMove /\ TokensMove /\ ProofsMove
    /\ LaunchesMove /\ CommandsMove

LEMMA RegistryStepMoves ==
    ASSUME FormInv, RegistryForm, RunnersInv, LaunchesInv, RegistryStep
    PROVE  RegistryMoves
BY PairingsStep, RunnersStep, MappingStep, ProfilesStep, AcknowledgementsStep, ExposuresStep,
   ClockStep, LeasesStep, ChangesStep, TokensStep, ProofsStep, LaunchesStep, CommandsStep
   DEF RegistryMoves

-------------------------------------------------------------------------------
(* The registry's invariant is kept by a step.                             *)

LEMMA RegistryFormKept ==
    ASSUME RegistryMoves
    PROVE  RegistryForm'
BY DEF RegistryMoves, PairingsMove, RunnersMove, MappingMove, ProfilesMove,
   AcknowledgementsMove, ExposuresMove, ClockMove, LeasesMove, ChangesMove, TokensMove,
   ProofsMove, LaunchesMove, CommandsMove, RegistryForm

\* A runner that falls takes with it all that rests on it; while it does not, its owner stays.
LEMMA FallTogether ==
    ASSUME FormInv, RegistryForm, RunnersInv, RegistryStep,
           NEW r \in Runners, runner[r].state = "LIVE"
    PROVE  /\ runner'[r].state = "REVOKED" =>
                /\ r \in changes' /\ \A v \in R!Revisions : mapping'[r][v] # "LIVE"
                /\ \A a \in Acknowledgements :
                     acknowledgement'[a].state = "LIVE" => acknowledgement'[a].facts.runner # r
                /\ \A e \in Exposures :
                     exposure'[e].state = "LIVE" => exposure'[e].facts.runner # r
           /\ runner'[r].state = "LIVE" /\ runner[r].owner \in ActiveMembers =>
                runner[r].owner \in ActiveMembers'
<1>1. CASE Falls
  <2>1. PICK gone \in SUBSET Runners :
          /\ R!Withdraw(gone)
          /\ \A s \in gone : runner[s].state = "LIVE"
          /\ \A s \in Runners : runner[s].state = "LIVE" /\ s \notin gone =>
               runner[s].owner \notin ActiveMembers \/ runner[s].owner \in ActiveMembers'
    BY <1>1, FallsWithdraw
  <2>2. CASE r \in gone
    <3>1. runner'[r].state = "REVOKED"
      BY <2>1, <2>2 DEF R!Withdraw, RegistryForm, RunnerRows
    <3>2. r \in changes' /\ \A v \in R!Revisions : mapping'[r][v] # "LIVE"
      BY <2>1, <2>2 DEF R!Withdraw
    <3>3. ASSUME NEW a \in Acknowledgements, acknowledgement'[a].state = "LIVE"
          PROVE  acknowledgement'[a].facts.runner # r
      <4>1. acknowledgement[a] \in AcknowledgementRows
        BY DEF RegistryForm
      <4>2. acknowledgement'[a] =
              IF acknowledgement[a].state = "LIVE" /\ acknowledgement[a].facts.runner \in gone
              THEN [acknowledgement[a] EXCEPT !.state = "REVOKED"] ELSE acknowledgement[a]
        BY <2>1 DEF R!Withdraw
      <4>3. ~(acknowledgement[a].state = "LIVE" /\ acknowledgement[a].facts.runner \in gone)
        BY <3>3, <4>1, <4>2 DEF AcknowledgementRows
      <4> QED BY <2>2, <3>3, <4>2, <4>3
    <3>4. ASSUME NEW e \in Exposures, exposure'[e].state = "LIVE"
          PROVE  exposure'[e].facts.runner # r
      <4>1. exposure[e] \in ExposureRows
        BY DEF RegistryForm
      <4>2. exposure'[e] =
              IF exposure[e].state = "LIVE" /\ exposure[e].facts.runner \in gone
              THEN [exposure[e] EXCEPT !.state = "REVOKED"] ELSE exposure[e]
        BY <2>1 DEF R!Withdraw
      <4>3. ~(exposure[e].state = "LIVE" /\ exposure[e].facts.runner \in gone)
        BY <3>4, <4>1, <4>2 DEF ExposureRows
      <4> QED BY <2>2, <3>4, <4>2, <4>3
    <3> QED BY <3>1, <3>2, <3>3, <3>4
  <2>3. CASE r \notin gone
    <3>1. runner'[r] = runner[r]
      BY <2>1, <2>3 DEF R!Withdraw
    <3> QED BY <2>1, <2>3, <3>1
  <2> QED BY <2>2, <2>3
<1>2. CASE ~Falls
  <2>1. runner'[r].state = "LIVE"
    <3>1. CASE runner' = runner
      BY <3>1
    <3>2. ASSUME NEW c \in Clients, R!CommitConsumption(c) PROVE runner'[r].state = "LIVE"
      BY <3>2, RoomInTable DEF R!CommitConsumption, R!NewRunner, RegistryForm
    <3>3. ASSUME NEW s \in Runners, NEW audience \in {"OWNER_ONLY", "TEAM"},
                 R!ReplacePolicy(s, audience)
          PROVE  runner'[r].state = "LIVE"
      BY <3>3 DEF R!ReplacePolicy, RegistryForm, RunnerRows
    <3> QED BY <1>2, <3>1, <3>2, <3>3, RegistryWriters DEF RegistryWritten, WritesRunner
  <2>2. ActiveMembers \subseteq ActiveMembers'
    BY <1>2 DEF RegistryStep, Falls
  <2> QED BY <2>1, <2>2
<1> QED BY <1>1, <1>2

LEMMA RunnersKept ==
    ASSUME FormInv, RegistryForm, RunnersInv, RegistryMoves
    PROVE  RunnersInv'
<1> USE DEF RegistryMoves
<1>1. \A q \in Pairings : pairing'[q].state # "NONE" => pairing'[q].of \in Members
  BY DEF PairingsMove, RunnersInv
<1>2. ASSUME NEW r \in Runners
      PROVE  /\ runner'[r].state # "NONE" => runner'[r].owner \in Members
             /\ runner'[r].state = "NONE" => runner'[r].by = None
             /\ runner'[r].epoch = IF runner'[r].state = "REVOKED" THEN 2 ELSE 1
             /\ runner'[r].credential = (runner'[r].state = "LIVE")
  <2>1. Continued(r) \/ Paired(r) \/ Fell(r)
    BY DEF RunnersMove
  <2>2. CASE Continued(r)
    BY <2>2 DEF Continued, RunnersInv
  <2>3. CASE Paired(r)
    <3>1. runner'[r].owner \in Members /\ runner'[r].state = "LIVE" /\ runner'[r].epoch = 1
      BY <2>3 DEF Paired, ActiveMembers
    <3>2. runner'[r].credential = TRUE
      <4>1. runner'[r].credential \in BOOLEAN
        BY DEF RunnersMove, RunnerRows
      <4> QED BY <2>3, <4>1 DEF Paired
    <3> QED BY <3>1, <3>2
  <2>4. CASE Fell(r)
    <3>1. /\ runner'[r].state = "REVOKED" /\ runner'[r].owner \in Members
          /\ runner'[r].epoch = 2
      BY <2>4 DEF Fell, RunnersInv
    <3>2. runner'[r].credential = FALSE
      <4>1. runner'[r].credential \in BOOLEAN
        BY DEF RunnersMove, RunnerRows
      <4> QED BY <2>4, <4>1 DEF Fell
    <3> QED BY <3>1, <3>2
  <2> QED BY <2>1, <2>2, <2>3, <2>4
<1>3. ASSUME NEW r \in Runners
      PROVE  /\ \A v \in R!Revisions : mapping'[r][v] # "NONE" => mapping'[r][1] # "NONE"
             /\ \A v, w \in R!Revisions : mapping'[r][v] = "LIVE" /\ w > v => mapping'[r][w] = "NONE"
  BY DEF MappingMove
<1>4. ASSUME NEW r \in Runners, NEW v \in lease'[r].observed PROVE mapping'[r][v] # "NONE"
  <2>1. v \in R!Revisions
    BY DEF LeasesMove
  <2>2. mapping[r][v] # "NONE"
    BY DEF LeasesMove, RunnersInv
  <2> QED BY <2>1, <2>2 DEF MappingMove, Mapped
<1>5. R!PairedOnce'
  <2>1. \A r \in Runners : runner[r].by # None =>
           pairing[runner[r].by].state = "CONSUMED" /\ pairing[runner[r].by].of = runner[r].owner
    BY DEF RunnersInv, R!PairedOnce
  <2>2. \A r \in Runners : runner[r].by # None => runner[r].by \in Pairings
    BY DEF RegistryForm, RunnerRows
  <2>3. \A q \in Pairings : pairing[q].state = "CONSUMED" => pairing'[q] = pairing[q]
    BY DEF PairingsMove
  <2>4. ASSUME NEW r \in Runners, runner'[r].by # None
        PROVE  /\ pairing'[runner'[r].by].state = "CONSUMED"
               /\ pairing'[runner'[r].by].of = runner'[r].owner
    <3>1. CASE Continued(r) \/ Fell(r)
      <4>1. runner'[r].by = runner[r].by /\ runner'[r].owner = runner[r].owner
        BY <3>1 DEF Continued, Fell
      <4> QED BY <2>1, <2>2, <2>3, <2>4, <4>1
    <3>2. CASE Paired(r)
      BY <3>2 DEF Paired
    <3> QED BY <3>1, <3>2 DEF RunnersMove
  <2>5. ASSUME NEW r \in Runners, NEW s \in Runners, r # s, runner'[r].by # None
        PROVE  runner'[r].by # runner'[s].by
    <3>1. ASSUME NEW x \in Runners, NEW y \in Runners, x # y, Paired(x)
          PROVE  runner'[x].by # runner'[y].by
      <4>1. runner'[y].by = runner[y].by
        BY <3>1 DEF Paired
      <4>2. PICK q \in Pairings : pairing[q].state = "CONFIRMED" /\ runner'[x].by = q
        BY <3>1 DEF Paired
      <4> QED BY <2>1, <4>1, <4>2, RegistryAssumption
    <3>2. CASE Paired(r) \/ Paired(s)
      BY <2>5, <3>1, <3>2
    <3>3. CASE ~Paired(r) /\ ~Paired(s)
      <4>1. runner'[r].by = runner[r].by /\ runner'[s].by = runner[s].by
        BY <3>3 DEF RunnersMove, Continued, Fell
      <4> QED BY <2>5, <4>1 DEF RunnersInv, R!PairedOnce
    <3> QED BY <3>2, <3>3
  <2> QED BY <2>4, <2>5 DEF R!PairedOnce
<1> QED BY <1>1, <1>2, <1>3, <1>4, <1>5 DEF RunnersInv


\* A runner, once paired, stays of its owner, with a policy and a profile that only advance.
LEMMA RunnerStays ==
    ASSUME RegistryForm, RegistryMoves, NEW r \in Runners, runner[r].state # "NONE"
    PROVE  /\ runner'[r].state # "NONE" /\ runner'[r].owner = runner[r].owner
           /\ runner[r].policy \in Nat /\ runner'[r].policy >= runner[r].policy
           /\ runner'[r].policy = runner[r].policy => runner'[r].audience = runner[r].audience
           /\ profile[r] \in Nat /\ profile'[r] \in Nat /\ profile'[r] >= profile[r]
           /\ \A v \in R!Revisions : mapping[r][v] # "NONE" => mapping'[r][v] # "NONE"
           /\ runner[r].state = "REVOKED" => runner'[r].state = "REVOKED"
<1>1. runner[r].policy \in Nat /\ runner'[r].policy \in Nat
  BY DEF RegistryForm, RegistryMoves, RunnersMove, RunnerRows, R!Policies
<1>2. Continued(r) \/ Fell(r)
  BY DEF RegistryMoves, RunnersMove, Paired
<1>3. profile[r] \in Nat /\ profile'[r] \in Nat /\ profile'[r] >= profile[r]
  BY DEF RegistryForm, RegistryMoves, ProfilesMove
<1>4. \A v \in R!Revisions : mapping[r][v] # "NONE" => mapping'[r][v] # "NONE"
  BY DEF RegistryMoves, MappingMove, Mapped
<1> QED BY <1>1, <1>2, <1>3, <1>4 DEF Continued, Fell

LEMMA StoodStays ==
    ASSUME RegistryForm, RegistryMoves
    PROVE  \A f \in R!Facts : Stood(f) =>
             /\ runner'[f.runner].state # "NONE" /\ mapping'[f.runner][f.mapping] # "NONE"
             /\ f.version <= profile'[f.runner] /\ f.policy <= runner'[f.runner].policy
<1> SUFFICES ASSUME NEW f \in R!Facts, Stood(f)
             PROVE  /\ runner'[f.runner].state # "NONE" /\ mapping'[f.runner][f.mapping] # "NONE"
                    /\ f.version <= profile'[f.runner] /\ f.policy <= runner'[f.runner].policy
  OBVIOUS
<1>1. /\ f.runner \in Runners /\ f.mapping \in R!Revisions /\ f.version \in Nat
      /\ f.policy \in Nat
  BY DEF R!Facts, R!Revisions, R!Policies
<1>2. runner'[f.runner].policy \in Nat
  BY <1>1 DEF RegistryMoves, RunnersMove, RunnerRows, R!Policies
<1> QED BY <1>1, <1>2, RunnerStays DEF Stood

LEMMA CurrentStands ==
    ASSUME RegistryForm, NEW f \in R!Facts, R!IsCurrent(f)
    PROVE  Stood(f)
<1>1. /\ f.runner \in Runners /\ f.version \in Nat /\ f.policy \in Nat
  BY DEF R!Facts, R!Revisions, R!Policies
<1> QED BY <1>1 DEF R!IsCurrent, Stood

LEMMA FactsKept ==
    ASSUME RegistryForm, FactsInv, RegistryMoves
    PROVE  FactsInv'
<1>1. ASSUME NEW a \in Acknowledgements, acknowledgement'[a].state # "NONE"
      PROVE  \E f \in R!Facts :
               /\ acknowledgement'[a].facts = f
               /\ runner'[f.runner].state # "NONE" /\ mapping'[f.runner][f.mapping] # "NONE"
               /\ f.version <= profile'[f.runner] /\ f.policy <= runner'[f.runner].policy
  <2>1. \E f \in R!Facts : acknowledgement'[a].facts = f /\ Stood(f)
    <3>1. CASE acknowledgement[a].state # "NONE"
      <4>1. Stood(acknowledgement[a].facts) /\ acknowledgement[a].facts \in R!Facts
        BY <3>1 DEF FactsInv, Stood
      <4>2. acknowledgement'[a].facts = acknowledgement[a].facts
        BY <3>1 DEF RegistryMoves, AcknowledgementsMove, Acknowledged
      <4> QED BY <4>1, <4>2
    <3>2. CASE acknowledgement[a].state = "NONE"
      <4>1. \E f \in R!Facts : acknowledgement'[a].facts = f /\ R!IsCurrent(f)
        BY <1>1, <3>2 DEF RegistryMoves, AcknowledgementsMove, Acknowledged
      <4> QED BY <4>1, CurrentStands
    <3> QED BY <3>1, <3>2
  <2> QED BY <2>1, StoodStays
<1>2. \A a \in Acknowledgements :
        acknowledgement[a].state # "NONE" => /\ acknowledgement'[a].state # "NONE"
                                             /\ acknowledgement'[a].facts = acknowledgement[a].facts
  BY DEF RegistryMoves, AcknowledgementsMove, Acknowledged
<1>3. ASSUME NEW e \in Exposures, exposure'[e].state # "NONE"
      PROVE  /\ exposure'[e].by \in Acknowledgements
             /\ acknowledgement'[exposure'[e].by].state # "NONE"
             /\ exposure'[e].facts = acknowledgement'[exposure'[e].by].facts
             /\ exposure'[e].facts.policy = runner'[exposure'[e].facts.runner].policy =>
                  runner'[exposure'[e].facts.runner].audience = "TEAM"
  <2>1. CASE exposure[e].state # "NONE"
    <3>1. exposure'[e].by = exposure[e].by /\ exposure'[e].facts = exposure[e].facts
      BY <2>1 DEF RegistryMoves, ExposuresMove, Exposed
    <3> DEFINE a == exposure[e].by
               f == exposure[e].facts
    <3>2. /\ a \in Acknowledgements /\ acknowledgement[a].state # "NONE"
          /\ f = acknowledgement[a].facts
          /\ f.policy = runner[f.runner].policy => runner[f.runner].audience = "TEAM"
      BY <2>1 DEF FactsInv
    <3>3. Stood(f)
      BY <3>2 DEF FactsInv
    <3> HIDE DEF a, f
    <3>4. f \in R!Facts /\ f.runner \in Runners /\ f.policy \in Nat
      BY <3>3 DEF Stood, R!Facts, R!Policies
    <3>5. runner[f.runner].state # "NONE" /\ f.policy <= runner[f.runner].policy
      BY <3>3 DEF Stood
    <3>6. runner'[f.runner].policy \in Nat
      BY <3>4 DEF RegistryMoves, RunnersMove, RunnerRows, R!Policies
    <3>7. f.policy = runner'[f.runner].policy => runner'[f.runner].audience = "TEAM"
      BY <3>2, <3>4, <3>5, <3>6, RunnerStays
    <3> QED BY <1>2, <3>1, <3>2, <3>7 DEF a, f
  <2>2. CASE exposure[e].state = "NONE"
    <3>1. Unmoved /\ acknowledgement' = acknowledgement
      BY <1>3, <2>2 DEF RegistryMoves, ExposuresMove, Exposed
    <3>2. PICK c \in Clients, a \in Acknowledgements :
            /\ command[c].op = "EXPOSE" /\ command[c].with.acknowledgement = a
            /\ exposure'[e].by = a /\ exposure'[e].facts = acknowledgement[a].facts
            /\ runner[acknowledgement[a].facts.runner].audience = "TEAM"
      BY <1>3, <2>2 DEF RegistryMoves, ExposuresMove, Exposed
    <3>3. acknowledgement[a].state # "NONE"
      BY <3>2 DEF FactsInv
    <3> QED BY <3>1, <3>2, <3>3 DEF Unmoved
  <2> QED BY <2>1, <2>2
<1>4. ASSUME NEW c \in Clients, command'[c].op = "EXPOSE"
      PROVE  acknowledgement'[command'[c].with.acknowledgement].state # "NONE"
  <2>1. acknowledgement[command'[c].with.acknowledgement].state # "NONE"
    BY <1>4 DEF RegistryMoves, CommandsMove, Came, FactsInv
  <2>2. command'[c].with.acknowledgement \in Acknowledgements
    BY <1>4, CommandForms DEF RegistryMoves, CommandsMove
  <2> QED BY <1>2, <2>1, <2>2
<1> QED BY <1>1, <1>3, <1>4 DEF FactsInv, Stood

LEMMA ProofsKept ==
    ASSUME RegistryForm, ProofsInv, RegistryMoves
    PROVE  ProofsInv'
<1>1. clock \in Nat /\ clock' \in Nat /\ clock' >= clock
  BY RegistryAssumption DEF RegistryForm, RegistryMoves, ClockMove
<1>2. ASSUME NEW t \in Tokens, token'[t].state \in {"HELD", "CONNECTED"}
      PROVE  token'[t].expires <= clock' + R!AccessTicks
  <2>1. token'[t].expires \in Nat
    BY <1>2 DEF RegistryMoves, TokensMove, TokenRows
  <2>2. token'[t].expires <= clock + R!AccessTicks
    BY <1>1, <1>2, <2>1 DEF RegistryMoves, TokensMove, Token, ProofsInv, R!AccessTicks
  <2> QED BY <1>1, <2>1, <2>2 DEF R!AccessTicks
<1>3. \A t \in Tokens :
        /\ token[t].state # "NONE" => token'[t].state # "NONE"
        /\ token[t].state # "NONE" /\ token'[t].state \in {"HELD", "CONNECTED"} =>
             token[t].state \in {"HELD", "CONNECTED"} /\ token'[t].expires = token[t].expires
  BY DEF RegistryMoves, TokensMove, Token
<1>4. ASSUME NEW j \in Proofs, proof'[j].state = "SIGNED"
      PROVE  /\ token'[proof'[j].for].state # "NONE" /\ proof'[j].uses \in {0, 1}
             /\ proof'[j].uses = 1 =>
                  /\ proof'[j].row \in Nat
                  /\ token'[proof'[j].for].state \in {"HELD", "CONNECTED"} =>
                       token'[proof'[j].for].expires <= proof'[j].row
  <2>1. CASE proof'[j] = proof[j]
    <3>1. proof[j].for \in Tokens
      BY <1>4, <2>1 DEF RegistryForm, ProofRows
    <3> QED BY <1>3, <1>4, <2>1, <3>1 DEF ProofsInv
  <2>2. ASSUME NEW t \in Tokens, proof'[j].for = t, token[t].state = "HELD", proof'[j].uses = 0
        PROVE  token'[proof'[j].for].state # "NONE" /\ proof'[j].uses \in {0, 1} /\ proof'[j].uses # 1
    BY <1>3, <2>2
  <2>3. ASSUME proof[j].state = "SIGNED", proof'[j].for = proof[j].for,
               proof'[j].uses = proof[j].uses + 1, proof'[j].row = clock + R!ReplayTicks,
               R!LiveToken(proof[j].for), ~R!Remembered(j)
        PROVE  /\ token'[proof'[j].for].state # "NONE" /\ proof'[j].uses = 1
               /\ proof'[j].row \in Nat
               /\ token'[proof'[j].for].state \in {"HELD", "CONNECTED"} =>
                    token'[proof'[j].for].expires <= proof'[j].row
    <3> DEFINE t == proof[j].for
    <3>1. t \in Tokens /\ proof[j].row \in Nat \cup {None}
      BY <2>3 DEF RegistryForm, ProofRows
    <3>2. token[t].state \in {"HELD", "CONNECTED"} /\ clock < token[t].expires
      BY <2>3 DEF R!LiveToken
    <3>3. token[t].expires \in Nat
      BY <3>1, <3>2 DEF RegistryForm, TokenRows
    <3>4. proof[j].uses # 1
      <4>1. SUFFICES ASSUME proof[j].uses = 1 PROVE FALSE
        OBVIOUS
      <4>2. proof[j].row \in Nat /\ token[t].expires <= proof[j].row
        BY <2>3, <3>2, <4>1 DEF ProofsInv
      <4>3. proof[j].row # None
        BY <4>2, RegistryAssumption
      <4>4. ~(clock < proof[j].row)
        BY <2>3, <4>3 DEF R!Remembered
      <4> QED BY <1>1, <3>2, <3>3, <4>2, <4>4
    <3>5. proof[j].uses = 0
      BY <2>3, <3>4 DEF ProofsInv
    <3>6. token[t].expires <= clock + R!AccessTicks
      BY <3>1, <3>2 DEF ProofsInv
    <3>7. clock + R!ReplayTicks \in Nat /\ token[t].expires <= clock + R!ReplayTicks
      BY <1>1, <3>3, <3>6 DEF R!AccessTicks, R!ReplayTicks
    <3> QED BY <1>3, <2>3, <3>1, <3>2, <3>5, <3>7
  <2> QED BY <2>1, <2>2, <2>3, <1>4 DEF RegistryMoves, ProofsMove, Proof
<1> QED BY <1>2, <1>4 DEF ProofsInv

LEMMA LaunchesKept ==
    ASSUME RegistryForm, LaunchesInv, RegistryMoves
    PROVE  LaunchesInv'
<1>1. \A w : w.runner \in Runners /\ OwnOrTeam(w) =>
        /\ runner'[w.runner].state # "NONE"
        /\ w.by = runner'[w.runner].owner \/ w.team
  BY RunnerStays DEF OwnOrTeam
<1>2. \A l \in Launches : launch'[l].state # "NONE" => launch'[l].runner \in Runners
  BY DEF RegistryMoves, LaunchesMove, LaunchRows
<1>3. ASSUME NEW l \in Launches, launch'[l].state # "NONE"
      PROVE  /\ runner'[launch'[l].runner].state # "NONE"
             /\ launch'[l].by = runner'[launch'[l].runner].owner \/ launch'[l].team
  <2>1. \E w : launch'[l].runner = w.runner /\ launch'[l].by = w.by /\ launch'[l].team = w.team
               /\ OwnOrTeam(w)
    <3>1. CASE launch[l].state # "NONE" /\ (launch'[l] = launch[l] \/ Advanced(l))
      BY <3>1 DEF LaunchesInv, Advanced
    <3>2. CASE Ordered(l)
      BY <3>2 DEF Ordered
    <3> QED BY <1>3, <3>1, <3>2 DEF RegistryMoves, LaunchesMove, Advanced
  <2>2. PICK w : launch'[l].runner = w.runner /\ launch'[l].by = w.by /\ launch'[l].team = w.team
                 /\ OwnOrTeam(w)
    BY <2>1
  <2>3. w.runner \in Runners
    BY <1>2, <1>3, <2>2
  <2> QED BY <1>1, <2>2, <2>3
<1>4. ASSUME NEW c \in Clients, command'[c].op = "ATTEMPT"
      PROVE  /\ launch'[command'[c].with.launch].state # "NONE"
             /\ runner'[command'[c].with.facts.runner].state # "NONE"
             /\ \/ command'[c].with.facts.by = runner'[command'[c].with.facts.runner].owner
                \/ command'[c].with.facts.team
  <2>1. command'[c].with.launch \in Launches /\ command'[c].with.facts \in LaunchRows
    BY <1>4, CommandForms DEF RegistryMoves, CommandsMove
  <2>2. /\ launch[command'[c].with.launch].state # "NONE"
        /\ \E w \in LaunchRows : command'[c].with.facts = w /\ OwnOrTeam(w)
    <3>1. CASE Came(c)
      BY <1>4, <3>1 DEF Came
    <3>2. CASE command'[c] = command[c]
      BY <1>4, <2>1, <3>2 DEF LaunchesInv
    <3> QED BY <3>1, <3>2 DEF RegistryMoves, CommandsMove
  <2>3. \A l \in Launches : launch[l].state # "NONE" => launch'[l].state # "NONE"
    BY DEF RegistryMoves, LaunchesMove, Ordered, Advanced
  <2>4. PICK w \in LaunchRows : command'[c].with.facts = w /\ OwnOrTeam(w)
    BY <2>2
  <2>5. w.runner \in Runners
    BY DEF LaunchRows
  <2> QED BY <1>1, <2>1, <2>2, <2>3, <2>4, <2>5
<1> QED BY <1>3, <1>4 DEF LaunchesInv, OwnOrTeam

LEMMA RevokedKept ==
    ASSUME FormInv, RegistryForm, RunnersInv, FactsInv, R!RevokedHoldsNothing, RegistryStep,
           RegistryMoves
    PROVE  R!RevokedHoldsNothing'
<1>1. ASSUME NEW r \in Runners, runner'[r].state = "LIVE"
      PROVE  runner'[r].owner \in ActiveMembers'
  <2>1. CASE Paired(r)
    BY <2>1 DEF Paired
  <2>2. CASE Continued(r)
    <3>1. runner[r].state = "LIVE" /\ runner'[r].owner = runner[r].owner
      BY <1>1, <2>2 DEF Continued
    <3>2. runner[r].owner \in ActiveMembers
      BY <3>1 DEF R!RevokedHoldsNothing
    <3> QED BY <1>1, <3>1, <3>2, FallTogether
  <2> QED BY <1>1, <2>1, <2>2 DEF RegistryMoves, RunnersMove, Fell
<1>2. ASSUME NEW r \in Runners, runner'[r].state = "REVOKED"
      PROVE  /\ r \in changes'
             /\ \A v \in R!Revisions : mapping'[r][v] # "LIVE"
             /\ \A e \in Exposures : exposure'[e].state = "LIVE" => exposure'[e].facts.runner # r
             /\ \A a \in Acknowledgements :
                  acknowledgement'[a].state = "LIVE" => acknowledgement'[a].facts.runner # r
  <2>1. CASE runner[r].state = "LIVE"
    BY <1>2, <2>1, FallTogether
  <2>2. CASE runner[r].state # "LIVE"
    <3>1. runner[r].state = "REVOKED"
      BY <1>2, <2>2 DEF RegistryMoves, RunnersMove, Continued, Paired, Fell
    <3>2. /\ r \in changes /\ \A v \in R!Revisions : mapping[r][v] # "LIVE"
          /\ \A e \in Exposures : exposure[e].state = "LIVE" => exposure[e].facts.runner # r
          /\ \A a \in Acknowledgements :
               acknowledgement[a].state = "LIVE" => acknowledgement[a].facts.runner # r
      BY <3>1 DEF R!RevokedHoldsNothing
    <3>3. r \in changes'
      BY <3>2 DEF RegistryMoves, ChangesMove
    <3>4. \A v \in R!Revisions : mapping'[r][v] # "LIVE"
      BY <3>1, <3>2 DEF RegistryMoves, MappingMove, Mapped
    <3>5. ASSUME NEW e \in Exposures, exposure'[e].state = "LIVE"
          PROVE  exposure'[e].facts.runner # r
      BY <3>1, <3>2, <3>5 DEF RegistryMoves, ExposuresMove, Exposed, R!IsCurrent
    <3>6. ASSUME NEW a \in Acknowledgements, acknowledgement'[a].state = "LIVE"
          PROVE  acknowledgement'[a].facts.runner # r
      BY <3>1, <3>2, <3>6 DEF RegistryMoves, AcknowledgementsMove, Acknowledged, R!IsCurrent
    <3> QED BY <3>3, <3>4, <3>5, <3>6
  <2> QED BY <2>1, <2>2
<1> QED BY <1>1, <1>2 DEF R!RevokedHoldsNothing


LEMMA RegistryKept ==
    ASSUME FormInv, RegistryInv, [MembershipNext]_membershipVars
    PROVE  RegistryInv'
<1> USE DEF RegistryInv
<1>1. RegistryStep
  BY StepsOfRegistry
<1>2. RegistryMoves
  BY <1>1, RegistryStepMoves
<1>3. RegistryForm' /\ RunnersInv' /\ FactsInv' /\ ProofsInv' /\ LaunchesInv'
  BY <1>2, RegistryFormKept, RunnersKept, FactsKept, ProofsKept, LaunchesKept
<1>4. R!RevokedHoldsNothing'
  BY <1>1, <1>2, RevokedKept
<1> QED BY <1>3, <1>4

\* The first runner of a deployment in use begins with an owner who is a member.
LEMMA SomeoneOwns ==
    ASSUME Init, "RUNNER" \in workload
    PROVE  (CHOOSE m \in ActiveMembers : TRUE) \in ActiveMembers
<1>1. PICK o \in Owners : o \in Members
  BY IdentityAssumption
<1>2. "BOOTSTRAP" \notin workload
  BY RegistryAssumption DEF Init
<1>3. member[o].status = "ACTIVE"
  BY <1>1, <1>2 DEF Init
<1> QED BY <1>1, <1>3 DEF ActiveMembers, Active

LEMMA RegistryBegins ==
    ASSUME Init, R!Init
    PROVE  RegistryInv
<1>1. 1 \in R!Revisions /\ 1 \in R!Policies /\ 0 \in 0..Horizon /\ {0, 1} \subseteq 0..MaxRevision
  BY RegistryAssumption DEF R!Revisions, R!Policies
<1>2. ASSUME NEW r \in Runners
      PROVE  /\ runner[r] \in RunnerRows /\ runner[r].state \in {"NONE", "LIVE"}
             /\ runner[r].state # "NONE" => runner[r].owner \in ActiveMembers
             /\ runner[r].by = None /\ runner[r].epoch = 1
             /\ runner[r].credential = (runner[r].state = "LIVE")
  <2>1. CASE "RUNNER" \in workload /\ r = CHOOSE x \in Runners : TRUE
    <3> DEFINE m == CHOOSE n \in ActiveMembers : TRUE
    <3>1. m \in ActiveMembers /\ m \in Members
      BY <2>1, SomeoneOwns DEF ActiveMembers
    <3>2. runner[r] = [state |-> "LIVE", owner |-> m, by |-> None, epoch |-> 1, policy |-> 1,
                       audience |-> "OWNER_ONLY", credential |-> TRUE]
      BY <2>1 DEF R!Init
    <3> HIDE DEF m
    <3>3. /\ runner[r] \in RunnerRows /\ runner[r].state = "LIVE" /\ runner[r].owner = m
          /\ runner[r].by = None /\ runner[r].epoch = 1
      BY <1>1, <3>1, <3>2 DEF RunnerRows
    <3>4. runner[r].credential = TRUE
      BY <3>2
    <3> QED BY <3>1, <3>3, <3>4
  <2>2. CASE ~("RUNNER" \in workload /\ r = CHOOSE x \in Runners : TRUE)
    <3>1. runner[r] = [state |-> "NONE", owner |-> None, by |-> None, epoch |-> 1, policy |-> 1,
                       audience |-> "OWNER_ONLY", credential |-> FALSE]
      BY <2>2 DEF R!Init
    <3>2. /\ runner[r] \in RunnerRows /\ runner[r].state = "NONE"
          /\ runner[r].by = None /\ runner[r].epoch = 1
      BY <1>1, <3>1 DEF RunnerRows
    <3>3. runner[r].credential = FALSE
      BY <3>1
    <3> QED BY <3>2, <3>3
  <2> QED BY <2>1, <2>2
<1>3. runner \in [Runners -> RunnerRows]
  <2>1. runner = [r \in Runners |-> runner[r]]
    BY DEF R!Init
  <2> QED BY <1>2, <2>1
<1>4. /\ mapping \in [Runners -> [R!Revisions -> {"NONE", "LIVE", "REVOKED"}]]
      /\ \A r \in Runners, v \in R!Revisions : mapping[r][v] # "NONE" => v = 1 /\ mapping[r][1] # "NONE"
  <2>1. mapping = [r \in Runners |-> [v \in R!Revisions |->
          IF runner[r].state = "LIVE" /\ v = 1 /\ "MAP" \notin workload THEN "LIVE" ELSE "NONE"]]
    BY DEF R!Init
  <2> QED BY <1>1, <2>1
<1>5. profile \in [Runners -> 0..MaxRevision]
  BY <1>1 DEF R!Init
<1>6. /\ pairing \in [Pairings -> PairingRows] /\ \A q \in Pairings : pairing[q].state = "NONE"
  BY DEF R!Init, PairingRows
<1>7. /\ acknowledgement \in [Acknowledgements -> AcknowledgementRows]
      /\ \A a \in Acknowledgements : acknowledgement[a].state = "NONE"
  BY DEF R!Init, AcknowledgementRows
<1>8. exposure \in [Exposures -> ExposureRows] /\ \A e \in Exposures : exposure[e].state = "NONE"
  BY DEF R!Init, ExposureRows
<1>9. /\ lease \in [Runners -> [beat : {"NEVER", "RECENT", "OLD"}, observed : SUBSET R!Revisions]]
      /\ \A r \in Runners : lease[r].observed = {}
  BY DEF R!Init
<1>10. /\ token \in [Tokens -> TokenRows] /\ \A t \in Tokens : token[t].state = "NONE"
       /\ proof \in [Proofs -> ProofRows] /\ \A j \in Proofs : proof[j].state = "NONE"
  BY DEF R!Init, TokenRows, ProofRows
<1>11. /\ launch \in [Launches -> [state : {"NONE"}] \cup LaunchRows]
       /\ \A l \in Launches : launch[l].state = "NONE"
  BY DEF R!Init
<1>12. command \in [Clients -> Commands] /\ \A c \in Clients : command[c].op = "IDLE"
  BY DEF R!Init, R!Idle, Commands
<1>13. clock \in 0..Horizon /\ changes \subseteq Runners
  BY <1>1 DEF R!Init
<1>14. RegistryForm
  BY <1>3, <1>4, <1>5, <1>6, <1>7, <1>8, <1>9, <1>10, <1>11, <1>12, <1>13 DEF RegistryForm
<1>15. RunnersInv
  <2>1. \A r \in Runners : runner[r].state # "NONE" => runner[r].owner \in Members
    BY <1>2 DEF ActiveMembers
  <2>2. \A r \in Runners, v, w \in R!Revisions :
           mapping[r][v] = "LIVE" /\ w > v => mapping[r][w] = "NONE"
    BY <1>1, <1>4
  <2>3. R!PairedOnce
    BY <1>2 DEF R!PairedOnce
  <2> QED BY <1>2, <1>4, <1>6, <1>9, <2>1, <2>2, <2>3 DEF RunnersInv
<1>16. FactsInv
  BY <1>7, <1>8, <1>12 DEF FactsInv
<1>17. ProofsInv /\ LaunchesInv
  BY <1>10, <1>11, <1>12 DEF ProofsInv, LaunchesInv
<1>18. R!RevokedHoldsNothing
  BY <1>2 DEF R!RevokedHoldsNothing
<1> QED BY <1>14, <1>15, <1>16, <1>17, <1>18 DEF RegistryInv

-------------------------------------------------------------------------------
(* Theorems about Membership.                                              *)

\* The invariant of members and runners holds of every behaviour.
LEMMA Holds == MembershipSpec => []Inv
<1>1. MembershipInit => Inv
  BY IdentityBegins, RegistryBegins DEF MembershipInit, Inv
<1>2. Inv /\ [MembershipNext]_membershipVars => Inv'
  BY IdentityKept, RegistryKept DEF Inv, IdentityInv
<1> QED BY <1>1, <1>2, PTL DEF MembershipSpec

\* What each part of AcceptedOnce comes from.
LEMMA InvTypeOK ==
    ASSUME Inv
    PROVE  TypeOK
BY IdentityAssumption DEF Inv, IdentityInv, FormInv, TypeOK, MemberRows, SessionRows,
   PasskeyRows, ChallengeRows, InvitationRows, FamilyRows, RecoveryRows

LEMMA InvRegistryTypeOK ==
    ASSUME Inv
    PROVE  R!TypeOK
<1> USE DEF Inv, RegistryInv
<1>1. clock \in 0..Horizon /\ ActiveMembers \subseteq Members /\ WithDevice \subseteq ActiveMembers
  <2>1. WithDevice \subseteq ActiveMembers
    BY DEF IdentityInv, FamiliesInv, WithDevice, ActiveMembers
  <2> QED BY <2>1 DEF RegistryForm, ActiveMembers
<1>2. ASSUME NEW q \in Pairings
      PROVE  /\ pairing[q].state \in {"NONE", "PENDING", "CONFIRMED", "CONSUMED", "ENDED"}
             /\ pairing[q].state # "NONE" => pairing[q].of \in Members
  BY DEF RegistryForm, PairingRows, RunnersInv
<1>3. ASSUME NEW r \in Runners
      PROVE  /\ runner[r].state \in {"NONE", "LIVE", "REVOKED"}
             /\ runner[r].state # "NONE" => runner[r].owner \in Members
             /\ runner[r].epoch = IF runner[r].state = "REVOKED" THEN 2 ELSE 1
             /\ runner[r].policy \in R!Policies /\ runner[r].audience \in {"OWNER_ONLY", "TEAM"}
             /\ runner[r].credential = (runner[r].state = "LIVE")
             /\ \A v \in R!Revisions : mapping[r][v] \in {"NONE", "LIVE", "REVOKED"}
             /\ profile[r] \in 0..MaxRevision
             /\ lease[r].observed \subseteq {v \in R!Revisions : mapping[r][v] # "NONE"}
  <2>1. runner[r] \in RunnerRows
    BY DEF RegistryForm
  <2>2. lease[r].observed \subseteq R!Revisions
    BY DEF RegistryForm
  <2>3. lease[r].observed \subseteq {v \in R!Revisions : mapping[r][v] # "NONE"}
    BY <2>2 DEF RunnersInv
  <2> QED BY <2>1, <2>3 DEF RunnerRows, RunnersInv, RegistryForm
<1>4. ASSUME NEW r \in Runners
      PROVE  R!Cardinality({v \in R!Revisions : mapping[r][v] = "LIVE"}) <= 1
  <2> DEFINE L == {v \in R!Revisions : mapping[r][v] = "LIVE"}
  <2>1. \A v, w \in L : v = w
    <3>1. \A v, w \in L : v \in Nat /\ w \in Nat /\ ~(w > v) /\ ~(v > w)
      BY DEF RunnersInv, R!Revisions
    <3> QED BY <3>1
  <2>2. Cardinality(L) <= 1
    <3>1. CASE L = {}
      BY <3>1, FS_EmptySet
    <3>2. CASE L # {}
      <4>1. PICK v \in L : L = {v}
        BY <2>1, <3>2
      <4> QED BY <4>1, FS_Singleton
    <3> QED BY <3>1, <3>2
  <2> HIDE DEF L
  <2>3. R!Cardinality(L) = Cardinality(L)
    BY DEF R!Cardinality, Cardinality
  <2> QED BY <2>2, <2>3 DEF L
<1>5. ASSUME NEW a \in Acknowledgements
      PROVE  /\ acknowledgement[a].state \in {"NONE", "LIVE", "REVOKED"}
             /\ acknowledgement[a].state # "NONE" => acknowledgement[a].facts \in R!Facts
  BY DEF RegistryForm, AcknowledgementRows, FactsInv, Stood
<1>6. ASSUME NEW e \in Exposures
      PROVE  /\ exposure[e].state \in {"NONE", "LIVE", "REVOKED"}
             /\ exposure[e].state # "NONE" =>
                  exposure[e].facts = acknowledgement[exposure[e].by].facts
  BY DEF RegistryForm, ExposureRows, FactsInv
<1>7. \A l \in Launches : launch[l].state \in {"NONE", "RECORDED", "ISSUED", "CONSUMED", "REVOKED"}
  BY DEF RegistryForm, LaunchRows
<1>8. \A t \in Tokens : token[t].state \in {"NONE", "HELD", "CONNECTED", "GONE"}
  BY DEF RegistryForm, TokenRows
<1> HIDE DEF Inv, RegistryInv
<1> QED BY <1>1, <1>2, <1>3, <1>4, <1>5, <1>6, <1>7, <1>8, Zenon DEF R!TypeOK

\* Whatever is issued once buys one thing, whoever presents it together or again
\* (identity-authority.ts:663, devices.ts:412, runner-registry.ts:713,
\* authentication.ts:110).
THEOREM IssuedOnce == MembershipSpec => []AcceptedOnce
<1>1. Inv => AcceptedOnce
  <2>1. ASSUME Inv PROVE R!PairedOnce /\ R!ProofOnce /\ UsedOnce /\ RefreshedOnce
    <3>1. R!ProofOnce
      BY <2>1 DEF Inv, RegistryInv, ProofsInv, R!ProofOnce
    <3> QED BY <2>1, <3>1 DEF Inv, IdentityInv, RegistryInv, RunnersInv
  <2> QED BY <2>1, InvTypeOK, InvRegistryTypeOK DEF AcceptedOnce
<1> QED BY <1>1, Holds, PTL

\* Nothing that a revoked runner's owner let others do is in force, be it the runner or its
\* owner that was revoked, and whatever was between its read and its transaction
\* (runner-registry.ts:1371, 1677, revocation.ts:219).
THEOREM RevokedRunnersHoldNothing == MembershipSpec => []RevokedHoldsNothing
<1>1. Inv => RevokedHoldsNothing
  BY DEF Inv, RegistryInv, RevokedHoldsNothing
<1> QED BY <1>1, Holds, PTL


\* A step that makes an exposure one to dispatch to is the one that makes the exposure.
LEMMA EligibleWas ==
    ASSUME RegistryForm, FactsInv, RegistryMoves,
           NEW e \in Exposures, exposure[e].state # "NONE", R!Eligible(e)'
    PROVE  R!Eligible(e)
<1> DEFINE f == exposure[e].facts
           a == exposure[e].by
<1>1. exposure'[e].facts = f /\ exposure'[e].by = a /\ exposure[e].state = "LIVE"
  BY DEF RegistryMoves, ExposuresMove, Exposed, R!Eligible
<1>2. /\ acknowledgement'[a].state = "LIVE" /\ runner'[f.runner].state = "LIVE"
      /\ mapping'[f.runner][f.mapping] = "LIVE" /\ profile'[f.runner] = f.version
      /\ runner'[f.runner].policy = f.policy
  BY <1>1 DEF R!Eligible, R!IsCurrent
<1>3. /\ a \in Acknowledgements /\ acknowledgement[a].state # "NONE" /\ Stood(f)
      /\ f.policy = runner[f.runner].policy => runner[f.runner].audience = "TEAM"
  BY DEF FactsInv
<1> HIDE DEF f, a
<1>4. /\ f.runner \in Runners /\ f.mapping \in R!Revisions /\ f.version \in Nat
      /\ f.policy \in Nat
  BY <1>3 DEF Stood, R!Facts, R!Revisions, R!Policies
<1>5. acknowledgement[a].state = "LIVE"
  BY <1>2, <1>3 DEF RegistryMoves, AcknowledgementsMove, Acknowledged
<1>6. runner[f.runner].state = "LIVE"
  <2>1. runner[f.runner].state # "NONE" /\ runner[f.runner].state # "REVOKED"
    BY <1>2, <1>3, <1>4, RunnerStays DEF Stood
  <2>2. runner[f.runner].state \in {"NONE", "LIVE", "REVOKED"}
    BY <1>4 DEF RegistryForm, RunnerRows
  <2> QED BY <2>1, <2>2
<1>7. mapping[f.runner][f.mapping] = "LIVE"
  BY <1>2, <1>3, <1>4 DEF Stood, RegistryMoves, MappingMove, Mapped
<1>8. profile[f.runner] = f.version /\ runner[f.runner].policy = f.policy
  <2>1. /\ profile[f.runner] \in Nat /\ f.version >= profile[f.runner]
        /\ runner[f.runner].policy \in Nat /\ f.policy >= runner[f.runner].policy
    BY <1>2, <1>4, <1>6, RunnerStays
  <2> QED BY <1>3, <1>4, <2>1 DEF Stood
<1> QED BY <1>1, <1>3, <1>5, <1>6, <1>7, <1>8 DEF R!Eligible, R!IsCurrent, f, a

\* A permit is consumed where the facts of its launch match those in force.
LEMMA ConsumedMatches ==
    ASSUME RegistryForm, RegistryStep, NEW l \in Launches,
           launch[l].state = "ISSUED", launch'[l].state = "CONSUMED"
    PROVE  R!FactsMatch(launch[l])
<1>1. ASSUME NEW x \in Launches, R!ConsumePermit(x) PROVE R!FactsMatch(launch[l])
  <2>1. CASE x = l
    <3>1. launch' = [launch EXCEPT ![l].state = IF R!PermitStands(l) THEN "CONSUMED" ELSE "REVOKED"]
      BY <1>1, <2>1 DEF R!ConsumePermit
    <3>2. launch[l] \in LaunchRows
      BY InUse DEF RegistryForm
    <3>3. launch'[l].state = IF R!PermitStands(l) THEN "CONSUMED" ELSE "REVOKED"
      BY <3>1, <3>2 DEF RegistryForm, LaunchRows
    <3> QED BY <3>3 DEF R!PermitStands
  <2>2. CASE x # l
    BY <1>1, <2>2 DEF R!ConsumePermit, RegistryForm
  <2> QED BY <2>1, <2>2
<1>2. ASSUME NEW r \in Runners, NEW audience \in {"OWNER_ONLY", "TEAM"}, R!ReplacePolicy(r, audience)
      PROVE  FALSE
  <2>1. launch'[l] = launch[l] \/ launch'[l] = [launch[l] EXCEPT !.state = "REVOKED"]
    BY <1>2 DEF R!ReplacePolicy, R!WithdrawPermits
  <2>2. launch[l] \in LaunchRows
    BY InUse DEF RegistryForm
  <2> QED BY <2>1, <2>2 DEF LaunchRows
<1>3. ASSUME NEW c \in Clients, R!CommitLaunch(c) PROVE FALSE
  <2>1. R!NewIn(launch) # l
    BY <1>3, RoomInTable DEF R!CommitLaunch
  <2> QED BY <1>3, <2>1 DEF R!CommitLaunch, RegistryForm
<1>4. ASSUME NEW c \in Clients, R!CommitAttempt(c) PROVE FALSE
  <2>1. command[c].with.launch # l
    BY <1>4 DEF R!CommitAttempt
  <2> QED BY <1>4, <2>1 DEF R!CommitAttempt, RegistryForm
<1> QED BY <1>1, <1>2, <1>3, <1>4, RegistryWriters DEF RegistryWritten, WritesLaunch

LEMMA MatchIsAllowed ==
    ASSUME RegistryForm, FactsInv, LaunchesInv, NEW l \in Launches, launch[l].state = "ISSUED",
           R!FactsMatch(launch[l])
    PROVE  LET w == launch[l] IN
             /\ mapping[w.runner][w.mapping] = "LIVE"
             /\ w.by # runner[w.runner].owner =>
                  /\ runner[w.runner].audience = "TEAM"
                  /\ \E e \in Exposures : /\ exposure[e].state = "LIVE"
                                          /\ exposure[e].facts = R!LaunchFacts(w)
                                          /\ acknowledgement[exposure[e].by].state = "LIVE"
<1> DEFINE w == launch[l]
<1>1. /\ mapping[w.runner][w.mapping] = "LIVE" /\ runner[w.runner].policy = w.policy
      /\ w.team => R!TeamExposureIsLive(R!LaunchFacts(w))
  BY DEF R!FactsMatch
<1>2. w.by = runner[w.runner].owner \/ w.team
  BY DEF LaunchesInv, OwnOrTeam
<1>3. ASSUME w.by # runner[w.runner].owner
      PROVE  /\ runner[w.runner].audience = "TEAM"
             /\ \E e \in Exposures : /\ exposure[e].state = "LIVE"
                                     /\ exposure[e].facts = R!LaunchFacts(w)
                                     /\ acknowledgement[exposure[e].by].state = "LIVE"
  <2>1. PICK e \in Exposures : /\ exposure[e].state = "LIVE"
                               /\ exposure[e].facts = R!LaunchFacts(w)
                               /\ acknowledgement[exposure[e].by].state = "LIVE"
    BY <1>1, <1>2, <1>3 DEF R!TeamExposureIsLive
  <2>2. exposure[e].facts.policy = w.policy /\ exposure[e].facts.runner = w.runner
    BY <2>1 DEF R!LaunchFacts
  <2>3. runner[w.runner].audience = "TEAM"
    BY <1>1, <2>1, <2>2 DEF FactsInv
  <2> QED BY <2>1, <2>3
<1> QED BY <1>1, <1>3

\* What the owner withdraws stays withdrawn, whatever the owner does to the policy, the
\* mapping and the profile (runner-registry.ts:1766, execution-authority.ts:2802).
THEOREM WithdrawnStays == MembershipSpec => StaysWithdrawn
<1> DEFINE Stays == \A e \in Exposures : exposure[e].state # "NONE" /\ ~R!Eligible(e) => ~R!Eligible(e)'
<1>1. Inv /\ [MembershipNext]_membershipVars => [Stays]_(R!vars)
  <2>1. ASSUME Inv, [MembershipNext]_membershipVars PROVE Stays
    <3>1. RegistryMoves
      BY <2>1, StepsOfRegistry, RegistryStepMoves DEF Inv, IdentityInv, RegistryInv
    <3> QED BY <2>1, <3>1, EligibleWas DEF Inv, RegistryInv
  <2> QED BY <2>1
<1> QED BY <1>1, Holds, PTL DEF MembershipSpec, StaysWithdrawn, R!StaysWithdrawn

\* A permit that is consumed for a member who does not own the runner stands on a team
\* audience, a mapping and an acknowledged exposure in force at that moment
\* (execution-authority.ts:1265, persistence.ts:138).
THEOREM ConsumptionIsAllowed == MembershipSpec => ConsumedIsAllowed
<1> DEFINE Allowed ==
      \A l \in Launches : launch[l].state = "ISSUED" /\ launch'[l].state = "CONSUMED" =>
         LET w == launch[l] IN
           /\ mapping[w.runner][w.mapping] = "LIVE"
           /\ w.by # runner[w.runner].owner =>
                /\ runner[w.runner].audience = "TEAM"
                /\ \E e \in Exposures : /\ exposure[e].state = "LIVE"
                                        /\ exposure[e].facts = R!LaunchFacts(w)
                                        /\ acknowledgement[exposure[e].by].state = "LIVE"
<1>1. Inv /\ [MembershipNext]_membershipVars => [Allowed]_(R!vars)
  <2>1. ASSUME Inv, [MembershipNext]_membershipVars PROVE Allowed
    <3>1. RegistryStep
      BY <2>1, StepsOfRegistry DEF Inv, IdentityInv
    <3> QED BY <2>1, <3>1, ConsumedMatches, MatchIsAllowed DEF Inv, RegistryInv
  <2> QED BY <2>1
<1> QED BY <1>1, Holds, PTL DEF MembershipSpec, ConsumedIsAllowed, R!ConsumedIsAllowed

===============================================================================
