------------------------------ MODULE Identity ------------------------------
(***************************************************************************)
(* Members, their sessions, passkeys, devices and recovery, and the        *)
(* one-time authorities they come from (server/modules/identity,           *)
(* server/commands/auth-recover.ts).                                       *)
(*                                                                         *)
(* A command reads the rows it depends on, awaits a digest or a WebAuthn   *)
(* verification, and then works in one immediate transaction that looks at *)
(* those rows again.  A command whose transaction repeats every check of   *)
(* its read is one action here; one that relies on what it read is two, a  *)
(* Read and a Commit, with the other commands in between.  The transaction *)
(* compares the revisions of the rows it read: `fresh' says that none of   *)
(* the rows of a command in work has been written since, which is what     *)
(* equal revisions mean, and every write takes it from the commands that   *)
(* read the row.                                                           *)
(*                                                                         *)
(* A member's authority epoch rises once, when the member is removed, so a *)
(* session or family of the member's epoch is one of a member not removed. *)
(* Deadlines pass at any time.  The workload is the set of commands the    *)
(* clients of a behaviour use.                                             *)
(***************************************************************************)
EXTENDS Integers, FiniteSets, Functions

CONSTANTS
    Members, Owners,    \* members, and those a deployment in use starts with
    Sessions, Passkeys, Challenges, Invitations, Identities, Families, Codes,
    Keys,               \* idempotency keys of invitations
    Clients,            \* commands in work at once
    Workloads,          \* sets of commands, one of which a behaviour uses
    MaxGeneration,      \* recovery code sets generated per member
    MaxRefreshes,       \* refreshes of a device credential
    None

ASSUME IdentityAssumption ==
    /\ Owners \subseteq Members /\ Owners # {} /\ IsFiniteSet(Members)
    /\ MaxGeneration \in Nat /\ MaxRefreshes \in Nat

\* A recovery code is of a member, of a generation, and one of that generation's.
RecoveryCodes == Members \X (0..MaxGeneration) \X Codes

\* The identifiers of different tables differ, and none is None.
ASSUME NamesAssumption ==
    /\ Challenges \cap Invitations = {} /\ Challenges \cap Sessions = {}
    /\ Invitations \cap Sessions = {}
    /\ RecoveryCodes \cap (Challenges \cup Invitations \cup Sessions) = {}
    /\ None \notin RecoveryCodes \cup Challenges \cup Invitations \cup Sessions \cup Members \cup Keys

VARIABLES
    workload,
    member,             \* members
    session,            \* sessions
    passkey,            \* passkey_credentials
    challenge,          \* webauthn_challenges
    invitation,         \* invitations and their one exchange session
    identity,           \* member_credentials: provider identities
    recovery,           \* recovery_code_sets and their unused codes
    hostCode,           \* host_recovery_codes: members with an unused code
    family,             \* device codes and the families they become
    outbox,             \* authority_revocation_outbox
    receipts,           \* idempotency_results of invitations
    work                \* commands between their read and their transaction

rowVars == <<member, session, passkey, challenge, invitation, identity,
             recovery, hostCode, family, outbox, receipts>>
vars == <<workload, rowVars, work>>

Idle == [op |-> "IDLE"]
Roles == {"OWNER", "MEMBER"}
Kinds == {"BROWSER", "RECOVERY", "HOST_RECOVERY"}
Purposes == {"REGISTRATION", "AUTHENTICATION", "PRIVILEGED"}

TypeOK ==
    /\ \A m \in Members :
         /\ member[m].status \in {"NONE", "ACTIVE", "REVOKED"} /\ member[m].role \in Roles
         /\ member[m].by \in Invitations \cup {None}
         /\ recovery[m].generation \in 0..MaxGeneration /\ recovery[m].unused \subseteq Codes
    /\ \A s \in Sessions :
         /\ session[s].state \in {"NONE", "LIVE", "IDLE", "ENDED"}
         /\ session[s].state # "NONE" => session[s].of \in Members /\ session[s].kind \in Kinds
    /\ \A p \in Passkeys :
         /\ passkey[p].state \in {"NONE", "LIVE", "REVOKED"}
         /\ passkey[p].state # "NONE" => passkey[p].of \in Members
    /\ \A x \in Challenges : challenge[x].state \in {"NONE", "OPEN", "SPENT"}
    /\ \A i \in Invitations :
         invitation[i].state \in {"NONE", "PENDING", "EXCHANGED", "ACCEPTED", "ENDED"}
    /\ \A f \in Families :
         /\ family[f].state \in {"NONE", "PENDING", "APPROVED", "LIVE", "ENDED"}
         /\ family[f].state \in {"APPROVED", "LIVE"} => family[f].of \in Members
         /\ family[f].generation \in 0..(MaxRefreshes + 1)
    /\ hostCode \subseteq Members /\ receipts \subseteq Keys
    /\ \A m \in Members : outbox[m] \in {"NONE", "PENDING", "DISPATCHED"}

-------------------------------------------------------------------------------
\* A row that a table has room for.
NewIn(table) == CHOOSE x \in DOMAIN table : table[x].state = "NONE"
HasNew(table) == \E x \in DOMAIN table : table[x].state = "NONE"
Newcomers == {m \in Members : member[m].status = "NONE"}

Bootstrapped == \E m \in Members : member[m].status # "NONE"
Active(m) == member[m].status = "ACTIVE"
ActiveOwners == {m \in Members : Active(m) /\ member[m].role = "OWNER"}
HasPasskey(m) == \E p \in Passkeys : passkey[p].state = "LIVE" /\ passkey[p].of = m

\* activeMember, browserSessions.authorize: a browser session that is neither
\* revoked nor past a deadline, of an active member.
Valid(s) ==
    /\ session[s].state = "LIVE" /\ session[s].kind = "BROWSER"
    /\ Active(session[s].of)
ValidOwner(s) == Valid(s) /\ member[session[s].of].role = "OWNER"

\* registrationAuthorityCurrent looks at expires_at, not at the idle deadline.
MayRegister(s) ==
    /\ session[s].state \in {"LIVE", "IDLE"}
    /\ Active(session[s].of)

Open(x, purpose) == challenge[x].state = "OPEN" /\ challenge[x].purpose = purpose

\* Rows by table, for what a command read and for what a transaction writes.
M(m) == <<"member", m>>
S(s) == <<"session", s>>
P(p) == <<"passkey", p>>
X(x) == <<"challenge", x>>
I(i) == <<"invitation", i>>
OwnRows(s) == {S(s), M(session[s].of)}

\* The commands in work whose rows a write touches hold a stale revision.
After(w, rows) ==
    IF w # Idle /\ w.rows \cap rows # {} THEN [w EXCEPT !.fresh = FALSE] ELSE w

Write(rows) == work' = [d \in Clients |-> After(work[d], rows)]

Read(c, op, rows, arguments) ==
    /\ op \in workload /\ work[c] = Idle
    /\ work' = [work EXCEPT ![c] =
                  [op |-> op, rows |-> rows, fresh |-> TRUE, with |-> arguments]]
    /\ UNCHANGED <<workload, rowVars>>

\* The transaction of the command c: its rows are as it read them.
InWork(c, op) == work[c].op = op
Current(c, op) == InWork(c, op) /\ work[c].fresh
Commit(c, rows) ==
    /\ work' = [d \in Clients |-> IF d = c THEN Idle ELSE After(work[d], rows)]
    /\ UNCHANGED workload

Requested(op, rows) == op \in workload /\ Write(rows) /\ UNCHANGED workload

NewSession(s, m, kind, by) ==
    session' = [session EXCEPT ![s] = [state |-> "LIVE", kind |-> kind, of |-> m, by |-> by]]
NewPasskey(p, m, by) ==
    passkey' = [passkey EXCEPT ![p] = [state |-> "LIVE", of |-> m, by |-> by]]
NewMember(m, role, by) ==
    /\ m \in Newcomers
    /\ m = CHOOSE n \in Newcomers : TRUE
    /\ member' = [member EXCEPT ![m] = [status |-> "ACTIVE", role |-> role, by |-> by]]
Consume(x) == challenge' = [challenge EXCEPT ![x].state = "SPENT"]

-------------------------------------------------------------------------------
NoSession == [state |-> "NONE", kind |-> "BROWSER", of |-> None, by |-> None]
NoPasskey == [state |-> "NONE", of |-> None, by |-> None]

\* An empty database, or a deployment whose owners have a session and a passkey:
\* all of Owners where an owner may be demoted or removed or owns a runner, one
\* where none is.  Who pairs runners has a device.
Init ==
    /\ workload \in Workloads
    /\ LET present == IF "BOOTSTRAP" \in workload THEN {}
                     ELSE IF workload \cap {"ROLE", "REMOVE", "RUNNER", "PAIR"} # {} THEN Owners
                     ELSE {CHOOSE o \in Owners : TRUE}
           home == CHOOSE f \in [present -> Sessions] : IsInjective(f)
           key == CHOOSE f \in [present -> Passkeys] : IsInjective(f)
       IN  /\ member = [m \in Members |->
                 [status |-> IF m \in present THEN "ACTIVE" ELSE "NONE",
                  role |-> IF m \in present THEN "OWNER" ELSE "MEMBER", by |-> None]]
           /\ session = [s \in Sessions |->
                 IF \E m \in present : home[m] = s
                 THEN [NoSession EXCEPT !.state = "LIVE",
                                        !.of = CHOOSE m \in present : home[m] = s]
                 ELSE NoSession]
           /\ passkey = [p \in Passkeys |->
                 IF \E m \in present : key[m] = p
                 THEN [NoPasskey EXCEPT !.state = "LIVE",
                                        !.of = CHOOSE m \in present : key[m] = p]
                 ELSE NoPasskey]
    /\ challenge = [x \in Challenges |-> [state |-> "NONE", purpose |-> "REGISTRATION", to |-> None]]
    /\ invitation = [i \in Invitations |-> [state |-> "NONE", by |-> None]]
    /\ identity = [x \in Identities |-> [of |-> None, live |-> FALSE]]
    /\ recovery = [m \in Members |-> [generation |-> 0, unused |-> {}]]
    /\ hostCode = {}
    /\ family = [f \in Families |->
         IF "PAIR" \in workload
         THEN [state |-> "LIVE", of |-> CHOOSE o \in Owners : TRUE, generation |-> 1, tokens |-> {}]
         ELSE [state |-> "NONE", of |-> None, generation |-> 0, tokens |-> {}]]
    /\ outbox = [m \in Members |-> "NONE"]
    /\ receipts = {}
    /\ work = [c \in Clients |-> Idle]

\* Deadlines of sessions, challenges, invitations and device codes.
Lapse ==
    /\ \/ /\ \E s \in Sessions :
               \/ /\ session[s].state = "LIVE" /\ session[s].kind = "BROWSER"
                  /\ session' = [session EXCEPT ![s].state = "IDLE"]
               \/ /\ session[s].state \in {"LIVE", "IDLE"}
                  /\ session' = [session EXCEPT ![s].state = "ENDED"]
          /\ UNCHANGED <<challenge, invitation, family>>
       \/ /\ \E x \in Challenges :
               /\ challenge[x].state = "OPEN"
               /\ challenge' = [challenge EXCEPT ![x].state = "SPENT"]
          /\ UNCHANGED <<session, invitation, family>>
       \/ /\ \E i \in Invitations :
               /\ invitation[i].state \in {"PENDING", "EXCHANGED"}
               /\ invitation' = [invitation EXCEPT ![i].state = "ENDED"]
          /\ UNCHANGED <<session, challenge, family>>
       \/ /\ \E f \in Families :
               /\ family[f].state \in {"PENDING", "APPROVED"}
               /\ family' = [family EXCEPT ![f].state = "ENDED"]
          /\ UNCHANGED <<session, challenge, invitation>>
    /\ "LAPSE" \in workload
    /\ UNCHANGED <<workload, member, passkey, identity, recovery, hostCode, outbox,
                   receipts, work>>

\* A command is refused, its verification fails, or its server stops.
Abandon(c) ==
    /\ work[c] # Idle
    /\ work' = [work EXCEPT ![c] = Idle]
    /\ UNCHANGED <<workload, rowVars>>

-------------------------------------------------------------------------------
\* beginPasskeyRegistration for the bootstrap secret, an exchanged invitation,
\* or a browser or recovery session.
MayBegin(principal) ==
    \/ principal = None /\ ~Bootstrapped /\ "BOOTSTRAP" \in workload
    \/ principal \in Invitations /\ invitation[principal].state = "EXCHANGED"
    \/ \E s \in Sessions :
         /\ session[s].of = principal
         /\ IF session[s].kind = "BROWSER" THEN Valid(s)
            ELSE session[s].state = "LIVE" /\ Active(principal)

NewChallenge(purpose, to) ==
    /\ HasNew(challenge)
    /\ challenge' = [challenge EXCEPT ![NewIn(challenge)] =
                       [state |-> "OPEN", purpose |-> purpose, to |-> to]]
    /\ UNCHANGED <<member, session, passkey, invitation, identity, recovery, hostCode,
                   family, outbox, receipts>>

BeginPasskeyRegistration(principal) ==
    /\ MayBegin(principal)
    /\ NewChallenge("REGISTRATION", principal)
    /\ Requested("REGISTER", {})

\* For one passkey of an active member, or for whichever the client has.
BeginPasskeyAuthentication(p) ==
    /\ p # None => passkey[p].state = "LIVE" /\ Active(passkey[p].of)
    /\ NewChallenge("AUTHENTICATION", p)
    /\ Requested("AUTHENTICATE", {})

BeginMemberRoleChange(s) ==
    /\ ValidOwner(s) /\ HasPasskey(session[s].of)
    /\ NewChallenge("PRIVILEGED", session[s].of)
    /\ Requested("ROLE", {})

ReadBootstrap(c, x) ==
    /\ Open(x, "REGISTRATION") /\ challenge[x].to = None
    /\ Read(c, "BOOTSTRAP", {X(x)}, [challenge |-> x])

\* bootstrap: the one deployment and its first owner.
CommitBootstrap(c, m) ==
    /\ Current(c, "BOOTSTRAP") /\ ~Bootstrapped
    /\ Open(work[c].with.challenge, "REGISTRATION")
    /\ HasNew(session) /\ HasNew(passkey)
    /\ NewMember(m, "OWNER", None)
    /\ NewPasskey(NewIn(passkey), m, work[c].with.challenge)
    /\ NewSession(NewIn(session), m, "BROWSER", work[c].with.challenge)
    /\ Consume(work[c].with.challenge)
    /\ Commit(c, {X(work[c].with.challenge)})
    /\ UNCHANGED <<invitation, identity, recovery, hostCode, family, outbox, receipts>>

ReadRegistration(c, s, x) ==
    /\ IF session[s].kind = "BROWSER" THEN Valid(s)
       ELSE session[s].state = "LIVE" /\ Active(session[s].of)
    /\ Open(x, "REGISTRATION") /\ challenge[x].to = session[s].of
    /\ Read(c, "REGISTER", OwnRows(s) \cup {X(x)}, [session |-> s, challenge |-> x])

\* finishPasskeyRegistration: a recovery session ends with the passkey it is for.
CommitRegistration(c) ==
    /\ Current(c, "REGISTER")
    /\ LET s == work[c].with.session
           x == work[c].with.challenge
       IN  /\ MayRegister(s) /\ Open(x, "REGISTRATION") /\ HasNew(passkey)
           /\ NewPasskey(NewIn(passkey), session[s].of, x)
           /\ Consume(x)
           /\ session' = IF session[s].kind = "BROWSER" THEN session
                         ELSE [session EXCEPT ![s].state = "ENDED"]
           /\ Commit(c, {X(x)} \cup (IF session[s].kind = "BROWSER" THEN {} ELSE {S(s)}))
    /\ UNCHANGED <<member, invitation, identity, recovery, hostCode, family, outbox, receipts>>

ReadAuthentication(c, x, p) ==
    /\ Open(x, "AUTHENTICATION") /\ challenge[x].to \in {None, p}
    /\ passkey[p].state = "LIVE" /\ Active(passkey[p].of)
    /\ Read(c, "AUTHENTICATE", {X(x), P(p), M(passkey[p].of)}, [challenge |-> x, passkey |-> p])

\* Slip: the member is not looked up again.
CommitAuthenticationUnseen(c) ==
    /\ InWork(c, "AUTHENTICATE") /\ HasNew(session)
    /\ LET x == work[c].with.challenge
           p == work[c].with.passkey
       IN  /\ Open(x, "AUTHENTICATION")
           /\ NewSession(NewIn(session), passkey[p].of, "BROWSER", x)
           /\ Consume(x)
           /\ Commit(c, {X(x), P(p)})
    /\ UNCHANGED <<member, passkey, invitation, identity, recovery, hostCode, family,
                   outbox, receipts>>

\* authenticate: the counter of the passkey moves on and a session begins.
CommitAuthentication(c) ==
    /\ Current(c, "AUTHENTICATE") /\ HasNew(session)
    /\ LET x == work[c].with.challenge
           p == work[c].with.passkey
       IN  /\ Open(x, "AUTHENTICATION")
           /\ passkey[p].state = "LIVE" /\ Active(passkey[p].of)
           /\ NewSession(NewIn(session), passkey[p].of, "BROWSER", x)
           /\ Consume(x)
           /\ Commit(c, {X(x), P(p)})
    /\ UNCHANGED <<member, passkey, invitation, identity, recovery, hostCode, family,
                   outbox, receipts>>

\* rotate: the session row is compared by its proof and its member's epoch, the
\* member is not looked up again.
ReadRotation(c, s) == Valid(s) /\ Read(c, "ROTATE", {}, [session |-> s])
CommitRotation(c) ==
    /\ InWork(c, "ROTATE") /\ HasNew(session)
    /\ LET s == work[c].with.session
       IN  /\ session[s].state = "LIVE"
           /\ session' = [session EXCEPT ![s].state = "ENDED",
                            ![NewIn(session)] = [state |-> "LIVE", kind |-> "BROWSER",
                                                 of |-> session[s].of, by |-> s]]
           /\ Commit(c, {S(s)})
    /\ UNCHANGED <<member, passkey, challenge, invitation, identity, recovery, hostCode,
                   family, outbox, receipts>>

\* revokePasskey: any of the member's own, the last one too.
RevokePasskey(s, p) ==
    /\ Valid(s) /\ passkey[p].state = "LIVE" /\ passkey[p].of = session[s].of
    /\ passkey' = [passkey EXCEPT ![p].state = "REVOKED"]
    /\ Requested("REVOKE_PASSKEY", {P(p)})
    /\ UNCHANGED <<member, session, challenge, invitation, identity, recovery, hostCode,
                   family, outbox, receipts>>

-------------------------------------------------------------------------------
ReadRoleChange(c, s, x, p, m, role) ==
    /\ ValidOwner(s)
    /\ Open(x, "PRIVILEGED") /\ challenge[x].to = session[s].of
    /\ passkey[p].state = "LIVE" /\ passkey[p].of = session[s].of
    /\ Active(m) /\ (role = "OWNER" => HasPasskey(m))
    /\ Read(c, "ROLE", OwnRows(s) \cup {X(x), P(p), M(m)},
            [session |-> s, challenge |-> x, passkey |-> p, member |-> m, role |-> role])

\* Another active owner is left when this one is demoted or removed.
AnotherOwner(m) == m \in ActiveOwners => Cardinality(ActiveOwners) > 1

\* changeMemberRole: an owner who has just verified a passkey of theirs.
CommitRoleChange(c) ==
    /\ Current(c, "ROLE")
    /\ LET w == work[c].with
       IN  /\ ValidOwner(w.session) /\ Open(w.challenge, "PRIVILEGED")
           /\ passkey[w.passkey].state = "LIVE" /\ Active(w.member)
           /\ IF w.role = "OWNER" THEN HasPasskey(w.member) ELSE AnotherOwner(w.member)
           /\ member' = [member EXCEPT ![w.member].role = w.role]
           /\ Consume(w.challenge)
           /\ Commit(c, {P(w.passkey), M(w.member), X(w.challenge)})
    /\ UNCHANGED <<session, passkey, invitation, identity, recovery, hostCode, family,
                   outbox, receipts>>

ReadRemoval(c, s, m) ==
    /\ ValidOwner(s) /\ Active(m) /\ outbox[m] = "NONE"
    /\ Read(c, "REMOVE", OwnRows(s) \cup {M(m)}, [session |-> s, member |-> m])

\* removeMemberTransaction: everything the member holds ends with the membership.
Offboard(m) ==
    /\ member' = [member EXCEPT ![m].status = "REVOKED"]
    /\ session' = [s \in Sessions |->
         IF session[s].of = m THEN [session[s] EXCEPT !.state = "ENDED"] ELSE session[s]]
    /\ passkey' = [p \in Passkeys |->
         IF passkey[p].of = m THEN [passkey[p] EXCEPT !.state = "REVOKED"] ELSE passkey[p]]
    /\ identity' = [x \in Identities |->
         IF identity[x].of = m THEN [identity[x] EXCEPT !.live = FALSE] ELSE identity[x]]
    /\ family' = [f \in Families |->
         IF family[f].of = m /\ family[f].state = "LIVE"
         THEN [family[f] EXCEPT !.state = "ENDED", !.tokens = {}] ELSE family[f]]
    /\ outbox' = [outbox EXCEPT ![m] = "PENDING"]

RowsOfMember(m) ==
    {M(m)} \cup {S(s) : s \in {t \in Sessions : session[t].of = m}}
           \cup {P(p) : p \in {q \in Passkeys : passkey[q].of = m}}

\* Slip: the owners were counted before the transaction.
RemovableCounted(s, m) == ValidOwner(s) /\ Active(m)

Removable(s, m) == ValidOwner(s) /\ Active(m) /\ AnotherOwner(m)

CommitRemoval(c) ==
    /\ Current(c, "REMOVE") /\ Removable(work[c].with.session, work[c].with.member)
    /\ Offboard(work[c].with.member)
    /\ Commit(c, RowsOfMember(work[c].with.member))
    /\ UNCHANGED <<challenge, invitation, recovery, hostCode, receipts>>

\* The same, its read just before: what other commands of this module do in between
\* is left to the workloads with REMOVE.
RemoveAtOnce(s, m) ==
    /\ Removable(s, m) /\ outbox[m] = "NONE"
    /\ Offboard(m)
    /\ Requested("OFFBOARD", RowsOfMember(m))
    /\ UNCHANGED <<challenge, invitation, recovery, hostCode, receipts>>

\* The removal, or its retry under the same key, has the Execution Authority
\* apply the revocation, which only another active owner may ask for
\* (execution-authority.ts:2613); until it succeeds the intent stays PENDING.
DispatchRemoval(m) ==
    /\ outbox[m] = "PENDING" /\ ActiveOwners \ {m} # {}
    /\ outbox' = [outbox EXCEPT ![m] = "DISPATCHED"]
    /\ UNCHANGED <<workload, member, session, passkey, challenge, invitation, identity,
                   recovery, hostCode, family, receipts, work>>

-------------------------------------------------------------------------------
\* invite: a request is looked up by its idempotency key before and in the
\* transaction; its secret is not issued twice.
Answered(k) == k \in receipts
StoreAnswer(k) == receipts' = receipts \cup {k}

ReadInvite(c, s, k) ==
    /\ ~Answered(k) /\ ValidOwner(s)
    /\ Read(c, "INVITE", OwnRows(s), [session |-> s, key |-> k])
CommitInvite(c) ==
    /\ Current(c, "INVITE") /\ HasNew(invitation)
    /\ ~Answered(work[c].with.key) /\ ValidOwner(work[c].with.session)
    /\ invitation' = [invitation EXCEPT ![NewIn(invitation)] =
                        [state |-> "PENDING", by |-> work[c].with.key]]
    /\ StoreAnswer(work[c].with.key)
    /\ Commit(c, {})
    /\ UNCHANGED <<member, session, passkey, challenge, identity, recovery, hostCode,
                   family, outbox>>

\* exchangeInvitation: once per invitation.
ExchangeInvitation(i) ==
    /\ invitation[i].state = "PENDING"
    /\ invitation' = [invitation EXCEPT ![i].state = "EXCHANGED"]
    /\ Requested("EXCHANGE", {})
    /\ UNCHANGED <<member, session, passkey, challenge, identity, recovery, hostCode,
                   family, outbox, receipts>>

RevokeInvitation(s, i) ==
    /\ ValidOwner(s) /\ invitation[i].state \in {"PENDING", "EXCHANGED"}
    /\ invitation' = [invitation EXCEPT ![i].state = "ENDED"]
    /\ Requested("REVOKE_INVITATION", {I(i)})
    /\ UNCHANGED <<member, session, passkey, challenge, identity, recovery, hostCode,
                   family, outbox, receipts>>

ReadAcceptance(c, i, x) ==
    /\ invitation[i].state = "EXCHANGED"
    /\ Open(x, "REGISTRATION") /\ challenge[x].to = i
    /\ Read(c, "ACCEPT", {I(i), X(x)}, [invitation |-> i, challenge |-> x])

\* accept: the invitation admits its holder as a member with a passkey.
CommitAcceptance(c, m) ==
    /\ Current(c, "ACCEPT")
    /\ HasNew(session) /\ HasNew(passkey)
    /\ LET i == work[c].with.invitation
           x == work[c].with.challenge
       IN  /\ invitation[i].state = "EXCHANGED" /\ Open(x, "REGISTRATION")
           /\ invitation' = [invitation EXCEPT ![i].state = "ACCEPTED"]
           /\ NewMember(m, "MEMBER", i)
           /\ NewPasskey(NewIn(passkey), m, x)
           /\ NewSession(NewIn(session), m, "BROWSER", i)
           /\ Consume(x)
           /\ Commit(c, {I(i), X(x)})
    /\ UNCHANGED <<identity, recovery, hostCode, family, outbox, receipts>>

ReadProviderAcceptance(c, i, x) ==
    /\ invitation[i].state = "EXCHANGED" /\ ~identity[x].live
    /\ Read(c, "ACCEPT_PROVIDER", {I(i)}, [invitation |-> i, identity |-> x])

\* Slip: the exchange is consumed, the invitation is not compared.
CommitProviderAcceptanceLate(c, m) ==
    /\ InWork(c, "ACCEPT_PROVIDER") /\ HasNew(session)
    /\ LET i == work[c].with.invitation
           x == work[c].with.identity
       IN  /\ identity[x].of = None
           /\ invitation' = [invitation EXCEPT ![i].state = "ACCEPTED"]
           /\ NewMember(m, "MEMBER", i)
           /\ identity' = [identity EXCEPT ![x] = [of |-> m, live |-> TRUE]]
           /\ NewSession(NewIn(session), m, "BROWSER", i)
           /\ Commit(c, {I(i)})
    /\ UNCHANGED <<passkey, challenge, recovery, hostCode, family, outbox, receipts>>

\* acceptInvitation of provider-links: the identity's row is unique for good, so
\* one that was ever linked makes the transaction fail.
CommitProviderAcceptance(c, m) ==
    /\ Current(c, "ACCEPT_PROVIDER") /\ HasNew(session)
    /\ LET i == work[c].with.invitation
           x == work[c].with.identity
       IN  /\ invitation[i].state = "EXCHANGED" /\ identity[x].of = None
           /\ invitation' = [invitation EXCEPT ![i].state = "ACCEPTED"]
           /\ NewMember(m, "MEMBER", i)
           /\ identity' = [identity EXCEPT ![x] = [of |-> m, live |-> TRUE]]
           /\ NewSession(NewIn(session), m, "BROWSER", i)
           /\ Commit(c, {I(i)})
    /\ UNCHANGED <<passkey, challenge, recovery, hostCode, family, outbox, receipts>>

ReadLink(c, s, x) ==
    /\ Valid(s) /\ (identity[x].live => identity[x].of = session[s].of)
    /\ Read(c, "LINK", OwnRows(s), [session |-> s, identity |-> x, new |-> ~identity[x].live])

\* link: an identity the member already has is answered with that link.
CommitLink(c) ==
    /\ Current(c, "LINK") /\ Valid(work[c].with.session)
    /\ LET x == work[c].with.identity
       IN  /\ work[c].with.new => identity[x].of = None
           /\ identity' = IF work[c].with.new
                          THEN [identity EXCEPT ![x] =
                                  [of |-> session[work[c].with.session].of, live |-> TRUE]]
                          ELSE identity
    /\ Commit(c, {})
    /\ UNCHANGED <<member, session, passkey, challenge, invitation, recovery, hostCode,
                   family, outbox, receipts>>

-------------------------------------------------------------------------------
\* generateRecoveryCodes: a new set replaces the unused codes of the last one.
GenerateRecoveryCodes(s) ==
    /\ Valid(s) /\ recovery[session[s].of].generation < MaxGeneration
    /\ recovery' = [recovery EXCEPT ![session[s].of] =
                      [generation |-> @.generation + 1, unused |-> Codes]]
    /\ Requested("GENERATE", {<<"set", session[s].of>>})
    /\ UNCHANGED <<member, session, passkey, challenge, invitation, identity, hostCode,
                   family, outbox, receipts>>

ReadRedemption(c, m, k) ==
    /\ Active(m) /\ k \in recovery[m].unused
    /\ Read(c, "REDEEM", {M(m), <<"set", m>>},
            [member |-> m, code |-> <<m, recovery[m].generation, k>>])

\* redeemRecoveryCode: a short session that may register one passkey.
CommitRedemption(c) ==
    /\ Current(c, "REDEEM") /\ HasNew(session)
    /\ LET m == work[c].with.member
           k == work[c].with.code[3]
       IN  /\ Active(m) /\ k \in recovery[m].unused
           /\ recovery' = [recovery EXCEPT ![m].unused = @ \ {k}]
           /\ NewSession(NewIn(session), m, "RECOVERY", work[c].with.code)
    /\ Commit(c, {})
    /\ UNCHANGED <<member, passkey, challenge, invitation, identity, hostCode, family,
                   outbox, receipts>>

\* auth recover: the host command prints one code for an owner, and redeeming it
\* reads and writes in one step; a member who is no longer an owner loses it.
GenerateHostRecovery(m) ==
    /\ m \in ActiveOwners
    /\ hostCode' = hostCode \cup {m}
    /\ Requested("HOST_RECOVERY", {})
    /\ UNCHANGED <<member, session, passkey, challenge, invitation, identity, recovery,
                   family, outbox, receipts>>
RedeemHostRecovery(m) ==
    /\ m \in hostCode
    /\ hostCode' = hostCode \ {m}
    /\ IF m \in ActiveOwners
       THEN HasNew(session) /\ NewSession(NewIn(session), m, "HOST_RECOVERY", None)
       ELSE UNCHANGED session
    /\ Requested("HOST_RECOVERY", {})
    /\ UNCHANGED <<member, passkey, challenge, invitation, identity, recovery, family,
                   outbox, receipts>>

-------------------------------------------------------------------------------
BeginDevice(f) ==
    /\ family[f].state = "NONE"
    /\ family' = [family EXCEPT ![f].state = "PENDING"]
    /\ Requested("DEVICE", {})
    /\ UNCHANGED <<member, session, passkey, challenge, invitation, identity, recovery,
                   hostCode, outbox, receipts>>
ApproveDevice(s, f) ==
    /\ Valid(s) /\ family[f].state = "PENDING"
    /\ family' = [family EXCEPT ![f].state = "APPROVED", ![f].of = session[s].of]
    /\ Requested("DEVICE", {})
    /\ UNCHANGED <<member, session, passkey, challenge, invitation, identity, recovery,
                   hostCode, outbox, receipts>>

ReadExchange(c, f) ==
    /\ family[f].state = "APPROVED" /\ Active(family[f].of)
    /\ Read(c, "DEVICE", {M(family[f].of)}, [family |-> f, generation |-> 0])

\* exchange: the code becomes a family with its first refresh credential.
CommitExchange(c) ==
    /\ Current(c, "DEVICE") /\ work[c].with.generation = 0
    /\ family[work[c].with.family].state = "APPROVED"
    /\ family' = [family EXCEPT ![work[c].with.family] =
                    [@ EXCEPT !.state = "LIVE", !.generation = 1, !.tokens = {<<0, c>>}]]
    /\ Commit(c, {})
    /\ UNCHANGED <<member, session, passkey, challenge, invitation, identity, recovery,
                   hostCode, outbox, receipts>>

\* refresh with the current credential, the generation-th of the family.
ReadRefresh(c, f) ==
    /\ family[f].state = "LIVE" /\ Active(family[f].of)
    /\ family[f].generation <= MaxRefreshes
    /\ Read(c, "DEVICE", {M(family[f].of)}, [family |-> f, generation |-> family[f].generation])

Rotate(c, f) ==
    /\ family[f].state = "LIVE" /\ work[c].fresh
    /\ family[f].generation = work[c].with.generation
    /\ family' = [family EXCEPT ![f].generation = @ + 1,
                                ![f].tokens = @ \cup {<<work[c].with.generation, c>>}]

\* The credential has been rotated since it was read, or the member's row has
\* been written: the credential counts as replayed, and its family ends.
EndReplayed(c, f) ==
    /\ family[f].state = "LIVE"
    /\ \/ family[f].generation = work[c].with.generation /\ ~work[c].fresh
       \/ family[f].generation = work[c].with.generation + 1
    /\ family' = [family EXCEPT ![f].state = "ENDED", ![f].tokens = {}]

CommitRefresh(c) ==
    /\ InWork(c, "DEVICE") /\ work[c].with.generation > 0
    /\ \/ Rotate(c, work[c].with.family)
       \/ EndReplayed(c, work[c].with.family)
    /\ Commit(c, {})
    /\ UNCHANGED <<member, session, passkey, challenge, invitation, identity, recovery,
                   hostCode, outbox, receipts>>

\* refresh with the credential before the current one ends the family.
ReplayRefresh(f) ==
    /\ family[f].state = "LIVE" /\ family[f].generation > 1
    /\ family' = [family EXCEPT ![f].state = "ENDED", ![f].tokens = {}]
    /\ Requested("DEVICE", {})
    /\ UNCHANGED <<member, session, passkey, challenge, invitation, identity, recovery,
                   hostCode, outbox, receipts>>

-------------------------------------------------------------------------------
\* Every command but the removal, which Membership completes.
Use(op) == op \in workload

Next ==
    \/ Use("LAPSE") /\ Lapse
    \/ \E c \in Clients : Abandon(c)
    \/ Use("REGISTER") /\
         \E a \in Members \cup Invitations \cup {None} : BeginPasskeyRegistration(a)
    \/ Use("REGISTER") /\ \E c \in Clients :
         \/ \E s \in Sessions, x \in Challenges : ReadRegistration(c, s, x)
         \/ CommitRegistration(c)
    \/ Use("BOOTSTRAP") /\ \E c \in Clients :
         \/ \E x \in Challenges : ReadBootstrap(c, x)
         \/ \E m \in Members : CommitBootstrap(c, m)
    \/ Use("AUTHENTICATE") /\ \E p \in Passkeys \cup {None} : BeginPasskeyAuthentication(p)
    \/ Use("AUTHENTICATE") /\ \E c \in Clients :
         \/ \E x \in Challenges, p \in Passkeys : ReadAuthentication(c, x, p)
         \/ CommitAuthentication(c)
    \/ Use("ROTATE") /\ \E c \in Clients :
         CommitRotation(c) \/ \E s \in Sessions : ReadRotation(c, s)
    \/ Use("REVOKE_PASSKEY") /\ \E s \in Sessions, p \in Passkeys : RevokePasskey(s, p)
    \/ Use("ROLE") /\ \E s \in Sessions : BeginMemberRoleChange(s)
    \/ Use("ROLE") /\ \E c \in Clients :
         \/ \E s \in Sessions, x \in Challenges, p \in Passkeys, m \in Members, role \in Roles :
              ReadRoleChange(c, s, x, p, m, role)
         \/ CommitRoleChange(c)
    \/ Use("REMOVE") /\ \E c \in Clients, s \in Sessions, m \in Members : ReadRemoval(c, s, m)
    \/ \E m \in Members : DispatchRemoval(m)
    \/ Use("INVITE") /\ \E c \in Clients :
         CommitInvite(c) \/ \E s \in Sessions, k \in Keys : ReadInvite(c, s, k)
    \/ Use("EXCHANGE") /\ \E i \in Invitations : ExchangeInvitation(i)
    \/ Use("REVOKE_INVITATION") /\ \E s \in Sessions, i \in Invitations : RevokeInvitation(s, i)
    \/ Use("ACCEPT") /\ \E c \in Clients :
         \/ \E i \in Invitations, x \in Challenges : ReadAcceptance(c, i, x)
         \/ \E m \in Members : CommitAcceptance(c, m)
    \/ Use("ACCEPT_PROVIDER") /\ \E c \in Clients :
         \/ \E i \in Invitations, x \in Identities : ReadProviderAcceptance(c, i, x)
         \/ \E m \in Members : CommitProviderAcceptance(c, m)
    \/ Use("LINK") /\ \E c \in Clients :
         CommitLink(c) \/ \E s \in Sessions, x \in Identities : ReadLink(c, s, x)
    \/ Use("GENERATE") /\ \E s \in Sessions : GenerateRecoveryCodes(s)
    \/ Use("REDEEM") /\ \E c \in Clients :
         CommitRedemption(c) \/ \E m \in Members, k \in Codes : ReadRedemption(c, m, k)
    \/ Use("HOST_RECOVERY") /\ \E m \in Members : GenerateHostRecovery(m) \/ RedeemHostRecovery(m)
    \/ Use("DEVICE") /\ \E f \in Families :
         \/ BeginDevice(f) \/ ReplayRefresh(f)
         \/ \E s \in Sessions : ApproveDevice(s, f)
         \/ \E c \in Clients : ReadExchange(c, f) \/ ReadRefresh(c, f)
    \/ Use("DEVICE") /\ \E c \in Clients : CommitExchange(c) \/ CommitRefresh(c)

-------------------------------------------------------------------------------
\* Once bootstrapped the deployment has an active owner: two owners who demote or
\* remove each other, or themselves, at once do not both succeed
\* (identity-authority.ts:1445, revocation.ts:86).
OwnerRemains == Bootstrapped => ActiveOwners # {}

\* A removed member holds nothing that lets anyone act: no session, passkey,
\* provider identity, device family or access token, also none that a command
\* read before the removal and committed after it (revocation.ts:95-133).
RemovedHoldsNothing ==
    \A m \in Members : member[m].status = "REVOKED" =>
        /\ \A s \in Sessions : session[s].of = m => session[s].state = "ENDED"
        /\ \A p \in Passkeys : passkey[p].of = m => passkey[p].state = "REVOKED"
        /\ \A x \in Identities : identity[x].of = m => ~identity[x].live
        /\ \A f \in Families : family[f].of = m => family[f].state # "LIVE" /\ family[f].tokens = {}

\* What is issued once is used once: no two members come from one invitation,
\* no two passkeys from one challenge, no two sessions from one challenge,
\* invitation, recovery code or rotated session, and a retried request creates
\* no second invitation (identity-authority.ts:1118, 1910, 2160).
UsedOnce ==
    /\ \A m, n \in Members : m # n /\ member[m].by = member[n].by => member[m].by = None
    /\ \A p, q \in Passkeys : p # q /\ passkey[p].by = passkey[q].by => passkey[p].by = None
    /\ \A s, t \in Sessions : s # t /\ session[s].by = session[t].by => session[s].by = None
    /\ \A i, j \in Invitations :
         i # j /\ invitation[i].by = invitation[j].by => invitation[i].by = None

\* Each refresh credential of a family bought at most one of its live access
\* tokens: of two holders of one credential who refresh at once, one ends the
\* family (devices.ts:412-452).
RefreshedOnce ==
    \A f \in Families : \A t, u \in family[f].tokens : t[1] = u[1] => t = u
=============================================================================
