----------------------------- MODULE Maintenance -----------------------------
(***************************************************************************)
(* A deployment's encrypted credentials, the keys they are sealed with,    *)
(* its backups and their restore (server/modules/connectors/credentials.ts *)
(* and server/operations).                                                 *)
(*                                                                         *)
(* A credential is sealed with the active key of its class, which is       *)
(* wrapped by the deployment's master key; the row's version and revision  *)
(* are authenticated with it.  Offline commands rotate the class key row   *)
(* by row, rewrap the class key under a new master key, write a backup,    *)
(* retire old backups, or restore one: into a staged database whose        *)
(* authority is invalidated before it takes the place of the old one.      *)
(* A command may end between any two of its steps.  The server does not    *)
(* run while a command does: the two modes of the process exclude each     *)
(* other, by how it is operated and not by a lock.                         *)
(*                                                                         *)
(* The database is one value, which a backup copies and a restore replaces.*)
(* A grant is a row by which somebody may do something.  A restore ends the*)
(* rows it lists; it raises the epochs, so that a row bound to one no      *)
(* longer holds; and it leaves the others as the backup has them.  One     *)
(* connector epoch stands for all of them, and one credential class for    *)
(* all classes; a credential of a slot always has the owner the slot names.*)
(***************************************************************************)
EXTENDS Integers, FiniteSets

CONSTANTS
    Slots,              \* numbered credentials, in the order of their ids
    MasterKeys,         \* contents of the master key file
    ServerName,         \* how the server names the master key it is given,
    CommandName,        \* and how the commands do: part of what a wrap binds
    Backups,            \* numbered backups, in the order of their creation
    Listed,             \* grants whose rows a restore ends: sessions, challenges, tokens,
                        \* invitations, pairings, permits, leases, authorizations, ...
    Bound,              \* grants that hold under one epoch: the scopes of connectors
    Standing,           \* grants a restore leaves: recovery codes, OIDC transactions,
                        \* passkeys, provider identities, exposures
    OutlineSlots,       \* the credentials that Outline's connections and grants name
    MaximumBackups,     \* maximumVerifiedBackups of the retention policy
    MaxVersion,         \* versions of the class key
    MaxRevision,        \* revisions of a credential
    MaxEpoch,           \* connector epoch up to which it is raised, restores apart
    MaxRestores,
    Workloads,          \* operations, credentials and backups, of which a behaviour
                        \* uses one record
    None

ASSUME MaintenanceAssumption ==
    /\ Slots \subseteq Nat \ {0} /\ Backups \subseteq Nat \ {0} /\ MasterKeys # {}
    /\ MaximumBackups \in Nat \ {0} /\ MaxVersion \in Nat \ {0}
    /\ MaxRevision \in Nat \ {0} /\ MaxRestores \in Nat /\ MaxEpoch \in Nat \ {0}
    /\ OutlineSlots \subseteq Slots
    /\ Listed \cap Bound = {} /\ Listed \cap Standing = {} /\ Bound \cap Standing = {}
    /\ None \notin [from : 1..MaxVersion, to : 1..MaxVersion, last : {0} \cup Slots]

VARIABLES
    workload,
    db,                 \* the database, as it is read
    hot,                \* a write-ahead log was left beside it
    server,             \* the master key the running server was given, or None
    file,               \* the master key file
    put,                \* sealed and not yet stored, by slot
    backup,             \* backup files
    disk,               \* the lock and the marker of a restore
    command,            \* the offline command that is running
    incarnations,       \* how many incarnations were made
    withdrawn           \* grants that ended

vars == <<workload, db, hot, server, file, put, backup, disk, command,
          incarnations, withdrawn>>

NoCommand == [op |-> "NONE"]
Grants == Listed \cup Bound \cup Standing
Versions == 1..MaxVersion
Key(v) == db.key[v]
InRotation == db.rotation # None
Active(d) == CHOOSE v \in Versions : d.key[v].state = "ACTIVE"
HasActive(d) == \E v \in Versions : d.key[v].state = "ACTIVE"

\* The grants of a database that hold: those that have not ended, and that were given
\* in the present epoch if they are bound to it.
Held(d) == {g \in Grants : d.under[g] # 0 /\ (g \in Bound => d.under[g] = d.epoch)}

TypeOK ==
    /\ \A v \in Versions : Key(v).state \in {"NONE", "PENDING", "ACTIVE", "RETIRED"}
    /\ Cardinality({v \in Versions : Key(v).state = "ACTIVE"}) <= 1
    /\ InRotation => /\ Key(db.rotation.from).state = "ACTIVE"
                     /\ Key(db.rotation.to).state = "PENDING"
                     /\ db.rotation.last \in {0} \cup Slots
    /\ \A s \in Slots : db.credential[s].state \in {"NONE", "LIVE", "REVOKED"}
    /\ db.epoch \in Nat \ {0} /\ \A g \in Grants : db.under[g] \in 0..db.epoch
    /\ db.incarnation \in 0..incarnations
    /\ \A b \in Backups :
         /\ db.record[b] \in {"NONE", "VERIFIED", "FAILED", "DELETED"}
         /\ backup[b].state \in {"NONE", "GOOD", "CORRUPT", "OPAQUE"}
    /\ server \in MasterKeys \cup {None} /\ file \in MasterKeys
    /\ command.op # "NONE" => server = None

-------------------------------------------------------------------------------
Init ==
    /\ workload \in Workloads
    /\ db = [key |-> [v \in Versions |-> [state |-> "NONE"]], rotation |-> None,
             credential |-> [s \in Slots |-> [state |-> "NONE", revision |-> 0]],
             epoch |-> 1, under |-> [g \in Grants |-> 0], incarnation |-> 0,
             record |-> [b \in Backups |-> "NONE"]]
    /\ hot = FALSE /\ server = None
    /\ file \in MasterKeys
    /\ put = [s \in Slots |-> None]
    /\ backup = [b \in Backups |-> [state |-> "NONE"]]
    /\ disk = {} /\ command = NoCommand
    /\ incarnations = 0 /\ withdrawn = {}

outside == <<workload, file, backup, disk, incarnations, withdrawn>>

\* Startup: refused beside a restore's marker; the class gets its first key.
StartServer ==
    /\ server = None /\ command = NoCommand /\ "MARKER" \notin disk
    /\ server' = file /\ hot' = FALSE
    /\ db' = IF HasActive(db) THEN db
             ELSE [db EXCEPT !.key[1] =
                    [state |-> "ACTIVE", raw |-> 1, by |-> file, name |-> ServerName]]
    /\ UNCHANGED <<outside, put, command>>

\* It is stopped and closes its database, or killed and leaves a log behind.
StopServer ==
    /\ server # None /\ server' = None
    /\ put' = [s \in Slots |-> None]
    /\ \/ UNCHANGED hot
       \/ "KILL" \in workload.ops /\ hot' = TRUE
    /\ UNCHANGED <<outside, db, command>>

Serving(op) == server # None /\ op \in workload.ops

\* A grant is made once, under the epoch of the time.
Grant(g) ==
    /\ Serving("GRANT") /\ db.under[g] = 0 /\ g \notin withdrawn
    /\ db' = [db EXCEPT !.under[g] = db.epoch]
    /\ UNCHANGED <<outside, hot, server, put, command>>

\* Its row is revoked, consumed, replaced or expires; a scope's never is.
EndGrant(g) ==
    /\ Serving("GRANT") /\ g \in Held(db) \ Bound
    /\ db' = [db EXCEPT !.under[g] = 0]
    /\ withdrawn' = withdrawn \cup {g}
    /\ UNCHANGED <<workload, hot, server, file, put, backup, disk, command,
                   incarnations>>

\* updateEpoch: an owner's review ends the scopes and leaves their rows.
RaiseEpoch ==
    /\ Serving("GRANT") /\ db.epoch < MaxEpoch
    /\ db' = [db EXCEPT !.epoch = @ + 1]
    /\ withdrawn' = withdrawn \cup (Held(db) \cap Bound)
    /\ UNCHANGED <<workload, hot, server, file, put, backup, disk, command,
                   incarnations>>

\* removeMember: with the epoch goes what every scope is bound to, so that those that
\* hold go on and those that do not stay behind.
MoveScopes ==
    /\ Serving("GRANT") /\ db.epoch < MaxEpoch
    /\ db' = [db EXCEPT !.epoch = @ + 1,
         !.under = [g \in Grants |-> IF g \in Bound /\ @[g] # 0 THEN @[g] + 1 ELSE @[g]]]
    /\ UNCHANGED <<outside, hot, server, put, command>>

-------------------------------------------------------------------------------
\* unwrapRow: the active key, wrapped by the master key of the same name.
Unwraps(v, key, name) == Key(v).by = key /\ Key(v).name = name

\* openSealed with a class key: what is authenticated with the row must match.
Opens(row, raw) ==
    row.sealed = [raw |-> raw, version |-> row.version, revision |-> row.revision]

\* sealCredential and put, up to the await of the sealing, which is under the
\* active key.
SealCredential(s) ==
    /\ Serving("PUT") /\ s \in workload.slots /\ put[s] = None /\ HasActive(db)
    /\ LET row == db.credential[s]
           v == Active(db) IN
         /\ row.state # "REVOKED" /\ row.revision < MaxRevision
         /\ Unwraps(v, server, ServerName)
         /\ put' = [put EXCEPT ![s] =
              [state |-> "LIVE", version |-> v, revision |-> row.revision + 1,
               sealed |-> [raw |-> Key(v).raw, version |-> v, revision |-> row.revision + 1]]]
    /\ UNCHANGED <<outside, db, hot, server, command>>

\* Slip: what is stored by now is not looked at.
StillAsReadLoose(s) == TRUE

\* The row is as it was read: its revision, and not revoked.
StillAsRead(s) ==
    /\ db.credential[s].revision = put[s].revision - 1 /\ db.credential[s].state # "REVOKED"

\* The upsert writes the new secret and leaves a row's mark of revocation.
Upserted(row, new) ==
    IF row.state = "REVOKED" THEN [new EXCEPT !.state = "REVOKED"] ELSE new

PutCredential(s) ==
    /\ put[s] # None
    /\ db' = IF StillAsRead(s) THEN [db EXCEPT !.credential[s] = Upserted(@, put[s])] ELSE db
    /\ put' = [put EXCEPT ![s] = None]
    /\ UNCHANGED <<outside, hot, server, command>>

\* The revision rises and the row is not sealed again.
Revoked(row) == [row EXCEPT !.state = "REVOKED", !.revision = @ + 1]

\* Removal of the owner.
RevokeCredential(s) ==
    /\ Serving("REVOKE") /\ db.credential[s].state = "LIVE"
    /\ db' = [db EXCEPT !.credential[s] = Revoked(@)]
    /\ UNCHANGED <<outside, hot, server, put, command>>

-------------------------------------------------------------------------------
\* An offline command opens the database, and what the log holds with it.
Begin(op, next) ==
    /\ op \in workload.ops /\ command = NoCommand /\ server = None
    /\ command' = next /\ hot' = FALSE
    /\ UNCHANGED <<workload, server, put>>
InCommand(op) == command.op = op

\* A command fails, is done, or is killed; what it committed stays.
EndCommand ==
    /\ command # NoCommand /\ command' = NoCommand
    /\ UNCHANGED <<outside, db, hot, server, put>>

\* rotateCredentialClassKey: a rotation is resumed, or begun with the next key.
RotateClass ==
    /\ Begin("ROTATE_CLASS", [op |-> "ROTATE"])
    /\ HasActive(db)
    /\ \/ InRotation /\ UNCHANGED db
       \/ LET v == Active(db) IN
            /\ ~InRotation /\ v < MaxVersion
            /\ db' = [db EXCEPT
                 !.key[v + 1] = [state |-> "PENDING", raw |-> v + 1, by |-> file,
                                 name |-> CommandName],
                 !.rotation = [from |-> v, to |-> v + 1, last |-> 0]]
    /\ UNCHANGED <<file, backup, disk, incarnations, withdrawn>>

\* Both class keys can be unwrapped.
KeysAtHand ==
    InRotation /\ \A v \in {db.rotation.from, db.rotation.to} : Unwraps(v, file, CommandName)

Stored(s) == db.credential[s].state # "NONE"
Remaining == {s \in Slots : s > db.rotation.last /\ Stored(s)}

\* The next row, revoked or not, moves to the new key; one it cannot open ends
\* the command.
RewrapNext ==
    /\ InCommand("ROTATE") /\ KeysAtHand
    /\ \E s \in Remaining :
         LET row == db.credential[s]
             to == db.rotation.to IN
         /\ \A other \in Remaining : s <= other
         /\ Opens(row, Key(db.rotation.from).raw)
         /\ db' = [db EXCEPT !.rotation.last = s,
              !.credential[s] = [state |-> row.state, version |-> to,
                 revision |-> row.revision + 1,
                 sealed |-> [raw |-> Key(to).raw, version |-> to,
                             revision |-> row.revision + 1]]]
    /\ UNCHANGED <<outside, hot, server, put, command>>

\* Slip: every row is taken to be done.
VerifiedLoose(raw) == TRUE

\* Every row of the class opens with the new key.
VerifiedUnder(raw) == \A s \in Slots : Stored(s) => Opens(db.credential[s], raw)

\* The new key takes the place of the old one.
Activated(d) ==
    [d EXCEPT !.key[d.rotation.from].state = "RETIRED",
              !.key[d.rotation.to].state = "ACTIVE", !.rotation = None]

ActivateKey ==
    /\ InCommand("ROTATE") /\ KeysAtHand /\ Remaining = {}
    /\ VerifiedUnder(Key(db.rotation.to).raw)
    /\ db' = Activated(db) /\ command' = NoCommand
    /\ UNCHANGED <<outside, hot, server, put>>

\* rotateMasterWrappingKey: one transaction; the class key stays what it is.
RotateMaster(next) ==
    /\ Begin("ROTATE_MASTER", [op |-> "DONE"])
    /\ ~InRotation /\ HasActive(db) /\ next # file
    /\ LET v == Active(db) IN
         /\ Unwraps(v, file, CommandName) /\ v < MaxVersion
         /\ db' = [db EXCEPT !.key[v].state = "RETIRED",
              !.key[v + 1] = [state |-> "ACTIVE", raw |-> Key(v).raw, by |-> next,
                              name |-> CommandName]]
    /\ UNCHANGED <<file, backup, disk, incarnations, withdrawn>>

\* The operator puts another master key in the file.
InstallKey(next) ==
    /\ "INSTALL" \in workload.ops /\ server = None /\ command = NoCommand
    /\ file' = next
    /\ UNCHANGED <<workload, db, hot, server, put, backup, disk, command,
                   incarnations, withdrawn>>

-------------------------------------------------------------------------------
\* createAuthenticatedBackup: the snapshot, the file, and, once the file has been
\* read back, its record, which is not in the snapshot.
TakeSnapshot(b) ==
    /\ Begin("BACKUP", [op |-> "WRITE", b |-> b, of |-> db])
    /\ b \in workload.backups /\ backup[b].state = "NONE" /\ db.record[b] = "NONE"
    /\ \A older \in Backups : older < b => backup[older].state # "NONE" \/ db.record[older] # "NONE"
    /\ UNCHANGED <<db, file, backup, disk, incarnations, withdrawn>>

WriteBackup ==
    /\ InCommand("WRITE")
    /\ backup' = [backup EXCEPT ![command.b] =
         [state |-> "GOOD", of |-> command.of, by |-> file]]
    /\ command' = [op |-> "RECORD", b |-> command.b]
    /\ UNCHANGED <<workload, db, hot, server, file, put, disk, incarnations, withdrawn>>

RecordBackup ==
    /\ InCommand("RECORD") /\ command' = NoCommand
    /\ IF backup[command.b].state = "GOOD"
       THEN db' = [db EXCEPT !.record[command.b] = "VERIFIED"] /\ UNCHANGED backup
       ELSE backup' = [backup EXCEPT ![command.b] = [state |-> "NONE"]] /\ UNCHANGED db
    /\ UNCHANGED <<workload, hot, server, file, put, disk, incarnations, withdrawn>>

\* A backup's file is damaged, so that it shows or so that it only cannot be
\* authenticated; not while retention looks at them.
Damage(b) ==
    /\ "DAMAGE" \in workload.ops /\ backup[b].state = "GOOD" /\ ~InCommand("RETIRE")
    /\ \E state \in {"CORRUPT", "OPAQUE"} : backup' = [backup EXCEPT ![b].state = state]
    /\ UNCHANGED <<workload, db, hot, server, file, put, disk, command,
                   incarnations, withdrawn>>

\* assessBackupUsability, with the one master key the command has.
Usable(b) == db.record[b] = "VERIFIED" /\ backup[b].state = "GOOD" /\ backup[b].by = file
Unusable(b) == db.record[b] = "VERIFIED" /\ backup[b].state \in {"NONE", "CORRUPT"}

\* Slip: what is recorded counts, whether it can be used or not.
CandidatesLoose == {b \in Backups : db.record[b] = "VERIFIED"}

Candidates == {b \in Backups : Usable(b)}

\* The newest usable one is kept, and at most MaximumBackups, fewer when others
\* are too old or too large.
Kept ==
    {keep \in SUBSET Candidates : /\ Cardinality(keep) <= MaximumBackups
                                 /\ \A b \in Candidates : \E k \in keep : b <= k}

\* enforceBackupRetention: damaged backups fail; when one is left that can be used,
\* files whose record is DELETED go, and the backups that are not kept.
RetireBackups ==
    /\ \E keep \in Kept : Begin("RETIRE", [op |-> "RETIRE", retire |-> Candidates \ keep])
    /\ db' = [db EXCEPT !.record =
         [b \in Backups |-> IF Unusable(b) THEN "FAILED" ELSE @[b]]]
    /\ backup' = [b \in Backups |->
         IF db.record[b] = "DELETED" /\ Candidates # {} THEN [state |-> "NONE"]
         ELSE backup[b]]
    /\ UNCHANGED <<file, disk, incarnations, withdrawn>>

\* The record first, then the file.
RetireOne(b) ==
    /\ InCommand("RETIRE") /\ b \in command.retire
    /\ db' = [db EXCEPT !.record[b] = "DELETED"]
    /\ command' = [command EXCEPT !.retire = @ \ {b}]
    /\ \/ backup' = [backup EXCEPT ![b] = [state |-> "NONE"]]
       \/ UNCHANGED backup
    /\ UNCHANGED <<workload, hot, server, file, put, disk, incarnations, withdrawn>>

-------------------------------------------------------------------------------
\* What the restored rows of grants become: those on the list end.
ListedEnded(under) == [g \in Grants |-> IF g \in Listed THEN 0 ELSE under[g]]

\* Outline's credentials are revoked, those that were before as well, and the others
\* stay as they are.
OutlineRevoked(rows) ==
    [s \in Slots |-> IF s \in OutlineSlots /\ rows[s].state # "NONE" THEN Revoked(rows[s])
                     ELSE rows[s]]

\* Slip: only rows are ended, and the epochs stay as the backup has them.
InvalidateRows(d, b, n) ==
    [d EXCEPT !.incarnation = n, !.under = ListedEnded(@),
        !.record[b] = IF @ = "NONE" THEN "VERIFIED" ELSE @, !.credential = OutlineRevoked(@)]

\* invalidateAuthority: listed rows end, the epoch rises, and the deployment is a new
\* incarnation, which nothing looks at.
Invalidate(d, b, n) ==
    [d EXCEPT !.incarnation = n, !.under = ListedEnded(@), !.epoch = @ + 1,
        !.record[b] = IF @ = "NONE" THEN "VERIFIED" ELSE @, !.credential = OutlineRevoked(@)]

\* restoreBackup, up to the promotion: the lock, the backup authenticated with
\* the master key of the file, and the staged database.  It does not open the
\* database it is to replace.
StageRestore(b) ==
    /\ "RESTORE" \in workload.ops /\ command = NoCommand /\ server = None
    /\ "LOCK" \notin disk /\ incarnations < MaxRestores
    /\ backup[b].state = "GOOD" /\ backup[b].by = file
    /\ incarnations' = incarnations + 1
    /\ disk' = disk \cup {"LOCK"}
    /\ command' = [op |-> "STAGED", db |-> Invalidate(backup[b].of, b, incarnations + 1)]
    /\ UNCHANGED <<workload, db, hot, server, file, put, backup, withdrawn>>

MarkIncomplete ==
    /\ InCommand("STAGED")
    /\ disk' = disk \cup {"MARKER"} /\ command' = [command EXCEPT !.op = "MARKED"]
    /\ UNCHANGED <<workload, db, hot, server, file, put, backup, incarnations, withdrawn>>

\* The staged file takes the place of the database, and what was held in that one has
\* ended, what stands apart.  Not beside a log that was left: nothing removes it, it would
\* be read over the new file, and of the mixture of pages nothing is claimed.
Promote ==
    /\ InCommand("MARKED") /\ ~hot
    /\ db' = command.db
    /\ withdrawn' = withdrawn \cup (Held(db) \ Standing)
    /\ command' = [op |-> "PROMOTED"]
    /\ UNCHANGED <<workload, hot, server, file, put, backup, disk, incarnations>>

\* Marker and lock are removed, after a failure as well.
EndRestore ==
    /\ command.op \in {"STAGED", "MARKED", "PROMOTED"}
    /\ disk' = {} /\ command' = NoCommand
    /\ UNCHANGED <<workload, db, hot, server, file, put, backup, incarnations, withdrawn>>

\* The operator reviews what a killed restore has left.
ReviewRestore ==
    /\ command = NoCommand /\ server = None /\ disk # {}
    /\ disk' = {}
    /\ UNCHANGED <<workload, db, hot, server, file, put, backup, command,
                   incarnations, withdrawn>>

Next ==
    \/ StartServer \/ StopServer \/ EndCommand
    \/ \E g \in Grants : Grant(g) \/ EndGrant(g)
    \/ RaiseEpoch \/ MoveScopes
    \/ \E s \in Slots : SealCredential(s) \/ PutCredential(s) \/ RevokeCredential(s)
    \/ RotateClass \/ RewrapNext \/ ActivateKey
    \/ \E k \in MasterKeys : RotateMaster(k) \/ InstallKey(k)
    \/ \E b \in Backups : TakeSnapshot(b) \/ Damage(b) \/ RetireOne(b) \/ StageRestore(b)
    \/ WriteBackup \/ RecordBackup \/ RetireBackups
    \/ MarkIncomplete \/ Promote \/ EndRestore \/ ReviewRestore

Spec == Init /\ [][Next]_vars

\* An operator who stops the server now and then to repeat the rotation, and does
\* not interrupt it every time.
Fairness ==
    /\ WF_vars(StopServer) /\ SF_vars(RotateClass) /\ SF_vars(RewrapNext)
    /\ SF_vars(ActivateKey) /\ WF_vars(EndCommand)
FairSpec == Spec /\ Fairness

-------------------------------------------------------------------------------
\* Whatever was rotated, killed, resumed or restored: when no rotation is under
\* way, every credential that is not revoked opens with the active class key.
ActiveOpensAll ==
    ~InRotation => \A s \in Slots :
        db.credential[s].state = "LIVE" =>
            HasActive(db) /\ Opens(db.credential[s], Key(Active(db)).raw)

\* The keys are in order and open what they should.
KeysOpenAll == TypeOK /\ ActiveOpensAll

\* A restore never resurrects sessions, permits, runner identity or connector authority
\* (docs/security/SECURITY-MODEL.md): what has ended, by its row or by its epoch, before a
\* backup was restored or because it was, is not held again, whichever backup it is, made
\* under whatever epoch.  Of the grants a restore leaves as they were it is not true.
NothingReturns == (Held(db) \ Standing) \cap withdrawn = {}

\* Once a credential is revoked its row is not written any more in this database: no secret
\* that was sealed before is stored in it after, and no rotation moves it to another key.
RevokedStays ==
    [][db'.incarnation = db.incarnation => \A s \in Slots :
         db.credential[s].state = "REVOKED" => db'.credential[s] = db.credential[s]]_vars

\* Retention never takes the last backup that could be restored, killed runs and
\* damaged, unreadable or unrecorded files included; a restored database has the
\* records it was saved with, whatever has become of the files since.
RetainsUsable ==
    [][db'.incarnation = db.incarnation => \A b \in Backups :
         (db.record[b] = "VERIFIED" /\ db'.record[b] = "DELETED") =>
         \E other \in Backups \ {b} :
            db'.record[other] = "VERIFIED" /\ backup'[other].state = "GOOD"
            /\ backup'[other].by = file]_vars

\* A rotation that was begun is completed when it is resumed
\* (docs/product/PRODUCT-SPEC.md).
RotationCompletes == InRotation ~> ~InRotation
===============================================================================
