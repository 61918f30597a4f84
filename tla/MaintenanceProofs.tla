--------------------------- MODULE MaintenanceProofs ---------------------------
(***************************************************************************)
(* Theorems about Maintenance, for any credentials, keys, backups, grants  *)
(* and bounds, whatever operations a behaviour uses.                       *)
(***************************************************************************)
EXTENDS Maintenance, FiniteSetTheorems, TLAPS

-------------------------------------------------------------------------------
(* Databases, backups and commands, by their forms.                        *)

KeyRows ==
    [state : {"NONE"}]
      \cup [state : {"PENDING", "ACTIVE", "RETIRED"}, raw : Nat, by : MasterKeys,
            name : {ServerName, CommandName}]
Seals == [raw : Nat, version : Versions, revision : Nat]
SealedRows == [state : {"LIVE", "REVOKED"}, version : Versions, revision : Nat, sealed : Seals]
CredentialRows == [state : {"NONE"}, revision : Nat] \cup SealedRows
Rotations == [from : Versions, to : Versions, last : {0} \cup Slots]
Records == {"NONE", "VERIFIED", "FAILED", "DELETED"}
Databases ==
    [key : [Versions -> KeyRows], rotation : {None} \cup Rotations,
     credential : [Slots -> CredentialRows], epoch : Nat \ {0}, under : [Grants -> Nat],
     incarnation : Nat, record : [Backups -> Records]]
BackupRows ==
    [state : {"NONE"}]
      \cup [state : {"GOOD", "CORRUPT", "OPAQUE"}, of : Databases, by : MasterKeys]
Commands ==
    [op : {"NONE", "ROTATE", "DONE", "PROMOTED"}]
      \cup [op : {"WRITE"}, b : Backups, of : Databases]
      \cup [op : {"RECORD"}, b : Backups]
      \cup [op : {"RETIRE"}, retire : SUBSET Backups]
      \cup [op : {"STAGED", "MARKED"}, db : Databases]

FormInv ==
    /\ db \in Databases /\ backup \in [Backups -> BackupRows] /\ command \in Commands
    /\ put \in [Slots -> {None} \cup SealedRows]
    /\ server \in MasterKeys \cup {None} /\ file \in MasterKeys
    /\ incarnations \in Nat

-------------------------------------------------------------------------------
(* The inductive invariant.                                                *)

NothingLive(d) == \A s \in Slots : d.credential[s].state # "LIVE"

\* The keys of a database, the present one's, a backup's or a staged one's: one is
\* active, once there is any, and a rotation leads from it to the pending one.
KeysInv(d) ==
    /\ \A v, w \in Versions :
         d.key[v].state = "ACTIVE" /\ d.key[w].state = "ACTIVE" => v = w
    /\ d.rotation # None => /\ d.key[d.rotation.from].state = "ACTIVE"
                            /\ d.key[d.rotation.to].state = "PENDING"
    /\ HasActive(d) \/ NothingLive(d)

\* While no rotation is under way the active key opens every live credential.
OpensInv(d) ==
    d.rotation = None => \A s \in Slots :
        d.credential[s].state = "LIVE" =>
            HasActive(d) /\ Opens(d.credential[s], d.key[Active(d)].raw)

\* No row is sealed for a later revision, and a revoked one for none that it has: a
\* revocation raises the revision and does not seal the row again.
SealsInv(d) ==
    \A s \in Slots :
        /\ d.credential[s].state # "NONE" =>
             d.credential[s].sealed.revision <= d.credential[s].revision
        /\ d.credential[s].state = "REVOKED" =>
             d.credential[s].sealed.revision < d.credential[s].revision

\* No grant was given under an epoch to come.
EpochInv(d) == \A g \in Grants : d.under[g] <= d.epoch

Orderly(d) == KeysInv(d) /\ OpensInv(d) /\ SealsInv(d) /\ EpochInv(d)

\* The databases there are are in order, and of incarnations that were made.
SavedInv ==
    /\ Orderly(db) /\ db.incarnation <= incarnations
    /\ \A b \in Backups : backup[b].state # "NONE" =>
         Orderly(backup[b].of) /\ backup[b].of.incarnation <= incarnations
    /\ command.op = "WRITE" =>
         Orderly(command.of) /\ command.of.incarnation <= incarnations

\* A secret that was sealed and not yet stored opens with the key that is active
\* when it will be: no command runs beside the server.
PutInv ==
    /\ command.op # "NONE" => server = None
    /\ \A s \in Slots : put[s] # None =>
         /\ server # None /\ put[s].state = "LIVE"
         /\ HasActive(db) /\ Opens(put[s], Key(Active(db)).raw)

\* What a restore is about to promote: an incarnation that nothing has seen, in
\* which nothing is held but what stands.
StagedInv ==
    command.op \in {"STAGED", "MARKED"} =>
        /\ Orderly(command.db) /\ Held(command.db) \subseteq Standing
        /\ db.incarnation < command.db.incarnation /\ command.db.incarnation <= incarnations

\* While retention goes through its list, a backup that is not on it can be restored.
RetireInv ==
    command.op = "RETIRE" =>
        command.retire = {} \/ \E k \in Backups \ command.retire : Usable(k)

Inv ==
    /\ FormInv /\ SavedInv /\ PutInv /\ StagedInv /\ RetireInv
    /\ NothingReturns

-------------------------------------------------------------------------------
(* Forms.                                                                  *)

\* The parts of a database.
LEMMA DatabaseForm ==
    ASSUME NEW d \in Databases
    PROVE  /\ d.key \in [Versions -> KeyRows] /\ d.rotation \in {None} \cup Rotations
           /\ d.credential \in [Slots -> CredentialRows]
           /\ d.epoch \in Nat \ {0} /\ d.under \in [Grants -> Nat]
           /\ d.incarnation \in Nat /\ d.record \in [Backups -> Records]
BY DEF Databases

\* A database one of whose parts is replaced.
LEMMA Replaced ==
    ASSUME NEW d \in Databases
    PROVE  /\ \A k \in [Versions -> KeyRows] : [d EXCEPT !.key = k] \in Databases
           /\ \A k \in [Versions -> KeyRows], r \in {None} \cup Rotations :
                [d EXCEPT !.key = k, !.rotation = r] \in Databases
           /\ \A c \in [Slots -> CredentialRows] : [d EXCEPT !.credential = c] \in Databases
           /\ \A c \in [Slots -> CredentialRows], r \in {None} \cup Rotations :
                [d EXCEPT !.rotation = r, !.credential = c] \in Databases
           /\ \A u \in [Grants -> Nat] : [d EXCEPT !.under = u] \in Databases
           /\ \A e \in Nat \ {0} : [d EXCEPT !.epoch = e] \in Databases
           /\ \A u \in [Grants -> Nat], e \in Nat \ {0} :
                [d EXCEPT !.epoch = e, !.under = u] \in Databases
           /\ \A r \in [Backups -> Records] : [d EXCEPT !.record = r] \in Databases
BY DEF Databases

\* What a row's state, or a command's op, says of its form.
LEMMA RowForms ==
    ASSUME FormInv
    PROVE  /\ \A d \in Databases, v \in Versions : d.key[v].state # "NONE" =>
                d.key[v] \in [state : {"PENDING", "ACTIVE", "RETIRED"}, raw : Nat,
                              by : MasterKeys, name : {ServerName, CommandName}]
           /\ \A d \in Databases, s \in Slots :
                d.credential[s].state # "NONE" => d.credential[s] \in SealedRows
           /\ \A b \in Backups : backup[b].state # "NONE" =>
                /\ backup[b].state \in {"GOOD", "CORRUPT", "OPAQUE"}
                /\ backup[b].of \in Databases /\ backup[b].by \in MasterKeys
           /\ command.op = "WRITE" => command.b \in Backups /\ command.of \in Databases
           /\ command.op = "RECORD" => command.b \in Backups
           /\ command.op = "RETIRE" => command.retire \subseteq Backups
           /\ command.op \in {"STAGED", "MARKED"} => command.db \in Databases
<1>1. ASSUME NEW d \in Databases, NEW v \in Versions, d.key[v].state # "NONE"
      PROVE  d.key[v] \in [state : {"PENDING", "ACTIVE", "RETIRED"}, raw : Nat,
                           by : MasterKeys, name : {ServerName, CommandName}]
    <2>1. d.key[v] \in KeyRows
        BY DatabaseForm
    <2> QED
        BY <2>1, <1>1 DEF KeyRows
<1>2. ASSUME NEW d \in Databases, NEW s \in Slots, d.credential[s].state # "NONE"
      PROVE  d.credential[s] \in SealedRows
    <2>1. d.credential[s] \in CredentialRows
        BY DatabaseForm
    <2> QED
        BY <2>1, <1>2 DEF CredentialRows
<1>3. ASSUME NEW b \in Backups, backup[b].state # "NONE"
      PROVE  /\ backup[b].state \in {"GOOD", "CORRUPT", "OPAQUE"}
             /\ backup[b].of \in Databases /\ backup[b].by \in MasterKeys
    <2>1. backup[b] \in BackupRows
        BY DEF FormInv
    <2> QED
        BY <2>1, <1>3 DEF BackupRows
<1>4. command \in Commands
    BY DEF FormInv
<1>5. /\ command.op = "WRITE" => command.b \in Backups /\ command.of \in Databases
      /\ command.op = "RECORD" => command.b \in Backups
      /\ command.op = "RETIRE" => command.retire \subseteq Backups
      /\ command.op \in {"STAGED", "MARKED"} => command.db \in Databases
    BY <1>4 DEF Commands
<1> QED
    BY <1>1, <1>2, <1>3, <1>5

\* The active key of a database that has one.
LEMMA ActiveKey ==
    ASSUME NEW d, KeysInv(d), HasActive(d)
    PROVE  /\ Active(d) \in Versions /\ d.key[Active(d)].state = "ACTIVE"
           /\ \A v \in Versions : d.key[v].state = "ACTIVE" => v = Active(d)
<1>1. Active(d) \in Versions /\ d.key[Active(d)].state = "ACTIVE"
    BY DEF Active, HasActive
<1> QED
    BY <1>1 DEF KeysInv

\* A deployment that was never used has its forms.
LEMMA FormInit == Init => FormInv
<1> SUFFICES ASSUME Init PROVE FormInv
    OBVIOUS
<1>1. [v \in Versions |-> [state |-> "NONE"]] \in [Versions -> KeyRows]
    BY DEF KeyRows
<1>2. [s \in Slots |-> [state |-> "NONE", revision |-> 0]] \in [Slots -> CredentialRows]
    BY DEF CredentialRows
<1>3. [b \in Backups |-> "NONE"] \in [Backups -> Records]
    BY DEF Records
<1>4. db \in Databases
    BY <1>1, <1>2, <1>3 DEF Init, Databases
<1>5. backup \in [Backups -> BackupRows]
    BY DEF Init, BackupRows
<1>6. command \in Commands
    BY DEF Init, NoCommand, Commands
<1> QED
    BY <1>4, <1>5, <1>6 DEF Init, FormInv

\* The server's start, its stop, and what it grants and withdraws.
LEMMA FormServer ==
    ASSUME FormInv,
           \/ StartServer \/ StopServer \/ EndCommand
           \/ \E g \in Grants : Grant(g) \/ EndGrant(g)
           \/ RaiseEpoch \/ MoveScopes
    PROVE  FormInv'
<1>1. CASE StartServer
    <2> DEFINE r == [state |-> "ACTIVE", raw |-> 1, by |-> file, name |-> ServerName]
    <2>1. r \in KeyRows
        BY DEF FormInv, KeyRows
    <2> HIDE DEF r
    <2>2. [db.key EXCEPT ![1] = r] \in [Versions -> KeyRows]
        BY <2>1, DatabaseForm DEF FormInv
    <2>3. [db EXCEPT !.key = [db.key EXCEPT ![1] = r]] \in Databases
        BY <2>2, Replaced DEF FormInv
    <2>4. [db EXCEPT !.key[1] = r] \in Databases
        BY <2>3
    <2>5. db' \in Databases
        BY <1>1, <2>4 DEF StartServer, FormInv, r
    <2> QED
        BY <1>1, <2>5 DEF StartServer, outside, FormInv
<1>2. CASE StopServer
    BY <1>2 DEF StopServer, outside, FormInv
<1>3. CASE EndCommand
    BY <1>3 DEF EndCommand, NoCommand, outside, FormInv, Commands
<1>4. ASSUME NEW g \in Grants, Grant(g) \/ EndGrant(g) PROVE FormInv'
    <2>1. PICK e \in Nat : db' = [db EXCEPT !.under = [db.under EXCEPT ![g] = e]]
        BY <1>4, DatabaseForm DEF Grant, EndGrant, FormInv
    <2>2. [db.under EXCEPT ![g] = e] \in [Grants -> Nat]
        BY DatabaseForm DEF FormInv
    <2>3. db' \in Databases
        BY <2>1, <2>2, Replaced DEF FormInv
    <2> QED
        BY <1>4, <2>3 DEF Grant, EndGrant, outside, FormInv
<1>5. CASE RaiseEpoch
    <2>1. db.epoch + 1 \in Nat \ {0}
        BY DatabaseForm DEF FormInv
    <2>2. db' = [db EXCEPT !.epoch = db.epoch + 1]
        BY <1>5 DEF RaiseEpoch
    <2>3. db' \in Databases
        BY <2>1, <2>2, Replaced DEF FormInv
    <2> QED
        BY <1>5, <2>3 DEF RaiseEpoch, FormInv
<1>6. CASE MoveScopes
    <2> DEFINE u == [g \in Grants |-> IF g \in Bound /\ db.under[g] # 0 THEN db.under[g] + 1
                                     ELSE db.under[g]]
    <2>1. db.epoch + 1 \in Nat \ {0} /\ u \in [Grants -> Nat]
        BY DatabaseForm DEF FormInv
    <2>2. db' = [db EXCEPT !.epoch = db.epoch + 1, !.under = u]
        BY <1>6 DEF MoveScopes
    <2> HIDE DEF u
    <2>3. db' \in Databases
        BY <2>1, <2>2, Replaced DEF FormInv
    <2> QED
        BY <1>6, <2>3 DEF MoveScopes, outside, FormInv
<1> QED
    BY <1>1, <1>2, <1>3, <1>4, <1>5, <1>6

\* A row whose owner is removed.
LEMMA RevokedRow ==
    ASSUME NEW row \in SealedRows
    PROVE  /\ Revoked(row) \in SealedRows /\ Revoked(row).state = "REVOKED"
           /\ Revoked(row).sealed = row.sealed /\ Revoked(row).revision = row.revision + 1
<1>1. row.revision + 1 \in Nat
    BY DEF SealedRows
<1>2. ASSUME NEW n \in Nat, NEW r, r = [row EXCEPT !.state = "REVOKED", !.revision = n]
      PROVE  /\ r \in SealedRows /\ r.state = "REVOKED" /\ r.sealed = row.sealed
             /\ r.revision = n
    BY <1>2 DEF SealedRows
<1> QED
    BY <1>1, <1>2 DEF Revoked

\* Storing and revoking credentials.
LEMMA FormCredential ==
    ASSUME FormInv, NEW s \in Slots,
           SealCredential(s) \/ PutCredential(s) \/ RevokeCredential(s)
    PROVE  FormInv'
<1>1. CASE SealCredential(s)
    <2> DEFINE row == db.credential[s]
               v == Active(db)
               new == [state |-> "LIVE", version |-> v, revision |-> row.revision + 1,
                       sealed |-> [raw |-> Key(v).raw, version |-> v,
                                   revision |-> row.revision + 1]]
    <2>1. v \in Versions /\ Key(v).state = "ACTIVE"
        BY <1>1 DEF SealCredential, HasActive, Active, Key
    <2>2. Key(v).raw \in Nat
        BY <2>1, RowForms DEF FormInv, Key
    <2>3. row.revision \in Nat
        BY DatabaseForm DEF FormInv, CredentialRows, SealedRows
    <2>4. new \in SealedRows
        BY <2>1, <2>2, <2>3 DEF SealedRows, Seals
    <2> HIDE DEF v
    <2>5. put' = [put EXCEPT ![s] = new]
        BY <1>1 DEF SealCredential, v
    <2> HIDE DEF new
    <2> QED
        BY <1>1, <2>4, <2>5 DEF SealCredential, outside, FormInv
<1>2. CASE PutCredential(s)
    <2> DEFINE new == Upserted(db.credential[s], put[s])
    <2>1. put[s] \in SealedRows
        BY <1>2 DEF PutCredential, FormInv
    <2>2. [put[s] EXCEPT !.state = "REVOKED"] \in SealedRows
        BY <2>1 DEF SealedRows
    <2>3. new \in CredentialRows
        BY <2>1, <2>2 DEF Upserted, CredentialRows
    <2>4. db' = db \/ db' = [db EXCEPT !.credential = [db.credential EXCEPT ![s] = new]]
        BY <1>2 DEF PutCredential
    <2> HIDE DEF new
    <2>5. [db.credential EXCEPT ![s] = new] \in [Slots -> CredentialRows]
        BY <2>3, DatabaseForm DEF FormInv
    <2>6. db' \in Databases
        BY <2>4, <2>5, Replaced DEF FormInv
    <2> QED
        BY <1>2, <2>6 DEF PutCredential, outside, FormInv
<1>3. CASE RevokeCredential(s)
    <2> DEFINE row == db.credential[s]
               new == Revoked(row)
    <2>1. row \in SealedRows
        BY <1>3, RowForms DEF RevokeCredential, FormInv
    <2>2. new \in CredentialRows
        BY <2>1, RevokedRow DEF CredentialRows
    <2>3. db' = [db EXCEPT !.credential = [db.credential EXCEPT ![s] = new]]
        BY <1>3 DEF RevokeCredential, FormInv, Databases
    <2> HIDE DEF new
    <2>4. [db.credential EXCEPT ![s] = new] \in [Slots -> CredentialRows]
        BY <2>2, DatabaseForm DEF FormInv
    <2>5. db' \in Databases
        BY <2>3, <2>4, Replaced DEF FormInv
    <2> QED
        BY <1>3, <2>5 DEF RevokeCredential, outside, FormInv
<1> QED
    BY <1>1, <1>2, <1>3

\* Rotating a key, and installing another master key.
LEMMA FormRotation ==
    ASSUME FormInv, KeysInv(db),
           \/ RotateClass \/ RewrapNext \/ ActivateKey
           \/ \E k \in MasterKeys : RotateMaster(k) \/ InstallKey(k)
    PROVE  FormInv'
<1>1. CASE RotateClass
    <2>1. command' = [op |-> "ROTATE"]
        BY <1>1 DEF RotateClass, Begin
    <2>2. command' \in Commands
        BY <2>1 DEF Commands
    <2>3. db' \in Databases
        <3>1. CASE UNCHANGED db
            BY <3>1 DEF FormInv
        <3>2. ASSUME NEW v, v = Active(db), v < MaxVersion,
                     db' = [db EXCEPT
                       !.key[v + 1] = [state |-> "PENDING", raw |-> v + 1, by |-> file,
                                       name |-> CommandName],
                       !.rotation = [from |-> v, to |-> v + 1, last |-> 0]]
              PROVE  db' \in Databases
            <4> DEFINE key == [state |-> "PENDING", raw |-> v + 1, by |-> file,
                               name |-> CommandName]
                       rotation == [from |-> v, to |-> v + 1, last |-> 0]
            <4>1. v \in Versions
                BY <1>1, <3>2 DEF RotateClass, HasActive, Active
            <4>2. v + 1 \in Versions
                BY <4>1, <3>2, MaintenanceAssumption DEF Versions
            <4>3. v + 1 \in Nat
                BY <4>2 DEF Versions
            <4>4. key \in KeyRows
                BY <4>3 DEF KeyRows, FormInv
            <4>5. rotation \in {None} \cup Rotations
                BY <4>1, <4>2 DEF Rotations
            <4> HIDE DEF key, rotation
            <4>6. [db.key EXCEPT ![v + 1] = key] \in [Versions -> KeyRows]
                BY <4>4, DatabaseForm DEF FormInv
            <4>7. db' = [db EXCEPT !.key = [db.key EXCEPT ![v + 1] = key], !.rotation = rotation]
                BY <3>2 DEF key, rotation
            <4> QED
                BY <4>5, <4>6, <4>7, Replaced DEF FormInv
        <3> QED
            BY <1>1, <3>1, <3>2 DEF RotateClass
    <2> QED
        BY <1>1, <2>2, <2>3 DEF RotateClass, Begin, FormInv
<1>2. CASE RewrapNext
    <2>1. PICK s \in Remaining :
             LET row == db.credential[s]
                 to == db.rotation.to IN
             db' = [db EXCEPT !.rotation.last = s,
               !.credential[s] = [state |-> row.state, version |-> to,
                  revision |-> row.revision + 1,
                  sealed |-> [raw |-> Key(to).raw, version |-> to,
                              revision |-> row.revision + 1]]]
        BY <1>2 DEF RewrapNext
    <2> DEFINE row == db.credential[s]
               to == db.rotation.to
               new == [state |-> row.state, version |-> to, revision |-> row.revision + 1,
                       sealed |-> [raw |-> Key(to).raw, version |-> to,
                                   revision |-> row.revision + 1]]
    <2>2. s \in Slots /\ row \in SealedRows
        BY RowForms DEF FormInv, Remaining, Stored
    <2>3. db.rotation \in Rotations
        BY <1>2, DatabaseForm DEF RewrapNext, KeysAtHand, InRotation, FormInv
    <2>4. to \in Versions
        BY <2>3 DEF Rotations
    <2>5. Key(to).raw \in Nat
        BY <1>2, <2>4, RowForms DEF KeysInv, Key, FormInv, RewrapNext, KeysAtHand, InRotation
    <2>6. row.revision + 1 \in Nat /\ row.state \in {"LIVE", "REVOKED"}
        BY <2>2 DEF SealedRows
    <2>7. new \in CredentialRows
        BY <2>4, <2>5, <2>6 DEF CredentialRows, SealedRows, Seals
    <2> HIDE DEF row, to
    <2>8. db' = [db EXCEPT !.rotation.last = s, !.credential[s] = new]
        BY <2>1 DEF row, to
    <2> HIDE DEF new
    <2>9. [db.credential EXCEPT ![s] = new] \in [Slots -> CredentialRows]
        BY <2>2, <2>7, DatabaseForm DEF FormInv
    <2>10. [db.rotation EXCEPT !.last = s] \in Rotations
        BY <2>2, <2>3 DEF Rotations
    <2>11. db' \in Databases
        <3>1. db' = [db EXCEPT !.rotation = [db.rotation EXCEPT !.last = s],
                               !.credential = [db.credential EXCEPT ![s] = new]]
            BY <2>8
        <3>2. [db.rotation EXCEPT !.last = s] \in {None} \cup Rotations
            BY <2>10
        <3> QED
            BY <2>9, <3>1, <3>2, Replaced DEF FormInv
    <2> QED
        BY <1>2, <2>11 DEF RewrapNext, outside, FormInv
<1>3. CASE ActivateKey
    <2> DEFINE from == db.rotation.from
               to == db.rotation.to
               retired == [Key(from) EXCEPT !.state = "RETIRED"]
               active == [Key(to) EXCEPT !.state = "ACTIVE"]
    <2>1. db.rotation \in Rotations
        BY <1>3, DatabaseForm DEF ActivateKey, KeysAtHand, InRotation, FormInv
    <2>2. /\ from \in Versions /\ to \in Versions /\ from # to
          /\ Key(from).state = "ACTIVE" /\ Key(to).state = "PENDING"
        BY <1>3, <2>1 DEF Rotations, KeysInv, Key, ActivateKey, KeysAtHand, InRotation
    <2> HIDE DEF from, to
    <2>3. retired \in KeyRows /\ active \in KeyRows
        <3>1. \A v \in {from, to} :
                 Key(v) \in [state : {"PENDING", "ACTIVE", "RETIRED"}, raw : Nat,
                            by : MasterKeys, name : {ServerName, CommandName}]
            BY <2>2, RowForms DEF Key, FormInv
        <3> QED
            BY <3>1 DEF KeyRows
    <2>4. db' = [db EXCEPT !.key = [[db.key EXCEPT ![from] = retired] EXCEPT ![to] = active],
                           !.rotation = None]
        BY <1>3, <2>2, ZenonT(60) DEF ActivateKey, Activated, Key, from, to
    <2> HIDE DEF retired, active
    <2>5. [[db.key EXCEPT ![from] = retired] EXCEPT ![to] = active] \in [Versions -> KeyRows]
        BY <2>2, <2>3, DatabaseForm DEF FormInv
    <2>6. db' \in Databases
        BY <2>4, <2>5, Replaced DEF FormInv
    <2> QED
        BY <1>3, <2>6 DEF ActivateKey, outside, FormInv, NoCommand, Commands
<1>4. ASSUME NEW k \in MasterKeys, RotateMaster(k)
      PROVE  FormInv'
    <2> DEFINE v == Active(db)
               retired == [Key(v) EXCEPT !.state = "RETIRED"]
               active == [state |-> "ACTIVE", raw |-> Key(v).raw, by |-> k, name |-> CommandName]
    <2>1. v \in Versions /\ v < MaxVersion /\ Key(v).state = "ACTIVE"
        BY <1>4, ActiveKey DEF RotateMaster, Key
    <2>2. v + 1 \in Versions /\ v # v + 1
        BY <2>1, MaintenanceAssumption DEF Versions
    <2>3. db' = [db EXCEPT !.key[v].state = "RETIRED", !.key[v + 1] = active]
        BY <1>4 DEF RotateMaster
    <2> HIDE DEF v
    <2>4. retired \in KeyRows /\ active \in KeyRows
        <3>1. Key(v) \in [state : {"PENDING", "ACTIVE", "RETIRED"}, raw : Nat,
                         by : MasterKeys, name : {ServerName, CommandName}]
            BY <2>1, RowForms DEF Key, FormInv
        <3> QED
            BY <3>1 DEF KeyRows
    <2>5. db' = [db EXCEPT !.key = [[db.key EXCEPT ![v] = retired] EXCEPT ![v + 1] = active]]
        BY <2>3 DEF Key
    <2> HIDE DEF retired, active
    <2>6. [[db.key EXCEPT ![v] = retired] EXCEPT ![v + 1] = active] \in [Versions -> KeyRows]
        BY <2>1, <2>2, <2>4, DatabaseForm DEF FormInv
    <2>7. db' \in Databases
        BY <2>5, <2>6, Replaced DEF FormInv
    <2>8. command' \in Commands
        BY <1>4 DEF RotateMaster, Begin, Commands
    <2> QED
        BY <1>4, <2>7, <2>8 DEF RotateMaster, Begin, FormInv
<1>5. ASSUME NEW k \in MasterKeys, InstallKey(k)
      PROVE  FormInv'
    BY <1>5 DEF InstallKey, FormInv
<1> QED
    BY <1>1, <1>2, <1>3, <1>4, <1>5

\* Backups: taken, recorded, damaged and retired.
LEMMA FormBackup ==
    ASSUME FormInv,
           \/ \E b \in Backups : TakeSnapshot(b) \/ Damage(b) \/ RetireOne(b)
           \/ WriteBackup \/ RecordBackup \/ RetireBackups
    PROVE  FormInv'
<1>0. [state |-> "NONE"] \in BackupRows
    BY DEF BackupRows
<1>1. ASSUME NEW b \in Backups, TakeSnapshot(b) PROVE FormInv'
    <2>1. command' = [op |-> "WRITE", b |-> b, of |-> db]
        BY <1>1 DEF TakeSnapshot, Begin
    <2>2. command' \in Commands
        BY <2>1 DEF Commands, FormInv
    <2> QED
        BY <1>1, <2>2 DEF TakeSnapshot, Begin, FormInv
<1>2. ASSUME NEW b \in Backups, Damage(b) PROVE FormInv'
    <2>1. PICK s \in {"CORRUPT", "OPAQUE"} : backup' = [backup EXCEPT ![b].state = s]
        BY <1>2 DEF Damage
    <2>2. backup[b] \in [state : {"GOOD", "CORRUPT", "OPAQUE"}, of : Databases, by : MasterKeys]
        BY <1>2 DEF Damage, FormInv, BackupRows
    <2> DEFINE r == [backup[b] EXCEPT !.state = s]
    <2>3. r \in BackupRows
        BY <2>2 DEF BackupRows
    <2>4. backup' = [backup EXCEPT ![b] = r]
        BY <2>1
    <2> HIDE DEF r
    <2>5. backup' \in [Backups -> BackupRows]
        BY <2>3, <2>4 DEF FormInv
    <2> QED
        BY <1>2, <2>5 DEF Damage, FormInv
<1>3. ASSUME NEW b \in Backups, RetireOne(b) PROVE FormInv'
    <2>1. [db.record EXCEPT ![b] = "DELETED"] \in [Backups -> Records]
        BY DatabaseForm DEF FormInv, Records
    <2>2. db' = [db EXCEPT !.record = [db.record EXCEPT ![b] = "DELETED"]]
        BY <1>3 DEF RetireOne
    <2>3. db' \in Databases
        BY <2>1, <2>2, Replaced DEF FormInv
    <2>4. command \in [op : {"RETIRE"}, retire : SUBSET Backups]
        BY <1>3 DEF RetireOne, InCommand, FormInv, Commands
    <2>5. command' = [command EXCEPT !.retire = @ \ {b}]
        BY <1>3 DEF RetireOne
    <2>6. command' \in Commands
        BY <2>4, <2>5 DEF Commands
    <2>7. backup' \in [Backups -> BackupRows]
        BY <1>0, <1>3 DEF RetireOne, FormInv
    <2> QED
        BY <1>3, <2>3, <2>6, <2>7 DEF RetireOne, FormInv
<1>4. CASE WriteBackup
    <2>1. command.b \in Backups /\ command.of \in Databases
        BY <1>4, RowForms DEF WriteBackup, InCommand
    <2> DEFINE r == [state |-> "GOOD", of |-> command.of, by |-> file]
    <2>2. r \in BackupRows
        BY <2>1 DEF BackupRows, FormInv
    <2>3. backup' = [backup EXCEPT ![command.b] = r]
        BY <1>4 DEF WriteBackup
    <2> HIDE DEF r
    <2>4. backup' \in [Backups -> BackupRows]
        BY <2>2, <2>3 DEF FormInv
    <2>5. command' \in Commands
        BY <1>4, <2>1 DEF WriteBackup, Commands
    <2> QED
        BY <1>4, <2>4, <2>5 DEF WriteBackup, FormInv
<1>5. CASE RecordBackup
    <2>1. command' \in Commands
        BY <1>5 DEF RecordBackup, NoCommand, Commands
    <2>2. backup' \in [Backups -> BackupRows]
        BY <1>0, <1>5 DEF RecordBackup, FormInv
    <2>3. [db.record EXCEPT ![command.b] = "VERIFIED"] \in [Backups -> Records]
        BY DatabaseForm DEF FormInv, Records
    <2>4. [db EXCEPT !.record = [db.record EXCEPT ![command.b] = "VERIFIED"]] \in Databases
        BY <2>3, Replaced DEF FormInv
    <2>5. db' \in Databases
        BY <1>5, <2>4 DEF RecordBackup, FormInv
    <2> QED
        BY <1>5, <2>1, <2>2, <2>5 DEF RecordBackup, FormInv
<1>6. CASE RetireBackups
    <2> DEFINE record == [b \in Backups |-> IF Unusable(b) THEN "FAILED" ELSE db.record[b]]
    <2>1. record \in [Backups -> Records]
        BY DatabaseForm DEF FormInv, Records
    <2>2. db' = [db EXCEPT !.record = record]
        BY <1>6 DEF RetireBackups
    <2> HIDE DEF record
    <2>3. db' \in Databases
        BY <2>1, <2>2, Replaced DEF FormInv
    <2>4. backup' \in [Backups -> BackupRows]
        BY <1>0, <1>6 DEF RetireBackups, FormInv
    <2>5. PICK keep \in Kept : Begin("RETIRE", [op |-> "RETIRE", retire |-> Candidates \ keep])
        BY <1>6 DEF RetireBackups
    <2>6. Candidates \ keep \subseteq Backups
        BY DEF Candidates
    <2>7. command' \in Commands
        BY <2>5, <2>6 DEF Begin, Commands
    <2> QED
        BY <1>6, <2>3, <2>4, <2>5, <2>7 DEF RetireBackups, Begin, FormInv
<1> QED
    BY <1>1, <1>2, <1>3, <1>4, <1>5, <1>6

\* The database a restore stages.
LEMMA StagedForm ==
    ASSUME NEW d \in Databases, NEW b \in Backups, NEW n \in Nat
    PROVE  LET e == Invalidate(d, b, n) IN
           /\ e \in Databases /\ e.incarnation = n
           /\ e.key = d.key /\ e.rotation = d.rotation
           /\ e.epoch = d.epoch + 1 /\ e.under = ListedEnded(d.under)
           /\ e.credential = OutlineRevoked(d.credential)
<1> DEFINE record == [d.record EXCEPT ![b] = IF @ = "NONE" THEN "VERIFIED" ELSE @]
           credential == OutlineRevoked(d.credential)
           under == ListedEnded(d.under)
           epoch == d.epoch + 1
           e == [d EXCEPT !.incarnation = n, !.under = under, !.epoch = epoch,
                          !.record = record, !.credential = credential]
<1>1. record \in [Backups -> Records]
    BY DatabaseForm DEF Records
<1>2. ASSUME NEW s \in Slots
      PROVE  credential[s] \in CredentialRows
    <2>1. d.credential[s] \in CredentialRows
        BY DatabaseForm
    <2>2. CASE s \in OutlineSlots /\ d.credential[s].state # "NONE"
        <3>1. d.credential[s] \in SealedRows
            BY <2>1, <2>2 DEF CredentialRows
        <3> QED
            BY <2>2, <3>1, RevokedRow DEF CredentialRows, OutlineRevoked
    <2>3. CASE ~(s \in OutlineSlots /\ d.credential[s].state # "NONE")
        BY <2>1, <2>3 DEF OutlineRevoked
    <2> QED
        BY <2>2, <2>3
<1>3. credential \in [Slots -> CredentialRows]
    <2>1. credential = [s \in Slots |-> credential[s]]
        BY DEF OutlineRevoked
    <2> HIDE DEF credential
    <2> QED
        BY <1>2, <2>1
<1>4. under \in [Grants -> Nat] /\ epoch \in Nat \ {0}
    BY DatabaseForm DEF ListedEnded
<1>5. Invalidate(d, b, n) = e
    BY DEF Invalidate
<1> HIDE DEF record, credential, under, epoch
<1>6. /\ e \in Databases /\ e.incarnation = n /\ e.key = d.key /\ e.rotation = d.rotation
      /\ e.epoch = epoch /\ e.under = under /\ e.credential = credential
    BY <1>1, <1>3, <1>4 DEF Databases
<1> HIDE DEF e
<1> QED
    BY <1>5, <1>6 DEF epoch, under, credential

\* What a restore stages of an orderly database is one, in which nothing is held but what
\* stands: the rows on the list have ended, and those bound to an epoch are behind it.
LEMMA StagedOrderly ==
    ASSUME NEW d \in Databases, NEW b \in Backups, NEW n \in Nat, Orderly(d)
    PROVE  Orderly(Invalidate(d, b, n)) /\ Held(Invalidate(d, b, n)) \subseteq Standing
<1> DEFINE e == Invalidate(d, b, n)
<1>1. /\ e.key = d.key /\ e.rotation = d.rotation /\ e.epoch = d.epoch + 1
      /\ e.under = ListedEnded(d.under) /\ e.credential = OutlineRevoked(d.credential)
    BY StagedForm
<1> HIDE DEF e
<1>2. ASSUME NEW s \in Slots
      PROVE  \/ e.credential[s] = d.credential[s]
             \/ /\ d.credential[s] \in SealedRows /\ e.credential[s] = Revoked(d.credential[s])
                /\ d.credential[s].state # "NONE"
    <2>1. d.credential[s] \in CredentialRows
        BY DatabaseForm
    <2> QED
        BY <1>1, <2>1 DEF OutlineRevoked, CredentialRows
<1>3. HasActive(e) = HasActive(d) /\ Active(e) = Active(d)
    BY <1>1 DEF HasActive, Active
<1>4. ASSUME NEW s \in Slots, e.credential[s].state = "LIVE"
      PROVE  e.credential[s] = d.credential[s]
    BY <1>2, <1>4, RevokedRow
<1>5. KeysInv(e)
    BY <1>1, <1>3, <1>4 DEF KeysInv, NothingLive, Orderly
<1>6. OpensInv(e)
    BY <1>1, <1>3, <1>4 DEF OpensInv, Orderly
<1>7. SealsInv(e)
    <2> SUFFICES ASSUME NEW s \in Slots, e.credential[s].state # "NONE"
                 PROVE  /\ e.credential[s].sealed.revision <= e.credential[s].revision
                        /\ e.credential[s].state = "REVOKED" =>
                             e.credential[s].sealed.revision < e.credential[s].revision
        BY DEF SealsInv
    <2>1. CASE e.credential[s] = d.credential[s]
        BY <2>1 DEF SealsInv, Orderly
    <2>2. CASE /\ d.credential[s] \in SealedRows /\ e.credential[s] = Revoked(d.credential[s])
               /\ d.credential[s].state # "NONE"
        <3>1. d.credential[s].sealed.revision <= d.credential[s].revision
            BY <2>2 DEF SealsInv, Orderly
        <3>2. d.credential[s].sealed.revision \in Nat /\ d.credential[s].revision \in Nat
            BY <2>2 DEF SealedRows, Seals
        <3> QED
            BY <2>2, <3>1, <3>2, RevokedRow
    <2> QED
        BY <1>2, <2>1, <2>2
<1>8. ASSUME NEW g \in Grants
      PROVE  /\ e.under[g] <= d.epoch /\ e.under[g] \in Nat /\ d.epoch \in Nat
             /\ g \in Listed => e.under[g] = 0
    BY <1>1, DatabaseForm DEF ListedEnded, EpochInv, Orderly
<1>9. EpochInv(e)
    BY <1>1, <1>8 DEF EpochInv
<1>10. Held(e) \subseteq Standing
    BY <1>1, <1>8 DEF Held, Grants
<1> QED
    BY <1>5, <1>6, <1>7, <1>9, <1>10 DEF Orderly, e

\* A restore and its review.
LEMMA FormRestore ==
    ASSUME FormInv,
           \/ \E b \in Backups : StageRestore(b)
           \/ MarkIncomplete \/ Promote \/ EndRestore \/ ReviewRestore
    PROVE  FormInv'
<1>1. ASSUME NEW b \in Backups, StageRestore(b) PROVE FormInv'
    <2>1. backup[b].of \in Databases
        BY <1>1, RowForms DEF StageRestore
    <2>2. incarnations + 1 \in Nat
        BY DEF FormInv
    <2>3. Invalidate(backup[b].of, b, incarnations + 1) \in Databases
        BY <2>1, <2>2, StagedForm
    <2>4. command' \in Commands
        BY <1>1, <2>3 DEF StageRestore, Commands
    <2> QED
        BY <1>1, <2>2, <2>4 DEF StageRestore, FormInv
<1>2. CASE MarkIncomplete
    <2>1. command \in [op : {"STAGED", "MARKED"}, db : Databases]
        BY <1>2 DEF MarkIncomplete, InCommand, FormInv, Commands
    <2>2. command' = [command EXCEPT !.op = "MARKED"]
        BY <1>2 DEF MarkIncomplete
    <2>3. command' \in Commands
        BY <2>1, <2>2 DEF Commands
    <2> QED
        BY <1>2, <2>3 DEF MarkIncomplete, FormInv
<1>3. CASE Promote
    <2>1. command.db \in Databases
        BY <1>3, RowForms DEF Promote, InCommand
    <2>2. command' \in Commands
        BY <1>3 DEF Promote, Commands
    <2> QED
        BY <1>3, <2>1, <2>2 DEF Promote, FormInv
<1>4. CASE EndRestore
    BY <1>4 DEF EndRestore, NoCommand, Commands, FormInv
<1>5. CASE ReviewRestore
    BY <1>5 DEF ReviewRestore, FormInv
<1> QED
    BY <1>1, <1>2, <1>3, <1>4, <1>5

\* Every step keeps the rows, the backups and the command in their form.
LEMMA FormStep == FormInv /\ KeysInv(db) /\ [Next]_vars => FormInv'
<1> SUFFICES ASSUME FormInv, KeysInv(db), [Next]_vars PROVE FormInv'
    OBVIOUS
<1>1. CASE UNCHANGED vars
    BY <1>1 DEF vars, FormInv
<1>2. CASE Next
    BY <1>2, FormServer, FormCredential, FormRotation, FormBackup, FormRestore DEF Next
<1> QED
    BY <1>1, <1>2

-------------------------------------------------------------------------------
(* Grants.                                                                 *)

\* The steps that make and end grants.
GrantsMove ==
    (\E g \in Grants : Grant(g) \/ EndGrant(g)) \/ RaiseEpoch \/ MoveScopes

\* They touch nothing else.
LEMMA GrantsMoveAlone ==
    ASSUME FormInv, GrantsMove
    PROVE  /\ UNCHANGED <<workload, hot, server, file, put, backup, disk, command, incarnations>>
           /\ db'.key = db.key /\ db'.rotation = db.rotation /\ db'.credential = db.credential
           /\ db'.incarnation = db.incarnation /\ db'.record = db.record
           /\ server # None
<1>0. db \in Databases
    BY DEF FormInv
<1>1. ASSUME NEW g \in Grants, Grant(g) \/ EndGrant(g)
      PROVE  \E u : db' = [db EXCEPT !.under = u]
    <2>1. \/ db' = [db EXCEPT !.under = [db.under EXCEPT ![g] = db.epoch]]
          \/ db' = [db EXCEPT !.under = [db.under EXCEPT ![g] = 0]]
        BY <1>1 DEF Grant, EndGrant
    <2> QED
        BY <2>1
<1>2. CASE RaiseEpoch
    BY <1>0, <1>2 DEF RaiseEpoch, Databases, Serving
<1>3. ASSUME MoveScopes PROVE \E u : db' = [db EXCEPT !.epoch = db.epoch + 1, !.under = u]
    BY <1>3 DEF MoveScopes
<1>4. ASSUME MoveScopes
      PROVE  /\ db'.key = db.key /\ db'.rotation = db.rotation /\ db'.credential = db.credential
             /\ db'.incarnation = db.incarnation /\ db'.record = db.record
    BY <1>0, <1>3, <1>4 DEF Databases
<1>5. CASE MoveScopes
    BY <1>4, <1>5 DEF MoveScopes, Serving, outside
<1>6. ASSUME NEW g \in Grants, Grant(g) \/ EndGrant(g)
      PROVE  /\ db'.key = db.key /\ db'.rotation = db.rotation /\ db'.credential = db.credential
             /\ db'.incarnation = db.incarnation /\ db'.record = db.record
    BY <1>0, <1>1, <1>6 DEF Databases
<1>7. ASSUME NEW g \in Grants, Grant(g) \/ EndGrant(g)
      PROVE  /\ UNCHANGED <<workload, hot, server, file, put, backup, disk, command, incarnations>>
             /\ server # None
    BY <1>7 DEF Grant, EndGrant, Serving, outside
<1> QED
    BY <1>2, <1>5, <1>6, <1>7 DEF GrantsMove

-------------------------------------------------------------------------------
(* Keys.                                                                   *)

\* The steps that change the keys or begin or end a rotation.
ChangesKeys ==
    \/ StartServer /\ ~HasActive(db)
    \/ RotateClass /\ ~InRotation
    \/ ActivateKey
    \/ \E k \in MasterKeys : RotateMaster(k)
    \/ Promote

\* Keys and rotation as they were, but for how far the rotation has come.
KeysKept ==
    /\ db'.key = db.key
    /\ db'.rotation = db.rotation
       \/ /\ db.rotation # None /\ RewrapNext
          /\ db'.rotation.from = db.rotation.from /\ db'.rotation.to = db.rotation.to

\* Every other step leaves them.
LEMMA KeysChange ==
    ASSUME FormInv, KeysInv(db), [Next]_vars
    PROVE  ChangesKeys \/ KeysKept
<1>0. db \in Databases
    BY DEF FormInv
<1>1. ASSUME db' = db PROVE KeysKept
    BY <1>1 DEF KeysKept
<1>2. CASE UNCHANGED vars
    BY <1>1, <1>2 DEF vars
<1>3. CASE StartServer \/ StopServer \/ EndCommand
    BY <1>1, <1>3 DEF StartServer, StopServer, EndCommand, ChangesKeys
<1>4. CASE GrantsMove
    BY <1>4, GrantsMoveAlone DEF KeysKept
<1>5. ASSUME NEW s \in Slots, SealCredential(s) \/ PutCredential(s) \/ RevokeCredential(s)
      PROVE  KeysKept
    BY <1>0, <1>1, <1>5 DEF SealCredential, PutCredential, RevokeCredential, KeysKept, Databases
<1>6. CASE RotateClass
    BY <1>1, <1>6 DEF RotateClass, ChangesKeys
<1>7. CASE RewrapNext
    <2>1. PICK s, new :
             /\ s \in Remaining
             /\ db' = [db EXCEPT !.rotation.last = s, !.credential[s] = new]
        BY <1>7 DEF RewrapNext
    <2>2. db.rotation # None /\ db.rotation \in Rotations
        BY <1>0, <1>7, DatabaseForm DEF RewrapNext, KeysAtHand, InRotation
    <2>3. db'.key = db.key /\ db'.rotation = [db.rotation EXCEPT !.last = s]
        BY <1>0, <2>1 DEF Databases
    <2> QED
        BY <1>7, <2>2, <2>3 DEF KeysKept, Rotations
<1>8. CASE ActivateKey
    BY <1>8 DEF ChangesKeys
<1>9. ASSUME NEW k \in MasterKeys, RotateMaster(k) \/ InstallKey(k)
      PROVE  ChangesKeys \/ KeysKept
    BY <1>1, <1>9 DEF InstallKey, ChangesKeys
<1>10. ASSUME NEW b \in Backups, TakeSnapshot(b) \/ Damage(b) \/ RetireOne(b) \/ StageRestore(b)
       PROVE  KeysKept
    BY <1>0, <1>1, <1>10 DEF TakeSnapshot, Damage, RetireOne, StageRestore, KeysKept, Databases
<1>11. CASE WriteBackup \/ RecordBackup \/ RetireBackups
    BY <1>0, <1>1, <1>11 DEF WriteBackup, RecordBackup, RetireBackups, KeysKept, Databases
<1>12. CASE MarkIncomplete \/ Promote \/ EndRestore \/ ReviewRestore
    BY <1>1, <1>12 DEF MarkIncomplete, Promote, EndRestore, ReviewRestore, ChangesKeys
<1> QED
    BY <1>2, <1>3, <1>4, <1>5, <1>6, <1>7, <1>8, <1>9, <1>10, <1>11, <1>12 DEF Next, GrantsMove

\* What a class that gets its first key becomes.
LEMMA FirstKey ==
    ASSUME FormInv, KeysInv(db), StartServer, ~HasActive(db)
    PROVE  KeysInv(db') /\ db'.credential = db.credential /\ NothingLive(db)
           /\ HasActive(db') /\ db'.rotation = None /\ db.rotation = None
<1> DEFINE r == [state |-> "ACTIVE", raw |-> 1, by |-> file, name |-> ServerName]
<1>1. 1 \in Versions
    BY MaintenanceAssumption DEF Versions
<1>2. db.rotation = None
    <2> SUFFICES ASSUME db.rotation # None PROVE FALSE
        OBVIOUS
    <2>1. db.rotation.from \in Versions
        BY DatabaseForm DEF FormInv, Rotations
    <2> QED
        BY <2>1 DEF KeysInv, HasActive
<1>3. db' = [db EXCEPT !.key = [db.key EXCEPT ![1] = r]]
    BY DEF StartServer
<1>4. r.state = "ACTIVE"
    OBVIOUS
<1> HIDE DEF r
<1>5. /\ db'.key = [db.key EXCEPT ![1] = r] /\ db'.credential = db.credential
      /\ db'.rotation = db.rotation
    BY <1>3 DEF FormInv, Databases
<1>6. \A v \in Versions : db'.key[v] = IF v = 1 THEN r ELSE db.key[v]
    BY <1>1, <1>5, DatabaseForm DEF FormInv
<1> QED
    BY <1>1, <1>2, <1>4, <1>5, <1>6 DEF KeysInv, HasActive, NothingLive

\* A rotation begins: the active key is the one it leads from.
LEMMA RotationBegins ==
    ASSUME FormInv, KeysInv(db), RotateClass, ~InRotation
    PROVE  /\ KeysInv(db') /\ db'.credential = db.credential
           /\ HasActive(db) /\ HasActive(db') /\ Active(db') = Active(db)
           /\ db'.key[Active(db)] = db.key[Active(db)]
<1> DEFINE v == Active(db)
           key == [state |-> "PENDING", raw |-> v + 1, by |-> file, name |-> CommandName]
           rotation == [from |-> v, to |-> v + 1, last |-> 0]
<1>1. HasActive(db) /\ v \in Versions /\ db.key[v].state = "ACTIVE"
      /\ \A w \in Versions : db.key[w].state = "ACTIVE" => w = v
    BY ActiveKey DEF RotateClass
<1>2. v + 1 \in Versions /\ v # v + 1
    BY <1>1, MaintenanceAssumption DEF RotateClass, InRotation, Versions
<1>3. db' = [db EXCEPT !.key = [db.key EXCEPT ![v + 1] = key], !.rotation = rotation]
    BY DEF RotateClass
<1>4. key.state = "PENDING" /\ rotation.from = v /\ rotation.to = v + 1
    OBVIOUS
<1> HIDE DEF key, rotation, v
<1>5. /\ db'.key = [db.key EXCEPT ![v + 1] = key] /\ db'.credential = db.credential
      /\ db'.rotation = rotation
    BY <1>3 DEF FormInv, Databases
<1>6. \A w \in Versions : db'.key[w] = IF w = v + 1 THEN key ELSE db.key[w]
    BY <1>2, <1>5, DatabaseForm DEF FormInv
<1>7. KeysInv(db') /\ HasActive(db')
    BY <1>1, <1>2, <1>4, <1>5, <1>6 DEF KeysInv, HasActive
<1>8. db'.key[v] = db.key[v]
    BY <1>1, <1>2, <1>6
<1>9. v = Active(db')
    BY <1>1, <1>7, <1>8, ActiveKey
<1> QED
    BY <1>1, <1>5, <1>7, <1>8, <1>9 DEF v

\* A rotation ends: the key it led to is active.
LEMMA RotationEnds ==
    ASSUME FormInv, KeysInv(db), ActivateKey
    PROVE  /\ KeysInv(db') /\ db'.credential = db.credential /\ HasActive(db')
           /\ Active(db') = db.rotation.to
           /\ db'.key[Active(db')].raw = Key(db.rotation.to).raw
<1> DEFINE from == db.rotation.from
           to == db.rotation.to
           retired == [Key(from) EXCEPT !.state = "RETIRED"]
           active == [Key(to) EXCEPT !.state = "ACTIVE"]
<1>1. db.rotation \in Rotations
    BY DatabaseForm DEF ActivateKey, KeysAtHand, InRotation, FormInv
<1>2. /\ from \in Versions /\ to \in Versions /\ from # to
      /\ Key(from).state = "ACTIVE" /\ Key(to).state = "PENDING"
      /\ \A v \in Versions : Key(v).state = "ACTIVE" => v = from
    BY <1>1 DEF Rotations, KeysInv, Key, ActivateKey, KeysAtHand, InRotation
<1>3. db' = [db EXCEPT !.key = [[db.key EXCEPT ![from] = retired] EXCEPT ![to] = active],
                       !.rotation = None]
    BY <1>2, ZenonT(60) DEF ActivateKey, Activated, Key
<1>4. retired.state = "RETIRED" /\ active.state = "ACTIVE" /\ active.raw = Key(to).raw
    <2>1. \A v \in {from, to} :
             Key(v) \in [state : {"PENDING", "ACTIVE", "RETIRED"}, raw : Nat,
                        by : MasterKeys, name : {ServerName, CommandName}]
        BY <1>2, RowForms DEF Key, FormInv
    <2> QED
        BY <2>1
<1> HIDE DEF from, to, retired, active
<1>5. /\ db'.key = [[db.key EXCEPT ![from] = retired] EXCEPT ![to] = active]
      /\ db'.credential = db.credential /\ db'.rotation = None
    BY <1>3 DEF FormInv, Databases
<1>6. \A v \in Versions :
         db'.key[v] = IF v = to THEN active ELSE IF v = from THEN retired ELSE Key(v)
    BY <1>2, <1>5, DatabaseForm DEF FormInv, Key
<1>7. \A v \in Versions : db'.key[v].state = "ACTIVE" => v = to
    BY <1>2, <1>4, <1>6
<1>8. HasActive(db') /\ db'.key[to].raw = Key(to).raw
    BY <1>2, <1>4, <1>6 DEF HasActive
<1>9. KeysInv(db')
    BY <1>5, <1>7, <1>8 DEF KeysInv
<1>10. Active(db') = to
    BY <1>7, <1>8, <1>9, ActiveKey
<1> QED
    BY <1>5, <1>8, <1>9, <1>10 DEF to

\* A class key that is rewrapped stays what it is.
LEMMA MasterRotated ==
    ASSUME FormInv, KeysInv(db), NEW k \in MasterKeys, RotateMaster(k)
    PROVE  /\ KeysInv(db') /\ db'.credential = db.credential
           /\ HasActive(db) /\ HasActive(db')
           /\ db'.key[Active(db')].raw = db.key[Active(db)].raw
<1> DEFINE v == Active(db)
           retired == [Key(v) EXCEPT !.state = "RETIRED"]
           active == [state |-> "ACTIVE", raw |-> Key(v).raw, by |-> k, name |-> CommandName]
<1>1. /\ HasActive(db) /\ v \in Versions /\ v < MaxVersion /\ Key(v).state = "ACTIVE"
      /\ \A w \in Versions : Key(w).state = "ACTIVE" => w = v
      /\ db.rotation = None
    BY ActiveKey DEF RotateMaster, Key, InRotation
<1>2. v + 1 \in Versions /\ v # v + 1
    BY <1>1, MaintenanceAssumption DEF Versions
<1>3. db' = [db EXCEPT !.key[v].state = "RETIRED", !.key[v + 1] = active]
    BY DEF RotateMaster
<1>4. active.state = "ACTIVE" /\ active.raw = Key(v).raw /\ retired.state = "RETIRED"
    <2>1. Key(v) \in [state : {"PENDING", "ACTIVE", "RETIRED"}, raw : Nat,
                     by : MasterKeys, name : {ServerName, CommandName}]
        BY <1>1, RowForms DEF Key, FormInv
    <2> QED
        BY <2>1
<1> HIDE DEF v
<1>5. db' = [db EXCEPT !.key = [[db.key EXCEPT ![v] = retired] EXCEPT ![v + 1] = active]]
    BY <1>3 DEF Key
<1> HIDE DEF retired, active
<1>6. /\ db'.key = [[db.key EXCEPT ![v] = retired] EXCEPT ![v + 1] = active]
      /\ db'.credential = db.credential /\ db'.rotation = None
    BY <1>1, <1>5 DEF FormInv, Databases
<1>7. \A w \in Versions :
         db'.key[w] = IF w = v + 1 THEN active ELSE IF w = v THEN retired ELSE Key(w)
    BY <1>1, <1>2, <1>6, DatabaseForm DEF FormInv, Key
<1>8. /\ \A w \in Versions : db'.key[w].state = "ACTIVE" => w = v + 1
      /\ HasActive(db') /\ db'.key[v + 1].raw = Key(v).raw
    BY <1>1, <1>2, <1>4, <1>7 DEF HasActive
<1>9. KeysInv(db')
    BY <1>6, <1>8 DEF KeysInv
<1>10. Active(db') = v + 1
    BY <1>8, <1>9, ActiveKey
<1> QED
    BY <1>1, <1>6, <1>8, <1>9, <1>10 DEF v, Key

-------------------------------------------------------------------------------
(* The other parts of a database.                                          *)

\* The incarnation changes when a restore is promoted, and only then.
LEMMA IncarnationStep ==
    ASSUME FormInv, [Next]_vars
    PROVE  /\ incarnations' \in Nat /\ incarnations <= incarnations'
           /\ db'.incarnation = db.incarnation \/ Promote
<1>0. db \in Databases /\ incarnations \in Nat
    BY DEF FormInv
<1>1. incarnations' \in Nat /\ incarnations <= incarnations'
    <2>1. incarnations' = incarnations \/ incarnations' = incarnations + 1
        BY DEF Next, vars, outside, StartServer, StopServer, EndCommand, Grant, EndGrant,
               RaiseEpoch, MoveScopes, SealCredential, PutCredential, RevokeCredential,
               RotateClass, RewrapNext, ActivateKey, RotateMaster, InstallKey, TakeSnapshot,
               Damage, RetireOne, StageRestore, WriteBackup, RecordBackup, RetireBackups,
               MarkIncomplete, Promote, EndRestore, ReviewRestore
    <2> QED
        BY <1>0, <2>1
<1> SUFFICES db'.incarnation = db.incarnation \/ Promote
    BY <1>1
<1>2. CASE UNCHANGED db
    BY <1>2
<1>3. CASE StartServer \/ StopServer \/ EndCommand
    BY <1>0, <1>3 DEF StartServer, StopServer, EndCommand, outside, Databases
<1>4. CASE GrantsMove
    BY <1>4, GrantsMoveAlone
<1>5. ASSUME NEW s \in Slots, SealCredential(s) \/ PutCredential(s) \/ RevokeCredential(s)
      PROVE  db'.incarnation = db.incarnation
    BY <1>0, <1>5 DEF SealCredential, PutCredential, RevokeCredential, outside, Databases
<1>6. CASE RotateClass \/ RewrapNext \/ ActivateKey
    BY <1>0, <1>6 DEF RotateClass, RewrapNext, ActivateKey, Activated, Databases
<1>7. ASSUME NEW k \in MasterKeys, RotateMaster(k) \/ InstallKey(k)
      PROVE  db'.incarnation = db.incarnation
    BY <1>0, <1>7 DEF RotateMaster, InstallKey, Databases
<1>8. ASSUME NEW b \in Backups, TakeSnapshot(b) \/ Damage(b) \/ RetireOne(b) \/ StageRestore(b)
      PROVE  db'.incarnation = db.incarnation
    BY <1>0, <1>8 DEF TakeSnapshot, Damage, RetireOne, StageRestore, Databases
<1>9. CASE WriteBackup \/ RecordBackup \/ RetireBackups
    BY <1>0, <1>9 DEF WriteBackup, RecordBackup, RetireBackups, Databases
<1>10. CASE MarkIncomplete \/ Promote \/ EndRestore \/ ReviewRestore
    BY <1>10 DEF MarkIncomplete, Promote, EndRestore, ReviewRestore
<1> QED
    BY <1>2, <1>3, <1>4, <1>5, <1>6, <1>7, <1>8, <1>9, <1>10 DEF Next, GrantsMove, vars

\* A credential's row stays as it is, or one that is not revoked is revoked, stored anew or
\* moved to another key.
LEMMA CredentialStep ==
    ASSUME FormInv, Orderly(db), PutInv, StagedInv, [Next]_vars, NEW s \in Slots
    PROVE  \/ db'.credential[s] = db.credential[s]
           \/ /\ db.credential[s] \in SealedRows /\ db.credential[s].state = "LIVE"
              /\ db'.credential[s] = Revoked(db.credential[s])
           \/ /\ PutCredential(s) /\ StillAsRead(s) /\ db'.credential[s] = put[s]
           \/ /\ RewrapNext /\ db.credential[s].state = "LIVE"
              /\ db'.credential[s].state = "LIVE"
              /\ db'.credential[s].sealed.revision = db'.credential[s].revision
           \/ Promote
<1>0. db \in Databases /\ db.credential \in [Slots -> CredentialRows]
    BY DatabaseForm DEF FormInv
<1>1. ASSUME db'.credential = db.credential PROVE db'.credential[s] = db.credential[s]
    BY <1>1
<1>2. CASE UNCHANGED vars
    BY <1>2 DEF vars
<1>3. CASE StartServer \/ StopServer \/ EndCommand
    BY <1>0, <1>1, <1>3 DEF StartServer, StopServer, EndCommand, outside, Databases
<1>4. CASE GrantsMove
    BY <1>4, GrantsMoveAlone
<1>5. ASSUME NEW t \in Slots, SealCredential(t) \/ PutCredential(t) \/ RevokeCredential(t)
      PROVE  \/ db'.credential[s] = db.credential[s]
             \/ /\ db.credential[s] \in SealedRows /\ db.credential[s].state = "LIVE"
                /\ db'.credential[s] = Revoked(db.credential[s])
             \/ /\ PutCredential(s) /\ StillAsRead(s) /\ db'.credential[s] = put[s]
    <2>1. CASE SealCredential(t)
        BY <2>1 DEF SealCredential, outside
    <2>2. CASE PutCredential(t)
        <3>1. CASE ~StillAsRead(t)
            BY <2>2, <3>1 DEF PutCredential
        <3>2. CASE StillAsRead(t)
            <4>1. db' = [db EXCEPT !.credential = [db.credential EXCEPT ![t] = put[t]]]
                BY <2>2, <3>2 DEF PutCredential, StillAsRead, Upserted
            <4>2. db'.credential = [db.credential EXCEPT ![t] = put[t]]
                BY <1>0, <4>1 DEF Databases
            <4> QED
                BY <1>0, <2>2, <3>2, <4>2
        <3> QED
            BY <3>1, <3>2
    <2>3. CASE RevokeCredential(t)
        <3>1. db' = [db EXCEPT !.credential = [db.credential EXCEPT ![t] = Revoked(@)]]
            BY <1>0, <2>3 DEF RevokeCredential, Databases
        <3>2. db'.credential = [db.credential EXCEPT ![t] = Revoked(db.credential[t])]
            BY <1>0, <3>1 DEF Databases
        <3>3. db.credential[t] \in SealedRows /\ db.credential[t].state = "LIVE"
            BY <2>3, RowForms DEF RevokeCredential, FormInv
        <3> QED
            BY <1>0, <3>2, <3>3, RevokedRow
    <2> QED
        BY <1>5, <2>1, <2>2, <2>3
<1>6. CASE RotateClass \/ ActivateKey
    BY <1>0, <1>1, <1>6 DEF RotateClass, ActivateKey, Activated, Databases
<1>7. CASE RewrapNext
    <2>1. PICK t, v, n, raw :
             /\ t \in Remaining /\ Opens(db.credential[t], Key(db.rotation.from).raw)
             /\ db' = [db EXCEPT !.rotation.last = t, !.credential[t] =
                         [state |-> db.credential[t].state, version |-> v, revision |-> n,
                          sealed |-> [raw |-> raw, version |-> v, revision |-> n]]]
        BY <1>7 DEF RewrapNext
    <2> DEFINE new == [state |-> db.credential[t].state, version |-> v, revision |-> n,
                       sealed |-> [raw |-> raw, version |-> v, revision |-> n]]
    <2>2. new.state = db.credential[t].state /\ new.sealed.revision = new.revision
        OBVIOUS
    <2>3. db' = [db EXCEPT !.rotation = [db.rotation EXCEPT !.last = t],
                           !.credential = [db.credential EXCEPT ![t] = new]]
        BY <2>1
    <2> HIDE DEF new
    <2>4. db'.credential = [db.credential EXCEPT ![t] = new]
        BY <1>0, <2>3 DEF Databases
    <2>5. t \in Slots /\ db.credential[t].state # "NONE"
        BY <2>1 DEF Remaining, Stored
    <2>6. db.credential[t].sealed.revision = db.credential[t].revision
        BY <2>1 DEF Opens
    <2>7. db.credential[t].state = "LIVE"
        <3>1. db.credential[t] \in SealedRows
            BY <1>0, <2>5, RowForms
        <3>2. db.credential[t].state \in {"LIVE", "REVOKED"} /\ db.credential[t].revision \in Nat
            BY <3>1 DEF SealedRows
        <3> QED
            BY <2>5, <2>6, <3>2 DEF Orderly, SealsInv
    <2> QED
        BY <1>0, <1>7, <2>2, <2>4, <2>5, <2>7
<1>8. ASSUME NEW k \in MasterKeys, RotateMaster(k) \/ InstallKey(k)
      PROVE  db'.credential = db.credential
    BY <1>0, <1>8 DEF RotateMaster, InstallKey, Databases
<1>9. ASSUME NEW b \in Backups, TakeSnapshot(b) \/ Damage(b) \/ RetireOne(b) \/ StageRestore(b)
      PROVE  db'.credential = db.credential
    BY <1>0, <1>9 DEF TakeSnapshot, Damage, RetireOne, StageRestore, Databases
<1>10. CASE WriteBackup \/ RecordBackup \/ RetireBackups
    BY <1>0, <1>1, <1>10 DEF WriteBackup, RecordBackup, RetireBackups, Databases
<1>11. CASE MarkIncomplete \/ Promote \/ EndRestore \/ ReviewRestore
    BY <1>1, <1>11 DEF MarkIncomplete, Promote, EndRestore, ReviewRestore
<1> QED
    BY <1>1, <1>2, <1>3, <1>4, <1>5, <1>6, <1>7, <1>8, <1>9, <1>10, <1>11 DEF Next, GrantsMove

-------------------------------------------------------------------------------
(* The commands.                                                           *)

\* A command begins, goes on, or is over.
LEMMA CommandStep ==
    ASSUME FormInv, [Next]_vars
    PROVE  \/ UNCHANGED command /\ ~Promote
           \/ command'.op \in {"NONE", "ROTATE", "DONE", "RECORD", "RETIRE", "PROMOTED"}
           \/ \E b \in Backups : TakeSnapshot(b) \/ StageRestore(b)
           \/ MarkIncomplete
<1> DEFINE Over == command'.op \in {"NONE", "ROTATE", "DONE", "RECORD", "RETIRE", "PROMOTED"}
<1>1. CASE Promote
    BY <1>1 DEF Promote
<1>2. CASE UNCHANGED vars
    BY <1>1, <1>2 DEF vars
<1>3. CASE StartServer \/ StopServer \/ ReviewRestore
    BY <1>1, <1>3 DEF StartServer, StopServer, ReviewRestore
<1>4. ASSUME GrantsMove PROVE UNCHANGED command
    BY <1>4, GrantsMoveAlone
<1>5. ASSUME NEW s \in Slots, SealCredential(s) \/ PutCredential(s) \/ RevokeCredential(s)
      PROVE  UNCHANGED command
    BY <1>5 DEF SealCredential, PutCredential, RevokeCredential
<1>6. ASSUME NEW b \in Backups, Damage(b) PROVE UNCHANGED command
    BY <1>6 DEF Damage
<1>7. ASSUME NEW k \in MasterKeys, RotateMaster(k) \/ InstallKey(k)
      PROVE  UNCHANGED command \/ Over
    BY <1>7 DEF RotateMaster, InstallKey, Begin
<1>8. CASE EndCommand \/ EndRestore
    BY <1>8 DEF EndCommand, EndRestore, NoCommand
<1>9. CASE RewrapNext
    BY <1>1, <1>9 DEF RewrapNext
<1>10. CASE RotateClass \/ ActivateKey \/ WriteBackup \/ RecordBackup \/ RetireBackups
    BY <1>10 DEF RotateClass, ActivateKey, WriteBackup, RecordBackup, RetireBackups, Begin,
                 NoCommand
<1>11. ASSUME NEW b \in Backups, RetireOne(b) PROVE Over
    <2>1. command \in [op : {"RETIRE"}, retire : SUBSET Backups]
        BY <1>11 DEF RetireOne, InCommand, FormInv, Commands
    <2> QED
        BY <1>11, <2>1 DEF RetireOne
<1> QED
    BY <1>1, <1>2, <1>3, <1>4, <1>5, <1>6, <1>7, <1>8, <1>9, <1>10, <1>11 DEF Next, GrantsMove

-------------------------------------------------------------------------------
(* The invariant is inductive.                                             *)

\* A database that is promoted is in order.
LEMMA Promoted ==
    ASSUME FormInv, StagedInv, Promote
    PROVE  /\ db' = command.db /\ db' \in Databases /\ Orderly(db')
           /\ Held(db') \subseteq Standing /\ db.incarnation < db'.incarnation
           /\ db'.incarnation <= incarnations /\ withdrawn' = withdrawn \cup (Held(db) \ Standing)
BY RowForms DEF StagedInv, Promote, InCommand

\* The keys stay in order, whatever begins, ends or replaces them.
LEMMA KeysStep ==
    ASSUME FormInv, Orderly(db), PutInv, StagedInv, [Next]_vars
    PROVE  KeysInv(db')
<1>0. KeysInv(db)
    BY DEF Orderly
<1>1. ASSUME KeysKept PROVE KeysInv(db')
    <2>1. /\ db'.key = db.key
          /\ db'.rotation # None => /\ db.rotation # None
                                    /\ db'.rotation.from = db.rotation.from
                                    /\ db'.rotation.to = db.rotation.to
        BY <1>1 DEF KeysKept
    <2>2. HasActive(db') \/ NothingLive(db')
        <3>1. CASE HasActive(db)
            BY <2>1, <3>1 DEF HasActive
        <3>2. CASE ~HasActive(db) /\ ~Promote
            <4>1. NothingLive(db)
                BY <1>0, <3>2 DEF KeysInv
            <4>2. ASSUME NEW s \in Slots PROVE db'.credential[s].state # "LIVE"
                <5>1. ~PutCredential(s) /\ db.credential[s].state # "LIVE"
                    BY <3>2, <4>1 DEF PutInv, PutCredential, NothingLive
                <5>2. db'.credential[s] = db.credential[s]
                    BY <3>2, <5>1, CredentialStep
                <5> QED
                    BY <5>1, <5>2
            <4> QED
                BY <4>2 DEF NothingLive
        <3>3. CASE Promote
            BY <3>3, Promoted DEF Orderly, KeysInv
        <3> QED
            BY <3>1, <3>2, <3>3
    <2> QED
        BY <1>0, <2>1, <2>2 DEF KeysInv
<1>2. CASE Promote
    BY <1>2, Promoted DEF Orderly
<1> QED
    BY <1>0, <1>1, <1>2, KeysChange, FirstKey, RotationBegins, RotationEnds, MasterRotated
    DEF ChangesKeys

\* Every credential that is live opens with the active key, whatever was done to it.
LEMMA OpensStep ==
    ASSUME FormInv, Orderly(db), PutInv, StagedInv, [Next]_vars
    PROVE  OpensInv(db')
<1> SUFFICES ASSUME db'.rotation = None, NEW s \in Slots, db'.credential[s].state = "LIVE"
             PROVE  HasActive(db') /\ Opens(db'.credential[s], db'.key[Active(db')].raw)
    BY DEF OpensInv
<1>1. KeysInv(db) /\ OpensInv(db)
    BY DEF Orderly
<1>2. ASSUME db.rotation = None, db'.credential[s] = db.credential[s]
      PROVE  HasActive(db) /\ Opens(db'.credential[s], db.key[Active(db)].raw)
    BY <1>1, <1>2 DEF OpensInv
<1>3. CASE ChangesKeys
    <2>1. CASE StartServer /\ ~HasActive(db)
        BY <1>1, <2>1, FirstKey DEF NothingLive
    <2>2. CASE RotateClass /\ ~InRotation
        <3>1. db'.credential[s] = db.credential[s] /\ db.rotation = None
            BY <1>1, <2>2, RotationBegins DEF InRotation
        <3> QED
            BY <1>1, <1>2, <2>2, <3>1, RotationBegins
    <2>3. CASE ActivateKey
        <3>1. db'.credential[s] = db.credential[s] /\ Stored(s)
            BY <1>1, <2>3, RotationEnds DEF Stored
        <3>2. Opens(db.credential[s], Key(db.rotation.to).raw)
            BY <2>3, <3>1 DEF ActivateKey, VerifiedUnder
        <3> QED
            BY <1>1, <2>3, <3>1, <3>2, RotationEnds
    <2>4. ASSUME NEW k \in MasterKeys, RotateMaster(k)
          PROVE  HasActive(db') /\ Opens(db'.credential[s], db'.key[Active(db')].raw)
        <3>1. db'.credential[s] = db.credential[s] /\ db.rotation = None
            BY <1>1, <2>4, MasterRotated DEF RotateMaster, InRotation
        <3> QED
            BY <1>1, <1>2, <2>4, <3>1, MasterRotated
    <2>5. CASE Promote
        BY <2>5, Promoted DEF Orderly, OpensInv
    <2> QED
        BY <1>3, <2>1, <2>2, <2>3, <2>4, <2>5 DEF ChangesKeys
<1>4. CASE KeysKept /\ ~ChangesKeys
    <2>1. db.rotation = None /\ ~RewrapNext
        <3>1. ~RewrapNext
            <4> SUFFICES ASSUME RewrapNext PROVE FALSE
                OBVIOUS
            <4>1. db.rotation \in Rotations
                BY DatabaseForm DEF RewrapNext, KeysAtHand, InRotation, FormInv
            <4>2. PICK t, new :
                     /\ t \in Slots
                     /\ db' = [db EXCEPT !.rotation.last = t, !.credential[t] = new]
                BY DEF RewrapNext, Remaining
            <4>3. db'.rotation = [db.rotation EXCEPT !.last = t]
                BY <4>2 DEF FormInv, Databases
            <4>4. t \in Slots /\ db'.rotation \in Rotations
                BY <4>1, <4>2, <4>3 DEF Rotations
            <4> QED
                BY <4>4, MaintenanceAssumption DEF Rotations, Versions
        <3> QED
            BY <1>4, <3>1 DEF KeysKept
    <2>2. HasActive(db') = HasActive(db) /\ Active(db') = Active(db)
        BY <1>4 DEF KeysKept, HasActive, Active
    <2>3. HasActive(db) /\ Opens(db'.credential[s], db.key[Active(db)].raw)
        <3>1. CASE db'.credential[s] = db.credential[s]
            BY <1>2, <2>1, <3>1
        <3>2. CASE PutCredential(s) /\ db'.credential[s] = put[s]
            BY <3>2 DEF PutInv, PutCredential, Key
        <3>3. ~(db.credential[s] \in SealedRows /\ db'.credential[s] = Revoked(db.credential[s]))
            BY RevokedRow
        <3> QED
            BY <1>4, <2>1, <3>1, <3>2, <3>3, CredentialStep DEF ChangesKeys
    <2> QED
        BY <1>4, <2>2, <2>3 DEF KeysKept
<1> QED
    BY <1>1, <1>3, <1>4, KeysChange

\* What is stored is sealed for its revision, and what is revoked for one before.
LEMMA SealsStep ==
    ASSUME FormInv, Orderly(db), PutInv, StagedInv, [Next]_vars
    PROVE  SealsInv(db')
<1>1. CASE Promote
    BY <1>1, Promoted DEF Orderly
<1>2. CASE ~Promote
    <2> SUFFICES ASSUME NEW s \in Slots, db'.credential[s].state # "NONE"
                 PROVE  /\ db'.credential[s].sealed.revision <= db'.credential[s].revision
                        /\ db'.credential[s].state = "REVOKED" =>
                             db'.credential[s].sealed.revision < db'.credential[s].revision
        BY DEF SealsInv
    <2>1. db' \in Databases
        BY FormStep DEF Orderly, FormInv
    <2>2. db'.credential[s] \in CredentialRows
        BY <2>1, DatabaseForm
    <2>3. db'.credential[s].revision \in Nat
        BY <2>2 DEF CredentialRows, SealedRows
    <2>4. CASE db'.credential[s] = db.credential[s]
        BY <2>4 DEF Orderly, SealsInv
    <2>5. CASE /\ db.credential[s] \in SealedRows /\ db.credential[s].state = "LIVE"
               /\ db'.credential[s] = Revoked(db.credential[s])
        <3>1. db.credential[s].sealed.revision <= db.credential[s].revision
            BY <2>5 DEF Orderly, SealsInv
        <3>2. db.credential[s].sealed.revision \in Nat /\ db.credential[s].revision \in Nat
            BY <2>5 DEF SealedRows, Seals
        <3> QED
            BY <2>5, <3>1, <3>2, RevokedRow
    <2>6. CASE PutCredential(s) /\ db'.credential[s] = put[s]
        <3>1. put[s] # None
            BY <2>6 DEF PutCredential
        <3>2. put[s].state = "LIVE" /\ Opens(put[s], Key(Active(db)).raw)
            BY <3>1 DEF PutInv
        <3>3. put[s].sealed.revision = put[s].revision
            BY <3>2 DEF Opens
        <3> QED
            BY <2>3, <2>6, <3>2, <3>3
    <2>7. CASE /\ db'.credential[s].state = "LIVE"
               /\ db'.credential[s].sealed.revision = db'.credential[s].revision
        BY <2>3, <2>7
    <2> QED
        BY <1>2, <2>4, <2>5, <2>6, <2>7, CredentialStep
<1> QED
    BY <1>1, <1>2

\* A grant that holds was given under the present epoch or is not bound to one; none that
\* has ended holds again, but one that a restore leaves.
LEMMA GrantsStep ==
    ASSUME FormInv, EpochInv(db), StagedInv, NothingReturns, [Next]_vars
    PROVE  EpochInv(db') /\ NothingReturns'
<1> DEFINE Aim == EpochInv(db') /\ (Held(db') \ Standing) \cap withdrawn' = {}
<1> SUFFICES Aim
    BY DEF NothingReturns, Held
<1>0. /\ db \in Databases /\ db.under \in [Grants -> Nat] /\ db.epoch \in Nat \ {0}
      /\ \A g \in Grants : db.under[g] <= db.epoch
    BY DatabaseForm DEF FormInv, EpochInv
<1>1. ASSUME NEW g \in Grants, Grant(g) PROVE Aim
    <2>1. db' = [db EXCEPT !.under = [db.under EXCEPT ![g] = db.epoch]]
        BY <1>1 DEF Grant
    <2>2. db'.under = [db.under EXCEPT ![g] = db.epoch] /\ db'.epoch = db.epoch
        BY <1>0, <2>1 DEF Databases
    <2>3. \A h \in Grants : db'.under[h] = IF h = g THEN db.epoch ELSE db.under[h]
        BY <1>0, <2>2
    <2>4. Held(db') \subseteq Held(db) \cup {g}
        BY <2>2, <2>3 DEF Held
    <2>5. g \notin withdrawn /\ withdrawn' = withdrawn
        BY <1>1 DEF Grant, outside
    <2>6. EpochInv(db')
        BY <1>0, <2>2, <2>3 DEF EpochInv
    <2> QED
        BY <2>4, <2>5, <2>6 DEF NothingReturns
<1>2. ASSUME NEW g \in Grants, EndGrant(g) PROVE Aim
    <2>1. db' = [db EXCEPT !.under = [db.under EXCEPT ![g] = 0]]
        BY <1>2 DEF EndGrant
    <2>2. db'.under = [db.under EXCEPT ![g] = 0] /\ db'.epoch = db.epoch
        BY <1>0, <2>1 DEF Databases
    <2>3. \A h \in Grants : db'.under[h] = IF h = g THEN 0 ELSE db.under[h]
        BY <1>0, <2>2
    <2>4. Held(db') \subseteq Held(db) \ {g}
        BY <2>2, <2>3 DEF Held
    <2>5. withdrawn' = withdrawn \cup {g}
        BY <1>2 DEF EndGrant
    <2>6. EpochInv(db')
        BY <1>0, <2>2, <2>3 DEF EpochInv
    <2> QED
        BY <2>4, <2>5, <2>6 DEF NothingReturns
<1>3. CASE RaiseEpoch
    <2>1. db'.epoch = db.epoch + 1 /\ db'.under = db.under
        BY <1>0, <1>3 DEF RaiseEpoch, Databases
    <2>2. Held(db') \subseteq Held(db) \ Bound
        BY <1>0, <2>1 DEF Held
    <2>3. withdrawn' = withdrawn \cup (Held(db) \cap Bound)
        BY <1>3 DEF RaiseEpoch
    <2>4. EpochInv(db')
        BY <1>0, <2>1 DEF EpochInv
    <2> QED
        BY <2>2, <2>3, <2>4 DEF NothingReturns
<1>4. CASE MoveScopes
    <2> DEFINE u == [g \in Grants |-> IF g \in Bound /\ db.under[g] # 0 THEN db.under[g] + 1
                                     ELSE db.under[g]]
    <2>1. db' = [db EXCEPT !.epoch = db.epoch + 1, !.under = u]
        BY <1>4 DEF MoveScopes
    <2>2. \A g \in Grants : u[g] = IF g \in Bound /\ db.under[g] # 0 THEN db.under[g] + 1
                                   ELSE db.under[g]
        OBVIOUS
    <2> HIDE DEF u
    <2>3. db'.epoch = db.epoch + 1 /\ db'.under = u
        BY <1>0, <2>1 DEF Databases
    <2>4. Held(db') = Held(db)
        BY <1>0, <2>2, <2>3 DEF Held
    <2>5. EpochInv(db')
        BY <1>0, <2>2, <2>3 DEF EpochInv
    <2> QED
        BY <1>4, <2>4, <2>5 DEF MoveScopes, outside, NothingReturns
<1>5. CASE Promote
    BY <1>5, Promoted DEF Orderly
<1>6. ASSUME db'.under = db.under, db'.epoch = db.epoch, withdrawn' = withdrawn PROVE Aim
    BY <1>6 DEF NothingReturns, EpochInv, Held
<1>7. CASE UNCHANGED vars
    BY <1>6, <1>7 DEF vars
<1>8. CASE StartServer \/ StopServer \/ EndCommand
    BY <1>0, <1>6, <1>8 DEF StartServer, StopServer, EndCommand, outside, Databases
<1>9. ASSUME NEW s \in Slots, SealCredential(s) \/ PutCredential(s) \/ RevokeCredential(s)
      PROVE  Aim
    BY <1>0, <1>6, <1>9 DEF SealCredential, PutCredential, RevokeCredential, outside, Databases
<1>10. CASE RotateClass \/ RewrapNext \/ ActivateKey
    BY <1>0, <1>6, <1>10 DEF RotateClass, RewrapNext, ActivateKey, Activated, outside, Databases
<1>11. ASSUME NEW k \in MasterKeys, RotateMaster(k) \/ InstallKey(k) PROVE Aim
    BY <1>0, <1>6, <1>11 DEF RotateMaster, InstallKey, Databases
<1>12. ASSUME NEW b \in Backups, TakeSnapshot(b) \/ Damage(b) \/ RetireOne(b) \/ StageRestore(b)
       PROVE  Aim
    BY <1>0, <1>6, <1>12 DEF TakeSnapshot, Damage, RetireOne, StageRestore, Databases
<1>13. CASE WriteBackup \/ RecordBackup \/ RetireBackups
    BY <1>0, <1>6, <1>13 DEF WriteBackup, RecordBackup, RetireBackups, Databases
<1>14. CASE MarkIncomplete \/ EndRestore \/ ReviewRestore
    BY <1>6, <1>14 DEF MarkIncomplete, EndRestore, ReviewRestore
<1> QED
    BY <1>1, <1>2, <1>3, <1>4, <1>5, <1>7, <1>8, <1>9, <1>10, <1>11, <1>12, <1>13, <1>14 DEF Next

\* Databases and backups stay in order.
LEMMA SavedStep ==
    ASSUME FormInv, SavedInv, PutInv, StagedInv, NothingReturns, [Next]_vars
    PROVE  SavedInv'
<1> DEFINE Fine(d) == Orderly(d) /\ d.incarnation <= incarnations
<1>0. Orderly(db) /\ KeysInv(db) /\ EpochInv(db)
    BY DEF SavedInv, Orderly
<1>1. Orderly(db') /\ FormInv'
    BY <1>0, KeysStep, OpensStep, SealsStep, GrantsStep, FormStep DEF Orderly
<1>2. /\ incarnations \in Nat /\ incarnations' \in Nat /\ incarnations <= incarnations'
      /\ db.incarnation \in Nat
    BY IncarnationStep, DatabaseForm DEF FormInv
<1>3. db'.incarnation <= incarnations'
    <2>1. CASE db'.incarnation = db.incarnation
        BY <1>2, <2>1 DEF SavedInv
    <2>2. CASE Promote
        BY <2>2, Promoted DEF Promote
    <2> QED
        BY <2>1, <2>2, IncarnationStep
<1>4. ASSUME NEW d \in Databases, Fine(d) PROVE d.incarnation <= incarnations'
    BY <1>2, <1>4, DatabaseForm
<1>5. ASSUME NEW b \in Backups, backup'[b].state # "NONE"
      PROVE  Orderly(backup'[b].of) /\ backup'[b].of.incarnation <= incarnations'
    <2>1. \/ backup[b].state # "NONE" /\ backup'[b].of = backup[b].of
          \/ WriteBackup /\ backup'[b].of = command.of
        <3>1. CASE UNCHANGED backup
            BY <1>5, <3>1
        <3>2. ASSUME NEW x \in Backups, Damage(x) PROVE backup[b].state # "NONE" /\ backup'[b].of = backup[b].of
            <4>1. PICK s \in {"CORRUPT", "OPAQUE"} : backup' = [backup EXCEPT ![x].state = s]
                BY <3>2 DEF Damage
            <4>2. backup[x] \in [state : {"GOOD", "CORRUPT", "OPAQUE"}, of : Databases,
                                 by : MasterKeys]
                BY <3>2 DEF Damage, FormInv, BackupRows
            <4>3. [backup[x] EXCEPT !.state = s].of = backup[x].of
                BY <4>2
            <4>4. backup[x].state # "NONE"
                BY <3>2 DEF Damage
            <4>5. backup' = [backup EXCEPT ![x] = [backup[x] EXCEPT !.state = s]]
                BY <4>1
            <4> HIDE DEF SavedInv
            <4> QED
                BY <1>5, <4>3, <4>4, <4>5 DEF FormInv
        <3>3. ASSUME NEW x \in Backups, RetireOne(x)
              PROVE  backup[b].state # "NONE" /\ backup'[b].of = backup[b].of
            BY <1>5, <3>3 DEF RetireOne, FormInv
        <3>4. CASE WriteBackup
            <4> DEFINE r == [state |-> "GOOD", of |-> command.of, by |-> file]
            <4>1. r.of = command.of
                OBVIOUS
            <4>2. backup' = [backup EXCEPT ![command.b] = r]
                BY <3>4 DEF WriteBackup
            <4> HIDE DEF r
            <4> QED
                BY <1>5, <3>4, <4>1, <4>2 DEF FormInv
        <3>5. CASE RecordBackup
            BY <1>5, <3>5 DEF RecordBackup, FormInv
        <3>6. CASE RetireBackups
            BY <1>5, <3>6 DEF RetireBackups, FormInv
        <3> QED
            BY <3>1, <3>2, <3>3, <3>4, <3>5, <3>6
            DEF Next, vars, outside, StartServer, StopServer, EndCommand, Grant, EndGrant,
                RaiseEpoch, MoveScopes, SealCredential, PutCredential, RevokeCredential,
                RotateClass, RewrapNext, ActivateKey, RotateMaster, InstallKey, TakeSnapshot,
                StageRestore, MarkIncomplete, Promote, EndRestore, ReviewRestore
    <2>2. CASE backup[b].state # "NONE" /\ backup'[b].of = backup[b].of
        BY <1>4, <2>2, RowForms DEF SavedInv
    <2>3. CASE WriteBackup /\ backup'[b].of = command.of
        BY <1>4, <2>3, RowForms DEF SavedInv, WriteBackup, InCommand
    <2> QED
        BY <2>1, <2>2, <2>3
<1>6. ASSUME command'.op = "WRITE"
      PROVE  Orderly(command'.of) /\ command'.of.incarnation <= incarnations'
    <2>1. UNCHANGED command \/ (\E b \in Backups : TakeSnapshot(b))
        <3>1. ~MarkIncomplete
            <4> SUFFICES ASSUME MarkIncomplete PROVE FALSE
                OBVIOUS
            <4>1. command \in [op : {"STAGED", "MARKED"}, db : Databases]
                BY DEF MarkIncomplete, InCommand, FormInv, Commands
            <4> QED
                BY <1>6, <4>1 DEF MarkIncomplete
        <3>2. \A b \in Backups : ~StageRestore(b)
            BY <1>6 DEF StageRestore
        <3> QED
            BY <1>6, <3>1, <3>2, CommandStep
    <2> QED
        BY <1>4, <1>6, <2>1, RowForms DEF SavedInv, TakeSnapshot, Begin, FormInv
<1> QED
    BY <1>1, <1>3, <1>5, <1>6 DEF SavedInv

\* What a server has sealed and not stored opens with the active key still.
LEMMA PutStep ==
    ASSUME FormInv, KeysInv(db), PutInv, StagedInv, [Next]_vars
    PROVE  PutInv'
<1>1. ASSUME UNCHANGED put, UNCHANGED server, UNCHANGED command \/ command' = NoCommand,
             KeysKept
      PROVE  PutInv'
    <2>1. \A v \in Versions : db'.key[v] = db.key[v]
        BY <1>1 DEF KeysKept
    <2>2. HasActive(db') = HasActive(db) /\ Active(db') = Active(db)
        BY <1>1 DEF KeysKept, HasActive, Active
    <2> QED
        BY <1>1, <2>2 DEF PutInv, KeysKept, Key, Opens, NoCommand
<1>2. ASSUME server = None, \A s \in Slots : put[s] # None => put'[s] = put[s],
             \A s \in Slots : put'[s] = put[s], server' = None
      PROVE  PutInv'
    BY <1>2 DEF PutInv
<1>3. CASE UNCHANGED vars
    BY <1>3, <1>1 DEF vars, KeysKept
<1>4. CASE StartServer
    <2>1. /\ \A s \in Slots : put[s] = None /\ put'[s] = None
          /\ command'.op = "NONE"
        BY <1>4 DEF StartServer, PutInv, NoCommand
    <2> QED
        BY <2>1 DEF PutInv
<1>5. CASE StopServer
    BY <1>5 DEF StopServer, PutInv
<1>6. CASE EndCommand
    BY <1>1, <1>6 DEF EndCommand, KeysKept, outside
<1>7. CASE GrantsMove
    BY <1>1, <1>7, GrantsMoveAlone DEF KeysKept
<1>8. ASSUME NEW s \in Slots, RevokeCredential(s) PROVE PutInv'
    <2>1. db'.key = db.key /\ db'.rotation = db.rotation
        BY <1>8 DEF RevokeCredential, FormInv, Databases
    <2> QED
        BY <1>1, <1>8, <2>1 DEF RevokeCredential, KeysKept
<1>9. ASSUME NEW s \in Slots, SealCredential(s) PROVE PutInv'
    <2> DEFINE v == Active(db)
               n == db.credential[s].revision + 1
               new == [state |-> "LIVE", version |-> v, revision |-> n,
                       sealed |-> [raw |-> Key(v).raw, version |-> v, revision |-> n]]
    <2>1. put' = [put EXCEPT ![s] = new]
        BY <1>9 DEF SealCredential
    <2>2. new.state = "LIVE" /\ Opens(new, Key(Active(db)).raw)
        BY DEF Opens
    <2> HIDE DEF new
    <2>3. \A t \in Slots : put'[t] = IF t = s THEN new ELSE put[t]
        BY <2>1 DEF FormInv
    <2>4. server # None /\ HasActive(db) /\ UNCHANGED <<db, server, command>>
        BY <1>9 DEF SealCredential, Serving
    <2>5. \A t \in Slots : put'[t] # None =>
             put'[t].state = "LIVE" /\ Opens(put'[t], Key(Active(db)).raw)
        BY <2>2, <2>3 DEF PutInv
    <2> QED
        BY <2>4, <2>5 DEF PutInv, Key
<1>10. ASSUME NEW s \in Slots, PutCredential(s) PROVE PutInv'
    <2>1. \A t \in Slots : put'[t] = IF t = s THEN None ELSE put[t]
        BY <1>10 DEF PutCredential, FormInv
    <2>2. db'.key = db.key
        BY <1>10 DEF PutCredential, FormInv, Databases
    <2>3. HasActive(db') = HasActive(db) /\ Active(db') = Active(db)
        BY <2>2 DEF HasActive, Active
    <2>4. UNCHANGED <<server, command>>
        BY <1>10 DEF PutCredential
    <2> QED
        BY <2>1, <2>2, <2>3, <2>4 DEF PutInv, Key, Opens
<1>11. ASSUME server = None, server' = None, put' = put PROVE PutInv'
    BY <1>11 DEF PutInv
<1>12. CASE RotateClass \/ RetireBackups
    BY <1>11, <1>12 DEF RotateClass, RetireBackups, Begin
<1>13. ASSUME NEW k \in MasterKeys, RotateMaster(k) \/ InstallKey(k) PROVE PutInv'
    BY <1>11, <1>13 DEF RotateMaster, InstallKey, Begin
<1>14. ASSUME NEW b \in Backups, TakeSnapshot(b) \/ StageRestore(b) PROVE PutInv'
    BY <1>11, <1>14 DEF TakeSnapshot, StageRestore, Begin
<1>15. ASSUME NEW b \in Backups, Damage(b) PROVE PutInv'
    BY <1>1, <1>15 DEF Damage, KeysKept
<1>16. ASSUME command.op # "NONE", UNCHANGED <<server, put>> PROVE PutInv'
    BY <1>11, <1>16 DEF PutInv
<1>17. ASSUME NEW b \in Backups, RetireOne(b) PROVE PutInv'
    BY <1>16, <1>17 DEF RetireOne, InCommand
<1>18. CASE RewrapNext \/ ActivateKey \/ WriteBackup \/ RecordBackup \/ MarkIncomplete
           \/ Promote \/ EndRestore
    BY <1>16, <1>18 DEF RewrapNext, ActivateKey, WriteBackup, RecordBackup, MarkIncomplete,
                        Promote, EndRestore, InCommand, outside
<1>19. CASE ReviewRestore
    BY <1>1, <1>19 DEF ReviewRestore, KeysKept
<1> QED
    BY <1>3, <1>4, <1>5, <1>6, <1>7, <1>8, <1>9, <1>10, <1>12, <1>13, <1>14, <1>15, <1>17,
       <1>18, <1>19 DEF Next, GrantsMove

\* What a restore will promote stays as it was staged, and newer than what it replaces.
LEMMA StagedStep ==
    ASSUME FormInv, SavedInv, StagedInv, [Next]_vars
    PROVE  StagedInv'
<1> SUFFICES ASSUME command'.op \in {"STAGED", "MARKED"}
             PROVE  /\ Orderly(command'.db) /\ Held(command'.db) \subseteq Standing
                    /\ db'.incarnation < command'.db.incarnation
                    /\ command'.db.incarnation <= incarnations'
    BY DEF StagedInv
<1>1. /\ incarnations \in Nat /\ incarnations' \in Nat /\ incarnations <= incarnations'
      /\ db.incarnation \in Nat /\ db.incarnation <= incarnations
    BY IncarnationStep, DatabaseForm DEF FormInv, SavedInv
<1>2. ASSUME NEW b \in Backups, StageRestore(b)
      PROVE  /\ Orderly(command'.db) /\ Held(command'.db) \subseteq Standing
             /\ db'.incarnation < command'.db.incarnation
             /\ command'.db.incarnation <= incarnations'
    <2> DEFINE d == backup[b].of
               e == Invalidate(d, b, incarnations + 1)
    <2>1. backup[b].state # "NONE" /\ d \in Databases /\ Orderly(d)
        BY <1>2, RowForms DEF StageRestore, SavedInv
    <2>2. command'.db = e
        BY <1>2 DEF StageRestore
    <2>3. incarnations + 1 \in Nat
        BY <1>1
    <2>4. Orderly(e) /\ Held(e) \subseteq Standing /\ e.incarnation = incarnations + 1
        BY <2>1, <2>3, StagedForm, StagedOrderly
    <2> HIDE DEF d, e
    <2>5. incarnations' = incarnations + 1 /\ db' = db
        BY <1>2 DEF StageRestore
    <2> QED
        BY <1>1, <2>2, <2>4, <2>5
<1>3. ASSUME command.op \in {"STAGED", "MARKED"}, command'.db = command.db,
             db'.incarnation = db.incarnation
      PROVE  /\ Orderly(command'.db) /\ Held(command'.db) \subseteq Standing
             /\ db'.incarnation < command'.db.incarnation
             /\ command'.db.incarnation <= incarnations'
    <2>1. command.db.incarnation \in Nat
        BY <1>3, RowForms, DatabaseForm
    <2> QED
        BY <1>1, <1>3, <2>1 DEF StagedInv
<1>4. CASE MarkIncomplete
    <2>1. command \in [op : {"STAGED", "MARKED"}, db : Databases]
        BY <1>4 DEF MarkIncomplete, InCommand, FormInv, Commands
    <2>2. command'.db = command.db /\ db' = db
        BY <1>4, <2>1 DEF MarkIncomplete
    <2> QED
        BY <1>3, <2>1, <2>2
<1>5. ASSUME UNCHANGED command, ~Promote
      PROVE  /\ Orderly(command'.db) /\ Held(command'.db) \subseteq Standing
             /\ db'.incarnation < command'.db.incarnation
             /\ command'.db.incarnation <= incarnations'
    BY <1>3, <1>5, IncarnationStep
<1>6. \/ MarkIncomplete \/ (UNCHANGED command /\ ~Promote)
      \/ \E b \in Backups : StageRestore(b)
    <2>1. \A b \in Backups : ~TakeSnapshot(b)
        BY DEF TakeSnapshot, Begin
    <2> QED
        BY <2>1, CommandStep
<1> QED
    BY <1>2, <1>4, <1>5, <1>6

\* A backup that retention keeps can be restored until it has gone through its list.
LEMMA RetireStep ==
    ASSUME FormInv, PutInv, RetireInv, [Next]_vars
    PROVE  RetireInv'
<1> SUFFICES ASSUME command'.op = "RETIRE", command'.retire # {}
             PROVE  \E k \in Backups \ command'.retire :
                        /\ db'.record[k] = "VERIFIED" /\ backup'[k].state = "GOOD"
                        /\ backup'[k].by = file'
    BY DEF RetireInv, Usable
<1> DEFINE Kept1(k) == /\ k \in Backups \ command'.retire
                       /\ db'.record[k] = "VERIFIED" /\ backup'[k].state = "GOOD"
                       /\ backup'[k].by = file'
<1>1. CASE RetireBackups
    <2>1. PICK keep \in Kept : /\ command' = [op |-> "RETIRE", retire |-> Candidates \ keep]
                               /\ UNCHANGED file
        BY <1>1 DEF RetireBackups, Begin
    <2>2. PICK c \in Candidates : c \notin keep
        BY <2>1
    <2>3. PICK k \in keep : c <= k
        BY <2>2 DEF Kept
    <2>4. k \in Backups /\ Usable(k) /\ k \notin command'.retire
        BY <2>1, <2>3 DEF Kept, Candidates
    <2> DEFINE record == [b \in Backups |-> IF Unusable(b) THEN "FAILED" ELSE db.record[b]]
    <2>5. db' = [db EXCEPT !.record = record]
        BY <1>1 DEF RetireBackups
    <2>6. record[k] = "VERIFIED"
        BY <2>4 DEF Usable, Unusable
    <2> HIDE DEF record
    <2>7. db'.record[k] = "VERIFIED"
        BY <2>5, <2>6 DEF FormInv, Databases
    <2>8. backup'[k] = backup[k]
        BY <1>1, <2>4 DEF RetireBackups, Usable
    <2> QED
        BY <2>1, <2>4, <2>7, <2>8 DEF Usable
<1>2. ASSUME NEW b \in Backups, RetireOne(b) PROVE \E k : Kept1(k)
    <2>1. command \in [op : {"RETIRE"}, retire : SUBSET Backups]
        BY <1>2 DEF RetireOne, InCommand, FormInv, Commands
    <2>2. b \in command.retire /\ command'.retire = command.retire \ {b} /\ UNCHANGED file
        BY <1>2, <2>1 DEF RetireOne
    <2>3. PICK k \in Backups \ command.retire : Usable(k)
        BY <2>1, <2>2 DEF RetireInv
    <2>4. k # b
        BY <2>2, <2>3
    <2>5. db' = [db EXCEPT !.record = [db.record EXCEPT ![b] = "DELETED"]]
        BY <1>2 DEF RetireOne
    <2>6. db'.record = [db.record EXCEPT ![b] = "DELETED"]
        BY <2>5 DEF FormInv, Databases
    <2>7. db'.record[k] = db.record[k]
        BY <2>4, <2>6, DatabaseForm DEF FormInv
    <2>8. backup'[k] = backup[k]
        BY <1>2, <2>4 DEF RetireOne, FormInv
    <2> QED
        BY <2>2, <2>3, <2>7, <2>8 DEF Usable
<1>3. ASSUME UNCHANGED <<db, backup, file, command>> PROVE \E k : Kept1(k)
    BY <1>3 DEF RetireInv, Usable
<1>4. ASSUME UNCHANGED command, command.op = "RETIRE" PROVE UNCHANGED <<db, backup, file>>
    <2>1. server = None /\ \A s \in Slots : put[s] = None
        BY <1>4 DEF PutInv
    <2>2. ASSUME NEW s \in Slots, SealCredential(s) \/ PutCredential(s) \/ RevokeCredential(s)
          PROVE  FALSE
        BY <2>1, <2>2 DEF SealCredential, PutCredential, RevokeCredential, Serving
    <2>3. ~GrantsMove
        BY <2>1, GrantsMoveAlone
    <2>4. ~(StartServer \/ StopServer)
        BY <1>4, <2>1 DEF StartServer, StopServer, NoCommand
    <2>5. ~(EndCommand \/ RotateClass \/ RewrapNext \/ ActivateKey)
        BY <1>4 DEF EndCommand, RotateClass, RewrapNext, ActivateKey, NoCommand, Begin, InCommand
    <2>6. ASSUME NEW k \in MasterKeys, RotateMaster(k) \/ InstallKey(k) PROVE FALSE
        BY <1>4, <2>6 DEF RotateMaster, InstallKey, Begin, NoCommand
    <2>7. ASSUME NEW b \in Backups, TakeSnapshot(b) \/ Damage(b) \/ StageRestore(b) PROVE FALSE
        BY <1>4, <2>7 DEF TakeSnapshot, Damage, StageRestore, Begin, NoCommand, InCommand
    <2>8. ASSUME NEW b \in Backups, RetireOne(b) PROVE FALSE
        <3>1. command \in [op : {"RETIRE"}, retire : SUBSET Backups]
            BY <2>8 DEF RetireOne, InCommand, FormInv, Commands
        <3>2. b \in command.retire /\ command'.retire = command.retire \ {b}
            BY <2>8, <3>1 DEF RetireOne
        <3> QED
            BY <1>4, <3>2
    <2>9. ~(WriteBackup \/ RecordBackup \/ RetireBackups)
        BY <1>4 DEF WriteBackup, RecordBackup, RetireBackups, Begin, NoCommand, InCommand
    <2>10. ~(MarkIncomplete \/ Promote \/ EndRestore \/ ReviewRestore)
        BY <1>4 DEF MarkIncomplete, Promote, EndRestore, ReviewRestore, NoCommand, InCommand
    <2> QED
        BY <2>2, <2>3, <2>4, <2>5, <2>6, <2>7, <2>8, <2>9, <2>10 DEF Next, GrantsMove, vars
<1>5. CASE UNCHANGED command
    BY <1>3, <1>4, <1>5
<1>6. CASE ~UNCHANGED command
    <2>1. RetireBackups \/ \E b \in Backups : RetireOne(b)
        <3>1. ~MarkIncomplete
            <4> SUFFICES ASSUME MarkIncomplete PROVE FALSE
                OBVIOUS
            <4>1. command \in [op : {"STAGED", "MARKED"}, db : Databases]
                BY DEF MarkIncomplete, InCommand, FormInv, Commands
            <4> QED
                BY <4>1 DEF MarkIncomplete
        <3>2. \A b \in Backups : ~TakeSnapshot(b) /\ ~StageRestore(b) /\ ~Damage(b)
            BY <1>6 DEF StageRestore, TakeSnapshot, Begin, Damage
        <3>3. ~(StartServer \/ StopServer \/ ReviewRestore \/ RewrapNext)
            BY <1>6 DEF StartServer, StopServer, ReviewRestore, RewrapNext
        <3>4. ~(EndCommand \/ RotateClass \/ ActivateKey \/ WriteBackup \/ RecordBackup
                \/ Promote \/ EndRestore)
            BY DEF EndCommand, RotateClass, ActivateKey, WriteBackup, RecordBackup, Promote,
                   EndRestore, NoCommand, Begin
        <3>5. \A k \in MasterKeys : ~RotateMaster(k) /\ ~InstallKey(k)
            BY <1>6 DEF RotateMaster, InstallKey, Begin
        <3>6. ~GrantsMove
            BY <1>6, GrantsMoveAlone
        <3>7. \A s \in Slots : ~SealCredential(s) /\ ~PutCredential(s) /\ ~RevokeCredential(s)
            BY <1>6 DEF SealCredential, PutCredential, RevokeCredential
        <3>8. ~UNCHANGED vars
            BY <1>6 DEF vars
        <3> QED
            BY <3>1, <3>2, <3>3, <3>4, <3>5, <3>6, <3>7, <3>8 DEF Next, GrantsMove
    <2> QED
        BY <1>1, <1>2, <2>1
<1> QED
    BY <1>5, <1>6

\* A deployment that was never used.
LEMMA InvInit == Init => Inv
<1> SUFFICES ASSUME Init PROVE Inv
    OBVIOUS
<1>1. FormInv
    BY FormInit
<1>2. Orderly(db)
    <2>1. KeysInv(db) /\ EpochInv(db)
        BY DEF Init, KeysInv, EpochInv, NothingLive, HasActive
    <2>2. OpensInv(db) /\ SealsInv(db)
        BY DEF Init, OpensInv, SealsInv
    <2> QED
        BY <2>1, <2>2 DEF Orderly
<1>3. SavedInv
    BY <1>1, <1>2 DEF Init, SavedInv, NoCommand, FormInv
<1>4. PutInv /\ StagedInv /\ RetireInv /\ NothingReturns
    BY DEF Init, PutInv, StagedInv, RetireInv, NoCommand, NothingReturns
<1> QED
    BY <1>1, <1>2, <1>3, <1>4 DEF Inv

\* Every step keeps the invariant.
LEMMA InvStep == Inv /\ [Next]_vars => Inv'
BY FormStep, SavedStep, PutStep, StagedStep, RetireStep, GrantsStep
DEF Inv, SavedInv, Orderly

-------------------------------------------------------------------------------
(* Theorems.                                                               *)

\* The inductive invariant of credentials, keys, backups and restores: every database
\* there is, the present one, a backup's or a staged one, has its keys in order, and
\* what a server has sealed or a command is about to do still fits the database it
\* will be done to (server/modules/connectors/credentials.ts, server/operations).
THEOREM Invariance == Spec => []Inv
<1>1. Init => Inv
    BY InvInit
<1>2. Inv /\ [Next]_vars => Inv'
    BY InvStep
<1> QED
    BY <1>1, <1>2, PTL DEF Spec

\* The keys are in order and, while no rotation is under way, open every credential
\* that is not revoked, however rotations, rewraps, restores and kills follow each
\* other (rotateCredentialClassKey, rotateMasterWrappingKey, sealCredential).
THEOREM CredentialsStayOpen == Spec => []KeysOpenAll
<1>1. Inv => KeysOpenAll
    <2> SUFFICES ASSUME Inv PROVE TypeOK /\ ActiveOpensAll
        BY DEF KeysOpenAll
    <2> DEFINE Actives == {v \in Versions : Key(v).state = "ACTIVE"}
    <2>1. db \in Databases /\ FormInv /\ KeysInv(db) /\ OpensInv(db) /\ EpochInv(db)
        BY DEF Inv, FormInv, SavedInv, Orderly
    <2>2. Cardinality(Actives) <= 1
        <3>1. CASE Actives = {}
            BY <3>1, FS_EmptySet
        <3>2. CASE Actives # {}
            <4>1. PICK v \in Actives : TRUE
                BY <3>2
            <4>2. Actives = {v}
                BY <2>1, <4>1 DEF KeysInv, Key
            <4>3. Cardinality({v}) = 1
                BY FS_Singleton
            <4> HIDE DEF Actives
            <4>4. Cardinality(Actives) = 1
                BY <4>2, <4>3
            <4> QED
                BY <4>4
        <3> QED
            BY <3>1, <3>2
    <2>3. \A v \in Versions : Key(v).state \in {"NONE", "PENDING", "ACTIVE", "RETIRED"}
        <3>1. \A v \in Versions : Key(v).state # "NONE" =>
                 Key(v) \in [state : {"PENDING", "ACTIVE", "RETIRED"}, raw : Nat,
                            by : MasterKeys, name : {ServerName, CommandName}]
            BY <2>1, RowForms DEF Key
        <3> QED
            BY <3>1
    <2>4. InRotation => /\ Key(db.rotation.from).state = "ACTIVE"
                        /\ Key(db.rotation.to).state = "PENDING"
                        /\ db.rotation.last \in {0} \cup Slots
        BY <2>1, DatabaseForm DEF KeysInv, InRotation, Key, Rotations
    <2>5. \A s \in Slots : db.credential[s].state \in {"NONE", "LIVE", "REVOKED"}
        <3>1. \A s \in Slots : db.credential[s].state # "NONE" => db.credential[s] \in SealedRows
            BY <2>1, RowForms
        <3> QED
            BY <3>1 DEF SealedRows
    <2>6. /\ db.epoch \in Nat \ {0} /\ \A g \in Grants : db.under[g] \in 0..db.epoch
          /\ db.incarnation \in 0..incarnations
        BY <2>1, DatabaseForm DEF Inv, SavedInv, FormInv, EpochInv
    <2>7. \A b \in Backups :
             /\ db.record[b] \in {"NONE", "VERIFIED", "FAILED", "DELETED"}
             /\ backup[b].state \in {"NONE", "GOOD", "CORRUPT", "OPAQUE"}
        BY <2>1, DatabaseForm, RowForms DEF Records
    <2>8. /\ server \in MasterKeys \cup {None} /\ file \in MasterKeys
          /\ command.op # "NONE" => server = None
        BY DEF Inv, FormInv, PutInv
    <2>9. ActiveOpensAll
        BY <2>1 DEF OpensInv, ActiveOpensAll, InRotation, Key
    <2> QED
        BY <2>2, <2>3, <2>4, <2>5, <2>6, <2>7, <2>8, <2>9 DEF TypeOK
<1> QED
    BY <1>1, Invariance, PTL

\* A grant whose row a restore ends, or that is bound to an epoch, does not hold again once it
\* has ended, whatever backup is restored, made under whatever epoch, and however often; of
\* those a restore leaves as they were nothing is said (invalidateAuthority, restore.ts).
THEOREM NothingEverReturns == Spec => []NothingReturns
<1>1. Inv => NothingReturns
    BY DEF Inv
<1> QED
    BY <1>1, Invariance, PTL

\* A secret sealed before its credential was revoked is not stored after, and no rotation
\* moves the row: it is sealed for a revision before its own, so that it does not open
\* (put, credentials.ts, and rotateCredentialClassKey).
THEOREM RevokedCredentialsStay == Spec => RevokedStays
<1> DEFINE Stays == db'.incarnation = db.incarnation => \A s \in Slots :
               db.credential[s].state = "REVOKED" => db'.credential[s] = db.credential[s]
<1>1. Inv /\ [Next]_vars => [Stays]_vars
    <2> SUFFICES ASSUME Inv, [Next]_vars, db'.incarnation = db.incarnation, NEW s \in Slots,
                        db.credential[s].state = "REVOKED"
                 PROVE  db'.credential[s] = db.credential[s]
        OBVIOUS
    <2>1. FormInv /\ Orderly(db) /\ PutInv /\ StagedInv
        BY DEF Inv, SavedInv
    <2>2. ~Promote
        <3> SUFFICES ASSUME Promote PROVE FALSE
            OBVIOUS
        <3>1. db.incarnation < db'.incarnation /\ db.incarnation \in Nat
            BY <2>1, Promoted, DatabaseForm DEF FormInv
        <3> QED
            BY <3>1
    <2>3. ~StillAsRead(s)
        BY DEF StillAsRead
    <2> QED
        BY <2>1, <2>2, <2>3, CredentialStep
<1>2. Spec => [][Stays]_vars
    BY <1>1, Invariance, PTL DEF Spec
<1> QED
    BY <1>2 DEF RevokedStays

\* A record that is marked deleted was marked by retention, or is of another database.
LEMMA DeletedBy ==
    ASSUME FormInv, [Next]_vars, NEW b \in Backups,
           db.record[b] = "VERIFIED", db'.record[b] = "DELETED"
    PROVE  RetireOne(b) \/ Promote
<1>0. db \in Databases /\ db.record \in [Backups -> Records]
    BY DatabaseForm DEF FormInv
<1>1. db'.record # db.record /\ db' # db
    OBVIOUS
<1>2. ~UNCHANGED vars
    BY <1>1 DEF vars
<1>3. ~(StartServer \/ StopServer \/ EndCommand)
    BY <1>0, <1>1 DEF StartServer, StopServer, EndCommand, outside, Databases
<1>4. ~GrantsMove
    BY <1>1, GrantsMoveAlone
<1>5. ASSUME NEW s \in Slots, SealCredential(s) \/ PutCredential(s) \/ RevokeCredential(s)
      PROVE  FALSE
    BY <1>0, <1>1, <1>5 DEF SealCredential, PutCredential, RevokeCredential, outside, Databases
<1>6. ~(RotateClass \/ RewrapNext \/ ActivateKey)
    BY <1>0, <1>1 DEF RotateClass, RewrapNext, ActivateKey, Activated, Databases
<1>7. ASSUME NEW k \in MasterKeys, RotateMaster(k) \/ InstallKey(k) PROVE FALSE
    BY <1>0, <1>1, <1>7 DEF RotateMaster, InstallKey, Databases
<1>8. ASSUME NEW x \in Backups, TakeSnapshot(x) \/ Damage(x) \/ StageRestore(x) PROVE FALSE
    BY <1>1, <1>8 DEF TakeSnapshot, Damage, StageRestore
<1>9. ASSUME NEW x \in Backups, RetireOne(x) PROVE RetireOne(b)
    <2>1. db' = [db EXCEPT !.record = [db.record EXCEPT ![x] = "DELETED"]]
        BY <1>9 DEF RetireOne
    <2>2. db'.record = [db.record EXCEPT ![x] = "DELETED"]
        BY <1>0, <2>1 DEF Databases
    <2>3. x = b
        BY <1>0, <2>2
    <2> QED
        BY <1>9, <2>3
<1>10. ~WriteBackup
    BY <1>1 DEF WriteBackup
<1>11. ~RecordBackup
    <2> SUFFICES ASSUME RecordBackup, db' # db PROVE FALSE
        BY <1>1
    <2>1. db' = [db EXCEPT !.record = [db.record EXCEPT ![command.b] = "VERIFIED"]]
        BY DEF RecordBackup
    <2>2. db'.record = [db.record EXCEPT ![command.b] = "VERIFIED"]
        BY <1>0, <2>1 DEF Databases
    <2> QED
        BY <1>0, <2>2
<1>12. ~RetireBackups
    <2> SUFFICES ASSUME RetireBackups PROVE FALSE
        OBVIOUS
    <2> DEFINE record == [x \in Backups |-> IF Unusable(x) THEN "FAILED" ELSE db.record[x]]
    <2>1. db' = [db EXCEPT !.record = record]
        BY DEF RetireBackups
    <2>2. record[b] # "DELETED"
        OBVIOUS
    <2> HIDE DEF record
    <2>3. db'.record = record
        BY <1>0, <2>1 DEF Databases
    <2> QED
        BY <2>2, <2>3
<1>13. ~(MarkIncomplete \/ EndRestore \/ ReviewRestore)
    BY <1>1 DEF MarkIncomplete, EndRestore, ReviewRestore
<1> QED
    BY <1>2, <1>3, <1>4, <1>5, <1>6, <1>7, <1>8, <1>9, <1>10, <1>11, <1>12, <1>13
    DEF Next, GrantsMove

\* Retention never takes the last backup that could be restored, killed runs and
\* damaged, unreadable or unrecorded files included (enforceBackupRetention).
THEOREM UsableBackupsAreRetained == Spec => RetainsUsable
<1> DEFINE Retains == db'.incarnation = db.incarnation => \A b \in Backups :
               (db.record[b] = "VERIFIED" /\ db'.record[b] = "DELETED") =>
                 \E other \in Backups \ {b} :
                    db'.record[other] = "VERIFIED" /\ backup'[other].state = "GOOD"
                    /\ backup'[other].by = file
<1>1. Inv /\ [Next]_vars => [Retains]_vars
    <2> SUFFICES ASSUME Inv, [Next]_vars, db'.incarnation = db.incarnation, NEW b \in Backups,
                        db.record[b] = "VERIFIED", db'.record[b] = "DELETED"
                 PROVE  \E other \in Backups \ {b} :
                            db'.record[other] = "VERIFIED" /\ backup'[other].state = "GOOD"
                            /\ backup'[other].by = file
        OBVIOUS
    <2>1. FormInv /\ StagedInv /\ RetireInv
        BY DEF Inv
    <2>2. ~Promote
        <3> SUFFICES ASSUME Promote PROVE FALSE
            OBVIOUS
        <3>1. db.incarnation < db'.incarnation /\ db.incarnation \in Nat
            BY <2>1, Promoted, DatabaseForm DEF FormInv
        <3> QED
            BY <3>1
    <2>3. RetireOne(b)
        BY <2>1, <2>2, DeletedBy
    <2>4. PICK k \in Backups \ command.retire : Usable(k)
        BY <2>1, <2>3 DEF RetireInv, RetireOne, InCommand
    <2>5. k # b
        BY <2>3, <2>4 DEF RetireOne
    <2>6. db'.record = [db.record EXCEPT ![b] = "DELETED"]
        BY <2>1, <2>3 DEF RetireOne, FormInv, Databases
    <2>7. db'.record[k] = db.record[k]
        BY <2>1, <2>5, <2>6, DatabaseForm DEF FormInv
    <2>8. backup'[k] = backup[k]
        BY <2>1, <2>3, <2>5 DEF RetireOne, FormInv
    <2> QED
        BY <2>4, <2>5, <2>7, <2>8 DEF Usable
<1>2. Spec => [][Retains]_vars
    BY <1>1, Invariance, PTL DEF Spec
<1> QED
    BY <1>2 DEF RetainsUsable
===============================================================================
