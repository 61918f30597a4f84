---- MODULE MCMaintenance ----
(***************************************************************************)
(* Maintenance for TLC: which operations a behaviour uses, and of how many *)
(* credentials and backups.                                                *)
(***************************************************************************)
EXTENDS Maintenance, TLC

Uses(ops, slots, backups) == [ops |-> ops, slots |-> slots, backups |-> backups]

MCWorkloads ==
    {Uses({"PUT", "REVOKE", "ROTATE_CLASS"}, {1, 2}, {}),
     Uses({"PUT", "ROTATE_CLASS", "ROTATE_MASTER", "INSTALL"}, {1, 2}, {}),
     Uses({"PUT", "REVOKE", "ROTATE_CLASS", "BACKUP", "RESTORE"}, {1, 2}, {1}),
     Uses({"BACKUP", "RETIRE", "DAMAGE", "INSTALL"}, {}, {1, 2, 3}),
     Uses({"BACKUP", "RETIRE", "DAMAGE", "RESTORE"}, {}, {1, 2, 3}),
     Uses({"GRANT", "BACKUP", "RESTORE", "KILL"}, {}, {1, 2})}

MCRotation == {Uses({"ROTATE_CLASS"}, {}, {})}

\* Nothing tells two master keys apart.
Symmetry == Permutations(MasterKeys)
====
