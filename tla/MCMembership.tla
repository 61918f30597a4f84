------------------------------ MODULE MCMembership ------------------------------
(* Membership for TLC.  No definition chooses among the commands under way. *)
EXTENDS Membership, TLC

Symmetry == Permutations(Clients)

================================================================================
