------------------------------ MODULE MCConnectors ------------------------------
(* Connectors for TLC.  No definition chooses among calls or keys. *)
EXTENDS Connectors, TLC

Symmetry == Permutations(Clients) \cup Permutations(Keys)

================================================================================
