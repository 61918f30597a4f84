---------------------------- MODULE ContextEnvelope ----------------------------
(***************************************************************************)
(* The bootstrap envelope of a run: which context references it carries,   *)
(* and which are omitted (assembleBootstrapEnvelope of                     *)
(* context/context-recipes.ts), and the conditions under which it may be   *)
(* stored with the run (presets/configuration-resolver.ts).                *)
(*                                                                         *)
(* A candidate is [category, reference, key, standing, sequence, preview]: *)
(* `standing' is how its authority and its availability were observed,     *)
(* `sequence' orders checkpoints, `preview' is a size in characters of one *)
(* byte.  Candidates stand in the order into which they are sorted, and are*)
(* referred to by their position.  A recipe is [limit, total, bytes,       *)
(* policy].  The freshness of a reference is a label and left out.         *)
(***************************************************************************)
EXTENDS Naturals, Sequences, FiniteSets

\* What is told apart in storage: the category and the reference.
Name(c) == <<c.category, c.reference>>

\* The positions that are kept, from the first on.
Sift(cs, Keeps(_, _)) ==
    LET kept[i \in 0 .. Len(cs)] ==
            IF i = 0 THEN {}
            ELSE kept[i - 1] \cup (IF Keeps(kept[i - 1], i) THEN {i} ELSE {})
    IN  kept[Len(cs)]

Standing(cs) == {i \in DOMAIN cs : cs[i].standing = "AUTHORIZED"}
Of(cs, category) == {i \in Standing(cs) : cs[i].category = category}

\* applyPredecessorPolicy: of what predecessors left nothing, the last checkpoint, or
\* all the evidence.
Admitted(recipe, cs) ==
    LET checkpoints == Of(cs, "CHECKPOINT")
        latest == {i \in checkpoints : \A j \in checkpoints :
                      \/ cs[i].sequence > cs[j].sequence
                      \/ cs[i].sequence = cs[j].sequence /\ i <= j}
    IN  (Standing(cs) \ (checkpoints \cup Of(cs, "EVIDENCE")))
          \cup (IF recipe.policy = "LATEST_CHECKPOINT" THEN latest ELSE {})
          \cup (IF recipe.policy = "VERIFIED_EVIDENCE" THEN Of(cs, "EVIDENCE") ELSE {})

\* Of those with one key, or one name, the first.
Distinct(cs, P) ==
    Sift(cs, LAMBDA kept, i :
        i \in P /\ \A j \in kept : cs[j].key # cs[i].key /\ Name(cs[j]) # Name(cs[i]))

InCategory(cs, P, category) == Cardinality({i \in P : cs[i].category = category})

\* Slip: the limit bounds what is already in, and not what may come.
SelectedOver(recipe, cs, P) ==
    Sift(cs, LAMBDA kept, i :
        /\ i \in P /\ Cardinality(kept) < recipe.total
        /\ InCategory(cs, kept, cs[i].category) <= recipe.limit[cs[i].category])

\* As many as the limits of the categories and of the recipe allow.
Selected(recipe, cs, P) ==
    Sift(cs, LAMBDA kept, i :
        /\ i \in P /\ Cardinality(kept) < recipe.total
        /\ InCategory(cs, kept, cs[i].category) < recipe.limit[cs[i].category])

\* What those of P that are among the first i take together, for each i.
Taken(P, size, n) ==
    LET taken[i \in 0 .. n] ==
            IF i = 0 THEN 0 ELSE taken[i - 1] + (IF i \in P THEN size[i] ELSE 0)
    IN  taken

\* truncateUtf8: each preview takes what the ones before it have left.
Previews(recipe, cs, P) ==
    LET taken == Taken(P, [i \in P |-> cs[i].preview], Len(cs))
        Left(i) == IF taken[i - 1] < recipe.bytes THEN recipe.bytes - taken[i - 1] ELSE 0
    IN  [i \in P |-> IF cs[i].preview <= Left(i) THEN cs[i].preview ELSE Left(i)]

\* A duplicate of a reference that is in is not among the omissions.
Assemble(recipe, cs) ==
    LET admitted == Admitted(recipe, cs)
        distinct == Distinct(cs, admitted)
        in == Selected(recipe, cs, distinct)
    IN  [references |-> in, previews |-> Previews(recipe, cs, in),
         omissions |-> {i \in DOMAIN cs \ in :
             i \in admitted \ distinct => \A j \in in : Name(cs[j]) # Name(cs[i])}]

-------------------------------------------------------------------------------
\* prepareRunConfigurationSnapshot: no name has two rows.
RowsDistinct(cs, envelope) ==
    \A i, j \in envelope.references \cup envelope.omissions :
        i # j => Name(cs[i]) # Name(cs[j])

\* persistPreparedRunConfigurationSnapshotInTransaction: the stored limits.
WithinBudget(recipe, cs, envelope) ==
    LET in == envelope.references IN
    /\ Cardinality(in) <= recipe.total
    /\ Taken(in, envelope.previews, Len(cs))[Len(cs)] <= recipe.bytes
    /\ \A i \in in : InCategory(cs, in, cs[i].category) <= recipe.limit[cs[i].category]
================================================================================
