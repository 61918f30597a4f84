---------------------------- MODULE MutationGuard ----------------------------
(***************************************************************************)
(* What the mutation guard of a Coordination Record promises: a mutating   *)
(* run reserves a free record or, if a member overrides the reservation,   *)
(* joins the run that reserved it while that run is at work; it leaves     *)
(* once, when it ends; the record is free again exactly when the last run  *)
(* has left.                                                               *)
(***************************************************************************)
CONSTANTS Mutators, Records, RecordOf

VARIABLES
    owners,  \* the run that reserved a record, as a set of at most one
    members, \* the runs at work under that reservation
    left     \* the runs that have ended

guardState == <<owners, members, left>>

Init ==
    /\ owners = [c \in Records |-> {}]
    /\ members = [c \in Records |-> {}]
    /\ left = {}

Fresh(r) == r \notin left /\ r \notin members[RecordOf[r]]

Reserve(r) ==
    LET c == RecordOf[r]
    IN  /\ Fresh(r)
        /\ owners[c] = {}
        /\ owners' = [owners EXCEPT ![c] = {r}]
        /\ members' = [members EXCEPT ![c] = {r}]
        /\ UNCHANGED left

Join(r) ==
    LET c == RecordOf[r]
    IN  /\ Fresh(r)
        /\ owners[c] # {}
        /\ owners[c] \subseteq members[c]
        /\ members' = [members EXCEPT ![c] = @ \cup {r}]
        /\ UNCHANGED <<owners, left>>

Leave(r) ==
    LET c == RecordOf[r]
    IN  /\ r \in members[c]
        /\ members' = [members EXCEPT ![c] = @ \ {r}]
        /\ owners' = IF members[c] = {r} THEN [owners EXCEPT ![c] = {}] ELSE owners
        /\ left' = left \cup {r}

Next == \E r \in Mutators : Reserve(r) \/ Join(r) \/ Leave(r)

Spec == Init /\ [][Next]_guardState

==============================================================================
