------------------------------ MODULE LaunchOnce ------------------------------
(***************************************************************************)
(* What the launch of an attempt promises: an attempt is one process.  Its *)
(* permit is consumed at most once, only then may its process be started,  *)
(* the process is started at most once, and it ends for good.              *)
(***************************************************************************)
CONSTANT Attempts

VARIABLE stage      \* attempt -> how far its launch has come

Stages == {"WAITING", "PERMITTED", "STARTED", "ENDED"}

Init == stage = [a \in Attempts |-> "WAITING"]

Move(a, from, to) ==
    /\ stage[a] = from
    /\ stage' = [stage EXCEPT ![a] = to]

Permit(a) == Move(a, "WAITING", "PERMITTED")
Start(a) == Move(a, "PERMITTED", "STARTED")
End(a) == Move(a, "STARTED", "ENDED")

Next == \E a \in Attempts : Permit(a) \/ Start(a) \/ End(a)

Spec == Init /\ [][Next]_stage
===============================================================================
