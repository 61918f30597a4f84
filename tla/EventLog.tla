------------------------------- MODULE EventLog -------------------------------
(***************************************************************************)
(* What the outbox of a runner and the Execution Authority promise of the  *)
(* events of a run: they are applied in the order in which they were       *)
(* observed, each once and none left out, and the runner settles each      *)
(* once, never before its fate is decided: what is settled when it has not *)
(* been applied is never applied.                                          *)
(***************************************************************************)
EXTENDS Naturals, Sequences

VARIABLES
    book,               \* what the runner knows of each event it observed
    log                 \* the events applied, in order

Init == book = <<>> /\ log = <<>>

Observe ==
    /\ book' = Append(book, "OPEN")
    /\ UNCHANGED log

Apply ==
    LET next == Len(log) + 1 IN
    /\ next <= Len(book) /\ book[next] = "OPEN"
    /\ log' = Append(log, next)
    /\ UNCHANGED book

Write(e, state) ==
    /\ book[e] = "OPEN"
    /\ book' = [book EXCEPT ![e] = state]
    /\ UNCHANGED log

Acknowledge(e) == Write(e, "ACKNOWLEDGED")
Reject(e) == e > Len(log) /\ Write(e, "PERMANENTLY_REJECTED")

Next ==
    \/ Observe
    \/ Apply
    \/ \E e \in 1..Len(book) : Acknowledge(e) \/ Reject(e)

Spec == Init /\ [][Next]_<<book, log>>
===============================================================================
