----------------------------- MODULE RunnerLaunch -----------------------------
(***************************************************************************)
(* How an attempt that the server has committed becomes one process on its *)
(* runner.                                                                 *)
(*                                                                         *)
(* Server: the table runner_dispatch_outbox and the attempt's permit, on   *)
(* disk (execution-authority.ts), and the runner's channel in memory       *)
(* (adapters/wss/runner-channel.ts), which sends the launch, keeps it      *)
(* pending until it is acknowledged and sends it again on each connection. *)
(* Runner: the table local_processes and the event outbox, on disk, and    *)
(* the handlers of its WSS client (runner/transport/wss-client.ts): one    *)
(* promise chain per connection runs them one after the other, each until  *)
(* it has finished.  The handler of a launch prepares the worktree,        *)
(* reserves the attempt, asks the server to consume the permit, waits for  *)
(* the answer and starts the process (runner/supervisor.ts).               *)
(*                                                                         *)
(* The handshake is folded into Connect (module RunnerEvents has it), and  *)
(* the permit's own rules are those of module ExecutionAuthority: here the *)
(* server may refuse it at any time.  A process that starts is reported    *)
(* and acknowledged in the turn in which it starts.                        *)
(***************************************************************************)
EXTENDS Integers, Sequences, FiniteSets

CONSTANTS
    Attempts,           \* attempts committed for the runner
    MaxConnections,     \* connections the runner opens
    MaxRestarts         \* restarts of the runner's daemon and of the server

ASSUME BoundsAssumption ==
    /\ IsFiniteSet(Attempts)
    /\ MaxConnections \in Nat
    /\ MaxRestarts \in Nat

VARIABLES
    row,                \* attempt -> status of its row in runner_dispatch_outbox
    permit,             \* attempt -> state of its dispatch permit
    expired,            \* attempts whose permit and delivery have expired
    overdue,            \* attempts whose run has passed its deadline
    signing,            \* committed attempts whose permit is being signed
    pending,            \* channel: deliveries not yet acknowledged
    buffered,           \* connection: deliveries buffered by the socket
    queued,             \* connection: deliveries that the socket refused
    attached,           \* the channel has a connection for the runner
    up,                 \* permits to consume: on their way, or in the session's chain
    link,               \* state of the client's connection
    conn,               \* number of the client's latest connection
    inbox,              \* connection -> frames on their way to, or in, its chain
    preparing,          \* handlers of launches that prepare their process
    consuming,          \* handlers of launches that wait for their permit
    watched,            \* attempts whose process the daemon waits for
    local,              \* attempt -> its row in local_processes
    reported,           \* attempt -> events put into the outbox
    acks,               \* deliveries whose acknowledgement is in the outbox
    running,            \* attempt -> whether its process runs
    spawned,            \* attempt -> whether a process was ever started
    issued,             \* number of the last request of the runner
    bootedAt,           \* that number when the daemon was last started
    restarts            \* number of restarts, of either side

diskVars == <<row, permit, expired, overdue>>
channelVars == <<pending, buffered, queued>>
handlerVars == <<preparing, consuming, issued, bootedAt>>
processVars == <<watched, local, reported, acks, running, spawned>>
vars == <<diskVars, signing, channelVars, attached, up, link, conn, inbox,
          handlerVars, processVars, restarts>>

Connections == 1..MaxConnections
RowStates == {"NONE", "PENDING", "DISPATCHED", "ACKNOWLEDGED"}
PermitStates == {"NONE", "ISSUED", "CONSUMED", "EXPIRED", "REVOKED"}
ProcessStates ==
    {"NONE", "RESERVED", "STARTING", "STARTED", "FAILED_TO_START", "EXITED"}
Events == {"FAILED_TO_START", "PROCESS_STARTED", "ENDED"}
Undelivered == {"PENDING", "DISPATCHED"}

Launch(a) == [kind |-> "LAUNCH", attempt |-> a]
\* Slip: the answer's disposition is not looked at.
AnswerGranted(n, a, g) == [kind |-> "ANSWER", attempt |-> a, request |-> n, granted |-> TRUE]
Answer(n, a, g) == [kind |-> "ANSWER", attempt |-> a, request |-> n, granted |-> g]
Frames ==
    [kind : {"LAUNCH"}, attempt : Attempts]
        \cup [kind : {"ANSWER"}, attempt : Attempts, request : Nat, granted : BOOLEAN]
Requests == [request : Nat, attempt : Attempts]
Preparations == [on : Connections, attempt : Attempts]
Consumptions == [on : Connections, attempt : Attempts, request : Nat, reservation : Nat]
\* reservation: the request for which the row was inserted.
NoRow == [state |-> "NONE", reservation |-> 0]
LocalRows ==
    {NoRow} \cup [state : ProcessStates \ {"NONE"}, reservation : Nat \ {0}]

-------------------------------------------------------------------------------
\* Outcomes of the server's send on a Bun socket; a frame that is ENQUEUED is sent
\* when the socket drains.
Outcomes == {"SENT", "ENQUEUED", "DROPPED", "RETRY"}
With(outcome, os) == {a \in DOMAIN outcome : outcome[a] \in os}

\* Delivery ids are random: resendPending sorts by them, so any order may result.
Orders(S) ==
    {s \in [1..Cardinality(S) -> S] : \A a \in S : \E i \in DOMAIN s : s[i] = a}

\* Of the frames sent over a connection that breaks, the first ones have arrived.
Prefixes(s) == {SubSeq(s, 1, n) : n \in 0..Len(s)}
Cut ==
    IF link = "ACTIVE"
    THEN \E p \in Prefixes(inbox[conn]) : inbox' = [inbox EXCEPT ![conn] = p]
    ELSE UNCHANGED inbox

\* What the server sends to its connection reaches the client while its socket is open.
Receives(frames) ==
    inbox' = IF link = "ACTIVE"
             THEN [inbox EXCEPT ![conn] = @ \o frames]
             ELSE inbox

-------------------------------------------------------------------------------
(* The server.                                                             *)

\* A launch or a further attempt is committed: its permit is issued and its row
\* inserted.  The permit is then signed for the delivery.
Commit(a) ==
    /\ row[a] = "NONE"
    /\ row' = [row EXCEPT ![a] = "PENDING"]
    /\ permit' = [permit EXCEPT ![a] = "ISSUED"]
    /\ signing' = signing \cup {a}
    /\ UNCHANGED <<expired, overdue, channelVars, attached, up, link, conn, inbox,
                   handlerVars, processVars, restarts>>

\* The delivery is sent, or at least made pending; an expired one is neither.
Dispatch(a) ==
    /\ a \in signing
    /\ signing' = signing \ {a}
    /\ \/ /\ a \in expired
          /\ UNCHANGED <<row, channelVars, inbox>>
       \/ /\ a \notin expired
          /\ pending' = pending \cup {a}
          /\ \/ /\ ~attached
                /\ UNCHANGED <<row, buffered, queued, inbox>>
             \/ /\ attached
                /\ \E o \in Outcomes :
                      /\ Receives(IF o \in {"SENT", "ENQUEUED"} THEN <<Launch(a)>> ELSE <<>>)
                      /\ buffered' = IF o = "ENQUEUED" THEN buffered \cup {a} ELSE buffered
                      /\ queued' = IF o = "RETRY" THEN queued \cup {a} ELSE queued
                      /\ row' = IF o = "SENT" THEN [row EXCEPT ![a] = "DISPATCHED"] ELSE row
    /\ UNCHANGED <<permit, expired, overdue, attached, up, link, conn,
                   handlerVars, processVars, restarts>>

\* The socket drained: what it buffered counts as sent once nothing is left in it, and
\* what it refused is sent now.  markSent makes a delivery pending, acknowledged or not.
Drain ==
    /\ attached /\ buffered \cup queued # {}
    /\ \E outcome \in [queued -> Outcomes], sent \in {buffered, {}} :
          /\ \E s \in Orders(With(outcome, {"SENT", "ENQUEUED"})) :
                Receives([i \in DOMAIN s |-> Launch(s[i])])
          /\ pending' = pending \cup sent \cup With(outcome, {"SENT"})
          /\ buffered' = (buffered \ sent) \cup With(outcome, {"ENQUEUED"})
          /\ queued' = With(outcome, {"RETRY"})
    /\ UNCHANGED <<diskVars, signing, attached, up, link, conn,
                   handlerVars, processVars, restarts>>

\* The server learns that the connection is gone.
Detach ==
    /\ link = "DOWN" /\ attached
    /\ attached' = FALSE
    /\ up' = <<>> /\ buffered' = {} /\ queued' = {}
    /\ UNCHANGED <<diskVars, signing, pending, link, conn, inbox,
                   handlerVars, processVars, restarts>>

\* The session's chain takes a CONSUME_DISPATCH_PERMIT and answers it in the same
\* turn.  The server may find the permit's facts moved, and the send may fail.
Consume ==
    /\ attached /\ up # <<>>
    /\ up' = Tail(up)
    /\ LET r == Head(up)
           a == r.attempt
           Becomes(state) == permit' = [permit EXCEPT ![a] = state]
           Answered(granted) ==
               \/ Receives(<<Answer(r.request, a, granted)>>)
               \/ UNCHANGED inbox
       IN  \/ /\ permit[a] = "ISSUED" /\ a \notin expired
              /\ Becomes("CONSUMED") /\ Answered(TRUE)
           \/ /\ permit[a] = "ISSUED" /\ a \notin expired
              /\ Becomes("REVOKED") /\ Answered(FALSE)
           \/ /\ permit[a] = "ISSUED" /\ a \in expired
              /\ Becomes("EXPIRED") /\ Answered(FALSE)
           \/ /\ permit[a] # "ISSUED"
              /\ UNCHANGED permit /\ Answered(FALSE)
    /\ UNCHANGED <<row, expired, overdue, signing, channelVars, attached, link, conn,
                   handlerVars, processVars, restarts>>

\* The runner's acknowledgement is taken: the row is written and the delivery leaves
\* the channel.  The answer to the runner may be lost, and the runner sends it again.
ReceiveAck(a) ==
    /\ attached /\ a \in acks
    /\ ~(row[a] = "PENDING" /\ a \in expired)
    /\ row' = [row EXCEPT ![a] = "ACKNOWLEDGED"]
    /\ pending' = pending \ {a}
    /\ acks' \in {acks, acks \ {a}}
    /\ UNCHANGED <<permit, expired, overdue, signing, buffered, queued, attached, up,
                   link, conn, inbox, handlerVars, watched, local, reported, running,
                   spawned, restarts>>

\* A row that was never marked DISPATCHED would be dispatched now, which the CHECK on
\* its expiry refuses: the handler throws and the server closes the connection.
FailAck(a) ==
    /\ attached /\ a \in acks
    /\ row[a] = "PENDING" /\ a \in expired
    /\ attached' = FALSE /\ link' = "DOWN"
    /\ up' = <<>> /\ buffered' = {} /\ queued' = {}
    /\ Cut
    /\ UNCHANGED <<diskVars, signing, pending, conn, handlerVars, processVars, restarts>>

\* APPLY_REVOCATION revokes unused permits.
Revoke(a) ==
    /\ permit[a] = "ISSUED"
    /\ permit' = [permit EXCEPT ![a] = "REVOKED"]
    /\ UNCHANGED <<row, expired, overdue, signing, channelVars, attached, up, link, conn,
                   inbox, handlerVars, processVars, restarts>>

\* The clock passes the permit's expiry, or the run's deadline.
Expire(a) ==
    /\ row[a] # "NONE"
    /\ expired' = expired \cup {a}
    /\ UNCHANGED <<row, permit, overdue, signing, channelVars, attached, up, link, conn,
                   inbox, handlerVars, processVars, restarts>>

PassDeadline(a) ==
    /\ row[a] # "NONE"
    /\ overdue' = overdue \cup {a}
    /\ UNCHANGED <<row, permit, expired, signing, channelVars, attached, up, link, conn,
                   inbox, handlerVars, processVars, restarts>>

\* Slip: a delivery that was sent counts as delivered.
PrimedUnsent == {a \in Attempts : row[a] = "PENDING" /\ a \notin expired}

\* prime() signs the permits of the undelivered rows again and makes pending those
\* that have not expired.
Primed == {a \in Attempts : row[a] \in Undelivered /\ a \notin expired}

ServerRestart ==
    /\ restarts < MaxRestarts /\ restarts' = restarts + 1
    /\ signing' = {} /\ pending' = Primed
    /\ buffered' = {} /\ queued' = {}
    /\ attached' = FALSE /\ up' = <<>> /\ link' = "DOWN"
    /\ Cut
    /\ UNCHANGED <<diskVars, conn, handlerVars, processVars>>

-------------------------------------------------------------------------------
(* The connection.                                                         *)

\* The runner connects: the former session is fenced, and after the welcome the
\* channel sends everything pending.
Connect ==
    /\ link = "DOWN" /\ conn < MaxConnections
    /\ link' = "ACTIVE" /\ conn' = conn + 1
    /\ attached' = TRUE /\ up' = <<>>
    /\ \E outcome \in [pending \ expired -> Outcomes] :
          /\ \E s \in Orders(With(outcome, {"SENT", "ENQUEUED"})) :
                inbox' = [inbox EXCEPT ![conn + 1] = [i \in DOMAIN s |-> Launch(s[i])]]
          /\ buffered' = With(outcome, {"ENQUEUED"})
          /\ queued' = With(outcome, {"RETRY"})
    /\ UNCHANGED <<diskVars, signing, pending, handlerVars, processVars, restarts>>

\* The connection breaks: of what was sent over it both sides have received a part.
Break ==
    /\ link = "ACTIVE"
    /\ link' = "DOWN"
    /\ up' \in Prefixes(up)
    /\ Cut
    /\ UNCHANGED <<diskVars, signing, channelVars, attached, conn,
                   handlerVars, processVars, restarts>>

-------------------------------------------------------------------------------
(* The runner's handlers of launches.                                      *)

\* No handler runs on connection c: its chain may take the next frame.
Free(c) == \A h \in preparing \cup consuming : h.on # c

\* Events are sent through the outbox, which takes none while the link is down.
Report(a, e) ==
    reported' = IF link = "ACTIVE" THEN [reported EXCEPT ![a] = @ \cup {e}] ELSE reported

\* Writes of local_processes, each guarded by the reservation and the state.
Reserved(a, r) == local[a].reservation = r /\ local[a].state = "RESERVED"
Becoming(a, state) == [local EXCEPT ![a].state = state]
Released(a, r) == IF Reserved(a, r) THEN [local EXCEPT ![a] = NoRow] ELSE local
FailedLocally(a, r) ==
    IF local[a].reservation = r /\ local[a].state \in {"RESERVED", "STARTING"}
    THEN Becoming(a, "FAILED_TO_START")
    ELSE local

\* The chain takes a launch.  One that is incomplete, expired or without its profile
\* is dropped without a word.
HandleLaunch(c) ==
    /\ Free(c) /\ inbox[c] # <<>> /\ Head(inbox[c]).kind = "LAUNCH"
    /\ inbox' = [inbox EXCEPT ![c] = Tail(@)]
    /\ preparing' \in {preparing,
                       preparing \cup {[on |-> c, attempt |-> Head(inbox[c]).attempt]}}
    /\ UNCHANGED <<diskVars, signing, channelVars, attached, up, link, conn, consuming,
                   issued, bootedAt, processVars, restarts>>

\* The preparation fails, the deadline has passed, or the attempt has a process row
\* already that is no mere reservation and would have to be reconciled.
FailPreparation(h) ==
    /\ preparing' = preparing \ {h}
    /\ Report(h.attempt, "FAILED_TO_START")
    /\ UNCHANGED <<diskVars, signing, channelVars, attached, up, link, conn, inbox,
                   consuming, issued, bootedAt, watched, local, acks, running, spawned,
                   restarts>>

\* The attempt has no row, or a reservation that its handler left behind or still holds.
Resumable(a) == local[a].state \in {"NONE", "RESERVED"}

\* The attempt is reserved, or its reservation resumed, and its permit asked for in
\* the same turn.  When the deadline passed meanwhile, or the link is down, the
\* reservation is released at once.
Reserve(h) ==
    LET a == h.attempt
        n == issued + 1
        r == IF local[a].state = "NONE" THEN n ELSE local[a].reservation
    IN  /\ Resumable(a)
        /\ preparing' = preparing \ {h}
        /\ issued' = n
        /\ \/ /\ link = "ACTIVE" /\ a \notin overdue
              /\ local' = [local EXCEPT ![a] = [state |-> "RESERVED", reservation |-> r]]
              /\ up' = Append(up, [request |-> n, attempt |-> a])
              /\ consuming' = consuming \cup
                     {[on |-> h.on, attempt |-> a, request |-> n, reservation |-> r]}
              /\ UNCHANGED reported
           \/ /\ link = "DOWN" \/ a \in overdue
              /\ local' = [local EXCEPT ![a] = NoRow]
              /\ Report(a, "FAILED_TO_START")
              /\ UNCHANGED <<up, consuming>>
        /\ UNCHANGED <<diskVars, signing, channelVars, attached, link, conn, inbox,
                       bootedAt, watched, acks, running, spawned, restarts>>

\* The permit is not to be had: the reservation is released, the attempt has failed.
Refused(h) ==
    /\ consuming' = consuming \ {h}
    /\ local' = Released(h.attempt, h.reservation)
    /\ Report(h.attempt, "FAILED_TO_START")
    /\ UNCHANGED <<watched, acks, running, spawned>>

\* Slip: the timer only covers a lost connection.
TimeOutDown(h) ==
    /\ link = "DOWN"
    /\ Refused(h)
    /\ UNCHANGED <<diskVars, signing, channelVars, attached, up, link, conn, inbox,
                   preparing, issued, bootedAt, restarts>>

\* No answer for ten seconds.
TimeOut(h) ==
    /\ Refused(h)
    /\ UNCHANGED <<diskVars, signing, channelVars, attached, up, link, conn, inbox,
                   preparing, issued, bootedAt, restarts>>

\* The permit is consumed, and the process is not started: the deadline has passed,
\* the reservation is gone (then no row is written), or the host fails.
NotStarted(h) ==
    /\ consuming' = consuming \ {h}
    /\ local' = FailedLocally(h.attempt, h.reservation)
    /\ Report(h.attempt, "FAILED_TO_START")
    /\ UNCHANGED <<watched, acks, running, spawned>>

\* A launch is acknowledged if its start could be reported.
Acknowledged(a) == IF link = "ACTIVE" THEN acks \cup {a} ELSE acks

\* The permit is consumed and the process started.  If that cannot be reported, the
\* process is asked to end and nothing is acknowledged.
Started(h) ==
    LET a == h.attempt IN
    /\ a \notin overdue /\ Reserved(a, h.reservation)
    /\ consuming' = consuming \ {h}
    /\ local' = Becoming(a, "STARTED")
    /\ running' = [running EXCEPT ![a] = TRUE]
    /\ spawned' = [spawned EXCEPT ![a] = TRUE]
    /\ watched' = watched \cup {a}
    /\ Report(a, "PROCESS_STARTED")
    /\ acks' = Acknowledged(a)

\* The chain takes an answer and the handler that waits for it goes on; if it has
\* given up, the answer is ignored.
HandleAnswer(c) ==
    /\ Free(c) /\ inbox[c] # <<>> /\ Head(inbox[c]).kind = "ANSWER"
    /\ inbox' = [inbox EXCEPT ![c] = Tail(@)]
    /\ LET answer == Head(inbox[c])
           waiting == {h \in consuming : h.request = answer.request}
       IN  \/ /\ waiting = {}
              /\ UNCHANGED <<consuming, processVars>>
           \/ \E h \in waiting :
                 \/ ~answer.granted /\ Refused(h)
                 \/ answer.granted /\ (NotStarted(h) \/ Started(h))
    /\ UNCHANGED <<diskVars, signing, channelVars, attached, up, link, conn, preparing,
                   issued, bootedAt, restarts>>

\* A process ends.  Its daemon records and reports it, unless output left to be sent
\* finds the link down; a daemon started later knows nothing of it.
Exit(a) ==
    /\ running[a]
    /\ running' = [running EXCEPT ![a] = FALSE]
    /\ watched' = watched \ {a}
    /\ \/ /\ a \in watched
          /\ local' = IF local[a].state = "STARTED" THEN Becoming(a, "EXITED") ELSE local
          /\ Report(a, "ENDED")
       \/ /\ a \notin watched \/ link = "DOWN"
          /\ UNCHANGED <<local, reported>>
    /\ UNCHANGED <<diskVars, signing, channelVars, attached, up, link, conn, inbox,
                   handlerVars, acks, spawned, restarts>>

\* The daemon stops and is started again: handlers and chains are gone, the tables,
\* the outbox and the processes remain.
Reboot ==
    /\ restarts < MaxRestarts /\ restarts' = restarts + 1
    /\ link' = "DOWN" /\ up' \in Prefixes(up)
    /\ inbox' = [c \in Connections |-> <<>>]
    /\ preparing' = {} /\ consuming' = {} /\ watched' = {}
    /\ bootedAt' = issued
    /\ UNCHANGED <<diskVars, signing, channelVars, attached, conn, issued>>

RunnerRestart ==
    /\ Reboot
    /\ UNCHANGED <<local, reported, acks, running, spawned>>

\* It stops while a process is being started: before or after the spawn, before it is
\* recorded, or before it is reported or acknowledged.
Points == {"FENCED", "SPAWNED", "RECORDED", "REPORTED"}
CrashStarting(c) ==
    /\ Free(c) /\ inbox[c] # <<>> /\ Head(inbox[c]).kind = "ANSWER"
    /\ Head(inbox[c]).granted
    /\ \E h \in consuming, point \in Points :
          LET a == h.attempt IN
          /\ h.request = Head(inbox[c]).request
          /\ a \notin overdue /\ Reserved(a, h.reservation)
          /\ local' = Becoming(a, IF point \in {"FENCED", "SPAWNED"}
                                  THEN "STARTING" ELSE "STARTED")
          /\ running' = [running EXCEPT ![a] = point # "FENCED"]
          /\ spawned' = [spawned EXCEPT ![a] = point # "FENCED"]
          /\ \/ point = "REPORTED" /\ Report(a, "PROCESS_STARTED")
             \/ point # "REPORTED" /\ UNCHANGED reported
    /\ Reboot
    /\ UNCHANGED acks

-------------------------------------------------------------------------------
Init ==
    /\ row = [a \in Attempts |-> "NONE"] /\ permit = [a \in Attempts |-> "NONE"]
    /\ expired = {} /\ overdue = {} /\ signing = {}
    /\ pending = {} /\ buffered = {} /\ queued = {}
    /\ attached = FALSE /\ up = <<>>
    /\ link = "DOWN" /\ conn = 0 /\ inbox = [c \in Connections |-> <<>>]
    /\ preparing = {} /\ consuming = {} /\ watched = {}
    /\ local = [a \in Attempts |-> NoRow]
    /\ reported = [a \in Attempts |-> {}] /\ acks = {}
    /\ running = [a \in Attempts |-> FALSE] /\ spawned = [a \in Attempts |-> FALSE]
    /\ issued = 0 /\ bootedAt = 0
    /\ restarts = 0

\* What chain c of the client does when its handler's preparation ends, and when its
\* handler's timer fires.
FinishPreparation(c) ==
    \E h \in preparing : h.on = c /\ (FailPreparation(h) \/ Reserve(h))
GiveUp(c) == \E h \in consuming : h.on = c /\ TimeOut(h)
GoOn(c) == HandleLaunch(c) \/ FinishPreparation(c) \/ HandleAnswer(c) \/ GiveUp(c)

Next ==
    \/ \E a \in Attempts :
          \/ Commit(a) \/ Dispatch(a) \/ ReceiveAck(a) \/ FailAck(a)
          \/ Revoke(a) \/ Expire(a) \/ PassDeadline(a) \/ Exit(a)
    \/ Drain \/ Detach \/ Consume \/ ServerRestart
    \/ Connect \/ Break
    \/ \E c \in Connections : GoOn(c) \/ CrashStarting(c)
    \/ RunnerRestart

\* A chain takes its next frame when it is free, preparations end, the timer of ten
\* seconds fires: each chain goes on, and nothing else is sure to happen.
Fairness == \A c \in Connections : WF_vars(GoOn(c))

Spec == Init /\ [][Next]_vars /\ Fairness

-------------------------------------------------------------------------------
(* Properties.                                                             *)

\* The variables have their types.
TypeOK ==
    /\ row \in [Attempts -> RowStates] /\ permit \in [Attempts -> PermitStates]
    /\ expired \subseteq Attempts /\ overdue \subseteq Attempts
    /\ signing \subseteq Attempts /\ pending \subseteq Attempts
    /\ buffered \subseteq Attempts /\ queued \subseteq Attempts
    /\ attached \in BOOLEAN /\ up \in Seq(Requests)
    /\ link \in {"DOWN", "ACTIVE"} /\ conn \in 0..MaxConnections
    /\ inbox \in [Connections -> Seq(Frames)]
    /\ preparing \subseteq Preparations /\ consuming \subseteq Consumptions
    /\ watched \subseteq Attempts /\ local \in [Attempts -> LocalRows]
    /\ reported \in [Attempts -> SUBSET Events] /\ acks \subseteq Attempts
    /\ running \in [Attempts -> BOOLEAN] /\ spawned \in [Attempts -> BOOLEAN]
    /\ issued \in Nat /\ bootedAt \in Nat
    /\ restarts \in 0..MaxRestarts

\* A committed launch that has neither been acknowledged nor expired stays with the
\* channel, whatever the socket does with it and however often the server restarts:
\* the next connection gets it (runner-channel.ts keeps it in `pending', prime loads it).
DeliveryIsRetained ==
    \A a \in Attempts :
        row[a] \in Undelivered /\ a \notin signing /\ a \notin expired => a \in pending

\* A reservation made since the daemon started always has a handler that waits for its
\* permit, and that handler removes it or turns it into a process: no failure on the
\* way leaves a reservation behind (supervisor.ts releases or records it on each path).
ReservationIsAttended ==
    \A a \in Attempts :
        local[a].state = "RESERVED" /\ local[a].reservation > bootedAt =>
            \E h \in consuming :
                h.attempt = a /\ h.reservation = local[a].reservation

\* A process that runs is recorded: whatever the daemon goes through, its table says
\* that the attempt was being started, so no redelivery starts a second process.
RunningIsRecorded ==
    \A a \in Attempts : running[a] => local[a].state \in {"STARTING", "STARTED"}

\* An acknowledged launch is a started process whose start is in the outbox: the server
\* never takes a launch for delivered that the runner has refused, given up or lost.
AcknowledgedWasStarted ==
    \A a \in Attempts :
        row[a] = "ACKNOWLEDGED" =>
            /\ local[a].state \in {"STARTED", "EXITED"}
            /\ "PROCESS_STARTED" \in reported[a]

\* A launch is kept until it is settled: by the channel, then by the reservation and
\* its handler, then by the record of its process, and it is acknowledged only then.
LaunchIsKept ==
    DeliveryIsRetained /\ ReservationIsAttended /\ RunningIsRecorded /\ AcknowledgedWasStarted

\* An attempt is at most one process, started under its consumed permit.
LaunchOnceStage ==
    [a \in Attempts |->
        IF running[a] THEN "STARTED"
        ELSE IF spawned[a] THEN "ENDED"
        ELSE IF permit[a] = "CONSUMED" THEN "PERMITTED"
        ELSE "WAITING"]
Abstract == INSTANCE LaunchOnce WITH stage <- LaunchOnceStage
ImplementsLaunchOnce == Abstract!Spec

\* Every chain of the client works off what it has received, although its handlers wait
\* for answers that come behind them in the same chain: the timers see to it.
ChainsAreWorkedOff ==
    []<>(\A c \in Connections : inbox[c] = <<>>)

===============================================================================
