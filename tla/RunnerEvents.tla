----------------------------- MODULE RunnerEvents -----------------------------
(***************************************************************************)
(* How the semantic events of one run travel from the runner that observes *)
(* them to the server that applies them.                                   *)
(*                                                                         *)
(* Runner: the table local_semantic_outbox (runner/outbox.ts), on disk,    *)
(* and the WSS client (runner/transport/wss-client.ts) with its two queues *)
(* in memory.  Server: the control adapter (server/adapters/wss) with one  *)
(* session per connection and a cache of answered events, in memory, and   *)
(* the table accepted_runner_events (server/modules/runs/                  *)
(* event-deduplication.ts), on disk, written in the transaction that       *)
(* applies the event.  Between them connections that break, servers that   *)
(* restart and acknowledgements that are lost with their connection.       *)
(*                                                                         *)
(* The events are attempt events: each names the revisions its sender      *)
(* expects and the transition may be illegal in that state; `legal' is     *)
(* fixed per event because a pair of revisions names one state of the run. *)
(* Event i is the row with local_sequence i; its predecessor is event i-1. *)
(***************************************************************************)
EXTENDS Integers, Sequences, FiniteSets

CONSTANTS
    MaxEvents,          \* rows of the run's outbox
    MaxConnections,     \* connections the runner opens
    MaxRevision,        \* revision up to which other commands change the run
    MaxLaunches,        \* LAUNCH messages sent to the runner
    ServerRestarts,     \* restarts of the server
    RunnerRestarts      \* restarts of the runner's daemon

ASSUME BoundsAssumption ==
    /\ MaxEvents \in Nat /\ MaxRevision \in Nat /\ MaxLaunches \in Nat
    /\ ServerRestarts \in Nat /\ RunnerRestarts \in Nat
    /\ MaxConnections \in Nat \ {0}

VARIABLES
    rows,               \* local_semantic_outbox of the run, by local_sequence
    outbound,           \* client: events waiting to be sent
    inFlight,           \* client: events sent and not yet answered
    known,              \* run revision of the launch as the runner predicts it
    link,               \* state of the client's connection
    conn,               \* number of the client's latest connection
    down,               \* messages on their way to the client, or in its chain
    late,               \* acknowledgements in the chain of a closed connection
    session,            \* the server's session of connection conn
    up,                 \* connection -> frames on their way to, or in, its chain
    cache,              \* acceptedEvents: event -> its disposition
    accepted,           \* accepted_runner_events of the run, in the order applied
    revision,           \* revision of the run and its attempt
    launches, serverRestarts, runnerRestarts

runnerVars == <<rows, outbound, inFlight, known, link, conn, late>>
serverVars == <<session, cache, accepted, revision>>
boundVars == <<launches, serverRestarts, runnerRestarts>>
vars == <<runnerVars, down, up, serverVars, boundVars>>

Events == 1..MaxEvents
Connections == 1..MaxConnections
Unsettled == {"PENDING", "IN_FLIGHT"}
RowStates == Unsettled \cup {"ACKNOWLEDGED", "PERMANENTLY_REJECTED"}
Dispositions == {"APPLIED", "DUPLICATE", "REJECTED"}
Acknowledgements == [kind : {"ACK"}, event : Events, disposition : Dispositions]
Launches == [kind : {"LAUNCH"}, runRevision : Nat \ {0}]
Welcome == [kind |-> "WELCOME"]
Messages == Acknowledgements \cup Launches \cup {Welcome}
Hello == 0

Ack(e, d) == [kind |-> "ACK", event |-> e, disposition |-> d]
\* A dispatched launch carries the revision of the run when it was loaded.
Launch(r) == [kind |-> "LAUNCH", runRevision |-> r]

-------------------------------------------------------------------------------
\* The rows that wait for an answer: once requeueInFlight has made them all PENDING,
\* these are the rows ready() loads, by local_sequence.
UnsettledEvents == {i \in 1..Len(rows) : rows[i].state \in Unsettled}

\* The queue q lists exactly the events of S, each once and in the order observed.
Lists(q, S) ==
    /\ \A i, j \in 1..Len(q) : i < j => q[i] < q[j]
    /\ {q[i] : i \in 1..Len(q)} = S

\* The server's session of conn still reads what the client sends.
Reading == session \in {"HELLO", "ACTIVE"}

\* The client's socket is open.
Connected == link \in {"NEGOTIATING", "ACTIVE"}

\* sendTransient: to the current connection of the runner, whichever it is.
Deliver(m) == down' = IF Reading /\ Connected THEN Append(down, m) ELSE down

\* flushOutbound: the first k of the queue q are sent and become in flight.
\* They reach the server's session only while it reads.
Flush(q, k, marked) ==
    /\ outbound' = SubSeq(q, k + 1, Len(q))
    /\ inFlight' = inFlight \o SubSeq(q, 1, k)
    /\ rows' = [i \in 1..Len(marked) |->
                  IF marked[i].state = "PENDING" /\ \E j \in 1..k : q[j] = i
                  THEN [marked[i] EXCEPT !.state = "IN_FLIGHT"]
                  ELSE marked[i]]
    /\ up' = [up EXCEPT ![conn] = IF Reading THEN @ \o SubSeq(q, 1, k) ELSE @]

\* Slip: a broken connection forgets what was in flight.
RequeueNothing ==
    /\ outbound' = outbound
    /\ inFlight' = <<>>

\* The close listener: what is in flight goes back in front of the queue.
Requeue ==
    /\ outbound' = inFlight \o outbound
    /\ inFlight' = <<>>

\* The event's entry is spliced out of the queue it is in.
Without(q, e) ==
    IF \E j \in 1..Len(q) : q[j] = e
    THEN LET j == CHOOSE x \in 1..Len(q) : q[x] = e IN
         SubSeq(q, 1, j - 1) \o SubSeq(q, j + 1, Len(q))
    ELSE q

\* Slip: only the first answer settles an event, not DUPLICATE.
SettleUnlessDuplicate(e, d) ==
    IF d # "DUPLICATE" /\ \E q \in {inFlight, outbound} : \E j \in 1..Len(q) : q[j] = e
    THEN /\ rows' = [rows EXCEPT ![e].state =
                       IF d = "REJECTED" THEN "PERMANENTLY_REJECTED" ELSE "ACKNOWLEDGED"]
         /\ inFlight' = Without(inFlight, e)
         /\ outbound' = Without(outbound, e)
    ELSE UNCHANGED <<rows, inFlight, outbound>>

\* A retained event is settled by its acknowledgement; one that is no longer
\* retained ignores it.
Settle(e, d) ==
    IF \E q \in {inFlight, outbound} : \E j \in 1..Len(q) : q[j] = e
    THEN /\ rows' = [rows EXCEPT ![e].state =
                       IF d = "REJECTED" THEN "PERMANENTLY_REJECTED" ELSE "ACKNOWLEDGED"]
         /\ inFlight' = Without(inFlight, e)
         /\ outbound' = Without(outbound, e)
    ELSE UNCHANGED <<rows, inFlight, outbound>>

-------------------------------------------------------------------------------
Init ==
    /\ rows = <<>> /\ outbound = <<>> /\ inFlight = <<>>
    /\ known = 0 /\ link = "DOWN" /\ conn = 0 /\ late = {}
    /\ down = <<>> /\ up = [c \in Connections |-> <<>>]
    /\ session = "NONE" /\ cache = [e \in Events |-> "NONE"]
    /\ accepted = <<>> /\ revision = 1
    /\ launches = 0 /\ serverRestarts = 0 /\ runnerRestarts = 0

\* enqueue: the outbox takes a bounded number of rows and never drops one.
HasRoom == Len(rows) < MaxEvents

\* sendAttemptEvent: only on an active connection; the event is written to the
\* outbox, queued and flushed, and the runner counts the revision on.
Send(legal) ==
    /\ link = "ACTIVE" /\ known > 0 /\ HasRoom
    /\ \E k \in 0..(Len(outbound) + 1) :
         Flush(Append(outbound, Len(rows) + 1), k,
               Append(rows, [expected |-> known, legal |-> legal, state |-> "PENDING"]))
    /\ known' = known + 1
    /\ UNCHANGED <<link, conn, late, down, serverVars, boundVars>>

\* The drain timer, or a later flush, sends what the socket had no room for.
Drain ==
    /\ link = "ACTIVE" /\ outbound # <<>>
    /\ \E k \in 1..Len(outbound) : Flush(outbound, k, rows)
    /\ UNCHANGED <<known, link, conn, late, down, serverVars, boundVars>>

\* Access is issued and the socket opens: the server registers it as the runner's
\* current connection and closes the previous one, the client says hello.
Connect ==
    /\ link = "DOWN" /\ conn < MaxConnections
    /\ conn' = conn + 1 /\ link' = "NEGOTIATING" /\ session' = "HELLO"
    /\ up' = [up EXCEPT ![conn + 1] = <<Hello>>]
    /\ down' = <<>>
    /\ UNCHANGED <<rows, outbound, inFlight, known, late, cache, accepted, revision, boundVars>>

\* The request for access fails or its answer is not accepted: the client does not try
\* again, however passing the failure.
FailAccess ==
    /\ link = "DOWN"
    /\ link' = "STOPPED"
    /\ UNCHANGED <<rows, outbound, inFlight, known, conn, late, down, up, serverVars, boundVars>>

\* The server handles the hello and answers WELCOME.
ReceiveHello ==
    /\ session = "HELLO" /\ up[conn] # <<>>
    /\ session' = "ACTIVE"
    /\ up' = [up EXCEPT ![conn] = Tail(@)]
    /\ Deliver(Welcome)
    /\ UNCHANGED <<runnerVars, cache, accepted, revision, boundVars>>

-------------------------------------------------------------------------------
\* Slip: a gap in the sequence is accepted.
IsNewer(e) == accepted # <<>> => e > accepted[Len(accepted)]

\* validateOrder: the event follows the latest accepted one.
InOrder(e) ==
    IF accepted = <<>> THEN e = 1 ELSE e = accepted[Len(accepted)] + 1

Applicable(e) ==
    /\ InOrder(e)
    /\ rows[e].expected = revision
    /\ rows[e].legal

\* inspect: the event has been accepted before.
Stored(e) == \E i \in 1..Len(accepted) : accepted[i] = e

\* A stored event replays its stored result; a new one is applied and stored
\* with its effect, or refused and not stored.
Evaluate(e) ==
    IF Stored(e)
    THEN /\ cache' = [cache EXCEPT ![e] = "APPLIED"]
         /\ Deliver(Ack(e, "APPLIED"))
         /\ UNCHANGED <<accepted, revision>>
    ELSE IF Applicable(e)
    THEN /\ cache' = [cache EXCEPT ![e] = "APPLIED"]
         /\ accepted' = Append(accepted, e)
         /\ revision' = revision + 1
         /\ Deliver(Ack(e, "APPLIED"))
    ELSE /\ cache' = [cache EXCEPT ![e] = "REJECTED"]
         /\ Deliver(Ack(e, "REJECTED"))
         /\ UNCHANGED <<accepted, revision>>

\* The chain of session c takes its next event.  An event answered before is
\* answered DUPLICATE whatever the answer was, and before the fence is looked
\* at; an event of a connection that is no longer current is dropped.
Process(c) ==
    /\ up[c] # <<>> /\ up[c][1] # Hello
    /\ up' = [up EXCEPT ![c] = Tail(@)]
    /\ LET e == up[c][1] IN
         IF cache[e] # "NONE"
         THEN Deliver(Ack(e, "DUPLICATE")) /\ UNCHANGED <<cache, accepted, revision>>
         ELSE IF c = conn /\ session # "NONE"
         THEN Evaluate(e)
         ELSE UNCHANGED <<down, cache, accepted, revision>>
    /\ UNCHANGED <<runnerVars, session, boundVars>>

\* Frames the server has not received when the connection ends are lost.
LoseFrames(c) ==
    /\ up[c] # <<>>
    /\ c # conn \/ ~Reading \/ ~Connected
    /\ up' = [up EXCEPT ![c] = SubSeq(@, 1, Len(@) - 1)]
    /\ UNCHANGED <<runnerVars, down, serverVars, boundVars>>

\* The server closes the session (hello or heartbeat timeout, protocol error);
\* it stays registered until the socket's close is reported.
CloseSession ==
    /\ Reading
    /\ conn < MaxConnections \/ ~Connected
    /\ session' = "CLOSED"
    /\ UNCHANGED <<runnerVars, down, up, cache, accepted, revision, boundVars>>

Detach ==
    /\ session = "CLOSED"
    /\ session' = "NONE"
    /\ UNCHANGED <<runnerVars, down, up, cache, accepted, revision, boundVars>>

\* Dispatch of a launch to the current connection, welcomed or not.
Dispatch ==
    /\ launches < MaxLaunches /\ Reading /\ Connected
    /\ launches' = launches + 1
    /\ Deliver(Launch(revision))
    /\ UNCHANGED <<runnerVars, up, serverVars, serverRestarts, runnerRestarts>>

\* Another command of the Execution Authority changes the run or its attempt.
ChangeRun ==
    /\ revision < MaxRevision
    /\ revision' = revision + 1
    /\ UNCHANGED <<runnerVars, down, up, session, cache, accepted, boundVars>>

-------------------------------------------------------------------------------
\* WELCOME makes the client active and flushes its queue.
HandleWelcome ==
    /\ link = "NEGOTIATING" /\ down # <<>> /\ down[1].kind = "WELCOME"
    /\ link' = "ACTIVE"
    /\ down' = Tail(down)
    /\ \E k \in 0..Len(outbound) : Flush(outbound, k, rows)
    /\ UNCHANGED <<known, conn, late, serverVars, boundVars>>

\* Anything else before WELCOME is a protocol error: the client closes the
\* connection and never opens another one.
HandleUnexpected ==
    /\ link = "NEGOTIATING" /\ down # <<>> /\ down[1].kind # "WELCOME"
    /\ link' = "STOPPED"
    /\ down' = <<>>
    /\ Requeue
    /\ UNCHANGED <<rows, known, conn, late, up, serverVars, boundVars>>

\* The chain of the open connection takes its next message.
HandleMessage ==
    /\ link = "ACTIVE" /\ down # <<>>
    /\ down' = Tail(down)
    /\ LET m == down[1] IN
         \/ /\ m.kind = "ACK"
            /\ Settle(m.event, m.disposition)
            /\ UNCHANGED known
         \/ /\ m.kind = "LAUNCH"
            /\ known' = m.runRevision
            /\ UNCHANGED <<rows, inFlight, outbound>>
    /\ UNCHANGED <<link, conn, late, up, serverVars, boundVars>>

\* The chain of a connection that has closed goes on behind the next one.
HandleLate ==
    \E m \in late :
      /\ late' = late \ {m}
      /\ Settle(m.event, m.disposition)
      /\ UNCHANGED <<known, link, conn, down, up, serverVars, boundVars>>

\* The client's socket closes: the messages received so far stay in the chain,
\* the others are lost, and the client will connect again.
Leave ==
    /\ Connected /\ conn < MaxConnections
    /\ link' = "DOWN"
    /\ \E k \in 0..(IF link = "ACTIVE" THEN Len(down) ELSE 0) :
         late' = late \cup {m \in {down[j] : j \in 1..k} : m.kind = "ACK"}
    /\ down' = <<>>
    /\ Requeue
    /\ UNCHANGED <<rows, known, conn, up, serverVars, boundVars>>

-------------------------------------------------------------------------------
\* The server restarts: sessions, chains and the cache are gone.
ServerRestart ==
    /\ serverRestarts < ServerRestarts
    /\ conn < MaxConnections \/ ~Connected
    /\ serverRestarts' = serverRestarts + 1
    /\ session' = "NONE"
    /\ up' = [c \in Connections |-> <<>>]
    /\ cache' = [e \in Events |-> "NONE"]
    /\ UNCHANGED <<runnerVars, down, accepted, revision, launches, runnerRestarts>>

\* The runner's daemon restarts: requeueInFlight, then load the pending rows.
RunnerRestart ==
    /\ runnerRestarts < RunnerRestarts /\ conn < MaxConnections
    /\ runnerRestarts' = runnerRestarts + 1
    /\ rows' = [i \in 1..Len(rows) |->
                  IF rows[i].state = "IN_FLIGHT"
                  THEN [rows[i] EXCEPT !.state = "PENDING"] ELSE rows[i]]
    /\ \E q \in [1..Cardinality(UnsettledEvents) -> UnsettledEvents] :
         Lists(q, UnsettledEvents) /\ outbound' = q
    /\ inFlight' = <<>> /\ known' = 0 /\ link' = "DOWN"
    /\ late' = {} /\ down' = <<>>
    /\ UNCHANGED <<conn, up, serverVars, launches, serverRestarts>>

Next ==
    \/ \E legal \in BOOLEAN : Send(legal)
    \/ Drain
    \/ Connect
    \/ FailAccess
    \/ ReceiveHello
    \/ \E c \in Connections : Process(c)
    \/ \E c \in Connections : LoseFrames(c)
    \/ CloseSession
    \/ Detach
    \/ Dispatch
    \/ ChangeRun
    \/ HandleWelcome
    \/ HandleUnexpected
    \/ HandleMessage
    \/ HandleLate
    \/ Leave
    \/ ServerRestart
    \/ RunnerRestart

Spec == Init /\ [][Next]_vars

\* The reconnect timer, the drain timer, the sockets and the promise chains of
\* both sides make progress, and the client learns that its session is gone.
\* The timer asks for access, and access is issued or not: nothing makes it succeed.
\* The bound on connections stands for a network that is at last stable.
Fairness ==
    /\ WF_vars(Connect \/ FailAccess)
    /\ WF_vars(Drain)
    /\ WF_vars(ReceiveHello)
    /\ \A c \in Connections : WF_vars(Process(c))
    /\ WF_vars(HandleWelcome \/ HandleUnexpected \/ HandleMessage)
    /\ WF_vars(~Reading /\ Leave)

FairSpec == Spec /\ Fairness

-------------------------------------------------------------------------------
TypeOK ==
    /\ rows \in Seq([expected : Nat \ {0}, legal : BOOLEAN, state : RowStates])
    /\ Len(rows) <= MaxEvents
    /\ outbound \in Seq(Events) /\ inFlight \in Seq(Events)
    /\ known \in Nat
    /\ link \in {"DOWN", "NEGOTIATING", "ACTIVE", "STOPPED"}
    /\ conn \in 0..MaxConnections
    /\ late \subseteq Acknowledgements
    /\ down \in Seq(Messages)
    /\ session \in {"NONE", "HELLO", "ACTIVE", "CLOSED"}
    /\ up \in [Connections -> Seq(Events \cup {Hello})]
    /\ cache \in [Events -> {"NONE", "APPLIED", "REJECTED"}]
    /\ accepted \in Seq(Events)
    /\ revision \in Nat \ {0}
    /\ launches \in 0..MaxLaunches
    /\ serverRestarts \in 0..ServerRestarts
    /\ runnerRestarts \in 0..RunnerRestarts

\* While the daemon runs, the events that are not settled on disk are exactly
\* those its client still carries, each once and in the order observed: none is
\* forgotten by a broken connection, a restart or an acknowledgement.
UnsettledIsCarried == Lists(inFlight \o outbound, UnsettledEvents)

\* The server applies the events of a run once each, in the order the runner
\* observed them and without a gap, whatever is resent on which connection.
AppliedInOrder == \A i \in 1..Len(accepted) : accepted[i] = i

\* An event the runner has written off as permanently rejected was not applied
\* by the server, and never will be.
RejectedIsNotApplied ==
    \A e \in 1..Len(rows) :
      rows[e].state = "PERMANENTLY_REJECTED" =>
        \A i \in 1..Len(accepted) : accepted[i] # e

\* Every event is accounted for: carried until it is settled, and never applied after
\* it was written off.
EventsAccounted ==
    TypeOK /\ UnsettledIsCarried /\ AppliedInOrder /\ RejectedIsNotApplied

\* What the runner knows of event e: as long as no answer has settled it, nothing.
Entry(e) == IF rows[e].state \in Unsettled THEN "OPEN" ELSE rows[e].state

\* The protocol implements EventLog: with all its connections, resent frames and
\* restarts the server applies the events one after the other, the runner settles each
\* once, and an event the runner settled before the server applied it, as rejected or,
\* when its answer is lost, as a duplicate, is never applied.
Abstract == INSTANCE EventLog
    WITH book <- [e \in 1..Len(rows) |-> Entry(e)], log <- accepted
ImplementsEventLog == Abstract!Spec

IsUnsettled(e) == e \in 1..Len(rows) /\ rows[e].state \in Unsettled

\* Every event the runner has observed is settled at last, unless the client was stopped:
\* by a message that overtook WELCOME, or by a request for access that failed while it
\* connected again.  Then it waits for the daemon's next start.
EventsSettle ==
    \A e \in Events :
      IsUnsettled(e) ~> (link = "STOPPED" \/ ~IsUnsettled(e))

===============================================================================
