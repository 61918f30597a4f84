----------------------------- MODULE RunnerProofs -----------------------------
(***************************************************************************)
(* Theorems about the runner: RunnerLaunch, for any finite set of attempts,*)
(* any number of connections and of restarts, and Worktrees, for any       *)
(* number of commits, edits, revisions, branches and authorizations.  The  *)
(* two share nothing.                                                      *)
(***************************************************************************)
EXTENDS RunnerLaunch, Worktrees, FiniteSetTheorems, TLAPS

-------------------------------------------------------------------------------
(* Frames: what arrives is part of what was sent.                          *)

Members(s) == {s[i] : i \in DOMAIN s}

LEMMA EmptySequence == \A S : <<>> \in Seq(S)
OBVIOUS

LEMMA TailMembers ==
    ASSUME NEW S, NEW s \in Seq(S), s # <<>>
    PROVE  /\ Tail(s) \in Seq(S) /\ Members(Tail(s)) \subseteq Members(s)
           /\ Head(s) \in S /\ Head(s) \in Members(s)
BY DEF Members

LEMMA PrefixMembers ==
    ASSUME NEW S, NEW s \in Seq(S), NEW p \in Prefixes(s)
    PROVE  p \in Seq(S) /\ Members(p) \subseteq Members(s)
<1>1. PICK n \in 0..Len(s) : p = SubSeq(s, 1, n)
    BY DEF Prefixes
<1> QED
    BY <1>1 DEF Members

LEMMA ConcatMembers ==
    ASSUME NEW S, NEW s \in Seq(S), NEW t \in Seq(S)
    PROVE  s \o t \in Seq(S) /\ Members(s \o t) \subseteq Members(s) \cup Members(t)
BY DEF Members

LEMMA AppendMembers ==
    ASSUME NEW S, NEW s \in Seq(S), NEW e \in S
    PROVE  Append(s, e) \in Seq(S) /\ Members(Append(s, e)) \subseteq Members(s) \cup {e}
BY DEF Members

\* What the channel sends for a set of deliveries, in some order, are launches.
LEMMA LaunchFrames ==
    ASSUME NEW S \in SUBSET Attempts, NEW s \in Orders(S)
    PROVE  /\ [i \in DOMAIN s |-> Launch(s[i])] \in Seq(Frames)
           /\ \A f \in Members([i \in DOMAIN s |-> Launch(s[i])]) : f.kind = "LAUNCH"
<1>1. Cardinality(S) \in Nat
    BY BoundsAssumption, FS_Subset, FS_CardinalityType
<1>2. s \in [1..Cardinality(S) -> Attempts]
    BY DEF Orders
<1>3. DOMAIN s = 1..Cardinality(S) /\ \A i \in DOMAIN s : Launch(s[i]) \in Frames
    BY <1>2 DEF Launch, Frames
<1> QED
    BY <1>1, <1>3 DEF Members, Launch

\* What reaches the inbox of the connection is what was there and what was sent.
LEMMA ReceivedFrames ==
    ASSUME inbox \in [Connections -> Seq(Frames)],
           NEW frames \in Seq(Frames), Receives(frames)
    PROVE  /\ inbox' \in [Connections -> Seq(Frames)]
           /\ \A c \in Connections :
                 Members(inbox'[c]) \subseteq Members(inbox[c]) \cup Members(frames)
<1>1. CASE link = "ACTIVE"
    <2>1. inbox' = [inbox EXCEPT ![conn] = inbox[conn] \o frames]
        BY <1>1 DEF Receives
    <2>2. ASSUME NEW c \in Connections
          PROVE  /\ inbox'[c] \in Seq(Frames)
                 /\ Members(inbox'[c]) \subseteq Members(inbox[c]) \cup Members(frames)
        <3>1. inbox[c] \in Seq(Frames)
            OBVIOUS
        <3>2. CASE c = conn
            BY <2>1, <3>1, <3>2, ConcatMembers
        <3>3. CASE c # conn
            BY <2>1, <3>1, <3>3
        <3> QED BY <3>2, <3>3
    <2> QED BY <2>1, <2>2
<1>2. CASE link # "ACTIVE"
    BY <1>2 DEF Receives
<1> QED BY <1>1, <1>2

LEMMA CutFrames ==
    ASSUME inbox \in [Connections -> Seq(Frames)], Cut
    PROVE  /\ inbox' \in [Connections -> Seq(Frames)]
           /\ \A c \in Connections : Members(inbox'[c]) \subseteq Members(inbox[c])
<1>1. CASE link = "ACTIVE"
    <2>1. PICK p \in Prefixes(inbox[conn]) : inbox' = [inbox EXCEPT ![conn] = p]
        BY <1>1 DEF Cut
    <2>2. ASSUME NEW c \in Connections
          PROVE  /\ inbox'[c] \in Seq(Frames)
                 /\ Members(inbox'[c]) \subseteq Members(inbox[c])
        <3>1. inbox[c] \in Seq(Frames)
            OBVIOUS
        <3>2. CASE c = conn
            BY <2>1, <3>1, <3>2, PrefixMembers
        <3>3. CASE c # conn
            BY <2>1, <3>1, <3>3
        <3> QED BY <3>2, <3>3
    <2> QED BY <2>1, <2>2
<1>2. CASE link # "ACTIVE"
    BY <1>2 DEF Cut
<1> QED BY <1>1, <1>2

\* The chain takes the first frame of its inbox.
LEMMA TakenFrame ==
    ASSUME inbox \in [Connections -> Seq(Frames)], NEW c \in Connections, inbox[c] # <<>>,
           inbox' = [inbox EXCEPT ![c] = Tail(@)]
    PROVE  /\ inbox' \in [Connections -> Seq(Frames)]
           /\ \A d \in Connections : Members(inbox'[d]) \subseteq Members(inbox[d])
           /\ Head(inbox[c]) \in Frames /\ Head(inbox[c]) \in Members(inbox[c])
<1>1. inbox[c] \in Seq(Frames)
    OBVIOUS
<1>2. /\ Tail(inbox[c]) \in Seq(Frames) /\ Members(Tail(inbox[c])) \subseteq Members(inbox[c])
      /\ Head(inbox[c]) \in Frames /\ Head(inbox[c]) \in Members(inbox[c])
    BY <1>1, TailMembers
<1> QED BY <1>2

-------------------------------------------------------------------------------
(* Rows of local_processes.                                                *)

LEMMA RowType ==
    ASSUME local \in [Attempts -> LocalRows], NEW a \in Attempts
    PROVE  /\ local[a] \in LocalRows
           /\ local[a].state \in ProcessStates /\ local[a].reservation \in Nat
           /\ local[a].state # "NONE" => local[a].reservation # 0
BY DEF LocalRows, NoRow, ProcessStates

LEMMA BecomingRow ==
    ASSUME local \in [Attempts -> LocalRows], NEW a \in Attempts,
           local[a].state # "NONE", NEW state \in ProcessStates \ {"NONE"}
    PROVE  /\ Becoming(a, state) \in [Attempts -> LocalRows]
           /\ Becoming(a, state)[a].state = state
           /\ Becoming(a, state)[a].reservation = local[a].reservation
           /\ \A b \in Attempts \ {a} : Becoming(a, state)[b] = local[b]
<1>1. local[a] \in [state : ProcessStates \ {"NONE"}, reservation : Nat \ {0}]
    BY DEF LocalRows, NoRow
<1>2. [local[a] EXCEPT !.state = state] \in [state : ProcessStates \ {"NONE"}, reservation : Nat \ {0}]
    BY <1>1
<1> QED BY <1>1, <1>2 DEF Becoming, LocalRows

LEMMA ReleasedRows ==
    ASSUME local \in [Attempts -> LocalRows], NEW a \in Attempts, NEW r
    PROVE  Released(a, r) \in [Attempts -> LocalRows]
BY DEF Released, LocalRows

LEMMA FailedRows ==
    ASSUME local \in [Attempts -> LocalRows], NEW a \in Attempts, NEW r
    PROVE  FailedLocally(a, r) \in [Attempts -> LocalRows]
BY BecomingRow DEF FailedLocally, ProcessStates

LEMMA ReportType ==
    ASSUME reported \in [Attempts -> SUBSET Events], NEW a \in Attempts, NEW e \in Events,
           Report(a, e)
    PROVE  /\ reported' \in [Attempts -> SUBSET Events]
           /\ \A b \in Attempts : reported[b] \subseteq reported'[b]
           /\ link = "ACTIVE" => e \in reported'[a]
BY DEF Report

-------------------------------------------------------------------------------
(* Types.                                                                  *)

LEMMA TypeInit == Init => TypeOK
<1> SUFFICES ASSUME Init PROVE TypeOK
    OBVIOUS
<1>1. up \in Seq(Requests) /\ inbox \in [Connections -> Seq(Frames)]
    BY EmptySequence DEF Init
<1>2. conn \in 0..MaxConnections /\ restarts \in 0..MaxRestarts
    BY BoundsAssumption DEF Init
<1>3. local \in [Attempts -> LocalRows]
    BY DEF Init, LocalRows
<1>4. row \in [Attempts -> RowStates] /\ permit \in [Attempts -> PermitStates]
    BY DEF Init, RowStates, PermitStates
<1> QED BY <1>1, <1>2, <1>3, <1>4 DEF Init, TypeOK

\* The server's steps that send nothing keep the types.
LEMMA TypeServer ==
    ASSUME TypeOK, NEW a \in Attempts,
           Commit(a) \/ ReceiveAck(a) \/ Revoke(a) \/ Expire(a) \/ PassDeadline(a) \/ Detach
    PROVE  TypeOK'
<1> USE DEF TypeOK, RowStates, PermitStates, diskVars, channelVars, handlerVars, processVars
<1>1. CASE Commit(a)
    BY <1>1 DEF Commit
<1>2. CASE ReceiveAck(a)
    BY <1>2 DEF ReceiveAck
<1>3. CASE Revoke(a)
    BY <1>3 DEF Revoke
<1>4. CASE Expire(a)
    BY <1>4 DEF Expire
<1>5. CASE PassDeadline(a)
    BY <1>5 DEF PassDeadline
<1>6. CASE Detach
    BY <1>6, EmptySequence DEF Detach
<1> QED BY <1>1, <1>2, <1>3, <1>4, <1>5, <1>6

LEMMA TypeDispatch ==
    ASSUME TypeOK, NEW a \in Attempts, Dispatch(a)
    PROVE  TypeOK'
<1>1. Launch(a) \in Frames
    BY DEF Launch, Frames
<1>2. inbox' \in [Connections -> Seq(Frames)]
    <2>1. CASE UNCHANGED inbox
        BY <2>1 DEF TypeOK
    <2>2. CASE \E frames \in {<<Launch(a)>>, <<>>} : Receives(frames)
        <3>1. PICK frames \in {<<Launch(a)>>, <<>>} : Receives(frames)
            BY <2>2
        <3>2. <<Launch(a)>> \in Seq(Frames)
            BY <1>1
        <3>3. frames \in Seq(Frames)
            BY <3>2, EmptySequence
        <3> QED BY <3>1, <3>3, ReceivedFrames DEF TypeOK
    <2> QED BY <2>1, <2>2 DEF Dispatch
<1>3. /\ row' \in [Attempts -> RowStates] /\ signing' \subseteq Attempts
      /\ pending' \subseteq Attempts /\ buffered' \subseteq Attempts /\ queued' \subseteq Attempts
    BY DEF Dispatch, TypeOK, RowStates, channelVars
<1> QED BY <1>2, <1>3 DEF Dispatch, TypeOK, handlerVars, processVars

LEMMA TypeDrain ==
    ASSUME TypeOK, Drain
    PROVE  TypeOK'
<1>1. PICK outcome \in [queued -> Outcomes], sent \in {buffered, {}} :
          /\ \E s \in Orders(With(outcome, {"SENT", "ENQUEUED"})) :
                Receives([i \in DOMAIN s |-> Launch(s[i])])
          /\ pending' = pending \cup sent \cup With(outcome, {"SENT"})
          /\ buffered' = (buffered \ sent) \cup With(outcome, {"ENQUEUED"})
          /\ queued' = With(outcome, {"RETRY"})
    BY DEF Drain
<1>2. \A os : With(outcome, os) \in SUBSET Attempts
    BY DEF With, TypeOK
<1>3. inbox' \in [Connections -> Seq(Frames)]
    BY <1>1, <1>2, LaunchFrames, ReceivedFrames DEF TypeOK
<1>4. pending' \subseteq Attempts /\ buffered' \subseteq Attempts /\ queued' \subseteq Attempts
    BY <1>1, <1>2 DEF TypeOK
<1> QED BY <1>3, <1>4 DEF Drain, TypeOK, diskVars, handlerVars, processVars

LEMMA TypeConsume ==
    ASSUME TypeOK, Consume
    PROVE  TypeOK'
<1>1. Tail(up) \in Seq(Requests) /\ Head(up) \in Requests
    BY TailMembers DEF TypeOK, Consume
<1>2. \A g \in BOOLEAN : <<Answer(Head(up).request, Head(up).attempt, g)>> \in Seq(Frames)
    BY <1>1 DEF Answer, Frames, Requests
<1>3. inbox' \in [Connections -> Seq(Frames)]
    <2>1. CASE UNCHANGED inbox
        BY <2>1 DEF TypeOK
    <2>2. CASE \E g \in BOOLEAN : Receives(<<Answer(Head(up).request, Head(up).attempt, g)>>)
        BY <2>2, <1>2, ReceivedFrames DEF TypeOK
    <2> QED BY <2>1, <2>2 DEF Consume
<1>4. permit' \in [Attempts -> PermitStates]
    BY DEF Consume, TypeOK, PermitStates
<1>5. up' \in Seq(Requests)
    BY <1>1 DEF Consume
<1> QED BY <1>3, <1>4, <1>5 DEF Consume, TypeOK, channelVars, handlerVars, processVars

\* Connections come and go.
LEMMA TypeConnect ==
    ASSUME TypeOK, Connect
    PROVE  TypeOK'
<1>1. PICK outcome \in [pending \ expired -> Outcomes] :
          /\ \E s \in Orders(With(outcome, {"SENT", "ENQUEUED"})) :
                inbox' = [inbox EXCEPT ![conn + 1] = [i \in DOMAIN s |-> Launch(s[i])]]
          /\ buffered' = With(outcome, {"ENQUEUED"})
          /\ queued' = With(outcome, {"RETRY"})
    BY DEF Connect
<1>2. \A os : With(outcome, os) \in SUBSET Attempts
    BY DEF With, TypeOK
<1>3. inbox' \in [Connections -> Seq(Frames)]
    <2>1. PICK s \in Orders(With(outcome, {"SENT", "ENQUEUED"})) :
              inbox' = [inbox EXCEPT ![conn + 1] = [i \in DOMAIN s |-> Launch(s[i])]]
        BY <1>1
    <2>2. [i \in DOMAIN s |-> Launch(s[i])] \in Seq(Frames)
        BY <1>2, LaunchFrames
    <2> QED BY <2>1, <2>2 DEF TypeOK
<1>4. buffered' \subseteq Attempts /\ queued' \subseteq Attempts /\ conn' \in 0..MaxConnections
    BY <1>1, <1>2, BoundsAssumption DEF TypeOK, Connect
<1> QED BY <1>3, <1>4 DEF Connect, TypeOK, diskVars, handlerVars, processVars

LEMMA TypeBreak ==
    ASSUME TypeOK, Break \/ ServerRestart \/ \E a \in Attempts : FailAck(a)
    PROVE  TypeOK'
<1>1. inbox' \in [Connections -> Seq(Frames)]
    BY CutFrames DEF Break, FailAck, ServerRestart, TypeOK
<1>2. up' \in Seq(Requests)
    <2>1. up' = <<>> \/ up' \in Prefixes(up)
        BY DEF Break, FailAck, ServerRestart
    <2> QED BY <2>1, EmptySequence, PrefixMembers DEF TypeOK
<1>3. Primed \subseteq Attempts
    BY DEF Primed
<1>4. restarts' \in 0..MaxRestarts
    BY BoundsAssumption DEF Break, FailAck, ServerRestart, TypeOK
<1> QED
    BY <1>1, <1>2, <1>3, <1>4
    DEF Break, FailAck, ServerRestart, TypeOK, diskVars, channelVars, handlerVars, processVars

\* The runner's steps.
LEMMA TypeHandler ==
    ASSUME TypeOK, NEW h \in preparing, FailPreparation(h) \/ Reserve(h)
    PROVE  TypeOK'
<1>1. h.attempt \in Attempts /\ h.on \in Connections
    BY DEF TypeOK, Preparations
<1>2. CASE FailPreparation(h)
    <2>1. reported' \in [Attempts -> SUBSET Events]
        BY <1>1, <1>2, ReportType DEF FailPreparation, TypeOK, Events
    <2> QED
        BY <1>2, <2>1 DEF FailPreparation, TypeOK, diskVars, channelVars
<1>3. CASE Reserve(h)
    <2> DEFINE a == h.attempt
               n == issued + 1
               r == IF local[a].state = "NONE" THEN n ELSE local[a].reservation
    <2>1. n \in Nat \ {0} /\ r \in Nat \ {0}
        BY <1>1, RowType DEF TypeOK
    <2>2. reported' \in [Attempts -> SUBSET Events]
        BY <1>1, <1>3, ReportType DEF Reserve, TypeOK, Events
    <2>3. local' \in [Attempts -> LocalRows]
        BY <1>1, <1>3, <2>1 DEF Reserve, TypeOK, LocalRows, ProcessStates
    <2>4. up' \in Seq(Requests)
        <3>1. [request |-> n, attempt |-> a] \in Requests
            BY <1>1, <2>1 DEF Requests
        <3>2. up' = up \/ up' = Append(up, [request |-> n, attempt |-> a])
            BY <1>3 DEF Reserve
        <3>3. up \in Seq(Requests)
            BY DEF TypeOK
        <3> QED BY <3>1, <3>2, <3>3, AppendMembers
    <2>5. consuming' \subseteq Consumptions
        BY <1>1, <1>3, <2>1 DEF Reserve, TypeOK, Consumptions
    <2>6. issued' \in Nat /\ preparing' \subseteq Preparations
        BY <1>3, <2>1 DEF Reserve, TypeOK
    <2> QED
        BY <1>3, <2>2, <2>3, <2>4, <2>5, <2>6
        DEF Reserve, TypeOK, diskVars, channelVars
<1> QED BY <1>2, <1>3

\* What the handler of a launch writes when it has its answer.
LEMMA TypeAnswered ==
    ASSUME TypeOK, NEW h \in consuming, Refused(h) \/ NotStarted(h) \/ Started(h)
    PROVE  /\ consuming' \subseteq Consumptions /\ watched' \subseteq Attempts
           /\ local' \in [Attempts -> LocalRows] /\ reported' \in [Attempts -> SUBSET Events]
           /\ acks' \subseteq Attempts
           /\ running' \in [Attempts -> BOOLEAN] /\ spawned' \in [Attempts -> BOOLEAN]
<1>1. h.attempt \in Attempts
    BY DEF TypeOK, Consumptions
<1>2. CASE Refused(h)
    BY <1>1, <1>2, ReleasedRows, ReportType DEF Refused, TypeOK, Events
<1>3. CASE NotStarted(h)
    BY <1>1, <1>3, FailedRows, ReportType DEF NotStarted, TypeOK, Events
<1>4. CASE Started(h)
    <2>1. local[h.attempt].state # "NONE"
        BY <1>4 DEF Started, Reserved
    <2>2. local' \in [Attempts -> LocalRows]
        BY <1>1, <1>4, <2>1, BecomingRow DEF Started, TypeOK, ProcessStates
    <2>3. reported' \in [Attempts -> SUBSET Events]
        BY <1>1, <1>4, ReportType DEF Started, TypeOK, Events
    <2>4. acks' \subseteq Attempts
        BY <1>1, <1>4 DEF Started, Acknowledged, TypeOK
    <2> QED BY <1>1, <1>4, <2>2, <2>3, <2>4 DEF Started, TypeOK
<1> QED BY <1>2, <1>3, <1>4

LEMMA TypeChain ==
    ASSUME TypeOK, NEW c \in Connections, HandleLaunch(c) \/ HandleAnswer(c) \/ GiveUp(c)
    PROVE  TypeOK'
<1>1. CASE HandleLaunch(c)
    <2>1. inbox' \in [Connections -> Seq(Frames)] /\ Head(inbox[c]) \in Frames
        BY <1>1, TakenFrame DEF HandleLaunch, TypeOK
    <2>2. Head(inbox[c]).attempt \in Attempts
        BY <2>1 DEF Frames
    <2>3. preparing' \subseteq Preparations
        BY <1>1, <2>2 DEF HandleLaunch, TypeOK, Preparations
    <2> QED
        BY <1>1, <2>1, <2>3 DEF HandleLaunch, TypeOK, diskVars, channelVars, processVars
<1>2. CASE HandleAnswer(c)
    <2>1. inbox' \in [Connections -> Seq(Frames)]
        BY <1>2, TakenFrame DEF HandleAnswer, TypeOK
    <2>2. \/ UNCHANGED <<consuming, processVars>>
          \/ \E h \in consuming : Refused(h) \/ NotStarted(h) \/ Started(h)
        BY <1>2 DEF HandleAnswer
    <2>3. /\ consuming' \subseteq Consumptions /\ watched' \subseteq Attempts
          /\ local' \in [Attempts -> LocalRows] /\ reported' \in [Attempts -> SUBSET Events]
          /\ acks' \subseteq Attempts
          /\ running' \in [Attempts -> BOOLEAN] /\ spawned' \in [Attempts -> BOOLEAN]
        BY <2>2, TypeAnswered DEF TypeOK, processVars
    <2> QED BY <1>2, <2>1, <2>3 DEF HandleAnswer, TypeOK, diskVars, channelVars
<1>3. CASE GiveUp(c)
    <2>1. PICK h \in consuming : TimeOut(h)
        BY <1>3 DEF GiveUp
    <2>2. /\ consuming' \subseteq Consumptions /\ watched' \subseteq Attempts
          /\ local' \in [Attempts -> LocalRows] /\ reported' \in [Attempts -> SUBSET Events]
          /\ acks' \subseteq Attempts
          /\ running' \in [Attempts -> BOOLEAN] /\ spawned' \in [Attempts -> BOOLEAN]
        BY <2>1, TypeAnswered DEF TimeOut
    <2> QED BY <2>1, <2>2 DEF TimeOut, TypeOK, diskVars, channelVars
<1> QED BY <1>1, <1>2, <1>3

LEMMA TypeExit ==
    ASSUME TypeOK, NEW a \in Attempts, Exit(a)
    PROVE  TypeOK'
<1>1. local' \in [Attempts -> LocalRows]
    BY BecomingRow DEF Exit, TypeOK, ProcessStates
<1>2. reported' \in [Attempts -> SUBSET Events]
    BY ReportType DEF Exit, TypeOK, Events
<1> QED BY <1>1, <1>2 DEF Exit, TypeOK, diskVars, channelVars, handlerVars

LEMMA TypeReboot ==
    ASSUME TypeOK, Reboot,
           local' \in [Attempts -> LocalRows], reported' \in [Attempts -> SUBSET Events],
           acks' \subseteq Attempts,
           running' \in [Attempts -> BOOLEAN], spawned' \in [Attempts -> BOOLEAN]
    PROVE  TypeOK'
<1>1. up' \in Seq(Requests)
    BY PrefixMembers DEF Reboot, TypeOK
<1>2. inbox' \in [Connections -> Seq(Frames)]
    BY EmptySequence DEF Reboot
<1>3. restarts' \in 0..MaxRestarts
    BY BoundsAssumption DEF Reboot, TypeOK
<1> QED BY <1>1, <1>2, <1>3 DEF Reboot, TypeOK, diskVars, channelVars

\* What a crash in the middle of a start leaves behind.
LEMMA CrashedStart ==
    ASSUME TypeOK, NEW c \in Connections, CrashStarting(c)
    PROVE  \E h \in consuming, point \in Points :
              LET a == h.attempt IN
              /\ a \in Attempts
              /\ h.request = Head(inbox[c]).request
              /\ Reserved(a, h.reservation)
              /\ \E state \in {"STARTING", "STARTED"} : local' = Becoming(a, state)
              /\ running' = [running EXCEPT ![a] = point # "FENCED"]
              /\ spawned' = [spawned EXCEPT ![a] = point # "FENCED"]
              /\ Report(a, "PROCESS_STARTED") \/ UNCHANGED reported
BY DEF CrashStarting, TypeOK, Consumptions

LEMMA TypeCrash ==
    ASSUME TypeOK, NEW c \in Connections, CrashStarting(c)
    PROVE  TypeOK'
<1>1. PICK h \in consuming, point \in Points :
              LET a == h.attempt IN
              /\ a \in Attempts
              /\ h.request = Head(inbox[c]).request
              /\ Reserved(a, h.reservation)
              /\ \E state \in {"STARTING", "STARTED"} : local' = Becoming(a, state)
              /\ running' = [running EXCEPT ![a] = point # "FENCED"]
              /\ spawned' = [spawned EXCEPT ![a] = point # "FENCED"]
              /\ Report(a, "PROCESS_STARTED") \/ UNCHANGED reported
    BY CrashedStart
<1>2. local' \in [Attempts -> LocalRows]
    BY <1>1, BecomingRow DEF TypeOK, Reserved, ProcessStates
<1>3. reported' \in [Attempts -> SUBSET Events]
    BY <1>1, ReportType DEF TypeOK, Events
<1>4. /\ running' \in [Attempts -> BOOLEAN] /\ spawned' \in [Attempts -> BOOLEAN]
      /\ acks' \subseteq Attempts /\ Reboot
    BY <1>1 DEF TypeOK, CrashStarting
<1> QED BY <1>2, <1>3, <1>4, TypeReboot

LEMMA TypeNext == TypeOK /\ [Next]_vars => TypeOK'
<1> SUFFICES ASSUME TypeOK, [Next]_vars PROVE TypeOK'
    OBVIOUS
<1>1. ASSUME NEW a \in Attempts,
             Commit(a) \/ ReceiveAck(a) \/ Revoke(a) \/ Expire(a) \/ PassDeadline(a)
      PROVE  TypeOK'
    BY <1>1, TypeServer
<1>2. ASSUME NEW a \in Attempts, Dispatch(a) \/ FailAck(a) \/ Exit(a) PROVE TypeOK'
    BY <1>2, TypeDispatch, TypeBreak, TypeExit
<1>3. CASE Drain \/ Consume \/ Connect
    BY <1>3, TypeDrain, TypeConsume, TypeConnect
<1>4. CASE Detach
    BY <1>4, EmptySequence DEF Detach, TypeOK, diskVars, channelVars, handlerVars, processVars
<1>5. CASE Break \/ ServerRestart
    BY <1>5, TypeBreak
<1>6. ASSUME NEW c \in Connections, GoOn(c) PROVE TypeOK'
    BY <1>6, TypeChain, TypeHandler DEF GoOn, FinishPreparation
<1>7. ASSUME NEW c \in Connections, CrashStarting(c) PROVE TypeOK'
    BY <1>7, TypeCrash
<1>8. CASE RunnerRestart
    BY <1>8, TypeReboot DEF RunnerRestart, TypeOK
<1>9. CASE UNCHANGED vars
    BY <1>9 DEF vars, TypeOK, diskVars, channelVars, handlerVars, processVars
<1> QED BY <1>1, <1>2, <1>3, <1>4, <1>5, <1>6, <1>7, <1>8, <1>9 DEF Next

\* The variables always have their types.
THEOREM TypeCorrect == Spec => []TypeOK
<1> QED BY TypeInit, TypeNext, PTL DEF Spec

-------------------------------------------------------------------------------
(* Deliveries.                                                             *)

LEMMA RetainedNext == TypeOK /\ DeliveryIsRetained /\ [Next]_vars => DeliveryIsRetained'
<1> SUFFICES ASSUME TypeOK, DeliveryIsRetained, [Next]_vars PROVE DeliveryIsRetained'
    OBVIOUS
<1> USE DEF DeliveryIsRetained, Undelivered, diskVars, channelVars
<1>1. ASSUME NEW a \in Attempts, Commit(a) PROVE DeliveryIsRetained'
    BY <1>1 DEF Commit, TypeOK
<1>2. ASSUME NEW a \in Attempts, Dispatch(a) PROVE DeliveryIsRetained'
    BY <1>2 DEF Dispatch, TypeOK
<1>3. ASSUME NEW a \in Attempts, ReceiveAck(a) PROVE DeliveryIsRetained'
    BY <1>3 DEF ReceiveAck, TypeOK
<1>4. ASSUME NEW a \in Attempts, FailAck(a) \/ Revoke(a) \/ PassDeadline(a) \/ Exit(a)
      PROVE  DeliveryIsRetained'
    BY <1>4 DEF FailAck, Revoke, PassDeadline, Exit
<1>5. ASSUME NEW a \in Attempts, Expire(a) PROVE DeliveryIsRetained'
    BY <1>5 DEF Expire
<1>6. CASE Drain
    BY <1>6 DEF Drain
<1>7. CASE Detach \/ Consume \/ Connect \/ Break
    BY <1>7 DEF Detach, Consume, Connect, Break
<1>8. CASE ServerRestart
    BY <1>8 DEF ServerRestart, Primed
<1>9. ASSUME NEW c \in Connections, GoOn(c) \/ CrashStarting(c) PROVE DeliveryIsRetained'
    BY <1>9
    DEF GoOn, HandleLaunch, FinishPreparation, FailPreparation, Reserve, HandleAnswer,
        GiveUp, TimeOut, CrashStarting, Reboot
<1>10. CASE RunnerRestart
    BY <1>10 DEF RunnerRestart, Reboot
<1>11. CASE UNCHANGED vars
    BY <1>11 DEF vars
<1> QED
    BY <1>1, <1>2, <1>3, <1>4, <1>5, <1>6, <1>7, <1>8, <1>9, <1>10, <1>11 DEF Next

\* A committed launch stays with the channel until it is acknowledged or expires.
THEOREM DeliveriesAreRetained == Spec => []DeliveryIsRetained
<1>1. Init => DeliveryIsRetained
    BY DEF Init, DeliveryIsRetained, Undelivered
<1> QED BY <1>1, TypeCorrect, RetainedNext, PTL DEF Spec

-------------------------------------------------------------------------------
(* The inductive invariant: what requests and answers on their way say of  *)
(* the handlers that wait, and what the tables say of the processes.       *)

\* Request r was made, and the handler that waits for its answer is the one that made it.
Asked(r) ==
    /\ r.request <= issued
    /\ \A h \in consuming : h.request = r.request => h.attempt = r.attempt

\* An answer tells the truth about the permit.
Truthful(f) == f.kind = "ANSWER" => Asked(f) /\ (f.granted => permit[f.attempt] = "CONSUMED")

RequestsWereAsked == \A r \in Members(up) : Asked(r)
AnswersAreTruthful == \A c \in Connections : \A f \in Members(inbox[c]) : Truthful(f)
NumbersWereIssued ==
    /\ \A h \in consuming : h.request <= issued
    /\ \A a \in Attempts : local[a].reservation <= issued

MessagesInv == RequestsWereAsked /\ AnswersAreTruthful /\ NumbersWereIssued

UncommittedHasNoPermit == \A a \in Attempts : row[a] = "NONE" => permit[a] = "NONE"
RunsUnderPermit ==
    \A a \in Attempts :
        /\ running[a] => spawned[a]
        /\ spawned[a] =>
              permit[a] = "CONSUMED" /\ local[a].state \in {"STARTING", "STARTED", "EXITED"}
NoHandlerIsStarting == \A h \in consuming : local[h.attempt].state # "STARTING"
AcknowledgementIsOfStart ==
    \A a \in Attempts :
        a \in acks \/ row[a] = "ACKNOWLEDGED" =>
            local[a].state \in {"STARTED", "EXITED"} /\ "PROCESS_STARTED" \in reported[a]

ProcessInv ==
    /\ UncommittedHasNoPermit /\ RunsUnderPermit /\ RunningIsRecorded
    /\ NoHandlerIsStarting /\ AcknowledgementIsOfStart /\ ReservationIsAttended

LaunchInv == TypeOK /\ MessagesInv /\ ProcessInv

\* What every step does to the numbers and to consumed permits.
Progress ==
    /\ issued <= issued'
    /\ \A h \in consuming' : h \in consuming \/ (h.request = issued' /\ issued < issued')
    /\ \A a \in Attempts : permit[a] = "CONSUMED" => permit'[a] = "CONSUMED"
    /\ \A a \in Attempts :
          local'[a].reservation = local[a].reservation \/ local'[a].reservation <= issued'

\* Messages on their way stay true under such a step, and new ones are to be looked at.
LEMMA MessagesStay ==
    ASSUME TypeOK, TypeOK', MessagesInv, Progress,
           \A r \in Members(up') : r \in Members(up) \/ Asked(r)',
           \A c \in Connections : \A f \in Members(inbox'[c]) :
               f \in Members(inbox[c]) \/ Truthful(f)'
    PROVE  MessagesInv'
<1>1. ASSUME NEW r, Asked(r), r.request \in Nat PROVE Asked(r)'
    BY <1>1 DEF Asked, Progress, TypeOK, Consumptions
<1>2. RequestsWereAsked'
    <2>1. \A r \in Members(up) : r \in Requests /\ Asked(r)
        BY DEF MessagesInv, RequestsWereAsked, TypeOK, Members
    <2>2. \A r \in Members(up) : Asked(r)'
        BY <1>1, <2>1 DEF Requests
    <2> QED BY <2>2 DEF RequestsWereAsked
<1>3. AnswersAreTruthful'
    <2>1. ASSUME NEW c \in Connections, NEW f \in Members(inbox[c]) PROVE Truthful(f)'
        <3>1. f \in Frames /\ Truthful(f)
            BY DEF MessagesInv, AnswersAreTruthful, TypeOK, Members
        <3>2. CASE f.kind = "ANSWER"
            <4>1. f.request \in Nat /\ f.attempt \in Attempts
                BY <3>1, <3>2 DEF Frames
            <4>2. Asked(f)'
                BY <1>1, <3>1, <3>2, <4>1 DEF Truthful
            <4> QED BY <3>1, <3>2, <4>1, <4>2 DEF Truthful, Progress
        <3>3. CASE f.kind # "ANSWER"
            BY <3>3 DEF Truthful
        <3> QED BY <3>2, <3>3
    <2> QED BY <2>1 DEF AnswersAreTruthful
<1>4. NumbersWereIssued'
    <2>1. issued \in Nat /\ issued' \in Nat /\ issued <= issued'
        BY DEF TypeOK, Progress
    <2>2. \A h \in consuming : h.request \in Nat /\ h.request <= issued
        BY DEF TypeOK, Consumptions, MessagesInv, NumbersWereIssued
    <2>3. \A h \in consuming' : h.request <= issued'
        BY <2>1, <2>2 DEF Progress
    <2>4. \A a \in Attempts : local[a].reservation \in Nat /\ local[a].reservation <= issued
        BY RowType DEF TypeOK, MessagesInv, NumbersWereIssued
    <2>5. \A a \in Attempts : local'[a].reservation <= issued'
        BY <2>1, <2>4 DEF Progress
    <2> QED BY <2>3, <2>5 DEF NumbersWereIssued
<1> QED BY <1>2, <1>3, <1>4 DEF MessagesInv

\* A step in which nothing happens to a process: handlers may be lost with the daemon,
\* acknowledgements are taken, rows are committed.
Quiet ==
    /\ UNCHANGED <<local, running, spawned, reported, issued>>
    /\ acks' \subseteq acks
    /\ UNCHANGED <<consuming, bootedAt>> \/ (consuming' = {} /\ bootedAt' = issued)
    /\ \A a \in Attempts :
          /\ permit[a] = "CONSUMED" => permit'[a] = "CONSUMED"
          /\ row'[a] = "ACKNOWLEDGED" => row[a] = "ACKNOWLEDGED" \/ a \in acks
          /\ row'[a] = "NONE" => permit'[a] = "NONE"

LEMMA QuietKeeps ==
    ASSUME LaunchInv, Quiet
    PROVE  Progress /\ ProcessInv'
<1> USE DEF LaunchInv, ProcessInv, MessagesInv, Quiet
<1>1. Progress
    <2>1. issued \in Nat
        BY DEF TypeOK
    <2> QED BY <2>1 DEF Progress
<1>2. UncommittedHasNoPermit' /\ RunsUnderPermit' /\ RunningIsRecorded'
    BY DEF UncommittedHasNoPermit, RunsUnderPermit, RunningIsRecorded
<1>3. NoHandlerIsStarting'
    BY DEF NoHandlerIsStarting
<1>4. AcknowledgementIsOfStart'
    BY DEF AcknowledgementIsOfStart
<1>5. ReservationIsAttended'
    <2>1. CASE UNCHANGED <<consuming, bootedAt>>
        BY <2>1 DEF ReservationIsAttended
    <2>2. CASE bootedAt' = issued
        BY <2>2, RowType DEF ReservationIsAttended, NumbersWereIssued, TypeOK
    <2> QED BY <2>1, <2>2
<1> QED BY <1>1, <1>2, <1>3, <1>4, <1>5

\* The server's steps, the connection's, and the restart of the daemon.
QuietStep ==
    \/ \E a \in Attempts :
          \/ Commit(a) \/ Dispatch(a) \/ ReceiveAck(a) \/ FailAck(a)
          \/ Revoke(a) \/ Expire(a) \/ PassDeadline(a)
    \/ Drain \/ Detach \/ ServerRestart \/ Connect \/ Break
    \/ RunnerRestart
    \/ \E c \in Connections : HandleLaunch(c)

LEMMA QuietSteps ==
    ASSUME LaunchInv, QuietStep \/ Consume
    PROVE  Quiet
<1> USE DEF LaunchInv, ProcessInv, UncommittedHasNoPermit, Quiet,
            diskVars, handlerVars, processVars
<1>1. ASSUME NEW a \in Attempts, Commit(a) PROVE Quiet
    BY <1>1 DEF Commit, TypeOK
<1>2. ASSUME NEW a \in Attempts, Dispatch(a) PROVE Quiet
    BY <1>2 DEF Dispatch, TypeOK
<1>3. ASSUME NEW a \in Attempts, ReceiveAck(a) PROVE Quiet
    BY <1>3 DEF ReceiveAck, TypeOK
<1>4. ASSUME NEW a \in Attempts, FailAck(a) \/ Expire(a) \/ PassDeadline(a) PROVE Quiet
    BY <1>4 DEF FailAck, Expire, PassDeadline
<1>5. ASSUME NEW a \in Attempts, Revoke(a) PROVE Quiet
    BY <1>5 DEF Revoke, TypeOK
<1>6. CASE Consume
    <2>1. Head(up).attempt \in Attempts
        <3>1. up \in Seq(Requests) /\ up # <<>>
            BY <1>6 DEF Consume, TypeOK
        <3>2. Head(up) \in Requests
            BY <3>1, TailMembers
        <3> QED BY <3>2 DEF Requests
    <2>2. UNCHANGED <<local, running, spawned, reported, issued, acks, consuming, bootedAt, row>>
        BY <1>6 DEF Consume
    <2>3. \/ UNCHANGED permit
          \/ /\ permit[Head(up).attempt] = "ISSUED"
             /\ \/ permit' = [permit EXCEPT ![Head(up).attempt] = "CONSUMED"]
                \/ permit' = [permit EXCEPT ![Head(up).attempt] = "REVOKED"]
                \/ permit' = [permit EXCEPT ![Head(up).attempt] = "EXPIRED"]
        BY <1>6 DEF Consume
    <2> QED BY <2>1, <2>2, <2>3 DEF TypeOK
<1>7. CASE Drain \/ Detach \/ ServerRestart \/ Connect \/ Break
    BY <1>7 DEF Drain, Detach, ServerRestart, Connect, Break
<1>8. ASSUME NEW c \in Connections, HandleLaunch(c) PROVE Quiet
    BY <1>8 DEF HandleLaunch
<1>9. CASE RunnerRestart
    BY <1>9 DEF RunnerRestart, Reboot
<1> QED BY <1>1, <1>2, <1>3, <1>4, <1>5, <1>6, <1>7, <1>8, <1>9 DEF QuietStep

\* Requests are lost, and nothing but launches is sent, in all of them but Consume.
LEMMA QuietArrivals ==
    ASSUME TypeOK, QuietStep
    PROVE  /\ Members(up') \subseteq Members(up)
           /\ \A c \in Connections : \A f \in Members(inbox'[c]) :
                 f \in Members(inbox[c]) \/ f.kind = "LAUNCH"
<1> DEFINE Arrivals == \A c \in Connections : \A f \in Members(inbox'[c]) :
                           f \in Members(inbox[c]) \/ f.kind = "LAUNCH"
           Goal == Members(up') \subseteq Members(up) /\ Arrivals
<1>1. inbox \in [Connections -> Seq(Frames)] /\ up \in Seq(Requests)
    BY DEF TypeOK
<1>2. Members(<<>>) = {}
    BY DEF Members
<1>3. ASSUME NEW a \in Attempts, Commit(a) \/ ReceiveAck(a) \/ Revoke(a) \/ Expire(a) \/ PassDeadline(a) PROVE Goal
    BY <1>3 DEF Commit, ReceiveAck, Revoke, Expire, PassDeadline
<1>4. ASSUME NEW a \in Attempts, Dispatch(a) PROVE Goal
    <2>1. /\ UNCHANGED up
          /\ UNCHANGED inbox \/ Receives(<<Launch(a)>>) \/ Receives(<<>>)
        BY <1>4 DEF Dispatch
    <2>2. <<Launch(a)>> \in Seq(Frames) /\ \A f \in Members(<<Launch(a)>>) : f.kind = "LAUNCH"
        BY DEF Launch, Frames, Members
    <2>3. CASE Receives(<<Launch(a)>>)
        BY <1>1, <2>1, <2>2, <2>3, ReceivedFrames
    <2>4. CASE Receives(<<>>)
        BY <1>1, <1>2, <2>1, <2>4, EmptySequence, ReceivedFrames
    <2> QED BY <2>1, <2>3, <2>4
<1>5. CASE Drain
    <2>1. UNCHANGED up
        BY <1>5 DEF Drain
    <2>2. PICK S \in SUBSET Attempts :
              \E s \in Orders(S) : Receives([i \in DOMAIN s |-> Launch(s[i])])
        <3>1. PICK outcome \in [queued -> Outcomes] :
                  \E s \in Orders(With(outcome, {"SENT", "ENQUEUED"})) :
                      Receives([i \in DOMAIN s |-> Launch(s[i])])
            BY <1>5 DEF Drain
        <3>2. With(outcome, {"SENT", "ENQUEUED"}) \in SUBSET Attempts
            BY DEF With, TypeOK
        <3> QED BY <3>1, <3>2
    <2>3. PICK s \in Orders(S) : Receives([i \in DOMAIN s |-> Launch(s[i])])
        BY <2>2
    <2>4. Arrivals
        BY <1>1, <2>3, LaunchFrames, ReceivedFrames
    <2> QED BY <2>1, <2>4
<1>6. CASE Connect
    <2>1. up' = <<>>
        BY <1>6 DEF Connect
    <2>2. PICK S \in SUBSET Attempts :
              \E s \in Orders(S) :
                  inbox' = [inbox EXCEPT ![conn + 1] = [i \in DOMAIN s |-> Launch(s[i])]]
        <3>1. PICK outcome \in [pending \ expired -> Outcomes] :
                  \E s \in Orders(With(outcome, {"SENT", "ENQUEUED"})) :
                      inbox' = [inbox EXCEPT ![conn + 1] = [i \in DOMAIN s |-> Launch(s[i])]]
            BY <1>6 DEF Connect
        <3>2. With(outcome, {"SENT", "ENQUEUED"}) \in SUBSET Attempts
            BY DEF With, TypeOK
        <3> QED BY <3>1, <3>2
    <2>3. PICK s \in Orders(S) :
              inbox' = [inbox EXCEPT ![conn + 1] = [i \in DOMAIN s |-> Launch(s[i])]]
        BY <2>2
    <2>4. Arrivals
        BY <1>1, <2>3, LaunchFrames
    <2> QED BY <1>2, <2>1, <2>4
<1>7. CASE Detach \/ ServerRestart \/ \E a \in Attempts : FailAck(a)
    <2>1. up' = <<>> /\ (UNCHANGED inbox \/ Cut)
        BY <1>7 DEF Detach, ServerRestart, FailAck
    <2>2. Arrivals
        BY <1>1, <2>1, CutFrames
    <2> QED BY <1>2, <2>1, <2>2
<1>8. CASE Break
    BY <1>1, <1>8, CutFrames, PrefixMembers DEF Break
<1>9. ASSUME NEW d \in Connections, HandleLaunch(d) PROVE Goal
    BY <1>1, <1>9, TakenFrame DEF HandleLaunch
<1>10. CASE RunnerRestart
    BY <1>1, <1>2, <1>10, PrefixMembers DEF RunnerRestart, Reboot
<1> QED BY <1>3, <1>4, <1>5, <1>6, <1>7, <1>8, <1>9, <1>10 DEF QuietStep

\* The server answers a request with what became of the permit.
LEMMA ConsumeAnswers ==
    ASSUME LaunchInv, Consume
    PROVE  /\ Members(up') \subseteq Members(up)
           /\ \A c \in Connections : \A f \in Members(inbox'[c]) :
                 f \in Members(inbox[c]) \/ Truthful(f)'
<1> DEFINE r == Head(up)
<1>1. /\ r \in Requests /\ r \in Members(up) /\ Members(up') \subseteq Members(up)
    <2>1. up \in Seq(Requests) /\ up # <<>> /\ up' = Tail(up)
        BY DEF Consume, LaunchInv, TypeOK
    <2> QED BY <2>1, TailMembers
<1>2. Asked(r) /\ UNCHANGED <<issued, consuming>>
    BY <1>1 DEF Consume, LaunchInv, MessagesInv, RequestsWereAsked, handlerVars
<1>3. r.attempt \in Attempts /\ r.request \in Nat
    BY <1>1 DEF Requests
<1>4. \/ UNCHANGED inbox
      \/ \E g \in BOOLEAN : /\ Receives(<<Answer(r.request, r.attempt, g)>>)
                            /\ g => permit' = [permit EXCEPT ![r.attempt] = "CONSUMED"]
    BY DEF Consume
<1>5. ASSUME NEW g \in BOOLEAN, Receives(<<Answer(r.request, r.attempt, g)>>),
             g => permit' = [permit EXCEPT ![r.attempt] = "CONSUMED"]
      PROVE  \A c \in Connections : \A f \in Members(inbox'[c]) :
                 f \in Members(inbox[c]) \/ Truthful(f)'
    <2>1. PICK f \in Frames : /\ f = Answer(r.request, r.attempt, g)
                              /\ f.kind = "ANSWER" /\ f.request = r.request
                              /\ f.attempt = r.attempt /\ f.granted = g
        <3>1. Answer(r.request, r.attempt, g) \in Frames
            BY <1>3 DEF Answer, Frames
        <3>2. /\ Answer(r.request, r.attempt, g).kind = "ANSWER"
              /\ Answer(r.request, r.attempt, g).request = r.request
              /\ Answer(r.request, r.attempt, g).attempt = r.attempt
              /\ Answer(r.request, r.attempt, g).granted = g
            BY DEF Answer
        <3> QED BY <3>1, <3>2
    <2>2. <<f>> \in Seq(Frames) /\ Members(<<f>>) = {f}
        BY DEF Members
    <2>3. Asked(f)'
        BY <1>2, <2>1 DEF Asked
    <2>4. g => permit'[f.attempt] = "CONSUMED"
        <3>1. permit \in [Attempts -> PermitStates] /\ r.attempt \in Attempts
            BY <1>3 DEF LaunchInv, TypeOK
        <3>2. g => permit'[r.attempt] = "CONSUMED"
            BY <1>5, <3>1
        <3> QED BY <2>1, <3>2
    <2>5. Truthful(f)'
        BY <2>1, <2>3, <2>4 DEF Truthful
    <2>6. \A c \in Connections : Members(inbox'[c]) \subseteq Members(inbox[c]) \cup {f}
        BY <1>5, <2>1, <2>2, ReceivedFrames DEF LaunchInv, TypeOK
    <2> QED BY <2>5, <2>6
<1> QED BY <1>1, <1>4, <1>5

LEMMA QuietMessages ==
    ASSUME LaunchInv, TypeOK', QuietStep \/ Consume, Quiet
    PROVE  MessagesInv'
<1>1. Progress
    BY QuietKeeps
<1>2. CASE Consume
    BY <1>1, <1>2, ConsumeAnswers, MessagesStay DEF LaunchInv
<1>3. CASE ~Consume
    <2>1. /\ Members(up') \subseteq Members(up)
          /\ \A c \in Connections : \A f \in Members(inbox'[c]) :
                 f \in Members(inbox[c]) \/ f.kind = "LAUNCH"
        BY <1>3, QuietArrivals DEF LaunchInv
    <2>2. ASSUME NEW f, f.kind = "LAUNCH" PROVE Truthful(f)'
        BY <2>2 DEF Truthful
    <2> QED BY <1>1, <2>1, <2>2, MessagesStay DEF LaunchInv
<1> QED BY <1>2, <1>3

\* What a step of the runner's handlers, or the end of a process, does to one attempt.
\* a: the attempt; the row becomes r.
RowBecomes(a, r) ==
    /\ local' \in [Attempts -> LocalRows] /\ local'[a] = r
    /\ \A b \in Attempts \ {a} :
          local'[b] = local[b] /\ running'[b] = running[b] /\ spawned'[b] = spawned[b]
    /\ \A b \in Attempts : reported[b] \subseteq reported'[b]
    /\ UNCHANGED <<row, permit>>

\* No handler starts a process: the rows that say STARTING were left by a crash.
LEMMA RowKeeps ==
    ASSUME LaunchInv, NEW a \in Attempts, NEW r, RowBecomes(a, r),
           UNCHANGED <<running, spawned>>,
           acks' = acks, r.state # "STARTING",
           r = local[a] \/ local[a].state \in {"NONE", "RESERVED"},
           \A h \in consuming' : h \in consuming \/ h.attempt = a
    PROVE  /\ UncommittedHasNoPermit' /\ RunsUnderPermit' /\ RunningIsRecorded'
           /\ NoHandlerIsStarting' /\ AcknowledgementIsOfStart'
<1> USE DEF LaunchInv, ProcessInv, RowBecomes
<1>1. UncommittedHasNoPermit'
    BY DEF UncommittedHasNoPermit
<1>2. RunsUnderPermit'
    BY DEF RunsUnderPermit
<1>3. RunningIsRecorded'
    BY DEF RunsUnderPermit, RunningIsRecorded
<1>4. NoHandlerIsStarting'
    BY DEF NoHandlerIsStarting, TypeOK, Consumptions
<1>5. AcknowledgementIsOfStart'
    BY DEF AcknowledgementIsOfStart
<1> QED BY <1>1, <1>2, <1>3, <1>4, <1>5

\* A handler that gives up: its reservation goes, or becomes a failure, or was gone.
LEMMA GivenUp ==
    ASSUME LaunchInv, NEW h \in consuming, Refused(h) \/ NotStarted(h),
           UNCHANGED <<row, permit, issued, bootedAt>>
    PROVE  Progress /\ ProcessInv'
<1> DEFINE a == h.attempt
<1>1. /\ a \in Attempts /\ local \in [Attempts -> LocalRows] /\ issued \in Nat
      /\ reported \in [Attempts -> SUBSET Events]
    BY DEF LaunchInv, TypeOK, Consumptions
<1>2. local[a].state # "STARTING"
    BY DEF LaunchInv, ProcessInv, NoHandlerIsStarting
<1>3. /\ \A b \in Attempts : reported[b] \subseteq reported'[b]
      /\ consuming' = consuming \ {h} /\ UNCHANGED <<acks, running, spawned>>
    BY <1>1, ReportType DEF Refused, NotStarted, Events
<1>4. \/ local' = local /\ ~Reserved(a, h.reservation)
      \/ local' = [local EXCEPT ![a] = NoRow] /\ Reserved(a, h.reservation)
      \/ local' = Becoming(a, "FAILED_TO_START") /\ Reserved(a, h.reservation)
    BY <1>2 DEF Refused, NotStarted, Released, FailedLocally, Reserved
<1>5. /\ local' \in [Attempts -> LocalRows]
      /\ \A b \in Attempts \ {a} : local'[b] = local[b]
      /\ \/ local'[a] = local[a] /\ ~Reserved(a, h.reservation)
         \/ /\ Reserved(a, h.reservation) /\ local'[a].state \in {"NONE", "FAILED_TO_START"}
            /\ local'[a].reservation \in {0, local[a].reservation}
    <2>1. CASE local' = local /\ ~Reserved(a, h.reservation)
        BY <1>1, <2>1
    <2>2. CASE local' = [local EXCEPT ![a] = NoRow] /\ Reserved(a, h.reservation)
        BY <1>1, <2>2 DEF NoRow, LocalRows
    <2>3. CASE local' = Becoming(a, "FAILED_TO_START") /\ Reserved(a, h.reservation)
        BY <1>1, <2>3, BecomingRow DEF Reserved, ProcessStates
    <2> QED BY <1>4, <2>1, <2>2, <2>3
<1>6. /\ UncommittedHasNoPermit' /\ RunsUnderPermit' /\ RunningIsRecorded'
      /\ NoHandlerIsStarting' /\ AcknowledgementIsOfStart'
    <2>1. RowBecomes(a, local'[a])
        BY <1>3, <1>5 DEF RowBecomes
    <2>2. local'[a].state # "STARTING"
        BY <1>2, <1>5
    <2>3. local'[a] = local[a] \/ local[a].state \in {"NONE", "RESERVED"}
        BY <1>5 DEF Reserved
    <2> QED BY <1>1, <1>3, <2>1, <2>2, <2>3, RowKeeps
<1>7. ReservationIsAttended'
    <2> SUFFICES ASSUME NEW b \in Attempts, local'[b].state = "RESERVED",
                        local'[b].reservation > bootedAt
                 PROVE  \E k \in consuming \ {h} :
                            k.attempt = b /\ k.reservation = local'[b].reservation
        BY <1>3 DEF ReservationIsAttended
    <2>1. local'[b] = local[b] /\ (b = a => ~Reserved(a, h.reservation))
        BY <1>5
    <2>2. PICK k \in consuming : k.attempt = b /\ k.reservation = local[b].reservation
        BY <2>1 DEF LaunchInv, ProcessInv, ReservationIsAttended
    <2>3. k # h
        BY <2>1, <2>2 DEF Reserved
    <2> QED BY <2>1, <2>2, <2>3
<1>8. Progress
    <2>1. \A b \in Attempts : local'[b].reservation = local[b].reservation \/ local'[b].reservation = 0
        BY <1>1, <1>5
    <2> QED BY <1>1, <1>3, <2>1 DEF Progress
<1> QED BY <1>6, <1>7, <1>8 DEF ProcessInv

\* A handler that starts its process.
LEMMA StartKeeps ==
    ASSUME LaunchInv, NEW h \in consuming, Started(h), permit[h.attempt] = "CONSUMED",
           UNCHANGED <<row, permit, issued, bootedAt>>
    PROVE  Progress /\ ProcessInv'
<1> DEFINE a == h.attempt
<1>1. /\ a \in Attempts /\ local \in [Attempts -> LocalRows] /\ issued \in Nat
      /\ reported \in [Attempts -> SUBSET Events]
      /\ running \in [Attempts -> BOOLEAN] /\ spawned \in [Attempts -> BOOLEAN]
    BY DEF LaunchInv, TypeOK, Consumptions
<1>2. local[a].state = "RESERVED"
    BY DEF Started, Reserved
<1>3. /\ local'[a].state = "STARTED" /\ local'[a].reservation = local[a].reservation
      /\ \A b \in Attempts \ {a} : local'[b] = local[b]
    BY <1>1, <1>2, BecomingRow DEF Started, ProcessStates
<1>4. /\ \A b \in Attempts : reported[b] \subseteq reported'[b]
      /\ acks' = acks \/ (acks' = acks \cup {a} /\ "PROCESS_STARTED" \in reported'[a])
    BY <1>1, ReportType DEF Started, Acknowledged, Events
<1>5. /\ running' = [running EXCEPT ![a] = TRUE] /\ spawned' = [spawned EXCEPT ![a] = TRUE]
      /\ consuming' = consuming \ {h}
    BY DEF Started
<1>6. UncommittedHasNoPermit' /\ RunsUnderPermit' /\ RunningIsRecorded'
    BY <1>1, <1>3, <1>5
    DEF LaunchInv, ProcessInv, UncommittedHasNoPermit, RunsUnderPermit, RunningIsRecorded
<1>7. NoHandlerIsStarting'
    BY <1>3, <1>5
    DEF LaunchInv, ProcessInv, NoHandlerIsStarting, TypeOK, Consumptions
<1>8. AcknowledgementIsOfStart'
    <2>1. a \notin acks /\ row[a] # "ACKNOWLEDGED"
        BY <1>1, <1>2 DEF LaunchInv, ProcessInv, AcknowledgementIsOfStart
    <2> QED
        BY <1>3, <1>4, <2>1 DEF LaunchInv, ProcessInv, AcknowledgementIsOfStart
<1>9. ReservationIsAttended'
    <2> SUFFICES ASSUME NEW b \in Attempts, local'[b].state = "RESERVED",
                        local'[b].reservation > bootedAt
                 PROVE  \E k \in consuming \ {h} :
                            k.attempt = b /\ k.reservation = local'[b].reservation
        BY <1>5 DEF ReservationIsAttended
    <2>1. b # a /\ local'[b] = local[b]
        BY <1>3
    <2>2. PICK k \in consuming : k.attempt = b /\ k.reservation = local[b].reservation
        BY <2>1 DEF LaunchInv, ProcessInv, ReservationIsAttended
    <2> QED BY <2>1, <2>2
<1>10. Progress
    BY <1>1, <1>3, <1>5 DEF Progress
<1> QED BY <1>6, <1>7, <1>8, <1>9, <1>10 DEF ProcessInv

\* A preparation that fails only reports it.
LEMMA PreparationFails ==
    ASSUME LaunchInv, NEW h \in preparing, FailPreparation(h)
    PROVE  Progress /\ ProcessInv' /\ UNCHANGED <<up, inbox, issued, consuming>>
<1>1. h.attempt \in Attempts /\ issued \in Nat
    BY DEF LaunchInv, TypeOK, Preparations
<1>2. \A b \in Attempts : reported[b] \subseteq reported'[b]
    BY <1>1, ReportType DEF FailPreparation, LaunchInv, TypeOK, Events
<1>3. UNCHANGED <<row, permit, bootedAt, local, acks, running, spawned, up, inbox, issued, consuming>>
    BY DEF FailPreparation, diskVars
<1>4. /\ UncommittedHasNoPermit' /\ RunsUnderPermit' /\ RunningIsRecorded'
      /\ NoHandlerIsStarting' /\ ReservationIsAttended'
    BY <1>3
    DEF LaunchInv, ProcessInv, UncommittedHasNoPermit, RunsUnderPermit, RunningIsRecorded,
        NoHandlerIsStarting, ReservationIsAttended
<1>5. AcknowledgementIsOfStart'
    BY <1>2, <1>3 DEF LaunchInv, ProcessInv, AcknowledgementIsOfStart
<1>6. Progress
    BY <1>1, <1>3 DEF Progress
<1> QED BY <1>3, <1>4, <1>5, <1>6 DEF ProcessInv

\* A handler reserves its attempt and asks for the permit, or releases at once.
LEMMA ReserveKeeps ==
    ASSUME LaunchInv, TypeOK', NEW h \in preparing, Reserve(h)
    PROVE  Progress /\ ProcessInv' /\ MessagesInv'
<1> DEFINE a == h.attempt
           n == issued + 1
           r == IF local[a].state = "NONE" THEN n ELSE local[a].reservation
           k == [on |-> h.on, attempt |-> a, request |-> n, reservation |-> r]
<1>1. /\ a \in Attempts /\ local \in [Attempts -> LocalRows] /\ issued \in Nat
      /\ reported \in [Attempts -> SUBSET Events]
    BY DEF LaunchInv, TypeOK, Preparations
<1>2. /\ local[a].state \in {"NONE", "RESERVED"} /\ issued' = n
      /\ UNCHANGED <<row, permit, bootedAt, acks, running, spawned, inbox>>
    BY DEF Reserve, Resumable, diskVars
<1>3. \A b \in Attempts : reported[b] \subseteq reported'[b]
    BY <1>1, ReportType DEF Reserve, Events
<1>4. r \in Nat /\ r <= n
    <2>1. local[a].reservation \in Nat /\ local[a].reservation <= issued
        BY <1>1, RowType DEF LaunchInv, MessagesInv, NumbersWereIssued
    <2> QED BY <1>1, <2>1
<1>5. \/ /\ local' = [local EXCEPT ![a] = [state |-> "RESERVED", reservation |-> r]]
         /\ consuming' = consuming \cup {k}
         /\ up' = Append(up, [request |-> n, attempt |-> a])
      \/ /\ local' = [local EXCEPT ![a] = NoRow]
         /\ UNCHANGED <<up, consuming>>
    BY DEF Reserve
<1>6. /\ \A b \in Attempts \ {a} : local'[b] = local[b]
      /\ \/ /\ local'[a].state = "RESERVED" /\ local'[a].reservation = r
            /\ consuming' = consuming \cup {k}
         \/ /\ local'[a].state = "NONE" /\ local'[a].reservation = 0
            /\ consuming' = consuming
    BY <1>1, <1>5 DEF NoRow
<1>7. k.attempt = a /\ k.request = n /\ k.reservation = r
    OBVIOUS
<1> HIDE DEF n, r, k
<1>8. Progress
    BY <1>1, <1>2, <1>4, <1>6, <1>7 DEF Progress, n
<1>9. /\ UncommittedHasNoPermit' /\ RunsUnderPermit' /\ RunningIsRecorded'
      /\ NoHandlerIsStarting' /\ AcknowledgementIsOfStart'
    <2>1. RowBecomes(a, local'[a])
        BY <1>2, <1>3, <1>6 DEF RowBecomes, TypeOK
    <2>2. local'[a].state # "STARTING" /\ \A g \in consuming' : g \in consuming \/ g.attempt = a
        BY <1>6, <1>7
    <2> QED BY <1>1, <1>2, <2>1, <2>2, RowKeeps
<1>10. ReservationIsAttended'
    <2> SUFFICES ASSUME NEW b \in Attempts, local'[b].state = "RESERVED",
                        local'[b].reservation > bootedAt
                 PROVE  \E g \in consuming' :
                            g.attempt = b /\ g.reservation = local'[b].reservation
        BY <1>2 DEF ReservationIsAttended
    <2>1. CASE b = a
        BY <1>6, <1>7, <2>1
    <2>2. CASE b # a
        BY <1>6, <2>2 DEF LaunchInv, ProcessInv, ReservationIsAttended
    <2> QED BY <2>1, <2>2
<1>11. \A q \in Members(up') : q \in Members(up) \/ Asked(q)'
    <2>1. PICK q : q = [request |-> n, attempt |-> a]
        OBVIOUS
    <2>2. q \in Requests /\ q.request = n /\ q.attempt = a
        BY <1>1, <2>1 DEF Requests, n
    <2>3. Members(up') \subseteq Members(up) \cup {q}
        <3>1. up \in Seq(Requests)
            BY DEF LaunchInv, TypeOK
        <3>2. up' = up \/ up' = Append(up, q)
            BY <1>5, <2>1
        <3> QED BY <2>2, <3>1, <3>2, AppendMembers
    <2>4. \A g \in consuming' : g.request = n => g.attempt = a
        <3>1. \A g \in consuming : g.request \in Nat /\ g.request <= issued
            BY DEF LaunchInv, TypeOK, Consumptions, MessagesInv, NumbersWereIssued
        <3> QED BY <1>1, <1>6, <1>7, <3>1 DEF n
    <2>5. Asked(q)'
        BY <1>1, <1>2, <2>2, <2>4 DEF Asked, n
    <2> QED BY <2>3, <2>5
<1>12. MessagesInv'
    BY <1>2, <1>8, <1>11, MessagesStay DEF LaunchInv
<1> QED BY <1>8, <1>9, <1>10, <1>12 DEF ProcessInv

\* A process ends.
LEMMA ExitKeeps ==
    ASSUME LaunchInv, TypeOK', NEW a \in Attempts, Exit(a)
    PROVE  Progress /\ ProcessInv' /\ MessagesInv'
<1>1. /\ local \in [Attempts -> LocalRows] /\ issued \in Nat
      /\ reported \in [Attempts -> SUBSET Events] /\ running \in [Attempts -> BOOLEAN]
    BY DEF LaunchInv, TypeOK
<1>2. /\ UNCHANGED <<row, permit, issued, bootedAt, consuming, acks, spawned, up, inbox>>
      /\ running' = [running EXCEPT ![a] = FALSE] /\ running[a]
    BY DEF Exit, diskVars, handlerVars
<1>3. \A b \in Attempts : reported[b] \subseteq reported'[b]
    BY <1>1, ReportType DEF Exit, Events
<1>4. local' = local \/ (local[a].state = "STARTED" /\ local' = Becoming(a, "EXITED"))
    BY DEF Exit
<1>5. /\ \A b \in Attempts \ {a} : local'[b] = local[b]
      /\ local'[a].reservation = local[a].reservation
      /\ \/ local'[a] = local[a]
         \/ local[a].state = "STARTED" /\ local'[a].state = "EXITED"
    BY <1>1, <1>4, BecomingRow DEF ProcessStates
<1>6. UncommittedHasNoPermit' /\ RunsUnderPermit' /\ RunningIsRecorded'
    BY <1>1, <1>2, <1>5
    DEF LaunchInv, ProcessInv, UncommittedHasNoPermit, RunsUnderPermit, RunningIsRecorded
<1>7. NoHandlerIsStarting' /\ ReservationIsAttended'
    <2>1. NoHandlerIsStarting'
        BY <1>2, <1>5 DEF LaunchInv, ProcessInv, NoHandlerIsStarting, TypeOK, Consumptions
    <2>2. ReservationIsAttended'
        BY <1>2, <1>5 DEF LaunchInv, ProcessInv, ReservationIsAttended
    <2> QED BY <2>1, <2>2
<1>8. AcknowledgementIsOfStart'
    BY <1>2, <1>3, <1>5 DEF LaunchInv, ProcessInv, AcknowledgementIsOfStart
<1>9. Progress
    BY <1>1, <1>2, <1>5 DEF Progress
<1>10. MessagesInv'
    BY <1>2, <1>9, MessagesStay DEF LaunchInv
<1> QED BY <1>6, <1>7, <1>8, <1>9, <1>10 DEF ProcessInv

\* The permit of an answer that grants is consumed, and it is the waiting handler's.
LEMMA GrantIsConsumed ==
    ASSUME LaunchInv, NEW c \in Connections, inbox[c] # <<>>,
           Head(inbox[c]).kind = "ANSWER", Head(inbox[c]).granted,
           NEW h \in consuming, h.request = Head(inbox[c]).request
    PROVE  permit[h.attempt] = "CONSUMED"
<1>1. Head(inbox[c]) \in Members(inbox[c])
    BY TailMembers DEF LaunchInv, TypeOK
<1>2. Truthful(Head(inbox[c]))
    BY <1>1 DEF LaunchInv, MessagesInv, AnswersAreTruthful
<1> QED BY <1>2 DEF Truthful, Asked

\* A chain takes an answer, or its handler's timer fires.
LEMMA ChainKeeps ==
    ASSUME LaunchInv, TypeOK', NEW c \in Connections, HandleAnswer(c) \/ GiveUp(c)
    PROVE  Progress /\ ProcessInv' /\ MessagesInv'
<1>1. /\ UNCHANGED <<row, permit, issued, bootedAt, up>>
      /\ \A d \in Connections : Members(inbox'[d]) \subseteq Members(inbox[d])
    <2>1. CASE HandleAnswer(c)
        BY <2>1, TakenFrame DEF HandleAnswer, diskVars, LaunchInv, TypeOK
    <2>2. CASE GiveUp(c)
        BY <2>2 DEF GiveUp, TimeOut, diskVars
    <2> QED BY <2>1, <2>2
<1>2. \/ UNCHANGED <<consuming, processVars>>
      \/ \E h \in consuming :
            Refused(h) \/ NotStarted(h) \/ (Started(h) /\ permit[h.attempt] = "CONSUMED")
    BY GrantIsConsumed DEF HandleAnswer, GiveUp, TimeOut
<1>3. Progress /\ ProcessInv'
    <2>1. CASE UNCHANGED <<consuming, processVars>>
        <3>1. Quiet
            BY <1>1, <2>1
            DEF Quiet, processVars, LaunchInv, ProcessInv, UncommittedHasNoPermit
        <3> QED BY <3>1, QuietKeeps
    <2>2. CASE \E h \in consuming :
                  Refused(h) \/ NotStarted(h) \/ (Started(h) /\ permit[h.attempt] = "CONSUMED")
        BY <1>1, <2>2, GivenUp, StartKeeps
    <2> QED BY <1>2, <2>1, <2>2
<1>4. MessagesInv'
    BY <1>1, <1>3, MessagesStay DEF LaunchInv
<1> QED BY <1>3, <1>4

\* The daemon crashes in the middle of a start.
LEMMA CrashKeeps ==
    ASSUME LaunchInv, TypeOK', NEW c \in Connections, CrashStarting(c)
    PROVE  Progress /\ ProcessInv' /\ MessagesInv'
<1>1. PICK h \in consuming, point \in Points :
              LET a == h.attempt IN
              /\ a \in Attempts
              /\ h.request = Head(inbox[c]).request
              /\ Reserved(a, h.reservation)
              /\ \E state \in {"STARTING", "STARTED"} : local' = Becoming(a, state)
              /\ running' = [running EXCEPT ![a] = point # "FENCED"]
              /\ spawned' = [spawned EXCEPT ![a] = point # "FENCED"]
              /\ Report(a, "PROCESS_STARTED") \/ UNCHANGED reported
    BY CrashedStart DEF LaunchInv
<1> DEFINE a == h.attempt
<1>2. permit[a] = "CONSUMED"
    BY <1>1, GrantIsConsumed DEF CrashStarting
<1>3. /\ UNCHANGED <<row, permit, issued, acks>> /\ consuming' = {} /\ bootedAt' = issued
      /\ up' \in Prefixes(up) /\ inbox' = [d \in Connections |-> <<>>]
    BY DEF CrashStarting, Reboot, diskVars
<1>4. /\ a \in Attempts /\ local \in [Attempts -> LocalRows] /\ issued \in Nat
      /\ reported \in [Attempts -> SUBSET Events] /\ local[a].state = "RESERVED"
      /\ running \in [Attempts -> BOOLEAN] /\ spawned \in [Attempts -> BOOLEAN]
    BY <1>1 DEF LaunchInv, TypeOK, Reserved
<1>5. \A b \in Attempts : reported[b] \subseteq reported'[b]
    BY <1>1, <1>4, ReportType DEF Events
<1>6. /\ \A b \in Attempts \ {a} : local'[b] = local[b]
      /\ local'[a].state \in {"STARTING", "STARTED"}
      /\ local'[a].reservation = local[a].reservation
    BY <1>1, <1>4, BecomingRow DEF ProcessStates
<1>7. \A b \in Attempts \ {a} : running'[b] = running[b] /\ spawned'[b] = spawned[b]
    BY <1>1, <1>4
<1>8. running'[a] = spawned'[a]
    BY <1>1, <1>4
<1>9. RunsUnderPermit' /\ RunningIsRecorded'
    BY <1>2, <1>3, <1>6, <1>7, <1>8
    DEF LaunchInv, ProcessInv, RunsUnderPermit, RunningIsRecorded
<1>10. UncommittedHasNoPermit' /\ NoHandlerIsStarting'
    BY <1>3 DEF LaunchInv, ProcessInv, UncommittedHasNoPermit, NoHandlerIsStarting
<1>11. AcknowledgementIsOfStart'
    BY <1>3, <1>4, <1>5, <1>6 DEF LaunchInv, ProcessInv, AcknowledgementIsOfStart
<1>12. ReservationIsAttended'
    <2>1. \A b \in Attempts : local'[b].reservation \in Nat /\ local'[b].reservation <= issued
        BY <1>4, <1>6, RowType DEF LaunchInv, MessagesInv, NumbersWereIssued
    <2> QED BY <1>3, <1>4, <2>1 DEF ReservationIsAttended
<1>13. Progress
    BY <1>3, <1>4, <1>6 DEF Progress
<1>14. MessagesInv'
    <2>1. Members(up') \subseteq Members(up)
        BY <1>3, PrefixMembers DEF LaunchInv, TypeOK
    <2>2. \A d \in Connections : Members(inbox'[d]) = {}
        BY <1>3 DEF Members
    <2> QED BY <1>13, <2>1, <2>2, MessagesStay DEF LaunchInv
<1> QED BY <1>9, <1>10, <1>11, <1>12, <1>13, <1>14 DEF ProcessInv

LEMMA LaunchInvInit == Init => LaunchInv
<1> SUFFICES ASSUME Init PROVE LaunchInv
    OBVIOUS
<1>1. MessagesInv
    BY DEF Init, MessagesInv, RequestsWereAsked, AnswersAreTruthful, NumbersWereIssued,
           Members, NoRow
<1>2. ProcessInv
    BY DEF Init, ProcessInv, UncommittedHasNoPermit, RunsUnderPermit, RunningIsRecorded,
           NoHandlerIsStarting, AcknowledgementIsOfStart, ReservationIsAttended, NoRow
<1> QED BY <1>1, <1>2, TypeInit DEF LaunchInv

LEMMA LaunchInvNext == LaunchInv /\ [Next]_vars => LaunchInv'
<1> SUFFICES ASSUME LaunchInv, [Next]_vars PROVE LaunchInv'
    OBVIOUS
<1>1. TypeOK'
    BY TypeNext DEF LaunchInv
<1>2. CASE QuietStep \/ Consume
    <2>1. Quiet
        BY <1>2, QuietSteps
    <2> QED BY <1>1, <1>2, <2>1, QuietMessages, QuietKeeps DEF LaunchInv
<1>3. ASSUME NEW a \in Attempts, Exit(a) PROVE LaunchInv'
    BY <1>1, <1>3, ExitKeeps DEF LaunchInv
<1>4. ASSUME NEW c \in Connections, FinishPreparation(c) PROVE LaunchInv'
    <2>1. PICK h \in preparing : FailPreparation(h) \/ Reserve(h)
        BY <1>4 DEF FinishPreparation
    <2>2. CASE FailPreparation(h)
        <3>1. Progress /\ ProcessInv' /\ UNCHANGED <<up, inbox>>
            BY <2>2, PreparationFails
        <3> QED BY <1>1, <3>1, MessagesStay DEF LaunchInv
    <2>3. CASE Reserve(h)
        BY <1>1, <2>3, ReserveKeeps DEF LaunchInv
    <2> QED BY <2>1, <2>2, <2>3
<1>5. ASSUME NEW c \in Connections, HandleAnswer(c) \/ GiveUp(c) PROVE LaunchInv'
    BY <1>1, <1>5, ChainKeeps DEF LaunchInv
<1>6. ASSUME NEW c \in Connections, CrashStarting(c) PROVE LaunchInv'
    BY <1>1, <1>6, CrashKeeps DEF LaunchInv
<1>7. CASE UNCHANGED vars
    <2>1. Quiet /\ UNCHANGED <<up, inbox>>
        BY <1>7
        DEF vars, diskVars, handlerVars, processVars, Quiet, LaunchInv, ProcessInv,
            UncommittedHasNoPermit
    <2>2. Progress /\ ProcessInv'
        BY <2>1, QuietKeeps
    <2> QED BY <1>1, <2>1, <2>2, MessagesStay DEF LaunchInv
<1> QED
    BY <1>2, <1>3, <1>4, <1>5, <1>6, <1>7 DEF Next, GoOn, QuietStep

LEMMA LaunchInvHolds == Spec => []LaunchInv
<1> QED BY LaunchInvInit, LaunchInvNext, PTL DEF Spec

\* A process that runs is recorded as being started or started.
THEOREM RunningProcessesAreRecorded == Spec => []RunningIsRecorded
<1>1. LaunchInv => RunningIsRecorded
    BY DEF LaunchInv, ProcessInv
<1> QED BY <1>1, LaunchInvHolds, PTL

\* A reservation made since the daemon started has a handler that waits for its permit.
THEOREM ReservationsAreAttended == Spec => []ReservationIsAttended
<1>1. LaunchInv => ReservationIsAttended
    BY DEF LaunchInv, ProcessInv
<1> QED BY <1>1, LaunchInvHolds, PTL

\* An acknowledged launch is a process that was started and whose start is reported.
THEOREM AcknowledgedLaunchesWereStarted == Spec => []AcknowledgedWasStarted
<1>1. LaunchInv => AcknowledgedWasStarted
    BY DEF LaunchInv, ProcessInv, AcknowledgementIsOfStart, AcknowledgedWasStarted
<1> QED BY <1>1, LaunchInvHolds, PTL

\* Channel, reservation, handler and record together: a launch is kept until it is
\* settled, and it is acknowledged only then.
THEOREM LaunchesAreKept == Spec => []LaunchIsKept
<1>1. DeliveryIsRetained /\ RunningIsRecorded /\ ReservationIsAttended /\ AcknowledgedWasStarted
        => LaunchIsKept
    BY DEF LaunchIsKept
<1> QED
    BY <1>1, DeliveriesAreRetained, RunningProcessesAreRecorded, ReservationsAreAttended,
       AcknowledgedLaunchesWereStarted, PTL

-------------------------------------------------------------------------------
(* The launch implements LaunchOnce.                                       *)

\* One attempt moves from one stage to another, the others stay where they are.
LEMMA StageMove ==
    ASSUME NEW a \in Attempts, NEW to, LaunchOnceStage'[a] = to,
           \A b \in Attempts \ {a} : LaunchOnceStage'[b] = LaunchOnceStage[b]
    PROVE  Abstract!Move(a, LaunchOnceStage[a], to)
BY DEF Abstract!Move, LaunchOnceStage

\* Without a process started or ended or a permit consumed, every attempt stays in its stage.
LEMMA StagesStay ==
    ASSUME UNCHANGED <<running, spawned>>,
           \A a \in Attempts : permit'[a] = "CONSUMED" <=> permit[a] = "CONSUMED"
    PROVE  UNCHANGED LaunchOnceStage
BY DEF LaunchOnceStage

\* The server consumes a permit.
LEMMA ConsumeMoves ==
    ASSUME LaunchInv, Consume
    PROVE  UNCHANGED LaunchOnceStage \/ \E a \in Attempts : Abstract!Permit(a)
<1> DEFINE a == Head(up).attempt
<1>1. a \in Attempts
    <2>1. up \in Seq(Requests) /\ up # <<>>
        BY DEF Consume, LaunchInv, TypeOK
    <2>2. Head(up) \in Requests
        BY <2>1, TailMembers
    <2> QED BY <2>2 DEF Requests
<1>2. UNCHANGED <<running, spawned>> /\ permit \in [Attempts -> PermitStates]
    BY DEF Consume, processVars, LaunchInv, TypeOK
<1>3. \/ UNCHANGED permit
      \/ /\ permit[a] = "ISSUED"
         /\ \/ permit' = [permit EXCEPT ![a] = "CONSUMED"]
            \/ permit' = [permit EXCEPT ![a] = "REVOKED"]
            \/ permit' = [permit EXCEPT ![a] = "EXPIRED"]
    BY DEF Consume
<1>4. CASE permit[a] = "ISSUED" /\ permit' = [permit EXCEPT ![a] = "CONSUMED"]
    <2>1. ~running[a] /\ ~spawned[a]
        BY <1>1, <1>4 DEF LaunchInv, ProcessInv, RunsUnderPermit
    <2>2. LaunchOnceStage[a] = "WAITING" /\ LaunchOnceStage'[a] = "PERMITTED"
        BY <1>1, <1>2, <1>4, <2>1 DEF LaunchOnceStage
    <2>3. \A b \in Attempts \ {a} : LaunchOnceStage'[b] = LaunchOnceStage[b]
        BY <1>1, <1>2, <1>4 DEF LaunchOnceStage
    <2>4. Abstract!Permit(a)
        BY <1>1, <2>2, <2>3, StageMove DEF Abstract!Permit
    <2> QED BY <1>1, <2>4
<1>5. CASE ~(permit[a] = "ISSUED" /\ permit' = [permit EXCEPT ![a] = "CONSUMED"])
    <2>1. \A b \in Attempts : permit'[b] = "CONSUMED" <=> permit[b] = "CONSUMED"
        BY <1>1, <1>2, <1>3, <1>5
    <2> QED BY <1>2, <2>1, StagesStay
<1> QED BY <1>4, <1>5

\* A process is started, or the daemon crashes just before.
LEMMA StartMoves ==
    ASSUME LaunchInv, NEW a \in Attempts, local[a].state = "RESERVED",
           permit[a] = "CONSUMED", UNCHANGED permit, NEW started \in BOOLEAN,
           running' = [running EXCEPT ![a] = started],
           spawned' = [spawned EXCEPT ![a] = started]
    PROVE  UNCHANGED LaunchOnceStage \/ Abstract!Start(a)
<1>1. ~running[a] /\ ~spawned[a]
    BY DEF LaunchInv, ProcessInv, RunsUnderPermit
<1>2. running \in [Attempts -> BOOLEAN] /\ spawned \in [Attempts -> BOOLEAN]
    BY DEF LaunchInv, TypeOK
<1>3. CASE started
    <2>1. LaunchOnceStage[a] = "PERMITTED" /\ LaunchOnceStage'[a] = "STARTED"
        BY <1>1, <1>2, <1>3 DEF LaunchOnceStage
    <2>2. \A b \in Attempts \ {a} : LaunchOnceStage'[b] = LaunchOnceStage[b]
        BY <1>2 DEF LaunchOnceStage
    <2> QED BY <2>1, <2>2, StageMove DEF Abstract!Start
<1>4. CASE ~started
    <2>1. \A b \in Attempts : running'[b] = running[b] /\ spawned'[b] = spawned[b]
        BY <1>1, <1>2, <1>4
    <2> QED BY <2>1 DEF LaunchOnceStage
<1> QED BY <1>3, <1>4

\* The process ends.
LEMMA ExitMoves ==
    ASSUME LaunchInv, NEW a \in Attempts, Exit(a)
    PROVE  Abstract!End(a)
<1>1. /\ running[a] /\ running' = [running EXCEPT ![a] = FALSE]
      /\ UNCHANGED <<permit, spawned>>
    BY DEF Exit, diskVars
<1>2. spawned[a] /\ running \in [Attempts -> BOOLEAN]
    BY <1>1 DEF LaunchInv, ProcessInv, RunsUnderPermit, TypeOK
<1>3. LaunchOnceStage[a] = "STARTED" /\ LaunchOnceStage'[a] = "ENDED"
    BY <1>1, <1>2 DEF LaunchOnceStage
<1>4. \A b \in Attempts \ {a} : LaunchOnceStage'[b] = LaunchOnceStage[b]
    BY <1>1, <1>2 DEF LaunchOnceStage
<1> QED BY <1>3, <1>4, StageMove DEF Abstract!End

LEMMA LaunchStep ==
    LaunchInv /\ [Next]_vars => [Abstract!Next]_LaunchOnceStage
<1> SUFFICES ASSUME LaunchInv, [Next]_vars
             PROVE  UNCHANGED LaunchOnceStage \/ Abstract!Next
    OBVIOUS
<1>1. CASE Consume
    BY <1>1, ConsumeMoves DEF Abstract!Next
<1>2. ASSUME NEW a \in Attempts, Commit(a) \/ Revoke(a) PROVE UNCHANGED LaunchOnceStage
    <2>1. permit[a] # "CONSUMED" /\ UNCHANGED <<running, spawned>>
        BY <1>2
        DEF Commit, Revoke, LaunchInv, ProcessInv, UncommittedHasNoPermit, processVars
    <2>2. \A b \in Attempts : permit'[b] = "CONSUMED" <=> permit[b] = "CONSUMED"
        BY <1>2, <2>1 DEF Commit, Revoke, LaunchInv, TypeOK
    <2> QED BY <2>1, <2>2, StagesStay
<1>3. ASSUME NEW a \in Attempts,
             Dispatch(a) \/ ReceiveAck(a) \/ FailAck(a) \/ Expire(a) \/ PassDeadline(a)
      PROVE  UNCHANGED LaunchOnceStage
    BY <1>3, StagesStay
    DEF Dispatch, ReceiveAck, FailAck, Expire, PassDeadline, diskVars, processVars
<1>4. CASE Drain \/ Detach \/ ServerRestart \/ Connect \/ Break \/ RunnerRestart
    BY <1>4, StagesStay
    DEF Drain, Detach, ServerRestart, Connect, Break, RunnerRestart, Reboot, diskVars,
        processVars
<1>5. ASSUME NEW c \in Connections, HandleLaunch(c) \/ FinishPreparation(c) \/ GiveUp(c)
      PROVE  UNCHANGED LaunchOnceStage
    BY <1>5, StagesStay
    DEF HandleLaunch, FinishPreparation, FailPreparation, Reserve, GiveUp, TimeOut, Refused,
        diskVars, processVars
<1>6. ASSUME NEW c \in Connections, HandleAnswer(c)
      PROVE  UNCHANGED LaunchOnceStage \/ Abstract!Next
    <2>1. UNCHANGED permit
        BY <1>6 DEF HandleAnswer, diskVars
    <2>2. \/ UNCHANGED <<running, spawned>>
          \/ \E h \in consuming : Started(h) /\ permit[h.attempt] = "CONSUMED"
        BY <1>6, GrantIsConsumed DEF HandleAnswer, Refused, NotStarted, processVars
    <2>3. ASSUME NEW h \in consuming, Started(h), permit[h.attempt] = "CONSUMED"
          PROVE  UNCHANGED LaunchOnceStage \/ Abstract!Next
        <3>1. h.attempt \in Attempts
            BY DEF LaunchInv, TypeOK, Consumptions
        <3> QED
            BY <2>1, <2>3, <3>1, StartMoves DEF Started, Reserved, Abstract!Next
    <2> QED BY <2>1, <2>2, <2>3, StagesStay
<1>7. ASSUME NEW c \in Connections, CrashStarting(c)
      PROVE  UNCHANGED LaunchOnceStage \/ Abstract!Next
    <2>1. PICK h \in consuming, point \in Points :
              LET a == h.attempt IN
              /\ a \in Attempts
              /\ h.request = Head(inbox[c]).request
              /\ Reserved(a, h.reservation)
              /\ \E state \in {"STARTING", "STARTED"} : local' = Becoming(a, state)
              /\ running' = [running EXCEPT ![a] = point # "FENCED"]
              /\ spawned' = [spawned EXCEPT ![a] = point # "FENCED"]
              /\ Report(a, "PROCESS_STARTED") \/ UNCHANGED reported
        BY <1>7, CrashedStart DEF LaunchInv
    <2>2. permit[h.attempt] = "CONSUMED" /\ UNCHANGED permit
        BY <1>7, <2>1, GrantIsConsumed DEF CrashStarting, Reboot, diskVars
    <2>3. local[h.attempt].state = "RESERVED" /\ (point # "FENCED") \in BOOLEAN
        BY <2>1 DEF Reserved
    <2> QED BY <2>1, <2>2, <2>3, StartMoves DEF Abstract!Next
<1>8. ASSUME NEW a \in Attempts, Exit(a) PROVE Abstract!Next
    BY <1>8, ExitMoves DEF Abstract!Next
<1>9. CASE UNCHANGED vars
    BY <1>9, StagesStay DEF vars, diskVars, processVars
<1> QED
    BY <1>1, <1>2, <1>3, <1>4, <1>5, <1>6, <1>7, <1>8, <1>9 DEF Next, GoOn

\* An attempt is at most one process, started once, under the permit consumed for it,
\* whatever connections, daemon and server go through: RunnerLaunch implements LaunchOnce.
THEOREM LaunchImplementsLaunchOnce == Spec => ImplementsLaunchOnce
<1>1. Init => Abstract!Init
    BY DEF Init, Abstract!Init, LaunchOnceStage
<1> QED
    BY <1>1, LaunchInvHolds, LaunchStep, PTL DEF Spec, ImplementsLaunchOnce, Abstract!Spec

-------------------------------------------------------------------------------
(* The worktree of a run                                                   *)

\* What WorktreesAssumption says of the bounds.
WorktreeBounds ==
    /\ MaxCommit \in Nat /\ MaxEdits \in Nat /\ MaxRevision \in Nat
    /\ MaxBranch \in Nat \ {0}

Heads == 0..made
Dirt == {"CLEAN", "TRACKED", "UNTRACKED"}
Views == [head : Int, kind : Dirt, remote : Int]
WorktreeRows ==
    [state : {"NONE", "CREATING", "READY", "RETAINED", "REMOVED", "DISCARDED"},
     branch : Branches, revision : 0..MaxRevision, observed : SUBSET Views,
     pinned : BOOLEAN, published : Int]
Authorizations ==
    {Unissued}
    \cup [kind : {"PUBLISH", "CLEANUP"}, head : Int, settled : BOOLEAN, used : BOOLEAN]
    \cup [kind : {"RETAINED_PUBLISH", "DISCARD"}, head : Int, observed : Views,
          revision : 0..MaxRevision, used : BOOLEAN]

\* The operations, by how far they have come: one that hands the worktree out, one
\* that publishes, one that removes, and one that restores what it has removed.
Creating == [at : {"IDLE", "ADD", "REUSE", "READY", "PIN"}]
Publishing ==
    [at : {"CONSUME", "LOOK", "PUSH", "RECORD"}, kind : {"PUBLISH"}, c : Claims, seen : Views]
Removing ==
    [at : {"AGAIN", "CONSUME", "LOOK", "REMOVE", "DELETE", "MARK", "RECOVER"},
     kind : {"CLEANUP", "DISCARD"}, c : Claims, seen : Views]
Restoring ==
    [at : {"RESTORE", "RETAIN", "REBOUND"}, kind : {"CLEANUP", "DISCARD"}, c : Claims,
     seen : Views, branch : Branches]

RowForm ==
    /\ rec \in WorktreeRows
    /\ rec.state = "RETAINED" => rec.revision > 0 /\ rec.observed # {}
OperationForm ==
    /\ op \in Creating \cup Publishing \cup Removing \cup Restoring
    /\ op \notin Creating => op.seen.head \in Heads
WorktreeForm ==
    /\ WorktreeBounds /\ RowForm /\ OperationForm /\ edits \in Nat
    /\ claims \in [Claims -> Authorizations]

\* What the repository holds: every branch and the remote have commits that were
\* made, with all of their ancestors.
RepositoryForm ==
    /\ made \in Commits
    /\ ref \in [Branches -> Heads \cup {Absent}]
    /\ history \in [Commits -> SUBSET Int]
    /\ remote \in onRemote \cup {Absent} /\ onRemote \subseteq Heads
    /\ tree \in {NoTree} \cup [kind : Dirt, branch : Branches, edit : Nat]
    /\ \A c \in Heads : /\ c \in history[c] /\ history[c] \subseteq Heads
                        /\ \A d \in history[c] : history[d] \subseteq history[c]
    /\ \A c \in onRemote : history[c] \subseteq onRemote

\* The worktree has its branch, and is gone while its removal goes on.
TreeInv ==
    /\ tree # NoTree => ref[tree.branch] # Absent
    /\ op.at \in {"DELETE", "MARK", "RECOVER", "RESTORE"} => tree = NoTree
    /\ op.at = "RESTORE" => ref[op.branch] # Absent

\* What a cleanup is about to delete the remote has had.
CleanupInv ==
    op \in Removing /\ op.kind = "CLEANUP" => history[op.seen.head] \subseteq onRemote

\* An operation has an authorization, and pushes what that names.
ClaimInv ==
    /\ op \in Publishing \cup Removing => claims[op.c] # Unissued
    /\ op \in Publishing => op.seen.head = claims[op.c].head

WorktreeInv ==
    /\ WorktreeForm /\ RepositoryForm /\ TreeInv /\ CleanupInv /\ ClaimInv
    /\ CommitsSurvive /\ EditsSurvive

LEMMA WorktreeInvInitially == WorktreeBounds /\ WorktreesInit => WorktreeInv
<1> SUFFICES ASSUME WorktreeBounds, WorktreesInit PROVE WorktreeInv
    OBVIOUS
<1> USE DEF WorktreesInit, Absent, Commits, Branches, NoTree, Idle, Unissued, Heads
<1>1. WorktreeForm
    <2>1. rec \in WorktreeRows /\ rec.state = "NONE"
        BY DEF WorktreeRows, WorktreeBounds
    <2>2. op \in Creating /\ op \notin Publishing \cup Removing \cup Restoring
        BY DEF Creating, Publishing, Removing, Restoring
    <2>3. claims \in [Claims -> Authorizations]
        BY DEF Authorizations
    <2> QED BY <2>1, <2>2, <2>3 DEF WorktreeForm, RowForm, OperationForm
<1>2. RepositoryForm
    BY DEF RepositoryForm, WorktreeBounds
<1>3. TreeInv /\ CleanupInv /\ ClaimInv
    BY DEF TreeInv, CleanupInv, ClaimInv, Publishing, Removing
<1>4. CommitsSurvive /\ EditsSurvive
    BY DEF CommitsSurvive, EditsSurvive
<1> QED BY <1>1, <1>2, <1>3, <1>4 DEF WorktreeInv

-------------------------------------------------------------------------------
(* What is observed, and what is kept                                      *)

LEMMA ObservationForm ==
    ASSUME WorktreeForm, RepositoryForm, TreeInv, NEW o \in Observations
    PROVE  /\ o \in Views /\ o.head = ref[rec.branch] /\ o.head \in Heads
           /\ o.remote \in {remote, Unavailable}
           /\ tree # NoTree /\ tree.branch = rec.branch
<1>1. Verified
    BY DEF Observations
<1>4. PICK r \in {remote, Unavailable} :
        o = [head |-> ref[rec.branch], kind |-> tree.kind, remote |-> r]
    BY DEF Observations
<1>2. /\ tree # NoTree /\ tree.branch = rec.branch /\ tree.kind \in Dirt
      /\ ref[rec.branch] \in Heads
    BY <1>1 DEF Verified, RepositoryForm, TreeInv, WorktreeForm, RowForm, WorktreeRows
<1>3. remote \in Int /\ Unavailable \in Int /\ Heads \subseteq Int
    BY DEF WorktreeForm, WorktreeBounds, RepositoryForm, Heads, Absent, Unavailable, Commits
<1> QED BY <1>2, <1>3, <1>4 DEF Views

\* A row that is retained, or not, is a row; it names its observation.
LEMMA RetainedForm ==
    ASSUME WorktreeForm, NEW o \in Views, Retain(o)
    PROVE  RowForm'
<1> USE DEF WorktreeForm, RowForm
<1>1. CASE rec' = rec
    BY <1>1
<1>2. CASE /\ rec.revision < MaxRevision
           /\ rec' = [rec EXCEPT !.state = "RETAINED", !.revision = @ + 1, !.observed = {o}]
    <2>1. rec.revision + 1 \in 0..MaxRevision /\ rec.revision + 1 > 0
        BY <1>2 DEF WorktreeBounds, WorktreeRows
    <2> DEFINE n == rec.revision + 1
    <2>2. rec' = [rec EXCEPT !.state = "RETAINED", !.revision = n, !.observed = {o}]
        BY <1>2
    <2> HIDE DEF n
    <2> QED BY <2>1, <2>2 DEF WorktreeRows, n
<1> QED BY <1>1, <1>2 DEF Retain, Retained


\* The row of the worktree changes in these ways.
RowMoves ==
    \/ rec' = rec
    \/ \E o \in Views : Retain(o)
    \/ \E s \in {"CREATING", "READY", "REMOVED", "DISCARDED"} : rec' = [rec EXCEPT !.state = s]
    \/ rec' = [rec EXCEPT !.pinned = TRUE]
    \/ \E n \in Int : rec' = [rec EXCEPT !.published = n]
    \/ \E b \in Branches : rec' = [rec EXCEPT !.branch = b]

LEMMA RowMoved == ASSUME WorktreeForm, RowMoves PROVE RowForm'
<1> USE DEF WorktreeForm, RowForm, WorktreeRows
<1>1. CASE rec' = rec
    BY <1>1
<1>2. ASSUME NEW o \in Views, Retain(o) PROVE RowForm'
    BY <1>2, RetainedForm
<1>3. ASSUME NEW s \in {"CREATING", "READY", "REMOVED", "DISCARDED"},
             rec' = [rec EXCEPT !.state = s]
      PROVE  RowForm'
    BY <1>3
<1>4. CASE rec' = [rec EXCEPT !.pinned = TRUE]
    BY <1>4
<1>5. ASSUME NEW n \in Int, rec' = [rec EXCEPT !.published = n] PROVE RowForm'
    BY <1>5
<1>6. ASSUME NEW b \in Branches, rec' = [rec EXCEPT !.branch = b] PROVE RowForm'
    BY <1>6
<1> HIDE DEF WorktreeForm, RowForm, WorktreeRows
<1> QED BY <1>1, <1>2, <1>3, <1>4, <1>5, <1>6 DEF RowMoves

\* What the operation is, by how far it has come.
LEMMA OperationForms ==
    ASSUME WorktreeForm
    PROVE  /\ op.at = "IDLE" <=> op = Idle
           /\ op.at \in {"IDLE", "ADD", "REUSE", "READY", "PIN"} <=> op \in Creating
           /\ op.at \in {"PUSH", "RECORD"} => op \in Publishing
           /\ op.at \in {"CONSUME", "LOOK"} => op \in Publishing \cup Removing
           /\ op.at \in {"AGAIN", "REMOVE", "DELETE", "MARK", "RECOVER"} => op \in Removing
           /\ op.at \in {"RESTORE", "RETAIN", "REBOUND"} <=> op \in Restoring
           /\ op \in Publishing => /\ op.kind = "PUBLISH" /\ op.seen \in Views /\ op.c \in Claims
                                   /\ op.seen.head \in Heads /\ op \notin Removing
           /\ op \in Removing => /\ op.kind \in {"CLEANUP", "DISCARD"} /\ op.seen \in Views
                                 /\ op.c \in Claims /\ op.seen.head \in Heads
           /\ op \in Restoring => /\ op.branch \in Branches /\ op.seen.head \in Heads
                                  /\ op.seen \in Views
BY DEF WorktreeForm, OperationForm, Creating, Publishing, Removing, Restoring, Idle

\* An operation that goes on stays what it is.
LEMMA Goes ==
    ASSUME WorktreeForm, NEW at, goes(at)
    PROVE  /\ op \in Creating /\ at \in {"READY", "PIN"} => op' \in Creating
           /\ op \in Publishing /\ at \in {"LOOK", "PUSH", "RECORD"} =>
                op' \in Publishing /\ op'.c = op.c /\ op'.seen = op.seen
           /\ op \in Removing /\ at \in {"CONSUME", "LOOK", "REMOVE", "DELETE", "MARK", "RECOVER"} =>
                op' \in Removing /\ op'.at = at /\ op'.kind = op.kind /\ op'.seen = op.seen
           /\ op \in Restoring /\ at \in {"RETAIN", "REBOUND"} =>
                op' \in Restoring /\ op'.at = at /\ op'.seen = op.seen
BY DEF goes, Creating, Publishing, Removing, Restoring

\* What a step that leaves the repository alone makes of the operation.
OperationMoves ==
    \/ op' = op
    \/ op' \in Creating
    \/ /\ op' \in Publishing /\ op'.seen.head \in Heads
       /\ claims'[op'.c] # Unissued /\ op'.seen.head = claims'[op'.c].head
    \/ /\ op' \in Removing /\ op'.seen.head \in Heads /\ claims'[op'.c] # Unissued
       /\ op'.at \in {"AGAIN", "CONSUME", "LOOK", "REMOVE"}
       /\ op'.kind = "CLEANUP" => history[op'.seen.head] \subseteq onRemote
    \/ op' \in Restoring /\ op'.seen.head \in Heads /\ op'.at # "RESTORE"

\* An authorization that was issued names the same head for good.
ClaimsMove ==
    /\ claims' \in [Claims -> Authorizations]
    /\ \A c \in Claims : claims[c] # Unissued =>
         claims'[c] # Unissued /\ claims'[c].head = claims[c].head

repository == <<tree, ref, history, remote, onRemote, made, edits, givenUp, wiped>>

LEMMA RunnerStepKeeps ==
    ASSUME WorktreeInv, RowMoves, OperationMoves, ClaimsMove, UNCHANGED repository
    PROVE  WorktreeInv'
<1> USE DEF repository
<1>1. Heads' = Heads
    BY DEF Heads
<1>2. RowForm'
    BY RowMoved DEF WorktreeInv
<1>3. OperationForm'
    BY <1>1 DEF OperationMoves, OperationForm, WorktreeInv, WorktreeForm
<1>4. WorktreeForm'
    BY <1>2, <1>3 DEF WorktreeInv, WorktreeForm, ClaimsMove, WorktreeBounds
<1>5. RepositoryForm'
    BY <1>1 DEF WorktreeInv, RepositoryForm
<1>6. TreeInv'
    BY DEF OperationMoves, WorktreeInv, TreeInv, Creating, Publishing, Removing, Restoring
<1>7. CleanupInv'
    BY DEF OperationMoves, WorktreeInv, CleanupInv, Creating, Publishing, Removing, Restoring
<1>8. ClaimInv'
    <2>1. op \in Publishing \cup Removing => op.c \in Claims
        BY DEF Publishing, Removing
    <2> QED
        BY <2>1 DEF OperationMoves, ClaimsMove, WorktreeInv, ClaimInv, Creating, Publishing, Removing,
               Restoring
<1>9. CommitsSurvive' /\ EditsSurvive'
    BY DEF WorktreeInv, CommitsSurvive, EditsSurvive
<1> QED BY <1>4, <1>5, <1>6, <1>7, <1>8, <1>9 DEF WorktreeInv


-------------------------------------------------------------------------------
(* What the runner decides, without a change of the repository             *)

\* The server issues an authorization, or it is consumed.
LEMMA ClaimsMoved ==
    ASSUME WorktreeForm, RepositoryForm, TreeInv, ClaimInv,
           \/ UNCHANGED claims
           \/ \E c \in Claims, kind \in Kinds : Issue(c, kind)
           \/ ConsumeAuthorization
    PROVE  ClaimsMove
<1>1. CASE UNCHANGED claims
    BY <1>1 DEF ClaimsMove, WorktreeForm
<1>2. ASSUME NEW c \in Claims, NEW kind \in Kinds, Issue(c, kind) PROVE ClaimsMove
    <2>1. ASSUME NEW granted \in Authorizations, claims[c] = Unissued,
                 claims' = [claims EXCEPT ![c] = granted]
          PROVE  ClaimsMove
        BY <2>1 DEF ClaimsMove, WorktreeForm
    <2>2. claims[c] = Unissued /\ ref[tree.branch] \in Int
        <3>1. tree.branch \in Branches
            BY <1>2 DEF Issue, RepositoryForm
        <3>2. Heads \cup {Absent} \subseteq Int
            BY DEF RepositoryForm, WorktreeForm, WorktreeBounds, Commits, Heads, Absent
        <3> QED BY <1>2, <3>1, <3>2 DEF Issue, RepositoryForm
    <2>3. ASSUME NEW settled \in BOOLEAN, kind \in {"PUBLISH", "CLEANUP"}
          PROVE  [kind |-> kind, head |-> ref[tree.branch], settled |-> settled, used |-> FALSE]
                   \in Authorizations
        BY <2>2, <2>3 DEF Authorizations
    <2>4. ASSUME NEW o \in rec.observed, kind \in {"RETAINED_PUBLISH", "DISCARD"}
          PROVE  [kind |-> kind, head |-> o.head, observed |-> o, revision |-> rec.revision,
                  used |-> FALSE] \in Authorizations
        <3>1. o \in Views /\ o.head \in Int /\ rec.revision \in 0..MaxRevision
            BY <2>4 DEF WorktreeForm, RowForm, WorktreeRows, Views
        <3> QED BY <2>4, <3>1 DEF Authorizations
    <2> QED BY <1>2, <2>1, <2>2, <2>3, <2>4 DEF Issue
<1>3. CASE ConsumeAuthorization
    <2>1. CASE claims' = claims
        BY <2>1 DEF ClaimsMove, WorktreeForm
    <2>2. CASE claims' = [claims EXCEPT ![op.c].used = TRUE]
        <3> DEFINE granted == [claims[op.c] EXCEPT !.used = TRUE]
        <3>1. op.c \in Claims /\ claims[op.c] # Unissued
            BY <1>3, OperationForms DEF ConsumeAuthorization, ClaimInv
        <3>2. claims[op.c] \in Authorizations \ {Unissued}
            BY <3>1 DEF WorktreeForm
        <3>3. granted \in Authorizations /\ granted.kind = claims[op.c].kind /\ granted.head = claims[op.c].head
              /\ granted.kind # "NONE"
            BY <3>2 DEF Authorizations
        <3>4. granted # Unissued
            BY <3>3 DEF Unissued
        <3>5. claims' = [claims EXCEPT ![op.c] = granted]
            BY <2>2
        <3> HIDE DEF granted
        <3> QED BY <3>1, <3>3, <3>4, <3>5 DEF ClaimsMove, WorktreeForm
    <2> QED BY <1>3, <2>1, <2>2 DEF ConsumeAuthorization
<1> QED BY <1>1, <1>2, <1>3


\* A cleanup that may remove a head it has seen on the remote.
LEMMA ReachableIsOnRemote ==
    ASSUME WorktreeForm, RepositoryForm, TreeInv, NEW o \in Observations, Reachable(o)
    PROVE  history[o.head] \subseteq onRemote
<1>1. o.remote \in Commits /\ o.head \in history[o.remote] /\ o.remote \in {remote, Unavailable}
    BY ObservationForm DEF Reachable
<1>2. o.remote = remote /\ remote \in onRemote
    BY <1>1 DEF RepositoryForm, WorktreeForm, WorktreeBounds, Commits, Absent, Unavailable
<1> QED BY <1>1, <1>2 DEF RepositoryForm

\* The steps of an operation that only look, decide and write rows.
DecidingStep ==
    \/ BeginCreate \/ MarkReady \/ Pin
    \/ \E c \in Claims : BeginPublish(c) \/ BeginCleanup(c) \/ BeginDiscard(c)
    \/ ConsumeAuthorization \/ LookBeforePush \/ RecordPublished
    \/ LookAgain \/ PreviewDiscard \/ RemoveFails
    \/ Rebind \/ RetainRestored \/ MarkGone \/ Restart

LEMMA DecidingStepMoves ==
    ASSUME WorktreeInv, DecidingStep
    PROVE  RowMoves /\ OperationMoves
<1> USE DEF WorktreeInv
<1>1. WorktreeForm /\ RepositoryForm /\ TreeInv /\ CleanupInv /\ ClaimInv
    OBVIOUS
<1>2. \A o \in Observations : o \in Views /\ o.head \in Heads
    BY <1>1, ObservationForm
<1>3. ASSUME ends PROVE OperationMoves
    BY <1>3 DEF ends, OperationMoves, Creating, Idle
<1> HIDE DEF WorktreeInv
<1>4. CASE BeginCreate
    <2>1. RowMoves
        BY <1>4 DEF BeginCreate, RowMoves
    <2> QED BY <1>4, <2>1 DEF BeginCreate, OperationMoves, Creating
<1>5. CASE MarkReady
    <2>1. RowMoves
        BY <1>5 DEF MarkReady, RowMoves
    <2>2. ends \/ (goes("PIN") /\ op \in Creating)
        BY <1>1, <1>5, OperationForms DEF MarkReady
    <2> QED BY <1>1, <1>3, <2>1, <2>2, Goes DEF OperationMoves
<1>6. CASE Pin
    BY <1>3, <1>6 DEF Pin, RowMoves
<1>7. ASSUME NEW c \in Claims, BeginPublish(c) PROVE RowMoves /\ OperationMoves
    <2>1. PICK o \in Observations :
             /\ o.head = claims[c].head
             /\ op' = [at |-> "CONSUME", kind |-> "PUBLISH", c |-> c, seen |-> o]
        BY <1>7 DEF BeginPublish
    <2>2. claims[c] # Unissued
        BY <1>7 DEF BeginPublish, Unissued
    <2>3. /\ op' \in Publishing /\ op'.seen.head \in Heads /\ op'.c = c
          /\ op'.seen.head = claims[c].head
        BY <1>2, <2>1 DEF Publishing
    <2>4. UNCHANGED <<rec, claims>>
        BY <1>7 DEF BeginPublish
    <2> QED BY <2>2, <2>3, <2>4 DEF RowMoves, OperationMoves
<1>8. ASSUME NEW c \in Claims, BeginCleanup(c) PROVE RowMoves /\ OperationMoves
    <2>1. PICK o \in Observations :
             \/ /\ MayRemove(claims[c], o) /\ UNCHANGED rec
                /\ op' = [at |-> "AGAIN", kind |-> "CLEANUP", c |-> c, seen |-> o]
             \/ Retain(o) /\ UNCHANGED op
        BY <1>8 DEF BeginCleanup
    <2>2. CASE Retain(o) /\ UNCHANGED op
        BY <1>2, <2>2 DEF RowMoves, OperationMoves
    <2>3. CASE /\ MayRemove(claims[c], o) /\ UNCHANGED rec
               /\ op' = [at |-> "AGAIN", kind |-> "CLEANUP", c |-> c, seen |-> o]
        <3>1. history[o.head] \subseteq onRemote
            BY <1>1, <2>3, ReachableIsOnRemote DEF MayRemove
        <3>2. claims[c] # Unissued /\ UNCHANGED claims
            BY <1>8 DEF BeginCleanup, Unissued
        <3>3. /\ op' \in Removing /\ op'.seen = o /\ op'.seen.head \in Heads /\ op'.c = c
              /\ op'.at = "AGAIN"
            BY <1>2, <2>3 DEF Removing
        <3> QED BY <2>3, <3>1, <3>2, <3>3 DEF RowMoves, OperationMoves
    <2> QED BY <2>1, <2>2, <2>3
<1>9. ASSUME NEW c \in Claims, BeginDiscard(c) PROVE RowMoves /\ OperationMoves
    <2>1. CASE \E o \in Observations : Retain(o) /\ UNCHANGED op
        BY <1>2, <2>1 DEF RowMoves, OperationMoves
    <2>2. CASE /\ claims[c].observed \in Observations /\ UNCHANGED rec
               /\ op' = [at |-> "CONSUME", kind |-> "DISCARD", c |-> c, seen |-> claims[c].observed]
        <3>1. claims[c] # Unissued /\ UNCHANGED claims
            BY <1>9 DEF BeginDiscard, Unissued
        <3>2. /\ op' \in Removing /\ op'.seen.head \in Heads /\ op'.c = c
              /\ op'.at = "CONSUME" /\ op'.kind = "DISCARD"
            BY <1>2, <2>2 DEF Removing
        <3> QED BY <2>2, <3>1, <3>2 DEF RowMoves, OperationMoves
    <2> QED BY <1>9, <2>1, <2>2 DEF BeginDiscard
<1>10. CASE ConsumeAuthorization
    <2>1. CASE ends
        <3>1. RowMoves
            BY <1>1, <1>10, <2>1, OperationForms DEF ConsumeAuthorization, RowMoves
        <3> QED BY <1>3, <2>1, <3>1
    <2>2. CASE goes("LOOK") /\ UNCHANGED rec
        <3>1. ClaimsMove
            BY <1>1, <1>10, ClaimsMoved
        <3>2. op \in Publishing \cup Removing
            BY <1>1, <1>10, OperationForms DEF ConsumeAuthorization
        <3>3. /\ op.c \in Claims /\ op.seen.head \in Heads
              /\ claims'[op.c] # Unissued /\ claims'[op.c].head = claims[op.c].head
            BY <1>1, <3>1, <3>2, OperationForms DEF ClaimInv, ClaimsMove
        <3>4. CASE op \in Publishing
            <4>1. op' \in Publishing /\ op'.c = op.c /\ op'.seen = op.seen
                BY <1>1, <2>2, <3>4, Goes
            <4> QED BY <1>1, <2>2, <3>3, <3>4, <4>1 DEF ClaimInv, RowMoves, OperationMoves
        <3>5. CASE op \in Removing
            <4>1. /\ op' \in Removing /\ op'.at = "LOOK" /\ op'.kind = op.kind /\ op'.seen = op.seen
                  /\ op'.c = op.c
                BY <1>1, <2>2, <3>5, Goes DEF goes, Removing
            <4> QED BY <1>1, <2>2, <3>3, <3>5, <4>1 DEF CleanupInv, RowMoves, OperationMoves
        <3> QED BY <3>2, <3>4, <3>5
    <2> QED BY <1>10, <2>1, <2>2 DEF ConsumeAuthorization
<1>11. CASE LookBeforePush
    <2>1. op \in Publishing /\ UNCHANGED <<rec, claims>>
        BY <1>1, <1>11, OperationForms DEF LookBeforePush
    <2>2. CASE goes("PUSH")
        <3>1. op' \in Publishing /\ op'.c = op.c /\ op'.seen = op.seen
            BY <1>1, <2>1, <2>2, Goes
        <3> QED BY <1>1, <2>1, <3>1, OperationForms DEF ClaimInv, RowMoves, OperationMoves
    <2> QED BY <1>3, <1>11, <2>1, <2>2 DEF LookBeforePush, RowMoves
<1>12. CASE RecordPublished
    <2>1. op.seen.head \in Int
        BY <1>1, <1>12, OperationForms DEF RecordPublished, Views
    <2> QED BY <1>3, <1>12, <2>1 DEF RecordPublished, RowMoves
<1>13. CASE LookAgain
    <2>1. op \in Removing /\ UNCHANGED claims
        BY <1>1, <1>13, OperationForms DEF LookAgain
    <2>2. CASE ends
        <3>1. RowMoves
            BY <1>1, <1>2, <1>13, <2>1, <2>2, OperationForms DEF LookAgain, RowMoves
        <3> QED BY <1>3, <2>2, <3>1
    <2>3. ASSUME NEW at \in {"CONSUME", "REMOVE"}, goes(at), UNCHANGED rec
          PROVE  RowMoves /\ OperationMoves
        <3>1. /\ op' \in Removing /\ op'.at = at /\ op'.kind = op.kind /\ op'.seen = op.seen
              /\ op'.c = op.c
            BY <1>1, <2>1, <2>3, Goes DEF goes, Removing
        <3> QED BY <1>1, <2>1, <2>3, <3>1, OperationForms DEF CleanupInv, ClaimInv, RowMoves, OperationMoves
    <2> QED BY <1>13, <2>2, <2>3 DEF LookAgain
<1>14. CASE PreviewDiscard
    BY <1>2, <1>14 DEF PreviewDiscard, RowMoves, OperationMoves
<1>15. CASE RemoveFails \/ RetainRestored
    BY <1>2, <1>3, <1>15 DEF RemoveFails, RetainRestored, RowMoves
<1>16. CASE Rebind
    <2>1. op \in Restoring /\ op.branch \in Branches /\ op.seen.head \in Heads
        BY <1>1, <1>16, OperationForms DEF Rebind
    <2>2. RowMoves
        BY <1>16, <2>1 DEF Rebind, RowMoves
    <2>3. CASE goes("REBOUND")
        BY <1>1, <2>1, <2>2, <2>3, Goes DEF OperationMoves
    <2> QED BY <1>3, <1>16, <2>2, <2>3 DEF Rebind
<1>17. CASE MarkGone \/ Restart
    BY <1>3, <1>17 DEF MarkGone, Restart, RowMoves
<1> QED BY <1>4, <1>5, <1>6, <1>7, <1>8, <1>9, <1>10, <1>11, <1>12, <1>13, <1>14, <1>15, <1>16, <1>17
        DEF DecidingStep


-------------------------------------------------------------------------------
(* What happens in the worktree and around it                              *)

\* An invariant that an operation under way keeps when the repository alone moves.
LEMMA OperationStands ==
    ASSUME WorktreeForm, ClaimInv, UNCHANGED <<rec, claims, op>>, made \in Nat, made' \in Nat,
           made <= made', edits' \in Nat
    PROVE  WorktreeForm' /\ ClaimInv'
<1>1. Heads \subseteq Heads'
    BY DEF Heads
<1>2. RowForm' /\ OperationForm' /\ WorktreeBounds'
    BY <1>1 DEF WorktreeForm, RowForm, OperationForm, WorktreeBounds
<1> QED BY <1>2 DEF WorktreeForm, ClaimInv

LEMMA HeadsAreNumbers ==
    ASSUME WorktreeForm, RepositoryForm
    PROVE  /\ made \in Nat /\ Heads \subseteq Nat /\ Heads \subseteq Commits /\ 0 \in Heads
           /\ Absent \notin Heads /\ Absent \in Int
           /\ \A b \in Branches : ref[b] # Absent => ref[b] \in Heads
           /\ remote # Absent => remote \in Heads
           /\ tree # NoTree => tree \in [kind : Dirt, branch : Branches, edit : Nat]
BY DEF WorktreeForm, WorktreeBounds, RepositoryForm, Heads, Commits, Absent

LEMMA EditKeeps ==
    ASSUME WorktreeInv, NEW kind \in {"TRACKED", "UNTRACKED"}, Edit(kind)
    PROVE  WorktreeInv'
<1>1. WorktreeForm /\ RepositoryForm /\ TreeInv /\ CleanupInv /\ ClaimInv
    BY DEF WorktreeInv
<1>2. /\ UNCHANGED <<rec, claims, op, givenUp, wiped, ref, history, remote, onRemote, made>>
      /\ edits' = edits + 1 /\ edits' \in Nat /\ tree # NoTree
      /\ tree' = [tree EXCEPT !.kind = kind, !.edit = edits + 1]
    BY <1>1 DEF Edit, world, WorktreeForm
<1>3. /\ tree' \in [kind : Dirt, branch : Branches, edit : Nat] /\ tree'.branch = tree.branch
      /\ tree' # NoTree
    BY <1>1, <1>2, HeadsAreNumbers DEF Dirt, NoTree
<1>4. WorktreeForm' /\ ClaimInv'
    BY <1>1, <1>2, OperationStands, HeadsAreNumbers
<1>5. Heads' = Heads
    BY <1>2 DEF Heads
<1>6. RepositoryForm'
    BY <1>1, <1>2, <1>3, <1>5 DEF RepositoryForm
<1>7. TreeInv' /\ CleanupInv'
    BY <1>1, <1>2, <1>3 DEF TreeInv, CleanupInv
<1>8. CommitsSurvive' /\ EditsSurvive'
    BY <1>2 DEF WorktreeInv, CommitsSurvive, EditsSurvive
<1> QED BY <1>4, <1>6, <1>7, <1>8 DEF WorktreeInv

\* A commit on a branch has the ancestors of what was there.
LEMMA CommitOnKeeps ==
    ASSUME WorktreeInv, NEW b \in Branches, CommitOn(b),
           UNCHANGED <<rec, claims, op, givenUp, wiped, remote, onRemote, edits>>,
           \/ UNCHANGED tree
           \/ tree # NoTree /\ tree' = [tree EXCEPT !.kind = "CLEAN"]
    PROVE  WorktreeInv'
<1> DEFINE n == made + 1
<1>1. WorktreeForm /\ RepositoryForm /\ TreeInv /\ CleanupInv /\ ClaimInv
    BY DEF WorktreeInv
<1>2. /\ made \in Nat /\ n \in Commits /\ n \notin Heads /\ Heads' = Heads \cup {n}
      /\ n \in Nat /\ made <= n /\ Heads \subseteq Nat /\ made' = n /\ Absent # n
    BY <1>1, HeadsAreNumbers DEF CommitOn, WorktreeForm, WorktreeBounds, Commits, Heads, Absent
<1>3. /\ ref[b] \in Heads
      /\ ref' = [ref EXCEPT ![b] = n]
      /\ history' = [history EXCEPT ![n] = history[ref[b]] \cup {n}]
    BY <1>1, HeadsAreNumbers DEF CommitOn
<1> HIDE DEF n
<1>4. /\ ref'[b] = n /\ \A x \in Branches \ {b} : ref'[x] = ref[x]
      /\ history'[n] = history[ref[b]] \cup {n}
      /\ \A c \in Heads : history'[c] = history[c]
    BY <1>1, <1>2, <1>3, HeadsAreNumbers DEF RepositoryForm
<1>5. \A c \in Heads' : /\ c \in history'[c] /\ history'[c] \subseteq Heads'
                        /\ \A d \in history'[c] : history'[d] \subseteq history'[c]
    <2>1. ASSUME NEW c \in Heads
          PROVE  /\ c \in history'[c] /\ history'[c] \subseteq Heads
                 /\ \A d \in history'[c] : history'[d] \subseteq history'[c]
        <3>1. /\ c \in history[c] /\ history[c] \subseteq Heads
              /\ \A d \in history[c] : history[d] \subseteq history[c]
            BY <1>1 DEF RepositoryForm
        <3> QED BY <1>4, <3>1
    <2>2. ref[b] \in Heads /\ history[ref[b]] \subseteq Heads
        BY <1>1, <1>3 DEF RepositoryForm
    <2>3. \A d \in history[ref[b]] : history'[d] \subseteq history'[n]
        BY <1>1, <1>4, <2>2 DEF RepositoryForm
    <2> QED BY <1>2, <1>4, <2>1, <2>2, <2>3
<1>6. tree' = tree \/ /\ tree' \in [kind : Dirt, branch : Branches, edit : Nat]
                      /\ tree'.branch = tree.branch /\ tree' # NoTree /\ tree # NoTree
    BY <1>1, HeadsAreNumbers DEF Dirt, NoTree
<1>7. RepositoryForm'
    <2>1. ref' \in [Branches -> Heads' \cup {Absent}]
        BY <1>1, <1>2, <1>3 DEF RepositoryForm
    <2>2. history' \in [Commits -> SUBSET Int]
        <3>1. history[ref[b]] \cup {n} \in SUBSET Int
            BY <1>1, <1>2, <1>3, HeadsAreNumbers DEF RepositoryForm
        <3> QED BY <1>1, <1>2, <1>3, <3>1 DEF RepositoryForm
    <2>3. \A c \in onRemote : history'[c] \subseteq onRemote
        BY <1>1, <1>4 DEF RepositoryForm
    <2> QED BY <1>1, <1>2, <1>5, <1>6, <2>1, <2>2, <2>3 DEF RepositoryForm
<1>8. WorktreeForm' /\ ClaimInv'
    BY <1>1, <1>2, OperationStands DEF WorktreeForm
<1>9. \A x \in Branches : ref[x] # Absent => ref'[x] # Absent
    BY <1>2, <1>4
<1>10. TreeInv'
    <2>1. tree # NoTree => tree.branch \in Branches
        BY <1>1, HeadsAreNumbers
    <2>2. op.at = "RESTORE" => op.branch \in Branches
        BY <1>1, OperationForms
    <2> QED BY <1>1, <1>6, <1>9, <2>1, <2>2 DEF TreeInv
<1>11. CleanupInv'
    BY <1>1, <1>4, OperationForms DEF CleanupInv
<1>12. CommitsSurvive'
    <2>1. ASSUME NEW c \in 1..made
          PROVE  \/ c \in onRemote \cup givenUp
                 \/ \E x \in Branches : ref'[x] # Absent /\ c \in history'[ref'[x]]
        <3>1. CASE c \notin onRemote \cup givenUp
            <4>1. PICK x \in Branches : ref[x] # Absent /\ c \in history[ref[x]]
                BY <2>1, <3>1 DEF WorktreeInv, CommitsSurvive
            <4>2. CASE x = b
                BY <1>2, <1>4, <4>1, <4>2
            <4>3. CASE x # b
                BY <1>1, <1>4, <4>1, <4>3, HeadsAreNumbers
            <4> QED BY <4>2, <4>3
        <3> QED BY <3>1
    <2>2. n \in history'[n] /\ ref'[b] = n /\ n # Absent
        BY <1>2, <1>4
    <2>3. \A c \in 1..made' : c \in 1..made \/ c = n
        BY <1>2 DEF n
    <2> QED BY <2>1, <2>2, <2>3 DEF CommitsSurvive
<1>13. EditsSurvive'
    BY DEF WorktreeInv, EditsSurvive
<1> QED BY <1>7, <1>8, <1>10, <1>11, <1>12, <1>13 DEF WorktreeInv

\* What the remote has is what somebody pushed, with its ancestors.
LEMMA RemoteKeeps ==
    ASSUME WorktreeInv,
           \/ remote' = Absent /\ onRemote' = onRemote
           \/ \E c \in Heads : remote' = c /\ onRemote' = onRemote \cup history[c],
           UNCHANGED <<rec, claims, givenUp, wiped, tree, ref, history, made, edits>>,
           \/ op' = op \/ op' \in Creating
           \/ /\ op \in Publishing /\ op' \in Publishing /\ op'.c = op.c /\ op'.seen = op.seen
    PROVE  WorktreeInv'
<1>1. WorktreeForm /\ RepositoryForm /\ TreeInv /\ CleanupInv /\ ClaimInv
    BY DEF WorktreeInv
<1>2. Heads' = Heads /\ onRemote \subseteq onRemote'
    BY DEF Heads
<1>3. RepositoryForm'
    <2>1. remote' \in onRemote' \cup {Absent} /\ onRemote' \subseteq Heads
        BY <1>1 DEF RepositoryForm
    <2>2. \A c \in onRemote' : history[c] \subseteq onRemote'
        <3>1. ASSUME NEW c \in Heads, onRemote' = onRemote \cup history[c], NEW d \in onRemote'
              PROVE  history[d] \subseteq onRemote'
            BY <1>1, <3>1 DEF RepositoryForm
        <3> QED BY <1>1, <3>1 DEF RepositoryForm
    <2> QED BY <1>1, <1>2, <2>1, <2>2 DEF RepositoryForm
<1>4. OperationForm'
    BY <1>1, <1>2 DEF WorktreeForm, OperationForm, Creating, Publishing, Removing, Restoring
<1>5. WorktreeForm'
    BY <1>1, <1>4 DEF WorktreeForm, RowForm, WorktreeBounds
<1>6. TreeInv' /\ ClaimInv'
    BY <1>1 DEF TreeInv, ClaimInv, Creating, Publishing, Removing, Restoring
<1>7. CleanupInv'
    BY <1>1, <1>2 DEF CleanupInv, Creating, Publishing, Removing
<1>8. CommitsSurvive' /\ EditsSurvive'
    BY <1>2 DEF WorktreeInv, CommitsSurvive, EditsSurvive
<1> QED BY <1>3, <1>5, <1>6, <1>7, <1>8 DEF WorktreeInv


-------------------------------------------------------------------------------
(* What an operation does in the repository                                *)

\* A step that leaves the commits and the remote alone: the branches and the worktree
\* have their form, the operation goes on, and every commit stays where it was kept.
LEMMA GitStepKeeps ==
    ASSUME WorktreeInv,
           UNCHANGED <<rec, claims, history, made, edits, remote, onRemote, wiped>>,
           ref' \in [Branches -> Heads \cup {Absent}],
           tree' \in {NoTree} \cup [kind : Dirt, branch : Branches, edit : Nat],
           \/ op' \in Creating
           \/ /\ op' \in Removing /\ op \in Removing /\ op'.seen = op.seen /\ op'.c = op.c
              /\ op'.kind = op.kind
           \/ op' \in Restoring /\ op'.seen.head \in Heads,
           TreeInv', givenUp \subseteq givenUp',
           \A b \in Branches : \/ ref[b] = Absent \/ ref'[b] = ref[b]
                                 \/ history[ref[b]] \subseteq onRemote \cup givenUp'
    PROVE  WorktreeInv'
<1>1. WorktreeForm /\ RepositoryForm /\ TreeInv /\ CleanupInv /\ ClaimInv
    BY DEF WorktreeInv
<1>2. Heads' = Heads
    BY DEF Heads
<1>3. RepositoryForm'
    BY <1>1, <1>2 DEF RepositoryForm
<1>4. OperationForm'
    BY <1>1, <1>2 DEF WorktreeForm, OperationForm, Removing, Creating
<1>5. WorktreeForm'
    BY <1>1, <1>4 DEF WorktreeForm, RowForm, WorktreeBounds
<1>6. CleanupInv' /\ ClaimInv'
    BY <1>1 DEF CleanupInv, ClaimInv, Creating, Publishing, Removing, Restoring
<1>7. CommitsSurvive'
    <2>1. ASSUME NEW c \in 1..made, c \notin onRemote \cup givenUp'
          PROVE  \E b \in Branches : ref'[b] # Absent /\ c \in history[ref'[b]]
        <3>1. PICK b \in Branches : ref[b] # Absent /\ c \in history[ref[b]]
            BY <2>1 DEF WorktreeInv, CommitsSurvive
        <3>2. ref'[b] = ref[b]
            BY <2>1, <3>1
        <3> QED BY <3>1, <3>2
    <2> QED BY <2>1 DEF CommitsSurvive
<1>8. EditsSurvive'
    BY DEF WorktreeInv, EditsSurvive
<1> QED BY <1>3, <1>5, <1>6, <1>7, <1>8 DEF WorktreeInv

LEMMA AddWorktreeKeeps == ASSUME WorktreeInv, AddWorktree PROVE WorktreeInv'
<1> DEFINE clean == [kind |-> "CLEAN", branch |-> rec.branch, edit |-> 0]
<1>1. WorktreeForm /\ RepositoryForm /\ TreeInv
    BY DEF WorktreeInv
<1>2. /\ UNCHANGED <<rec, claims, history, made, edits, remote, onRemote, wiped, givenUp>>
      /\ op \in Creating /\ op' \in Creating
    <2>1. op \in Creating
        BY <1>1, OperationForms DEF AddWorktree
    <2>2. ends => op' \in Creating
        BY DEF ends, Creating, Idle
    <2>3. goes("READY") => op' \in Creating
        BY <1>1, <2>1, Goes
    <2> QED BY <2>1, <2>2, <2>3 DEF AddWorktree, outside
<1>3. rec.branch \in Branches
    BY <1>1 DEF WorktreeForm, RowForm, WorktreeRows
<1>4. CASE UNCHANGED <<tree, ref>>
    <2>1. TreeInv'
        BY <1>1, <1>2, <1>4 DEF TreeInv, Creating
    <2> QED BY <1>1, <1>2, <1>4, <2>1, GitStepKeeps DEF RepositoryForm
<1>5. CASE /\ ref[rec.branch] \in {Absent, 0} /\ tree' = clean
           /\ ref' = [ref EXCEPT ![rec.branch] = 0]
    <2>1. clean \in [kind : Dirt, branch : Branches, edit : Nat] /\ clean.branch = rec.branch
        BY <1>3 DEF Dirt
    <2> HIDE DEF clean
    <2>2. ref' \in [Branches -> Heads \cup {Absent}] /\ ref'[rec.branch] = 0 /\ 0 # Absent
          /\ \A b \in Branches : ref[b] = Absent \/ ref'[b] = ref[b]
        BY <1>1, <1>3, <1>5, HeadsAreNumbers DEF RepositoryForm, Absent
    <2>3. TreeInv'
        BY <1>2, <1>5, <2>1, <2>2 DEF TreeInv, Creating
    <2> QED BY <1>2, <1>5, <2>1, <2>2, <2>3, GitStepKeeps
<1> QED BY <1>4, <1>5 DEF AddWorktree, BranchUsable

LEMMA PushKeeps == ASSUME WorktreeInv, Push PROVE WorktreeInv'
<1>1. WorktreeForm /\ RepositoryForm /\ ClaimInv
    BY DEF WorktreeInv
<1>2. op \in Publishing /\ op.seen.head \in Heads
    BY <1>1, OperationForms DEF Push
<1>3. UNCHANGED <<rec, claims, givenUp, wiped, tree, ref, history, made, edits>>
    BY DEF Push, outside
<1>4. CASE ends /\ UNCHANGED <<remote, onRemote>>
    <2>1. op' \in Creating
        BY <1>4 DEF ends, Creating, Idle
    <2>2. RowMoves /\ OperationMoves /\ ClaimsMove
        BY <1>1, <1>3, <2>1 DEF RowMoves, OperationMoves, ClaimsMove, WorktreeForm
    <2> QED BY <1>3, <1>4, <2>2, RunnerStepKeeps DEF repository
<1>5. CASE /\ remote' = op.seen.head /\ onRemote' = onRemote \cup history[op.seen.head]
           /\ goes("RECORD")
    <2>1. op' \in Publishing /\ op'.c = op.c /\ op'.seen = op.seen
        BY <1>1, <1>2, <1>5, Goes
    <2> QED BY <1>2, <1>3, <1>5, <2>1, RemoteKeeps
<1> QED BY <1>4, <1>5 DEF Push, Pushed

\* A cleanup removes a clean worktree only: no edit goes with it.
LEMMA RemoveTreeKeeps == ASSUME WorktreeInv, RemoveTree PROVE WorktreeInv'
<1>1. WorktreeForm /\ RepositoryForm /\ TreeInv
    BY DEF WorktreeInv
<1>2. op \in Removing /\ tree' = NoTree
    BY <1>1, OperationForms DEF RemoveTree
<1>3. /\ op' \in Removing /\ op'.at = "DELETE" /\ op'.kind = op.kind /\ op'.seen = op.seen
      /\ op'.c = op.c
    BY <1>1, <1>2, Goes DEF RemoveTree, goes, Removing
<1>4. UNCHANGED <<rec, claims, history, made, edits, remote, onRemote, ref, givenUp>>
    BY DEF RemoveTree, outside
<1>5. wiped' = wiped
    BY DEF RemoveTree, Forced
<1>6. TreeInv'
    BY <1>2, <1>3 DEF TreeInv
<1> QED BY <1>1, <1>2, <1>3, <1>4, <1>5, <1>6, GitStepKeeps DEF RepositoryForm

\* The branch of what the remote has had, or of what an owner gives up, is deleted.
LEMMA DeleteBranchKeeps == ASSUME WorktreeInv, DeleteBranch PROVE WorktreeInv'
<1>1. WorktreeForm /\ RepositoryForm /\ TreeInv /\ CleanupInv
    BY DEF WorktreeInv
<1>2. op \in Removing /\ op.at = "DELETE" /\ op.kind \in {"CLEANUP", "DISCARD"} /\ tree = NoTree
      /\ UNCHANGED <<rec, claims, history, made, edits, remote, onRemote, tree, wiped>>
    BY <1>1, OperationForms DEF DeleteBranch, outside, TreeInv
<1>3. ASSUME NEW at \in {"MARK", "RECOVER"}, goes(at)
      PROVE  /\ op' \in Removing /\ op'.at = at /\ op'.kind = op.kind /\ op'.seen = op.seen
             /\ op'.c = op.c /\ TreeInv'
    <2>1. /\ op' \in Removing /\ op'.at = at /\ op'.kind = op.kind /\ op'.seen = op.seen
          /\ op'.c = op.c
        BY <1>1, <1>2, <1>3, Goes DEF goes, Removing
    <2> QED BY <1>2, <2>1 DEF TreeInv
<1>4. CASE goes("RECOVER") /\ UNCHANGED <<ref, givenUp>>
    BY <1>1, <1>2, <1>3, <1>4, GitStepKeeps DEF RepositoryForm
<1>5. CASE /\ StillAtHead /\ goes("MARK")
           /\ ref' = [ref EXCEPT ![rec.branch] = Absent]
           /\ givenUp' = IF op.kind = "DISCARD" THEN givenUp \cup history[op.seen.head] ELSE givenUp
    <2>1. ref[rec.branch] = op.seen.head /\ rec.branch \in Branches
        BY <1>1, <1>5 DEF StillAtHead, WorktreeForm, RowForm, WorktreeRows
    <2>2. ref' \in [Branches -> Heads \cup {Absent}]
          /\ \A b \in Branches \ {rec.branch} : ref'[b] = ref[b]
        BY <1>1, <1>5, <2>1 DEF RepositoryForm
    <2>3. history[op.seen.head] \subseteq onRemote \cup givenUp' /\ givenUp \subseteq givenUp'
        BY <1>1, <1>2, <1>5 DEF CleanupInv
    <2> QED BY <1>1, <1>2, <1>3, <1>5, <2>1, <2>2, <2>3, GitStepKeeps DEF RepositoryForm
<1> QED BY <1>4, <1>5 DEF DeleteBranch

\* A head that could not be deleted keeps its branch, or gets one.
LEMMA RecoverBranchKeeps == ASSUME WorktreeInv, RecoverBranch PROVE WorktreeInv'
<1> DEFINE head == op.seen.head
<1>1. WorktreeForm /\ RepositoryForm /\ TreeInv
    BY DEF WorktreeInv
<1>2. /\ op \in Removing /\ head \in Heads /\ head # Absent /\ tree = NoTree
      /\ op.kind \in {"CLEANUP", "DISCARD"} /\ op.c \in Claims /\ op.seen \in Views
      /\ UNCHANGED <<rec, claims, history, made, edits, remote, onRemote, tree, wiped, givenUp>>
      /\ rec.branch \in Branches
    BY <1>1, OperationForms, HeadsAreNumbers DEF RecoverBranch, outside, TreeInv, WorktreeForm,
       RowForm, WorktreeRows
<1>3. ASSUME NEW b \in Branches, Restores(b)
      PROVE  op' \in Restoring /\ op'.seen.head \in Heads /\ op'.at = "RESTORE" /\ op'.branch = b
    BY <1>2, <1>3 DEF Restores, Restoring
<1>4. CASE UNCHANGED ref /\ ends
    <2>1. op' \in Creating /\ TreeInv'
        BY <1>2, <1>4 DEF ends, Creating, Idle, TreeInv
    <2> QED BY <1>1, <1>2, <1>4, <2>1, GitStepKeeps DEF RepositoryForm
<1>5. CASE ref[rec.branch] = head /\ UNCHANGED ref /\ Restores(rec.branch)
    <2>1. TreeInv'
        BY <1>2, <1>3, <1>5 DEF TreeInv
    <2> QED BY <1>1, <1>2, <1>3, <1>5, <2>1, GitStepKeeps DEF RepositoryForm
<1>6. ASSUME NEW b \in Branches, ref[b] \in {Absent, head}, ref' = [ref EXCEPT ![b] = head],
             Restores(b)
      PROVE  WorktreeInv'
    <2>1. /\ ref' \in [Branches -> Heads \cup {Absent}] /\ ref'[b] = head
          /\ \A x \in Branches : ref[x] = Absent \/ ref'[x] = ref[x]
        BY <1>1, <1>2, <1>6 DEF RepositoryForm
    <2>2. TreeInv'
        BY <1>2, <1>3, <1>6, <2>1 DEF TreeInv
    <2> HIDE DEF head
    <2> QED BY <1>1, <1>2, <1>3, <1>6, <2>1, <2>2, GitStepKeeps DEF RepositoryForm
<1> QED BY <1>4, <1>5, <1>6 DEF RecoverBranch

LEMMA RestoreTreeKeeps == ASSUME WorktreeInv, RestoreTree PROVE WorktreeInv'
<1>1. WorktreeForm /\ RepositoryForm /\ TreeInv
    BY DEF WorktreeInv
<1>2. /\ op \in Restoring /\ op.branch \in Branches /\ op.seen.head \in Heads
      /\ ref[op.branch] # Absent /\ tree = NoTree
      /\ UNCHANGED <<rec, claims, history, made, edits, remote, onRemote, ref, wiped, givenUp>>
    BY <1>1, OperationForms DEF RestoreTree, outside, TreeInv
<1>3. CASE ends /\ UNCHANGED tree
    <2>1. op' \in Creating /\ TreeInv'
        BY <1>2, <1>3 DEF ends, Creating, Idle, TreeInv
    <2> QED BY <1>1, <1>2, <1>3, <2>1, GitStepKeeps DEF RepositoryForm
<1>4. CASE /\ goes("RETAIN")
           /\ tree' = [kind |-> "CLEAN", branch |-> op.branch, edit |-> 0]
    <2>1. op' \in Restoring /\ op'.seen = op.seen /\ op'.at = "RETAIN"
        BY <1>1, <1>2, <1>4, Goes
    <2>2. tree' \in [kind : Dirt, branch : Branches, edit : Nat] /\ tree'.branch = op.branch
        BY <1>2, <1>4 DEF Dirt
    <2>3. TreeInv'
        BY <1>2, <2>1, <2>2 DEF TreeInv
    <2> QED BY <1>1, <1>2, <2>1, <2>2, <2>3, GitStepKeeps DEF RepositoryForm
<1> QED BY <1>3, <1>4 DEF RestoreTree


-------------------------------------------------------------------------------
(* The invariant, and what it says                                         *)

LEMMA WorktreeStep == ASSUME WorktreeInv, [WorktreesNext]_worktreesVars PROVE WorktreeInv'
<1>1. WorktreeForm /\ RepositoryForm /\ TreeInv /\ ClaimInv
    BY DEF WorktreeInv
<1>2. CASE UNCHANGED worktreesVars
    BY <1>1, <1>2, RunnerStepKeeps, ClaimsMoved
       DEF worktreesVars, repository, RowMoves, OperationMoves
<1>3. CASE DecidingStep
    <2>1. UNCHANGED repository
        BY <1>3 DEF DecidingStep, repository, BeginCreate, MarkReady, Pin, BeginPublish,
           BeginCleanup, BeginDiscard, ConsumeAuthorization, LookBeforePush,
           RecordPublished, LookAgain, PreviewDiscard, RemoveFails, Rebind,
           RetainRestored, MarkGone, Restart, outside
    <2>2. UNCHANGED claims \/ ConsumeAuthorization
        BY <1>3 DEF DecidingStep, BeginCreate, MarkReady, Pin, BeginPublish,
           BeginCleanup, BeginDiscard, LookBeforePush, RecordPublished, LookAgain,
           PreviewDiscard, RemoveFails, Rebind, RetainRestored, MarkGone, Restart
    <2>3. ClaimsMove
        BY <1>1, <2>2, ClaimsMoved
    <2> QED BY <1>3, <2>1, <2>3, DecidingStepMoves, RunnerStepKeeps
<1>4. ASSUME NEW c \in Claims, NEW kind \in Kinds, Issue(c, kind) PROVE WorktreeInv'
    <2>1. UNCHANGED <<rec, op>> /\ UNCHANGED repository
        BY <1>4 DEF Issue, repository
    <2> QED BY <1>1, <1>4, <2>1, ClaimsMoved, RunnerStepKeeps DEF RowMoves, OperationMoves
<1>5. ASSUME NEW kind \in {"TRACKED", "UNTRACKED"}, Edit(kind) PROVE WorktreeInv'
    BY <1>5, EditKeeps
<1>6. CASE CommitInWorktree
    <2>1. tree # NoTree /\ tree.branch \in Branches
        BY <1>1, <1>6, HeadsAreNumbers DEF CommitInWorktree
    <2> QED BY <1>6, <2>1, CommitOnKeeps DEF CommitInWorktree, world
<1>7. ASSUME NEW b \in Branches, CommitElsewhere(b) PROVE WorktreeInv'
    BY <1>7, CommitOnKeeps DEF CommitElsewhere, world
<1>8. ASSUME NEW b \in Branches, PushElsewhere(b) PROVE WorktreeInv'
    <2>1. ref[b] \in Heads
        BY <1>1, <1>8, HeadsAreNumbers DEF PushElsewhere
    <2> QED BY <1>8, <2>1, RemoteKeeps DEF PushElsewhere, world
<1>9. CASE DeleteRemote
    BY <1>9, RemoteKeeps DEF DeleteRemote, world
<1>10. CASE \/ AddWorktree \/ Push \/ RemoveTree \/ DeleteBranch \/ RecoverBranch
            \/ RestoreTree
    BY <1>10, AddWorktreeKeeps, PushKeeps, RemoveTreeKeeps, DeleteBranchKeeps, RecoverBranchKeeps,
       RestoreTreeKeeps
<1> QED
    BY <1>2, <1>3, <1>4, <1>5, <1>6, <1>7, <1>8, <1>9, <1>10 DEF WorktreesNext, DecidingStep

LEMMA WorktreeSays == ASSUME WorktreeInv PROVE WorkSurvives
<1>1. WorktreeForm /\ RepositoryForm /\ TreeInv
    BY DEF WorktreeInv
<1>2. /\ rec.state \in {"NONE", "CREATING", "READY", "RETAINED", "REMOVED", "DISCARDED"}
      /\ rec.branch \in Branches /\ rec.revision \in 0..MaxRevision
      /\ rec.state = "RETAINED" => rec.revision > 0 /\ rec.observed # {}
    BY <1>1 DEF WorktreeForm, RowForm, WorktreeRows
<1>3. /\ tree.kind \in {"NONE", "CLEAN", "TRACKED", "UNTRACKED"}
      /\ tree # NoTree => ref[tree.branch] # Absent
    BY <1>1 DEF RepositoryForm, TreeInv, NoTree, Dirt
<1>4. /\ ref \in [Branches -> Commits \cup {Absent}]
      /\ remote \in onRemote \cup {Absent} /\ onRemote \subseteq 0..made
    BY <1>1, HeadsAreNumbers DEF RepositoryForm, Heads
<1> QED BY <1>2, <1>3, <1>4 DEF WorktreeInv, WorkSurvives, WorktreesTypeOK

\* A push that changes the remote gives it what the authorization of the operation names.
LEMMA PushesTheAuthorized ==
    ASSUME WorktreeInv, Push, remote' # remote
    PROVE  remote' = claims[op.c].head
<1>1. op \in Publishing
    BY OperationForms DEF Push, WorktreeInv
<1>2. remote' = op.seen.head
    BY DEF Push, Pushed
<1> QED BY <1>1, <1>2 DEF WorktreeInv, ClaimInv

LEMMA WorktreeInvariant == WorktreesSpec => []WorktreeInv
<1>1. WorktreesInit => WorktreeInv
    BY WorktreeInvInitially, WorktreesAssumption DEF WorktreeBounds
<1>2. WorktreeInv /\ [WorktreesNext]_worktreesVars => WorktreeInv'
    BY WorktreeStep
<1> QED BY <1>1, <1>2, PTL DEF WorktreesSpec

\* No commit and no uncommitted change of a run is lost by what the runner does with
\* its worktree: a commit stays on a branch until the remote has had it or an owner
\* has given it up, and a cleanup deletes no edit, whatever happens between its looks
\* and its steps, and wherever a restart ends them.
THEOREM WorkIsKept == WorktreesSpec => []WorkSurvives
<1>1. WorktreeInv => WorkSurvives
    BY WorktreeSays
<1> QED BY <1>1, WorktreeInvariant, PTL

\* Publishing gives the remote the commit that the server authorized and no other,
\* even when the worktree has moved on between the look and the push.
THEOREM AuthorizedIsPushed == WorktreesSpec => PushesWhatWasAuthorized
<1>1. WorktreeInv /\ [WorktreesNext]_worktreesVars
      => [Push /\ remote' # remote => remote' = claims[op.c].head]_worktreesVars
    BY PushesTheAuthorized
<1> QED BY <1>1, WorktreeInvariant, PTL DEF WorktreesSpec, PushesWhatWasAuthorized

===============================================================================
