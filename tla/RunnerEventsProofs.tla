-------------------------- MODULE RunnerEventsProofs --------------------------
(***************************************************************************)
(* Proofs about RunnerEvents: events are applied in order, and every event *)
(* is accounted for.                                                       *)
(*                                                                         *)
(* The hard part is a refusal: the runner writes a rejected event off, and *)
(* the server keeps no record of it, so nothing but the state of the run   *)
(* can keep it from being applied when it is sent again.  The invariant    *)
(* says why it is not: an event that is refused is blocked, by itself or   *)
(* by an event before it that is illegal or expects a revision the run has *)
(* left, and the server accepts no event out of order.  That the first     *)
(* event of the current chain is blocked when it is refused needs the      *)
(* chain to be in order (ChainInv), what is in flight to be known to the   *)
(* server (FlightInv) and the runner to predict no revision ahead of its   *)
(* own events (RevisionInv).                                               *)
(***************************************************************************)
EXTENDS RunnerEvents, SequenceTheorems, FiniteSetTheorems, TLAPS

\* AppliedInOrder with the type of what it is about.
OrderInv ==
    /\ accepted \in Seq(Nat)
    /\ AppliedInOrder

\* What is applied next continues the sequence of what was applied before.
LEMMA AppendKeepsOrder ==
    ASSUME OrderInv, NEW e, InOrder(e), accepted' = Append(accepted, e)
    PROVE  OrderInv'
<1>1. e \in Nat /\ e = Len(accepted) + 1
    BY DEF OrderInv, AppliedInOrder, InOrder
<1>2. accepted' \in Seq(Nat) /\ Len(accepted') = Len(accepted) + 1
    BY <1>1 DEF OrderInv
<1>3. ASSUME NEW i \in 1..Len(accepted')
      PROVE  accepted'[i] = i
    <2>1. CASE i \in 1..Len(accepted)
        BY <2>1 DEF OrderInv, AppliedInOrder
    <2>2. CASE i = Len(accepted) + 1
        BY <1>1, <2>2 DEF OrderInv
    <2> QED
        BY <1>2, <2>1, <2>2 DEF OrderInv
<1> QED
    BY <1>2, <1>3 DEF OrderInv, AppliedInOrder

\* The table of accepted events changes only by an event being applied.
LEMMA OnlyProcessApplies ==
    ASSUME [Next]_vars
    PROVE  \/ accepted' = accepted
           \/ \E e : InOrder(e) /\ accepted' = Append(accepted, e)
<1>1. ASSUME NEW c \in Connections, Process(c)
      PROVE  \/ accepted' = accepted
             \/ \E e : InOrder(e) /\ accepted' = Append(accepted, e)
    BY <1>1 DEF Process, Evaluate, Applicable
<1> QED
    BY <1>1 DEF Next, vars, serverVars, Send, Drain, Connect, ReceiveHello, LoseFrames,
                CloseSession, Detach, Dispatch, ChangeRun, HandleWelcome,
                HandleUnexpected, FailAccess, HandleMessage, HandleLate, Leave,
                ServerRestart, RunnerRestart

\* Over any number of connections, restarts and resent events the server
\* applies the events of a run once each, in order and without a gap.
THEOREM EventsAppliedInOrder == Spec => []AppliedInOrder
<1>1. Init => OrderInv
    BY DEF Init, OrderInv, AppliedInOrder
<1>2. OrderInv /\ [Next]_vars => OrderInv'
    <2> SUFFICES ASSUME OrderInv, [Next]_vars PROVE OrderInv'
        OBVIOUS
    <2>1. CASE accepted' = accepted
        BY <2>1 DEF OrderInv, AppliedInOrder
    <2>2. CASE \E e : InOrder(e) /\ accepted' = Append(accepted, e)
        BY <2>2, AppendKeepsOrder
    <2> QED
        BY <2>1, <2>2, OnlyProcessApplies
<1>3. OrderInv => AppliedInOrder
    BY DEF OrderInv
<1> QED
    BY <1>1, <1>2, <1>3, PTL DEF Spec

-------------------------------------------------------------------------------
(* Queues.                                                                  *)

Increasing(q) == \A i, j \in 1..Len(q) : i < j => q[i] < q[j]
Elements(q) == {q[i] : i \in 1..Len(q)}

\* A queue of two parts lists S when both are increasing, the first comes before the
\* second, and S is what is in either.
LEMMA ListsInParts ==
    ASSUME NEW p \in Seq(Events), NEW q \in Seq(Events), NEW S
    PROVE  Lists(p \o q, S) <=>
             /\ Increasing(p) /\ Increasing(q)
             /\ \A i \in 1..Len(p), j \in 1..Len(q) : p[i] < q[j]
             /\ Elements(p) \cup Elements(q) = S
<1> DEFINE r == p \o q
<1>1. /\ r \in Seq(Events) /\ Len(p) \in Nat /\ Len(q) \in Nat /\ Len(r) = Len(p) + Len(q)
      /\ \A i \in 1..Len(p) : r[i] = p[i]
      /\ \A j \in 1..Len(q) : r[Len(p) + j] = q[j]
    BY ConcatProperties
<1>2. \A i \in 1..Len(r) : \/ i \in 1..Len(p) /\ r[i] = p[i]
                           \/ \E j \in 1..Len(q) : i = Len(p) + j /\ r[i] = q[j]
    <2> TAKE i \in 1..Len(r)
    <2>1. CASE i \in 1..Len(p)
        BY <1>1, <2>1
    <2>2. CASE i \notin 1..Len(p)
        <3>1. i - Len(p) \in 1..Len(q) /\ i = Len(p) + (i - Len(p))
            BY <1>1, <2>2
        <3> QED
            BY <1>1, <3>1
    <2> QED
        BY <2>1, <2>2
<1> HIDE DEF r
<1>3. Elements(r) = Elements(p) \cup Elements(q)
    <2>1. ASSUME NEW x \in Elements(r) PROVE x \in Elements(p) \cup Elements(q)
        BY <1>2, <2>1 DEF Elements
    <2>2. ASSUME NEW x \in Elements(p) PROVE x \in Elements(r)
        <3>1. PICK i \in 1..Len(p) : x = p[i]
            BY <2>2 DEF Elements
        <3>2. i \in 1..Len(r) /\ x = r[i]
            BY <1>1, <3>1
        <3> QED
            BY <3>2 DEF Elements
    <2>3. ASSUME NEW x \in Elements(q) PROVE x \in Elements(r)
        <3>1. PICK j \in 1..Len(q) : x = q[j]
            BY <2>3 DEF Elements
        <3>2. Len(p) + j \in 1..Len(r) /\ x = r[Len(p) + j]
            BY <1>1, <3>1
        <3> QED
            BY <3>2 DEF Elements
    <2> QED
        BY <2>1, <2>2, <2>3
<1>4. Increasing(r) <=> /\ Increasing(p) /\ Increasing(q)
                        /\ \A i \in 1..Len(p), j \in 1..Len(q) : p[i] < q[j]
    <2>1. ASSUME Increasing(r)
          PROVE  /\ Increasing(p) /\ Increasing(q)
                 /\ \A i \in 1..Len(p), j \in 1..Len(q) : p[i] < q[j]
        <3>1. \A i \in 1..Len(p) : i \in 1..Len(r)
            BY <1>1
        <3>2. \A j \in 1..Len(q) : Len(p) + j \in 1..Len(r)
            BY <1>1
        <3>3. Increasing(p)
            BY <1>1, <2>1, <3>1 DEF Increasing
        <3>4. Increasing(q)
            <4> SUFFICES ASSUME NEW i \in 1..Len(q), NEW j \in 1..Len(q), i < j
                         PROVE  q[i] < q[j]
                BY DEF Increasing
            <4>1. Len(p) + i < Len(p) + j
                BY <1>1
            <4> QED
                BY <1>1, <2>1, <3>2, <4>1 DEF Increasing
        <3>5. ASSUME NEW i \in 1..Len(p), NEW j \in 1..Len(q) PROVE p[i] < q[j]
            <4>1. i < Len(p) + j
                BY <1>1
            <4> QED
                BY <1>1, <2>1, <3>1, <3>2, <4>1 DEF Increasing
        <3> QED
            BY <3>3, <3>4, <3>5
    <2>2. ASSUME Increasing(p), Increasing(q),
                 \A i \in 1..Len(p), j \in 1..Len(q) : p[i] < q[j]
          PROVE  Increasing(r)
        <3> SUFFICES ASSUME NEW i \in 1..Len(r), NEW j \in 1..Len(r), i < j
                     PROVE  r[i] < r[j]
            BY DEF Increasing
        <3>1. CASE i \in 1..Len(p) /\ j \in 1..Len(p)
            BY <1>1, <2>2, <3>1 DEF Increasing
        <3>2. CASE i \in 1..Len(p) /\ j \notin 1..Len(p)
            BY <1>1, <1>2, <2>2, <3>2
        <3>3. CASE i \notin 1..Len(p)
            <4>1. PICK a \in 1..Len(q) : i = Len(p) + a /\ r[i] = q[a]
                BY <1>2, <3>3
            <4>2. j \notin 1..Len(p)
                BY <1>1, <4>1
            <4>3. PICK b \in 1..Len(q) : j = Len(p) + b /\ r[j] = q[b]
                BY <1>2, <4>2
            <4>4. a < b
                BY <1>1, <4>1, <4>3
            <4> QED
                BY <2>2, <4>1, <4>3, <4>4 DEF Increasing
        <3> QED
            BY <3>1, <3>2, <3>3
    <2> QED
        BY <2>1, <2>2
<1> QED
    <2>1. Lists(r, S) <=> Increasing(r) /\ Elements(r) = S
        BY DEF Lists, Increasing, Elements
    <2> QED
        BY <1>3, <1>4, <2>1 DEF r

\* The first k entries of a queue, then the others, are the queue.
LEMMA CutAndJoin ==
    ASSUME NEW p \in Seq(Events), NEW q \in Seq(Events), NEW k \in 0..Len(q)
    PROVE  /\ SubSeq(q, 1, k) \in Seq(Events) /\ SubSeq(q, k + 1, Len(q)) \in Seq(Events)
           /\ Len(SubSeq(q, 1, k)) = k
           /\ \A j \in 1..k : SubSeq(q, 1, k)[j] = q[j]
           /\ (p \o SubSeq(q, 1, k)) \o SubSeq(q, k + 1, Len(q)) = p \o q
<1> DEFINE a == SubSeq(q, 1, k)
           b == SubSeq(q, k + 1, Len(q))
<1>0. Len(q) \in Nat /\ k \in Int /\ \A i \in 1..Len(q) : q[i] \in Events
    BY ElementOfSeq
<1>1. a \in Seq(Events) /\ Len(a) = k /\ \A j \in 1..k : a[j] = q[j]
    <2>1. \A i \in 1..k : q[i] \in Events
        BY <1>0
    <2> QED
        BY <1>0, <2>1, SubSeqProperties
<1>2. b \in Seq(Events)
    <2>1. \A i \in k + 1 .. Len(q) : q[i] \in Events
        BY <1>0
    <2> QED
        BY <1>0, <2>1, SubSeqProperties
<1>3. a \o b = q
    <2>1. 1 \in 1 .. Len(q) + 1 /\ k \in 1 - 1 .. Len(q) /\ Len(q) \in k .. Len(q)
        BY <1>0
    <2>2. a \o b = SubSeq(q, 1, Len(q))
        BY <2>1, ConcatAdjacentSubSeq
    <2> QED
        BY <2>2, SubSeqFull
<1> HIDE DEF a, b
<1>4. (p \o a) \o b = p \o (a \o b)
    <2>1. p \in Seq(Events) /\ a \in Seq(Events) /\ b \in Seq(Events)
        BY <1>1, <1>2
    <2> QED
        BY <2>1, ConcatAssociative
<1>5. (p \o a) \o b = p \o q
    BY <1>3, <1>4, Zenon
<1> QED
    BY <1>1, <1>2, <1>5 DEF a, b

\* Splicing an event out of an increasing queue leaves the others, in their order.
LEMMA WithoutKeepsOthers ==
    ASSUME NEW q \in Seq(Events), NEW e, Increasing(q)
    PROVE  /\ Without(q, e) \in Seq(Events)
           /\ Increasing(Without(q, e))
           /\ Elements(Without(q, e)) = Elements(q) \ {e}
<1>0. Len(q) \in Nat /\ \A i \in 1..Len(q) : q[i] \in Events /\ q[i] \in Nat
    <2>1. \A i \in 1..Len(q) : q[i] \in Events
        BY ElementOfSeq, Zenon
    <2>2. Events \subseteq Nat
        BY DEF Events
    <2> QED
        BY <2>1, <2>2, LenProperties
<1>1. CASE ~ \E j \in 1..Len(q) : q[j] = e
    BY <1>1 DEF Without, Elements
<1>2. CASE \E j \in 1..Len(q) : q[j] = e
    <2> DEFINE j == CHOOSE x \in 1..Len(q) : q[x] = e
               a == SubSeq(q, 1, j - 1)
               b == SubSeq(q, j + 1, Len(q))
    <2>1. j \in 1..Len(q) /\ q[j] = e
        BY <1>2
    <2>2. Without(q, e) = a \o b
        BY <1>2 DEF Without
    <2> HIDE DEF j
    <2>3. a \in Seq(Events) /\ Len(a) = j - 1 /\ \A i \in 1..(j - 1) : a[i] = q[i]
        <3>1. j - 1 \in Int /\ \A i \in 1 .. j - 1 : q[i] \in Events
            BY <1>0, <2>1
        <3>2. Len(a) = IF 1 <= j - 1 THEN (j - 1) - 1 + 1 ELSE 0
            BY <3>1, SubSeqProperties
        <3>3. \A i \in 1 .. (j - 1) - 1 + 1 : a[i] = q[1 + i - 1]
            BY <3>1, SubSeqProperties
        <3>4. a \in Seq(Events)
            BY <3>1, SubSeqProperties
        <3> HIDE DEF a
        <3> QED
            BY <2>1, <3>2, <3>3, <3>4
    <2>4. b \in Seq(Events) /\ Len(b) = Len(q) - j /\ \A i \in 1..(Len(q) - j) : b[i] = q[j + i]
        <3>1. j + 1 \in Int /\ Len(q) \in Int /\ \A i \in j + 1 .. Len(q) : q[i] \in Events
            BY <1>0, <2>1
        <3>2. Len(b) = IF j + 1 <= Len(q) THEN Len(q) - (j + 1) + 1 ELSE 0
            BY <3>1, SubSeqProperties
        <3>3. \A i \in 1 .. Len(q) - (j + 1) + 1 : b[i] = q[(j + 1) + i - 1]
            BY <3>1, SubSeqProperties
        <3>4. b \in Seq(Events)
            BY <3>1, SubSeqProperties
        <3> HIDE DEF b
        <3> QED
            BY <1>0, <2>1, <3>2, <3>3, <3>4
    <2> HIDE DEF a, b
    <2>5. /\ Increasing(a) /\ Increasing(b)
          /\ \A i \in 1..Len(a), k \in 1..Len(b) : a[i] < b[k]
        <3>1. Increasing(a)
            BY <1>0, <2>1, <2>3 DEF Increasing
        <3>2. Increasing(b)
            <4> SUFFICES ASSUME NEW i \in 1..Len(b), NEW k \in 1..Len(b), i < k
                         PROVE  b[i] < b[k]
                BY DEF Increasing
            <4>1. j + i \in 1..Len(q) /\ j + k \in 1..Len(q) /\ j + i < j + k
                BY <1>0, <2>1, <2>4
            <4>2. b[i] = q[j + i] /\ b[k] = q[j + k]
                BY <2>4
            <4> QED
                BY <4>1, <4>2 DEF Increasing
        <3>3. ASSUME NEW i \in 1..Len(a), NEW k \in 1..Len(b) PROVE a[i] < b[k]
            <4>1. i \in 1..Len(q) /\ j + k \in 1..Len(q) /\ i < j + k
                BY <1>0, <2>1, <2>3, <2>4
            <4>2. a[i] = q[i] /\ b[k] = q[j + k]
                BY <2>3, <2>4
            <4> QED
                BY <4>1, <4>2 DEF Increasing
        <3> QED
            BY <3>1, <3>2, <3>3
    <2>6. Elements(a) \cup Elements(b) = Elements(q) \ {e}
        <3>1. ASSUME NEW x \in Elements(a) PROVE x \in Elements(q) \ {e}
            <4>1. PICK i \in 1..Len(a) : x = a[i]
                BY <3>1 DEF Elements
            <4>2. i \in 1..Len(q) /\ i < j /\ x = q[i]
                BY <1>0, <2>1, <2>3, <4>1
            <4>3. q[i] < q[j]
                BY <2>1, <4>2 DEF Increasing
            <4> QED
                BY <1>0, <2>1, <4>2, <4>3 DEF Elements
        <3>2. ASSUME NEW x \in Elements(b) PROVE x \in Elements(q) \ {e}
            <4>1. PICK i \in 1..Len(b) : x = b[i]
                BY <3>2 DEF Elements
            <4>2. j + i \in 1..Len(q) /\ j < j + i /\ x = q[j + i]
                BY <1>0, <2>1, <2>4, <4>1
            <4>3. q[j] < q[j + i]
                BY <2>1, <4>2 DEF Increasing
            <4> QED
                BY <1>0, <2>1, <4>2, <4>3 DEF Elements
        <3>3. ASSUME NEW x \in Elements(q), x # e PROVE x \in Elements(a) \cup Elements(b)
            <4>1. PICK i \in 1..Len(q) : x = q[i]
                BY <3>3 DEF Elements
            <4>2. i # j
                BY <2>1, <3>3, <4>1
            <4>3. CASE i < j
                <5>1. i \in 1..Len(a) /\ x = a[i]
                    BY <1>0, <2>1, <2>3, <4>1, <4>3
                <5> QED
                    BY <5>1 DEF Elements
            <4>4. CASE j < i
                <5>1. i - j \in 1..Len(b) /\ j + (i - j) = i
                    BY <1>0, <2>1, <2>4, <4>4
                <5>2. x = b[i - j]
                    BY <2>4, <4>1, <5>1
                <5> QED
                    BY <5>1, <5>2 DEF Elements
            <4> QED
                BY <1>0, <2>1, <4>2, <4>3, <4>4
        <3> QED
            BY <3>1, <3>2, <3>3
    <2>7. Lists(a \o b, Elements(q) \ {e})
        BY <2>3, <2>4, <2>5, <2>6, ListsInParts
    <2>8. a \o b \in Seq(Events)
        BY <2>3, <2>4, ConcatProperties
    <2> QED
        BY <2>2, <2>7, <2>8 DEF Lists, Increasing, Elements
<1> QED
    BY <1>1, <1>2

-------------------------------------------------------------------------------
(* What the operations of the client's queues leave.                       *)

Rows == [expected : Nat \ {0}, legal : BOOLEAN, state : RowStates]

\* The rows the next state keeps say what they said, but for their state.
RowsKept(old) ==
    /\ rows' \in Seq(Rows) /\ Len(rows') = Len(old)
    /\ \A i \in 1..Len(old) : /\ rows'[i].expected = old[i].expected
                              /\ rows'[i].legal = old[i].legal

\* No row is settled or taken back.
NothingSettled(old) ==
    \A i \in 1..Len(old) : \/ rows'[i].state = old[i].state
                           \/ rows'[i].state \in Unsettled /\ old[i].state \in Unsettled

\* A flush moves events from one queue to the other and settles none.
LEMMA FlushMoves ==
    ASSUME inFlight \in Seq(Events), up \in [Connections -> Seq(Events \cup {Hello})],
           NEW q \in Seq(Events), NEW k \in 0..Len(q), NEW marked \in Seq(Rows),
           Flush(q, k, marked)
    PROVE  /\ outbound' \in Seq(Events) /\ inFlight' \in Seq(Events)
           /\ up' \in [Connections -> Seq(Events \cup {Hello})]
           /\ inFlight' \o outbound' = inFlight \o q
           /\ RowsKept(marked) /\ NothingSettled(marked)
<1>1. /\ SubSeq(q, 1, k) \in Seq(Events) /\ SubSeq(q, k + 1, Len(q)) \in Seq(Events)
      /\ (inFlight \o SubSeq(q, 1, k)) \o SubSeq(q, k + 1, Len(q)) = inFlight \o q
    BY CutAndJoin
<1>2. outbound' = SubSeq(q, k + 1, Len(q)) /\ inFlight' = inFlight \o SubSeq(q, 1, k)
    BY DEF Flush
<1>3. inFlight' \in Seq(Events)
    BY <1>1, <1>2, ConcatProperties
<1>4. up' \in [Connections -> Seq(Events \cup {Hello})]
    <2> DEFINE s == SubSeq(q, 1, k)
    <2>1. s \in Seq(Events \cup {Hello})
        BY <1>1, SeqMonotonic
    <2>2. up' = [up EXCEPT ![conn] = IF Reading THEN @ \o s ELSE @]
        BY DEF Flush
    <2> HIDE DEF s
    <2>3. ASSUME NEW c \in Connections PROVE up[c] \o s \in Seq(Events \cup {Hello})
        BY <2>1, ConcatProperties
    <2> QED
        BY <2>2, <2>3
<1>5. RowsKept(marked) /\ NothingSettled(marked)
    <2>1. \A i \in 1..Len(marked) : marked[i] \in Rows
        BY ElementOfSeq
    <2>2. rows' = [i \in 1..Len(marked) |->
                     IF marked[i].state = "PENDING" /\ \E j \in 1..k : q[j] = i
                     THEN [marked[i] EXCEPT !.state = "IN_FLIGHT"]
                     ELSE marked[i]]
        BY DEF Flush
    <2>3. \A i \in 1..Len(marked) :
            /\ [marked[i] EXCEPT !.state = "IN_FLIGHT"] \in Rows
            /\ [marked[i] EXCEPT !.state = "IN_FLIGHT"].expected = marked[i].expected
            /\ [marked[i] EXCEPT !.state = "IN_FLIGHT"].legal = marked[i].legal
            /\ [marked[i] EXCEPT !.state = "IN_FLIGHT"].state = "IN_FLIGHT"
        BY <2>1 DEF Rows, RowStates, Unsettled
    <2>4. \A i \in 1..Len(marked) : rows'[i] \in Rows
        BY <2>1, <2>2, <2>3
    <2>5. rows' \in Seq(Rows) /\ Len(rows') = Len(marked)
        BY <2>2, <2>4, LenProperties
    <2>6. \A i \in 1..Len(marked) :
            /\ rows'[i].expected = marked[i].expected
            /\ rows'[i].legal = marked[i].legal
            /\ rows'[i].state = marked[i].state \/ (rows'[i].state = "IN_FLIGHT" /\ marked[i].state = "PENDING")
        BY <2>2, <2>3
    <2> QED
        BY <2>5, <2>6 DEF RowsKept, NothingSettled, Unsettled
<1> QED
    BY <1>1, <1>2, <1>3, <1>4, <1>5

\* What the queues carry when no row is settled and they join to the same queue.
LEMMA StillCarried ==
    ASSUME UnsettledIsCarried, RowsKept(rows), NothingSettled(rows),
           inFlight' \o outbound' = inFlight \o outbound
    PROVE  UnsettledIsCarried'
<1>1. UnsettledEvents' = UnsettledEvents
    BY DEF UnsettledEvents, RowsKept, NothingSettled
<1> QED
    BY <1>1 DEF UnsettledIsCarried, Lists

\* An acknowledgement settles its own event and nothing else, and the client goes on
\* carrying exactly what is not settled.
LEMMA SettleForgetsOne ==
    ASSUME TypeOK, UnsettledIsCarried, NEW e, NEW d, Settle(e, d)
    PROVE  /\ RowsKept(rows)
           /\ inFlight' \in Seq(Events) /\ outbound' \in Seq(Events)
           /\ UnsettledIsCarried'
           /\ Elements(inFlight') \subseteq Elements(inFlight)
           /\ \A i \in 1..Len(rows) :
                \/ rows'[i].state = rows[i].state
                \/ /\ i = e /\ rows[i].state \in Unsettled
                   /\ rows'[i].state = IF d = "REJECTED" THEN "PERMANENTLY_REJECTED"
                                                         ELSE "ACKNOWLEDGED"
<1> DEFINE new == IF d = "REJECTED" THEN "PERMANENTLY_REJECTED" ELSE "ACKNOWLEDGED"
<1>0. rows \in Seq(Rows) /\ inFlight \in Seq(Events) /\ outbound \in Seq(Events)
    BY DEF TypeOK, Rows
<1>1. CASE ~ \E q \in {inFlight, outbound} : \E j \in 1..Len(q) : q[j] = e
    <2>1. UNCHANGED <<rows, inFlight, outbound>>
        BY <1>1 DEF Settle
    <2> QED
        BY <1>0, <2>1 DEF RowsKept, UnsettledIsCarried, UnsettledEvents, Lists
<1>2. CASE \E q \in {inFlight, outbound} : \E j \in 1..Len(q) : q[j] = e
    <2>1. /\ rows' = [rows EXCEPT ![e].state = new]
          /\ inFlight' = Without(inFlight, e)
          /\ outbound' = Without(outbound, e)
        BY <1>2 DEF Settle
    <2>2. /\ Increasing(inFlight) /\ Increasing(outbound)
          /\ \A i \in 1..Len(inFlight), j \in 1..Len(outbound) : inFlight[i] < outbound[j]
          /\ Elements(inFlight) \cup Elements(outbound) = UnsettledEvents
        BY <1>0, ListsInParts DEF UnsettledIsCarried
    <2>3. e \in 1..Len(rows) /\ rows[e].state \in Unsettled
        BY <1>2, <2>2 DEF Elements, UnsettledEvents
    <2>4. /\ inFlight' \in Seq(Events) /\ Increasing(inFlight')
          /\ Elements(inFlight') = Elements(inFlight) \ {e}
        BY <1>0, <2>1, <2>2, WithoutKeepsOthers
    <2>5. /\ outbound' \in Seq(Events) /\ Increasing(outbound')
          /\ Elements(outbound') = Elements(outbound) \ {e}
        BY <1>0, <2>1, <2>2, WithoutKeepsOthers
    <2>6. /\ RowsKept(rows)
          /\ rows'[e].state = new
          /\ \A i \in 1..Len(rows) : i # e => rows'[i] = rows[i]
        <3> DEFINE row == [rows[e] EXCEPT !.state = new]
        <3>1. \A i \in 1..Len(rows) : rows[i] \in Rows
            BY <1>0, ElementOfSeq
        <3>2. /\ row \in Rows /\ row.expected = rows[e].expected
              /\ row.legal = rows[e].legal /\ row.state = new
            BY <2>3, <3>1 DEF Rows, RowStates
        <3>3. rows' = [rows EXCEPT ![e] = row]
            BY <2>1
        <3> HIDE DEF row, new
        <3>4. /\ rows' \in Seq(Rows) /\ Len(rows') = Len(rows)
              /\ \A i \in 1..Len(rows) : rows'[i] = IF i = e THEN row ELSE rows[i]
            BY <1>0, <2>3, <3>2, <3>3, ExceptSeq
        <3> QED
            BY <2>3, <3>2, <3>4 DEF RowsKept
    <2>7. UnsettledEvents' = UnsettledEvents \ {e}
        <3>1. new \notin Unsettled
            BY DEF Unsettled
        <3> HIDE DEF new
        <3> QED
            BY <2>3, <2>6, <3>1 DEF UnsettledEvents, RowsKept
    <2>8. \A i \in 1..Len(inFlight'), j \in 1..Len(outbound') : inFlight'[i] < outbound'[j]
        <3>1. ASSUME NEW x \in Elements(inFlight'), NEW y \in Elements(outbound')
              PROVE  x < y
            <4>1. x \in Elements(inFlight) /\ y \in Elements(outbound)
                BY <2>4, <2>5
            <4>2. PICK i \in 1..Len(inFlight) : x = inFlight[i]
                BY <4>1 DEF Elements
            <4>3. PICK j \in 1..Len(outbound) : y = outbound[j]
                BY <4>1 DEF Elements
            <4> QED
                BY <2>2, <4>2, <4>3
        <3> QED
            BY <3>1 DEF Elements
    <2>9. Elements(inFlight') \cup Elements(outbound') = UnsettledEvents'
        BY <2>2, <2>4, <2>5, <2>7
    <2>10. UnsettledIsCarried'
        BY <2>4, <2>5, <2>8, <2>9, ListsInParts DEF UnsettledIsCarried
    <2> HIDE DEF new
    <2> QED
        BY <2>3, <2>4, <2>5, <2>6, <2>10 DEF new
<1> QED
    BY <1>1, <1>2

-------------------------------------------------------------------------------
(* Types.                                                                  *)

\* What the messages are made of.
LEMMA MessageForms ==
    /\ Acknowledgements \subseteq Messages /\ Launches \subseteq Messages
    /\ Welcome \in Messages
    /\ \A m \in Messages : /\ m.kind = "ACK" => m \in Acknowledgements
                           /\ m.kind = "LAUNCH" => m \in Launches
    /\ \A m \in Acknowledgements : m.event \in Events /\ m.disposition \in Dispositions
    /\ \A m \in Launches : m.runRevision \in Nat \ {0}
    /\ \A e \in Events, d \in Dispositions : /\ Ack(e, d) \in Acknowledgements
                                             /\ Ack(e, d).event = e
                                             /\ Ack(e, d).disposition = d
                                             /\ Ack(e, d).kind = "ACK"
    /\ \A r \in Nat \ {0} : /\ Launch(r) \in Launches /\ Launch(r).runRevision = r
                            /\ Launch(r).kind = "LAUNCH"
    BY DEF Messages, Acknowledgements, Launches, Welcome, Ack, Launch

\* What is delivered is added to the messages on their way, or lost.
LEMMA DeliverAdds ==
    ASSUME down \in Seq(Messages), NEW m \in Messages, Deliver(m)
    PROVE  /\ down' \in Seq(Messages)
           /\ \A j \in 1..Len(down') : down'[j] = m \/ \E i \in 1..Len(down) : down'[j] = down[i]
    BY DEF Deliver

\* A queue without its first or its last entry has no other.
LEMMA ShorterQueues ==
    ASSUME NEW S, NEW q \in Seq(S), q # <<>>
    PROVE  /\ Len(q) \in Nat \ {0}
           /\ q[1] \in S
           /\ Tail(q) \in Seq(S) /\ Len(Tail(q)) = Len(q) - 1
           /\ \A j \in 1..Len(Tail(q)) : j + 1 \in 1..Len(q) /\ Tail(q)[j] = q[j + 1]
           /\ SubSeq(q, 1, Len(q) - 1) \in Seq(S)
           /\ Len(SubSeq(q, 1, Len(q) - 1)) = Len(q) - 1
           /\ \A j \in 1..(Len(q) - 1) : SubSeq(q, 1, Len(q) - 1)[j] = q[j]
<1>1. Len(q) \in Nat \ {0}
    BY EmptySeq
<1>2. \A i \in 1 .. Len(q) - 1 : q[i] \in S
    BY <1>1, ElementOfSeq
<1> DEFINE a == SubSeq(q, 1, Len(q) - 1)
<1>3. a \in Seq(S)
    BY <1>1, <1>2, SubSeqProperties
<1>4. Len(a) = IF 1 <= Len(q) - 1 THEN (Len(q) - 1) - 1 + 1 ELSE 0
    BY <1>1, <1>2, SubSeqProperties
<1>5. \A i \in 1 .. (Len(q) - 1) - 1 + 1 : a[i] = q[1 + i - 1]
    BY <1>1, <1>2, SubSeqProperties
<1> HIDE DEF a
<1>6. Len(a) = Len(q) - 1 /\ \A j \in 1..(Len(q) - 1) : a[j] = q[j]
    <2>1. Len(a) = Len(q) - 1
        <3> DEFINE n == Len(q)
        <3>1. n \in Nat \ {0} /\ Len(a) = IF 1 <= n - 1 THEN (n - 1) - 1 + 1 ELSE 0
            BY <1>1, <1>4
        <3> HIDE DEF n
        <3>2. Len(a) = n - 1
            BY <3>1
        <3> QED
            BY <3>2 DEF n
    <2>2. ASSUME NEW j \in 1..(Len(q) - 1) PROVE a[j] = q[j]
        <3>1. j \in 1 .. (Len(q) - 1) - 1 + 1 /\ 1 + j - 1 = j
            BY <1>1
        <3> QED
            BY <1>5, <3>1
    <2> QED
        BY <2>1, <2>2
<1>7. /\ q[1] \in S /\ Tail(q) \in Seq(S) /\ Len(Tail(q)) = Len(q) - 1
      /\ \A j \in 1..Len(Tail(q)) : Tail(q)[j] = q[j + 1]
    BY <1>1, HeadTailProperties, ElementOfSeq
<1> QED
    BY <1>1, <1>3, <1>6, <1>7 DEF a

\* A new row is one more event, and waits.
LEMMA NewRow ==
    ASSUME TypeOK, known > 0, HasRoom, NEW legal \in BOOLEAN
    PROVE  LET row == [expected |-> known, legal |-> legal, state |-> "PENDING"]
           IN  /\ Append(rows, row) \in Seq(Rows)
               /\ Len(Append(rows, row)) = Len(rows) + 1
               /\ \A i \in 1..Len(rows) : Append(rows, row)[i] = rows[i]
               /\ Append(rows, row)[Len(rows) + 1] = row
               /\ Len(rows) + 1 \in Events
               /\ Append(outbound, Len(rows) + 1) \in Seq(Events)
               /\ Len(Append(outbound, Len(rows) + 1)) = Len(outbound) + 1
<1> DEFINE row == [expected |-> known, legal |-> legal, state |-> "PENDING"]
<1>1. row \in Rows
    BY DEF TypeOK, Rows, RowStates, Unsettled
<1>2. rows \in Seq(Rows) /\ Len(rows) \in Nat /\ outbound \in Seq(Events)
    BY LenProperties DEF TypeOK, Rows
<1> HIDE DEF row
<1>3. Len(rows) + 1 \in Events
    BY <1>2, BoundsAssumption DEF HasRoom, Events
<1>4. /\ Append(rows, row) \in Seq(Rows)
      /\ Len(Append(rows, row)) = Len(rows) + 1
      /\ \A i \in 1..Len(rows) : Append(rows, row)[i] = rows[i]
      /\ Append(rows, row)[Len(rows) + 1] = row
    BY <1>1, <1>2, AppendProperties
<1>5. /\ Append(outbound, Len(rows) + 1) \in Seq(Events)
      /\ Len(Append(outbound, Len(rows) + 1)) = Len(outbound) + 1
    BY <1>2, <1>3, AppendProperties
<1> QED
    BY <1>3, <1>4, <1>5 DEF row

\* The events the runner's daemon restarts with.
LEMMA RestartKeepsRows ==
    ASSUME TypeOK, RunnerRestart
    PROVE  /\ RowsKept(rows) /\ NothingSettled(rows)
           /\ outbound' \in Seq(Events)
           /\ UnsettledIsCarried'
<1>1. rows \in Seq(Rows) /\ Len(rows) \in Nat /\ \A i \in 1..Len(rows) : rows[i] \in Rows
    <2>1. rows \in Seq(Rows)
        BY DEF TypeOK, Rows
    <2> QED
        BY <2>1, ElementOfSeq, LenProperties
<1>2. \A i \in 1..Len(rows) :
        /\ [rows[i] EXCEPT !.state = "PENDING"] \in Rows
        /\ [rows[i] EXCEPT !.state = "PENDING"].expected = rows[i].expected
        /\ [rows[i] EXCEPT !.state = "PENDING"].legal = rows[i].legal
        /\ [rows[i] EXCEPT !.state = "PENDING"].state = "PENDING"
    BY <1>1 DEF Rows, RowStates, Unsettled
<1>3. rows' = [i \in 1..Len(rows) |->
                 IF rows[i].state = "IN_FLIGHT"
                 THEN [rows[i] EXCEPT !.state = "PENDING"] ELSE rows[i]]
    BY DEF RunnerRestart
<1>4. \A i \in 1..Len(rows) : rows'[i] \in Rows
    BY <1>1, <1>2, <1>3
<1>5. rows' \in Seq(Rows) /\ Len(rows') = Len(rows)
    BY <1>1, <1>3, <1>4, LenProperties
<1>6. RowsKept(rows) /\ NothingSettled(rows)
    <2>1. \A i \in 1..Len(rows) :
            /\ rows'[i].expected = rows[i].expected
            /\ rows'[i].legal = rows[i].legal
            /\ rows'[i].state = rows[i].state \/ (rows'[i].state = "PENDING" /\ rows[i].state = "IN_FLIGHT")
        BY <1>2, <1>3
    <2> QED
        BY <1>5, <2>1 DEF RowsKept, NothingSettled, Unsettled
<1>7. UnsettledEvents' = UnsettledEvents
    BY <1>6 DEF UnsettledEvents, RowsKept, NothingSettled
<1>8. UnsettledEvents \subseteq 1..Len(rows) /\ UnsettledEvents \subseteq Events
    <2>1. UnsettledEvents \subseteq 1..Len(rows)
        BY DEF UnsettledEvents
    <2>2. 1..Len(rows) \subseteq Events
        BY <1>1, BoundsAssumption DEF Events, TypeOK
    <2> QED
        BY <2>1, <2>2
<1>9. PICK q \in [1..Cardinality(UnsettledEvents) -> UnsettledEvents] :
        Lists(q, UnsettledEvents) /\ outbound' = q
    BY Zenon DEF RunnerRestart
<1>10. Cardinality(UnsettledEvents) \in Nat
    <2>1. IsFiniteSet(1..Len(rows))
        BY <1>1, FS_Interval
    <2> QED
        BY <1>8, <2>1, FS_Subset, FS_CardinalityType
<1>11. q \in Seq(Events)
    <2>1. q \in Seq(UnsettledEvents)
        BY <1>10, SeqDef
    <2> QED
        BY <1>8, <2>1, SeqMonotonic
<1>12. inFlight' \o outbound' = q
    BY <1>9, <1>11, ConcatEmptySeq DEF RunnerRestart
<1>13. UnsettledIsCarried'
    BY <1>7, <1>9, <1>12, Zenon DEF UnsettledIsCarried
<1> QED
    BY <1>6, <1>9, <1>11, <1>13

\* The types hold in every state.
LEMMA TypeInit == Init => TypeOK
<1> SUFFICES ASSUME Init PROVE TypeOK
    OBVIOUS
<1>1. <<>> \in Seq(Rows) /\ <<>> \in Seq(Events) /\ <<>> \in Seq(Messages)
      /\ <<>> \in Seq(Events \cup {Hello}) /\ Len(<<>>) = 0
    OBVIOUS
<1> QED
    BY <1>1, BoundsAssumption DEF Init, TypeOK, Rows

\* Every action keeps the types.
LEMMA TypeStep ==
    ASSUME TypeOK, UnsettledIsCarried, [Next]_vars
    PROVE  TypeOK'
<1> USE BoundsAssumption
<1>0. /\ rows \in Seq(Rows) /\ Len(rows) \in Nat
      /\ outbound \in Seq(Events) /\ inFlight \in Seq(Events)
      /\ up \in [Connections -> Seq(Events \cup {Hello})]
      /\ down \in Seq(Messages)
    BY LenProperties DEF TypeOK, Rows
<1>1. ASSUME NEW legal \in BOOLEAN, Send(legal) PROVE TypeOK'
    <2> DEFINE row == [expected |-> known, legal |-> legal, state |-> "PENDING"]
               q == Append(outbound, Len(rows) + 1)
    <2>1. /\ Append(rows, row) \in Seq(Rows) /\ Len(Append(rows, row)) = Len(rows) + 1
          /\ q \in Seq(Events) /\ Len(q) = Len(outbound) + 1
        BY <1>1, NewRow DEF Send
    <2>2. PICK k \in 0..(Len(outbound) + 1) : Flush(q, k, Append(rows, row))
        BY <1>1 DEF Send
    <2> DEFINE marked == Append(rows, row)
    <2> HIDE DEF row, q, marked
    <2>3. /\ outbound' \in Seq(Events) /\ inFlight' \in Seq(Events)
          /\ up' \in [Connections -> Seq(Events \cup {Hello})]
          /\ RowsKept(marked)
        BY <1>0, <2>1, <2>2, FlushMoves DEF marked
    <2>4. Len(rows') <= MaxEvents
        BY <1>0, <1>1, <2>1, <2>3 DEF RowsKept, marked, Send, HasRoom
    <2>5. /\ known' = known + 1
          /\ UNCHANGED <<link, conn, late, down, session, cache, accepted, revision>>
          /\ UNCHANGED <<launches, serverRestarts, runnerRestarts>>
        BY <1>1 DEF Send, serverVars, boundVars
    <2>6. rows' \in Seq(Rows)
        BY <2>3 DEF RowsKept
    <2> QED
        BY <2>3, <2>4, <2>5, <2>6 DEF TypeOK, Rows
<1>2. ASSUME Drain PROVE TypeOK'
    <2>1. PICK k \in 1..Len(outbound) : Flush(outbound, k, rows)
        BY <1>2 DEF Drain
    <2>2. k \in 0..Len(outbound)
        OBVIOUS
    <2>3. /\ outbound' \in Seq(Events) /\ inFlight' \in Seq(Events)
          /\ up' \in [Connections -> Seq(Events \cup {Hello})]
          /\ RowsKept(rows)
        BY <1>0, <2>1, <2>2, FlushMoves
    <2> QED
        BY <1>2, <2>3 DEF Drain, RowsKept, TypeOK, Rows, serverVars, boundVars
<1>3. ASSUME HandleWelcome PROVE TypeOK'
    <2>1. PICK k \in 0..Len(outbound) : Flush(outbound, k, rows)
        BY <1>3 DEF HandleWelcome
    <2>2. /\ outbound' \in Seq(Events) /\ inFlight' \in Seq(Events)
          /\ up' \in [Connections -> Seq(Events \cup {Hello})]
          /\ RowsKept(rows)
        BY <1>0, <2>1, FlushMoves
    <2>3. down' \in Seq(Messages)
        BY <1>0, <1>3 DEF HandleWelcome
    <2> QED
        BY <1>3, <2>2, <2>3 DEF HandleWelcome, RowsKept, TypeOK, Rows, serverVars, boundVars
<1>4. ASSUME HandleMessage \/ HandleLate PROVE TypeOK'
    <2>1. /\ rows' \in Seq(Rows) /\ Len(rows') = Len(rows)
          /\ inFlight' \in Seq(Events) /\ outbound' \in Seq(Events)
        <3>1. CASE \E e, d : Settle(e, d)
            BY <3>1, SettleForgetsOne DEF RowsKept
        <3>2. CASE UNCHANGED <<rows, inFlight, outbound>>
            BY <1>0, <3>2
        <3> QED
            BY <1>4, <3>1, <3>2 DEF HandleMessage, HandleLate
    <2>2. known' \in Nat /\ down' \in Seq(Messages) /\ late' \subseteq late
        <3>1. CASE HandleLate
            BY <3>1 DEF HandleLate, TypeOK
        <3>2. CASE HandleMessage
            <4>1. down # <<>> /\ down' = Tail(down) /\ late' = late
                BY <3>2 DEF HandleMessage
            <4>2. down[1] \in Messages /\ Tail(down) \in Seq(Messages)
                BY <1>0, <4>1, ShorterQueues
            <4>3. known' = known \/ (down[1].kind = "LAUNCH" /\ known' = down[1].runRevision)
                BY <3>2 DEF HandleMessage
            <4>4. known' \in Nat
                BY <4>2, <4>3, MessageForms DEF TypeOK
            <4> QED
                BY <4>1, <4>2, <4>4
        <3> QED
            BY <1>4, <3>1, <3>2
    <2>3. UNCHANGED <<link, conn, up, serverVars, boundVars>>
        BY <1>4 DEF HandleMessage, HandleLate
    <2> QED
        BY <2>1, <2>2, <2>3 DEF TypeOK, Rows, serverVars, boundVars
<1>5. ASSUME HandleUnexpected \/ Leave PROVE TypeOK'
    <2>1. outbound' \in Seq(Events) /\ inFlight' \in Seq(Events)
        <3>1. outbound' = inFlight \o outbound /\ inFlight' = <<>>
            BY <1>5 DEF HandleUnexpected, Leave, Requeue
        <3>2. inFlight \o outbound \in Seq(Events) /\ <<>> \in Seq(Events)
            BY <1>0, ConcatProperties
        <3> QED
            BY <3>1, <3>2
    <2>2. late' \subseteq Acknowledgements
        <3>1. CASE HandleUnexpected
            BY <3>1 DEF HandleUnexpected, TypeOK
        <3>2. CASE Leave
            <4>1. PICK k \in 0..(IF link = "ACTIVE" THEN Len(down) ELSE 0) :
                    late' = late \cup {m \in {down[j] : j \in 1..k} : m.kind = "ACK"}
                BY <3>2 DEF Leave
            <4>2. \A j \in 1..k : down[j] \in Messages
                BY <1>0, LenProperties, ElementOfSeq
            <4> QED
                BY <4>1, <4>2, MessageForms DEF TypeOK
        <3> QED
            BY <1>5, <3>1, <3>2
    <2>3. /\ down' = <<>> /\ link' \in {"STOPPED", "DOWN"}
          /\ UNCHANGED <<rows, known, conn, up, serverVars, boundVars>>
        BY <1>5 DEF HandleUnexpected, Leave
    <2>4. down' \in Seq(Messages)
        BY <2>3
    <2> QED
        BY <2>1, <2>2, <2>3, <2>4 DEF TypeOK, serverVars, boundVars
<1>6. ASSUME NEW c \in Connections, Process(c) PROVE TypeOK'
    <2> DEFINE e == up[c][1]
    <2>1. /\ up[c] # <<>> /\ e # Hello /\ up' = [up EXCEPT ![c] = Tail(@)]
          /\ UNCHANGED <<runnerVars, session, boundVars>>
        BY <1>6 DEF Process
    <2>2. up' \in [Connections -> Seq(Events \cup {Hello})] /\ e \in Events
        BY <1>0, <2>1, ShorterQueues
    <2>3. /\ cache' \in [Events -> {"NONE", "APPLIED", "REJECTED"}]
          /\ accepted' \in Seq(Events) /\ revision' \in Nat \ {0}
          /\ down' \in Seq(Messages)
        <3>1. \/ UNCHANGED down
              \/ \E d \in Dispositions : Deliver(Ack(e, d))
            BY <1>6 DEF Process, Evaluate, Dispositions
        <3>2. down' \in Seq(Messages)
            BY <1>0, <2>2, <3>1, MessageForms, DeliverAdds
        <3>3. accepted' = accepted \/ accepted' = Append(accepted, e)
            BY <1>6 DEF Process, Evaluate
        <3>4. accepted' \in Seq(Events)
            <4>1. accepted \in Seq(Events)
                BY DEF TypeOK
            <4> QED
                BY <2>2, <3>3, <4>1, AppendProperties
        <3>5. revision' = revision \/ revision' = revision + 1
            BY <1>6 DEF Process, Evaluate
        <3>6. \/ cache' = cache
              \/ \E v \in {"APPLIED", "REJECTED"} : cache' = [cache EXCEPT ![e] = v]
            BY <1>6 DEF Process, Evaluate
        <3>7. cache' \in [Events -> {"NONE", "APPLIED", "REJECTED"}]
            BY <3>6 DEF TypeOK
        <3>8. revision' \in Nat \ {0}
            BY <3>5 DEF TypeOK
        <3> QED
            BY <3>2, <3>4, <3>7, <3>8
    <2> QED
        BY <2>1, <2>2, <2>3 DEF TypeOK, runnerVars, boundVars
<1>7. ASSUME NEW c \in Connections, LoseFrames(c) PROVE TypeOK'
    <2>1. up' \in [Connections -> Seq(Events \cup {Hello})]
        BY <1>0, <1>7, ShorterQueues DEF LoseFrames
    <2> QED
        BY <1>7, <2>1 DEF LoseFrames, TypeOK, runnerVars, serverVars, boundVars
<1>8. ASSUME Connect PROVE TypeOK'
    <2>1. <<Hello>> \in Seq(Events \cup {Hello}) /\ <<>> \in Seq(Messages)
        OBVIOUS
    <2>2. /\ up' \in [Connections -> Seq(Events \cup {Hello})]
          /\ down' \in Seq(Messages)
        BY <1>0, <1>8, <2>1 DEF Connect
    <2>3. conn' \in 0..MaxConnections
        BY <1>8 DEF Connect, TypeOK
    <2> QED
        BY <1>8, <2>2, <2>3 DEF Connect, TypeOK, boundVars
<1>9. ASSUME ReceiveHello PROVE TypeOK'
    <2>1. down' \in Seq(Messages)
        BY <1>0, <1>9, MessageForms, DeliverAdds DEF ReceiveHello
    <2>2. up' \in [Connections -> Seq(Events \cup {Hello})]
        BY <1>0, <1>9, ShorterQueues DEF ReceiveHello
    <2> QED
        BY <1>9, <2>1, <2>2 DEF ReceiveHello, TypeOK, runnerVars, boundVars
<1>10. ASSUME Dispatch PROVE TypeOK'
    <2>1. down' \in Seq(Messages)
        BY <1>0, <1>10, MessageForms, DeliverAdds DEF Dispatch, TypeOK
    <2> QED
        BY <1>10, <2>1 DEF Dispatch, TypeOK, runnerVars, serverVars
<1>11. ASSUME CloseSession \/ Detach \/ ChangeRun PROVE TypeOK'
    <2>1. /\ UNCHANGED <<runnerVars, down, up, cache, accepted, boundVars>>
          /\ session' \in {session, "CLOSED", "NONE"} /\ revision' \in {revision, revision + 1}
        BY <1>11 DEF CloseSession, Detach, ChangeRun
    <2> QED
        BY <2>1 DEF TypeOK, runnerVars, boundVars
<1>12. ASSUME ServerRestart PROVE TypeOK'
    <2>1. <<>> \in Seq(Events \cup {Hello})
        OBVIOUS
    <2>2. up' \in [Connections -> Seq(Events \cup {Hello})]
        BY <1>12, <2>1 DEF ServerRestart
    <2> QED
        BY <1>12, <2>2 DEF ServerRestart, TypeOK, runnerVars
<1>13. ASSUME RunnerRestart PROVE TypeOK'
    <2>1. RowsKept(rows) /\ outbound' \in Seq(Events)
        BY <1>13, RestartKeepsRows
    <2>2. <<>> \in Seq(Events) /\ <<>> \in Seq(Messages)
        OBVIOUS
    <2>3. rows' \in Seq(Rows) /\ Len(rows') = Len(rows)
        BY <2>1 DEF RowsKept
    <2>4. /\ inFlight' = <<>> /\ known' = 0 /\ link' = "DOWN" /\ late' = {} /\ down' = <<>>
          /\ runnerRestarts < RunnerRestarts /\ runnerRestarts' = runnerRestarts + 1
          /\ UNCHANGED <<conn, up, serverVars, launches, serverRestarts>>
        BY <1>13 DEF RunnerRestart
    <2> QED
        BY <2>1, <2>2, <2>3, <2>4 DEF TypeOK, Rows, serverVars
<1>14. ASSUME FailAccess PROVE TypeOK'
    BY <1>14 DEF FailAccess, TypeOK, serverVars, boundVars
<1>15. CASE UNCHANGED vars
    BY <1>15 DEF vars, TypeOK, runnerVars, serverVars, boundVars
<1> QED
    BY <1>1, <1>2, <1>3, <1>4, <1>5, <1>6, <1>7, <1>8, <1>9, <1>10, <1>11, <1>12,
       <1>13, <1>14, <1>15 DEF Next

-------------------------------------------------------------------------------
(* The inductive invariant.                                                *)

\* The next event the server could accept.
NextEvent == Len(accepted) + 1

\* Event e will never be applied: it, or an event before it that was not, cannot be
\* applied in the revision of the run or in any later one.
Blocked(e) ==
    \E d \in 1..Len(rows) :
        /\ NextEvent <= d /\ d <= e
        /\ ~rows[d].legal \/ rows[d].expected < revision

\* The fate of event e is decided.
Decided(e) == (e \in Nat /\ e < NextEvent) \/ Blocked(e)

Occurs(e, q) == \E j \in 1..Len(q) : q[j] = e

\* The runner predicts no revision that the events before it do not account for.
RevisionInv ==
    /\ accepted \in Seq(Nat) /\ AppliedInOrder /\ NextEvent <= Len(rows) + 1
    /\ \A d \in 1..Len(rows) : NextEvent <= d => rows[d].expected <= revision + (d - NextEvent)
    /\ known <= revision + (Len(rows) + 1 - NextEvent)
    /\ \A j \in 1..Len(down) : down[j].kind = "LAUNCH" => down[j].runRevision <= revision

\* What was answered was decided, and what was rejected will not be applied: by the
\* cache of the server, the acknowledgements on their way and the rows of the runner.
AnsweredInv ==
    /\ \A e \in Events : /\ cache[e] # "NONE" => Decided(e)
                         /\ cache[e] = "REJECTED" => Blocked(e)
    /\ \A m \in late \cup {down[j] : j \in 1..Len(down)} : m.kind = "ACK" =>
         Decided(m.event) /\ (m.disposition = "REJECTED" => Blocked(m.event))
    /\ \A e \in 1..Len(rows) :
         /\ rows[e].state = "ACKNOWLEDGED" => Decided(e)
         /\ rows[e].state = "PERMANENTLY_REJECTED" => Blocked(e)

\* The chain of the current connection sees the events in order: what comes before one
\* of them is decided, or comes before it in the chain.
ChainInv ==
    /\ \A c \in Connections : \A k \in 1..Len(up[c]) : up[c][k] <= Len(rows)
    /\ session # "NONE" => conn \in Connections
    /\ session = "HELLO" => /\ up[conn] \in {<<>>, <<Hello>>} /\ link # "ACTIVE"
                            /\ \A j \in 1..Len(down) : down[j].kind # "WELCOME"
    /\ session # "NONE" => \A k \in 1..Len(up[conn]) : \A d \in 1..(up[conn][k] - 1) :
         Decided(d) \/ \E j \in 1..(k - 1) : up[conn][j] = d

\* What is in flight on a connection that holds is decided or still in its chain.
FlightInv ==
    /\ link # "ACTIVE" => inFlight = <<>>
    /\ link \in {"NEGOTIATING", "ACTIVE"} => conn \in Connections
    /\ Reading /\ link = "ACTIVE" => \A d \in Elements(inFlight) :
         Decided(d) \/ Occurs(d, up[conn])

Inv ==
    /\ TypeOK /\ RevisionInv /\ AnsweredInv /\ ChainInv /\ FlightInv
    /\ UnsettledIsCarried

-------------------------------------------------------------------------------
(* What is decided stays decided.                                          *)

\* What a step does to what decides the fate of the events: rows are added and keep
\* what they say, the revision never goes back, and what is applied is the next event,
\* legal in the revision it expects.
Progress ==
    /\ rows' \in Seq(Rows) /\ Len(rows) <= Len(rows')
    /\ \A d \in 1..Len(rows) : /\ rows'[d].expected = rows[d].expected
                               /\ rows'[d].legal = rows[d].legal
    /\ revision' \in Nat /\ revision <= revision'
    /\ \/ accepted' = accepted
       \/ /\ accepted' = Append(accepted, NextEvent) /\ NextEvent \in 1..Len(rows)
          /\ rows[NextEvent].legal /\ rows[NextEvent].expected = revision
          /\ revision' = revision + 1

\* The outbox only grows, and a row keeps what it expects and whether it is legal.
LEMMA RowsProgress ==
    ASSUME TypeOK, UnsettledIsCarried, [Next]_vars
    PROVE  /\ rows' \in Seq(Rows) /\ Len(rows) <= Len(rows')
           /\ \A d \in 1..Len(rows) : /\ rows'[d].expected = rows[d].expected
                                      /\ rows'[d].legal = rows[d].legal
<1>0. /\ rows \in Seq(Rows) /\ Len(rows) \in Nat
      /\ outbound \in Seq(Events) /\ inFlight \in Seq(Events)
      /\ up \in [Connections -> Seq(Events \cup {Hello})]
    BY LenProperties DEF TypeOK, Rows
<1> SUFFICES RowsKept(rows) \/ \E row \in Rows : RowsKept(Append(rows, row))
    <2>1. CASE RowsKept(rows)
        BY <1>0, <2>1 DEF RowsKept
    <2>2. ASSUME NEW row \in Rows, RowsKept(Append(rows, row))
          PROVE  /\ rows' \in Seq(Rows) /\ Len(rows) <= Len(rows')
                 /\ \A d \in 1..Len(rows) : /\ rows'[d].expected = rows[d].expected
                                            /\ rows'[d].legal = rows[d].legal
        <3>1. /\ Len(Append(rows, row)) = Len(rows) + 1
              /\ \A d \in 1..Len(rows) : Append(rows, row)[d] = rows[d]
            BY <1>0, AppendProperties
        <3>2. \A d \in 1..Len(rows) : d \in 1..(Len(rows) + 1)
            BY <1>0
        <3> QED
            BY <1>0, <2>2, <3>1, <3>2 DEF RowsKept
    <2> QED
        BY <2>1, <2>2
<1>1. ASSUME NEW legal \in BOOLEAN, Send(legal)
      PROVE  \E row \in Rows : RowsKept(Append(rows, row))
    <2> DEFINE row == [expected |-> known, legal |-> legal, state |-> "PENDING"]
               q == Append(outbound, Len(rows) + 1)
               marked == Append(rows, row)
    <2>1. /\ marked \in Seq(Rows)
          /\ q \in Seq(Events) /\ Len(q) = Len(outbound) + 1
        BY <1>1, NewRow DEF Send
    <2>2. PICK k \in 0..(Len(outbound) + 1) : Flush(q, k, marked)
        BY <1>1 DEF Send
    <2>3. row \in Rows
        BY <1>1 DEF Send, TypeOK, Rows, RowStates, Unsettled
    <2> HIDE DEF q, marked
    <2>4. RowsKept(marked)
        BY <1>0, <2>1, <2>2, FlushMoves
    <2> QED
        BY <2>3, <2>4 DEF marked
<1>2. ASSUME Drain \/ HandleWelcome PROVE RowsKept(rows)
    <2>1. PICK k \in 0..Len(outbound) : Flush(outbound, k, rows)
        BY <1>2 DEF Drain, HandleWelcome
    <2> QED
        BY <1>0, <2>1, FlushMoves
<1>3. ASSUME HandleMessage \/ HandleLate PROVE RowsKept(rows)
    <2>1. CASE \E e, d : Settle(e, d)
        BY <2>1, SettleForgetsOne
    <2>2. CASE rows' = rows
        BY <1>0, <2>2 DEF RowsKept
    <2> QED
        BY <1>3, <2>1, <2>2 DEF HandleMessage, HandleLate
<1>4. ASSUME RunnerRestart PROVE RowsKept(rows)
    BY <1>4, RestartKeepsRows
<1>5. CASE rows' = rows
    BY <1>0, <1>5 DEF RowsKept
<1> QED
    BY <1>1, <1>2, <1>3, <1>4, <1>5
    DEF Next, vars, runnerVars, Connect, ReceiveHello, Process, LoseFrames, CloseSession,
        Detach, Dispatch, ChangeRun, HandleUnexpected, FailAccess, Leave, ServerRestart

\* Every step makes progress in this sense, or stands still.
LEMMA Progresses ==
    ASSUME TypeOK, UnsettledIsCarried, RevisionInv, ChainInv, [Next]_vars
    PROVE  Progress
<1>1. /\ rows' \in Seq(Rows) /\ Len(rows) <= Len(rows')
      /\ \A d \in 1..Len(rows) : /\ rows'[d].expected = rows[d].expected
                                 /\ rows'[d].legal = rows[d].legal
      /\ revision' \in Nat
    BY RowsProgress, TypeStep DEF TypeOK
<1>2. /\ revision <= revision'
      /\ \/ accepted' = accepted
         \/ /\ accepted' = Append(accepted, NextEvent) /\ NextEvent \in 1..Len(rows)
            /\ rows[NextEvent].legal /\ rows[NextEvent].expected = revision
            /\ revision' = revision + 1
    <2>0. revision \in Nat
        BY DEF TypeOK
    <2>1. CASE accepted' = accepted /\ revision' = revision
        BY <2>0, <2>1
    <2>2. ASSUME NEW c \in Connections, Process(c), accepted' # accepted
          PROVE  /\ accepted' = Append(accepted, NextEvent) /\ NextEvent \in 1..Len(rows)
                 /\ rows[NextEvent].legal /\ rows[NextEvent].expected = revision
                 /\ revision' = revision + 1
        <3> DEFINE e == up[c][1]
        <3>1. /\ up[c] # <<>> /\ accepted' = Append(accepted, e) /\ Applicable(e)
              /\ revision' = revision + 1
            BY <2>2 DEF Process, Evaluate
        <3>2. e = NextEvent
            BY <3>1 DEF Applicable, InOrder, NextEvent, RevisionInv, AppliedInOrder
        <3>3. e \in 1..Len(rows)
            <4>1. 1 \in 1..Len(up[c])
                BY <3>1, ShorterQueues DEF TypeOK
            <4>2. NextEvent \in Nat \ {0} /\ Len(rows) \in Nat
                BY LenProperties DEF NextEvent, TypeOK
            <4> QED
                BY <3>2, <4>1, <4>2 DEF ChainInv
        <3> QED
            BY <3>1, <3>2, <3>3 DEF Applicable
    <2>3. ASSUME NEW c \in Connections, Process(c), accepted' = accepted
          PROVE  revision' = revision
        <3>1. accepted \in Seq(Nat)
            BY DEF RevisionInv
        <3>2. \A e : Append(accepted, e) # accepted
            BY <3>1
        <3> QED
            BY <2>3, <3>2 DEF Process, Evaluate
    <2>4. ASSUME ChangeRun PROVE accepted' = accepted /\ revision <= revision'
        BY <2>0, <2>4 DEF ChangeRun
    <2>5. \/ accepted' = accepted /\ revision' = revision
          \/ \E c \in Connections : Process(c)
          \/ ChangeRun
        BY DEF Next, vars, serverVars, Send, Drain, Connect, ReceiveHello, LoseFrames,
            CloseSession, Detach, Dispatch, HandleWelcome, HandleUnexpected, FailAccess,
            HandleMessage, HandleLate, Leave, ServerRestart, RunnerRestart
    <2>6. CASE \E c \in Connections : Process(c)
        <3>1. CASE accepted' = accepted
            BY <2>1, <2>3, <2>6, <3>1
        <3>2. CASE accepted' # accepted
            BY <2>0, <2>2, <2>6, <3>2
        <3> QED
            BY <3>1, <3>2
    <2> QED
        BY <2>1, <2>4, <2>5, <2>6
<1> QED
    BY <1>1, <1>2 DEF Progress

\* An event that cannot be applied any more never can be, and a decision stands.
LEMMA DecisionsStand ==
    ASSUME TypeOK, Progress
    PROVE  /\ \A e : Blocked(e) => Blocked(e)'
           /\ \A e : Decided(e) => Decided(e)'
           /\ NextEvent \in Nat /\ NextEvent' \in Nat /\ NextEvent <= NextEvent'
<1>0. /\ Len(rows) \in Nat /\ Len(rows') \in Nat /\ revision \in Nat /\ revision' \in Nat
      /\ Len(accepted) \in Nat
      /\ \A d \in 1..Len(rows) : rows[d].expected \in Nat
    <2>1. rows \in Seq(Rows) /\ accepted \in Seq(Events) /\ rows' \in Seq(Rows)
        BY DEF TypeOK, Rows, Progress
    <2>2. \A d \in 1..Len(rows) : rows[d] \in Rows
        BY <2>1, ElementOfSeq
    <2> QED
        BY <2>1, <2>2, LenProperties DEF TypeOK, Rows, Progress
<1>1. /\ NextEvent \in Nat /\ NextEvent' \in Nat
      /\ \/ NextEvent' = NextEvent
         \/ /\ NextEvent' = NextEvent + 1 /\ NextEvent \in 1..Len(rows)
            /\ rows[NextEvent].legal /\ rows[NextEvent].expected = revision
    <2>1. CASE accepted' = accepted
        BY <1>0, <2>1 DEF NextEvent
    <2>2. CASE accepted' # accepted
        <3>1. /\ accepted' = Append(accepted, NextEvent) /\ NextEvent \in 1..Len(rows)
              /\ rows[NextEvent].legal /\ rows[NextEvent].expected = revision
            BY <2>2 DEF Progress
        <3>2. Len(accepted') = Len(accepted) + 1
            <4>1. accepted \in Seq(Events) /\ Events \subseteq Nat
                BY DEF TypeOK, Events
            <4>2. accepted \in Seq(Nat)
                BY <4>1, SeqMonotonic
            <4>3. NextEvent \in Nat
                BY <1>0 DEF NextEvent
            <4> QED
                BY <3>1, <4>2, <4>3, AppendProperties
        <3> QED
            BY <1>0, <3>1, <3>2 DEF NextEvent
    <2> QED
        BY <2>1, <2>2
<1>2. ASSUME NEW e, Blocked(e) PROVE Blocked(e)'
    <2>1. PICK d \in 1..Len(rows) : /\ NextEvent <= d /\ d <= e
                                    /\ ~rows[d].legal \/ rows[d].expected < revision
        BY <1>2 DEF Blocked
    <2>2. d \in 1..Len(rows') /\ (~rows'[d].legal \/ rows'[d].expected < revision')
        BY <1>0, <2>1 DEF Progress
    <2>3. NextEvent' <= d
        BY <1>0, <1>1, <2>1
    <2> QED
        BY <2>1, <2>2, <2>3 DEF Blocked
<1>3. ASSUME NEW e, Decided(e) PROVE Decided(e)'
    BY <1>1, <1>2, <1>3 DEF Decided
<1> QED
    BY <1>1, <1>2, <1>3

-------------------------------------------------------------------------------
(* The revisions the runner predicts.                                      *)

\* A row is added by an event being sent, and expects what the runner predicts.
LEMMA RowAdded ==
    ASSUME TypeOK, UnsettledIsCarried, [Next]_vars, Len(rows') # Len(rows)
    PROVE  \E legal \in BOOLEAN :
             /\ Send(legal) /\ Len(rows') = Len(rows) + 1
             /\ rows'[Len(rows) + 1].expected = known
             /\ rows'[Len(rows) + 1].state \in Unsettled
<1>0. /\ rows \in Seq(Rows) /\ Len(rows) \in Nat
      /\ outbound \in Seq(Events) /\ inFlight \in Seq(Events)
      /\ up \in [Connections -> Seq(Events \cup {Hello})]
    BY LenProperties DEF TypeOK, Rows
<1>1. ASSUME NEW legal \in BOOLEAN, Send(legal)
      PROVE  /\ Len(rows') = Len(rows) + 1
             /\ rows'[Len(rows) + 1].expected = known
             /\ rows'[Len(rows) + 1].state \in Unsettled
    <2> DEFINE row == [expected |-> known, legal |-> legal, state |-> "PENDING"]
               q == Append(outbound, Len(rows) + 1)
               marked == Append(rows, row)
    <2>1. /\ marked \in Seq(Rows) /\ Len(marked) = Len(rows) + 1
          /\ marked[Len(rows) + 1] = row
          /\ q \in Seq(Events) /\ Len(q) = Len(outbound) + 1
        BY <1>1, NewRow DEF Send
    <2>2. PICK k \in 0..(Len(outbound) + 1) : Flush(q, k, marked)
        BY <1>1 DEF Send
    <2>3. row.expected = known /\ row.state \in Unsettled
        BY DEF Unsettled
    <2> HIDE DEF q, marked, row
    <2>4. RowsKept(marked) /\ NothingSettled(marked)
        BY <1>0, <2>1, <2>2, FlushMoves
    <2>5. Len(rows) + 1 \in 1..(Len(rows) + 1)
        BY <1>0
    <2> QED
        BY <2>1, <2>3, <2>4, <2>5 DEF RowsKept, NothingSettled
<1>2. ASSUME Drain \/ HandleWelcome PROVE Len(rows') = Len(rows)
    <2>1. PICK k \in 0..Len(outbound) : Flush(outbound, k, rows)
        BY <1>2 DEF Drain, HandleWelcome
    <2> QED
        BY <1>0, <2>1, FlushMoves DEF RowsKept
<1>3. ASSUME HandleMessage \/ HandleLate PROVE Len(rows') = Len(rows)
    <2>1. CASE \E e, d : Settle(e, d)
        BY <2>1, SettleForgetsOne DEF RowsKept
    <2>2. CASE rows' = rows
        BY <2>2
    <2> QED
        BY <1>3, <2>1, <2>2 DEF HandleMessage, HandleLate
<1>4. ASSUME RunnerRestart PROVE Len(rows') = Len(rows)
    BY <1>4, RestartKeepsRows DEF RowsKept
<1>5. \/ \E legal \in BOOLEAN : Send(legal)
      \/ Drain \/ HandleWelcome \/ HandleMessage \/ HandleLate \/ RunnerRestart
      \/ rows' = rows
    BY DEF Next, vars, runnerVars, Connect, ReceiveHello, Process, LoseFrames,
        CloseSession, Detach, Dispatch, ChangeRun, HandleUnexpected, FailAccess, Leave,
        ServerRestart
<1> QED
    BY <1>1, <1>2, <1>3, <1>4, <1>5

\* Where the messages on their way to the client come from.
LEMMA DownComesFrom ==
    ASSUME TypeOK, [Next]_vars, NEW j \in 1..Len(down')
    PROVE  \/ \E i \in 1..Len(down) : down'[j] = down[i]
           \/ ReceiveHello /\ down'[j] = Welcome
           \/ Dispatch /\ down'[j] = Launch(revision)
           \/ \E c \in Connections :
                /\ Process(c)
                /\ \E d \in Dispositions : Deliver(Ack(up[c][1], d))
                /\ \A d \in Dispositions :
                     Deliver(Ack(up[c][1], d)) => down'[j] = Ack(up[c][1], d)
<1>0. down \in Seq(Messages) /\ up \in [Connections -> Seq(Events \cup {Hello})]
    BY DEF TypeOK
<1>1. CASE down' = down
    BY <1>1
<1>2. CASE down' = <<>>
    BY <1>2
<1>3. CASE down # <<>> /\ down' = Tail(down)
    BY <1>0, <1>3, ShorterQueues
<1>4. ASSUME ReceiveHello PROVE down'[j] = Welcome \/ \E i \in 1..Len(down) : down'[j] = down[i]
    BY <1>0, <1>4, MessageForms, DeliverAdds DEF ReceiveHello
<1>5. ASSUME Dispatch PROVE down'[j] = Launch(revision) \/ \E i \in 1..Len(down) : down'[j] = down[i]
    BY <1>0, <1>5, MessageForms, DeliverAdds DEF Dispatch, TypeOK
<1>6. ASSUME NEW c \in Connections, Process(c), down' # down
      PROVE  \/ \E i \in 1..Len(down) : down'[j] = down[i]
             \/ /\ \E d \in Dispositions : Deliver(Ack(up[c][1], d))
                /\ \A d \in Dispositions :
                     Deliver(Ack(up[c][1], d)) => down'[j] = Ack(up[c][1], d)
    <2>1. up[c][1] \in Events
        BY <1>0, <1>6, ShorterQueues DEF Process
    <2>2. PICK d \in Dispositions : Deliver(Ack(up[c][1], d))
        BY <1>6 DEF Process, Evaluate, Dispositions
    <2>3. ASSUME NEW x \in Dispositions, Deliver(Ack(up[c][1], x))
          PROVE  down'[j] = Ack(up[c][1], x) \/ \E i \in 1..Len(down) : down'[j] = down[i]
        BY <1>0, <2>1, <2>3, MessageForms, DeliverAdds
    <2> QED
        BY <2>2, <2>3
<1>7. \/ down' = down \/ down' = <<>> \/ (down # <<>> /\ down' = Tail(down))
      \/ ReceiveHello \/ Dispatch \/ \E c \in Connections : Process(c)
    BY DEF Next, vars, Send, Drain, Connect, LoseFrames, CloseSession, Detach, ChangeRun,
        HandleWelcome, HandleUnexpected, FailAccess, HandleMessage, HandleLate, Leave,
        ServerRestart, RunnerRestart
<1> QED
    BY <1>1, <1>2, <1>3, <1>4, <1>5, <1>6, <1>7

\* The runner's predictions stay accounted for: a launch names a revision the run has
\* reached, and every event sent since counts one on.
LEMMA RevisionStep ==
    ASSUME TypeOK, UnsettledIsCarried, RevisionInv, ChainInv, [Next]_vars
    PROVE  RevisionInv'
<1>0. Progress /\ TypeOK'
    BY Progresses, TypeStep
<1>1. /\ Len(rows) \in Nat /\ Len(rows') \in Nat /\ Len(rows) <= Len(rows')
      /\ revision \in Nat /\ revision' \in Nat /\ revision <= revision'
      /\ NextEvent \in Nat /\ NextEvent' \in Nat /\ known \in Nat /\ known' \in Nat
      /\ \A d \in 1..Len(rows) : rows[d].expected \in Nat
    <2>1. \A d \in 1..Len(rows) : rows[d].expected \in Nat
        <3>1. rows \in Seq(Rows)
            BY DEF TypeOK, Rows
        <3>2. \A d \in 1..Len(rows) : rows[d] \in Rows
            BY <3>1, ElementOfSeq
        <3> QED
            BY <3>2 DEF Rows
    <2>2. /\ NextEvent \in Nat /\ NextEvent' \in Nat
        BY <1>0, DecisionsStand
    <2>3. Len(rows) \in Nat /\ Len(rows') \in Nat
        BY <1>0, LenProperties DEF TypeOK
    <2>4. Len(rows) <= Len(rows') /\ revision <= revision'
        BY <1>0 DEF Progress
    <2> QED
        BY <1>0, <2>1, <2>2, <2>3, <2>4 DEF TypeOK
<1>2. OrderInv'
    <2>1. OrderInv
        BY DEF OrderInv, RevisionInv
    <2>2. CASE accepted' = accepted
        BY <2>1, <2>2 DEF OrderInv, AppliedInOrder
    <2>3. CASE accepted' = Append(accepted, NextEvent)
        <3>1. InOrder(NextEvent)
            BY <2>1 DEF InOrder, NextEvent, OrderInv, AppliedInOrder
        <3> QED
            BY <2>1, <2>3, <3>1, AppendKeepsOrder
    <2> QED
        BY <1>0, <2>2, <2>3 DEF Progress
<1>3. \/ NextEvent' = NextEvent
      \/ NextEvent' = NextEvent + 1 /\ NextEvent <= Len(rows) /\ revision' = revision + 1
    <2>1. CASE accepted' = accepted
        BY <2>1 DEF NextEvent
    <2>2. CASE accepted' # accepted
        <3>1. accepted' = Append(accepted, NextEvent) /\ NextEvent \in 1..Len(rows)
              /\ revision' = revision + 1
            BY <1>0, <2>2 DEF Progress
        <3>2. Len(accepted') = Len(accepted) + 1
            BY <1>1, <3>1, AppendProperties DEF RevisionInv
        <3> QED
            BY <1>1, <3>1, <3>2 DEF NextEvent
    <2> QED
        BY <2>1, <2>2
<1>4. NextEvent <= Len(rows) + 1 /\ NextEvent' <= Len(rows') + 1
    BY <1>1, <1>3 DEF RevisionInv
<1>5. ASSUME NEW d \in 1..Len(rows'), NextEvent' <= d
      PROVE  rows'[d].expected <= revision' + (d - NextEvent')
    <2>1. CASE d \in 1..Len(rows)
        <3>1. rows[d].expected <= revision + (d - NextEvent)
            BY <1>1, <1>3, <1>5, <2>1 DEF RevisionInv
        <3>2. rows'[d].expected = rows[d].expected
            BY <1>0, <2>1 DEF Progress
        <3>3. revision + (d - NextEvent) <= revision' + (d - NextEvent')
            <4>0. /\ NextEvent \in Nat /\ NextEvent' \in Nat
                  /\ revision \in Nat /\ revision' \in Nat /\ revision <= revision'
                BY <1>1, Zenon
            <4> DEFINE n == NextEvent  m == NextEvent'
                       q == revision  r == revision'
            <4>1. d \in Int /\ n \in Int /\ m \in Int /\ q \in Int /\ r \in Int /\ q <= r
                <5>1. d \in Int
                    OBVIOUS
                <5>2. n \in Nat /\ m \in Nat /\ q \in Nat /\ r \in Nat /\ q <= r
                    BY <4>0
                <5> HIDE DEF n, m, q, r
                <5> QED
                    BY <5>1, <5>2
            <4>2. m = n \/ (m = n + 1 /\ r = q + 1)
                BY <1>3
            <4>3. q + (d - n) <= r + (d - m)
                <5> HIDE DEF n, m, q, r
                <5> QED
                    BY <4>1, <4>2
            <4> QED
                BY <4>3
        <3>4. rows[d].expected \in Nat
            BY <1>1, <2>1
        <3> DEFINE a == revision + (d - NextEvent)
                   b == revision' + (d - NextEvent')
        <3>5. a \in Int /\ b \in Int
            BY <1>1
        <3>6. a <= b /\ rows'[d].expected <= a /\ rows'[d].expected \in Nat
            BY <3>1, <3>2, <3>3, <3>4
        <3> HIDE DEF a, b
        <3>7. rows'[d].expected <= b
            BY <3>5, <3>6
        <3> QED
            BY <3>7 DEF b
    <2>2. CASE d \notin 1..Len(rows)
        <3>1. PICK legal \in BOOLEAN :
                 /\ Send(legal) /\ Len(rows') = Len(rows) + 1
                 /\ rows'[Len(rows) + 1].expected = known
            BY <2>2, RowAdded
        <3>2. d = Len(rows) + 1
            BY <1>1, <2>2, <3>1
        <3>3. accepted' = accepted /\ revision' = revision
            BY <3>1 DEF Send, serverVars
        <3>4. NextEvent' = NextEvent
            BY <3>3 DEF NextEvent
        <3> QED
            BY <1>1, <3>1, <3>2, <3>3, <3>4 DEF RevisionInv
    <2> QED
        BY <2>1, <2>2
<1>6. known' <= revision' + (Len(rows') + 1 - NextEvent')
    <2>1. known <= revision + (Len(rows) + 1 - NextEvent)
        BY DEF RevisionInv
    <2>2. CASE known' = known
        BY <1>1, <1>3, <2>1, <2>2
    <2>3. ASSUME NEW legal \in BOOLEAN, Send(legal)
          PROVE  known' <= revision' + (Len(rows') + 1 - NextEvent')
        <3>1. accepted' = accepted /\ revision' = revision /\ known' = known + 1
            BY <2>3 DEF Send, serverVars
        <3>2. NextEvent' = NextEvent
            BY <3>1 DEF NextEvent
        <3>3. Len(rows') = Len(rows) + 1
            <4>1. PICK k \in 0..(Len(outbound) + 1) :
                     Flush(Append(outbound, Len(rows) + 1), k,
                       Append(rows, [expected |-> known, legal |-> legal, state |-> "PENDING"]))
                BY <2>3 DEF Send
            <4>2. Len(Append(rows, [expected |-> known, legal |-> legal, state |-> "PENDING"]))
                    = Len(rows) + 1
                BY <2>3, NewRow DEF Send
            <4> QED
                BY <1>1, <4>1, <4>2 DEF Flush
        <3> QED
            BY <1>1, <2>1, <3>1, <3>2, <3>3
    <2>4. CASE known' = 0
        BY <1>1, <1>4, <2>4
    <2>5. CASE HandleMessage
        <3>1. CASE known' = known
            BY <2>2, <3>1
        <3>2. CASE known' # known
            <4>1. down # <<>> /\ down[1].kind = "LAUNCH" /\ known' = down[1].runRevision
                BY <2>5, <3>2 DEF HandleMessage
            <4>2. 1 \in 1..Len(down)
                BY <4>1, ShorterQueues DEF TypeOK
            <4>3. known' <= revision
                BY <4>1, <4>2 DEF RevisionInv
            <4> QED
                BY <1>1, <1>4, <4>3
        <3> QED
            BY <3>1, <3>2
    <2>6. \/ known' = known \/ (\E legal \in BOOLEAN : Send(legal)) \/ known' = 0
          \/ HandleMessage
        BY DEF Next, vars, runnerVars, Drain, Connect, ReceiveHello, Process, LoseFrames,
            CloseSession, Detach, Dispatch, ChangeRun, HandleWelcome, HandleUnexpected,
            FailAccess, HandleLate, Leave, ServerRestart, RunnerRestart
    <2> QED
        BY <2>2, <2>3, <2>4, <2>5, <2>6
<1>7. ASSUME NEW j \in 1..Len(down'), down'[j].kind = "LAUNCH"
      PROVE  down'[j].runRevision <= revision'
    <2>1. CASE \E i \in 1..Len(down) : down'[j] = down[i]
        <3>1. PICK i \in 1..Len(down) : down'[j] = down[i]
            BY <2>1
        <3>2. down[i].runRevision <= revision
            BY <1>7, <3>1 DEF RevisionInv
        <3>3. down[i].runRevision \in Nat
            BY <1>7, <3>1, ElementOfSeq, MessageForms DEF TypeOK
        <3> QED
            BY <1>1, <3>1, <3>2, <3>3
    <2>2. down'[j] # Welcome
        BY <1>7 DEF Welcome
    <2>3. CASE down'[j] = Launch(revision)
        BY <1>1, <2>3 DEF Launch
    <2>4. \A e, d : down'[j] # Ack(e, d)
        BY <1>7 DEF Ack
    <2> QED
        BY <2>1, <2>2, <2>3, <2>4, DownComesFrom
<1> QED
    BY <1>2, <1>4, <1>5, <1>6, <1>7 DEF RevisionInv, OrderInv

-------------------------------------------------------------------------------
(* What the server answers.                                                *)

\* An event of the current session that is refused will never be applied: it cannot
\* be, or an event before it was refused.
LEMMA RefusedIsBlocked ==
    ASSUME TypeOK, RevisionInv, ChainInv, session # "NONE", up[conn] # <<>>,
           up[conn][1] # Hello, ~Stored(up[conn][1]), ~Applicable(up[conn][1])
    PROVE  Blocked(up[conn][1])
<1> DEFINE e == up[conn][1]
<1>1. conn \in Connections
    BY DEF ChainInv
<1>2. 1 \in 1..Len(up[conn]) /\ e \in Events
    BY <1>1, ShorterQueues DEF TypeOK
<1>3. /\ e \in Nat \ {0} /\ e <= Len(rows) /\ Len(rows) \in Nat
      /\ NextEvent \in Nat \ {0} /\ revision \in Nat
    <2>1. Len(rows) \in Nat /\ Len(accepted) \in Nat
        BY LenProperties DEF TypeOK
    <2> QED
        BY <1>1, <1>2, <2>1 DEF ChainInv, TypeOK, Events, NextEvent
<1>4. \A d \in 1..(e - 1) : Decided(d)
    <2>1. \A d \in 1..(up[conn][1] - 1) : Decided(d) \/ \E j \in 1..(1 - 1) : up[conn][j] = d
        BY <1>2, Zenon DEF ChainInv
    <2> QED
        BY <2>1
<1> HIDE DEF e
<1>5. NextEvent <= e
    <2>1. \A i \in 1..Len(accepted) : e # i
        BY DEF Stored, e, RevisionInv, AppliedInOrder
    <2>2. Len(accepted) \in Nat
        BY LenProperties DEF TypeOK
    <2> QED
        BY <1>3, <2>1, <2>2 DEF NextEvent
<1>6. CASE e = NextEvent
    <2>1. InOrder(e)
        BY <1>6 DEF InOrder, NextEvent, RevisionInv, AppliedInOrder
    <2>2. e \in 1..Len(rows)
        BY <1>3
    <2>3. rows[e].expected <= revision + (e - NextEvent) /\ e - NextEvent = 0
        BY <1>3, <1>5, <1>6, <2>2 DEF RevisionInv
    <2>4. rows[e].expected \in Nat
        <3>1. rows \in Seq(Rows)
            BY DEF TypeOK, Rows
        <3>2. rows[e] \in Rows
            BY <2>2, <3>1, ElementOfSeq
        <3> QED
            BY <3>2 DEF Rows
    <2>5. ~rows[e].legal \/ rows[e].expected # revision
        BY <2>1 DEF Applicable, e
    <2>6. ~rows[e].legal \/ rows[e].expected < revision
        <3>1. rows[e].expected <= revision
            BY <1>3, <2>3, <2>4
        <3> QED
            BY <1>3, <2>4, <2>5, <3>1
    <2> QED
        BY <1>3, <1>5, <2>2, <2>6 DEF Blocked, e
<1>7. CASE e # NextEvent
    <2>1. NextEvent \in 1..(e - 1)
        BY <1>3, <1>5, <1>7
    <2>2. Blocked(NextEvent)
        BY <1>3, <1>4, <2>1 DEF Decided
    <2> QED
        BY <1>3, <1>5, <2>2 DEF Blocked, e
<1> QED
    BY <1>6, <1>7

\* Every event the server answers is decided by then, and a refusal is for ever; the
\* events of a connection that is not current may be dropped.
LEMMA AnswersAreDecided ==
    ASSUME TypeOK, UnsettledIsCarried, RevisionInv, AnsweredInv, ChainInv, Progress,
           NEW c \in Connections, Process(c), NEW e, e = up[c][1]
    PROVE  \/ UNCHANGED <<down, cache>> /\ ~(c = conn /\ session # "NONE")
           \/ /\ Decided(e)'
              /\ \E d \in Dispositions : /\ Deliver(Ack(e, d))
                                         /\ d = "REJECTED" => Blocked(e)'
              /\ \/ cache' = cache
                 \/ \E v \in {"APPLIED", "REJECTED"} :
                      /\ cache' = [cache EXCEPT ![e] = v]
                      /\ v = "REJECTED" => Blocked(e)'
<1>1. up[c] # <<>> /\ e # Hello
    BY DEF Process
<1>2. e \in Events
    BY <1>1, ShorterQueues DEF TypeOK
<1>3. /\ Decided(e) => Decided(e)'
      /\ Blocked(e) => Blocked(e)'
      /\ Blocked(e) => Decided(e)
    BY DecisionsStand DEF Decided
<1>4. CASE cache[e] # "NONE"
    <2>1. Decided(e)'
        BY <1>2, <1>3, <1>4 DEF AnsweredInv
    <2>2. Deliver(Ack(e, "DUPLICATE")) /\ cache' = cache
        BY <1>4 DEF Process
    <2> QED
        BY <2>1, <2>2 DEF Dispositions
<1>5. CASE cache[e] = "NONE" /\ ~(c = conn /\ session # "NONE")
    BY <1>5 DEF Process
<1>6. CASE cache[e] = "NONE" /\ c = conn /\ session # "NONE"
    <2>1. Evaluate(e)
        BY <1>6 DEF Process
    <2>2. CASE Stored(e)
        <3>1. e < NextEvent /\ e \in Nat
            <4>1. Len(accepted) \in Nat
                BY LenProperties DEF TypeOK
            <4> QED
                BY <1>2, <2>2, <4>1
                DEF Stored, RevisionInv, AppliedInOrder, NextEvent, Events
        <3>2. Decided(e)'
            BY <1>3, <3>1 DEF Decided
        <3>3. Deliver(Ack(e, "APPLIED")) /\ cache' = [cache EXCEPT ![e] = "APPLIED"]
            BY <2>1, <2>2 DEF Evaluate
        <3> QED
            BY <3>2, <3>3 DEF Dispositions
    <2>3. CASE ~Stored(e) /\ Applicable(e)
        <3>1. /\ accepted' = Append(accepted, e)
              /\ Deliver(Ack(e, "APPLIED")) /\ cache' = [cache EXCEPT ![e] = "APPLIED"]
            BY <2>1, <2>3 DEF Evaluate
        <3>2. accepted \in Seq(Events) /\ Len(accepted) \in Nat
            BY LenProperties DEF TypeOK
        <3>3. e = NextEvent
            BY <2>3 DEF Applicable, InOrder, NextEvent, RevisionInv, AppliedInOrder
        <3>4. Len(accepted') = Len(accepted) + 1
            BY <1>2, <3>1, <3>2, AppendProperties
        <3>5. e \in Nat /\ e < NextEvent'
            BY <3>2, <3>3, <3>4 DEF NextEvent
        <3>6. Decided(e)'
            BY <3>5 DEF Decided
        <3> QED
            BY <3>1, <3>6 DEF Dispositions
    <2>4. CASE ~Stored(e) /\ ~Applicable(e)
        <3>1. Blocked(e)
            BY <1>1, <1>6, <2>4, RefusedIsBlocked
        <3>2. Deliver(Ack(e, "REJECTED")) /\ cache' = [cache EXCEPT ![e] = "REJECTED"]
            BY <2>1, <2>4 DEF Evaluate
        <3>3. Decided(e)' /\ Blocked(e)'
            BY <1>3, <3>1
        <3>4. \E d \in Dispositions : Deliver(Ack(e, d)) /\ (d = "REJECTED" => Blocked(e)')
            BY <3>2, <3>3 DEF Dispositions
        <3>5. \E v \in {"APPLIED", "REJECTED"} :
                /\ cache' = [cache EXCEPT ![e] = v]
                /\ v = "REJECTED" => Blocked(e)'
            BY <3>2, <3>3
        <3> QED
            BY <3>3, <3>4, <3>5
    <2> QED
        BY <2>2, <2>3, <2>4
<1> QED
    BY <1>4, <1>5, <1>6

\* What is on its way to the client, or in its chain.
Received == late \cup {down[j] : j \in 1..Len(down)}

\* What the client handles it has received.
LEMMA MessagesAreReceived ==
    ASSUME TypeOK, HandleMessage \/ HandleLate
    PROVE  \/ rows' = rows
           \/ \E m \in Received : m.kind = "ACK" /\ Settle(m.event, m.disposition)
<1>1. ASSUME HandleMessage
      PROVE  rows' = rows \/ \E m \in Received : m.kind = "ACK" /\ Settle(m.event, m.disposition)
    <2>1. down # <<>>
        BY <1>1 DEF HandleMessage
    <2>2. 1 \in 1..Len(down)
        BY <2>1, ShorterQueues DEF TypeOK
    <2>3. down[1] \in Received
        BY <2>2 DEF Received
    <2> QED
        BY <1>1, <2>3 DEF HandleMessage
<1>2. ASSUME HandleLate
      PROVE  \E m \in Received : m.kind = "ACK" /\ Settle(m.event, m.disposition)
    BY <1>2 DEF HandleLate, Received, TypeOK, Acknowledgements
<1> QED
    BY <1>1, <1>2

\* A row is settled by the acknowledgement of its event and by nothing else.
LEMMA RowsAreSettledByAnswers ==
    ASSUME TypeOK, UnsettledIsCarried, [Next]_vars, NEW i \in 1..Len(rows')
    PROVE  \/ rows'[i].state \in Unsettled
           \/ i \in 1..Len(rows) /\ rows'[i].state = rows[i].state
           \/ /\ i \in 1..Len(rows)
              /\ \E m \in Received :
                   /\ m.kind = "ACK" /\ m.event = i
                   /\ rows'[i].state = IF m.disposition = "REJECTED"
                                       THEN "PERMANENTLY_REJECTED" ELSE "ACKNOWLEDGED"
<1>0. /\ rows \in Seq(Rows) /\ Len(rows) \in Nat /\ Len(rows') \in Nat
      /\ outbound \in Seq(Events) /\ inFlight \in Seq(Events)
      /\ up \in [Connections -> Seq(Events \cup {Hello})]
    <2>1. rows' \in Seq(Rows)
        BY RowsProgress
    <2> QED
        BY <2>1, LenProperties DEF TypeOK, Rows
<1>1. CASE i \notin 1..Len(rows)
    <2>1. /\ Len(rows') = Len(rows) + 1
          /\ rows'[Len(rows) + 1].state \in Unsettled
        BY <1>1, RowAdded
    <2>2. i = Len(rows) + 1
        BY <1>0, <1>1, <2>1
    <2> QED
        BY <2>1, <2>2
<1>2. ASSUME i \in 1..Len(rows), NothingSettled(rows)
      PROVE  rows'[i].state \in Unsettled \/ rows'[i].state = rows[i].state
    BY <1>2 DEF NothingSettled
<1>3. ASSUME i \in 1..Len(rows), NEW legal \in BOOLEAN, Send(legal)
      PROVE  rows'[i].state \in Unsettled \/ rows'[i].state = rows[i].state
    <2> DEFINE row == [expected |-> known, legal |-> legal, state |-> "PENDING"]
               q == Append(outbound, Len(rows) + 1)
               marked == Append(rows, row)
    <2>1. /\ marked \in Seq(Rows) /\ Len(marked) = Len(rows) + 1
          /\ \A j \in 1..Len(rows) : marked[j] = rows[j]
          /\ q \in Seq(Events) /\ Len(q) = Len(outbound) + 1
        BY <1>3, NewRow DEF Send
    <2>2. PICK k \in 0..(Len(outbound) + 1) : Flush(q, k, marked)
        BY <1>3 DEF Send
    <2> HIDE DEF q, marked, row
    <2>3. NothingSettled(marked)
        BY <1>0, <2>1, <2>2, FlushMoves
    <2>4. i \in 1..Len(marked)
        BY <1>0, <1>3, <2>1
    <2> QED
        BY <1>3, <2>1, <2>3, <2>4 DEF NothingSettled
<1>4. ASSUME Drain \/ HandleWelcome PROVE NothingSettled(rows)
    <2>1. PICK k \in 0..Len(outbound) : Flush(outbound, k, rows)
        BY <1>4 DEF Drain, HandleWelcome
    <2> QED
        BY <1>0, <2>1, FlushMoves
<1>5. ASSUME RunnerRestart PROVE NothingSettled(rows)
    BY <1>5, RestartKeepsRows
<1>6. ASSUME i \in 1..Len(rows), NEW m \in Received, m.kind = "ACK",
             Settle(m.event, m.disposition)
      PROVE  \/ rows'[i].state = rows[i].state
             \/ /\ m.event = i
                /\ rows'[i].state = IF m.disposition = "REJECTED"
                                    THEN "PERMANENTLY_REJECTED" ELSE "ACKNOWLEDGED"
    BY <1>6, SettleForgetsOne
<1>7. ASSUME HandleMessage \/ HandleLate
      PROVE  rows' = rows \/ \E m \in Received : m.kind = "ACK" /\ Settle(m.event, m.disposition)
    BY <1>7, MessagesAreReceived
<1>8. CASE rows' = rows /\ i \in 1..Len(rows)
    BY <1>8
<1>9. \/ \E legal \in BOOLEAN : Send(legal)
       \/ Drain \/ HandleWelcome \/ HandleMessage \/ HandleLate \/ RunnerRestart
       \/ rows' = rows
    BY DEF Next, vars, runnerVars, Connect, ReceiveHello, Process, LoseFrames,
        CloseSession, Detach, Dispatch, ChangeRun, HandleUnexpected, FailAccess, Leave,
        ServerRestart
<1> QED
    BY <1>1, <1>2, <1>3, <1>4, <1>5, <1>6, <1>7, <1>8, <1>9

\* Answers stay decided, wherever they are: cached, on their way, or written in a row.
LEMMA AnsweredStep ==
    ASSUME TypeOK, UnsettledIsCarried, RevisionInv, AnsweredInv, ChainInv, [Next]_vars
    PROVE  AnsweredInv'
<1>0. Progress /\ TypeOK'
    BY Progresses, TypeStep
<1>1. /\ \A e : Blocked(e) => Blocked(e)'
      /\ \A e : Decided(e) => Decided(e)'
      /\ \A e : Blocked(e)' => Decided(e)'
    BY <1>0, DecisionsStand DEF Decided
<1>2. ASSUME NEW e \in Events
      PROVE  /\ cache'[e] # "NONE" => Decided(e)'
             /\ cache'[e] = "REJECTED" => Blocked(e)'
    <2>1. CASE cache' = cache
        BY <1>1, <2>1 DEF AnsweredInv
    <2>2. CASE cache' = [x \in Events |-> "NONE"]
        BY <2>2
    <2>3. ASSUME NEW c \in Connections, Process(c), cache' # cache
          PROVE  /\ cache'[e] # "NONE" => Decided(e)'
                 /\ cache'[e] = "REJECTED" => Blocked(e)'
        <3>1. PICK x : x = up[c][1]
            OBVIOUS
        <3>2. PICK v \in {"APPLIED", "REJECTED"} :
                /\ Decided(x)'
                /\ cache' = [cache EXCEPT ![x] = v]
                /\ v = "REJECTED" => Blocked(x)'
            BY <1>0, <2>3, <3>1, AnswersAreDecided
        <3>3. CASE x = e
            <4>1. cache'[e] = v
                BY <3>2, <3>3 DEF TypeOK
            <4> QED
                BY <3>2, <3>3, <4>1
        <3>4. CASE x # e
            <4>1. cache'[e] = cache[e]
                BY <3>2, <3>4 DEF TypeOK
            <4> QED
                BY <1>1, <4>1 DEF AnsweredInv
        <3> QED
            BY <3>3, <3>4
    <2>4. \/ cache' = cache \/ cache' = [x \in Events |-> "NONE"]
          \/ \E c \in Connections : Process(c)
        BY DEF Next, vars, serverVars, Send, Drain, Connect, ReceiveHello, LoseFrames,
            CloseSession, Detach, Dispatch, ChangeRun, HandleWelcome, HandleUnexpected,
            FailAccess, HandleMessage, HandleLate, Leave, ServerRestart, RunnerRestart
    <2> QED
        BY <2>1, <2>2, <2>3, <2>4
<1>3. ASSUME NEW m \in Received, m.kind = "ACK"
      PROVE  Decided(m.event)' /\ (m.disposition = "REJECTED" => Blocked(m.event)')
    BY <1>1, <1>3 DEF AnsweredInv, Received
<1>4. ASSUME NEW m \in Received', m.kind = "ACK"
      PROVE  Decided(m.event)' /\ (m.disposition = "REJECTED" => Blocked(m.event)')
    <2>1. CASE m \in Received
        BY <1>3, <1>4, <2>1
    <2>2. CASE m \notin Received
        <3>1. late' \subseteq Received
            <4>1. CASE Leave
                <5>1. PICK k \in 0..(IF link = "ACTIVE" THEN Len(down) ELSE 0) :
                        late' = late \cup {x \in {down[j] : j \in 1..k} : x.kind = "ACK"}
                    BY <4>1 DEF Leave
                <5>2. k <= Len(down) /\ Len(down) \in Nat
                    BY LenProperties DEF TypeOK
                <5>3. \A j \in 1..k : j \in 1..Len(down)
                    BY <5>2
                <5> QED
                    BY <5>1, <5>3 DEF Received
            <4>2. CASE late' \subseteq late
                BY <4>2 DEF Received
            <4>3. Leave \/ late' \subseteq late
                BY DEF Next, vars, runnerVars, Send, Drain, Connect, ReceiveHello,
                    Process, LoseFrames, CloseSession, Detach, Dispatch, ChangeRun,
                    HandleWelcome, HandleUnexpected, FailAccess, HandleMessage, HandleLate,
                    ServerRestart, RunnerRestart
            <4> QED
                BY <4>1, <4>2, <4>3
        <3>2. PICK j \in 1..Len(down') : m = down'[j]
            BY <2>2, <3>1 DEF Received
        <3>3. ~ \E i \in 1..Len(down) : down'[j] = down[i]
            BY <2>2, <3>2 DEF Received
        <3>4. m # Welcome /\ m # Launch(revision)
            BY <1>4 DEF Welcome, Launch
        <3>5. PICK c \in Connections :
                /\ Process(c)
                /\ \A d \in Dispositions : Deliver(Ack(up[c][1], d)) => m = Ack(up[c][1], d)
            BY <3>2, <3>3, <3>4, DownComesFrom
        <3>6. PICK e : e = up[c][1]
            OBVIOUS
        <3>7. down' # down
            BY <3>2, <3>3
        <3>8. /\ Decided(e)'
              /\ \E d \in Dispositions : /\ Deliver(Ack(e, d))
                                         /\ d = "REJECTED" => Blocked(e)'
            BY <1>0, <3>5, <3>6, <3>7, AnswersAreDecided
        <3>9. PICK d \in Dispositions : m = Ack(e, d) /\ (d = "REJECTED" => Blocked(e)')
            BY <3>5, <3>6, <3>8
        <3>10. m.event = e /\ m.disposition = d
            BY <3>9 DEF Ack
        <3> QED
            BY <3>8, <3>9, <3>10
    <2> QED
        BY <2>1, <2>2
<1>5. ASSUME NEW i \in 1..Len(rows')
      PROVE  /\ rows'[i].state = "ACKNOWLEDGED" => Decided(i)'
             /\ rows'[i].state = "PERMANENTLY_REJECTED" => Blocked(i)'
    <2>1. CASE rows'[i].state \in Unsettled
        BY <2>1 DEF Unsettled
    <2>2. CASE i \in 1..Len(rows) /\ rows'[i].state = rows[i].state
        BY <1>1, <2>2 DEF AnsweredInv
    <2>3. CASE \E m \in Received :
                 /\ m.kind = "ACK" /\ m.event = i
                 /\ rows'[i].state = IF m.disposition = "REJECTED"
                                     THEN "PERMANENTLY_REJECTED" ELSE "ACKNOWLEDGED"
        BY <1>3, <2>3
    <2> QED
        BY <2>1, <2>2, <2>3, RowsAreSettledByAnswers
<1> QED
    BY <1>2, <1>4, <1>5 DEF AnsweredInv, Received

-------------------------------------------------------------------------------
(* The frames on their way to the server.                                  *)

\* A queue of the client that is flushed: all that waits, and the event being sent.
Flushed(q) ==
    /\ q \in Seq(Events) /\ Increasing(q)
    /\ Elements(outbound) \subseteq Elements(q)
    /\ \A j \in 1..Len(q) : q[j] <= Len(rows) + 1

\* The steps that flush.
FlushStep(q, k, marked) ==
    /\ Flush(q, k, marked) /\ Flushed(q) /\ k \in 0..Len(q)
    /\ \A j \in 1..k : q[j] <= Len(rows')
    /\ link = "ACTIVE" \/ (link = "NEGOTIATING" /\ session # "HELLO")
    /\ UNCHANGED <<conn, session>>

\* Sending, draining and being welcomed flush the queue of the client in this form.
LEMMA FlushSteps ==
    ASSUME TypeOK, UnsettledIsCarried, ChainInv, [Next]_vars,
           (\E legal \in BOOLEAN : Send(legal)) \/ Drain \/ HandleWelcome
    PROVE  \E q, k, marked : FlushStep(q, k, marked)
<1>0. /\ rows \in Seq(Rows) /\ Len(rows) \in Nat /\ Len(rows) <= Len(rows') /\ Len(rows') \in Nat
      /\ outbound \in Seq(Events) /\ inFlight \in Seq(Events)
    <2>1. rows' \in Seq(Rows) /\ Len(rows) <= Len(rows')
        BY RowsProgress
    <2> QED
        BY <2>1, LenProperties DEF TypeOK, Rows
<1>1. Increasing(outbound) /\ Elements(outbound) \subseteq UnsettledEvents
    BY <1>0, ListsInParts DEF UnsettledIsCarried
<1>2. \A j \in 1..Len(outbound) : outbound[j] \in 1..Len(rows)
    BY <1>1 DEF Elements, UnsettledEvents
<1>3. Flushed(outbound) /\ \A j \in 1..Len(outbound) : outbound[j] <= Len(rows')
    <2>1. \A j \in 1..Len(outbound) : outbound[j] <= Len(rows') /\ outbound[j] <= Len(rows) + 1
        BY <1>0, <1>2
    <2> QED
        BY <1>0, <1>1, <2>1 DEF Flushed
<1>4. ASSUME Drain PROVE \E k : FlushStep(outbound, k, rows)
    <2>1. PICK k \in 1..Len(outbound) : Flush(outbound, k, rows)
        BY <1>4 DEF Drain
    <2>2. k \in 0..Len(outbound) /\ \A j \in 1..k : j \in 1..Len(outbound)
        BY <1>0, LenProperties
    <2> QED
        BY <1>3, <1>4, <2>1, <2>2 DEF Drain, FlushStep, serverVars
<1>5. ASSUME HandleWelcome PROVE \E k : FlushStep(outbound, k, rows)
    <2>1. PICK k \in 0..Len(outbound) : Flush(outbound, k, rows)
        BY <1>5 DEF HandleWelcome
    <2>2. k \in 0..Len(outbound) /\ \A j \in 1..k : j \in 1..Len(outbound)
        BY <1>0, LenProperties
    <2>3. session # "HELLO"
        <3>1. down # <<>> /\ down[1].kind = "WELCOME"
            BY <1>5 DEF HandleWelcome
        <3>2. 1 \in 1..Len(down)
            BY <3>1, ShorterQueues DEF TypeOK
        <3> QED
            BY <3>1, <3>2 DEF ChainInv
    <2> QED
        BY <1>3, <1>5, <2>1, <2>2, <2>3 DEF HandleWelcome, FlushStep, serverVars
<1>6. ASSUME NEW legal \in BOOLEAN, Send(legal)
      PROVE  \E q, k, marked : FlushStep(q, k, marked)
    <2> DEFINE row == [expected |-> known, legal |-> legal, state |-> "PENDING"]
               q == Append(outbound, Len(rows) + 1)
               marked == Append(rows, row)
    <2>1. /\ Len(marked) = Len(rows) + 1
          /\ Len(rows) + 1 \in Events
          /\ q \in Seq(Events) /\ Len(q) = Len(outbound) + 1
        BY <1>6, NewRow DEF Send
    <2>2. PICK k \in 0..(Len(outbound) + 1) : Flush(q, k, marked)
        BY <1>6 DEF Send
    <2>3. /\ \A j \in 1..Len(outbound) : q[j] = outbound[j]
          /\ q[Len(outbound) + 1] = Len(rows) + 1 /\ Len(outbound) \in Nat
        BY <1>0, <2>1, AppendProperties
    <2>4. Len(rows') = Len(rows) + 1
        BY <1>0, <2>1, <2>2 DEF Flush
    <2> HIDE DEF q, marked, row
    <2>5. \A j \in 1..Len(q) : q[j] \in Nat /\ q[j] <= Len(rows) + 1
        BY <1>0, <1>2, <2>1, <2>3
    <2>6. Increasing(q)
        <3> SUFFICES ASSUME NEW i \in 1..Len(q), NEW j \in 1..Len(q), i < j PROVE q[i] < q[j]
            BY DEF Increasing
        <3>1. i \in 1..Len(outbound) /\ q[i] = outbound[i] /\ outbound[i] \in 1..Len(rows)
            BY <1>2, <2>1, <2>3
        <3>2. CASE j \in 1..Len(outbound)
            BY <1>1, <2>3, <3>1, <3>2 DEF Increasing
        <3>3. CASE j = Len(outbound) + 1
            BY <1>0, <2>3, <3>1, <3>3
        <3> QED
            BY <2>1, <2>3, <3>2, <3>3
    <2>7. Elements(outbound) \subseteq Elements(q)
        <3>1. \A j \in 1..Len(outbound) : j \in 1..Len(q)
            BY <2>1, <2>3
        <3> QED
            BY <2>3, <3>1 DEF Elements
    <2>8. k \in 0..Len(q) /\ \A j \in 1..k : j \in 1..Len(q)
        BY <2>1, <2>3
    <2> QED
        BY <1>6, <2>1, <2>2, <2>4, <2>5, <2>6, <2>7, <2>8
        DEF Send, FlushStep, Flushed, serverVars
<1> QED
    BY <1>4, <1>5, <1>6

\* What a flush adds to the chain of the current connection.
LEMMA FlushedFrames ==
    ASSUME TypeOK, FlightInv, NEW q, NEW k, NEW marked, FlushStep(q, k, marked)
    PROVE  /\ conn \in Connections
           /\ \A c \in Connections : c # conn \/ ~Reading => up'[c] = up[c]
           /\ Reading => /\ Len(up[conn]) \in Nat /\ Len(up'[conn]) = Len(up[conn]) + k
                         /\ \A i \in 1..Len(up[conn]) : up'[conn][i] = up[conn][i]
                         /\ \A j \in 1..k : up'[conn][Len(up[conn]) + j] = q[j]
<1> DEFINE s == SubSeq(q, 1, k)
<1>1. conn \in Connections
    BY DEF FlushStep, FlightInv
<1>2. up' = [up EXCEPT ![conn] = IF Reading THEN @ \o s ELSE @]
    BY DEF FlushStep, Flush
<1>3. s \in Seq(Events) /\ Len(s) = k /\ \A j \in 1..k : s[j] = q[j]
    <2>1. q \in Seq(Events) /\ k \in 0..Len(q) /\ <<>> \in Seq(Events)
        BY DEF FlushStep, Flushed
    <2> QED
        BY <2>1, CutAndJoin
<1> HIDE DEF s
<1>4. up \in [Connections -> Seq(Events \cup {Hello})]
    BY DEF TypeOK
<1>5. ASSUME Reading
      PROVE  /\ Len(up[conn]) \in Nat /\ Len(up'[conn]) = Len(up[conn]) + k
             /\ \A i \in 1..Len(up[conn]) : up'[conn][i] = up[conn][i]
             /\ \A j \in 1..k : up'[conn][Len(up[conn]) + j] = q[j]
    <2>1. up'[conn] = up[conn] \o s
        BY <1>1, <1>2, <1>4, <1>5
    <2>2. up[conn] \in Seq(Events \cup {Hello}) /\ s \in Seq(Events \cup {Hello})
        BY <1>1, <1>3, <1>4, SeqMonotonic
    <2>3. k \in Nat /\ Len(up[conn]) \in Nat
        BY <1>3, <2>2, LenProperties
    <2> DEFINE u == up[conn]
    <2>4. u \in Seq(Events \cup {Hello}) /\ Len(u) \in Nat
        BY <2>2, <2>3
    <2> HIDE DEF u
    <2>5. /\ Len(u \o s) = Len(u) + k
          /\ \A i \in 1..Len(u) : (u \o s)[i] = u[i]
          /\ \A j \in 1..k : (u \o s)[Len(u) + j] = s[j]
        <3>1. /\ Len(u \o s) = Len(u) + Len(s)
              /\ \A i \in 1 .. Len(u) + Len(s) :
                   (u \o s)[i] = IF i <= Len(u) THEN u[i] ELSE s[i - Len(u)]
            BY <2>2, <2>4, ConcatProperties
        <3>2. \A i \in 1..Len(u) : i \in 1 .. Len(u) + Len(s) /\ i <= Len(u)
            BY <1>3, <2>3, <2>4
        <3>3. \A x \in 1..k : /\ Len(u) + x \in 1 .. Len(u) + Len(s)
                              /\ ~(Len(u) + x <= Len(u)) /\ (Len(u) + x) - Len(u) = x
            BY <1>3, <2>3, <2>4
        <3> QED
            BY <1>3, <3>1, <3>2, <3>3
    <2> QED
        BY <1>3, <2>1, <2>4, <2>5 DEF u
<1> QED
    BY <1>1, <1>2, <1>4, <1>5

\* What comes before a flushed event is decided, or comes before it in the chain.
LEMMA FlushKeepsOrder ==
    ASSUME TypeOK, UnsettledIsCarried, AnsweredInv, FlightInv, Reading,
           NEW q, NEW k, NEW marked, FlushStep(q, k, marked),
           NEW j \in 1..k, NEW d \in 1..(q[j] - 1)
    PROVE  Decided(d) \/ Occurs(d, up[conn]) \/ \E i \in 1..(j - 1) : q[i] = d
<1>0. /\ rows \in Seq(Rows) /\ Len(rows) \in Nat
      /\ outbound \in Seq(Events) /\ inFlight \in Seq(Events)
      /\ q \in Seq(Events) /\ Len(q) \in Nat /\ k \in 0..Len(q) /\ j \in 1..Len(q)
    BY LenProperties DEF TypeOK, Rows, FlushStep, Flushed
<1>1. q[j] \in Nat /\ q[j] <= Len(rows) + 1
    <2>1. q[j] \in Events
        BY <1>0, ElementOfSeq
    <2> QED
        BY <1>0, <2>1 DEF FlushStep, Flushed, Events
<1>2. d \in 1..Len(rows)
    BY <1>0, <1>1
<1>3. CASE d \notin UnsettledEvents
    <2>1. rows[d].state \in {"ACKNOWLEDGED", "PERMANENTLY_REJECTED"}
        <3>1. rows[d] \in Rows
            BY <1>0, <1>2, ElementOfSeq
        <3> QED
            BY <1>2, <1>3, <3>1 DEF UnsettledEvents, Rows, RowStates
    <2> QED
        BY <1>2, <2>1 DEF AnsweredInv, Decided
<1>4. CASE d \in UnsettledEvents
    <2>1. Elements(inFlight) \cup Elements(outbound) = UnsettledEvents
        BY <1>0, ListsInParts DEF UnsettledIsCarried
    <2>2. CASE d \in Elements(outbound)
        <3>1. PICK i \in 1..Len(q) : q[i] = d
            BY <2>2 DEF FlushStep, Flushed, Elements
        <3>2. i # j /\ ~(j < i)
            <4>1. d < q[j]
                BY <1>1
            <4>2. \A x, y \in 1..Len(q) : x < y => q[x] < q[y]
                BY DEF FlushStep, Flushed, Increasing
            <4>3. j < i => q[j] < q[i]
                BY <1>0, <4>2
            <4> QED
                BY <1>0, <1>1, <3>1, <4>1, <4>3
        <3>3. i \in 1..(j - 1)
            BY <1>0, <3>2
        <3> QED
            BY <3>1, <3>3
    <2>3. CASE d \in Elements(inFlight)
        <3>1. inFlight # <<>>
            BY <2>3 DEF Elements
        <3>2. link = "ACTIVE"
            BY <3>1 DEF FlightInv, FlushStep
        <3> QED
            BY <2>3, <3>2 DEF FlightInv
    <2> QED
        BY <1>4, <2>1, <2>2, <2>3
<1> QED
    BY <1>3, <1>4

\* No frame names an event the runner has not observed.
FramesKnown == \A c \in Connections : \A k \in 1..Len(up[c]) : up[c][k] <= Len(rows)

\* What comes before a frame of the current session is decided or precedes it.
FramesInOrder ==
    session # "NONE" => \A k \in 1..Len(up[conn]) : \A d \in 1..(up[conn][k] - 1) :
      Decided(d) \/ \E j \in 1..(k - 1) : up[conn][j] = d

\* Before the client has said hello nothing else is on its way.
HelloFirst ==
    session = "HELLO" => /\ up[conn] \in {<<>>, <<Hello>>} /\ link # "ACTIVE"
                         /\ \A j \in 1..Len(down) : down[j].kind # "WELCOME"

\* A session that has not welcomed its client has nothing but its hello to read.
LEMMA HelloStep ==
    ASSUME TypeOK, UnsettledIsCarried, ChainInv, [Next]_vars
    PROVE  HelloFirst'
<1> SUFFICES ASSUME session' = "HELLO"
             PROVE  /\ up'[conn'] \in {<<>>, <<Hello>>} /\ link' # "ACTIVE"
                    /\ \A j \in 1..Len(down') : down'[j].kind # "WELCOME"
    BY DEF HelloFirst
<1>0. /\ up \in [Connections -> Seq(Events \cup {Hello})] /\ down \in Seq(Messages)
      /\ conn \in 0..MaxConnections /\ MaxConnections \in Nat
    BY BoundsAssumption DEF TypeOK
<1>1. CASE Connect
    <2>1. conn + 1 \in Connections
        BY <1>0, <1>1 DEF Connect, Connections
    <2>2. up'[conn'] = <<Hello>> /\ link' = "NEGOTIATING" /\ down' = <<>>
        BY <1>0, <1>1, <2>1 DEF Connect
    <2> QED
        BY <2>2
<1>2. CASE ~Connect
    <2>1. session = "HELLO" /\ conn' = conn
        BY <1>2 DEF Next, vars, runnerVars, serverVars, Send, Drain, ReceiveHello, Process,
            LoseFrames, CloseSession, Detach, Dispatch, ChangeRun, HandleWelcome,
            HandleUnexpected, FailAccess, HandleMessage, HandleLate, Leave, ServerRestart,
            RunnerRestart
    <2>2. /\ up[conn] \in {<<>>, <<Hello>>} /\ link # "ACTIVE" /\ conn \in Connections
          /\ \A j \in 1..Len(down) : down[j].kind # "WELCOME"
        BY <2>1 DEF ChainInv
    <2>3. ~HandleWelcome /\ ~Drain /\ ~(\E legal \in BOOLEAN : Send(legal)) /\ ~ReceiveHello
          /\ ~ServerRestart
        <3>1. ~HandleWelcome
            <4> SUFFICES ASSUME HandleWelcome PROVE FALSE
                OBVIOUS
            <4>1. down # <<>> /\ down[1].kind = "WELCOME"
                BY DEF HandleWelcome
            <4>2. 1 \in 1..Len(down)
                BY <1>0, <4>1, ShorterQueues
            <4> QED
                BY <2>2, <4>1, <4>2
        <3> QED
            BY <2>2, <3>1 DEF Drain, Send, ReceiveHello, ServerRestart
    <2>4. link' # "ACTIVE"
        BY <1>2, <2>2, <2>3 DEF Next, vars, runnerVars, Process,
            LoseFrames, CloseSession, Detach, Dispatch, ChangeRun,
            HandleUnexpected, FailAccess, HandleMessage, HandleLate, Leave, RunnerRestart
    <2>5. up'[conn] \in {<<>>, <<Hello>>}
        <3>1. CASE up'[conn] = up[conn]
            BY <2>2, <3>1
        <3>2. ASSUME NEW c \in Connections, Process(c) PROVE up'[conn] = up[conn]
            <4>1. c # conn
                BY <2>2, <3>2 DEF Process
            <4> QED
                BY <1>0, <2>2, <3>2, <4>1 DEF Process
        <3>3. ASSUME NEW c \in Connections, LoseFrames(c)
              PROVE  up'[conn] = up[conn] \/ up'[conn] = <<>>
            <4>1. CASE c # conn
                BY <1>0, <2>2, <3>3, <4>1 DEF LoseFrames
            <4>2. CASE c = conn
                <5>1. up[conn] = <<Hello>>
                    BY <2>2, <3>3, <4>2 DEF LoseFrames
                <5>2. up'[conn] = SubSeq(<<Hello>>, 1, 0)
                    BY <1>0, <2>2, <3>3, <4>2, <5>1 DEF LoseFrames
                <5>3. SubSeq(<<Hello>>, 1, 0) = <<>>
                    BY SubSeqEmpty
                <5> QED
                    BY <5>2, <5>3
            <4> QED
                BY <4>1, <4>2
        <3>4. \/ up' = up \/ \E c \in Connections : Process(c) \/ LoseFrames(c)
            BY <1>2, <2>3 DEF Next, vars, CloseSession, Detach, Dispatch, ChangeRun,
                HandleUnexpected, FailAccess, HandleMessage, HandleLate, Leave,
                RunnerRestart
        <3> QED
            BY <2>2, <3>2, <3>3, <3>4
    <2>6. ASSUME NEW j \in 1..Len(down') PROVE down'[j].kind # "WELCOME"
        <3>1. \A e, d : Ack(e, d).kind # "WELCOME" /\ Launch(e).kind # "WELCOME"
            BY DEF Ack, Launch
        <3>2. CASE \E i \in 1..Len(down) : down'[j] = down[i]
            BY <2>2, <3>2
        <3>3. CASE ~ \E i \in 1..Len(down) : down'[j] = down[i]
            <4>1. down'[j] = Launch(revision) \/ \E e, d : down'[j] = Ack(e, d)
                BY <2>3, <3>3, DownComesFrom
            <4> QED
                BY <3>1, <4>1
        <3> QED
            BY <3>2, <3>3
    <2> QED
        BY <2>1, <2>4, <2>5, <2>6
<1> QED
    BY <1>1, <1>2

\* The chain of the current session stays in order, whatever is flushed into it,
\* taken from it or lost with its connection.
LEMMA ChainStep ==
    ASSUME TypeOK, UnsettledIsCarried, RevisionInv, AnsweredInv, ChainInv, FlightInv,
           [Next]_vars
    PROVE  ChainInv'
<1>0. Progress /\ TypeOK'
    BY Progresses, TypeStep
<1>1. /\ Len(rows) \in Nat /\ Len(rows') \in Nat /\ Len(rows) <= Len(rows')
      /\ up \in [Connections -> Seq(Events \cup {Hello})]
      /\ up' \in [Connections -> Seq(Events \cup {Hello})]
      /\ \A d : Decided(d) => Decided(d)'
    BY <1>0, DecisionsStand, LenProperties DEF TypeOK, Progress
<1>2. \A c \in Connections : Len(up[c]) \in Nat /\ \A k \in 1..Len(up[c]) :
        up[c][k] \in Nat /\ up[c][k] <= Len(rows) /\ up[c][k] <= Len(rows')
    <2>1. ASSUME NEW c \in Connections, NEW k \in 1..Len(up[c])
          PROVE  up[c][k] \in Nat /\ up[c][k] <= Len(rows) /\ up[c][k] <= Len(rows')
        <3>1. up[c] \in Seq(Events \cup {Hello})
            BY <1>1
        <3>2. up[c][k] \in Events \cup {Hello}
            BY <3>1, ElementOfSeq
        <3>3. up[c][k] <= Len(rows)
            BY DEF ChainInv
        <3> QED
            BY <1>1, <3>2, <3>3 DEF Events, Hello
    <2> QED
        BY <1>1, <2>1, LenProperties
<1>3. FramesInOrder
    BY DEF ChainInv, FramesInOrder
<1>4. ASSUME NEW q, NEW k, NEW marked, FlushStep(q, k, marked)
      PROVE  FramesKnown' /\ FramesInOrder'
    <2>0. conn' = conn /\ session' = session
        BY <1>4 DEF FlushStep
    <2>1. /\ conn \in Connections
          /\ \A c \in Connections : c # conn \/ ~Reading => up'[c] = up[c]
          /\ Reading => /\ Len(up[conn]) \in Nat /\ Len(up'[conn]) = Len(up[conn]) + k
                        /\ \A i \in 1..Len(up[conn]) : up'[conn][i] = up[conn][i]
                        /\ \A j \in 1..k : up'[conn][Len(up[conn]) + j] = q[j]
        BY <1>4, FlushedFrames
    <2>2. k \in Nat
        BY <1>4, LenProperties DEF FlushStep, Flushed
    <2>3. CASE ~Reading
        <3>1. \A c \in Connections : up'[c] = up[c]
            BY <2>1, <2>3
        <3>2. FramesKnown'
            BY <1>2, <3>1 DEF FramesKnown
        <3>3. FramesInOrder'
            BY <1>1, <1>3, <2>0, <2>1, <3>1 DEF FramesInOrder
        <3> QED
            BY <3>2, <3>3
    <2>4. CASE Reading
        <3> DEFINE n == Len(up[conn])
        <3>1. ASSUME NEW x \in 1..Len(up'[conn])
              PROVE  x \in 1..n \/ \E j \in 1..k : x = n + j
            <4>1. x \in 1..n \/ (x - n \in 1..k /\ x = n + (x - n))
                BY <2>1, <2>2, <2>4
            <4> QED
                BY <4>1
        <3>2. FramesKnown'
            <4>1. ASSUME NEW c \in Connections, NEW x \in 1..Len(up'[c])
                  PROVE  up'[c][x] <= Len(rows')
                <5>1. CASE c # conn
                    BY <1>2, <2>1, <4>1, <5>1
                <5>2. CASE c = conn /\ x \in 1..n
                    BY <1>2, <2>1, <2>4, <5>2
                <5>3. ASSUME c = conn, NEW j \in 1..k, x = n + j PROVE up'[c][x] <= Len(rows')
                    BY <1>4, <2>1, <2>4, <5>3 DEF FlushStep
                <5> QED
                    BY <3>1, <4>1, <5>1, <5>2, <5>3
            <4> QED
                BY <4>1 DEF FramesKnown
        <3>3. ASSUME NEW x \in 1..Len(up'[conn]), NEW d \in 1..(up'[conn][x] - 1)
              PROVE  Decided(d)' \/ \E j \in 1..(x - 1) : up'[conn][j] = d
            <4>1. CASE x \in 1..n
                <5>1. d \in 1..(up[conn][x] - 1)
                    BY <2>1, <2>4, <4>1
                <5>2. Decided(d) \/ \E j \in 1..(x - 1) : up[conn][j] = d
                    BY <1>3, <2>4, <4>1, <5>1 DEF FramesInOrder, Reading
                <5>3. \A j \in 1..(x - 1) : j \in 1..n
                    BY <2>1, <2>4, <4>1
                <5> QED
                    BY <1>1, <2>1, <2>4, <5>2, <5>3
            <4>2. ASSUME NEW j \in 1..k, x = n + j
                  PROVE  Decided(d)' \/ \E i \in 1..(x - 1) : up'[conn][i] = d
                <5>1. d \in 1..(q[j] - 1)
                    BY <2>1, <2>4, <4>2
                <5>2. Decided(d) \/ Occurs(d, up[conn]) \/ \E i \in 1..(j - 1) : q[i] = d
                    BY <1>4, <2>4, <5>1, FlushKeepsOrder
                <5>3. CASE Occurs(d, up[conn])
                    <6>1. PICK i \in 1..n : up[conn][i] = d
                        BY <5>3 DEF Occurs
                    <6>2. i \in 1..(x - 1)
                        BY <2>1, <2>2, <2>4, <4>2
                    <6> QED
                        BY <2>1, <2>4, <6>1, <6>2
                <5>4. ASSUME NEW i \in 1..(j - 1), q[i] = d
                      PROVE  \E y \in 1..(x - 1) : up'[conn][y] = d
                    <6>1. i \in 1..k /\ n + i \in 1..(x - 1)
                        BY <2>1, <2>2, <2>4, <4>2
                    <6> QED
                        BY <2>1, <2>4, <5>4, <6>1
                <5> QED
                    BY <1>1, <5>2, <5>3, <5>4
            <4> QED
                BY <3>1, <4>1, <4>2
        <3> QED
            BY <2>0, <3>2, <3>3 DEF FramesInOrder
    <2> QED
        BY <2>3, <2>4
<1>5. ASSUME Connect PROVE FramesKnown' /\ FramesInOrder'
    <2>1. conn + 1 \in Connections /\ conn' = conn + 1
        BY <1>5, BoundsAssumption DEF Connect, Connections, TypeOK
    <2>2. /\ up'[conn'] = <<Hello>>
          /\ \A c \in Connections : c # conn' => up'[c] = up[c]
        BY <1>1, <1>5, <2>1 DEF Connect
    <2>3. \A x \in 1..Len(up'[conn']) : up'[conn'][x] = 0
        BY <2>2 DEF Hello
    <2>4. FramesKnown'
        <3>1. ASSUME NEW c \in Connections, NEW x \in 1..Len(up'[c]) PROVE up'[c][x] <= Len(rows')
            <4>1. CASE c = conn'
                BY <1>1, <2>3, <3>1, <4>1
            <4>2. CASE c # conn'
                BY <1>2, <2>2, <3>1, <4>2
            <4> QED
                BY <4>1, <4>2
        <3> QED
            BY <3>1 DEF FramesKnown
    <2>5. FramesInOrder'
        BY <2>3 DEF FramesInOrder
    <2> QED
        BY <2>4, <2>5
<1>6. ASSUME NEW c \in Connections, up[c] # <<>>, up' = [up EXCEPT ![c] = Tail(@)],
             conn' = conn, session' # "NONE" => session # "NONE",
             NEW e, e = up[c][1], c = conn /\ session # "NONE" => (e = Hello \/ Decided(e)')
      PROVE  FramesKnown' /\ FramesInOrder'
    <2>1. /\ Len(up[c]) \in Nat \ {0} /\ Len(up'[c]) = Len(up[c]) - 1
          /\ \A j \in 1..Len(up'[c]) : j + 1 \in 1..Len(up[c]) /\ up'[c][j] = up[c][j + 1]
          /\ \A x \in Connections : x # c => up'[x] = up[x]
        <3>1. up[c] \in Seq(Events \cup {Hello}) /\ up'[c] = Tail(up[c])
            BY <1>1, <1>6
        <3>2. \A x \in Connections : x # c => up'[x] = up[x]
            BY <1>1, <1>6
        <3> DEFINE t == up[c]
        <3>3. t \in Seq(Events \cup {Hello}) /\ t # <<>>
            BY <1>6, <3>1
        <3> HIDE DEF t
        <3>4. /\ Len(t) \in Nat \ {0} /\ Len(Tail(t)) = Len(t) - 1
              /\ \A j \in 1..Len(Tail(t)) : j + 1 \in 1..Len(t) /\ Tail(t)[j] = t[j + 1]
            BY <3>3, ShorterQueues
        <3> QED
            BY <3>1, <3>2, <3>4 DEF t
    <2>2. FramesKnown'
        BY <1>2, <2>1 DEF FramesKnown
    <2>3. ASSUME session' # "NONE", NEW x \in 1..Len(up'[conn]), NEW d \in 1..(up'[conn][x] - 1)
          PROVE  Decided(d)' \/ \E j \in 1..(x - 1) : up'[conn][j] = d
        <3>0. conn \in Connections /\ session # "NONE"
            BY <1>6, <2>3 DEF ChainInv
        <3>1. CASE c # conn
            BY <1>1, <1>3, <2>1, <2>3, <3>0, <3>1 DEF FramesInOrder
        <3>2. CASE c = conn
            <4>1. x + 1 \in 1..Len(up[conn]) /\ up'[conn][x] = up[conn][x + 1]
                BY <2>1, <3>2
            <4>2. d \in 1..(up[conn][x + 1] - 1)
                BY <4>1
            <4>3. Decided(d) \/ \E j \in 1..((x + 1) - 1) : up[conn][j] = d
                BY <1>3, <3>0, <4>1, <4>2 DEF FramesInOrder
            <4>4. ASSUME NEW j \in 1..((x + 1) - 1), up[conn][j] = d
                  PROVE  Decided(d)' \/ \E i \in 1..(x - 1) : up'[conn][i] = d
                <5>1. CASE j = 1
                    <6>1. d = e /\ d # Hello
                        BY <1>6, <3>2, <4>4, <5>1 DEF Hello
                    <6> QED
                        BY <1>6, <3>0, <3>2, <6>1
                <5>2. CASE j # 1
                    <6>1. j - 1 \in 1..(x - 1) /\ j - 1 \in 1..Len(up'[conn]) /\ (j - 1) + 1 = j
                        BY <2>1, <3>2, <5>2
                    <6> QED
                        BY <2>1, <3>2, <4>4, <6>1
                <5> QED
                    BY <5>1, <5>2
            <4> QED
                BY <1>1, <4>3, <4>4
        <3> QED
            BY <3>1, <3>2
    <2>4. session' # "NONE" =>
            \A x \in 1..Len(up'[conn]) : \A d \in 1..(up'[conn][x] - 1) :
              Decided(d)' \/ \E j \in 1..(x - 1) : up'[conn][j] = d
        BY <2>3
    <2>5. FramesInOrder'
        <3>1. conn' = conn
            BY <1>6
        <3> QED
            BY <2>4, <3>1 DEF FramesInOrder
    <2> QED
        BY <2>2, <2>5
<1>7. ASSUME ReceiveHello PROVE FramesKnown' /\ FramesInOrder'
    <2>1. conn \in Connections /\ up[conn] # <<>> /\ up[conn] \in {<<>>, <<Hello>>}
        BY <1>7 DEF ReceiveHello, ChainInv
    <2>2. PICK e : e = up[conn][1]
        OBVIOUS
    <2>3. e = Hello
        BY <2>1, <2>2
    <2>4. conn' = conn /\ up' = [up EXCEPT ![conn] = Tail(@)] /\ session # "NONE"
        BY <1>7 DEF ReceiveHello, runnerVars
    <2> QED
        BY <1>6, <2>1, <2>2, <2>3, <2>4
<1>8. ASSUME NEW c \in Connections, Process(c) PROVE FramesKnown' /\ FramesInOrder'
    <2>1. PICK e : e = up[c][1]
        OBVIOUS
    <2>2. c = conn /\ session # "NONE" => Decided(e)'
        BY <1>0, <1>8, <2>1, AnswersAreDecided
    <2>3. conn' = conn /\ session' = session /\ up[c] # <<>> /\ up' = [up EXCEPT ![c] = Tail(@)]
        BY <1>8 DEF Process, runnerVars
    <2> QED
        BY <1>6, <2>1, <2>2, <2>3
<1>9. ASSUME NEW c \in Connections, LoseFrames(c) PROVE FramesKnown' /\ FramesInOrder'
    <2>1. /\ Len(up[c]) \in Nat \ {0} /\ Len(up'[c]) = Len(up[c]) - 1
          /\ \A j \in 1..Len(up'[c]) : j \in 1..Len(up[c]) /\ up'[c][j] = up[c][j]
          /\ \A x \in Connections : x # c => up'[x] = up[x]
        <3>1. /\ up[c] \in Seq(Events \cup {Hello}) /\ up[c] # <<>>
              /\ up'[c] = SubSeq(up[c], 1, Len(up[c]) - 1)
            BY <1>1, <1>9 DEF LoseFrames
        <3>2. \A x \in Connections : x # c => up'[x] = up[x]
            BY <1>1, <1>9 DEF LoseFrames
        <3>3. /\ Len(up[c]) \in Nat \ {0} /\ Len(up'[c]) = Len(up[c]) - 1
              /\ \A j \in 1..(Len(up[c]) - 1) : up'[c][j] = up[c][j]
            BY <3>1, ShorterQueues
        <3> QED
            BY <3>2, <3>3
    <2>2. conn' = conn /\ session' = session
        BY <1>9 DEF LoseFrames, runnerVars, serverVars
    <2>3. FramesKnown'
        BY <1>2, <2>1 DEF FramesKnown
    <2>4. ASSUME session # "NONE", NEW x \in 1..Len(up'[conn]), NEW d \in 1..(up'[conn][x] - 1)
          PROVE  Decided(d)' \/ \E j \in 1..(x - 1) : up'[conn][j] = d
        <3>1. conn \in Connections
            BY <2>4 DEF ChainInv
        <3>2. /\ x \in 1..Len(up[conn])
              /\ \A j \in 1..x : up'[conn][j] = up[conn][j]
            <4>1. CASE c = conn
                <5>1. \A j \in 1..x : j \in 1..Len(up'[conn])
                    BY <2>1, <4>1
                <5> QED
                    BY <2>1, <4>1, <5>1
            <4>2. CASE c # conn
                BY <2>1, <3>1, <4>2
            <4> QED
                BY <4>1, <4>2
        <3>3. d \in 1..(up[conn][x] - 1)
            BY <3>2
        <3>4. Decided(d) \/ \E j \in 1..(x - 1) : up[conn][j] = d
            BY <1>3, <2>4, <3>2, <3>3 DEF FramesInOrder
        <3>5. \A j \in 1..(x - 1) : j \in 1..x
            BY <2>1
        <3> QED
            BY <1>1, <3>2, <3>4, <3>5
    <2> QED
        BY <2>2, <2>3, <2>4 DEF FramesInOrder
<1>10. ASSUME up' = up, conn' = conn, session' # "NONE" => session # "NONE"
       PROVE  FramesKnown' /\ FramesInOrder'
    BY <1>1, <1>2, <1>3, <1>10 DEF FramesKnown, FramesInOrder
<1>11. ASSUME ServerRestart PROVE FramesKnown' /\ FramesInOrder'
    BY <1>11 DEF ServerRestart, FramesKnown, FramesInOrder
<1>12. FramesKnown' /\ FramesInOrder'
    <2>1. \/ (\E legal \in BOOLEAN : Send(legal)) \/ Drain \/ HandleWelcome
          \/ Connect \/ ReceiveHello \/ (\E c \in Connections : Process(c) \/ LoseFrames(c))
          \/ up' = up /\ conn' = conn /\ (session' # "NONE" => session # "NONE")
          \/ ServerRestart
        BY DEF Next, vars, runnerVars, serverVars, CloseSession, Detach, Dispatch, ChangeRun,
            HandleUnexpected, FailAccess, HandleMessage, HandleLate, Leave, RunnerRestart,
            Reading
    <2>2. CASE (\E legal \in BOOLEAN : Send(legal)) \/ Drain \/ HandleWelcome
        BY <1>4, <2>2, FlushSteps
    <2> QED
        BY <1>5, <1>7, <1>8, <1>9, <1>10, <1>11, <2>1, <2>2
<1>13. session' # "NONE" => conn' \in Connections
    <2>1. CASE Connect
        BY <2>1, BoundsAssumption DEF Connect, Connections, TypeOK
    <2>2. CASE ~Connect
        <3>1. conn' = conn /\ (session' # "NONE" => session # "NONE")
            BY <2>2 DEF Next, vars, runnerVars, serverVars, Send, Drain, ReceiveHello,
                Process, LoseFrames, CloseSession, Detach, Dispatch, ChangeRun,
                HandleWelcome, HandleUnexpected, FailAccess, HandleMessage, HandleLate,
                Leave, ServerRestart, RunnerRestart, Reading
        <3> QED
            BY <3>1 DEF ChainInv
    <2> QED
        BY <2>1, <2>2
<1> QED
    BY <1>12, <1>13, HelloStep DEF ChainInv, FramesKnown, FramesInOrder, HelloFirst

-------------------------------------------------------------------------------
(* What is in flight, and what is carried.                                 *)

\* Nothing in flight on a connection that holds is forgotten by the server.
LEMMA FlightStep ==
    ASSUME TypeOK, UnsettledIsCarried, RevisionInv, AnsweredInv, ChainInv, FlightInv,
           [Next]_vars
    PROVE  FlightInv'
<1>0. Progress /\ TypeOK'
    BY Progresses, TypeStep
<1>1. /\ up \in [Connections -> Seq(Events \cup {Hello})]
      /\ inFlight \in Seq(Events)
      /\ \A d : Decided(d) => Decided(d)'
    BY <1>0, DecisionsStand DEF TypeOK
<1>2. CASE inFlight' = <<>> /\ conn' = conn /\ link' \in {"STOPPED", "DOWN"}
    BY <1>2 DEF FlightInv
<1>3. CASE Connect
    <2>1. conn' \in Connections
        BY <1>3, BoundsAssumption DEF Connect, Connections, TypeOK
    <2>2. inFlight' = <<>> /\ link' = "NEGOTIATING"
        BY <1>3 DEF Connect, FlightInv
    <2> QED
        BY <2>1, <2>2 DEF FlightInv
<1>4. ASSUME link' = link, conn' = conn, Reading' => Reading,
             Elements(inFlight') \subseteq Elements(inFlight),
             link # "ACTIVE" => inFlight' = inFlight,
             \A d : Reading /\ link = "ACTIVE" /\ Occurs(d, up[conn])
                      => Decided(d)' \/ Occurs(d, up'[conn])
      PROVE  FlightInv'
    <2>1. ASSUME Reading', link' = "ACTIVE", NEW d \in Elements(inFlight')
          PROVE  Decided(d)' \/ Occurs(d, up'[conn])
        <3>1. Decided(d) \/ Occurs(d, up[conn])
            BY <1>4, <2>1 DEF FlightInv
        <3> QED
            BY <1>1, <1>4, <2>1, <3>1
    <2>2. Reading' /\ link' = "ACTIVE" => \A d \in Elements(inFlight') :
            Decided(d)' \/ Occurs(d, up'[conn'])
        BY <1>4, <2>1
    <2>3. /\ link' # "ACTIVE" => inFlight' = <<>>
          /\ link' \in {"NEGOTIATING", "ACTIVE"} => conn' \in Connections
        BY <1>4 DEF FlightInv
    <2> QED
        BY <2>2, <2>3 DEF FlightInv, Elements, Occurs
<1>5. ASSUME NEW q, NEW k, NEW marked, FlushStep(q, k, marked), link' = "ACTIVE"
      PROVE  FlightInv'
    <2>0. conn' = conn /\ session' = session /\ k \in 0..Len(q) /\ q \in Seq(Events)
        BY <1>5 DEF FlushStep, Flushed
    <2>1. /\ conn \in Connections
          /\ Reading => /\ Len(up[conn]) \in Nat /\ Len(up'[conn]) = Len(up[conn]) + k
                        /\ \A i \in 1..Len(up[conn]) : up'[conn][i] = up[conn][i]
                        /\ \A j \in 1..k : up'[conn][Len(up[conn]) + j] = q[j]
        BY <1>5, FlushedFrames
    <2>2. /\ inFlight' = inFlight \o SubSeq(q, 1, k)
          /\ SubSeq(q, 1, k) \in Seq(Events) /\ Len(SubSeq(q, 1, k)) = k
          /\ \A j \in 1..k : SubSeq(q, 1, k)[j] = q[j]
        BY <1>1, <1>5, <2>0, CutAndJoin DEF FlushStep, Flush
    <2>3. ASSUME NEW d \in Elements(inFlight')
          PROVE  d \in Elements(inFlight) \/ \E j \in 1..k : d = q[j]
        <3> DEFINE s == SubSeq(q, 1, k)
        <3>1. PICK i \in 1..Len(inFlight') : d = inFlight'[i]
            BY <2>3 DEF Elements
        <3>2. /\ s \in Seq(Events) /\ Len(s) = k /\ inFlight' = inFlight \o s
              /\ \A j \in 1..k : s[j] = q[j]
            BY <2>2
        <3> HIDE DEF s
        <3>3. /\ Len(inFlight') = Len(inFlight) + Len(s)
              /\ inFlight'[i] = IF i <= Len(inFlight) THEN inFlight[i] ELSE s[i - Len(inFlight)]
              /\ Len(inFlight) \in Nat
            <4>1. inFlight \in Seq(Events) /\ s \in Seq(Events)
                BY <1>1, <3>2
            <4>2. /\ Len(inFlight \o s) = Len(inFlight) + Len(s)
                  /\ \A x \in 1 .. Len(inFlight) + Len(s) : (inFlight \o s)[x] =
                       IF x <= Len(inFlight) THEN inFlight[x] ELSE s[x - Len(inFlight)]
                BY <4>1, ConcatProperties
            <4>3. Len(inFlight) \in Nat
                BY <4>1, LenProperties
            <4> QED
                BY <3>1, <3>2, <4>2, <4>3
        <3>4. CASE i <= Len(inFlight)
            BY <3>1, <3>3, <3>4 DEF Elements
        <3>5. CASE ~(i <= Len(inFlight))
            <4>1. i - Len(inFlight) \in 1..k
                BY <3>1, <3>2, <3>3, <3>5
            <4> QED
                BY <3>1, <3>2, <3>3, <3>5, <4>1
        <3> QED
            BY <3>4, <3>5
    <2>4. ASSUME Reading, NEW d \in Elements(inFlight')
          PROVE  Decided(d)' \/ Occurs(d, up'[conn])
        <3>1. CASE d \in Elements(inFlight)
            <4>1. inFlight # <<>>
                BY <3>1 DEF Elements
            <4>2. link = "ACTIVE"
                BY <4>1 DEF FlightInv
            <4>3. Decided(d) \/ Occurs(d, up[conn])
                BY <2>4, <3>1, <4>2 DEF FlightInv
            <4>4. CASE Occurs(d, up[conn])
                <5>1. PICK i \in 1..Len(up[conn]) : up[conn][i] = d
                    BY <4>4 DEF Occurs
                <5>2. i \in 1..Len(up'[conn])
                    BY <2>0, <2>1, <2>4
                <5> QED
                    BY <2>1, <2>4, <5>1, <5>2 DEF Occurs
            <4> QED
                BY <1>1, <4>3, <4>4
        <3>2. ASSUME NEW j \in 1..k, d = q[j] PROVE Occurs(d, up'[conn])
            <4>1. Len(up[conn]) + j \in 1..Len(up'[conn])
                BY <2>0, <2>1, <2>4
            <4> QED
                BY <2>1, <2>4, <3>2, <4>1 DEF Occurs
        <3> QED
            BY <2>3, <2>4, <3>1, <3>2
    <2>5. Reading' /\ link' = "ACTIVE" => \A d \in Elements(inFlight') :
            Decided(d)' \/ Occurs(d, up'[conn'])
        BY <2>0, <2>4 DEF Reading
    <2> QED
        BY <1>5, <2>0, <2>1, <2>5 DEF FlightInv, Elements, Occurs
<1>6. ASSUME (\E legal \in BOOLEAN : Send(legal)) \/ Drain \/ HandleWelcome PROVE FlightInv'
    <2>1. link' = "ACTIVE"
        BY <1>6 DEF Send, Drain, HandleWelcome
    <2> QED
        BY <1>5, <1>6, <2>1, FlushSteps
<1>7. ASSUME HandleMessage \/ HandleLate PROVE FlightInv'
    <2>1. /\ link' = link /\ conn' = conn /\ up' = up /\ session' = session
        BY <1>7 DEF HandleMessage, HandleLate, serverVars
    <2>2. inFlight' = inFlight \/ Elements(inFlight') \subseteq Elements(inFlight)
        BY <1>7, SettleForgetsOne DEF HandleMessage, HandleLate
    <2>3. Elements(inFlight') \subseteq Elements(inFlight)
        BY <2>2 DEF Elements
    <2>4. inFlight = <<>> => inFlight' = <<>>
        <3>1. inFlight' \in Seq(Events)
            BY <1>0 DEF TypeOK
        <3>2. ASSUME inFlight = <<>>, inFlight' # <<>> PROVE FALSE
            <4>1. 1 \in 1..Len(inFlight')
                BY <3>1, <3>2, ShorterQueues
            <4>2. inFlight'[1] \in Elements(inFlight')
                BY <4>1 DEF Elements
            <4>3. Elements(inFlight) = {}
                BY <3>2 DEF Elements
            <4> QED
                BY <2>3, <4>2, <4>3
        <3> QED
            BY <3>2
    <2>5. link # "ACTIVE" => inFlight' = inFlight
        BY <2>4 DEF FlightInv
    <2>6. Reading' => Reading
        BY <2>1 DEF Reading
    <2> QED
        BY <1>4, <2>1, <2>3, <2>5, <2>6
<1>8. ASSUME NEW c \in Connections, Process(c) PROVE FlightInv'
    <2>1. /\ link' = link /\ conn' = conn /\ inFlight' = inFlight /\ session' = session
          /\ up[c] # <<>> /\ up' = [up EXCEPT ![c] = Tail(@)]
        BY <1>8 DEF Process, runnerVars
    <2>2. ASSUME NEW d, Reading, link = "ACTIVE", Occurs(d, up[conn])
          PROVE  Decided(d)' \/ Occurs(d, up'[conn])
        <3>0. conn \in Connections
            BY <2>2 DEF FlightInv
        <3>1. CASE c # conn
            BY <1>1, <2>1, <2>2, <3>0, <3>1
        <3>2. CASE c = conn
            <4>1. PICK i \in 1..Len(up[conn]) : up[conn][i] = d
                BY <2>2 DEF Occurs
            <4> DEFINE t == up[conn]
            <4>2. t \in Seq(Events \cup {Hello}) /\ t # <<>> /\ up'[conn] = Tail(t)
                BY <1>1, <2>1, <3>0, <3>2
            <4>3. i \in 1..Len(t) /\ t[i] = d
                BY <4>1
            <4>4. CASE i = 1
                <5>1. d = up[c][1]
                    BY <3>2, <4>1, <4>4
                <5>2. session # "NONE"
                    BY <2>2 DEF Reading
                <5> QED
                    BY <1>0, <1>8, <3>2, <5>1, <5>2, AnswersAreDecided
            <4>5. CASE i # 1
                <5> HIDE DEF t
                <5>1. /\ Len(t) \in Nat /\ Len(Tail(t)) = Len(t) - 1
                      /\ \A j \in 1..Len(Tail(t)) : Tail(t)[j] = t[j + 1]
                    BY <4>2, ShorterQueues
                <5>2. i - 1 \in 1..Len(Tail(t)) /\ (i - 1) + 1 = i
                    BY <4>3, <4>5, <5>1
                <5>3. Tail(t)[i - 1] = d
                    BY <4>3, <5>1, <5>2
                <5> QED
                    BY <4>2, <5>2, <5>3 DEF Occurs
            <4> QED
                BY <4>4, <4>5
        <3> QED
            BY <3>1, <3>2
    <2>3. Reading' => Reading
        BY <2>1 DEF Reading
    <2> QED
        BY <1>4, <2>1, <2>2, <2>3 DEF Elements
<1>9. ASSUME NEW c \in Connections, LoseFrames(c) PROVE FlightInv'
    <2>1. /\ link' = link /\ conn' = conn /\ inFlight' = inFlight /\ session' = session
          /\ up' = [up EXCEPT ![c] = SubSeq(@, 1, Len(@) - 1)]
          /\ c # conn \/ ~Reading \/ link # "ACTIVE"
        BY <1>9 DEF LoseFrames, runnerVars, serverVars, Connected
    <2>2. ASSUME NEW d, Reading, link = "ACTIVE", Occurs(d, up[conn])
          PROVE  Decided(d)' \/ Occurs(d, up'[conn])
        <3>1. c # conn /\ conn \in Connections
            BY <2>1, <2>2 DEF FlightInv
        <3> QED
            BY <1>1, <2>1, <2>2, <3>1
    <2>3. Reading' => Reading
        BY <2>1 DEF Reading
    <2> QED
        BY <1>4, <2>1, <2>2, <2>3 DEF Elements
<1>10. CASE link' = link /\ conn' = conn /\ inFlight' = inFlight /\ up' = up /\ (Reading' => Reading)
    BY <1>4, <1>10 DEF Elements
<1>11. CASE ReceiveHello
    <2>1. link # "ACTIVE"
        BY <1>11 DEF ReceiveHello, ChainInv
    <2>2. link' = link /\ conn' = conn /\ inFlight' = inFlight
        BY <1>11 DEF ReceiveHello, runnerVars
    <2> QED
        BY <2>1, <2>2 DEF FlightInv
<1>12. CASE ServerRestart
    <2>1. link' = link /\ conn' = conn /\ inFlight' = inFlight /\ session' = "NONE"
        BY <1>12 DEF ServerRestart, runnerVars
    <2> QED
        BY <2>1 DEF FlightInv, Reading
<1>13. \/ (\E legal \in BOOLEAN : Send(legal)) \/ Drain \/ HandleWelcome
       \/ HandleMessage \/ HandleLate \/ ReceiveHello \/ Connect \/ FailAccess
       \/ ServerRestart \/ (\E c \in Connections : Process(c) \/ LoseFrames(c))
       \/ inFlight' = <<>> /\ conn' = conn /\ link' \in {"STOPPED", "DOWN"}
       \/ link' = link /\ conn' = conn /\ inFlight' = inFlight /\ up' = up /\ (Reading' => Reading)
    BY DEF Next, vars, runnerVars, serverVars, CloseSession, Detach, Dispatch, ChangeRun,
        HandleUnexpected, Leave, RunnerRestart, Requeue, Reading
<1>14. CASE FailAccess
    <2>1. inFlight' = <<>> /\ conn' = conn /\ link' = "STOPPED"
        BY <1>14 DEF FailAccess, FlightInv
    <2> QED
        BY <1>2, <2>1
<1> QED
    BY <1>2, <1>3, <1>6, <1>7, <1>8, <1>9, <1>10, <1>11, <1>12, <1>13, <1>14

\* The client goes on carrying exactly the rows that are not settled.
LEMMA CarriedStep ==
    ASSUME TypeOK, UnsettledIsCarried, [Next]_vars
    PROVE  UnsettledIsCarried'
<1>0. /\ rows \in Seq(Rows) /\ Len(rows) \in Nat
      /\ outbound \in Seq(Events) /\ inFlight \in Seq(Events)
      /\ up \in [Connections -> Seq(Events \cup {Hello})]
    BY LenProperties DEF TypeOK, Rows
<1>1. ASSUME UNCHANGED <<rows, inFlight, outbound>> PROVE UnsettledIsCarried'
    <2>1. UnsettledEvents' = UnsettledEvents
        BY <1>1 DEF UnsettledEvents
    <2>2. inFlight' \o outbound' = inFlight \o outbound
        BY <1>1
    <2> QED
        BY <2>1, <2>2 DEF UnsettledIsCarried
<1>2. ASSUME Drain \/ HandleWelcome PROVE UnsettledIsCarried'
    <2>1. PICK k \in 0..Len(outbound) : Flush(outbound, k, rows)
        BY <1>2 DEF Drain, HandleWelcome
    <2> QED
        BY <1>0, <2>1, FlushMoves, StillCarried
<1>3. ASSUME HandleMessage \/ HandleLate PROVE UnsettledIsCarried'
    <2>1. CASE \E e, d : Settle(e, d)
        BY <2>1, SettleForgetsOne
    <2> QED
        BY <1>1, <1>3, <2>1 DEF HandleMessage, HandleLate
<1>4. ASSUME HandleUnexpected \/ Leave PROVE UnsettledIsCarried'
    <2>1. rows' = rows /\ outbound' = inFlight \o outbound /\ inFlight' = <<>>
        BY <1>4 DEF HandleUnexpected, Leave, Requeue
    <2>2. inFlight \o outbound \in Seq(Events)
        BY <1>0, ConcatProperties
    <2>3. inFlight' \o outbound' = inFlight \o outbound
        BY <2>1, <2>2, ConcatEmptySeq
    <2>4. UnsettledEvents' = UnsettledEvents
        BY <2>1 DEF UnsettledEvents
    <2> QED
        BY <2>3, <2>4 DEF UnsettledIsCarried
<1>5. ASSUME RunnerRestart PROVE UnsettledIsCarried'
    BY <1>5, RestartKeepsRows
<1>6. ASSUME NEW legal \in BOOLEAN, Send(legal) PROVE UnsettledIsCarried'
    <2> DEFINE row == [expected |-> known, legal |-> legal, state |-> "PENDING"]
               n == Len(rows) + 1
               q == Append(outbound, n)
               marked == Append(rows, row)
    <2>1. /\ marked \in Seq(Rows) /\ Len(marked) = n /\ n \in Events
          /\ \A i \in 1..Len(rows) : marked[i] = rows[i]
          /\ marked[n] = row
          /\ q \in Seq(Events) /\ Len(q) = Len(outbound) + 1
        BY <1>6, NewRow DEF Send
    <2>2. PICK k \in 0..(Len(outbound) + 1) : Flush(q, k, marked)
        BY <1>6 DEF Send
    <2>3. row.state \in Unsettled
        BY DEF Unsettled
    <2>4. q = outbound \o <<n>> /\ <<n>> \in Seq(Events)
        BY <1>0, <2>1, AppendIsConcat
    <2> HIDE DEF q, marked, row, n
    <2>5. inFlight' \o outbound' = inFlight \o q /\ RowsKept(marked) /\ NothingSettled(marked)
        BY <1>0, <2>1, <2>2, FlushMoves
    <2>6. (inFlight \o outbound) \o <<n>> = inFlight \o q
        BY <1>0, <2>4, ConcatAssociative
    <2>7. UnsettledEvents' = UnsettledEvents \cup {n}
        <3>1. Len(rows') = n /\ n = Len(rows) + 1
            BY <2>1, <2>5 DEF RowsKept, n
        <3>2. \A i \in 1..n : (rows'[i].state \in Unsettled) <=> (marked[i].state \in Unsettled)
            BY <2>1, <2>5 DEF NothingSettled
        <3>3. \A i \in 1..n : i \in 1..Len(rows) \/ i = n
            BY <1>0, <3>1
        <3>4. n \in 1..n /\ \A i \in 1..Len(rows) : i \in 1..n
            BY <1>0, <3>1
        <3> QED
            BY <2>1, <2>3, <3>1, <3>2, <3>3, <3>4 DEF UnsettledEvents
    <2> DEFINE p == inFlight \o outbound
    <2>8. p \in Seq(Events) /\ Lists(p, UnsettledEvents)
        BY <1>0, ConcatProperties DEF UnsettledIsCarried
    <2> HIDE DEF p
    <2>9. Increasing(p) /\ Elements(p) = UnsettledEvents
        BY <2>8 DEF Lists, Increasing, Elements
    <2>10. \A i \in 1..Len(p) : p[i] < n
        <3>1. \A i \in 1..Len(p) : p[i] \in 1..Len(rows)
            BY <2>9 DEF Elements, UnsettledEvents
        <3> QED
            BY <1>0, <3>1 DEF n
    <2>11. /\ Increasing(<<n>>) /\ Elements(<<n>>) = {n}
           /\ \A i \in 1..Len(p), j \in 1..Len(<<n>>) : p[i] < <<n>>[j]
        <3>1. Len(<<n>>) = 1 /\ <<n>>[1] = n /\ 1..1 = {1}
            OBVIOUS
        <3> QED
            BY <2>10, <3>1 DEF Increasing, Elements
    <2>12. Lists(p \o <<n>>, UnsettledEvents')
        BY <2>4, <2>7, <2>8, <2>9, <2>11, ListsInParts
    <2>13. inFlight' \o outbound' = p \o <<n>>
        BY <2>5, <2>6 DEF p
    <2> QED
        BY <2>12, <2>13 DEF UnsettledIsCarried
<1>7. \/ (\E legal \in BOOLEAN : Send(legal)) \/ Drain \/ HandleWelcome
      \/ HandleMessage \/ HandleLate \/ HandleUnexpected \/ Leave \/ RunnerRestart
      \/ UNCHANGED <<rows, inFlight, outbound>>
    BY DEF Next, vars, runnerVars, Connect, FailAccess, ReceiveHello, Process, LoseFrames,
        CloseSession, Detach, Dispatch, ChangeRun, ServerRestart
<1> QED
    BY <1>1, <1>2, <1>3, <1>4, <1>5, <1>6, <1>7

-------------------------------------------------------------------------------
\* The invariant holds at first.
LEMMA InvInit == Init => Inv
<1> SUFFICES ASSUME Init PROVE Inv
    OBVIOUS
<1>1. /\ rows = <<>> /\ outbound = <<>> /\ inFlight = <<>> /\ down = <<>> /\ accepted = <<>>
      /\ late = {} /\ session = "NONE" /\ link = "DOWN" /\ known = 0 /\ revision = 1
      /\ up = [c \in Connections |-> <<>>] /\ cache = [e \in Events |-> "NONE"]
    BY DEF Init
<1>2. TypeOK
    BY TypeInit
<1>3. RevisionInv
    BY <1>1 DEF RevisionInv, AppliedInOrder, NextEvent
<1>4. AnsweredInv
    BY <1>1 DEF AnsweredInv
<1>5. ChainInv
    BY <1>1 DEF ChainInv
<1>6. FlightInv
    BY <1>1 DEF FlightInv
<1>7. UnsettledIsCarried
    <2>1. inFlight \o outbound = <<>> /\ Len(<<>>) = 0
        BY <1>1, ConcatEmptySeq
    <2> QED
        BY <1>1, <2>1 DEF UnsettledIsCarried, Lists, UnsettledEvents
<1> QED
    BY <1>2, <1>3, <1>4, <1>5, <1>6, <1>7 DEF Inv

\* Every step keeps the invariant.
LEMMA InvStep == Inv /\ [Next]_vars => Inv'
    BY TypeStep, RevisionStep, AnsweredStep, ChainStep, FlightStep, CarriedStep DEF Inv

\* The invariant holds in every state, for any number of events, connections, launches
\* and restarts.
THEOREM Invariance == Spec => []Inv
<1>1. Init => Inv
    BY InvInit
<1>2. Inv /\ [Next]_vars => Inv'
    BY InvStep
<1> QED
    BY <1>1, <1>2, PTL DEF Spec

\* The runner's outbox and its client agree in every state, whatever connection breaks
\* and whoever restarts: what is not settled is carried, in order and once; and an event
\* written off was not applied, for what is blocked comes after all that was.
THEOREM EveryEventIsAccountedFor == Spec => []EventsAccounted
<1>1. Inv => EventsAccounted
    <2> SUFFICES ASSUME Inv, NEW e \in 1..Len(rows),
                        rows[e].state = "PERMANENTLY_REJECTED",
                        NEW i \in 1..Len(accepted), accepted[i] = e
                 PROVE  FALSE
        BY DEF Inv, EventsAccounted, RevisionInv, RejectedIsNotApplied
    <2>1. Blocked(e)
        BY DEF Inv, AnsweredInv
    <2>2. e = i /\ Len(accepted) \in Nat
        BY LenProperties DEF Inv, TypeOK, RevisionInv, AppliedInOrder
    <2>3. Len(accepted) + 1 <= e
        <3>1. PICK d \in 1..Len(rows) : NextEvent <= d /\ d <= e
            BY <2>1 DEF Blocked
        <3> QED
            BY <2>2, <3>1 DEF NextEvent
    <2> QED
        BY <2>2, <2>3
<1> QED
    BY <1>1, Invariance, PTL

-------------------------------------------------------------------------------
(* The protocol implements EventLog.                                       *)

Book == [e \in 1..Len(rows) |-> Entry(e)]

\* The book stands when no row is added and none is settled.
LEMMA BookStands ==
    ASSUME RowsKept(rows), NothingSettled(rows)
    PROVE  Book' = Book
<1>1. \A e \in 1..Len(rows) : Entry(e)' = Entry(e)
    BY DEF NothingSettled, Entry
<1> QED
    BY <1>1 DEF Book, RowsKept

\* An event that is sent is entered, and settles no other.
LEMMA SendObserves ==
    ASSUME TypeOK, NEW legal \in BOOLEAN, Send(legal)
    PROVE  Book' = Append(Book, "OPEN")
<1> DEFINE n == Len(rows)
           row == [expected |-> known, legal |-> legal, state |-> "PENDING"]
           q == Append(outbound, n + 1)
           marked == Append(rows, row)
<1>0. n \in Nat /\ inFlight \in Seq(Events) /\ up \in [Connections -> Seq(Events \cup {Hello})]
    BY LenProperties DEF TypeOK
<1>1. /\ marked \in Seq(Rows) /\ Len(marked) = n + 1 /\ marked[n + 1] = row
      /\ \A i \in 1..n : marked[i] = rows[i]
      /\ q \in Seq(Events) /\ Len(q) = Len(outbound) + 1
    BY NewRow DEF Send
<1>2. PICK k \in 0..(Len(outbound) + 1) : Flush(q, k, marked)
    BY DEF Send
<1>3. row.state \in Unsettled
    BY DEF Unsettled
<1> HIDE DEF q, marked, row
<1>4. RowsKept(marked) /\ NothingSettled(marked)
    BY <1>0, <1>1, <1>2, FlushMoves
<1>5. /\ Len(rows') = n + 1 /\ rows'[n + 1].state \in Unsettled
      /\ \A e \in 1..n : \/ rows'[e].state = rows[e].state
                         \/ rows'[e].state \in Unsettled /\ rows[e].state \in Unsettled
    BY <1>0, <1>1, <1>3, <1>4 DEF RowsKept, NothingSettled
<1>6. Book' = [e \in 1..(n + 1) |-> IF e <= n THEN Entry(e) ELSE "OPEN"]
    <2>1. \A e \in 1..(n + 1) : Entry(e)' = IF e <= n THEN Entry(e) ELSE "OPEN"
        BY <1>0, <1>5 DEF Entry
    <2> QED BY <1>5, <2>1 DEF Book
<1> QED
    BY <1>0, <1>6 DEF Book

\* An answer writes one open entry, or none; what it rejects has not been applied.
LEMMA SettleWrites ==
    ASSUME TypeOK, UnsettledIsCarried, NEW e, NEW d, Settle(e, d),
           d = "REJECTED" => Blocked(e), accepted' = accepted
    PROVE  \/ Book' = Book
           \/ \E i \in 1..Len(rows) : Abstract!Acknowledge(i) \/ Abstract!Reject(i)
<1> DEFINE new == IF d = "REJECTED" THEN "PERMANENTLY_REJECTED" ELSE "ACKNOWLEDGED"
<1>1. /\ RowsKept(rows)
      /\ \A i \in 1..Len(rows) :
           \/ rows'[i].state = rows[i].state
           \/ i = e /\ rows[i].state \in Unsettled /\ rows'[i].state = new
    BY SettleForgetsOne
<1>2. CASE \A i \in 1..Len(rows) : rows'[i].state = rows[i].state
    BY <1>1, <1>2, BookStands DEF NothingSettled
<1>3. CASE ~ \A i \in 1..Len(rows) : rows'[i].state = rows[i].state
    <2>1. e \in 1..Len(rows) /\ rows[e].state \in Unsettled /\ rows'[e].state = new
        BY <1>1, <1>3
    <2>2. new \in {"ACKNOWLEDGED", "PERMANENTLY_REJECTED"} /\ new \notin Unsettled
        BY DEF Unsettled
    <2>3. new = "PERMANENTLY_REJECTED" => e > Len(accepted)
        <3>1. SUFFICES ASSUME d = "REJECTED" PROVE e > Len(accepted)
            OBVIOUS
        <3>2. PICK b \in 1..Len(rows) : Len(accepted) + 1 <= b /\ b <= e
            BY <3>1 DEF Blocked, NextEvent
        <3>3. Len(accepted) \in Nat /\ Len(rows) \in Nat
            BY LenProperties DEF TypeOK
        <3> QED BY <2>1, <3>2, <3>3
    <2> HIDE DEF new
    <2>4. Entry(e) = "OPEN" /\ Entry(e)' = new
        BY <2>1, <2>2 DEF Entry
    <2>5. \A i \in 1..Len(rows) : i # e => Entry(i)' = Entry(i)
        BY <1>1 DEF Entry
    <2>6. Book' = [Book EXCEPT ![e] = new] /\ Book[e] = "OPEN"
        BY <1>1, <2>1, <2>4, <2>5 DEF Book, RowsKept
    <2> QED
        BY <2>1, <2>2, <2>3, <2>6
        DEF Book, Abstract!Acknowledge, Abstract!Reject, Abstract!Write
<1> QED BY <1>2, <1>3

\* What is applied is the next entry, and that is open: what was answered before it was
\* applied is blocked, and an event that is legal in the revision it expects is not.
LEMMA ProcessApplies ==
    ASSUME Inv, Progress, accepted' # accepted, rows' = rows
    PROVE  Abstract!Apply
<1>1. /\ accepted' = Append(accepted, NextEvent) /\ NextEvent \in 1..Len(rows)
      /\ rows[NextEvent].legal /\ rows[NextEvent].expected = revision
    BY DEF Progress
<1>2. rows \in Seq(Rows) /\ Len(rows) \in Nat /\ NextEvent \in Nat /\ revision \in Nat
    BY LenProperties DEF Inv, TypeOK, Rows, NextEvent
<1>3. ~Decided(NextEvent)
    <2>1. \A d \in 1..Len(rows) : NextEvent <= d /\ d <= NextEvent => d = NextEvent
        BY <1>2
    <2>2. ~Blocked(NextEvent)
        <3>1. ~(revision < revision)
            BY <1>2
        <3> QED BY <1>1, <2>1, <3>1 DEF Blocked
    <2>3. ~(NextEvent < NextEvent)
        BY <1>2
    <2> QED BY <2>2, <2>3 DEF Decided
<1>4. rows[NextEvent].state \in RowStates
    <2>1. \A i \in 1..Len(rows) : rows[i] \in Rows
        BY <1>2, ElementOfSeq
    <2> QED BY <1>1, <2>1 DEF Rows
<1>5. rows[NextEvent].state \in Unsettled
    BY <1>1, <1>3, <1>4 DEF Inv, AnsweredInv, Decided, RowStates
<1>6. /\ NextEvent <= Len(Book) /\ Book[NextEvent] = "OPEN"
      /\ Book' = Book
    BY <1>1, <1>2, <1>5 DEF Book, Entry
<1> QED
    BY <1>1, <1>6 DEF Abstract!Apply, Book, NextEvent

\* Every step of the protocol is a step of the log, or leaves it as it is.
LEMMA ProtocolStep ==
    ASSUME Inv, [Next]_vars
    PROVE  [Abstract!Next]_<<Book, accepted>>
<1>0. TypeOK /\ UnsettledIsCarried /\ Progress
    BY Progresses DEF Inv
<1>1. rows \in Seq(Rows) /\ Len(rows) \in Nat /\ Len(Book) = Len(rows)
      /\ outbound \in Seq(Events) /\ inFlight \in Seq(Events)
      /\ up \in [Connections -> Seq(Events \cup {Hello})]
    BY <1>0, LenProperties DEF TypeOK, Rows, Book
<1>2. ASSUME NEW legal \in BOOLEAN, Send(legal) PROVE Abstract!Observe
    BY <1>0, <1>2, SendObserves DEF Abstract!Observe, Book, Send, serverVars
<1>3. ASSUME Drain \/ HandleWelcome PROVE UNCHANGED <<Book, accepted>>
    <2>1. PICK k \in 0..Len(outbound) : Flush(outbound, k, rows)
        BY <1>3 DEF Drain, HandleWelcome
    <2>2. RowsKept(rows) /\ NothingSettled(rows)
        BY <1>1, <2>1, FlushMoves
    <2> QED
        BY <1>3, <2>2, BookStands DEF Drain, HandleWelcome, serverVars
<1>4. ASSUME RunnerRestart PROVE UNCHANGED <<Book, accepted>>
    BY <1>0, <1>4, RestartKeepsRows, BookStands DEF RunnerRestart, serverVars
<1>5. ASSUME HandleMessage \/ HandleLate
      PROVE  \/ UNCHANGED <<Book, accepted>>
             \/ \E i \in 1..Len(rows) : Abstract!Acknowledge(i) \/ Abstract!Reject(i)
    <2>1. accepted' = accepted
        BY <1>5 DEF HandleMessage, HandleLate, serverVars
    <2>2. \/ rows' = rows
          \/ \E m \in Received : m.kind = "ACK" /\ Settle(m.event, m.disposition)
        BY <1>0, <1>5, MessagesAreReceived
    <2>3. CASE rows' = rows
        BY <2>1, <2>3 DEF Book, Entry
    <2>4. ASSUME NEW m \in Received, m.kind = "ACK", Settle(m.event, m.disposition)
          PROVE  \/ Book' = Book
                 \/ \E i \in 1..Len(rows) : Abstract!Acknowledge(i) \/ Abstract!Reject(i)
        <3>1. m.disposition = "REJECTED" => Blocked(m.event)
            BY <2>4 DEF Inv, AnsweredInv, Received
        <3> QED BY <1>0, <2>1, <2>4, <3>1, SettleWrites
    <2> QED BY <2>1, <2>2, <2>3, <2>4
<1>6. CASE rows' = rows
    <2>1. Book' = Book
        BY <1>6 DEF Book, Entry
    <2> QED
        BY <1>0, <1>6, <2>1, ProcessApplies DEF Abstract!Next
<1>7. \/ \E legal \in BOOLEAN : Send(legal)
      \/ Drain \/ HandleWelcome \/ HandleMessage \/ HandleLate \/ RunnerRestart
      \/ rows' = rows
    BY DEF Next, vars, runnerVars, Connect, ReceiveHello, Process, LoseFrames,
        CloseSession, Detach, Dispatch, ChangeRun, HandleUnexpected, FailAccess, Leave,
        ServerRestart
<1>8. \A i \in 1..Len(rows) : Abstract!Acknowledge(i) \/ Abstract!Reject(i) => Abstract!Next
    BY <1>1 DEF Abstract!Next, Book
<1> QED
    BY <1>2, <1>3, <1>4, <1>5, <1>6, <1>7, <1>8 DEF Abstract!Next

\* With all its connections, resent frames and restarts the protocol applies the events
\* of a run one after the other and settles each once, and what is settled without having
\* been applied is never applied.
THEOREM ProtocolImplementsEventLog == Spec => ImplementsEventLog
<1>1. Init => Abstract!Init
    BY DEF Init, Abstract!Init
<1>2. Inv /\ [Next]_vars => [Abstract!Next]_<<Book, accepted>>
    BY ProtocolStep
<1> QED
    BY <1>1, <1>2, Invariance, PTL DEF Spec, ImplementsEventLog, Abstract!Spec, Book

===============================================================================
