------------------------ MODULE QueueDeliveryProofs -------------------------
(***************************************************************************)
(* The types of QueueDelivery, the lease of the outbox, the attempts of a  *)
(* delivery, and QueueDelivery as an implementation of DeliveryContract,   *)
(* for every value of the constants.                                       *)
(***************************************************************************)
EXTENDS QueueDelivery, TLAPS, FiniteSetTheorems, WellFoundedInduction

USE QueueBounds, ActorsAreDistinct

ProducerChangesRow(s) ==
  \/ \E some \in SUBSET Deliveries : ClaimMany(s, some)
  \/ FinishAccepted(s) \/ FinishThrows(s) \/ FinishFailed(s) \/ EndRun(s) \/ SenderDies(s)
ConsumerChangesRow(c) ==
  \/ RecordUnnamedError(c) \/ Reserve(c) \/ Undo(c) \/ Report(c) \/ RecordError(c)

\* Which steps write to a row of trigger_deliveries.
LEMMA DeliveryFrame ==
  ASSUME [Next]_vars
  PROVE \/ UNCHANGED delivery
        \/ Elapse \/ (\E d \in Deliveries : Materialize(d))
        \/ (\E s \in Senders : ProducerChangesRow(s))
        \/ (\E c \in AllConsumers : ConsumerChangesRow(c))
<1>1. ASSUME NEW s \in Senders, Produce(s) PROVE UNCHANGED delivery \/ ProducerChangesRow(s)
  BY <1>1, Zenon DEF Produce, ProducerChangesRow, BeginRun, BuildFails, HaltRun, QueueAccepts,
     SendFails, SendChunk
<1>2. ASSUME NEW c \in AllConsumers, Consume(c) PROVE UNCHANGED delivery \/ ConsumerChangesRow(c)
  BY <1>2, Zenon DEF Consume, ConsumerChangesRow, Receive, PrepareFails, Refuse, ReserveFails,
     ObservationFails, CallTarget, TargetAnswers, CallFails, CheckReceipt, ReportFails,
     MarkInvoked, RetryMessage, ConsumerDies
<1>3. ASSUME NEW d \in Deliveries, OrphanRuns(d) PROVE UNCHANGED delivery BY <1>3 DEF OrphanRuns
<1>4. ASSUME NEW d \in Deliveries, NEW i \in Copies, MessageArrives(d, i)
               \/ MessageLost(d, i) PROVE UNCHANGED delivery
  BY <1>4 DEF MessageArrives, MessageLost
<1>5. ASSUME Switch PROVE UNCHANGED delivery BY <1>5 DEF Switch
<1>6. ASSUME UNCHANGED vars PROVE UNCHANGED delivery BY <1>6 DEF vars
<1>. QED BY <1>1, <1>2, <1>3, <1>4, <1>5, <1>6, Zenon DEF Next

InvocationsAreNamed ==
  \A c \in AllConsumers : consumer[c].phase # "idle" => consumer[c].d \in Deliveries
AnswersAreGiven ==
  \A c \in AllConsumers :
    consumer[c].phase \in {"answered", "vouched"} => consumer[c].answer # "none"
RowOK(r) == r \in DeliveryRow /\ (r.lease # "none" <=> r.status = "sending")
RowsTyped ==
  /\ delivery = [d \in Deliveries |-> delivery[d]]
  /\ \A d \in Deliveries : RowOK(delivery[d])
RunsTyped == sender \in [Senders -> Run]
CallsTyped ==
  /\ consumer \in [AllConsumers -> Invocation]
  /\ InvocationsAreNamed /\ AnswersAreGiven
ReservationsTyped == reservation \in [Deliveries -> [Numbers -> {"none", "reserved", "invoked"}]]
MessagesTyped == message \in [Deliveries -> [Copies -> Message]]

\* A count of reservations is a number.
LEMMA CountTyped ==
  ASSUME NEW S \in SUBSET Numbers PROVE Cardinality(S) \in Nat /\ IsFiniteSet(S)
<1>1. IsFiniteSet(Numbers)  BY FS_Interval DEF Numbers
<1>2. IsFiniteSet(S) BY <1>1, FS_Subset
<1>. QED BY <1>2, FS_CardinalityType

\* What the statements of the code make of a row.
Aged(r) == [r EXCEPT !.timer = Less(r.timer)]
Intended(r, st) == [r EXCEPT !.status = st]
Claimed(r, s) == [r EXCEPT !.status = "sending", !.lease = s, !.timer = LeaseTime]
Settled(r, st) == [r EXCEPT !.status = st, !.lease = "none", !.timer = RetryDelay]
Abandoned(r) == [r EXCEPT !.lease = "stale"]
Forgotten == [NoDelivery EXCEPT !.status = "deleted"]
Counted(r, n) == [r EXCEPT !.count = n]
Cleared(r, n) == [r EXCEPT !.count = n, !.error = FALSE]
Flagged(r, e) == [r EXCEPT !.error = e]
Reported(r, a, n) ==
  [r EXCEPT !.result = a, !.status = "queued", !.lease = "none", !.error = FALSE, !.count = n]

\* Every statement leaves a row of its shape, and its lease with a row that is sent.
LEMMA RowUpdates ==
  ASSUME NEW r, RowOK(r)
  PROVE  /\ RowOK(Aged(r))
         /\ r.status = "none" => \A st \in {"pending", "skipped"} : RowOK(Intended(r, st))
         /\ \A s \in Senders : RowOK(Claimed(r, s))
         /\ \A st \in {"queued", "unknown"} : RowOK(Settled(r, st))
         /\ \A s \in Senders : r.lease = s => RowOK(Abandoned(r))
         /\ RowOK(Forgotten)
         /\ \A n \in Nat \cup {UnknownCount} : RowOK(Counted(r, n)) /\ RowOK(Cleared(r, n))
         /\ \A e \in BOOLEAN : RowOK(Flagged(r, e))
         /\ \A n \in Nat \cup {UnknownCount}, a \in {"succeeded", "failed"} : RowOK(Reported(r, a, n))
<1>. USE DEF RowOK, DeliveryRow, Unresolved, UnknownCount
<1>1. RowOK(Aged(r))
  <2>1. Less(r.timer) \in Nat
    BY DEF Less
  <2>2. \A t \in Nat : RowOK([r EXCEPT !.timer = t])
    OBVIOUS
  <2>. QED  BY <2>1, <2>2 DEF Aged
<1>2. r.status = "none" => \A st \in {"pending", "skipped"} : RowOK(Intended(r, st))
  BY DEF Intended
<1>3. ASSUME NEW s \in Senders PROVE RowOK(Claimed(r, s)) /\ (r.lease = s => RowOK(Abandoned(r)))
  BY DEF Claimed, Abandoned
<1>4. ASSUME NEW st \in {"queued", "unknown"} PROVE RowOK(Settled(r, st))
  BY DEF Settled
<1>5. RowOK(Forgotten)
  BY DEF Forgotten, NoDelivery
<1>6. ASSUME NEW n \in Nat \cup {UnknownCount} PROVE RowOK(Counted(r, n)) /\ RowOK(Cleared(r, n))
  BY DEF Counted, Cleared
<1>7. ASSUME NEW e \in BOOLEAN PROVE RowOK(Flagged(r, e))
  BY DEF Flagged
<1>8. ASSUME NEW n \in Nat \cup {UnknownCount}, NEW a \in {"succeeded", "failed"}
      PROVE RowOK(Reported(r, a, n))
  BY DEF Reported
<1>. QED
  <2>. HIDE DEF RowOK, UnknownCount
  <2>. QED  BY <1>1, <1>2, <1>3, <1>4, <1>5, <1>6, <1>7, <1>8

\* consumer_attempts is a number or NULL.
LEMMA RecountTyped ==
  ASSUME RowsTyped, NEW d \in Deliveries, NEW rows
  PROVE Recount(d, rows) \in Nat \cup {UnknownCount}
<1>1. Cardinality({n \in Numbers : rows[n] # "none"}) \in Nat BY CountTyped
<1>. QED BY <1>1 DEF Recount

-----------------------------------------------------------------------------
\* What an action makes of a row of trigger_deliveries.
Finishes(s) == FinishAccepted(s) \/ FinishThrows(s) \/ FinishFailed(s)
RowAfter(d) ==
  LET row == delivery[d]
  IN \/ delivery'[d] = row
     \/ Elapse /\ delivery'[d] = Aged(row)
     \/ /\ Materialize(d) /\ row.status = "none"
        /\ \E st \in {"pending", "skipped"} : delivery'[d] = Intended(row, st)
     \/ \E s \in Senders, some \in SUBSET Deliveries :
          ClaimMany(s, some) /\ d \in some /\ delivery'[d] = Claimed(row, s)
     \/ \E s \in Senders, st \in {"queued", "unknown"} :
          /\ Finishes(s) /\ row.status = "sending" /\ row.lease = s
          /\ delivery'[d] = Settled(row, st)
     \/ \E s \in Senders :
          /\ EndRun(s) /\ row.status \in {"queued", "skipped"} /\ delivery'[d] = Forgotten
          /\ reservation'[d] = [n \in Numbers |-> "none"]
     \/ \E s \in Senders : SenderDies(s) /\ row.lease = s /\ delivery'[d] = Abandoned(row)
     \/ \E c \in AllConsumers :
          /\ RecordUnnamedError(c) \/ RecordError(c)
          /\ d = consumer[c].d /\ Open(d) /\ delivery'[d] = Flagged(row, TRUE)
     \/ \E c \in AllConsumers :
          /\ Undo(c) /\ d = consumer[c].d /\ row.status # "deleted"
          /\ delivery'[d] = Counted(row, Recount(d, reservation'[d]))
     \/ \E c \in AllConsumers :
          /\ Reserve(c) /\ d = consumer[c].d /\ Open(d)
          /\ delivery'[d] = Cleared(row, Recount(d, reservation'[d]))
     \/ \E c \in AllConsumers :
          /\ Report(c) /\ d = consumer[c].d /\ NoOtherResult(d, consumer[c].answer)
          /\ delivery'[d] = Reported(row, consumer[c].answer, ConfirmedCount(d, reservation'[d]))

\* What a step of an invocation makes of the delivery it is about, and of its attempts.
Undone(rows, n) == IF n \in Numbers THEN [rows EXCEPT ![n] = "none"] ELSE rows
OwnRowAfter(c) ==
  LET d == consumer[c].d
      row == delivery[d]
      rows == reservation'[d]
  IN \/ delivery'[d] = row /\ rows = reservation[d]
     \/ /\ RecordUnnamedError(c) \/ RecordError(c)
        /\ Open(d) /\ delivery'[d] = Flagged(row, TRUE) /\ rows = reservation[d]
     \/ /\ Undo(c) /\ rows = Undone(reservation[d], consumer[c].number)
        /\ \/ row.status = "deleted" /\ delivery'[d] = row
           \/ row.status # "deleted" /\ delivery'[d] = Counted(row, Recount(d, rows))
     \/ /\ Reserve(c) /\ Open(d) /\ NextNumber(d) \in Numbers
        /\ rows = [reservation[d] EXCEPT ![NextNumber(d)] = "reserved"]
        /\ delivery'[d] = Cleared(row, Recount(d, rows))
     \/ /\ Report(c) \/ MarkInvoked(c)
        /\ rows = Marked(c)
        /\ \/ delivery'[d] = row
           \/ /\ Report(c) /\ NoOtherResult(d, consumer[c].answer)
              /\ delivery'[d] = Reported(row, consumer[c].answer, ConfirmedCount(d, rows))

\* Each step of an invocation writes to its own delivery only, as its statements say.
LEMMA ConsumerRows ==
  ASSUME RowsTyped, CallsTyped, ReservationsTyped, NEW c \in AllConsumers, Consume(c)
  PROVE  /\ delivery' = [d \in Deliveries |-> delivery'[d]]
         /\ \A d \in Deliveries \ {consumer[c].d} :
              delivery'[d] = delivery[d] /\ reservation'[d] = reservation[d]
         /\ consumer[c].d \in Deliveries => OwnRowAfter(c)
<1>. DEFINE d == consumer[c].d
            Total == delivery' = [x \in Deliveries |-> delivery'[x]]
            Rest == \A x \in Deliveries \ {d} :
                      delivery'[x] = delivery[x] /\ reservation'[x] = reservation[x]
            Goal == Total /\ Rest /\ (d \in Deliveries => OwnRowAfter(c))
<1>. USE DEF RowsTyped
<1>1. CASE UNCHANGED <<delivery, reservation>>
  BY <1>1 DEF OwnRowAfter
<1>2. CASE RecordUnnamedError(c) \/ RecordError(c)
  <2>1. d \in Deliveries /\ UNCHANGED reservation
    BY <1>2 DEF CallsTyped, InvocationsAreNamed, RecordUnnamedError, RecordError
  <2>2. \/ delivery' = delivery
        \/ Open(d) /\ delivery' = [delivery EXCEPT ![d].error = TRUE]
        \/ delivery' = [delivery EXCEPT ![d].error = @]
    <3>1. CASE RecordUnnamedError(c)
      BY <3>1, Zenon DEF RecordUnnamedError
    <3>2. CASE RecordError(c) /\ MayRecordError(d, consumer[c].number)
      BY <3>2, Zenon DEF RecordError, MayRecordError
    <3>3. CASE RecordError(c) /\ ~MayRecordError(d, consumer[c].number)
      BY <3>3, Zenon DEF RecordError
    <3>. QED  BY <1>2, <3>1, <3>2, <3>3
  <2>3. Total /\ Rest
    BY <2>1, <2>2
  <2>4. delivery'[d] = delivery[d] \/ (Open(d) /\ delivery'[d] = Flagged(delivery[d], TRUE))
    <3>1. [delivery[d] EXCEPT !.error = @] = delivery[d]
      BY <2>1 DEF RowOK, DeliveryRow
    <3>. QED  BY <2>1, <2>2, <3>1 DEF Flagged
  <2>. QED  BY <1>2, <2>1, <2>3, <2>4, Zenon DEF OwnRowAfter
<1>3. CASE Undo(c)
  <2>. DEFINE rows == Undone(reservation[d], consumer[c].number)
  <2>1. d \in Deliveries
    BY <1>3 DEF CallsTyped, InvocationsAreNamed, Undo
  <2>2. /\ reservation' = [reservation EXCEPT ![d] = rows]
        /\ delivery' = IF delivery[d].status = "deleted" THEN delivery
                       ELSE [delivery EXCEPT ![d].count = Recount(d, rows)]
    BY <1>3, Zenon DEF Undo, Undone
  <2>. HIDE DEF rows, d
  <2>3. reservation'[d] = rows
    BY <2>1, <2>2 DEF ReservationsTyped
  <2>4. Total /\ Rest
    BY <2>2 DEF ReservationsTyped
  <2>5. \/ delivery[d].status = "deleted" /\ delivery'[d] = delivery[d]
        \/ delivery[d].status # "deleted" /\ delivery'[d] = Counted(delivery[d], Recount(d, rows))
    BY <2>1, <2>2 DEF Counted
  <2>. QED  BY <1>3, <2>3, <2>4, <2>5, Zenon DEF OwnRowAfter, d, rows
<1>4. CASE Reserve(c)
  <2>. DEFINE rows == [reservation[d] EXCEPT ![NextNumber(d)] = "reserved"]
  <2>1. d \in Deliveries /\ Open(d) /\ NextNumber(d) \in Numbers
    BY <1>4 DEF CallsTyped, InvocationsAreNamed, Reserve
  <2>2. /\ reservation' = [reservation EXCEPT ![d] = rows]
        /\ delivery' = [delivery EXCEPT ![d] = [@ EXCEPT !.count = Recount(d, rows), !.error = FALSE]]
    BY <1>4, Zenon DEF Reserve
  <2>. HIDE DEF rows, d
  <2>3. reservation'[d] = rows
    BY <2>1, <2>2 DEF ReservationsTyped
  <2>4. Total /\ Rest
    BY <2>2 DEF ReservationsTyped
  <2>5. delivery'[d] = Cleared(delivery[d], Recount(d, rows))
    BY <2>1, <2>2 DEF Cleared
  <2>. QED  BY <1>4, <2>1, <2>3, <2>4, <2>5, Zenon DEF OwnRowAfter, d, rows
<1>5. CASE Report(c) \/ MarkInvoked(c)
  <2>. DEFINE answer == consumer[c].answer
              n == ConfirmedCount(d, Marked(c))
  <2>1. d \in Deliveries
    BY <1>5 DEF CallsTyped, InvocationsAreNamed, Report, MarkInvoked
  <2>2. /\ reservation' = [reservation EXCEPT ![d] = Marked(c)]
        /\ \/ delivery' = delivery
           \/ /\ Report(c) /\ NoOtherResult(d, answer)
              /\ delivery' = [delivery EXCEPT ![d] =
                   [@ EXCEPT !.result = answer, !.status = "queued", !.lease = "none",
                             !.error = FALSE, !.count = n]]
    BY <1>5, Zenon DEF Report, MarkInvoked
  <2>3. reservation'[d] = Marked(c) /\ n = ConfirmedCount(d, reservation'[d])
    BY <2>1, <2>2 DEF ReservationsTyped
  <2>. HIDE DEF n, d, answer
  <2>4. Total /\ Rest
    BY <2>2 DEF ReservationsTyped
  <2>5. \/ delivery'[d] = delivery[d]
        \/ /\ Report(c) /\ NoOtherResult(d, answer)
           /\ delivery'[d] = Reported(delivery[d], answer, n)
    BY <2>1, <2>2 DEF Reported
  <2>. QED  BY <1>5, <2>3, <2>4, <2>5, Zenon DEF OwnRowAfter, d, answer
<1>. QED
  <2>1. \/ UNCHANGED <<delivery, reservation>>
        \/ RecordUnnamedError(c) \/ RecordError(c) \/ Undo(c) \/ Reserve(c) \/ Report(c)
              \/ MarkInvoked(c)
    BY Zenon DEF Consume, Receive, PrepareFails, Refuse, ReserveFails, ObservationFails,
       CallTarget,
       TargetAnswers, CallFails, CheckReceipt, ReportFails, RetryMessage, ConsumerDies
  <2>. QED  BY <1>1, <1>2, <1>3, <1>4, <1>5, <2>1, Zenon

\* Every step does to every row one of the things listed above.
LEMMA RowsAfter ==
  ASSUME RowsTyped, CallsTyped, ReservationsTyped, [Next]_vars
  PROVE  delivery' = [d \in Deliveries |-> delivery'[d]] /\ \A d \in Deliveries : RowAfter(d)
<1>. DEFINE Total == delivery' = [d \in Deliveries |-> delivery'[d]]
            Goal == Total /\ \A d \in Deliveries : RowAfter(d)
<1>. USE DEF RowsTyped
<1>1. CASE UNCHANGED delivery
  BY <1>1 DEF RowAfter
<1>2. CASE Elapse
  <2>1. Total /\ \A d \in Deliveries : delivery'[d] = Aged(delivery[d])
    BY <1>2 DEF Elapse, Aged
  <2>. QED  BY <1>2, <2>1, Zenon DEF RowAfter
<1>3. ASSUME NEW d \in Deliveries, Materialize(d) PROVE Goal
  <2>1. PICK st \in {"pending", "skipped"} : delivery' = [delivery EXCEPT ![d].status = st]
    BY <1>3 DEF Materialize
  <2>2. Total /\ delivery'[d] = Intended(delivery[d], st)
          /\ \A x \in Deliveries \ {d} : delivery'[x] = delivery[x]
    BY <2>1 DEF Intended
  <2>3. delivery[d].status = "none"
    BY <1>3 DEF Materialize
  <2>. QED  BY <1>3, <2>2, <2>3, Zenon DEF RowAfter
<1>4. ASSUME NEW s \in Senders, NEW some \in SUBSET Deliveries, ClaimMany(s, some) PROVE Goal
  <2>1. Total /\ \A x \in Deliveries :
          delivery'[x] = IF x \in some THEN Claimed(delivery[x], s) ELSE delivery[x]
    BY <1>4 DEF ClaimMany, Claimed
  <2>. QED  BY <1>4, <2>1, Zenon DEF RowAfter
<1>5. ASSUME NEW s \in Senders, Finishes(s) PROVE Goal
  <2>1. ASSUME NEW rows, NEW ok, delivery' = Finished(s, rows, ok) PROVE Goal
    <3>1. Total /\ \A x \in Deliveries :
            \/ delivery'[x] = delivery[x]
            \/ /\ delivery[x].status = "sending" /\ delivery[x].lease = s
               /\ \E st \in {"queued", "unknown"} : delivery'[x] = Settled(delivery[x], st)
      BY <2>1 DEF Finished, Settled
    <3>. QED  BY <1>5, <3>1, Zenon DEF RowAfter
  <2>2. UNCHANGED delivery \/ \E rows, ok : delivery' = Finished(s, rows, ok)
    BY <1>5, Zenon DEF Finishes, FinishAccepted, FinishThrows, FinishFailed
  <2>. QED  BY <1>1, <2>1, <2>2, Zenon
<1>6. ASSUME NEW s \in Senders, EndRun(s) PROVE Goal
  <2>1. Total /\ \A x \in Deliveries :
          \/ delivery'[x] = delivery[x]
          \/ /\ delivery[x].status \in {"queued", "skipped"} /\ delivery'[x] = Forgotten
             /\ reservation'[x] = [n \in Numbers |-> "none"]
    BY <1>6 DEF EndRun, Forgotten
  <2>. QED  BY <1>6, <2>1, Zenon DEF RowAfter
<1>7. ASSUME NEW s \in Senders, SenderDies(s) PROVE Goal
  <2>1. Total /\ \A x \in Deliveries :
          delivery'[x] = IF delivery[x].lease = s THEN Abandoned(delivery[x]) ELSE delivery[x]
    BY <1>7 DEF SenderDies, DropLease, Abandoned
  <2>. QED  BY <1>7, <2>1, Zenon DEF RowAfter
<1>8. ASSUME NEW c \in AllConsumers, ConsumerChangesRow(c) PROVE Goal
  <2>1. Consume(c)
    BY <1>8, Zenon DEF ConsumerChangesRow, Consume
  <2>2. /\ Total /\ \A x \in Deliveries \ {consumer[c].d} : delivery'[x] = delivery[x]
        /\ consumer[c].d \in Deliveries => OwnRowAfter(c)
    BY <2>1, ConsumerRows, Zenon
  <2>3. consumer[c].d \in Deliveries => RowAfter(consumer[c].d)
    BY <2>2, Zenon DEF OwnRowAfter, RowAfter
  <2>. QED  BY <2>2, <2>3, Zenon DEF RowAfter
<1>. QED  BY <1>1, <1>2, <1>3, <1>4, <1>5, <1>6, <1>7, <1>8, DeliveryFrame, Zenon
          DEF ProducerChangesRow, Finishes

\* Rows keep their shape.
LEMMA RowsStep ==
  ASSUME RowsTyped, CallsTyped, ReservationsTyped, [Next]_vars PROVE RowsTyped'
<1>1. ASSUME NEW d \in Deliveries PROVE RowOK(delivery'[d])
  <2>1. RowOK(delivery[d]) /\ RowAfter(d)
    BY RowsAfter, Zenon DEF RowsTyped
  <2>2. \A n : Recount(d, n) \in Nat \cup {UnknownCount}
          /\ ConfirmedCount(d, n) \in Nat \cup {UnknownCount}
    BY <2>1, RecountTyped DEF ConfirmedCount, RowOK, DeliveryRow
  <2>3. \A c \in AllConsumers : Report(c) => consumer[c].answer \in {"succeeded", "failed"}
    BY DEF CallsTyped, AnswersAreGiven, Report, Invocation
  <2>4. /\ RowOK(Aged(delivery[d])) /\ RowOK(Forgotten)
        /\ delivery[d].status = "none" =>
             \A st \in {"pending", "skipped"} : RowOK(Intended(delivery[d], st))
        /\ \A s \in Senders : RowOK(Claimed(delivery[d], s))
        /\ \A st \in {"queued", "unknown"} : RowOK(Settled(delivery[d], st))
        /\ \A s \in Senders : delivery[d].lease = s => RowOK(Abandoned(delivery[d]))
        /\ RowOK(Flagged(delivery[d], TRUE))
        /\ \A n \in Nat \cup {UnknownCount} :
              RowOK(Counted(delivery[d], n)) /\ RowOK(Cleared(delivery[d], n))
        /\ \A n \in Nat \cup {UnknownCount}, a \in {"succeeded", "failed"} :
              RowOK(Reported(delivery[d], a, n))
    BY <2>1, RowUpdates, Zenon
  <2>. QED  BY <2>1, <2>2, <2>3, <2>4 DEF RowAfter
<1>. QED  BY <1>1, RowsAfter, Zenon DEF RowsTyped

-----------------------------------------------------------------------------
ConsumerChangesReservation(c) == Reserve(c) \/ Undo(c) \/ Report(c) \/ MarkInvoked(c)
ConsumerChangesMessage(c) ==
  \/ \E d \in Deliveries, i \in Copies : Receive(c, d, i)
  \/ Refuse(c) \/ Report(c) \/ RetryMessage(c) \/ ConsumerDies(c)

\* Which steps write to runs, invocations, attempts and messages.
LEMMA Frames ==
  ASSUME [Next]_vars
  PROVE  /\ UNCHANGED sender \/ Elapse \/ \E s \in Senders : Produce(s)
         /\ UNCHANGED consumer \/ \E c \in AllConsumers : Consume(c)
         /\ \/ UNCHANGED reservation
            \/ \E s \in Senders : EndRun(s)
            \/ \E c \in AllConsumers : ConsumerChangesReservation(c)
         /\ \/ UNCHANGED message
            \/ \E s \in Senders : QueueAccepts(s) \/ SendFails(s)
            \/ \E d \in Deliveries, i \in Copies : MessageArrives(d, i) \/ MessageLost(d, i)
            \/ \E c \in AllConsumers : ConsumerChangesMessage(c)
<1>1. ASSUME NEW s \in Senders, Produce(s)
      PROVE  /\ UNCHANGED consumer /\ (UNCHANGED reservation \/ EndRun(s))
             /\ UNCHANGED message \/ QueueAccepts(s) \/ SendFails(s)
  BY <1>1, Zenon DEF Produce, BeginRun, BuildFails, HaltRun, QueueAccepts, SendFails, SendChunk,
     ClaimMany, FinishAccepted, FinishThrows, FinishFailed, EndRun, SenderDies
<1>2. ASSUME NEW c \in AllConsumers, Consume(c)
      PROVE  /\ UNCHANGED sender /\ (UNCHANGED reservation \/ ConsumerChangesReservation(c))
             /\ UNCHANGED message \/ ConsumerChangesMessage(c)
  BY <1>2, Zenon DEF Consume, ConsumerChangesReservation, ConsumerChangesMessage, Receive,
     PrepareFails, Refuse, RecordUnnamedError, Reserve,
     ReserveFails, Undo, ObservationFails, CallTarget, TargetAnswers, CallFails, CheckReceipt, Report,
     ReportFails, MarkInvoked, RecordError, RetryMessage, ConsumerDies
<1>3. ASSUME NEW d \in Deliveries, Materialize(d) \/ OrphanRuns(d)
               \/ \E i \in Copies : MessageArrives(d, i) \/ MessageLost(d, i)
      PROVE UNCHANGED <<sender, consumer, reservation>>
  BY <1>3, Zenon DEF Materialize, OrphanRuns, MessageArrives, MessageLost
<1>4. ASSUME NEW d \in Deliveries, Materialize(d) \/ OrphanRuns(d) PROVE UNCHANGED message
  BY <1>4, Zenon DEF Materialize, OrphanRuns
<1>5. CASE Switch BY <1>5, Zenon DEF Switch
<1>6. CASE Elapse BY <1>6, Zenon DEF Elapse
<1>7. CASE UNCHANGED vars BY <1>7, Zenon DEF vars
<1>. QED BY <1>1, <1>2, <1>3, <1>4, <1>5, <1>6, <1>7, Zenon DEF Next

\* What the statements of the code make of a run.
LEMMA RunUpdates ==
  ASSUME NEW r \in Run, NEW p \in {"ready", "claimed", "sending", "ending"},
         NEW rows \in SUBSET Deliveries, NEW chunk \in SUBSET Deliveries
  PROVE  /\ [r EXCEPT !.phase = p, !.rows = rows] \in Run
         /\ [r EXCEPT !.phase = p, !.chunk = chunk] \in Run
         /\ [r EXCEPT !.phase = p, !.rows = rows, !.chunk = chunk] \in Run
         /\ [r EXCEPT !.left = Less(r.left)] \in Run
         /\ [NoRun EXCEPT !.phase = p, !.left = WallBudget] \in Run
         /\ NoRun \in Run
<1>1. Less(r.left) \in Nat
  BY DEF Run, Less
<1>2. \A left \in Nat : [r EXCEPT !.left = left] \in Run
  BY DEF Run
<1>3. [NoRun EXCEPT !.phase = p, !.left = WallBudget] \in Run /\ NoRun \in Run
  BY DEF Run, NoRun
<1>4. /\ [r EXCEPT !.phase = p, !.rows = rows] \in Run
      /\ [r EXCEPT !.phase = p, !.chunk = chunk] \in Run
      /\ [r EXCEPT !.phase = p, !.rows = rows, !.chunk = chunk] \in Run
  BY DEF Run
<1>. QED  BY <1>1, <1>2, <1>3, <1>4

\* Runs keep their shape.
LEMMA RunsStep ==
  ASSUME RunsTyped, [Next]_vars PROVE RunsTyped'
<1>. USE DEF RunsTyped
<1>1. CASE UNCHANGED sender
  BY <1>1
<1>2. CASE Elapse
  <2>1. \A s \in Senders : [sender[s] EXCEPT !.left = Less(sender[s].left)] \in Run
    BY RunUpdates
  <2>. QED  BY <1>2, <2>1 DEF Elapse
<1>3. ASSUME NEW s \in Senders, Produce(s) PROVE RunsTyped'
  <2>1. ASSUME NEW r \in Run, sender' = [sender EXCEPT ![s] = r] PROVE RunsTyped'
    BY <2>1
  <2>2. sender[s] \in Run /\ sender[s].rows \in SUBSET Deliveries
          /\ sender[s].chunk \in SUBSET Deliveries
    BY DEF Run
  <2>3. ASSUME NEW some \in SUBSET Deliveries, ClaimMany(s, some) PROVE RunsTyped'
    BY <2>1, <2>2, <2>3, RunUpdates DEF ClaimMany
  <2>4. ASSUME NEW some \in SUBSET Deliveries, SendChunk(s, some) PROVE RunsTyped'
    BY <2>1, <2>2, <2>4, RunUpdates DEF SendChunk
  <2>5. CASE FinishAccepted(s)
    <3>. DEFINE rest == sender[s].rows \ sender[s].chunk
    <3>. DEFINE p == IF rest = {} THEN "ready" ELSE "claimed"
                chunk == IF rest = {} THEN {} ELSE sender[s].chunk
    <3>1. sender' = [sender EXCEPT ![s] =
             [sender[s] EXCEPT !.phase = p, !.rows = rest, !.chunk = chunk]]
      BY <2>5, Zenon DEF FinishAccepted
    <3>2. p \in {"ready", "claimed"} /\ chunk \in SUBSET Deliveries /\ rest \in SUBSET Deliveries
      BY <2>2
    <3>. HIDE DEF p, chunk, rest
    <3>3. [sender[s] EXCEPT !.phase = p, !.rows = rest, !.chunk = chunk] \in Run
      BY <2>2, <3>2, RunUpdates
    <3>. QED  BY <2>1, <3>1, <3>3
  <2>6. CASE BeginRun(s)
    BY <2>1, <2>6, RunUpdates DEF BeginRun
  <2>7. CASE EndRun(s) \/ SenderDies(s)
    BY <2>1, <2>7, RunUpdates DEF EndRun, SenderDies
  <2>8. CASE FinishFailed(s)
    BY <2>1, <2>2, <2>8, RunUpdates DEF FinishFailed
  <2>9. CASE QueueAccepts(s) \/ SendFails(s) \/ BuildFails(s) \/ HaltRun(s) \/ FinishThrows(s)
    <3>1. \E p \in {"accepted", "failing"} : sender' = [sender EXCEPT ![s].phase = p]
      BY <2>9, Zenon DEF QueueAccepts, SendFails, BuildFails, HaltRun, FinishThrows
    <3>. QED  BY <3>1 DEF Run
  <2>. QED  BY <1>3, <2>3, <2>4, <2>5, <2>6, <2>7, <2>8, <2>9, Zenon DEF Produce
<1>. QED  BY <1>1, <1>2, <1>3, Frames

\* Attempts keep their shape.
LEMMA ReservationsStep ==
  ASSUME ReservationsTyped, CallsTyped, [Next]_vars PROVE ReservationsTyped'
<1>. USE DEF ReservationsTyped
<1>1. CASE UNCHANGED reservation BY <1>1
<1>2. ASSUME NEW s \in Senders, EndRun(s) PROVE ReservationsTyped'
  BY <1>2 DEF EndRun
<1>3. ASSUME NEW c \in AllConsumers, Reserve(c) \/ Undo(c) PROVE ReservationsTyped'
  <2>1. CASE Reserve(c)
    BY <2>1 DEF Reserve
  <2>2. CASE Undo(c)
    BY <2>2 DEF Undo
  <2>. QED  BY <1>3, <2>1, <2>2
<1>4. ASSUME NEW c \in AllConsumers, Report(c) \/ MarkInvoked(c) PROVE ReservationsTyped'
  <2>1. consumer[c].d \in Deliveries
          /\ reservation' = [reservation EXCEPT ![consumer[c].d] = Marked(c)]
    BY <1>4, Zenon DEF Report, MarkInvoked, CallsTyped, InvocationsAreNamed
  <2>2. Marked(c) \in [Numbers -> {"none", "reserved", "invoked"}]
    BY <2>1 DEF Marked
  <2>. QED  BY <2>1, <2>2
<1>. QED BY <1>1, <1>2, <1>3, <1>4, Frames DEF ConsumerChangesReservation

\* What the Queue makes of a message.
LEMMA MessageUpdates ==
  ASSUME NEW m \in Message, NEW p \in {"floating", "queued", "held"}
  PROVE  /\ [m EXCEPT !.place = p] \in Message
         /\ m.tries < MaxTries => [place |-> p, tries |-> m.tries + 1] \in Message
         /\ [place |-> p, tries |-> 0] \in Message
         /\ NoMessage \in Message
BY DEF Message, NoMessage

\* Messages keep their shape.
LEMMA MessagesStep ==
  ASSUME MessagesTyped, [Next]_vars PROVE MessagesTyped'
<1>. USE DEF MessagesTyped
<1>1. CASE UNCHANGED message
  BY <1>1
<1>2. ASSUME NEW s \in Senders, QueueAccepts(s) \/ SendFails(s) PROVE MessagesTyped'
  <2>1. ASSUME NEW at, NEW place, \A d \in at : place[d] \in {"queued", "floating"},
               message' = Enqueued(at, place) PROVE MessagesTyped'
    <3>1. \A d \in Deliveries : d \in at => [place |-> place[d], tries |-> 0] \in Message
      BY <2>1, MessageUpdates DEF Message
    <3>2. \A d \in Deliveries :
            \/ message'[d] = message[d]
            \/ \E i : message'[d] = [message[d] EXCEPT ![i] = [place |-> place[d], tries |-> 0]] /\ d \in at
      BY <2>1 DEF Enqueued
    <3>3. message' = [d \in Deliveries |-> message'[d]]
      BY <2>1 DEF Enqueued
    <3>. QED  BY <3>1, <3>2, <3>3
  <2>2. CASE QueueAccepts(s)
    <3>1. message' = Enqueued(sender[s].chunk, [d \in sender[s].chunk |-> "queued"])
      BY <2>2 DEF QueueAccepts
    <3>. QED  BY <2>1, <3>1
  <2>3. CASE SendFails(s)
    <3>1. PICK some : \E place \in [some -> {"queued", "floating"}] : message' = Enqueued(some, place)
      BY <2>3, Zenon DEF SendFails
    <3>. QED  BY <2>1, <3>1
  <2>. QED  BY <1>2, <2>2, <2>3
<1>3. ASSUME NEW d, NEW i, NEW m \in Message, message' = [message EXCEPT ![d][i] = m]
               PROVE MessagesTyped'
  BY <1>3
<1>4. ASSUME NEW d \in Deliveries, NEW i \in Copies, MessageArrives(d, i) \/ MessageLost(d, i)
      PROVE MessagesTyped'
  <2>1. message[d][i] \in Message
    OBVIOUS
  <2>2. CASE MessageArrives(d, i)
    BY <2>1, <2>2, MessageUpdates DEF MessageArrives
  <2>3. CASE MessageLost(d, i)
    BY <2>3, <1>3, <2>1, MessageUpdates DEF MessageLost
  <2>. QED  BY <1>4, <2>2, <2>3
<1>5. ASSUME NEW c \in AllConsumers, NEW d \in Deliveries, NEW i \in Copies, Receive(c, d, i)
      PROVE MessagesTyped'
  <2>1. message[d][i] \in Message
    OBVIOUS
  <2>2. PICK p \in {"queued", "held"} :
          message' = [message EXCEPT ![d][i] = [place |-> p, tries |-> @.tries + 1]]
    BY <1>5, Zenon DEF Receive
  <2>. QED  BY <2>1, <2>2, <1>5, <1>3, MessageUpdates DEF Receive
<1>6. ASSUME NEW c \in AllConsumers, Acked(c) \/ Returned(c) PROVE MessagesTyped'
  <2>. DEFINE d == consumer[c].d
              i == consumer[c].copy
  <2>1. NoMessage \in Message
    BY MessageUpdates DEF Message, NoMessage
  <2>2. CASE Acked(c)
    BY <2>1, <2>2, <1>1, <1>3 DEF Acked
  <2>3. CASE Returned(c)
    <3>1. ASSUME d \in Deliveries, i \in Copies PROVE MessagesTyped'
      <4>1. message[d][i] \in Message
        BY <3>1
      <4>. DEFINE m == message[d][i]
                  n == IF m.place # "held" THEN m
                       ELSE IF m.tries < MaxTries THEN [m EXCEPT !.place = "queued"] ELSE NoMessage
      <4>2. n \in Message
        BY <2>1, <4>1, MessageUpdates
      <4>3. message' = [message EXCEPT ![d][i] = n]
        BY <2>3 DEF Returned
      <4>. QED  BY <4>2, <4>3, <1>3
    <3>2. ASSUME d \notin Deliveries \/ i \notin Copies PROVE MessagesTyped'
      <4>. DEFINE m == message[d][i]
                  n == IF m.place # "held" THEN m
                       ELSE IF m.tries < MaxTries THEN [m EXCEPT !.place = "queued"] ELSE NoMessage
      <4>1. message' = [message EXCEPT ![d][i] = n]
        BY <2>3 DEF Returned
      <4>. HIDE DEF n, d, i
      <4>. QED  BY <3>2, <4>1
    <3>. QED  BY <3>1, <3>2
  <2>. QED  BY <1>6, <2>2, <2>3
<1>7. ASSUME NEW c \in AllConsumers, Refuse(c) \/ Report(c) \/ RetryMessage(c) \/ ConsumerDies(c)
      PROVE MessagesTyped'
  BY <1>1, <1>6, <1>7, Zenon DEF Refuse, Report, RetryMessage, ConsumerDies
<1>. QED  BY <1>1, <1>2, <1>4, <1>5, <1>7, Frames DEF ConsumerChangesMessage

-----------------------------------------------------------------------------
Phases == {"idle", "received", "reserved", "undo", "unnamed", "calling", "answered",
           "vouched", "failing", "marked", "retrying"}
CallOK(k) ==
  /\ k \in Invocation
  /\ k.phase # "idle" => k.d \in Deliveries
  /\ k.phase \in {"answered", "vouched"} => k.answer # "none"
\* What the code makes of an invocation.
LEMMA CallUpdates ==
  ASSUME NEW k, CallOK(k)
  PROVE  /\ CallOK(NoInvocation)
         /\ \A d \in Deliveries, i \in Copies :
              CallOK([phase |-> "received", d |-> d, copy |-> i, number |-> 0, answer |-> "none"])
         /\ k.phase # "idle"
               => \A p \in {"reserved", "undo"}, n \in Numbers : CallOK([k EXCEPT !.phase = p,
            !.number = n])
         /\ k.phase # "idle"
               => \A a \in {"succeeded", "failed"} : CallOK([k EXCEPT !.phase = "answered",
            !.answer = a])
         /\ k.phase # "idle"
               => \A p \in {"unnamed", "undo", "calling", "failing", "marked",
            "retrying"} : CallOK([k EXCEPT !.phase = p])
         /\ k.phase = "answered" => CallOK([k EXCEPT !.phase = "vouched"])
<1>. USE DEF CallOK, Invocation
<1>1. CallOK(NoInvocation) 
  BY DEF NoInvocation, Copies
<1>2. ASSUME NEW d \in Deliveries, NEW i \in Copies
               PROVE CallOK([phase |-> "received", d |-> d, copy |-> i, number |-> 0,
   answer |-> "none"])
  OBVIOUS
<1>3. ASSUME k.phase # "idle", NEW p \in {"reserved", "undo"}, NEW n \in Numbers
               PROVE CallOK([k EXCEPT !.phase = p, !.number = n])
  <2>1. n \in 0 .. MaxAttempts
    BY DEF Numbers
  <2>. QED  BY <1>3, <2>1
<1>4. ASSUME k.phase # "idle", NEW a \in {"succeeded", "failed"}
               PROVE CallOK([k EXCEPT !.phase = "answered", !.answer = a])
  BY <1>4
<1>5. ASSUME k.phase # "idle", NEW p \in {"unnamed", "undo", "calling", "failing", "marked", "retrying"}
      PROVE  CallOK([k EXCEPT !.phase = p])
  BY <1>5
<1>6. k.phase = "answered" => CallOK([k EXCEPT !.phase = "vouched"])
  OBVIOUS
<1>. HIDE DEF CallOK
<1>. QED  BY <1>1, <1>2, <1>3, <1>4, <1>5, <1>6

\* Invocations keep their shape; each is about a delivery, and a report has an answer.
LEMMA CallsStep ==
  ASSUME CallsTyped, [Next]_vars PROVE CallsTyped'
<1>1. \A c \in AllConsumers : CallOK(consumer[c])
  BY DEF CallsTyped, CallOK, InvocationsAreNamed, AnswersAreGiven
<1>2. consumer = [c \in AllConsumers |-> consumer[c]]
  BY DEF CallsTyped
<1>3. ASSUME NEW c \in AllConsumers, NEW k, CallOK(k), consumer' = [consumer EXCEPT ![c] = k]
      PROVE  CallsTyped'
  BY <1>1, <1>2, <1>3 DEF CallsTyped, CallOK, InvocationsAreNamed, AnswersAreGiven
<1>4. CASE UNCHANGED consumer
  BY <1>4 DEF CallsTyped, InvocationsAreNamed, AnswersAreGiven
<1>5. ASSUME NEW c \in AllConsumers, Consume(c) PROVE CallsTyped'
  <2>1. /\ CallOK(consumer[c]) /\ CallOK(NoInvocation)
        /\ \A p \in {"unnamed", "undo", "calling", "failing", "marked", "retrying"} :
              consumer[c].phase # "idle" => CallOK([consumer[c] EXCEPT !.phase = p])
    <3>1. \A k : CallOK(k) => /\ CallOK(NoInvocation)
            /\ \A p \in {"unnamed", "undo", "calling", "failing", "marked", "retrying"} :
              k.phase # "idle" => CallOK([k EXCEPT !.phase = p])
      BY SMT DEF CallOK, NoInvocation, Invocation, Copies
    <3>. QED  BY <1>1, <3>1
  <2>2. ASSUME NEW d \in Deliveries, NEW i \in Copies, Receive(c, d, i) PROVE CallsTyped'
    <3>1. CallOK([phase |-> "received", d |-> d, copy |-> i, number |-> 0, answer |-> "none"])
      BY <2>2, <2>1, CallUpdates
    <3>. QED  BY <2>2, <3>1, <1>3, Zenon DEF Receive
  <2>3. CASE Reserve(c)
    <3>1. PICK p \in {"reserved", "undo"}, n \in Numbers :
            consumer' = [consumer EXCEPT ![c] = [@ EXCEPT !.phase = p, !.number = n]]
      BY <2>3, Zenon DEF Reserve
    <3>2. CallOK([consumer[c] EXCEPT !.phase = p, !.number = n])
      BY <2>1, <2>3, CallUpdates DEF Reserve
    <3>. QED  BY <3>1, <3>2, <1>3
  <2>4. CASE TargetAnswers(c)
    <3>1. PICK a \in {"succeeded", "failed"} :
            consumer' = [consumer EXCEPT ![c] = [@ EXCEPT !.phase = "answered", !.answer = a]]
      BY <2>4, Zenon DEF TargetAnswers
    <3>2. CallOK([consumer[c] EXCEPT !.phase = "answered", !.answer = a])
      BY <2>1, <2>4, CallUpdates DEF TargetAnswers
    <3>. QED  BY <3>1, <3>2, <1>3
  <2>5. CASE CheckReceipt(c)
    <3>1. /\ CallOK([consumer[c] EXCEPT !.phase = "vouched"])
          /\ CallOK([consumer[c] EXCEPT !.phase = "failing"])
      BY <2>1, <2>5, CallUpdates DEF CheckReceipt
    <3>2. \/ consumer' = [consumer EXCEPT ![c].phase = "vouched"]
          \/ consumer' = [consumer EXCEPT ![c].phase = "failing"]
      BY <2>5 DEF CheckReceipt
    <3>. QED  BY <3>1, <3>2, <1>3
  <2>6. ASSUME \/ Acked(c) \/ Returned(c)
               \/ /\ consumer[c].phase # "idle"
                  /\ \E p \in {"unnamed", "undo", "calling", "failing", "marked", "retrying"} :
                       consumer' = [consumer EXCEPT ![c].phase = p]
        PROVE CallsTyped'
    BY <2>6, <2>1, <1>3 DEF Acked, Returned
  <2>7. CASE Refuse(c) \/ RetryMessage(c) \/ ConsumerDies(c) 
    BY <2>6, <2>7, Zenon DEF Refuse, RetryMessage, ConsumerDies
  <2>8. CASE Report(c)
    <3>1. Acked(c) \/ consumer' = [consumer EXCEPT ![c].phase = "failing"]
      BY <2>8, Zenon DEF Report
    <3>2. consumer[c].phase # "idle"
      BY <2>8 DEF Report
    <3>. QED  BY <2>6, <3>1, <3>2, Zenon
  <2>9. CASE \/ PrepareFails(c) \/ RecordUnnamedError(c) \/ ReserveFails(c) \/ Undo(c)
                  \/ ObservationFails(c)
             \/ CallTarget(c) \/ CallFails(c) \/ ReportFails(c) \/ MarkInvoked(c)
                   \/ RecordError(c)
    <3>1. /\ consumer[c].phase # "idle" 
          /\ \E p \in {"unnamed", "undo", "calling", "failing", "marked", "retrying"} :
               consumer' = [consumer EXCEPT ![c].phase = p]
      BY <2>9 DEF PrepareFails, RecordUnnamedError, ReserveFails, Undo, ObservationFails,
         CallTarget, CallFails, ReportFails, MarkInvoked, RecordError
    <3>. QED  BY <2>6, <3>1
  <2>. QED  BY <1>5, <2>2, <2>3, <2>4, <2>5, <2>7, <2>8, <2>9 DEF Consume
<1>. QED  BY <1>4, <1>5, Frames

-----------------------------------------------------------------------------
WorldTyped ==
  /\ switches \in 0 .. MaxSwitches
  /\ effective \in BOOLEAN /\ idempotent \in BOOLEAN /\ supported \in BOOLEAN
TargetTyped ==
  /\ effects \in [Deliveries -> Nat]
  /\ orphans \subseteq Deliveries /\ accepted \subseteq Deliveries
  /\ called \in [Deliveries -> SUBSET (0 .. MaxAttempts)]

TypeInv ==
  /\ WorldTyped /\ RowsTyped /\ ReservationsTyped /\ RunsTyped /\ MessagesTyped
  /\ CallsTyped /\ TargetTyped

\* The switches keep their types.
LEMMA WorldStep ==
  ASSUME WorldTyped, [Next]_vars PROVE WorldTyped'
<1>1. CASE Switch
  <2>1. switches' \in 0 .. MaxSwitches
    BY <1>1 DEF Switch, WorldTyped
  <2>2. effective' \in BOOLEAN /\ idempotent' \in BOOLEAN /\ supported' \in BOOLEAN
    BY <1>1, Zenon DEF Switch, WorldTyped
  <2>. QED  BY <2>1, <2>2 DEF WorldTyped
<1>2. ASSUME NEW s \in Senders, Produce(s) PROVE UNCHANGED world
  BY <1>2, Zenon DEF Produce, BeginRun, BuildFails, HaltRun, QueueAccepts, SendFails, SendChunk,
     ClaimMany, FinishAccepted, FinishThrows, FinishFailed, EndRun, SenderDies
<1>3. ASSUME NEW c \in AllConsumers, Consume(c) PROVE UNCHANGED world
  BY <1>3, Zenon DEF Consume, Receive, PrepareFails, Refuse, RecordUnnamedError, Reserve,
     ReserveFails, Undo, ObservationFails, CallTarget, TargetAnswers, CallFails, CheckReceipt, Report,
     ReportFails, MarkInvoked, RecordError, RetryMessage, ConsumerDies
<1>4. ASSUME NEW d \in Deliveries,
             \/ Materialize(d) \/ OrphanRuns(d)
             \/ \E i \in Copies : MessageArrives(d, i) \/ MessageLost(d, i)
      PROVE UNCHANGED world
  BY <1>4, Zenon DEF Materialize, OrphanRuns, MessageArrives, MessageLost
<1>5. Elapse \/ UNCHANGED vars => UNCHANGED world
  BY Zenon DEF Elapse, vars
<1>6. UNCHANGED world => WorldTyped'
  BY DEF world, WorldTyped
<1>. QED  BY <1>1, <1>2, <1>3, <1>4, <1>5, <1>6, Zenon DEF Next

\* The steps that change what the websites have done and what the Queue has had.
ConsumerChangesTarget(c) == CallTarget(c) \/ TargetAnswers(c) \/ CallFails(c) \/ ConsumerDies(c)

\* Which steps write to the history of the websites and of the Queue.
LEMMA TargetFrame ==
  ASSUME [Next]_vars
  PROVE  /\ \/ UNCHANGED target
            \/ \E d \in Deliveries : OrphanRuns(d)
            \/ \E c \in AllConsumers : ConsumerChangesTarget(c)
         /\ \/ UNCHANGED accepted
            \/ \E s \in Senders : QueueAccepts(s) \/ SendFails(s)
            \/ \E d \in Deliveries, i \in Copies : MessageArrives(d, i)
<1>1. ASSUME NEW s \in Senders, Produce(s)
      PROVE  UNCHANGED target /\ (UNCHANGED accepted \/ QueueAccepts(s) \/ SendFails(s))
  BY <1>1, Zenon DEF Produce, BeginRun, BuildFails, HaltRun, QueueAccepts, SendFails, SendChunk,
     ClaimMany, FinishAccepted, FinishThrows, FinishFailed, EndRun, SenderDies
<1>2. ASSUME NEW c \in AllConsumers, Consume(c)
      PROVE  UNCHANGED accepted /\ (UNCHANGED target \/ ConsumerChangesTarget(c))
  BY <1>2, Zenon DEF Consume, ConsumerChangesTarget, Receive, PrepareFails, Refuse,
     RecordUnnamedError, Reserve, ReserveFails, Undo, ObservationFails, CheckReceipt, Report,
     CallTarget, TargetAnswers, CallFails,
     ReportFails, MarkInvoked, RecordError, RetryMessage, ConsumerDies
<1>3. ASSUME NEW d \in Deliveries,
             Materialize(d) \/ \E i \in Copies : MessageLost(d, i)
      PROVE UNCHANGED <<target, accepted>>
  BY <1>3, Zenon DEF Materialize, MessageLost
<1>4. ASSUME NEW d \in Deliveries, NEW i \in Copies, MessageArrives(d, i) PROVE UNCHANGED target
  BY <1>4, Zenon DEF MessageArrives
<1>5. ASSUME NEW d \in Deliveries, OrphanRuns(d) PROVE UNCHANGED accepted
  BY <1>5, Zenon DEF OrphanRuns
<1>6. Switch \/ Elapse \/ UNCHANGED vars => UNCHANGED <<target, accepted>>
  BY Zenon DEF Switch, Elapse, vars
<1>. QED  BY <1>1, <1>2, <1>3, <1>4, <1>5, <1>6, Zenon DEF Next

\* What the websites have done keeps its types.
LEMMA TargetStep ==
  ASSUME TargetTyped, RunsTyped, CallsTyped, [Next]_vars PROVE TargetTyped'
<1>. USE DEF TargetTyped
<1>1. (effects \in [Deliveries -> Nat] /\ orphans \subseteq Deliveries
        /\ called \in [Deliveries -> SUBSET (0 .. MaxAttempts)])'
  <2>1. CASE UNCHANGED target
    BY <2>1 DEF target
  <2>2. ASSUME NEW d \in Deliveries, OrphanRuns(d)
        PROVE (effects \in [Deliveries -> Nat] /\ orphans \subseteq Deliveries
                /\ called \in [Deliveries -> SUBSET (0 .. MaxAttempts)])'
    BY <2>2 DEF OrphanRuns, EffectOnce
  <2>3. ASSUME NEW c \in AllConsumers, ConsumerChangesTarget(c)
        PROVE (effects \in [Deliveries -> Nat] /\ orphans \subseteq Deliveries
                /\ called \in [Deliveries -> SUBSET (0 .. MaxAttempts)])'
    <3>. DEFINE d == consumer[c].d
    <3>1. d \in Deliveries /\ consumer[c].number \in 0 .. MaxAttempts
      BY <2>3 DEF ConsumerChangesTarget, CallTarget, TargetAnswers, CallFails, ConsumerDies,
         CallsTyped, InvocationsAreNamed, Invocation
    <3>2. /\ effects' \in {effects, EffectOnce(d)} /\ orphans' \in {orphans, orphans \cup {d}}
          /\ called' \in {called, [called EXCEPT ![d] = @ \cup {consumer[c].number}]}
      BY <2>3 DEF ConsumerChangesTarget, CallTarget, TargetAnswers, CallFails, ConsumerDies
    <3>. QED  BY <3>1, <3>2 DEF EffectOnce
  <2>. QED  BY <2>1, <2>2, <2>3, TargetFrame
<1>2. (accepted \subseteq Deliveries)'
  <2>1. ASSUME NEW s \in Senders, QueueAccepts(s) \/ SendFails(s)
                 PROVE accepted' \subseteq Deliveries
    <3>1. sender[s].chunk \subseteq Deliveries
      BY DEF RunsTyped, Run
    <3>. QED  BY <2>1, <3>1 DEF QueueAccepts, SendFails
  <2>2. ASSUME NEW d \in Deliveries, NEW i \in Copies, MessageArrives(d, i)
                 PROVE accepted' \subseteq Deliveries
    BY <2>2 DEF MessageArrives
  <2>. QED  BY <2>1, <2>2, TargetFrame
<1>. QED  BY <1>1, <1>2

\* The first state is typed.
LEMMA InitTyped == Init => TypeInv
BY DEF Init, TypeInv, WorldTyped, RowsTyped, RowOK, ReservationsTyped, RunsTyped, MessagesTyped,
   CallsTyped, TargetTyped, InvocationsAreNamed, AnswersAreGiven, NoDelivery, NoRun, NoMessage,
   NoInvocation,
   DeliveryRow, Run, Message, Invocation, Unresolved, Copies

\* The types are inductive: those of one part need the others.
LEMMA TypingStep == TypeInv /\ [Next]_vars => TypeInv'
BY WorldStep, RowsStep, ReservationsStep, RunsStep, MessagesStep, CallsStep,
   TargetStep DEF TypeInv

\* The parts say what TypeOK says.
LEMMA TypesHold == TypeInv => TypeOK
BY DEF TypeInv, TypeOK, WorldTyped, RowsTyped, RowOK, ReservationsTyped, RunsTyped,
   MessagesTyped, CallsTyped, TargetTyped

\* In every reachable state rows, runs, messages and invocations have the shape the
\* schema gives them, and a lease is held by the rows that are being sent.
THEOREM TypeCorrectness == Spec => []TypeOK
BY InitTyped, TypingStep, TypesHold, PTL DEF Spec

-----------------------------------------------------------------------------
\* The fields that an update of a row leaves alone.
LEMMA AgedFields ==
  ASSUME NEW r, RowOK(r)
  PROVE  /\ Aged(r).status = r.status /\ Aged(r).lease = r.lease /\ Aged(r).result = r.result
         /\ Aged(r).count = r.count /\ Aged(r).error = r.error /\ Aged(r).timer = Less(r.timer)
BY Zenon DEF RowOK, DeliveryRow, Aged

\* A new row.
LEMMA IntendedFields ==
  ASSUME NEW r, RowOK(r), NEW st
  PROVE  /\ Intended(r, st).status = st /\ Intended(r, st).lease = r.lease
         /\ Intended(r, st).result = r.result /\ Intended(r, st).count = r.count
         /\ Intended(r, st).error = r.error
BY Zenon DEF RowOK, DeliveryRow, Intended

\* claimMany.
LEMMA ClaimedFields ==
  ASSUME NEW r, RowOK(r), NEW s
  PROVE  /\ Claimed(r, s).status = "sending" /\ Claimed(r, s).lease = s
         /\ Claimed(r, s).timer = LeaseTime /\ Claimed(r, s).result = r.result
         /\ Claimed(r, s).count = r.count /\ Claimed(r, s).error = r.error
BY Zenon DEF RowOK, DeliveryRow, Claimed

\* finish.
LEMMA SettledFields ==
  ASSUME NEW r, RowOK(r), NEW st
  PROVE  /\ Settled(r, st).status = st /\ Settled(r, st).lease = "none"
         /\ Settled(r, st).result = r.result /\ Settled(r, st).count = r.count
         /\ Settled(r, st).error = r.error
BY Zenon DEF RowOK, DeliveryRow, Settled

\* A dead sender.
LEMMA AbandonedFields ==
  ASSUME NEW r, RowOK(r)
  PROVE  /\ Abandoned(r).status = r.status /\ Abandoned(r).lease = "stale"
         /\ Abandoned(r).result = r.result /\ Abandoned(r).count = r.count
         /\ Abandoned(r).error = r.error
BY Zenon DEF RowOK, DeliveryRow, Abandoned

\* cleanup.
LEMMA ForgottenFields ==
  /\ Forgotten.status = "deleted" /\ Forgotten.lease = "none" /\ Forgotten.result = "none"
  /\ Forgotten.count = 0 /\ ~Forgotten.error
BY Zenon DEF Forgotten, NoDelivery

\* consumerNotStarted.
LEMMA CountedFields ==
  ASSUME NEW r, RowOK(r), NEW n
  PROVE  /\ Counted(r, n).status = r.status /\ Counted(r, n).lease = r.lease
         /\ Counted(r, n).timer = r.timer /\ Counted(r, n).result = r.result
         /\ Counted(r, n).count = n /\ Counted(r, n).error = r.error
BY Zenon DEF RowOK, DeliveryRow, Counted

\* consumerStarted.
LEMMA ClearedFields ==
  ASSUME NEW r, RowOK(r), NEW n
  PROVE  /\ Cleared(r, n).status = r.status /\ Cleared(r, n).lease = r.lease
         /\ Cleared(r, n).timer = r.timer /\ Cleared(r, n).result = r.result
         /\ Cleared(r, n).count = n /\ ~Cleared(r, n).error
BY Zenon DEF RowOK, DeliveryRow, Cleared

\* consumerFailed.
LEMMA FlaggedFields ==
  ASSUME NEW r, RowOK(r), NEW e
  PROVE  /\ Flagged(r, e).status = r.status /\ Flagged(r, e).lease = r.lease
         /\ Flagged(r, e).timer = r.timer /\ Flagged(r, e).result = r.result
         /\ Flagged(r, e).count = r.count /\ Flagged(r, e).error = e
BY Zenon DEF RowOK, DeliveryRow, Flagged

\* report.
LEMMA ReportedFields ==
  ASSUME NEW r, RowOK(r), NEW a, NEW n
  PROVE  /\ Reported(r, a, n).status = "queued" /\ Reported(r, a, n).lease = "none"
         /\ Reported(r, a, n).result = a /\ Reported(r, a, n).count = n
         /\ ~Reported(r, a, n).error
BY Zenon DEF RowOK, DeliveryRow, Reported

\* A step of one run leaves the others alone, and moves its own.
LEMMA RunFrame ==
  ASSUME RunsTyped, NEW s \in Senders, Produce(s)
  PROVE  /\ \A x \in Senders \ {s} : sender'[x] = sender[x]
         /\ Finishes(s) \/ SenderDies(s) => sender'[s].phase # sender[s].phase
<1>. USE DEF RunsTyped, Run
<1>1. \E r : sender' = [sender EXCEPT ![s] = r]
  <2>1. \A p : [sender EXCEPT ![s].phase = p] = [sender EXCEPT ![s] = [@ EXCEPT !.phase = p]]
    OBVIOUS
  <2>. QED  BY <2>1, Zenon DEF Produce, BeginRun, BuildFails, HaltRun, QueueAccepts, SendFails,
     SendChunk, ClaimMany, FinishAccepted, FinishThrows, FinishFailed, EndRun, SenderDies
<1>2. Finishes(s) \/ SenderDies(s) => sender'[s].phase # sender[s].phase
  <2>1. CASE FinishAccepted(s)
    BY <2>1 DEF FinishAccepted
  <2>2. CASE FinishThrows(s)
    BY <2>2 DEF FinishThrows
  <2>3. CASE FinishFailed(s)
    BY <2>3 DEF FinishFailed
  <2>4. CASE SenderDies(s)
    BY <2>4 DEF SenderDies, NoRun
  <2>. QED  BY <2>1, <2>2, <2>3, <2>4 DEF Finishes
<1>. QED  BY <1>1, <1>2

Sending(s) == sender[s].phase \in {"claimed", "sending", "accepted"}
\* A row of a batch is still its sender's, for as long as the batch runs; or a
\* consumer has settled it meanwhile; or the batch is over.
RowIsOwn(s, d) ==
  \/ sender[s].left = 0
  \/ delivery[d].lease = s /\ delivery[d].timer >= sender[s].left
  \/ delivery[d].lease = "none" /\ delivery[d].status \in {"queued", "deleted"}
BatchIsOwn(s) ==
  /\ sender[s].left =< WallBudget
  /\ sender[s].phase \in {"sending", "accepted"} => sender[s].chunk \subseteq sender[s].rows
  /\ Sending(s) => \A d \in sender[s].rows : RowIsOwn(s, d)
LeaseOutlives == \A s \in Senders : BatchIsOwn(s)

\* The rows of a batch stay its own while its 40 seconds last: the lease of a claim is
\* longer, only a row whose lease is over can be claimed, and nobody else finishes it.
LEMMA LeaseStep ==
  ASSUME TypeInv, LeaseOutlives, [Next]_vars PROVE LeaseOutlives'
<1>. USE DEF TypeInv
<1>. SUFFICES ASSUME NEW s \in Senders
              PROVE  BatchIsOwn(s)'
  BY DEF LeaseOutlives
<1>1. /\ sender[s].left \in Nat /\ sender[s].left =< WallBudget
      /\ sender[s].rows \subseteq Deliveries /\ sender[s].chunk \subseteq Deliveries
      /\ sender[s].phase \in {"sending", "accepted"} => sender[s].chunk \subseteq sender[s].rows
      /\ Sending(s) => \A d \in sender[s].rows : RowIsOwn(s, d)
  BY DEF LeaseOutlives, BatchIsOwn, RunsTyped, Run
<1>2. \A d \in Deliveries : RowOK(delivery[d]) /\ RowAfter(d) /\ delivery[d].timer \in Nat
  BY RowsAfter DEF RowsTyped, RowOK, DeliveryRow
<1>3. CASE Elapse
  <2>1. /\ sender'[s].left = Less(sender[s].left) /\ sender'[s].rows = sender[s].rows
        /\ sender'[s].phase = sender[s].phase /\ sender'[s].chunk = sender[s].chunk
    BY <1>3 DEF Elapse, RunsTyped, Run
  <2>2. ASSUME NEW d \in Deliveries, RowIsOwn(s, d) PROVE RowIsOwn(s, d)'
    <3>1. delivery'[d] = Aged(delivery[d])
      BY <1>3 DEF Elapse, Aged
    <3>2. /\ delivery'[d].lease = delivery[d].lease /\ delivery'[d].status = delivery[d].status
          /\ delivery'[d].timer = Less(delivery[d].timer)
      BY <1>2, <3>1, AgedFields
    <3>. QED  BY <1>1, <1>2, <2>1, <2>2, <3>2 DEF RowIsOwn, Less
  <2>. QED  BY <1>1, <2>1, <2>2 DEF Less, Sending, BatchIsOwn
<1>4. ASSUME ~Elapse, sender'[s] = sender[s] PROVE
            \A d \in sender[s].rows : Sending(s) => RowIsOwn(s, d)'
  <2>. SUFFICES ASSUME NEW d \in sender[s].rows, RowIsOwn(s, d), sender[s].left # 0
                PROVE  RowIsOwn(s, d)'
    BY <1>1, <1>4 DEF RowIsOwn
  <2>1. ~Finishes(s) /\ ~SenderDies(s)
    BY <1>4, RunFrame DEF Produce, Finishes
  <2>2. RowOK(delivery[d]) /\ RowAfter(d) /\ d \in Deliveries
    BY <1>1, <1>2
  <2>3. \/ delivery[d].lease = s /\ delivery[d].status = "sending" /\ delivery[d].timer # 0
        \/ delivery[d].lease = "none" /\ delivery[d].status \in {"queued", "deleted"}
    BY <1>1, <2>2 DEF RowIsOwn, RowOK
  <2>4. \A x \in Senders, some \in SUBSET Deliveries : d \in some => ~ClaimMany(x, some)
    BY <2>3 DEF ClaimMany, Claimable, Unresolved
  <2>5. \/ /\ delivery'[d].lease = delivery[d].lease /\ delivery'[d].status = delivery[d].status
           /\ delivery'[d].timer = delivery[d].timer
        \/ delivery'[d].lease = "none" /\ delivery'[d].status \in {"queued", "deleted"}
    <3>1. delivery[d].status # "none" /\ \A x \in Senders : delivery[d].lease = x => x = s
      BY <2>3
    <3>. DEFINE n == Recount(d, reservation'[d])
                m == ConfirmedCount(d, reservation'[d])
    <3>2. \/ delivery'[d] \in {delivery[d], Forgotten, Flagged(delivery[d], TRUE)}
          \/ delivery'[d] \in {Counted(delivery[d], n), Cleared(delivery[d], n)}
          \/ \E c \in AllConsumers : delivery'[d] = Reported(delivery[d], consumer[c].answer, m)
      BY <1>4, <2>1, <2>2, <2>4, <3>1, Zenon DEF RowAfter
    <3>. HIDE DEF n, m
    <3>3. /\ Flagged(delivery[d], TRUE).status = delivery[d].status
          /\ Flagged(delivery[d], TRUE).lease = delivery[d].lease
          /\ Flagged(delivery[d], TRUE).timer = delivery[d].timer
      BY <2>2, FlaggedFields
    <3>4. CASE delivery'[d] \in {Counted(delivery[d], n), Cleared(delivery[d], n)}
      BY <2>2, <3>4, CountedFields, ClearedFields
    <3>5. ASSUME NEW c \in AllConsumers,
                 delivery'[d] = Reported(delivery[d], consumer[c].answer, m)
          PROVE  delivery'[d].lease = "none" /\ delivery'[d].status = "queued"
      BY <2>2, <3>5, ReportedFields
    <3>6. CASE delivery'[d] \in {delivery[d], Forgotten, Flagged(delivery[d], TRUE)}
      BY <3>3, <3>6, ForgottenFields
    <3>. QED  BY <3>2, <3>4, <3>5, <3>6, Zenon
  <2>. QED  BY <1>4, <2>5 DEF RowIsOwn
<1>5. CASE Produce(s) 
  <2>1. ASSUME NEW some \in SUBSET Deliveries, ClaimMany(s, some)
        PROVE  /\ sender'[s].left = sender[s].left /\ sender'[s].rows = some
                /\ sender'[s].phase = "claimed"
               /\ \A d \in some : delivery'[d].lease = s /\ delivery'[d].timer = LeaseTime
    <3>1. \A d \in some : delivery'[d] = Claimed(delivery[d], s)
      BY <2>1 DEF ClaimMany, Claimed
    <3>2. \A d \in some : delivery'[d].lease = s /\ delivery'[d].timer = LeaseTime
      BY <3>1, <1>2, ClaimedFields
    <3>. QED  BY <2>1, <3>2 DEF ClaimMany, RunsTyped, Run
  <2>2. ASSUME NEW some \in SUBSET Deliveries, ClaimMany(s, some)
        PROVE  BatchIsOwn(s)'
    BY <1>1, <2>1, <2>2 DEF RowIsOwn, BatchIsOwn
  <2>3. ASSUME NEW some \in SUBSET Deliveries, SendChunk(s, some)
        PROVE  BatchIsOwn(s)'
    <3>1. /\ sender'[s].left = sender[s].left /\ sender'[s].rows = sender[s].rows
          /\ sender'[s].chunk = some /\ some \subseteq sender[s].rows /\ UNCHANGED delivery
                /\ Sending(s)
      BY <2>3 DEF SendChunk, RunsTyped, Run, Sending
    <3>. QED  BY <1>1, <3>1 DEF RowIsOwn, BatchIsOwn
  <2>4. CASE QueueAccepts(s)
    <3>1. /\ sender'[s].left = sender[s].left /\ sender'[s].rows = sender[s].rows
          /\ sender'[s].chunk = sender[s].chunk /\ UNCHANGED delivery
                /\ sender[s].phase = "sending"
      BY <2>4 DEF QueueAccepts, RunsTyped, Run
    <3>. QED  BY <1>1, <3>1 DEF RowIsOwn, Sending, BatchIsOwn
  <2>5. CASE FinishAccepted(s)
    <3>1. /\ sender'[s].left = sender[s].left
               /\ sender'[s].rows = sender[s].rows \ sender[s].chunk
          /\ sender'[s].phase \in {"ready", "claimed"} /\ Sending(s)
      BY <2>5 DEF FinishAccepted, RunsTyped, Run, Sending
    <3>2. \A d \in sender'[s].rows : delivery'[d] = delivery[d]
      BY <1>1, <2>5, <3>1 DEF FinishAccepted, Finished
    <3>. QED  BY <1>1, <3>1, <3>2 DEF RowIsOwn, Sending, BatchIsOwn
  <2>6. CASE \/ BeginRun(s) \/ BuildFails(s) \/ HaltRun(s) \/ SendFails(s) \/ FinishThrows(s)
             \/ FinishFailed(s) \/ EndRun(s) \/ SenderDies(s)
    <3>1. /\ sender'[s].left =< WallBudget
          /\ sender'[s].phase \in {"ready", "failing", "ending", "idle"}
      <4>1. CASE BeginRun(s)
        BY <4>1 DEF BeginRun, NoRun, RunsTyped
      <4>2. CASE EndRun(s) \/ SenderDies(s)
        BY <4>2 DEF EndRun, SenderDies, NoRun, RunsTyped
      <4>3. CASE FinishFailed(s)
        BY <1>1, <4>3 DEF FinishFailed, RunsTyped, Run
      <4>4. CASE BuildFails(s) \/ HaltRun(s) \/ SendFails(s) \/ FinishThrows(s)
        <5>1. sender' = [sender EXCEPT ![s].phase = "failing"]
          BY <4>4, Zenon DEF BuildFails, HaltRun, SendFails, FinishThrows
        <5>. QED  BY <1>1, <5>1 DEF RunsTyped, Run
      <4>. QED  BY <2>6, <4>1, <4>2, <4>3, <4>4
    <3>. QED  BY <3>1 DEF Sending, BatchIsOwn
  <2>7. \/ \E some \in SUBSET Deliveries : ClaimMany(s, some) \/ SendChunk(s, some)
        \/ QueueAccepts(s) \/ FinishAccepted(s)
        \/ BeginRun(s) \/ BuildFails(s) \/ HaltRun(s) \/ SendFails(s) \/ FinishThrows(s)
        \/ FinishFailed(s) \/ EndRun(s) \/ SenderDies(s)
    BY <1>5, Zenon DEF Produce
  <2>. QED  BY <2>2, <2>3, <2>4, <2>5, <2>6, <2>7
<1>6. CASE ~Elapse /\ sender'[s] = sender[s]
  BY <1>1, <1>4, <1>6 DEF Sending, BatchIsOwn
<1>. QED  BY <1>3, <1>5, <1>6, Frames, RunFrame

\* Hence a chunk is sent of rows that no other run has claimed.
LEMMA OwnRowsSent ==
  ASSUME TypeInv, LeaseOutlives, [Next]_vars, NEW s \in Senders,
         sender[s].phase = "claimed", sender'[s].phase = "sending"
  PROVE  \A d \in sender'[s].chunk : delivery[d].lease \in {s, "none"}
<1>. USE DEF TypeInv
<1>1. PICK some \in SUBSET Deliveries : SendChunk(s, some)
  <2>1. ~Elapse
    BY DEF Elapse, RunsTyped, Run
  <2>2. sender'[s] # sender[s]
    OBVIOUS
  <2>3. Produce(s)
    BY <2>1, <2>2, Frames, RunFrame
  <2>4. ~(\/ BeginRun(s) \/ BuildFails(s) \/ HaltRun(s) \/ QueueAccepts(s) \/ SendFails(s)
          \/ FinishAccepted(s) \/ FinishThrows(s) \/ FinishFailed(s) \/ EndRun(s)
                \/ SenderDies(s))
    BY DEF BeginRun, BuildFails, HaltRun, QueueAccepts, SendFails, FinishAccepted, FinishThrows,
       FinishFailed, EndRun, SenderDies, NoRun, RunsTyped, Run
  <2>5. ~\E some \in SUBSET Deliveries : ClaimMany(s, some)
    BY DEF ClaimMany
  <2>. QED  BY <2>3, <2>4, <2>5 DEF Produce
<1>2. sender'[s].chunk = some /\ some \subseteq sender[s].rows /\ sender[s].left > 0
  BY <1>1 DEF SendChunk, RunsTyped, Run
<1>3. \A d \in sender[s].rows : RowIsOwn(s, d)
  BY DEF LeaseOutlives, BatchIsOwn, Sending
<1>. QED  BY <1>2, <1>3 DEF RowIsOwn

\* A Tick never sends a row that another Tick has claimed meanwhile, for every number
\* of Ticks and rows, if the 40 seconds of a run are not longer than a lease (WallBudget,
\* LeaseTime in QueueBounds).
THEOREM LeaseProtection == Spec => SendsOnlyOwnRows
<1>1. Init => LeaseOutlives
  BY DEF Init, LeaseOutlives, BatchIsOwn, Sending, NoRun
<1>2. TypeInv /\ LeaseOutlives /\ [Next]_vars => (TypeInv /\ LeaseOutlives)'
  BY TypingStep, LeaseStep
<1>3. TypeInv /\ LeaseOutlives /\ [Next]_vars =>
        [\A s \in Senders : sender[s].phase = "claimed" /\ sender'[s].phase = "sending"
           => \A d \in sender'[s].chunk : delivery[d].lease \in {s, "none"}]_vars
  BY OwnRowsSent
<1>. QED  BY InitTyped, <1>1, <1>2, <1>3, PTL DEF Spec, SendsOnlyOwnRows

-----------------------------------------------------------------------------
(* The attempts of a delivery *)

\* A number that an invocation has reserved and not used yet.
Holding(c) ==
  \/ consumer[c].phase = "reserved"
  \/ consumer[c].phase = "undo" /\ consumer[c].number # 0
HasCalled(c) == consumer[c].phase \in {"calling", "answered", "vouched", "failing", "marked"}

\* An attempt that is reserved and not used is one nobody has called the Target
\* with, and its row is there until the delivery is cleaned.
ReservationIsOwn(c) ==
  /\ c \in Consumers /\ consumer[c].number \in Numbers
  /\ consumer[c].number \notin called[consumer[c].d]
  /\ \/ delivery[consumer[c].d].status = "deleted"
     \/ reservation[consumer[c].d][consumer[c].number] = "reserved"
AttemptsAreOwn ==
  /\ \A c \in AllConsumers : Holding(c) => ReservationIsOwn(c)
  /\ \A b, c \in AllConsumers :
       /\ Holding(b) /\ Holding(c)
       /\ consumer[b].d = consumer[c].d /\ consumer[b].number = consumer[c].number
       => b = c
CallsAreRecorded ==
  \A c \in AllConsumers :
    /\ consumer[c].phase = "received" => consumer[c].number = 0
    /\ HasCalled(c) => consumer[c].number \in called[consumer[c].d]
RowsMatchCalls ==
  \A d \in Deliveries :
    /\ \A n \in called[d] \ {0} : delivery[d].status = "deleted" \/ reservation[d][n] # "none"
    /\ \A n \in Numbers : reservation[d][n] = "invoked" => n \in called[d]
CountIsOfRows ==
  \A d \in Deliveries :
    /\ delivery[d].status # "deleted" /\ delivery[d].count # UnknownCount
         => delivery[d].count = Cardinality(MadeReservations(d))
    /\ delivery[d].result # "none" =>
         /\ delivery[d].status = "queued"
         /\ ~delivery[d].error
         /\ delivery[d].count # UnknownCount => \A n \in Numbers : reservation[d][n] # "reserved"
AttemptInv == AttemptsAreOwn /\ CallsAreRecorded /\ RowsMatchCalls /\ CountIsOfRows
Started(d) == delivery[d].status \notin {"none", "skipped"}
SentAreAccepted ==
  /\ \A d \in accepted : Started(d)
  /\ \A s \in Senders : \A d \in sender[s].rows : Started(d)
  /\ \A s \in Senders : sender[s].phase = "accepted" => sender[s].chunk \subseteq accepted
  /\ \A d \in Deliveries, i \in Copies :
       /\ message[d][i].place # "free" => Started(d)
       /\ message[d][i].place \in {"queued", "held"} => d \in accepted
  /\ \A c \in AllConsumers : consumer[c].phase # "idle" => consumer[c].d \in accepted
  /\ orphans \subseteq accepted
EffectsAreOnce ==
  /\ effects \in [Deliveries -> {0, 1}]
  /\ \A c \in AllConsumers :
       consumer[c].phase \in {"answered", "vouched"} /\ consumer[c].answer = "succeeded"
         => effects[consumer[c].d] = 1

\* The largest attempt number of a delivery.
LEMMA SmallestExists ==
  ASSUME NEW T \in SUBSET Nat, T # {}
  PROVE \E x \in T : \A y \in T : x =< y
<1>1. OpToRel(<, Nat) = {ss \in Nat \X Nat : ss[1] < ss[2]}
  BY Zenon DEF OpToRel
<1>2. IsWellFoundedOn(OpToRel(<, Nat), Nat)
  BY NatLessThanWellFounded, Zenon
<1>. DEFINE R == {ss \in Nat \X Nat : ss[1] < ss[2]}
<1>3. IsWellFoundedOn(R, Nat)
  BY <1>1, <1>2, Zenon
<1>4. PICK x \in T : \A y \in T : ~(<<y, x>> \in R)
  <2>. HIDE DEF R
  <2>. QED  BY <1>3, WFMin, Zenon
<1>5. \A y \in T : ~(y < x)
  BY <1>4
<1>. QED  BY <1>5

\* There are finitely many attempt numbers: a set of them has a largest.
LEMMA LargestExists ==
  ASSUME NEW T \in SUBSET Numbers, T # {}
  PROVE  \E x \in T : \A y \in T : y =< x
<1>. DEFINE U == {MaxAttempts - x : x \in T}
<1>1. \A x \in T : x \in Nat /\ MaxAttempts - x \in Nat
  BY DEF Numbers
<1>2. U \in SUBSET Nat
  BY <1>1
<1>3. U # {}
  <2>1. PICK x : x \in T
    OBVIOUS
  <2>2. MaxAttempts - x \in U
    BY <2>1
  <2>. QED  BY <2>2
<1>4. PICK u \in U : \A y \in U : u =< y
  <2>. HIDE DEF U
  <2>. QED  BY <1>2, <1>3, SmallestExists
<1>5. PICK x \in T : u = MaxAttempts - x
  BY <1>4
<1>6. \A y \in T : MaxAttempts - x =< MaxAttempts - y
  BY <1>4, <1>5
<1>. QED  BY <1>1, <1>6

\* The next attempt of a delivery has a number of its own, past all that are in its rows.
LEMMA NextNumberIsFresh ==
  ASSUME NEW d PROVE NextNumber(d) \in Nat \ {0}
           /\ \A n \in MadeReservations(d) : n < NextNumber(d)
<1>1. MadeReservations(d) \in SUBSET Numbers
  BY DEF MadeReservations
<1>2. CASE MadeReservations(d) = {}
  BY <1>2 DEF NextNumber, LastReservation
<1>3. CASE MadeReservations(d) # {}
  <2>1. \E x \in MadeReservations(d) : \A y \in MadeReservations(d) : y =< x
    BY <1>1, <1>3, LargestExists
  <2>2. /\ LastReservation(d) \in MadeReservations(d)
        /\ \A y \in MadeReservations(d) : y =< LastReservation(d)
    BY <1>3, <2>1 DEF LastReservation
  <2>3. \A n \in MadeReservations(d) : n \in Nat
    BY <1>1 DEF Numbers
  <2>. QED  BY <2>2, <2>3 DEF NextNumber
<1>. QED  BY <1>2, <1>3

-----------------------------------------------------------------------------
\* A step of one invocation leaves the others alone.
LEMMA CallFrame ==
  ASSUME CallsTyped, NEW c \in AllConsumers, Consume(c)
  PROVE  \A b \in AllConsumers \ {c} : consumer'[b] = consumer[b]
<1>1. \E k : consumer' = [consumer EXCEPT ![c] = k]
  <2>1. \A p : [consumer EXCEPT ![c].phase = p] = [consumer EXCEPT ![c] = [@ EXCEPT !.phase = p]]
    OBVIOUS
  <2>2. CASE Report(c)
    BY <2>1, <2>2, Zenon DEF Report, Acked
  <2>3. CASE TargetAnswers(c)
    BY <2>1, <2>3, Zenon DEF TargetAnswers
  <2>4. CASE Reserve(c)
    BY <2>4, Zenon DEF Reserve
  <2>. QED
    BY <2>1, <2>2, <2>3, <2>4, Zenon DEF Consume, Receive, PrepareFails, Refuse,
       RecordUnnamedError,
     ReserveFails, Undo, ObservationFails, CheckReceipt, Acked, Returned,
     CallTarget, CallFails, ReportFails, MarkInvoked, RecordError, RetryMessage, ConsumerDies
<1>. QED  BY <1>1 DEF CallsTyped

\* What a step makes of its own invocation.
CallAfter(c) ==
  LET old == consumer[c]
      new == consumer'[c]
  IN \/ new = NoInvocation
     \/ /\ new.phase = "received" /\ new.number = 0
        /\ \E d \in Deliveries, i \in Copies :
             Receive(c, d, i) /\ new.d = d /\ new.copy = i
     \/ /\ Reserve(c) /\ new.phase \in {"reserved", "undo"} /\ new.number = NextNumber(old.d)
        /\ new.d = old.d
     \/ /\ new.d = old.d /\ new.number = old.number
        /\ \/ old.phase # "idle" /\ new.phase \in {"unnamed", "retrying"}
           \/ ReserveFails(c) /\ old.phase = "received" /\ new.phase = "undo"
           \/ CallTarget(c) /\ new.phase = "calling"
           \/ HasCalled(c) /\ new.phase \in {"answered", "vouched", "failing", "marked"}

\* Every step of an invocation does one of the things listed above.
LEMMA CallsAfter ==
  ASSUME CallsTyped, NEW c \in AllConsumers, Consume(c) PROVE CallAfter(c)
<1>. USE DEF CallsTyped, Invocation
<1>1. ASSUME NEW p, consumer' = [consumer EXCEPT ![c].phase = p]
      PROVE  /\ consumer'[c].d = consumer[c].d /\ consumer'[c].number = consumer[c].number
             /\ consumer'[c].phase = p
  BY <1>1
<1>2. CASE Refuse(c) \/ RetryMessage(c) \/ ConsumerDies(c)
  <2>1. consumer' = [consumer EXCEPT ![c] = NoInvocation]
    BY <1>2, Zenon DEF Refuse, RetryMessage, ConsumerDies, Acked, Returned
  <2>. QED  BY <2>1 DEF CallAfter
<1>3. ASSUME NEW d \in Deliveries, NEW i \in Copies, Receive(c, d, i) PROVE CallAfter(c)
  <2>1. consumer'[c] = [phase |-> "received", d |-> d, copy |-> i, number |-> 0, answer |-> "none"]
    BY <1>3 DEF Receive
  <2>. QED  BY <1>3, <2>1 DEF CallAfter
<1>4. CASE Reserve(c)
  <2>1. PICK p \in {"reserved", "undo"} :
          consumer' = [consumer EXCEPT ![c] = [@ EXCEPT !.phase = p, !.number = NextNumber(consumer[c].d)]]
    BY <1>4, Zenon DEF Reserve
  <2>2. consumer'[c] = [consumer[c] EXCEPT !.phase = p, !.number = NextNumber(consumer[c].d)]
    BY <2>1
  <2>. HIDE DEF CallsTyped
  <2>3. /\ consumer'[c].phase = p /\ consumer'[c].number = NextNumber(consumer[c].d)
        /\ consumer'[c].d = consumer[c].d
    BY <2>2 DEF CallsTyped
  <2>. QED  BY <1>4, <2>3 DEF CallAfter
<1>5. CASE Report(c)
  <2>1. \/ consumer' = [consumer EXCEPT ![c] = NoInvocation]
        \/ consumer' = [consumer EXCEPT ![c].phase = "failing"]
    BY <1>5, Zenon DEF Report, Acked
  <2>. QED  BY <1>5, <1>1, <2>1 DEF CallAfter, HasCalled, Report
<1>6. CASE TargetAnswers(c)
  <2>1. PICK a \in {"succeeded", "failed"} :
          consumer' = [consumer EXCEPT ![c] = [@ EXCEPT !.phase = "answered", !.answer = a]]
    BY <1>6, Zenon DEF TargetAnswers
  <2>2. /\ consumer'[c].phase = "answered" /\ consumer'[c].number = consumer[c].number
        /\ consumer'[c].d = consumer[c].d
    BY <2>1
  <2>. QED  BY <1>6, <2>2 DEF CallAfter, HasCalled, TargetAnswers
<1>7. CASE PrepareFails(c) \/ RecordUnnamedError(c) \/ Undo(c) \/ ObservationFails(c)
             \/ RecordError(c)
  <2>1. consumer[c].phase # "idle"
          /\ \E p \in {"unnamed", "retrying"} : consumer' = [consumer EXCEPT ![c].phase = p]
    BY <1>7 DEF PrepareFails, RecordUnnamedError, Undo, ObservationFails, RecordError
  <2>. QED  BY <1>1, <2>1 DEF CallAfter
<1>8. CASE ReserveFails(c)
  BY <1>1, <1>8 DEF ReserveFails, CallAfter
<1>9. CASE CallTarget(c)
  BY <1>1, <1>9 DEF CallTarget, CallAfter
<1>10. CASE CallFails(c) \/ CheckReceipt(c) \/ ReportFails(c) \/ MarkInvoked(c)
  <2>1. HasCalled(c)
          /\ \E p \in {"vouched", "failing",
     "marked"} : consumer' = [consumer EXCEPT ![c].phase = p]
    BY <1>10 DEF CallFails, CheckReceipt, ReportFails, MarkInvoked, HasCalled
  <2>. QED  BY <1>1, <2>1 DEF CallAfter
<1>. QED  BY <1>2, <1>3, <1>4, <1>5, <1>6, <1>7, <1>8, <1>9, <1>10, Zenon DEF Consume

-----------------------------------------------------------------------------
\* What a step may do to the rows of a delivery that no invocation writes to.
Kept(d) ==
  /\ reservation'[d] = reservation[d]
  /\ delivery'[d].count = delivery[d].count /\ delivery'[d].result = delivery[d].result
  /\ delivery[d].status = "deleted" <=> delivery'[d].status = "deleted"
  /\ delivery[d].result # "none" =>
       delivery'[d].status = delivery[d].status /\ delivery'[d].error = delivery[d].error
Gone(d) == delivery'[d] = Forgotten /\ reservation'[d] = [n \in Numbers |-> "none"]

\* The steps that are not a consumer's.
Other == [Next]_vars /\ ~\E c \in AllConsumers : Consume(c)

\* What the producer does to a row leaves count, result and error, or forgets the row.
LEMMA OtherRows ==
  ASSUME TypeInv, CountIsOfRows, Other, NEW d \in Deliveries
  PROVE  Kept(d) \/ Gone(d)
<1>. USE DEF TypeInv
<1>1. RowOK(delivery[d]) /\ RowAfter(d)
  BY RowsAfter DEF RowsTyped, Other
<1>2. CASE \E s \in Senders : EndRun(s)
  <2>1. \/ delivery'[d] = delivery[d] /\ reservation'[d] = reservation[d]
        \/ Gone(d)
    BY <1>2 DEF EndRun, Gone, Forgotten, RowsTyped, ReservationsTyped
  <2>. QED  BY <2>1 DEF Kept
<1>3. CASE ~\E s \in Senders : EndRun(s)
  <2>1. UNCHANGED reservation
    BY <1>3, Frames, Zenon DEF Other, ConsumerChangesReservation, Consume
  <2>2. delivery[d].result # "none" => delivery[d].status = "queued"
    BY DEF CountIsOfRows
  <2>3. ~\E c \in AllConsumers : \/ RecordUnnamedError(c) \/ RecordError(c) \/ Undo(c)
                                 \/ Reserve(c) \/ Report(c)
    BY Zenon DEF Other, Consume
  <2>4. \/ delivery'[d] \in {delivery[d], Aged(delivery[d])}
        \/ \E st \in {"pending", "skipped"} :
             delivery[d].status = "none" /\ delivery'[d] = Intended(delivery[d], st)
        \/ \E s \in Senders : Claimable(d) /\ delivery'[d] = Claimed(delivery[d], s)
        \/ \E st \in {"queued", "unknown"} :
             delivery[d].status = "sending" /\ delivery'[d] = Settled(delivery[d], st)
        \/ \E s \in Senders : delivery[d].lease = s /\ delivery'[d] = Abandoned(delivery[d])
    BY <1>1, <1>3, <2>3 DEF RowAfter, ClaimMany
  <2>5. CASE delivery'[d] \in {delivery[d], Aged(delivery[d])}
    BY <1>1, <2>1, <2>5, AgedFields DEF Kept
  <2>6. ASSUME NEW st \in {"pending", "skipped"}, delivery[d].status = "none",
               delivery'[d] = Intended(delivery[d], st)
        PROVE  Kept(d)
    BY <1>1, <2>1, <2>2, <2>6, IntendedFields DEF Kept
  <2>7. ASSUME NEW s \in Senders, Claimable(d), delivery'[d] = Claimed(delivery[d], s)
        PROVE  Kept(d)
    BY <1>1, <2>1, <2>2, <2>7, ClaimedFields DEF Kept, Claimable, Unresolved
  <2>8. ASSUME NEW st \in {"queued", "unknown"}, delivery[d].status = "sending",
               delivery'[d] = Settled(delivery[d], st)
        PROVE  Kept(d)
    BY <1>1, <2>1, <2>2, <2>8, SettledFields DEF Kept
  <2>9. ASSUME NEW s \in Senders, delivery'[d] = Abandoned(delivery[d])
        PROVE  Kept(d)
    BY <1>1, <2>1, <2>9, AbandonedFields DEF Kept
  <2>. QED  BY <2>4, <2>5, <2>6, <2>7, <2>8, <2>9
<1>. QED  BY <1>2, <1>3

\* What the steps of the consumers add to the history of calls.
LEMMA CallsGrow ==
  ASSUME TypeInv, [Next]_vars
  PROVE  \/ UNCHANGED called
         \/ \E c \in AllConsumers :
              CallTarget(c)
                    /\ called' = [called EXCEPT ![consumer[c].d] = @ \cup {consumer[c].number}]
BY TargetFrame, Zenon DEF target, ConsumerChangesTarget, CallTarget, TargetAnswers, CallFails,
   ConsumerDies, OrphanRuns

\* Only invocations call Targets.
LEMMA OtherCalls ==
  ASSUME TypeInv, Other PROVE UNCHANGED <<consumer, called>>
<1>1. UNCHANGED consumer
  BY Frames, Zenon DEF Other
<1>2. UNCHANGED called
  BY CallsGrow, Zenon DEF Other, Consume
<1>. QED  BY <1>1, <1>2

\* The attempts of an invocation's own delivery after its step.
AttemptAfter(c) ==
  LET d == consumer[c].d
      n == consumer[c].number
  IN \/ Kept(d)
     \/ /\ Undo(c) /\ reservation'[d] = Undone(reservation[d], n)
        /\ delivery'[d].count \in {delivery[d].count, Recount(d, reservation'[d])}
        /\ delivery[d].status # "deleted" => delivery'[d].count = Recount(d, reservation'[d])
        /\ delivery'[d].result = delivery[d].result /\ delivery'[d].status = delivery[d].status
        /\ delivery'[d].error = delivery[d].error
     \/ /\ Reserve(c) /\ Open(d) /\ NextNumber(d) \in Numbers
        /\ reservation'[d] = [reservation[d] EXCEPT ![NextNumber(d)] = "reserved"]
        /\ delivery'[d].count = Recount(d, reservation'[d])
        /\ delivery'[d].result = "none" /\ delivery'[d].status = delivery[d].status
     \/ /\ Report(c) \/ MarkInvoked(c)
        /\ reservation'[d] = Marked(c)
        /\ \/ delivery'[d] = delivery[d]
           \/ /\ delivery[d].status # "deleted"
              /\ delivery'[d].count = ConfirmedCount(d, Marked(c))
                    /\ delivery'[d].status = "queued"
              /\ ~delivery'[d].error

\* Every step of an invocation does one of these things to the attempts.
LEMMA AttemptsAfter ==
  ASSUME TypeInv, NEW c \in AllConsumers, Consume(c), consumer[c].d \in Deliveries
  PROVE  AttemptAfter(c)
<1>. DEFINE d == consumer[c].d
            rows == reservation'[d]
<1>. USE DEF TypeInv
<1>1. RowOK(delivery[d]) /\ OwnRowAfter(c)
  BY ConsumerRows DEF RowsTyped
<1>2. CASE delivery'[d] = delivery[d] /\ rows = reservation[d]
  BY <1>2, Zenon DEF AttemptAfter, Kept
<1>3. CASE Open(d) /\ delivery'[d] = Flagged(delivery[d], TRUE) /\ rows = reservation[d]
  <2>1. /\ delivery'[d].count = delivery[d].count /\ delivery'[d].result = delivery[d].result
        /\ delivery'[d].status = delivery[d].status
    <3>1. /\ Flagged(delivery[d], TRUE).count = delivery[d].count
          /\ Flagged(delivery[d], TRUE).result = delivery[d].result
          /\ Flagged(delivery[d], TRUE).status = delivery[d].status
      BY <1>1, FlaggedFields
    <3>. QED  BY <1>3, <3>1
  <2>2. Kept(d)
    BY <1>3, <2>1, Zenon DEF Kept, Open
  <2>. QED  BY <2>2 DEF AttemptAfter
<1>4. CASE /\ Undo(c) /\ rows = Undone(reservation[d], consumer[c].number)
           /\ \/ delivery[d].status = "deleted" /\ delivery'[d] = delivery[d]
              \/ /\ delivery[d].status # "deleted"
                 /\ delivery'[d] = Counted(delivery[d], Recount(d, rows))
  BY <1>1, <1>4, CountedFields DEF AttemptAfter
<1>5. CASE /\ Reserve(c) /\ Open(d) /\ NextNumber(d) \in Numbers
           /\ rows = [reservation[d] EXCEPT ![NextNumber(d)] = "reserved"]
           /\ delivery'[d] = Cleared(delivery[d], Recount(d, rows))
  BY <1>1, <1>5, ClearedFields DEF AttemptAfter, Open
<1>6. CASE /\ Report(c) \/ MarkInvoked(c)
           /\ rows = Marked(c)
           /\ \/ delivery'[d] = delivery[d]
              \/ /\ NoOtherResult(d, consumer[c].answer)
                 /\ delivery'[d] = Reported(delivery[d], consumer[c].answer, ConfirmedCount(d, rows))
  BY <1>1, <1>6, ReportedFields DEF AttemptAfter, NoOtherResult
<1>. QED  BY <1>1, <1>2, <1>3, <1>4, <1>5, <1>6, Zenon DEF OwnRowAfter

-----------------------------------------------------------------------------

\* Attempts and calls keep matching: a number that was undone was never called with, and
\* a number is marked by an invocation that has called with it.
LEMMA RowsMatchCallsStep ==
  ASSUME TypeInv, AttemptInv, [Next]_vars PROVE RowsMatchCalls'
<1>. USE DEF TypeInv, AttemptInv
<1>. SUFFICES ASSUME NEW d \in Deliveries
              PROVE  /\ \A n \in called'[d] \ {0} :
                          delivery'[d].status = "deleted" \/ reservation'[d][n] # "none"
                     /\ \A n \in Numbers : reservation'[d][n] = "invoked" => n \in called'[d]
  BY DEF RowsMatchCalls
<1>1. /\ \A n \in called[d] \ {0} : delivery[d].status = "deleted" \/ reservation[d][n] # "none"
      /\ \A n \in Numbers : reservation[d][n] = "invoked" => n \in called[d]
      /\ reservation[d] \in [Numbers -> {"none", "reserved", "invoked"}]
      /\ called[d] \subseteq 0 .. MaxAttempts
  BY DEF RowsMatchCalls, ReservationsTyped, TargetTyped
<1>2. ASSUME UNCHANGED called, Kept(d) PROVE
        /\ \A n \in called'[d] \ {0} : delivery'[d].status = "deleted"
              \/ reservation'[d][n] # "none"
        /\ \A n \in Numbers : reservation'[d][n] = "invoked" => n \in called'[d]
  BY <1>1, <1>2, Zenon DEF Kept
<1>3. CASE Other
  <2>1. UNCHANGED called /\ (Kept(d) \/ Gone(d))
    BY <1>3, OtherCalls, OtherRows
  <2>2. Gone(d) => delivery'[d].status = "deleted"
          /\ \A n \in Numbers : reservation'[d][n] = "none"
    BY ForgottenFields DEF Gone
  <2>. QED  BY <1>2, <2>1, <2>2
<1>4. ASSUME NEW c \in AllConsumers, Consume(c) PROVE
        /\ \A n \in called'[d] \ {0} : delivery'[d].status = "deleted"
              \/ reservation'[d][n] # "none"
        /\ \A n \in Numbers : reservation'[d][n] = "invoked" => n \in called'[d]
  <2>1. CASE CallTarget(c)
    <3>1. UNCHANGED <<delivery, reservation>>
            /\ called' = [called EXCEPT ![consumer[c].d] = @ \cup {consumer[c].number}]
      BY <2>1, Zenon DEF CallTarget
    <3>2. CASE d # consumer[c].d
      BY <1>1, <3>1, <3>2 DEF TargetTyped
    <3>3. CASE d = consumer[c].d
      <4>1. called'[d] = called[d] \cup {consumer[c].number}
        BY <3>1, <3>3 DEF TargetTyped
      <4>2. consumer[c].number # 0 => delivery[d].status = "deleted"
              \/ reservation[d][consumer[c].number] # "none"
        BY <2>1, <3>3 DEF CallTarget, AttemptsAreOwn, Holding, ReservationIsOwn, CallsAreRecorded
      <4>. QED  BY <1>1, <3>1, <4>1, <4>2
    <3>. QED  BY <3>2, <3>3
  <2>2. CASE ~CallTarget(c)
    <3>1. UNCHANGED called
      BY <1>4, <2>2, Zenon DEF target, Consume, Receive, PrepareFails, Refuse,
         RecordUnnamedError, Reserve,
         ReserveFails, Undo, ObservationFails, CheckReceipt, Report, TargetAnswers, CallFails,
         ReportFails, MarkInvoked, RecordError, RetryMessage, ConsumerDies
    <3>2. d # consumer[c].d => Kept(d)
      BY <1>4, ConsumerRows, Zenon DEF Kept
    <3>3. CASE d = consumer[c].d /\ ~Kept(d)
      <4>. DEFINE n == consumer[c].number
      <4>1. AttemptAfter(c)
        BY <1>4, <3>3, AttemptsAfter, Zenon
      <4>2. CASE Undo(c) /\ reservation'[d] = Undone(reservation[d], n)
                   /\ delivery'[d].status = delivery[d].status
        <5>1. n \in Numbers => n \notin called[d]
          <6>1. n \in Numbers => Holding(c)
            BY <4>2 DEF Holding, Undo, Numbers
          <6>. QED  BY <6>1, <3>3 DEF AttemptsAreOwn, ReservationIsOwn
        <5>. QED  BY <1>1, <3>1, <4>2, <5>1 DEF Undone
      <4>3. CASE reservation'[d] = [reservation[d] EXCEPT ![NextNumber(d)] = "reserved"]
                   /\ delivery'[d].status = delivery[d].status
        BY <1>1, <3>1, <4>3
      <4>4. CASE /\ Report(c) \/ MarkInvoked(c)
                 /\ reservation'[d] = Marked(c)
                 /\ delivery'[d] = delivery[d] \/ delivery[d].status # "deleted"
        <5>1. n \in called[d]
          BY <4>4, <3>3 DEF CallsAreRecorded, HasCalled, Report, MarkInvoked
        <5>2. reservation'[d] = IF n \in Numbers /\ reservation[d][n] # "none"
                                THEN [reservation[d] EXCEPT ![n] = "invoked"] ELSE reservation[d]
          BY <4>4, <3>3 DEF Marked
        <5>. QED  BY <1>1, <3>1, <4>4, <5>1, <5>2
      <4>. QED  BY <3>3, <4>1, <4>2, <4>3, <4>4, Zenon DEF AttemptAfter
    <3>. QED  BY <1>2, <3>1, <3>2, <3>3
  <2>. QED  BY <2>1, <2>2
<1>. QED  BY <1>3, <1>4 DEF Other

\* The rows of one delivery and their count fit each other.
CountFits(d) ==
  /\ delivery[d].status # "deleted" /\ delivery[d].count # UnknownCount
       => delivery[d].count = Cardinality(MadeReservations(d))
  /\ delivery[d].result # "none" =>
       /\ delivery[d].status = "queued"
       /\ ~delivery[d].error
       /\ delivery[d].count # UnknownCount => \A n \in Numbers : reservation[d][n] # "reserved"

\* The count keeps fitting the attempts, and stands when a result is there.
LEMMA CountIsOfRowsStep ==
  ASSUME TypeInv, AttemptInv, [Next]_vars PROVE CountIsOfRows'
<1>. USE DEF TypeInv, AttemptInv
<1>. SUFFICES ASSUME NEW d \in Deliveries PROVE CountFits(d)'
  BY DEF CountIsOfRows, CountFits
<1>1. CountFits(d) /\ reservation[d] \in [Numbers -> {"none", "reserved", "invoked"}]
  BY DEF CountIsOfRows, CountFits, ReservationsTyped
<1>2. CASE Kept(d)
  <2>1. MadeReservations(d)' = MadeReservations(d)
    BY <1>2 DEF Kept, MadeReservations
  <2>. QED  BY <1>1, <1>2, <2>1, Zenon DEF CountFits, Kept
<1>3. CASE Gone(d)
  BY <1>3, ForgottenFields DEF Gone, CountFits
<1>4. ASSUME NEW c \in AllConsumers, Consume(c), ~Kept(d) PROVE CountFits(d)'
  <2>1. d = consumer[c].d
    BY <1>4, ConsumerRows, Zenon DEF Kept
  <2>2. AttemptAfter(c)
    BY <1>4, <2>1, AttemptsAfter, Zenon
  <2>. DEFINE n == consumer[c].number
              made == {m \in Numbers : reservation'[d][m] # "none"}
  <2>3. MadeReservations(d)' = made
    BY DEF MadeReservations
  <2>4. Recount(d, reservation'[d]) =
         IF delivery[d].count = UnknownCount THEN UnknownCount ELSE Cardinality(made)
    BY DEF Recount
  <2>. HIDE DEF made
  <2>5. CASE /\ Undo(c) /\ reservation'[d] = Undone(reservation[d], n)
             /\ delivery'[d].count \in {delivery[d].count, Recount(d, reservation'[d])}
             /\ delivery[d].status # "deleted" => delivery'[d].count = Recount(d, reservation'[d])
             /\ delivery'[d].result = delivery[d].result
                   /\ delivery'[d].status = delivery[d].status
             /\ delivery'[d].error = delivery[d].error
    <3>1. (\A m \in Numbers : reservation[d][m] # "reserved")
            => \A m \in Numbers : reservation'[d][m] # "reserved"
      BY <1>1, <2>5 DEF Undone
    <3>2. delivery[d].status # "deleted" /\ delivery'[d].count # UnknownCount
            => delivery'[d].count = Cardinality(made) /\ delivery[d].count # UnknownCount
      BY <2>4, <2>5
    <3>. QED  BY <1>1, <2>3, <2>5, <3>1, <3>2 DEF CountFits
  <2>6. CASE /\ delivery'[d].count = Recount(d, reservation'[d]) /\ delivery'[d].result = "none"
    BY <2>3, <2>4, <2>6 DEF CountFits
  <2>7. CASE reservation'[d] = Marked(c)
    <3>1. reservation'[d] = IF n \in Numbers /\ reservation[d][n] # "none"
                            THEN [reservation[d] EXCEPT ![n] = "invoked"] ELSE reservation[d]
      BY <2>1, <2>7 DEF Marked
    <3>2. made = MadeReservations(d)
      BY <1>1, <3>1 DEF made, MadeReservations
    <3>3. (\A m \in Numbers : reservation[d][m] # "reserved")
            => \A m \in Numbers : reservation'[d][m] # "reserved"
      BY <1>1, <3>1
    <3>4. CASE delivery'[d] = delivery[d]
      BY <1>1, <2>3, <3>2, <3>3, <3>4 DEF CountFits
    <3>5. CASE /\ delivery[d].status # "deleted"
               /\ delivery'[d].count = ConfirmedCount(d, Marked(c))
                     /\ delivery'[d].status = "queued"
               /\ ~delivery'[d].error
      <4>1. delivery'[d].count # UnknownCount =>
              /\ delivery'[d].count = delivery[d].count
              /\ \A m \in Numbers : reservation'[d][m] # "reserved"
        BY <2>7, <3>5 DEF ConfirmedCount
      <4>. QED  BY <1>1, <2>3, <3>2, <3>5, <4>1 DEF CountFits
    <3>. QED  BY <1>4, <2>1, <2>2, <2>5, <2>6, <3>4, <3>5, Zenon DEF AttemptAfter
  <2>. QED  BY <1>4, <2>1, <2>2, <2>5, <2>6, <2>7, Zenon DEF AttemptAfter
<1>. QED  BY <1>2, <1>3, <1>4, OtherRows DEF Other

-----------------------------------------------------------------------------
\* The history of calls after a step of one invocation.
CalledAfter(c) ==
  \/ called' = called
  \/ /\ CallTarget(c) /\ UNCHANGED <<delivery, reservation>>
     /\ called' = [called EXCEPT ![consumer[c].d] = @ \cup {consumer[c].number}]

\* Only CallTarget adds to the history of calls.
LEMMA CalledAfterStep == ASSUME NEW c, Consume(c) PROVE CalledAfter(c)
BY Zenon DEF CalledAfter, target, Consume, Receive, PrepareFails, Refuse, RecordUnnamedError,
   Reserve,
   ReserveFails, Undo, ObservationFails, CallTarget, TargetAnswers, CallFails, CheckReceipt, Report,
   ReportFails, MarkInvoked, RecordError, RetryMessage, ConsumerDies

\* An invocation past its call stays in the history of calls.
LEMMA CallsAreRecordedStep ==
  ASSUME TypeInv, AttemptInv, [Next]_vars PROVE CallsAreRecorded'
<1>. USE DEF TypeInv, AttemptInv
<1>1. ASSUME NEW d \in Deliveries PROVE called[d] \subseteq called'[d]
  BY CallsGrow DEF TargetTyped
<1>2. ASSUME NEW b \in AllConsumers, consumer'[b] = consumer[b]
      PROVE  /\ consumer'[b].phase = "received" => consumer'[b].number = 0
             /\ HasCalled(b)' => consumer'[b].number \in called'[consumer'[b].d]
  BY <1>1, <1>2 DEF CallsAreRecorded, HasCalled, CallsTyped, InvocationsAreNamed
<1>3. CASE Other
  BY <1>2, <1>3, OtherCalls DEF CallsAreRecorded
<1>4. ASSUME NEW c \in AllConsumers, Consume(c)
      PROVE  /\ consumer'[c].phase = "received" => consumer'[c].number = 0
             /\ HasCalled(c)' => consumer'[c].number \in called'[consumer'[c].d]
  <2>1. CallAfter(c)
    BY <1>4, CallsAfter, Zenon
  <2>2. ASSUME CallTarget(c)
        PROVE consumer[c].d \in Deliveries /\ consumer[c].number \in called'[consumer[c].d]
    BY <2>2 DEF CallTarget, TargetTyped, CallsTyped, InvocationsAreNamed
  <2>3. ASSUME HasCalled(c) PROVE consumer[c].number \in called'[consumer[c].d]
    BY <1>1, <2>3 DEF CallsAreRecorded, HasCalled, CallsTyped, InvocationsAreNamed
  <2>4. /\ NoInvocation.phase = "idle"
    BY DEF NoInvocation
  <2>. QED  BY <2>1, <2>2, <2>3, <2>4 DEF CallAfter, HasCalled
<1>5. ASSUME NEW c \in AllConsumers, Consume(c) PROVE CallsAreRecorded'
  BY <1>2, <1>4, <1>5, CallFrame DEF CallsAreRecorded
<1>. QED  BY <1>3, <1>5 DEF Other

\* Who holds a number after a step held it before, or has just reserved it.
LEMMA HoldingAfter ==
  ASSUME TypeInv, CallsAreRecorded, NEW c \in AllConsumers, Consume(c), Holding(c)'
  PROVE  /\ Reserve(c)
         /\ consumer'[c].d = consumer[c].d /\ consumer'[c].number = NextNumber(consumer[c].d)
<1>1. CallAfter(c)
  BY CallsAfter DEF TypeInv
<1>2. ReserveFails(c) => consumer[c].number = 0
  BY DEF ReserveFails, CallsAreRecorded
<1>3. NoInvocation.phase = "idle"
  BY DEF NoInvocation
<1>. QED  BY <1>1, <1>2, <1>3 DEF CallAfter, Holding

\* A number that is held stays unused and reserved while others step.
LEMMA ReservationIsOwnStep ==
  ASSUME TypeInv, AttemptInv, [Next]_vars, NEW b \in AllConsumers, Holding(b),
         consumer'[b] = consumer[b]
  PROVE  ReservationIsOwn(b)'
<1>. DEFINE d == consumer[b].d
            n == consumer[b].number
<1>. USE DEF TypeInv, AttemptInv
<1>1. /\ d \in Deliveries /\ n \in Numbers /\ n \notin called[d] /\ b \in Consumers
      /\ delivery[d].status = "deleted" \/ reservation[d][n] = "reserved"
      /\ reservation[d] \in [Numbers -> {"none", "reserved", "invoked"}]
  BY DEF AttemptsAreOwn, ReservationIsOwn, Holding, CallsTyped, InvocationsAreNamed,
     ReservationsTyped
<1>. SUFFICES /\ n \notin called'[d]
              /\ delivery'[d].status = "deleted" \/ reservation'[d][n] = "reserved"
  BY <1>1 DEF ReservationIsOwn
<1>2. Kept(d) => (delivery'[d].status = "deleted" \/ reservation'[d][n] = "reserved")
  BY <1>1, Zenon DEF Kept
<1>3. CASE Other
  <2>1. Gone(d) => delivery'[d].status = "deleted"
    BY ForgottenFields DEF Gone
  <2>. QED  BY <1>1, <1>2, <1>3, <2>1, OtherCalls, OtherRows
<1>4. ASSUME NEW c \in AllConsumers, Consume(c)
      PROVE  /\ n \notin called'[d]
             /\ delivery'[d].status = "deleted" \/ reservation'[d][n] = "reserved"
  <2>1. Holding(c) /\ consumer[c].d = d /\ consumer[c].number = n => c = b
    BY DEF AttemptsAreOwn
  <2>2. n \notin called'[d]
    <3>1. CASE called' = called
      BY <1>1, <3>1
    <3>2. CASE CallTarget(c)
                 /\ called' = [called EXCEPT ![consumer[c].d] = @ \cup {consumer[c].number}]
      <4>1. consumer'[c].phase = "calling" /\ Holding(b)' 
        BY <3>2 DEF CallTarget, CallsTyped, Holding
      <4>2. c # b
        BY <4>1 DEF Holding
      <4>3. consumer[c].d # d \/ consumer[c].number # n
        BY <1>1, <2>1, <3>2, <4>2 DEF CallTarget, Holding, CallsAreRecorded, Numbers
      <4>. QED  BY <1>1, <3>2, <4>3 DEF TargetTyped
    <3>. QED  BY <1>4, <3>1, <3>2, CalledAfterStep DEF CalledAfter
  <2>3. CASE consumer[c].d # d
    <3>1. Kept(d)
      BY <1>1, <1>4, <2>3, ConsumerRows DEF Kept
    <3>. QED  BY <1>2, <2>2, <3>1
  <2>4. CASE consumer[c].d = d /\ ~Kept(d)
    <3>1. AttemptAfter(c)
      BY <1>1, <1>4, <2>4, AttemptsAfter, Zenon
    <3>2. CASE /\ Undo(c) /\ reservation'[d] = Undone(reservation[d], consumer[c].number)
               /\ delivery'[d].status = delivery[d].status
      <4>1. consumer'[c].phase = "retrying"
        BY <3>2 DEF Undo, CallsTyped
      <4>2. c # b
        BY <4>1 DEF Holding
      <4>3. consumer[c].number \in Numbers => consumer[c].number # n
        BY <2>1, <2>4, <3>2, <4>2 DEF Undo, Holding, Numbers
      <4>. QED  BY <1>1, <2>2, <3>2, <4>3 DEF Undone
    <3>3. CASE /\ reservation'[d] = [reservation[d] EXCEPT ![NextNumber(d)] = "reserved"]
               /\ delivery'[d].status = delivery[d].status
      BY <1>1, <2>2, <3>3
    <3>4. CASE /\ Report(c) \/ MarkInvoked(c)
               /\ reservation'[d] = Marked(c)
               /\ delivery'[d] = delivery[d] \/ delivery[d].status # "deleted"
      <4>1. consumer[c].number \in called[d]
        BY <2>4, <3>4 DEF CallsAreRecorded, HasCalled, Report, MarkInvoked
      <4>2. reservation'[d][n] = reservation[d][n]
        BY <1>1, <2>4, <3>4, <4>1 DEF Marked
      <4>. QED  BY <1>1, <2>2, <3>4, <4>2
    <3>. QED  BY <2>4, <3>1, <3>2, <3>3, <3>4, Zenon DEF AttemptAfter
  <2>. QED  BY <1>2, <2>2, <2>3, <2>4
<1>. QED  BY <1>3, <1>4 DEF Other

\* No two invocations ever hold the same number of a delivery.
LEMMA AttemptsAreOwnStep ==
  ASSUME TypeInv, AttemptInv, [Next]_vars PROVE AttemptsAreOwn'
<1>. USE DEF TypeInv, AttemptInv
<1>1. CASE UNCHANGED consumer
  BY <1>1, ReservationIsOwnStep DEF AttemptsAreOwn, Holding
<1>2. ASSUME NEW c \in AllConsumers, Consume(c) PROVE AttemptsAreOwn'
  <2>1. ASSUME NEW b \in AllConsumers \ {c}, Holding(b)'
        PROVE  Holding(b) /\ consumer'[b] = consumer[b] /\ ReservationIsOwn(b)'
    <3>1. consumer'[b] = consumer[b]
      BY <1>2, CallFrame
    <3>2. Holding(b)
      BY <2>1, <3>1 DEF Holding
    <3>. QED  BY <3>1, <3>2, ReservationIsOwnStep
  <2>2. ASSUME Holding(c)'
        PROVE  /\ ReservationIsOwn(c)'
               /\ \A b \in AllConsumers \ {c} :
                    Holding(b)' => consumer'[b].d # consumer'[c].d
                          \/ consumer'[b].number # consumer'[c].number
    <3>. DEFINE d == consumer[c].d
                n == NextNumber(d)
    <3>1. Reserve(c) /\ consumer'[c].d = d /\ consumer'[c].number = n
      BY <1>2, <2>2, HoldingAfter
    <3>2. d \in Deliveries /\ Open(d) /\ n \in Numbers /\ c \in Consumers
      BY <3>1 DEF Reserve, CallsTyped, InvocationsAreNamed
    <3>3. reservation'[d] = [reservation[d] EXCEPT ![n] = "reserved"] /\ UNCHANGED called
      BY <3>1, <3>2 DEF Reserve, ReservationsTyped, target
    <3>4. \A m \in Numbers : reservation[d][m] # "none" => m # n
      BY NextNumberIsFresh, <3>2 DEF MadeReservations
    <3>5. n \notin called[d]
      BY <3>2, <3>4 DEF RowsMatchCalls, Open, Numbers
    <3>6. ReservationIsOwn(c)'
      BY <3>1, <3>2, <3>3, <3>5 DEF ReservationIsOwn, ReservationsTyped
    <3>7. ASSUME NEW b \in AllConsumers \ {c}, Holding(b)', consumer'[b].d = d
                   PROVE consumer'[b].number # n
      <4>1. Holding(b) /\ consumer'[b] = consumer[b]
        BY <2>1, <3>7
      <4>2. consumer[b].number \in Numbers /\ reservation[d][consumer[b].number] = "reserved"
        BY <3>2, <3>7, <4>1 DEF AttemptsAreOwn, ReservationIsOwn, Open
      <4>. QED  BY <3>4, <4>1, <4>2
    <3>. QED  BY <3>1, <3>6, <3>7
  <2>3. \A b \in AllConsumers : Holding(b)' => ReservationIsOwn(b)'
    BY <2>1, <2>2
  <2>4. ASSUME NEW a \in AllConsumers, NEW b \in AllConsumers, Holding(a)', Holding(b)',
               consumer'[a].d = consumer'[b].d, consumer'[a].number = consumer'[b].number
        PROVE  a = b
    <3>1. CASE a # c /\ b # c
      BY <2>1, <2>4, <3>1 DEF AttemptsAreOwn
    <3>2. CASE a = c \/ b = c
      BY <2>2, <2>4, <3>2
    <3>. QED  BY <3>1, <3>2
  <2>. QED  BY <2>3, <2>4 DEF AttemptsAreOwn
<1>. QED  BY <1>1, <1>2, Frames

\* The four parts are inductive together.
LEMMA AttemptStep == TypeInv /\ AttemptInv /\ [Next]_vars => AttemptInv'
BY AttemptsAreOwnStep, CallsAreRecordedStep, RowsMatchCallsStep, CountIsOfRowsStep DEF AttemptInv

\* At first there are no attempts.
LEMMA InitAttempts == Init => AttemptInv
<1>. SUFFICES ASSUME Init PROVE AttemptInv
  OBVIOUS
<1>1. AttemptsAreOwn /\ CallsAreRecorded
  BY DEF Init, AttemptsAreOwn, CallsAreRecorded, Holding, HasCalled, NoInvocation
<1>2. RowsMatchCalls
  BY DEF Init, RowsMatchCalls
<1>3. CountIsOfRows
  <2>1. \A d \in Deliveries : MadeReservations(d) = {}
    BY DEF Init, MadeReservations
  <2>. QED  BY <2>1, FS_EmptySet DEF Init, CountIsOfRows, NoDelivery
<1>. QED  BY <1>1, <1>2, <1>3 DEF AttemptInv

\* The invariant says what the operator is shown.
LEMMA CountsAreExact == TypeInv /\ AttemptInv => CountIsExact /\ ResultHasNoError
<1>. SUFFICES ASSUME TypeInv, AttemptInv PROVE CountIsExact /\ ResultHasNoError
  OBVIOUS
<1>1. ASSUME NEW d \in Deliveries, delivery[d].result # "none", delivery[d].count # UnknownCount
      PROVE  delivery[d].count = Cardinality(called[d] \ {0})
  <2>1. /\ delivery[d].status = "queued" /\ delivery[d].count = Cardinality(MadeReservations(d))
        /\ \A n \in Numbers : reservation[d][n] # "reserved"
    BY <1>1 DEF AttemptInv, CountIsOfRows
  <2>2. MadeReservations(d) = called[d] \ {0}
    BY <2>1 DEF AttemptInv, RowsMatchCalls, MadeReservations, TypeInv, ReservationsTyped,
       TargetTyped, Numbers
  <2>. QED  BY <2>1, <2>2
<1>. QED  BY <1>1 DEF CountIsExact, ResultHasNoError, AttemptInv, CountIsOfRows

\* The number of a call has not been used.
LEMMA FreshNumber ==
  ASSUME AttemptInv, NEW c \in Consumers, consumer[c].phase = "reserved"
  PROVE  consumer[c].number \notin called[consumer[c].d]
BY DEF AttemptInv, AttemptsAreOwn, Holding, ReservationIsOwn, AllConsumers

\* No two calls of a Target carry one number; a recorded result counts exactly the calls
\* the platform made, or says that it does not know, and shows no error beside it: for every
\* number of deliveries, invocations and attempts.
THEOREM AttemptsAreCounted == Spec => CallsAreCounted
<1>1. TypeInv /\ AttemptInv /\ [Next]_vars =>
        [\A c \in Consumers : consumer[c].phase = "reserved" /\ consumer'[c].phase = "calling"
           => consumer[c].number \notin called[consumer[c].d]]_vars
  BY FreshNumber
<1>. QED  BY InitTyped, InitAttempts, TypingStep, AttemptStep, CountsAreExact, <1>1, PTL
          DEF Spec, CallsAreCounted, NumbersAreFresh

-----------------------------------------------------------------------------
\* Once a row is sent, or has been, it stays so.
LEMMA StartedStays ==
  ASSUME TypeInv, [Next]_vars, NEW d \in Deliveries, Started(d)
  PROVE  delivery'[d].status \notin {"none", "skipped"}
<1>1. RowOK(delivery[d]) /\ RowAfter(d)
  BY RowsAfter DEF TypeInv, RowsTyped
<1>2. delivery[d].status \notin {"none", "skipped"}
  BY DEF Started
<1>. DEFINE row == delivery[d]
            n == Recount(d, reservation'[d])
            m == ConfirmedCount(d, reservation'[d])
<1>3. \/ delivery'[d] \in {row, Aged(row), Forgotten, Abandoned(row), Flagged(row, TRUE),
                           Counted(row, n), Cleared(row, n)}
      \/ \E s \in Senders : delivery'[d] = Claimed(row, s)
      \/ \E st \in {"queued", "unknown"} : delivery'[d] = Settled(row, st)
      \/ \E c \in AllConsumers : delivery'[d] = Reported(row, consumer[c].answer, m)
  BY <1>1, <1>2 DEF RowAfter
<1>. HIDE DEF n, m
<1>4. \A s \in Senders : Claimed(row, s).status = "sending"
  BY <1>1, ClaimedFields
<1>5. \A st \in {"queued", "unknown"} : Settled(row, st).status = st
  BY <1>1, SettledFields
<1>6. \A c \in AllConsumers : Reported(row, consumer[c].answer, m).status = "queued"
  BY <1>1, ReportedFields
<1>7. /\ Aged(row).status = row.status /\ Abandoned(row).status = row.status
      /\ Flagged(row, TRUE).status = row.status /\ Counted(row, n).status = row.status
      /\ Cleared(row, n).status = row.status /\ Forgotten.status = "deleted"
  <2>1. Aged(row).status = row.status /\ Abandoned(row).status = row.status
    BY <1>1, AgedFields, AbandonedFields
  <2>2. Flagged(row, TRUE).status = row.status
    BY <1>1, FlaggedFields
  <2>3. Counted(row, n).status = row.status /\ Cleared(row, n).status = row.status
    BY <1>1, CountedFields, ClearedFields
  <2>. QED  BY <2>1, <2>2, <2>3, ForgottenFields, Zenon
<1>. HIDE DEF row
<1>. QED  BY <1>2, <1>3, <1>4, <1>5, <1>6, <1>7 DEF row

\* Nothing leaves the set of deliveries the Queue has had.
LEMMA AcceptedGrows ==
  ASSUME [Next]_vars PROVE accepted \subseteq accepted'
BY TargetFrame DEF QueueAccepts, SendFails, MessageArrives

RowsAreStarted == \A s \in Senders : \A d \in sender[s].rows : Started(d)
ChunksAreAccepted == \A s \in Senders : sender[s].phase = "accepted"
      => sender[s].chunk \subseteq accepted
AcceptedAreStarted == \A d \in accepted : Started(d)
CopyOK(d, i) ==
  /\ message[d][i].place # "free" => Started(d)
  /\ message[d][i].place \in {"queued", "held"} => d \in accepted
CopiesAreSound == \A d \in Deliveries, i \in Copies : CopyOK(d, i)
ConsumersAreSound == \A c \in AllConsumers : consumer[c].phase # "idle"
      => consumer[c].d \in accepted
OrphansAreSound == orphans \subseteq accepted

\* A run that begins or is over holds no rows.
LEMMA RunIsNew ==
  ASSUME RunsTyped, NEW s \in Senders, BeginRun(s) \/ EndRun(s) \/ SenderDies(s)
  PROVE  sender'[s].rows = {} /\ sender'[s].phase \in {"ready", "idle"}
<1>1. CASE BeginRun(s)
  BY <1>1 DEF BeginRun, NoRun, RunsTyped
<1>2. CASE EndRun(s) \/ SenderDies(s)
  <2>1. sender' = [sender EXCEPT ![s] = NoRun]
    BY <1>2, Zenon DEF EndRun, SenderDies
  <2>. QED  BY <2>1 DEF NoRun, RunsTyped
<1>. QED  BY <1>1, <1>2

\* A run holds rows that have been claimed.
LEMMA RowsAreStartedStep ==
  ASSUME TypeInv, RowsAreStarted, [Next]_vars PROVE RowsAreStarted'
<1>. USE DEF TypeInv
<1>. SUFFICES ASSUME NEW s \in Senders, NEW d \in sender'[s].rows
              PROVE  Started(d)'
  BY DEF RowsAreStarted
<1>1. sender'[s].rows \subseteq Deliveries
  BY RunsStep DEF RunsTyped, Run
<1>2. CASE d \in sender[s].rows
  BY <1>1, <1>2, StartedStays DEF RowsAreStarted, Started
<1>3. CASE d \notin sender[s].rows
  <2>1. Produce(s)
    <3>1. CASE Elapse
      BY <3>1, <1>3 DEF Elapse, RunsTyped, Run
    <3>. QED  BY <3>1, <1>3, Frames, RunFrame
  <2>2. PICK some \in SUBSET Deliveries : ClaimMany(s, some)
    <3>1. CASE BuildFails(s) \/ HaltRun(s) \/ QueueAccepts(s) \/ SendFails(s) \/ FinishThrows(s)
      <4>1. \E p : sender' = [sender EXCEPT ![s].phase = p]
        BY <3>1, Zenon DEF BuildFails, HaltRun, QueueAccepts, SendFails, FinishThrows
      <4>. QED  BY <4>1, <1>3 DEF RunsTyped, Run
    <3>2. CASE BeginRun(s) \/ EndRun(s) \/ SenderDies(s)
      <4>1. sender'[s].rows = {}
        BY <3>2, RunIsNew, Zenon
      <4>. QED  BY <4>1
    <3>3. CASE FinishAccepted(s)
      BY <3>3, <1>3 DEF FinishAccepted, RunsTyped, Run
    <3>4. CASE FinishFailed(s)
      BY <3>4, <1>3 DEF FinishFailed, RunsTyped, Run
    <3>5. ASSUME NEW some \in SUBSET Deliveries, SendChunk(s, some) PROVE FALSE
      BY <3>5, <1>3 DEF SendChunk, RunsTyped, Run
    <3>. QED  BY <2>1, <3>1, <3>2, <3>3, <3>4, <3>5 DEF Produce
  <2>3. d \in some /\ d \in Deliveries
    BY <1>1, <2>2 DEF ClaimMany, RunsTyped, Run
  <2>4. delivery'[d] = Claimed(delivery[d], s) /\ RowOK(delivery[d])
    BY <2>2, <2>3 DEF ClaimMany, Claimed, RowsTyped
  <2>. QED  BY <2>4, ClaimedFields DEF Started
<1>. QED  BY <1>2, <1>3

\* A chunk is finished as accepted only after the Queue has accepted it.
LEMMA ChunksAreAcceptedStep ==
  ASSUME TypeInv, ChunksAreAccepted, [Next]_vars PROVE ChunksAreAccepted'
<1>. USE DEF TypeInv
<1>. SUFFICES ASSUME NEW s \in Senders, sender'[s].phase = "accepted"
              PROVE  sender'[s].chunk \subseteq accepted'
  BY DEF ChunksAreAccepted
<1>1. CASE sender[s].phase = "accepted" /\ sender'[s].chunk = sender[s].chunk
  BY <1>1, AcceptedGrows DEF ChunksAreAccepted
<1>2. CASE ~(sender[s].phase = "accepted" /\ sender'[s].chunk = sender[s].chunk)
  <2>1. Produce(s)
    <3>1. CASE Elapse
      BY <3>1, <1>2 DEF Elapse, RunsTyped, Run
    <3>. QED  BY <3>1, <1>2, Frames, RunFrame
  <2>2. QueueAccepts(s)
    <3>1. CASE BuildFails(s) \/ HaltRun(s) \/ SendFails(s) \/ FinishThrows(s)
      <4>1. \E p : p # "accepted" /\ sender' = [sender EXCEPT ![s].phase = p]
        BY <3>1 DEF BuildFails, HaltRun, SendFails, FinishThrows
      <4>. QED  BY <4>1 DEF RunsTyped, Run
    <3>2. CASE BeginRun(s) \/ EndRun(s) \/ SenderDies(s)
      BY <3>2, RunIsNew
    <3>3. CASE FinishAccepted(s)
      BY <3>3 DEF FinishAccepted, RunsTyped, Run
    <3>4. CASE FinishFailed(s)
      BY <3>4 DEF FinishFailed, RunsTyped, Run
    <3>5. ASSUME NEW some \in SUBSET Deliveries, SendChunk(s, some) \/ ClaimMany(s, some)
                   PROVE FALSE
      <4>1. CASE SendChunk(s, some)
        BY <4>1 DEF SendChunk, RunsTyped, Run
      <4>2. CASE ClaimMany(s, some)
        BY <4>2 DEF ClaimMany, RunsTyped, Run
      <4>. QED  BY <3>5, <4>1, <4>2
    <3>. QED  BY <2>1, <3>1, <3>2, <3>3, <3>4, <3>5 DEF Produce
  <2>3. sender'[s].chunk = sender[s].chunk /\ accepted' = accepted \cup sender[s].chunk
    BY <2>2 DEF QueueAccepts, RunsTyped, Run
  <2>. QED  BY <2>3
<1>. QED  BY <1>1, <1>2

\* What the Queue has accepted was sent before.
LEMMA AcceptedAreStartedStep ==
  ASSUME TypeInv, LeaseOutlives, RowsAreStarted, CopiesAreSound, AcceptedAreStarted, [Next]_vars
  PROVE  AcceptedAreStarted'
<1>. USE DEF TypeInv
<1>1. accepted' \subseteq Deliveries
  BY TargetStep DEF TargetTyped
<1>2. \A d \in accepted' : Started(d)
  <2>1. ASSUME NEW s \in Senders, QueueAccepts(s) \/ SendFails(s)
        PROVE  \A d \in accepted' : Started(d)
    <3>1. sender[s].chunk \subseteq sender[s].rows
      BY <2>1 DEF QueueAccepts, SendFails, LeaseOutlives, BatchIsOwn
    <3>2. accepted' \subseteq accepted \cup sender[s].chunk
      BY <2>1 DEF QueueAccepts, SendFails
    <3>. QED  BY <3>1, <3>2 DEF RowsAreStarted, AcceptedAreStarted
  <2>2. ASSUME NEW d \in Deliveries, NEW i \in Copies, MessageArrives(d, i)
        PROVE  \A x \in accepted' : Started(x)
    BY <2>2 DEF MessageArrives, CopiesAreSound, CopyOK, AcceptedAreStarted
  <2>3. CASE UNCHANGED accepted
    BY <2>3 DEF AcceptedAreStarted
  <2>. QED  BY <2>1, <2>2, <2>3, TargetFrame
<1>. QED  BY <1>1, <1>2, StartedStays DEF AcceptedAreStarted, Started

\* An invocation is about a delivery the Queue has had.
LEMMA ConsumersAreSoundStep ==
  ASSUME TypeInv, CopiesAreSound, ConsumersAreSound, [Next]_vars PROVE ConsumersAreSound'
<1>. USE DEF TypeInv
<1>1. ASSUME NEW b \in AllConsumers, consumer'[b] = consumer[b]
      PROVE  consumer'[b].phase # "idle" => consumer'[b].d \in accepted'
  BY <1>1, AcceptedGrows DEF ConsumersAreSound
<1>2. ASSUME NEW c \in AllConsumers, Consume(c)
      PROVE  consumer'[c].phase # "idle" => consumer'[c].d \in accepted'
  <2>1. CallAfter(c)
    BY <1>2, CallsAfter
  <2>2. NoInvocation.phase = "idle"
    BY DEF NoInvocation
  <2>3. ASSUME NEW d \in Deliveries, NEW i \in Copies, Receive(c, d, i) PROVE d \in accepted'
    BY <2>3, AcceptedGrows DEF Receive, CopiesAreSound, CopyOK
  <2>4. consumer[c].phase # "idle" => consumer[c].d \in accepted'
    BY AcceptedGrows DEF ConsumersAreSound
  <2>5. Reserve(c) \/ ReserveFails(c) \/ CallTarget(c) \/ HasCalled(c)
          => consumer[c].phase # "idle"
    BY DEF Reserve, ReserveFails, CallTarget, HasCalled
  <2>. QED  BY <2>1, <2>2, <2>3, <2>4, <2>5 DEF CallAfter
<1>3. UNCHANGED consumer \/ \E c \in AllConsumers : Consume(c)
        /\ \A b \in AllConsumers \ {c} : consumer'[b] = consumer[b]
  BY Frames, CallFrame
<1>. QED  BY <1>1, <1>2, <1>3 DEF ConsumersAreSound

\* So is a call nobody waits for any more.
LEMMA OrphansAreSoundStep ==
  ASSUME TypeInv, ConsumersAreSound, OrphansAreSound, [Next]_vars PROVE OrphansAreSound'
<1>1. \/ orphans' \subseteq orphans
      \/ \E c \in AllConsumers : consumer[c].phase = "calling"
            /\ orphans' \subseteq orphans \cup {consumer[c].d}
  BY TargetFrame DEF target, OrphanRuns, ConsumerChangesTarget, CallTarget, TargetAnswers,
     CallFails, ConsumerDies
<1>. QED  BY <1>1, AcceptedGrows DEF OrphansAreSound, ConsumersAreSound

-----------------------------------------------------------------------------
\* What the Queue makes of a copy.
CopyAfter(d, i) ==
  LET old == message[d][i].place
      new == message'[d][i].place
  IN \/ new = old
     \/ new = "free"
     \/ old \in {"queued", "held"} /\ new \in {"queued", "held"}
     \/ old = "floating" /\ new = "queued" /\ d \in accepted'
     \/ \E s \in Senders :
          /\ sender[s].phase = "sending" /\ d \in sender[s].chunk
          /\ new = "floating" \/ d \in accepted'

\* ack and retry.
LEMMA ReturnedCopies ==
  ASSUME MessagesTyped, NEW c, Acked(c) \/ Returned(c), NEW d \in Deliveries, NEW i \in Copies
  PROVE  CopyAfter(d, i)
<1>. USE DEF MessagesTyped, Message
<1>1. CASE Acked(c)
  BY <1>1 DEF Acked, CopyAfter, NoMessage
<1>2. CASE Returned(c)
  <2>. DEFINE m == message[consumer[c].d][consumer[c].copy]
              back == IF m.place # "held" THEN m
                      ELSE IF m.tries < MaxTries THEN [m EXCEPT !.place = "queued"] ELSE NoMessage
  <2>1. message' = [message EXCEPT ![consumer[c].d][consumer[c].copy] = back]
    BY <1>2 DEF Returned
  <2>2. CASE d = consumer[c].d /\ i = consumer[c].copy
    <3>1. message'[d][i] = back /\ m = message[d][i]
      BY <2>1, <2>2
    <3>2. \/ back = m
          \/ m.place = "held" /\ back.place \in {"queued", "free"}
      BY <2>2 DEF NoMessage
    <3>. QED  BY <3>1, <3>2 DEF CopyAfter
  <2>3. CASE ~(d = consumer[c].d /\ i = consumer[c].copy)
    <3>. HIDE DEF back
    <3>1. message'[d][i] = message[d][i]
      BY <2>1, <2>3
    <3>. QED  BY <3>1 DEF CopyAfter
  <2>. QED  BY <2>2, <2>3
<1>. QED  BY <1>1, <1>2

\* Every step does one of these things to a copy.
LEMMA CopiesAfter ==
  ASSUME MessagesTyped, [Next]_vars, NEW d \in Deliveries, NEW i \in Copies
  PROVE  CopyAfter(d, i)
<1>. USE DEF MessagesTyped
<1>1. CASE UNCHANGED message
  BY <1>1 DEF CopyAfter
<1>2. ASSUME NEW s \in Senders, QueueAccepts(s) \/ SendFails(s) PROVE CopyAfter(d, i)
  <2>1. PICK at, place :
          /\ message' = Enqueued(at, place)
          /\ d \in at => d \in sender[s].chunk /\ (place[d] = "floating" \/ d \in accepted')
    <3>1. CASE QueueAccepts(s)
      BY <3>1 DEF QueueAccepts
    <3>2. CASE SendFails(s)
      <4>1. PICK some \in SUBSET {x \in sender[s].chunk : FreeCopy(x) # {}} :
              \E place \in [some -> {"queued", "floating"}] :
                /\ message' = Enqueued(some, place)
                /\ accepted' = accepted \cup {x \in some : place[x] = "queued"}
        BY <3>2, Zenon DEF SendFails
      <4>2. PICK place \in [some -> {"queued", "floating"}] :
              /\ message' = Enqueued(some, place)
              /\ accepted' = accepted \cup {x \in some : place[x] = "queued"}
        BY <4>1
      <4>. QED  BY <4>1, <4>2
    <3>. QED  BY <1>2, <3>1, <3>2
  <2>2. \/ message'[d] = message[d]
        \/ \E j : message'[d] = [message[d] EXCEPT ![j] = [place |-> place[d], tries |-> 0]]
              /\ d \in at
    BY <2>1 DEF Enqueued
  <2>3. \/ message'[d][i] = message[d][i]
        \/ d \in at /\ message'[d][i].place = place[d]
    <3>1. ASSUME NEW j, message'[d] = [message[d] EXCEPT ![j] = [place |-> place[d], tries |-> 0]], i # j
          PROVE  message'[d][i] = message[d][i]
      BY <3>1
    <3>2. ASSUME message'[d] = [message[d] EXCEPT ![i] = [place |-> place[d], tries |-> 0]]
          PROVE  message'[d][i].place = place[d]
      BY <3>2
    <3>. QED  BY <2>2, <3>1, <3>2
  <2>4. sender[s].phase = "sending"
    BY <1>2 DEF QueueAccepts, SendFails
  <2>. QED  BY <2>1, <2>3, <2>4 DEF CopyAfter
<1>3. ASSUME NEW e \in Deliveries, NEW j \in Copies, MessageArrives(e, j) \/ MessageLost(e, j)
      PROVE  CopyAfter(d, i)
  <2>1. CASE MessageArrives(e, j)
    BY <2>1 DEF MessageArrives, CopyAfter, Message
  <2>2. CASE MessageLost(e, j)
    BY <2>2 DEF MessageLost, CopyAfter, NoMessage
  <2>. QED  BY <1>3, <2>1, <2>2
<1>4. ASSUME NEW c \in AllConsumers, NEW e \in Deliveries, NEW j \in Copies, Receive(c, e, j)
      PROVE  CopyAfter(d, i)
  <2>1. PICK p \in {"queued", "held"} :
          message' = [message EXCEPT ![e][j] = [place |-> p, tries |-> @.tries + 1]]
    BY <1>4 DEF Receive
  <2>2. message[e][j].place = "queued"
    BY <1>4 DEF Receive
  <2>. QED  BY <2>1, <2>2 DEF CopyAfter
<1>5. ASSUME NEW c \in AllConsumers, Refuse(c) \/ Report(c) \/ RetryMessage(c) \/ ConsumerDies(c)
      PROVE  CopyAfter(d, i)
  <2>1. UNCHANGED message \/ Acked(c) \/ Returned(c)
    BY <1>5, Zenon DEF Refuse, Report, RetryMessage, ConsumerDies
  <2>. QED  BY <1>1, <2>1, ReturnedCopies
<1>. QED  BY <1>1, <1>2, <1>3, <1>4, <1>5, Frames, Zenon DEF ConsumerChangesMessage

\* A copy in the Queue is of a delivery it has accepted.
LEMMA CopiesAreSoundStep ==
  ASSUME TypeInv, LeaseOutlives, RowsAreStarted, CopiesAreSound, [Next]_vars
  PROVE  CopiesAreSound'
<1>. SUFFICES ASSUME NEW d \in Deliveries, NEW i \in Copies PROVE CopyOK(d, i)'
  BY DEF CopiesAreSound
<1>1. CopyAfter(d, i) /\ CopyOK(d, i)
        /\ message'[d][i].place \in {"free", "floating", "queued", "held"}
  BY CopiesAfter, MessagesStep DEF TypeInv, CopiesAreSound, MessagesTyped, Message
<1>2. ASSUME NEW s \in Senders, sender[s].phase = "sending", d \in sender[s].chunk
               PROVE Started(d)
  BY <1>2 DEF LeaseOutlives, BatchIsOwn, RowsAreStarted
<1>3. Started(d) => Started(d)'
  BY StartedStays DEF Started
<1>. QED  BY <1>1, <1>2, <1>3, AcceptedGrows DEF CopyAfter, CopyOK

\* The parts of SentAreAccepted.
LEMMA SentParts ==
  SentAreAccepted <=> /\ AcceptedAreStarted /\ RowsAreStarted /\ ChunksAreAccepted
                      /\ CopiesAreSound /\ ConsumersAreSound /\ OrphansAreSound
BY DEF SentAreAccepted, AcceptedAreStarted, RowsAreStarted, ChunksAreAccepted, CopiesAreSound,
   CopyOK,
   ConsumersAreSound, OrphansAreSound

\* Nothing is received that was not sent: the parts are inductive together.
LEMMA SentStep == TypeInv /\ LeaseOutlives /\ SentAreAccepted /\ [Next]_vars => SentAreAccepted'
<1>1. ASSUME TypeInv, LeaseOutlives, SentAreAccepted, [Next]_vars
      PROVE  (/\ AcceptedAreStarted /\ RowsAreStarted /\ ChunksAreAccepted
              /\ CopiesAreSound /\ ConsumersAreSound /\ OrphansAreSound)'
  BY <1>1, SentParts, AcceptedAreStartedStep, RowsAreStartedStep, ChunksAreAcceptedStep,
     CopiesAreSoundStep, ConsumersAreSoundStep, OrphansAreSoundStep
<1>. QED  BY <1>1, SentParts, PTL

-----------------------------------------------------------------------------
EffectKept == /\ \A d \in Deliveries : effects'[d] = effects[d] \/ effects'[d] = 1

\* The website does an effect once and never takes it back (executeQueueProbe).
LEMMA EffectsGrow ==
  ASSUME TargetTyped, effects \in [Deliveries -> {0, 1}], [Next]_vars
  PROVE  effects' \in [Deliveries -> {0, 1}] /\ \A d \in Deliveries : effects[d] = 1
          => effects'[d] = 1
<1>1. UNCHANGED effects \/ \E d : effects' = EffectOnce(d)
  BY TargetFrame, Zenon DEF target, OrphanRuns, ConsumerChangesTarget, CallTarget,
     TargetAnswers, CallFails, ConsumerDies
<1>. QED  BY <1>1 DEF EffectOnce

\* An invocation that heard of a success can rely on the effect.
LEMMA EffectsStep ==
  ASSUME TypeInv, EffectsAreOnce, [Next]_vars PROVE EffectsAreOnce'
<1>. USE DEF TypeInv
<1>1. effects' \in [Deliveries -> {0, 1}] /\ \A d \in Deliveries : effects[d] = 1
        => effects'[d] = 1
  BY EffectsGrow DEF EffectsAreOnce
<1>2. ASSUME NEW b \in AllConsumers, consumer'[b] = consumer[b]
      PROVE  consumer'[b].phase \in {"answered", "vouched"} /\ consumer'[b].answer = "succeeded"
               => effects'[consumer'[b].d] = 1
  BY <1>1, <1>2 DEF EffectsAreOnce, CallsTyped, InvocationsAreNamed
<1>3. ASSUME NEW c \in AllConsumers, Consume(c)
      PROVE  consumer'[c].phase \in {"answered", "vouched"} /\ consumer'[c].answer = "succeeded"
               => effects'[consumer'[c].d] = 1
  <2>. SUFFICES ASSUME consumer'[c].phase \in {"answered", "vouched"}, consumer'[c].answer = "succeeded"
                PROVE  effects'[consumer'[c].d] = 1
    OBVIOUS
  <2>1. TargetAnswers(c) \/ CheckReceipt(c)
    <3>1. ASSUME NEW p \in {"unnamed", "undo", "retrying", "calling", "failing", "marked"},
                 consumer' = [consumer EXCEPT ![c].phase = p] PROVE FALSE
      BY <3>1 DEF CallsTyped
    <3>2. consumer' # [consumer EXCEPT ![c] = NoInvocation]
      BY DEF NoInvocation, CallsTyped
    <3>3. ~Reserve(c)
      <4>1. ASSUME NEW p \in {"reserved", "undo"}, NEW n,
                   consumer' = [consumer EXCEPT ![c] = [@ EXCEPT !.phase = p, !.number = n]] PROVE FALSE
        BY <4>1 DEF CallsTyped, Invocation
      <4>. QED  BY <4>1, Zenon DEF Reserve
    <3>4. ~\E d \in Deliveries, i \in Copies : Receive(c, d, i)
      BY DEF Receive, CallsTyped
    <3>5. ~\/ PrepareFails(c) \/ RecordUnnamedError(c) \/ ReserveFails(c) \/ Undo(c)
            \/ ObservationFails(c)
           \/ CallTarget(c) \/ CallFails(c) \/ ReportFails(c) \/ MarkInvoked(c) \/ RecordError(c)
      BY <3>1, Zenon DEF PrepareFails, RecordUnnamedError, ReserveFails, Undo, ObservationFails,
         CallTarget,
         CallFails, ReportFails, MarkInvoked, RecordError
    <3>6. ~(Refuse(c) \/ Report(c) \/ RetryMessage(c) \/ ConsumerDies(c))
      BY <3>1, <3>2, Zenon DEF Refuse, Report, RetryMessage, ConsumerDies, Acked, Returned
    <3>. QED  BY <1>3, <3>3, <3>4, <3>5, <3>6, Zenon DEF Consume
  <2>2. consumer[c].d \in Deliveries /\ consumer'[c].d = consumer[c].d
    <3>1. consumer[c].d \in Deliveries
      BY <2>1 DEF TargetAnswers, CheckReceipt, CallsTyped, InvocationsAreNamed
    <3>2. CallAfter(c) /\ NoInvocation.phase = "idle"
      BY <1>3, CallsAfter DEF NoInvocation
    <3>. QED  BY <3>1, <3>2 DEF CallAfter
  <2>3. CASE TargetAnswers(c)
    <3>1. CASE effects' = EffectOnce(consumer[c].d)
      BY <1>1, <2>2, <3>1 DEF EffectOnce, EffectsAreOnce
    <3>2. CASE consumer' = [consumer EXCEPT ![c] = [@ EXCEPT !.phase = "answered", !.answer = "failed"]]
      BY <3>2 DEF CallsTyped, Invocation
    <3>. QED  BY <2>3, <3>1, <3>2 DEF TargetAnswers
  <2>4. CASE CheckReceipt(c)
    <3>1. consumer[c].phase = "answered" /\ consumer'[c].answer = consumer[c].answer
      BY <2>4 DEF CheckReceipt, CallsTyped, Invocation
    <3>. QED  BY <1>1, <2>2, <3>1 DEF EffectsAreOnce
  <2>. QED  BY <2>1, <2>3, <2>4
<1>4. UNCHANGED consumer \/ \E c \in AllConsumers : Consume(c)
        /\ \A b \in AllConsumers \ {c} : consumer'[b] = consumer[b]
  BY Frames, CallFrame
<1>5. \A b \in AllConsumers :
        consumer'[b].phase \in {"answered", "vouched"} /\ consumer'[b].answer = "succeeded"
               => effects'[consumer'[b].d] = 1
  BY <1>2, <1>3, <1>4
<1>. QED  BY <1>1, <1>5 DEF EffectsAreOnce

-----------------------------------------------------------------------------
StageOf(r) == IF r.status \in Unresolved THEN "intended" ELSE r.status
Shown(d) == StageOf(delivery'[d]) = StageOf(delivery[d])
      /\ delivery'[d].result = delivery[d].result

\* Rows that keep stage and result show nothing new.
LEMMA StutterShown ==
  ASSUME \A d \in Deliveries : Shown(d)
  PROVE  Stages' = Stages /\ Outcomes' = Outcomes
BY DEF Shown, Stages, Outcomes, StageOf

\* Such a step is none of the contract.
LEMMA QuietStep ==
  ASSUME UNCHANGED <<accepted, effects>>, \A d \in Deliveries : Shown(d)
  PROVE  UNCHANGED Contract!vars
<1>1. Stages' = Stages /\ Outcomes' = Outcomes
  BY StutterShown
<1>. QED  BY <1>1 DEF Contract!vars

\* materialize is Intend.
LEMMA MaterializeIntends ==
  ASSUME TypeInv, NEW d \in Deliveries, Materialize(d) PROVE Contract!Intend(d)
<1>1. PICK st \in {"pending", "skipped"} : delivery' = [delivery EXCEPT ![d].status = st]
  BY DEF Materialize
<1>2. delivery[d].status = "none" /\ UNCHANGED <<accepted, effects>>
  BY DEF Materialize, target
<1>. DEFINE to == IF st = "pending" THEN "intended" ELSE "skipped"
<1>3. Stages[d] = "none"
  BY <1>2 DEF Stages, Unresolved
<1>4. Stages' = [Stages EXCEPT ![d] = to]
  BY <1>1, <1>2 DEF Stages, Unresolved, TypeInv, RowsTyped, RowOK, DeliveryRow
<1>5. Outcomes' = Outcomes
  BY <1>1 DEF Outcomes, TypeInv, RowsTyped, RowOK, DeliveryRow
<1>. HIDE DEF to
<1>6. to \in {"intended", "skipped"}
  BY DEF to
<1>. QED  BY <1>2, <1>3, <1>4, <1>5, <1>6 DEF Contract!Intend

\* finish after an accepted chunk is HandOver of the rows that still carry the token.
LEMMA FinishHandsOver ==
  ASSUME TypeInv, ChunksAreAccepted, NEW s \in Senders, sender[s].phase = "accepted",
         delivery' = Finished(s, sender[s].chunk, TRUE), UNCHANGED <<accepted, effects>>
  PROVE  \E some \in SUBSET Deliveries : Contract!HandOver(some)
<1>. DEFINE some == {d \in sender[s].chunk : delivery[d].status = "sending"
       /\ delivery[d].lease = s}
<1>1. some \subseteq accepted /\ some \subseteq Deliveries
  BY DEF ChunksAreAccepted, TypeInv, RunsTyped, Run
<1>2. \A d \in some : Stages[d] = "intended"
  BY <1>1 DEF Stages, Unresolved
<1>3. \A d \in Deliveries :
        IF d \in some THEN delivery'[d] = Settled(delivery[d], "queued") ELSE delivery'[d] = delivery[d]
  BY DEF Finished, Settled
<1>4. \A d \in Deliveries : RowOK(delivery[d])
  BY DEF TypeInv, RowsTyped
<1>. HIDE DEF some
<1>5. \A d \in Deliveries :
        /\ delivery'[d].result = delivery[d].result
        /\ delivery'[d].status = IF d \in some THEN "queued" ELSE delivery[d].status
  <2>1. \A d \in Deliveries : /\ Settled(delivery[d], "queued").result = delivery[d].result
                               /\ Settled(delivery[d], "queued").status = "queued"
    BY <1>4, SettledFields
  <2>. QED  BY <1>3, <2>1
<1>6. Outcomes' = Outcomes
  BY <1>5 DEF Outcomes
<1>7. Stages' = [d \in Deliveries |-> IF d \in some THEN "queued" ELSE Stages[d]]
  BY <1>5 DEF Stages, Unresolved
<1>. QED  BY <1>1, <1>2, <1>6, <1>7 DEF Contract!HandOver

\* cleanup is Forget.
LEMMA CleanupForgets ==
  ASSUME TypeInv, NEW s \in Senders, EndRun(s)
  PROVE  \E some \in SUBSET Deliveries : Contract!Forget(some)
<1>1. PICK old \in SUBSET {d \in Deliveries : delivery[d].status \in {"queued", "skipped"}} :
        delivery' = [d \in Deliveries |-> IF d \in old THEN Forgotten ELSE delivery[d]]
  BY DEF EndRun, Forgotten
<1>2. old \in SUBSET Deliveries /\ UNCHANGED <<accepted, effects>>
  BY DEF EndRun, target
<1>3. \A d \in old : Stages[d] \in {"queued", "skipped"}
  BY <1>1, <1>2 DEF Stages, Unresolved
<1>4. \A d \in Deliveries :
        /\ delivery'[d].result = IF d \in old THEN "none" ELSE delivery[d].result
        /\ delivery'[d].status = IF d \in old THEN "deleted" ELSE delivery[d].status
  BY <1>1, ForgottenFields
<1>5. Stages' = [d \in Deliveries |-> IF d \in old THEN "deleted" ELSE Stages[d]]
  BY <1>4 DEF Stages, Unresolved
<1>6. Outcomes' = [d \in Deliveries |-> IF d \in old THEN "none" ELSE Outcomes[d]]
  BY <1>4 DEF Outcomes
<1>. QED  BY <1>2, <1>3, <1>5, <1>6 DEF Contract!Forget

\* A message that gets into the Queue is Enqueue.
LEMMA QueueEnqueues ==
  ASSUME TypeInv, LeaseOutlives, SentAreAccepted, NEW some \in SUBSET Deliveries,
         \A d \in some : Started(d),
         accepted' = accepted \cup some, UNCHANGED <<delivery, effects>>
  PROVE  Contract!Enqueue(some)
<1>1. \A d \in some : Stages[d] \notin {"none", "skipped"}
  BY DEF Stages, Started, Unresolved
<1>2. Stages' = Stages /\ Outcomes' = Outcomes
  BY DEF Stages, Outcomes
<1>. QED  BY <1>1, <1>2 DEF Contract!Enqueue

\* A call of the Target is Perform, or nothing when it was done before.
LEMMA EffectPerforms ==
  ASSUME TypeInv, EffectsAreOnce, NEW d \in accepted, effects' = EffectOnce(d),
         UNCHANGED <<delivery, accepted>>
  PROVE  Contract!Perform(d) \/ UNCHANGED Contract!vars
<1>1. Stages' = Stages /\ Outcomes' = Outcomes
  BY DEF Stages, Outcomes
<1>2. CASE effects[d] = 0
  BY <1>1, <1>2 DEF EffectOnce, Contract!Perform
<1>3. CASE effects[d] # 0
  <2>1. effects' = effects
    BY <1>3 DEF EffectOnce, EffectsAreOnce
  <2>. QED  BY <1>1, <2>1 DEF Contract!vars
<1>. QED  BY <1>2, <1>3

\* report is Answer, or nothing when the same result is there already.
LEMMA ReportAnswers ==
  ASSUME TypeInv, CountIsOfRows, SentAreAccepted, EffectsAreOnce, NEW c \in AllConsumers, Report(c)
  PROVE  \/ UNCHANGED Contract!vars
         \/ \E d \in Deliveries, o \in {"succeeded", "failed"} : Contract!Answer(d, o)
<1>. DEFINE d == consumer[c].d
            o == consumer[c].answer
            n == ConfirmedCount(d, Marked(c))
<1>1. /\ d \in Deliveries /\ d \in accepted /\ o \in {"succeeded", "failed"}
      /\ o = "succeeded" => effects[d] = 1
  BY DEF Report, TypeInv, CallsTyped, InvocationsAreNamed, AnswersAreGiven, Invocation,
     SentAreAccepted,
     EffectsAreOnce
<1>2. UNCHANGED <<accepted, effects>>
  BY DEF Report, target
<1>3. \/ delivery' = delivery
      \/ /\ NoOtherResult(d, o)
         /\ delivery' = [delivery EXCEPT ![d] =
              [@ EXCEPT !.result = o, !.status = "queued", !.lease = "none", !.error = FALSE, !.count = n]]
  BY Zenon DEF Report
<1>. HIDE DEF n, o, d
<1>4. CASE delivery' = delivery
  BY <1>2, <1>4 DEF Contract!vars, Stages, Outcomes
<1>5. CASE /\ NoOtherResult(d, o)
           /\ delivery' = [delivery EXCEPT ![d] =
              [@ EXCEPT !.result = o, !.status = "queued", !.lease = "none", !.error = FALSE, !.count = n]]
  <2>1. delivery'[d] = Reported(delivery[d], o, n)
          /\ \A x \in Deliveries \ {d} : delivery'[x] = delivery[x]
    BY <1>1, <1>5 DEF Reported, TypeInv, RowsTyped
  <2>2. RowOK(delivery[d])
    BY <1>1 DEF TypeInv, RowsTyped
  <2>3. delivery'[d].status = "queued" /\ delivery'[d].result = o
    BY <2>1, <2>2, ReportedFields
  <2>4. Stages' = [Stages EXCEPT ![d] = "queued"] /\ Outcomes' = [Outcomes EXCEPT ![d] = o]
    BY <1>1, <2>1, <2>3 DEF Stages, Outcomes, Unresolved
  <2>5. CASE delivery[d].result = "none"
    <3>1. Stages[d] \in {"intended", "queued"} /\ Outcomes[d] = "none"
      BY <1>1, <1>5, <2>2, <2>5 DEF Stages, Outcomes, SentAreAccepted, Started, NoOtherResult,
         RowOK,
         DeliveryRow
    <3>2. Contract!Answer(d, o)
      BY <1>1, <1>2, <2>4, <3>1 DEF Contract!Answer
    <3>. QED  BY <1>1, <3>2
  <2>6. CASE delivery[d].result # "none"
    <3>1. delivery[d].result = o /\ delivery[d].status = "queued"
      BY <1>1, <1>5, <2>6 DEF NoOtherResult, CountIsOfRows
    <3>2. Stages' = Stages /\ Outcomes' = Outcomes
      BY <1>1, <2>4, <3>1 DEF Stages, Outcomes, Unresolved
    <3>. QED  BY <1>2, <3>2 DEF Contract!vars
  <2>. QED  BY <2>5, <2>6
<1>. QED  BY <1>3, <1>4, <1>5
\* Every step of the code is a step of the contract or leaves it alone.
ContractInv == TypeInv /\ LeaseOutlives /\ AttemptInv /\ SentAreAccepted /\ EffectsAreOnce

\* Every step of a run implements the contract.
LEMMA ProducerImplements ==
  ASSUME ContractInv, NEW s \in Senders, Produce(s)
  PROVE  Contract!Next \/ UNCHANGED Contract!vars
<1>. USE DEF ContractInv
<1>1. [Next]_vars
  BY Zenon DEF Next
<1>2. CASE FinishAccepted(s) \/ FinishThrows(s)
  <2>1. /\ sender[s].phase = "accepted" /\ UNCHANGED <<accepted, effects>>
        /\ delivery' = delivery \/ delivery' = Finished(s, sender[s].chunk, TRUE)
    BY <1>2 DEF FinishAccepted, FinishThrows, target
  <2>2. delivery' = delivery => UNCHANGED Contract!vars
    BY <2>1 DEF Contract!vars, Stages, Outcomes
  <2>. QED  BY <2>1, <2>2, FinishHandsOver, SentParts DEF Contract!Next
<1>3. CASE EndRun(s)
  BY <1>3, CleanupForgets DEF Contract!Next
<1>4. CASE QueueAccepts(s) \/ SendFails(s)
  <2>1. PICK some \in SUBSET sender[s].chunk :
          accepted' = accepted \cup some /\ UNCHANGED <<delivery, effects>>
    BY <1>4 DEF QueueAccepts, SendFails, target
  <2>2. sender[s].chunk \subseteq sender[s].rows /\ sender[s].rows \subseteq Deliveries
    BY <1>4 DEF QueueAccepts, SendFails, LeaseOutlives, BatchIsOwn, TypeInv, RunsTyped, Run
  <2>3. \A d \in some : Started(d)
    BY <2>1, <2>2 DEF SentAreAccepted
  <2>. QED  BY <2>1, <2>2, <2>3, QueueEnqueues DEF Contract!Next
<1>5. CASE ~\/ FinishAccepted(s) \/ FinishThrows(s) \/ EndRun(s) \/ QueueAccepts(s)
             \/ SendFails(s)
  <2>1. UNCHANGED <<accepted, effects>>
    BY <1>5, Zenon DEF Produce, BeginRun, BuildFails, HaltRun, SendChunk, ClaimMany, FinishFailed,
       SenderDies, target
  <2>2. \A d \in Deliveries : Shown(d)
    <3>1. CASE UNCHANGED delivery
      BY <3>1 DEF Shown
    <3>2. CASE FinishFailed(s)
      <4>1. \A d \in Deliveries :
              \/ delivery'[d] = delivery[d]
              \/ /\ delivery[d].status = "sending"
                 /\ delivery'[d].status = "unknown" /\ delivery'[d].result = delivery[d].result
        <5>1. ASSUME NEW d \in Deliveries, d \in sender[s].rows, delivery[d].lease = s,
                     delivery[d].status = "sending"
              PROVE  /\ delivery'[d].status = "unknown"
                     /\ delivery'[d].result = delivery[d].result
          <6>1. delivery'[d] = [delivery[d] EXCEPT !.status = "unknown", !.lease = "none",
                                                   !.timer = RetryDelay]
            BY <3>2, <5>1 DEF FinishFailed, Finished
          <6>. QED  BY <6>1 DEF TypeInv, RowsTyped, RowOK, DeliveryRow
        <5>. QED  BY <3>2, <5>1 DEF FinishFailed, Finished
      <4>2. ASSUME NEW d \in Deliveries PROVE Shown(d)
        <5>1. CASE delivery'[d] = delivery[d]
          BY <5>1 DEF Shown
        <5>2. CASE /\ delivery[d].status = "sending" /\ delivery'[d].status = "unknown"
                   /\ delivery'[d].result = delivery[d].result
          BY <5>2 DEF Shown, StageOf, Unresolved
        <5>. QED  BY <4>1, <5>1, <5>2
      <4>. QED  BY <4>2
    <3>3. CASE SenderDies(s)
      BY <3>3 DEF SenderDies, DropLease, Shown, StageOf, TypeInv, RowsTyped, RowOK, DeliveryRow
    <3>4. ASSUME NEW some \in SUBSET Deliveries, ClaimMany(s, some)
                   PROVE \A d \in Deliveries : Shown(d)
      <4>1. \A d \in Deliveries :
              \/ delivery'[d] = delivery[d]
              \/ delivery[d].status \in Unresolved /\ delivery'[d] = Claimed(delivery[d], s)
        BY <3>4 DEF ClaimMany, Claimable, Claimed
      <4>2. \A d \in Deliveries : /\ Claimed(delivery[d], s).status = "sending"
                                   /\ Claimed(delivery[d], s).result = delivery[d].result
        BY ClaimedFields DEF TypeInv, RowsTyped
      <4>. QED  BY <4>1, <4>2 DEF Shown, StageOf, Unresolved
    <3>. QED
      BY <1>5, <3>1, <3>2, <3>3, <3>4, Zenon DEF Produce, BeginRun, BuildFails, HaltRun, SendChunk
  <2>. QED  BY <2>1, <2>2, QuietStep
<1>. QED  BY <1>2, <1>3, <1>4, <1>5

\* Every step of an invocation implements the contract.
LEMMA ConsumerImplements ==
  ASSUME ContractInv, NEW c \in AllConsumers, Consume(c)
  PROVE  Contract!Next \/ UNCHANGED Contract!vars
<1>. USE DEF ContractInv
<1>1. CASE Report(c)
  BY <1>1, ReportAnswers DEF Contract!Next, AttemptInv
<1>2. CASE ~Report(c) /\ effects' # effects
  <2>1. /\ consumer[c].phase = "calling" /\ effects' = EffectOnce(consumer[c].d)
        /\ UNCHANGED <<delivery, accepted>>
    BY <1>2, Zenon DEF Consume, Receive, PrepareFails, Refuse, RecordUnnamedError, Reserve,
       ReserveFails, Undo, ObservationFails, CallTarget, TargetAnswers, CallFails, CheckReceipt,
       ReportFails, MarkInvoked, RecordError, RetryMessage, ConsumerDies, target
  <2>2. consumer[c].d \in accepted /\ accepted \subseteq Deliveries
    BY <2>1 DEF SentAreAccepted, TypeInv, TargetTyped
  <2>. QED  BY <2>1, <2>2, EffectPerforms DEF Contract!Next
<1>3. CASE ~Report(c) /\ effects' = effects
  <2>1. UNCHANGED accepted
    BY Zenon DEF Consume, Receive, PrepareFails, Refuse, RecordUnnamedError, Reserve,
       ReserveFails, Undo, ObservationFails, CallTarget, TargetAnswers, CallFails, CheckReceipt, Report,
       ReportFails, MarkInvoked, RecordError, RetryMessage, ConsumerDies
  <2>2. \A d \in Deliveries : Shown(d)
    <3>1. \A d \in Deliveries \ {consumer[c].d} : Shown(d)
      BY ConsumerRows, Zenon DEF Shown, TypeInv
    <3>2. ASSUME consumer[c].d \in Deliveries PROVE Shown(consumer[c].d)
      <4>. DEFINE d == consumer[c].d
                  row == delivery[d]
                  n == Recount(d, reservation'[d])
      <4>1. OwnRowAfter(c)
        BY <3>2, ConsumerRows DEF TypeInv
      <4>2. delivery'[d] \in {row, Flagged(row, TRUE), Counted(row, n), Cleared(row, n)}
        BY <1>3, <4>1 DEF OwnRowAfter
      <4>3. RowOK(row)
        BY <3>2 DEF TypeInv, RowsTyped
      <4>4. Flagged(row, TRUE).status = row.status /\ Flagged(row, TRUE).result = row.result
        BY <4>3, FlaggedFields
      <4>. HIDE DEF n
      <4>5. /\ Counted(row, n).status = row.status /\ Counted(row, n).result = row.result
            /\ Cleared(row, n).status = row.status /\ Cleared(row, n).result = row.result
        BY <4>3, CountedFields, ClearedFields
      <4>. QED  BY <4>2, <4>4, <4>5 DEF Shown, StageOf
    <3>. QED  BY <3>1, <3>2
  <2>. QED  BY <1>3, <2>1, <2>2, QuietStep
<1>. QED  BY <1>1, <1>2, <1>3

\* Every step of the system implements the contract.
LEMMA ContractStep ==
  ASSUME ContractInv, [Next]_vars
  PROVE  [Contract!Next]_(Contract!vars)
<1>. USE DEF ContractInv
<1>1. ASSUME NEW d \in Deliveries, Materialize(d) PROVE Contract!Next
  BY <1>1, MaterializeIntends DEF Contract!Next
<1>2. ASSUME NEW d \in Deliveries, OrphanRuns(d) PROVE Contract!Next \/ UNCHANGED Contract!vars
  <2>1. d \in accepted /\ effects' = EffectOnce(d) /\ UNCHANGED <<delivery, accepted>>
    BY <1>2 DEF OrphanRuns, SentAreAccepted
  <2>. QED  BY <2>1, EffectPerforms DEF Contract!Next
<1>3. ASSUME NEW d \in Deliveries, NEW i \in Copies, MessageArrives(d, i) PROVE Contract!Next
  <2>1. Started(d) /\ accepted' = accepted \cup {d} /\ UNCHANGED <<delivery, effects>>
    BY <1>3 DEF MessageArrives, SentAreAccepted, target
  <2>2. Contract!Enqueue({d})
    BY <2>1, QueueEnqueues
  <2>. QED  BY <2>2 DEF Contract!Next
<1>4. ASSUME UNCHANGED <<delivery, accepted, effects>> PROVE UNCHANGED Contract!vars
  BY <1>4 DEF Contract!vars, Stages, Outcomes
<1>5. CASE Switch \/ UNCHANGED vars \/ \E d \in Deliveries, i \in Copies : MessageLost(d, i)
  BY <1>4, <1>5 DEF Switch, vars, target, MessageLost
<1>6. CASE Elapse
  <2>1. UNCHANGED <<accepted, effects>>
    BY <1>6 DEF Elapse, target
  <2>2. \A d \in Deliveries : Shown(d)
    BY <1>6 DEF Elapse, Shown, StageOf, TypeInv, RowsTyped, RowOK, DeliveryRow
  <2>. QED  BY <2>1, <2>2, QuietStep
<1>. QED  BY <1>1, <1>2, <1>3, <1>5, <1>6, ProducerImplements, ConsumerImplements, Zenon DEF Next

\* Queue mode keeps its contract, whoever crashes and whatever is lost or repeated: sent
\* only what was intended, done at most once and only after it was sent, answered
\* truthfully and once.
THEOREM DeliveryImplementsContract == Spec => ImplementsContract
<1>1. Init => LeaseOutlives /\ SentAreAccepted /\ EffectsAreOnce
  BY DEF Init, LeaseOutlives, BatchIsOwn, Sending, SentAreAccepted, EffectsAreOnce, NoRun,
     NoMessage, NoInvocation
<1>2. Init => ContractInv
  BY <1>1, InitTyped, InitAttempts DEF ContractInv
<1>3. ContractInv /\ [Next]_vars => ContractInv'
  BY TypingStep, LeaseStep, AttemptStep, SentStep, EffectsStep DEF ContractInv
<1>4. Init => Contract!Init
  BY DEF Init, Contract!Init, Stages, Outcomes, NoDelivery, Unresolved
<1>. QED  BY <1>2, <1>3, <1>4, ContractStep, PTL DEF Spec, ImplementsContract, Contract!Spec

=============================================================================
