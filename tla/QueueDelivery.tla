---------------------------- MODULE QueueDelivery ----------------------------
(***************************************************************************)
(* Queue mode: an occurrence becomes a row of `trigger_deliveries` (an     *)
(* outbox), a Tick sends it to the shared Queue under a lease, and a       *)
(* consumer calls the Target and records the business result.              *)
(*                                                                         *)
(* Every D1 statement or batch is one action; a call that throws has       *)
(* committed or has not.  The Queue delays, loses and repeats messages.    *)
(*                                                                         *)
(* Abstractions.  Times count down: `timer` is what is left until          *)
(* available_at or lease_expires_at, `left` what is left of the run's 40   *)
(* seconds.  A lease token is a UUID drawn per claim, compared for         *)
(* equality only: it is named by the sender whose current batch it covers, *)
(* and is "stale" when no batch has it.  Rows are cleaned when they are 30 *)
(* days old; here a terminal row may be cleaned at any age.  An attempt id *)
(* is identified with the row it created, by its number.  The producer's   *)
(* own count `attempts` is only displayed and left out.                    *)
(***************************************************************************)
EXTENDS Integers, FiniteSets

CONSTANTS
  Deliveries,       \* ids of trigger_deliveries rows, one per occurrence
  Senders,          \* Ticks that run TriggerDeliveryApplication at a time
  Consumers,        \* Queue invocations of the platform at a time
  WebsiteConsumers, \* the same, of a website that consumes its own Queue
  Batch,            \* per_target_batch
  LeaseTime,        \* 90 s
  WallBudget,       \* 40 s
  RetryDelay,       \* 60 s
  MaxTries,         \* how often the Queue delivers one message
  MaxCopies,        \* bound: messages of one delivery in the Queue at a time
  MaxAttempts,      \* bound: business attempts of one delivery
  MaxSwitches       \* bound: changes of the schedule, the action, the website

AllConsumers == Consumers \cup WebsiteConsumers

ASSUME QueueBounds ==
  /\ Batch \in Nat \ {0} /\ MaxTries \in Nat \ {0} /\ MaxCopies \in Nat \ {0}
  /\ LeaseTime \in Nat /\ WallBudget \in Nat /\ RetryDelay \in Nat
  /\ RetryDelay =< LeaseTime /\ WallBudget =< LeaseTime
  /\ MaxAttempts \in Nat /\ MaxSwitches \in Nat
ASSUME ActorsAreDistinct ==
  /\ Consumers \cap WebsiteConsumers = {}
  /\ "none" \notin Senders \cup Deliveries /\ "stale" \notin Senders

VARIABLES
  switches,    \* switches used (bound only)
  effective,   \* effective_enabled of the deliveries' schedule
  idempotent,  \* registered_actions.idempotent
  supported,   \* the deployed website knows the action
  delivery,    \* trigger_deliveries
  reservation, \* trigger_consumer_attempts, by delivery and number
  sender,      \* the runs of TriggerDeliveryApplication
  message,     \* the Queue
  consumer,    \* the invocations that consume it
  effects,     \* business effects committed at the website, per delivery
  orphans,     \* Target calls nobody waits for any more
  accepted,    \* deliveries the Queue has accepted a message of (history)
  called       \* attempt numbers the Target was called with (history)

world == <<switches, effective, idempotent, supported>>
target == <<effects, orphans, called>>
vars == <<world, delivery, reservation, sender, message, consumer, target, accepted>>

-----------------------------------------------------------------------------
Copies == 1 .. MaxCopies
Numbers == 1 .. MaxAttempts
Unresolved == {"pending", "sending", "unknown"}
UnknownCount == -1     \* consumer_attempts IS NULL

DeliveryRow ==
  [status: Unresolved \cup {"none", "queued", "skipped", "deleted"},
   lease: Senders \cup {"none", "stale"}, timer: Nat,
   result: {"none", "succeeded", "failed"}, count: Nat \cup {UnknownCount}, error: BOOLEAN]

Run ==
  [phase: {"idle", "ready", "claimed", "sending", "accepted", "failing", "ending"},
   left: Nat, rows: SUBSET Deliveries, chunk: SUBSET Deliveries]

Message == [place: {"free", "floating", "queued", "held"}, tries: 0 .. MaxTries]

Invocation ==
  [phase: {"idle", "received", "reserved", "undo", "unnamed", "calling", "answered",
           "vouched", "failing", "marked", "retrying"},
   d: Deliveries \cup {"none"}, copy: Copies, number: 0 .. MaxAttempts, answer: {"none", "succeeded", "failed"}]

NoDelivery ==
  [status |-> "none", lease |-> "none", timer |-> 0, result |-> "none",
   count |-> 0, error |-> FALSE]
NoRun == [phase |-> "idle", left |-> 0, rows |-> {}, chunk |-> {}]
NoMessage == [place |-> "free", tries |-> 0]
NoInvocation ==
  [phase |-> "idle", d |-> "none", copy |-> 1,
   number |-> 0, answer |-> "none"]

Init ==
  /\ switches = 0 /\ effective = TRUE /\ idempotent = TRUE /\ supported = TRUE
  /\ delivery = [d \in Deliveries |-> NoDelivery]
  /\ reservation = [d \in Deliveries |-> [n \in Numbers |-> "none"]]
  /\ sender = [s \in Senders |-> NoRun]
  /\ message = [d \in Deliveries |-> [i \in Copies |-> NoMessage]]
  /\ consumer = [c \in AllConsumers |-> NoInvocation]
  /\ effects = [d \in Deliveries |-> 0]
  /\ orphans = {} /\ accepted = {}
  /\ called = [d \in Deliveries |-> {}]

-----------------------------------------------------------------------------
(* The producer: application/deliver-triggers.ts *)

\* materialize inserts the row.  The idempotent flag it decides by was read
\* before the batch; the schedule's own rows are the subject of ScheduleTable.
Materialize(d) ==
  /\ delivery[d].status = "none"
  /\ effective
  /\ \E skip \in BOOLEAN :
       delivery' = [delivery EXCEPT ![d].status = IF skip THEN "skipped" ELSE "pending"]
  /\ UNCHANGED <<world, reservation, sender, message, consumer, target, accepted>>

\* A token no batch has any more.
DropLease(s) ==
  [d \in Deliveries |->
     IF delivery[d].lease = s THEN [delivery[d] EXCEPT !.lease = "stale"] ELSE delivery[d]]

BeginRun(s) ==
  /\ sender[s].phase = "idle"
  /\ sender' = [sender EXCEPT ![s] = [NoRun EXCEPT !.phase = "ready", !.left = WallBudget]]
  /\ UNCHANGED <<world, delivery, reservation, message, consumer, target, accepted>>

\* Mutant: a row whose sender died is never taken up again.
ClaimableUnlessSending(d) ==
  /\ effective /\ idempotent
  /\ delivery[d].status \in {"pending", "unknown"}
  /\ delivery[d].timer = 0
Claimable(d) ==
  /\ effective /\ idempotent
  /\ delivery[d].status \in Unresolved
  /\ delivery[d].timer = 0

\* claimMany.  Which rows come first is left open.
ClaimMany(s, rows) ==
  /\ sender[s].phase = "ready"
  /\ sender[s].left > 0
  /\ rows # {} /\ Cardinality(rows) =< Batch
  /\ \A d \in rows : Claimable(d)
  /\ delivery' = [d \in Deliveries |->
       IF d \in rows
       THEN [delivery[d] EXCEPT !.status = "sending", !.lease = s, !.timer = LeaseTime]
       ELSE delivery[d]]
  /\ sender' = [sender EXCEPT ![s] = [@ EXCEPT !.phase = "claimed", !.rows = rows]]
  /\ UNCHANGED <<world, reservation, message, consumer, target, accepted>>

\* messageChunks throws: the signing key has changed.
BuildFails(s) ==
  /\ sender[s].phase = "claimed"
  /\ sender[s].chunk = {}
  /\ sender' = [sender EXCEPT ![s].phase = "failing"]
  /\ UNCHANGED <<world, delivery, reservation, message, consumer, target, accepted>>

\* Mutant: the run does not look at the clock between two chunks.
SendChunkAnyTime(s, chunk) ==
  /\ sender[s].phase = "claimed"
  /\ chunk # {} /\ chunk \subseteq sender[s].rows
  /\ sender' = [sender EXCEPT ![s] = [@ EXCEPT !.phase = "sending", !.chunk = chunk]]
  /\ UNCHANGED <<world, delivery, reservation, message, consumer, target, accepted>>

SendChunk(s, chunk) ==
  /\ sender[s].phase = "claimed"
  /\ sender[s].left > 0
  /\ chunk # {} /\ chunk \subseteq sender[s].rows
  /\ sender' = [sender EXCEPT ![s] = [@ EXCEPT !.phase = "sending", !.chunk = chunk]]
  /\ UNCHANGED <<world, delivery, reservation, message, consumer, target, accepted>>

\* The 40 seconds are over: what has not been sent goes back.
HaltRun(s) ==
  /\ sender[s].phase = "claimed"
  /\ sender[s].left = 0
  /\ sender' = [sender EXCEPT ![s].phase = "failing"]
  /\ UNCHANGED <<world, delivery, reservation, message, consumer, target, accepted>>

FreeCopy(d) == {i \in Copies : message[d][i].place = "free"}

\* A message of each d in `at` enters the Queue, or is on its way to it.
Enqueued(at, place) ==
  [d \in Deliveries |->
     IF d \in at
     THEN [message[d] EXCEPT ![CHOOSE i \in FreeCopy(d) : \A j \in FreeCopy(d) : i =< j] =
             [place |-> place[d], tries |-> 0]]
     ELSE message[d]]

\* sendBatch resolves.
QueueAccepts(s) ==
  /\ sender[s].phase = "sending"
  /\ \A d \in sender[s].chunk : FreeCopy(d) # {}
  /\ message' = Enqueued(sender[s].chunk, [d \in sender[s].chunk |-> "queued"])
  /\ accepted' = accepted \cup sender[s].chunk
  /\ sender' = [sender EXCEPT ![s].phase = "accepted"]
  /\ UNCHANGED <<world, delivery, reservation, consumer, target>>

\* sendBatch rejects, or the 3 seconds pass first: some of the messages may be
\* in the Queue all the same, or get there later.
SendFails(s) ==
  /\ sender[s].phase = "sending"
  /\ \E some \in SUBSET {d \in sender[s].chunk : FreeCopy(d) # {}} :
       \E place \in [some -> {"queued", "floating"}] :
         /\ message' = Enqueued(some, place)
         /\ accepted' = accepted \cup {d \in some : place[d] = "queued"}
  /\ sender' = [sender EXCEPT ![s].phase = "failing"]
  /\ UNCHANGED <<world, delivery, reservation, consumer, target>>

\* finish: one UPDATE over the rows that still have the batch's token.
\* Mutant: it asks for the token only, which it leaves in the row.
FinishedKeepingToken(s, rows, accept) ==
  [d \in Deliveries |->
     IF d \in rows /\ delivery[d].lease = s
     THEN [delivery[d] EXCEPT !.status = IF accept THEN "queued" ELSE "unknown",
                              !.timer = RetryDelay]
     ELSE delivery[d]]
Finished(s, rows, accept) ==
  [d \in Deliveries |->
     IF d \in rows /\ delivery[d].status = "sending" /\ delivery[d].lease = s
     THEN [delivery[d] EXCEPT !.status = IF accept THEN "queued" ELSE "unknown",
                              !.lease = "none", !.timer = RetryDelay]
     ELSE delivery[d]]

\* Mutant: a chunk that was accepted settles the whole batch.
FinishAcceptedBatch(s) ==
  /\ sender[s].phase = "accepted"
  /\ delivery' = Finished(s, sender[s].rows, TRUE)
  /\ sender' = [sender EXCEPT ![s] = [@ EXCEPT !.phase = "ready", !.rows = {}, !.chunk = {}]]
  /\ UNCHANGED <<world, reservation, message, consumer, target, accepted>>

FinishAccepted(s) ==
  /\ sender[s].phase = "accepted"
  /\ delivery' = Finished(s, sender[s].chunk, TRUE)
  /\ LET rest == sender[s].rows \ sender[s].chunk
     IN sender' = [sender EXCEPT ![s] =
          [@ EXCEPT !.phase = IF rest = {} THEN "ready" ELSE "claimed",
                    !.rows = rest,
                    !.chunk = IF rest = {} THEN {} ELSE sender[s].chunk]]
  /\ UNCHANGED <<world, reservation, message, consumer, target, accepted>>

\* finish throws after the Queue accepted: the catch marks the rest unknown,
\* this chunk included.
FinishThrows(s) ==
  /\ sender[s].phase = "accepted"
  /\ delivery' \in {delivery, Finished(s, sender[s].chunk, TRUE)}
  /\ sender' = [sender EXCEPT ![s].phase = "failing"]
  /\ UNCHANGED <<world, reservation, message, consumer, target, accepted>>

FinishFailed(s) ==
  /\ sender[s].phase = "failing"
  /\ delivery' = Finished(s, sender[s].rows, FALSE)
  /\ sender' = [sender EXCEPT ![s] = [@ EXCEPT !.phase = "ending", !.rows = {}, !.chunk = {}]]
  /\ UNCHANGED <<world, reservation, message, consumer, target, accepted>>

\* cleanup: one statement over what is old enough, then the run is over.
EndRun(s) ==
  /\ sender[s].phase \in {"ready", "ending"}
  /\ \E old \in SUBSET {d \in Deliveries : delivery[d].status \in {"queued", "skipped"}} :
       /\ old # {} => sender[s].left > 0
       /\ delivery' = [d \in Deliveries |->
            IF d \in old THEN [NoDelivery EXCEPT !.status = "deleted"] ELSE delivery[d]]
       /\ reservation' = [d \in Deliveries |->
            IF d \in old THEN [n \in Numbers |-> "none"] ELSE reservation[d]]
  /\ sender' = [sender EXCEPT ![s] = NoRun]
  /\ UNCHANGED <<world, message, consumer, target, accepted>>

\* The isolate of the Tick dies, or a D1 call outside the catch throws.
SenderDies(s) ==
  /\ sender[s].phase # "idle"
  /\ delivery' = DropLease(s)
  /\ sender' = [sender EXCEPT ![s] = NoRun]
  /\ UNCHANGED <<world, reservation, message, consumer, target, accepted>>

-----------------------------------------------------------------------------
(* The Queue *)

MessageArrives(d, i) ==
  /\ message[d][i].place = "floating"
  /\ message' = [message EXCEPT ![d][i].place = "queued"]
  /\ accepted' = accepted \cup {d}
  /\ UNCHANGED <<world, delivery, reservation, sender, consumer, target>>

\* A request that never arrived, or a message at the end of its retention.
MessageLost(d, i) ==
  /\ message[d][i].place \in {"floating", "queued"}
  /\ message' = [message EXCEPT ![d][i] = NoMessage]
  /\ UNCHANGED <<world, delivery, reservation, sender, consumer, target, accepted>>

\* The consumer gets the message; the Queue may hand it out once more.
Receive(c, d, i) ==
  /\ consumer[c].phase = "idle"
  /\ message[d][i].place = "queued" /\ message[d][i].tries < MaxTries
  /\ \E again \in BOOLEAN :
       /\ again => message[d][i].tries + 1 < MaxTries
       /\ message' = [message EXCEPT ![d][i] =
            [place |-> IF again THEN "queued" ELSE "held", tries |-> @.tries + 1]]
  /\ consumer' = [consumer EXCEPT ![c] =
       [phase |-> "received", d |-> d, copy |-> i, number |-> 0, answer |-> "none"]]
  /\ UNCHANGED <<world, delivery, reservation, sender, target, accepted>>

\* ack: the invocation is over and the message gone.
Acked(c) ==
  /\ message' = IF message[consumer[c].d][consumer[c].copy].place = "held"
                THEN [message EXCEPT ![consumer[c].d][consumer[c].copy] = NoMessage]
                ELSE message
  /\ consumer' = [consumer EXCEPT ![c] = NoInvocation]

\* retry, or no answer at all: redelivered until the tries are used, then dead.
Returned(c) ==
  /\ message' = [message EXCEPT ![consumer[c].d][consumer[c].copy] =
       IF @.place # "held" THEN @
       ELSE IF @.tries < MaxTries THEN [@ EXCEPT !.place = "queued"] ELSE NoMessage]
  /\ consumer' = [consumer EXCEPT ![c] = NoInvocation]

-----------------------------------------------------------------------------
(* The platform's consumer: application/consume-dispatch-queue.ts *)

MadeReservations(d) == {n \in Numbers : reservation[d][n] # "none"}
LastReservation(d) ==
  IF MadeReservations(d) = {} THEN 0
  ELSE CHOOSE n \in MadeReservations(d) : \A m \in MadeReservations(d) : m =< n

\* consumer_attempts, recomputed from the rows unless it is unknown already.
Recount(d, rows) ==
  IF delivery[d].count = UnknownCount THEN UnknownCount
  ELSE Cardinality({n \in Numbers : rows[n] # "none"})

Open(d) == delivery[d].status \notin {"none", "deleted"} /\ delivery[d].result = "none"

\* The target is not configured: nothing is reserved, only the error is kept.
PrepareFails(c) ==
  /\ c \in Consumers /\ consumer[c].phase = "received"
  /\ consumer' = [consumer EXCEPT ![c].phase = "unnamed"]
  /\ UNCHANGED <<world, delivery, reservation, sender, message, target, accepted>>

RecordUnnamedError(c) ==
  /\ consumer[c].phase = "unnamed"
  /\ \/ Open(consumer[c].d) /\ delivery' = [delivery EXCEPT ![consumer[c].d].error = TRUE]
     \/ UNCHANGED delivery
  /\ consumer' = [consumer EXCEPT ![c].phase = "retrying"]
  /\ UNCHANGED <<world, reservation, sender, message, target, accepted>>

\* consumerStarted finds no open delivery: the message is acknowledged.
Refuse(c) ==
  /\ c \in Consumers /\ consumer[c].phase = "received"
  /\ ~Open(consumer[c].d)
  /\ Acked(c)
  /\ UNCHANGED <<world, delivery, reservation, sender, target, accepted>>

\* consumerStarted, whose acknowledgement may be lost.
\* Mutant: the next number is the number of rows plus one.
NextNumberByCount(d) == Cardinality(MadeReservations(d)) + 1
NextNumber(d) == LastReservation(d) + 1

Reserve(c) ==
  /\ c \in Consumers /\ consumer[c].phase = "received"
  /\ Open(consumer[c].d)
  /\ LET d == consumer[c].d
         n == NextNumber(d)
         rows == [reservation[d] EXCEPT ![n] = "reserved"]
     IN /\ n \in Numbers
        /\ reservation' = [reservation EXCEPT ![d] = rows]
        /\ delivery' = [delivery EXCEPT ![d] =
             [@ EXCEPT !.count = Recount(d, rows), !.error = FALSE]]
        /\ \E phase \in {"reserved", "undo"} :
             consumer' = [consumer EXCEPT ![c] = [@ EXCEPT !.phase = phase, !.number = n]]
  /\ UNCHANGED <<world, sender, message, target, accepted>>

\* consumerStarted throws and has not committed.
ReserveFails(c) ==
  /\ c \in Consumers /\ consumer[c].phase = "received"
  /\ consumer' = [consumer EXCEPT ![c].phase = "undo"]
  /\ UNCHANGED <<world, delivery, reservation, sender, message, target, accepted>>

\* consumerNotStarted; the consumerFailed that follows finds no attempt.
Undo(c) ==
  /\ consumer[c].phase = "undo"
  /\ LET d == consumer[c].d
         rows == IF consumer[c].number \in Numbers
                 THEN [reservation[d] EXCEPT ![consumer[c].number] = "none"]
                 ELSE reservation[d]
     IN /\ reservation' = [reservation EXCEPT ![d] = rows]
        /\ delivery' = IF delivery[d].status = "deleted" THEN delivery
                       ELSE [delivery EXCEPT ![d].count = Recount(d, rows)]
  /\ consumer' = [consumer EXCEPT ![c].phase = "retrying"]
  /\ UNCHANGED <<world, sender, message, target, accepted>>

\* consumerNotStarted or consumerFailed throws: the observation is lost.
ObservationFails(c) ==
  /\ consumer[c].phase \in {"undo", "failing", "marked"}
  /\ consumer' = [consumer EXCEPT ![c].phase = "retrying"]
  /\ UNCHANGED <<world, delivery, reservation, sender, message, target, accepted>>

\* The RPC goes out; a website's own consumer calls its function at once.
CallTarget(c) ==
  /\ \/ consumer[c].phase = "reserved"
     \/ c \in WebsiteConsumers /\ consumer[c].phase = "received"
  /\ consumer' = [consumer EXCEPT ![c].phase = "calling"]
  /\ called' = [called EXCEPT ![consumer[c].d] = @ \cup {consumer[c].number}]
  /\ UNCHANGED <<world, delivery, reservation, sender, message, effects, orphans, accepted>>

\* executeQueueProbe: result and effect commit together, once per key.
EffectOnce(d) == [effects EXCEPT ![d] = IF effects[d] = 0 THEN 1 ELSE effects[d]]

TargetAnswers(c) ==
  /\ consumer[c].phase = "calling"
  /\ \/ /\ supported
        /\ effects' = EffectOnce(consumer[c].d)
        /\ consumer' = [consumer EXCEPT ![c] =
             [@ EXCEPT !.phase = "answered", !.answer = "succeeded"]]
     \/ /\ ~supported
        /\ consumer' = [consumer EXCEPT ![c] =
             [@ EXCEPT !.phase = "answered", !.answer = "failed"]]
        /\ UNCHANGED effects
  /\ UNCHANGED <<world, delivery, reservation, sender, message, orphans, called, accepted>>

\* The call throws, or its answer is lost: the Target may have run it, may
\* still run it, or never has.
CallFails(c) ==
  /\ consumer[c].phase = "calling"
  /\ \/ supported /\ effects' = EffectOnce(consumer[c].d) /\ UNCHANGED orphans
     \/ orphans' = orphans \cup {consumer[c].d} /\ UNCHANGED effects
     \/ UNCHANGED <<effects, orphans>>
  /\ consumer' = [consumer EXCEPT ![c].phase = "failing"]
  /\ UNCHANGED <<world, delivery, reservation, sender, message, called, accepted>>

OrphanRuns(d) ==
  /\ d \in orphans
  /\ supported
  /\ effects' = EffectOnce(d)
  /\ orphans' = orphans \ {d}
  /\ UNCHANGED <<world, delivery, reservation, sender, message, consumer, called, accepted>>

\* report, its SELECT by receipt: the delivery exists and has been sent.
CheckReceipt(c) ==
  /\ consumer[c].phase = "answered"
  /\ consumer' = [consumer EXCEPT ![c].phase =
       IF delivery[consumer[c].d].status \in {"sending", "unknown", "queued"}
       THEN "vouched" ELSE "failing"]
  /\ UNCHANGED <<world, delivery, reservation, sender, message, target, accepted>>

\* The count stands only if every reservation is known to have been used.
ConfirmedCount(d, rows) ==
  IF (\A n \in Numbers : rows[n] # "reserved") /\ (\E n \in Numbers : rows[n] = "invoked")
  THEN delivery[d].count ELSE UnknownCount

Marked(c) ==
  LET d == consumer[c].d
      n == consumer[c].number
  IN IF n \in Numbers /\ reservation[d][n] # "none"
     THEN [reservation[d] EXCEPT ![n] = "invoked"] ELSE reservation[d]

NoOtherResult(d, answer) ==
  delivery[d].status # "deleted" /\ delivery[d].result \in {"none", answer}

\* report, its batch; the acknowledgement may be lost, and a conflict throws.
Report(c) ==
  /\ consumer[c].phase = "vouched"
  /\ LET d == consumer[c].d
         answer == consumer[c].answer
     IN /\ reservation' = [reservation EXCEPT ![d] = Marked(c)]
        /\ IF NoOtherResult(d, answer)
           THEN /\ delivery' = [delivery EXCEPT ![d] =
                     [@ EXCEPT !.result = answer, !.status = "queued", !.lease = "none",
                               !.error = FALSE, !.count = ConfirmedCount(d, Marked(c))]]
                /\ \/ Acked(c)
                   \/ /\ consumer' = [consumer EXCEPT ![c].phase = "failing"]
                      /\ UNCHANGED message
           ELSE /\ consumer' = [consumer EXCEPT ![c].phase = "failing"]
                /\ UNCHANGED <<delivery, message>>
  /\ UNCHANGED <<world, sender, target, accepted>>

\* report throws and has not committed.
ReportFails(c) ==
  /\ consumer[c].phase \in {"answered", "vouched"}
  /\ consumer' = [consumer EXCEPT ![c].phase = "failing"]
  /\ UNCHANGED <<world, delivery, reservation, sender, message, target, accepted>>

\* consumerFailed, its first UPDATE.
MarkInvoked(c) ==
  /\ c \in Consumers /\ consumer[c].phase = "failing"
  /\ reservation' = [reservation EXCEPT ![consumer[c].d] = Marked(c)]
  /\ consumer' = [consumer EXCEPT ![c].phase = "marked"]
  /\ UNCHANGED <<world, delivery, sender, message, target, accepted>>

MayRecordError(d, n) == Open(d) /\ n = LastReservation(d)

\* consumerFailed, its second UPDATE: only the latest attempt is heard.
RecordError(c) ==
  /\ consumer[c].phase = "marked"
  /\ delivery' = [delivery EXCEPT ![consumer[c].d].error =
       IF MayRecordError(consumer[c].d, consumer[c].number) THEN TRUE ELSE @]
  /\ consumer' = [consumer EXCEPT ![c].phase = "retrying"]
  /\ UNCHANGED <<world, reservation, sender, message, target, accepted>>

\* message.retry(); a website's consumer records nothing before it.
RetryMessage(c) ==
  /\ \/ consumer[c].phase = "retrying"
     \/ c \in WebsiteConsumers /\ consumer[c].phase = "failing"
  /\ Returned(c)
  /\ UNCHANGED <<world, delivery, reservation, sender, target, accepted>>

ConsumerDies(c) ==
  /\ consumer[c].phase # "idle"
  /\ \/ consumer[c].phase = "calling" /\ orphans' = orphans \cup {consumer[c].d}
     \/ UNCHANGED orphans
  /\ Returned(c)
  /\ UNCHANGED <<world, delivery, reservation, sender, effects, called, accepted>>

-----------------------------------------------------------------------------
(* The world around, and the clock *)

Switch ==
  /\ switches < MaxSwitches
  /\ switches' = switches + 1
  /\ \/ effective' = ~effective /\ UNCHANGED <<idempotent, supported>>
     \/ idempotent' = ~idempotent /\ UNCHANGED <<effective, supported>>
     \/ supported' = ~supported /\ UNCHANGED <<effective, idempotent>>
  /\ UNCHANGED <<delivery, reservation, sender, message, consumer, target, accepted>>

Less(t) == IF t = 0 THEN 0 ELSE t - 1

Elapse ==
  /\ delivery' = [d \in Deliveries |-> [delivery[d] EXCEPT !.timer = Less(@)]]
  /\ sender' = [s \in Senders |-> [sender[s] EXCEPT !.left = Less(@)]]
  /\ UNCHANGED <<world, reservation, message, consumer, target, accepted>>

-----------------------------------------------------------------------------
Produce(s) ==
  \/ BeginRun(s) \/ BuildFails(s) \/ HaltRun(s) \/ QueueAccepts(s) \/ SendFails(s)
  \/ FinishAccepted(s) \/ FinishThrows(s) \/ FinishFailed(s) \/ EndRun(s) \/ SenderDies(s)
  \/ \E some \in SUBSET Deliveries : ClaimMany(s, some) \/ SendChunk(s, some)

Consume(c) ==
  \/ \E d \in Deliveries, i \in Copies : Receive(c, d, i)
  \/ PrepareFails(c) \/ RecordUnnamedError(c) \/ Refuse(c) \/ Reserve(c) \/ ReserveFails(c)
  \/ Undo(c) \/ ObservationFails(c) \/ CallTarget(c) \/ TargetAnswers(c) \/ CallFails(c)
  \/ CheckReceipt(c) \/ Report(c) \/ ReportFails(c) \/ MarkInvoked(c) \/ RecordError(c)
  \/ RetryMessage(c) \/ ConsumerDies(c)

Next ==
  \/ \E d \in Deliveries : Materialize(d) \/ OrphanRuns(d)
  \/ \E s \in Senders : Produce(s)
  \/ \E d \in Deliveries, i \in Copies : MessageArrives(d, i) \/ MessageLost(d, i)
  \/ \E c \in AllConsumers : Consume(c)
  \/ Switch \/ Elapse

Spec == Init /\ [][Next]_vars
-----------------------------------------------------------------------------
(* Properties *)

\* Every row, run, message and invocation has the shape the schema and the
\* code give it; a lease is held by rows that are being sent, and only by them.
TypeOK ==
  /\ switches \in 0 .. MaxSwitches
  /\ effective \in BOOLEAN /\ idempotent \in BOOLEAN /\ supported \in BOOLEAN
  /\ delivery \in [Deliveries -> DeliveryRow]
  /\ \A d \in Deliveries : (delivery[d].lease # "none") = (delivery[d].status = "sending")
  /\ reservation \in [Deliveries -> [Numbers -> {"none", "reserved", "invoked"}]]
  /\ sender \in [Senders -> Run]
  /\ message \in [Deliveries -> [Copies -> Message]]
  /\ consumer \in [AllConsumers -> Invocation]
  /\ effects \in [Deliveries -> Nat]
  /\ orphans \subseteq Deliveries /\ accepted \subseteq Deliveries
  /\ called \in [Deliveries -> SUBSET (0 .. MaxAttempts)]

\* When a result is recorded with a number of business attempts, the platform
\* made exactly that many calls of the Target; when a crash or a lost answer
\* leaves that open, the number is NULL (docs/operations.md:50).
CountIsExact ==
  \A d \in Deliveries :
    delivery[d].result # "none" /\ delivery[d].count # UnknownCount
      => delivery[d].count = Cardinality(called[d] \ {0})

\* A delivery whose result is recorded shows no error of an attempt beside it,
\* however late that attempt fails (consumerFailed after another's report).
ResultHasNoError == \A d \in Deliveries : delivery[d].result # "none" => ~delivery[d].error

\* No two calls of the Target carry the same attempt number, also when
\* invocations overlap and reservations are undone between them (toCronRequest).
NumbersAreFresh ==
  [][\A c \in Consumers :
       consumer[c].phase = "reserved" /\ consumer'[c].phase = "calling"
         => consumer[c].number \notin called[consumer[c].d]]_vars

\* Every call of a Target has an attempt number of its own, and a result that is
\* recorded counts exactly these calls and stands without an error beside it, however
\* late, doubled or out of order the reports of the consumers come.
CallsAreCounted ==
  /\ []CountIsExact
  /\ []ResultHasNoError
  /\ NumbersAreFresh

\* A Tick never sends a row that another Tick has claimed meanwhile: its
\* 40 seconds end before the 90 seconds of the lease (run, claimMany).
SendsOnlyOwnRows ==
  [][\A s \in Senders :
       sender[s].phase = "claimed" /\ sender'[s].phase = "sending"
         => \A d \in sender'[s].chunk : delivery[d].lease \in {s, "none"}]_vars

\* The reader of a row sees the abstract delivery: what was intended, handed
\* over, done and answered.
Stages ==
  [d \in Deliveries |->
     IF delivery[d].status \in Unresolved THEN "intended" ELSE delivery[d].status]
Outcomes == [d \in Deliveries |-> delivery[d].result]
Contract == INSTANCE DeliveryContract WITH
  stage <- Stages, outcome <- Outcomes, enqueued <- accepted, effects <- effects

\* The outbox, the Queue and the consumers implement the contract of a
\* delivery: sent at least once, done at most once, answered truthfully.
ImplementsContract == Contract!Spec

-----------------------------------------------------------------------------
(* Liveness *)

\* The clock runs; Ticks come every minute and end; a D1 call or a call of the
\* Queue that is repeated for ever succeeds at last; a message is not held for
\* ever, and the Queue does not stay full.  A message that waits can be built at last:
\* the secret of its receipt token has not been changed for good since (message,
\* RECEIPT_KEY_CHANGED); without that its batch would be put back every minute.
Fairness ==
  /\ WF_vars(Elapse)
  /\ \A s \in Senders :
       /\ WF_vars(BeginRun(s)) /\ WF_vars(FinishFailed(s)) /\ WF_vars(EndRun(s))
       /\ WF_vars(HaltRun(s)) /\ WF_vars(QueueAccepts(s) \/ SendFails(s))
       /\ WF_vars(FinishAccepted(s) \/ FinishThrows(s))
       /\ SF_vars(QueueAccepts(s)) /\ SF_vars(FinishAccepted(s))
       /\ \A d \in Deliveries :
            /\ SF_vars(\E rows \in SUBSET Deliveries : d \in rows /\ ClaimMany(s, rows))
            /\ SF_vars(\E chunk \in SUBSET Deliveries : d \in chunk /\ SendChunk(s, chunk))
  /\ \A d \in Deliveries, i \in Copies : WF_vars(MessageLost(d, i))
  /\ \A c \in AllConsumers : WF_vars(ConsumerDies(c))

LiveSpec == Spec /\ Fairness

\* When schedule and action stay effective, no intent is left in the outbox,
\* whatever crashes, times out or is lost on the way (ADR 0003).
IntentsAreDelivered ==
  <>[](effective /\ idempotent) =>
    \A d \in Deliveries : delivery[d].status \in Unresolved ~> delivery[d].status \notin Unresolved
=============================================================================
