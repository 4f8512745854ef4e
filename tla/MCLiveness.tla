----------------------------- MODULE MCLiveness -----------------------------
(* What must eventually happen, in five parts of the system.  They share no *)
(* state here: one of them moves, under the fairness of its own module, and *)
(* the others stay in their initial state.                                  *)
EXTENDS Integers, FiniteSets, TLC

CONSTANTS t1, t2, r1, r2, o1, d1, d2, d3, k1, e1, e2, e3, NoRow, none,
          Moving  \* the parts that move, one per behaviour

VARIABLES
  part,
  switches, effective, idempotent, supported, delivery, reservation, sender, message,
  consumer, effects, orphans, accepted, called,
  paused, heartbeat, execution, invocation,
  session, events, drawn, cookie, gate, polling, tab,
  results, written, armed, arms, receipts, call, told,
  now, dispatchPaused, schedule, registered, occurrences, due, registration, resume

(* QueueDelivery: one delivery, sent by one Tick, consumed by one invocation *)
Queue == INSTANCE QueueDelivery WITH
  Deliveries <- {d1}, Senders <- {t1}, Consumers <- {o1}, WebsiteConsumers <- {},
  Batch <- 1, LeaseTime <- 1, WallBudget <- 1, RetryDelay <- 1, MaxTries <- 1,
  MaxCopies <- 1, MaxAttempts <- 1, MaxSwitches <- 1
queueVars ==
  <<switches, effective, idempotent, supported, delivery, reservation, sender, message,
    consumer, effects, orphans, accepted, called>>

(* Tick: a pool of two workers over three executions *)
Pool == INSTANCE Tick WITH
  Ticks <- {t1}, Rows <- {e1, e2, e3}, TimeoutOf <- (e1 :> 1 @@ e2 :> 1 @@ e3 :> 2),
  SoftWall <- 3, Reserve <- 1, RpcBudget <- 2, Concurrency <- 2,
  row <- execution, tick <- invocation, NoTick <- none
poolVars == <<paused, heartbeat, execution, invocation>>

(* ConsoleSession: two calls of a tab, one session *)
Tab == INSTANCE ConsoleSession WITH
  Tokens <- {t1}, Calls <- {r1, r2}, None <- none, audit <- events, call <- tab
tabVars == <<session, events, drawn, cookie, gate, polling, tab>>

(* WebsiteWorker: one call *)
Website == INSTANCE WebsiteWorker WITH
  Calls <- {r1}, Keys <- {k1}, Sources <- {"crm"}, MaxArms <- 1, None <- none,
  Actions <- {"syncUsers", "testScenario", "nonIdempotentScenario"},
  Modes <- {"timeout_after_effect", "throw_before_effect"}, effects <- written
websiteVars == <<results, written, armed, arms, receipts, call, told>>

(* ScheduleTable: the schedule is declared, declared disabled, or left out *)
Often == [period |-> 1, enabled |-> TRUE, payload |-> 1]
Disabled == [period |-> 2, enabled |-> FALSE, payload |-> 1]
Table == INSTANCE ScheduleTable WITH
  Ticks <- {t1}, Registrars <- {r1}, Operators <- {o1}, Omitted <- none,
  Configs <- {Often, Disabled}, Documents <- {d1, d2, d3},
  Declares <- (d1 :> Often @@ d2 :> Disabled @@ d3 :> none),
  MaxTime <- 2, MaxRevision <- 3, row <- schedule, tick <- due
tableVars ==
  <<now, dispatchPaused, schedule, registered, occurrences, due, registration, resume>>

-----------------------------------------------------------------------------
MCInit ==
  /\ part \in Moving
  /\ Queue!Init
  /\ Pool!Init /\ (part # "pool" => ~paused)
  /\ Tab!Init /\ (part # "tab" => ~polling)
  /\ Website!Init
  /\ Table!Init /\ (part # "table" => registered = d1)

MCNext ==
  /\ UNCHANGED part
  /\ \/ /\ part = "queue"
        /\ UNCHANGED <<poolVars, tabVars, websiteVars, tableVars>>
        /\ Queue!Next
     \/ /\ part = "pool"
        /\ UNCHANGED <<queueVars, tabVars, websiteVars, tableVars>>
        /\ Pool!Next
     \/ /\ part = "tab"
        /\ UNCHANGED <<queueVars, poolVars, websiteVars, tableVars>>
        /\ Tab!Next
     \/ /\ part = "website"
        /\ UNCHANGED <<queueVars, poolVars, tabVars, tableVars>>
        /\ Website!Next
     \/ /\ part = "table"
        /\ UNCHANGED <<queueVars, poolVars, tabVars, websiteVars>>
        /\ Table!Next

\* The fairness of the part that moves.
MCFairness ==
  \/ part = "queue" /\ Queue!Fairness
  \/ part = "pool" /\ Pool!Fairness
  \/ part = "tab" /\ Tab!Fairness
  \/ part = "website" /\ Website!Fairness
  \/ part = "table" /\ Table!Fairness

MCSpec ==
  /\ MCInit
  /\ [][MCNext]_<<part, queueVars, poolVars, tabVars, websiteVars, tableVars>>
  /\ MCFairness

-----------------------------------------------------------------------------
(* The properties: the modules say what each of them means *)

\* What was accepted from a schedule is delivered or given up.
IntentsAreDelivered == Queue!IntentsAreDelivered
\* An invocation that begins comes to its end.
TicksEnd == Pool!TicksEnd
\* The pages notice that the session has ended.
EndIsNoticed == Tab!EndIsNoticed
\* The platform is not kept waiting by a call.
CallsEnd == Website!CallsEnd
\* A due occurrence that is new is recorded or stops being the next one, whatever
\* registrations, pauses and switches do in between.
DueOccurrenceSettles == Table!DueOccurrenceSettles
=============================================================================
