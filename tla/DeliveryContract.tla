--------------------------- MODULE DeliveryContract ---------------------------
(***************************************************************************)
(* What Queue mode promises for one occurrence, whoever crashes: the       *)
(* intent is kept until the Queue has the message, the website's effect    *)
(* happens at most once and only after that, and a recorded outcome is the *)
(* true and the only one.                                                  *)
(***************************************************************************)
EXTENDS Naturals

CONSTANT Deliveries

VARIABLES
  stage,    \* none, intended, skipped, queued (handed over), deleted
  outcome,  \* none, succeeded, failed
  enqueued, \* the deliveries the Queue has had a message of
  effects   \* how often the business effect has happened

vars == <<stage, outcome, enqueued, effects>>

Init ==
  /\ stage = [d \in Deliveries |-> "none"]
  /\ outcome = [d \in Deliveries |-> "none"]
  /\ enqueued = {}
  /\ effects = [d \in Deliveries |-> 0]

Intend(d) ==
  /\ stage[d] = "none"
  /\ \E to \in {"intended", "skipped"} : stage' = [stage EXCEPT ![d] = to]
  /\ UNCHANGED <<outcome, enqueued, effects>>

\* At least once: the same delivery may be enqueued again and again.
Enqueue(some) ==
  /\ \A d \in some : stage[d] \notin {"none", "skipped"}
  /\ enqueued' = enqueued \cup some
  /\ UNCHANGED <<stage, outcome, effects>>

HandOver(some) ==
  /\ some \subseteq enqueued
  /\ \A d \in some : stage[d] = "intended"
  /\ stage' = [d \in Deliveries |-> IF d \in some THEN "queued" ELSE stage[d]]
  /\ UNCHANGED <<outcome, enqueued, effects>>

Perform(d) ==
  /\ d \in enqueued
  /\ effects[d] = 0
  /\ effects' = [effects EXCEPT ![d] = 1]
  /\ UNCHANGED <<stage, outcome, enqueued>>

Answer(d, o) ==
  /\ d \in enqueued
  /\ stage[d] \in {"intended", "queued"}
  /\ outcome[d] = "none"
  /\ o = "succeeded" => effects[d] = 1
  /\ outcome' = [outcome EXCEPT ![d] = o]
  /\ stage' = [stage EXCEPT ![d] = "queued"]
  /\ UNCHANGED <<enqueued, effects>>

Forget(some) ==
  /\ \A d \in some : stage[d] \in {"queued", "skipped"}
  /\ stage' = [d \in Deliveries |-> IF d \in some THEN "deleted" ELSE stage[d]]
  /\ outcome' = [d \in Deliveries |-> IF d \in some THEN "none" ELSE outcome[d]]
  /\ UNCHANGED <<enqueued, effects>>

Next ==
  \/ \E d \in Deliveries :
       \/ Intend(d) \/ Perform(d)
       \/ \E o \in {"succeeded", "failed"} : Answer(d, o)
  \/ \E some \in SUBSET Deliveries : Enqueue(some) \/ HandOver(some) \/ Forget(some)

Spec == Init /\ [][Next]_vars
=============================================================================
