-------------------------- MODULE LedgerRefinement --------------------------
(***************************************************************************)
(* ExecutionLedger implements ScheduleSlot.  The mapping forgets Ticks,    *)
(* leases, operators and the clock, and keeps of each row its status (up   *)
(* to what a schedule sees of it), its schedule and its attempt_count.     *)
(***************************************************************************)
EXTENDS ExecutionLedger

\* What a status means to the schedule.
LifeOf(status) ==
  CASE status = "absent" -> "unused"
    [] status \in {"pending", "retry_wait"} -> "waiting"
    [] status = "running" -> "running"
    [] status = "unknown" -> "doubt"
    [] status = "failed" -> "failed"
    [] status \in {"succeeded", "skipped", "cancelled"} -> "settled"
    [] status = "deleted" -> "forgotten"

life == [e \in Executions |-> LifeOf(exec[e].status)]
owner == [e \in Executions |-> exec[e].schedule]
spent == [e \in Executions |-> exec[e].count]

Slot == INSTANCE ScheduleSlot WITH
          Ids <- Executions, MaxCalls <- AttemptHardLimit,
          life <- life, owner <- owner, spent <- spent

\* Every step of Ticks, recovery, operators and cleanup is a step of the slot's
\* specification, or invisible to the schedule.
ImplementsSlot == Slot!Spec

\* And every run that a Tick starts ends, under the fairness of the Ticks.
ImplementsFairSlot == Slot!FairSpec
=============================================================================
