---------------------------- MODULE ScheduleSlot ----------------------------
(***************************************************************************)
(* What the platform promises the schedules of a Target, without saying    *)
(* how: a schedule has one slot; an execution that holds it waits, runs or *)
(* is in doubt; it is started a bounded number of times; and what has      *)
(* succeeded, was skipped or was cancelled never comes back.               *)
(***************************************************************************)
EXTENDS Integers

CONSTANTS
  Schedules,
  Ids,        \* ids of executions
  MaxCalls    \* how often one execution may be started

VARIABLES
  life,   \* how far an execution is
  owner,  \* the schedule it belongs to, once it is used
  spent   \* how often it was started

slotVars == <<life, owner, spent>>

Life == {"unused", "waiting", "running", "doubt", "failed", "settled", "forgotten"}

Holds(e) == life[e] \in {"waiting", "running", "doubt"}

\* Nobody but e, if e is an execution at all, holds the slot of s.
FreeFor(e, s) == \A f \in Ids \ {e} : owner[f] = s => ~Holds(f)

Init ==
  /\ life = [e \in Ids |-> "unused"]
  /\ owner \in [Ids -> Schedules]
  /\ spent = [e \in Ids |-> 0]

\* A new execution takes the free slot, or is only put on record.
Admit(e, s) ==
  /\ life[e] = "unused"
  /\ \/ FreeFor(e, s) /\ life' = [life EXCEPT ![e] = "waiting"]
     \/ life' = [life EXCEPT ![e] = "settled"]
  /\ owner' = [owner EXCEPT ![e] = s]
  /\ spent' = [spent EXCEPT ![e] = 0]

Start(e) ==
  /\ life[e] = "waiting"
  /\ spent[e] < MaxCalls
  /\ life' = [life EXCEPT ![e] = "running"]
  /\ spent' = [spent EXCEPT ![e] = spent[e] + 1]
  /\ UNCHANGED owner

\* A run ends, in whatever way; it may wait for another only within its budget.
Stop(e) ==
  /\ life[e] = "running"
  /\ \/ \E outcome \in {"settled", "failed", "doubt"} :
          life' = [life EXCEPT ![e] = outcome]
     \/ spent[e] < MaxCalls /\ life' = [life EXCEPT ![e] = "waiting"]
  /\ UNCHANGED <<owner, spent>>

\* An operator decides about an execution that waits or is in doubt.
Decide(e) ==
  /\ \/ life[e] = "waiting" /\ life' = [life EXCEPT ![e] = "settled"]
     \/ /\ life[e] = "doubt"
        /\ \E verdict \in {"settled", "failed"} : life' = [life EXCEPT ![e] = verdict]
  /\ UNCHANGED <<owner, spent>>

\* What has failed or is in doubt may be given another run.
Revive(e) ==
  /\ life[e] \in {"failed", "doubt"}
  /\ FreeFor(e, owner[e])
  /\ spent[e] < MaxCalls
  /\ life' = [life EXCEPT ![e] = "waiting"]
  /\ UNCHANGED <<owner, spent>>

\* Waiting executions run out of time.
Expire(some) ==
  /\ \A e \in some : life[e] = "waiting"
  /\ life' = [e \in Ids |-> IF e \in some THEN "failed" ELSE life[e]]
  /\ UNCHANGED <<owner, spent>>

\* The history is cleaned.
Forget(some) ==
  /\ \A e \in some : life[e] \in {"failed", "settled"}
  /\ life' = [e \in Ids |-> IF e \in some THEN "forgotten" ELSE life[e]]
  /\ UNCHANGED <<owner, spent>>

Next ==
  \/ \E e \in Ids, s \in Schedules : Admit(e, s)
  \/ \E e \in Ids : Start(e) \/ Stop(e) \/ Decide(e) \/ Revive(e)
  \/ \E some \in SUBSET Ids : Expire(some) \/ Forget(some)

Spec == Init /\ [][Next]_slotVars

\* What has been started ends.
FairSpec == Spec /\ \A e \in Ids : WF_slotVars(Stop(e))
=============================================================================
