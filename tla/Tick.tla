--------------------------------- MODULE Tick ---------------------------------
(***************************************************************************)
(* One invocation of the minute Cron, application/tick.ts `run`: its       *)
(* heartbeat in platform_state, the order of its parts, the pool of        *)
(* workers that share one cursor over the ready executions, the soft wall  *)
(* budget, and what becomes of an exception.  A Tick that is late runs     *)
(* beside the next one.  What the parts do to the tables is in             *)
(* ExecutionLedger, ScheduleTable and QueueDelivery; here a part succeeds, *)
(* throws, or never returns because the invocation died.                   *)
(***************************************************************************)
EXTENDS Integers, Sequences, FiniteSets

CONSTANTS
  Ticks,
  Rows,        \* executions
  TimeoutOf,   \* timeoutMs of each execution's snapshot
  SoftWall,    \* TICK_SOFT_WALL_BUDGET_MS, in a coarser unit
  Reserve,     \* FINALIZE_RESERVE_MS
  RpcBudget, Concurrency,
  NoTick, NoRow

ASSUME RowsHaveTimeouts == IsFiniteSet(Rows) /\ TimeoutOf \in [Rows -> Nat]
ASSUME BudgetsAreNumbers ==
  /\ {SoftWall, Reserve} \subseteq Nat
  /\ {RpcBudget, Concurrency} \subseteq Nat \ {0}
ASSUME NoneIsNone == NoTick \notin Ticks /\ NoRow \notin Rows

VARIABLES
  paused,    \* platform_state.dispatch_paused
  heartbeat, \* platform_state.last_tick_*
  row,       \* whether an execution is ready, claimed or finalized
  tick

vars == <<paused, heartbeat, row, tick>>

-----------------------------------------------------------------------------
Workers == 1..Concurrency

Outcomes == {"succeeded", "degraded", "failed", "paused"}

Heartbeat ==
  [tick: Ticks \cup {NoTick}, outcome: Outcomes \cup {"none", "running"},
   successful: Ticks \cup {NoTick}]

\* The parts of a Tick before the pool, in their order: leases and retry windows;
\* settings, what is due, and the queue's part; due schedules; what is ready.
Parts == <<"recover", "deliver", "materialize", "list">>

Phases == {"idle", "begin", "pool", "cleanup", "finish", "ended", "dead"}
            \cup {Parts[i] : i \in DOMAIN Parts}

\* A worker is at the head of its loop, awaits a claim or an answer, or has left.
WorkerStates == {"none", "head", "claim", "call", "finalize", "returned", "rejected"}

NoWorkers == [w \in Workers |-> [at |-> "none", row |-> NoRow]]

NewTick ==
  [phase |-> "idle", left |-> SoftWall, paused |-> FALSE, threw |-> FALSE, errors |-> 0,
   ready |-> <<>>, cursor |-> 1, worker |-> NoWorkers]

Init ==
  /\ paused \in BOOLEAN
  /\ heartbeat = [tick |-> NoTick, outcome |-> "none", successful |-> NoTick]
  /\ row = [e \in Rows |-> "ready"]
  /\ tick = [t \in Ticks |-> NewTick]

-----------------------------------------------------------------------------
\* The part after this one; a paused platform skips settings and all that follows.
PartAfter(t) ==
  LET i == CHOOSE j \in DOMAIN Parts : Parts[j] = tick[t].phase
  IN IF tick[t].phase = "recover" /\ tick[t].paused THEN "cleanup"
     ELSE Parts[i + 1]

Goto(t, phase) == tick' = [tick EXCEPT ![t].phase = phase]

\* The outcome of a Tick whose try block came to its end, or was left by a throw.
OutcomeOf(t) ==
  CASE tick[t].threw -> "failed" [] tick[t].paused -> "paused"
    [] tick[t].errors > 0 -> "degraded" [] OTHER -> "succeeded"

\* An exception leaves the try block, whatever part it comes from.
Throw(t) ==
  tick' = [tick EXCEPT ![t].phase = "finish", ![t].threw = TRUE, ![t].errors = @ + 1]

\* The scheduler starts an invocation.
Start(t) ==
  /\ tick[t].phase = "idle"
  /\ Goto(t, "begin")
  /\ UNCHANGED <<paused, heartbeat, row>>

Running(t) == [heartbeat EXCEPT !.tick = t, !.outcome = "running"]

\* beginTick: one statement writes the heartbeat and reads the switch.
Begin(t) ==
  /\ tick[t].phase = "begin"
  /\ heartbeat' = Running(t)
  /\ tick' = [tick EXCEPT ![t].phase = Parts[1], ![t].paused = paused]
  /\ UNCHANGED <<paused, row>>

\* A part returns; the queue's part may have met errors of its own.
PartReturns(t) ==
  /\ \E i \in DOMAIN Parts : tick[t].phase = Parts[i] /\ Parts[i] # "list"
  /\ \E errors \in IF tick[t].phase = "deliver" THEN {0, 1} ELSE {0} :
       tick' = [tick EXCEPT ![t].phase = PartAfter(t), ![t].errors = @ + errors]
  /\ UNCHANGED <<paused, heartbeat, row>>

AtMost(ready) == IF Cardinality(ready) < RpcBudget THEN Cardinality(ready) ELSE RpcBudget

\* listReady: at most rpc_budget of the executions that are ready.
ListReady(t) ==
  /\ tick[t].phase = "list"
  /\ LET ready == IF paused THEN {} ELSE {e \in Rows : row[e] = "ready"}
         n == AtMost(ready)
     IN \E list \in [1..n -> ready] :
          /\ \A i, j \in 1..n : list[i] = list[j] => i = j
          /\ tick' = [tick EXCEPT ![t].phase = "pool", ![t].ready = list,
               ![t].worker = [w \in Workers |->
                 IF w =< n THEN [at |-> "head", row |-> NoRow] ELSE @[w]]]
  /\ UNCHANGED <<paused, heartbeat, row>>

\* A part throws; beginTick may have written before.
PartThrows(t) ==
  /\ tick[t].phase \in {"begin", "cleanup"} \cup {Parts[i] : i \in DOMAIN Parts}
  /\ Throw(t)
  /\ heartbeat' \in {heartbeat} \cup IF tick[t].phase = "begin" THEN {Running(t)} ELSE {}
  /\ UNCHANGED <<paused, row>>

-----------------------------------------------------------------------------
(* The pool *)

Worker(t, w) == tick[t].worker[w]
Step(t, w, at, e) == tick' = [tick EXCEPT ![t].worker[w] = [at |-> at, row |-> e]]

\* Between two awaits a worker takes the next row and looks at the clock, which
\* the awaits have moved on.  A row there is no time for is given up, and so is
\* the worker.
CursorAfter(t) == tick[t].cursor + 1

TakeRow(t, w) ==
  /\ tick[t].phase = "pool" /\ Worker(t, w).at = "head"
  /\ IF tick[t].cursor > Len(tick[t].ready) THEN Step(t, w, "returned", NoRow)
     ELSE LET e == tick[t].ready[tick[t].cursor]
          IN \E left \in 0..tick[t].left :
               tick' = [tick EXCEPT ![t].left = left, ![t].cursor = CursorAfter(t),
                 ![t].worker[w] = IF left < TimeoutOf[e] + Reserve
                                  THEN [at |-> "returned", row |-> NoRow]
                                  ELSE [at |-> "claim", row |-> e]]
  /\ UNCHANGED <<paused, heartbeat, row>>

\* repository.claim: another Tick may have been faster, or a switch forbids it.
Claim(t, w) ==
  /\ Worker(t, w).at = "claim"
  /\ LET e == Worker(t, w).row
     IN \/ /\ row[e] = "ready" /\ ~paused
           /\ row' = [row EXCEPT ![e] = "claimed"]
           /\ Step(t, w, "call", e)
        \/ /\ Step(t, w, "head", NoRow)
           /\ UNCHANGED row
  /\ UNCHANGED <<paused, heartbeat>>

\* The website answers, fails or runs into its timeout; the result is finalized.
Answer(t, w) ==
  /\ Worker(t, w).at = "call"
  /\ Step(t, w, "finalize", Worker(t, w).row)
  /\ UNCHANGED <<paused, heartbeat, row>>

Finalize(t, w) ==
  /\ Worker(t, w).at = "finalize"
  /\ row' = [row EXCEPT ![Worker(t, w).row] = "final"]
  /\ Step(t, w, "head", NoRow)
  /\ UNCHANGED <<paused, heartbeat>>

\* D1 fails under a worker: it rejects, and the others go on.
WorkerRejects(t, w) ==
  /\ Worker(t, w).at \in {"claim", "call", "finalize"}
  /\ Step(t, w, "rejected", NoRow)
  /\ UNCHANGED <<paused, heartbeat, row>>

\* Promise.allSettled
\* Mutant: a worker that rejected is waited for.
AllReturned(t) == \A w \in Workers : Worker(t, w).at \in {"none", "returned"}
AllSettled(t) == \A w \in Workers : Worker(t, w).at \in {"none", "returned", "rejected"}

PoolEnds(t) ==
  /\ tick[t].phase = "pool" /\ AllSettled(t)
  /\ tick' = [tick EXCEPT ![t].phase = "cleanup",
       ![t].errors = @ + Cardinality({w \in Workers : Worker(t, w).at = "rejected"})]
  /\ UNCHANGED <<paused, heartbeat, row>>

-----------------------------------------------------------------------------
\* cleanupHistory runs if there is time left; a throw is in PartThrows.
Cleanup(t) ==
  /\ tick[t].phase = "cleanup"
  /\ Goto(t, "finish")
  /\ UNCHANGED <<paused, heartbeat, row>>

\* finishTick writes only while no newer Tick has begun.
\* Mutant: the last to finish writes.
AnyTick(t) == TRUE
IsLatest(t) == heartbeat.tick = t

\* What is left of an invocation when it is over.
Gone(t, phase) ==
  [NewTick EXCEPT !.phase = phase, !.paused = tick[t].paused, !.threw = tick[t].threw,
                  !.errors = tick[t].errors]

Written(t) ==
  IF ~IsLatest(t) THEN heartbeat
  ELSE [heartbeat EXCEPT !.outcome = OutcomeOf(t),
          !.successful = IF OutcomeOf(t) \in {"succeeded", "paused"} THEN t ELSE @]

\* finishTick may throw, before or after it wrote: the invocation ends all the
\* same, and nobody reads what it returns.
Finish(t) ==
  /\ tick[t].phase = "finish"
  /\ tick' = [tick EXCEPT ![t] = Gone(t, "ended")]
  /\ heartbeat' \in {Written(t), heartbeat}
  /\ UNCHANGED <<paused, row>>

\* The platform ends an invocation.
Dies(t) ==
  /\ tick[t].phase \notin {"idle", "ended", "dead"}
  /\ tick' = [tick EXCEPT ![t] = Gone(t, "dead")]
  /\ UNCHANGED <<paused, heartbeat, row>>

\* The operator
Switch ==
  /\ paused' = ~paused
  /\ UNCHANGED <<heartbeat, row, tick>>

WorkerStep(t, w) ==
  /\ tick[t].phase # "dead"
  /\ TakeRow(t, w) \/ Claim(t, w) \/ Answer(t, w) \/ Finalize(t, w) \/ WorkerRejects(t, w)

MainStep(t) ==
  \/ Begin(t) \/ PartReturns(t) \/ ListReady(t) \/ PartThrows(t) \/ PoolEnds(t)
  \/ Cleanup(t) \/ Finish(t)

Next ==
  \/ \E t \in Ticks :
       \/ Start(t) \/ MainStep(t) \/ Dies(t)
       \/ \E w \in Workers : WorkerStep(t, w)
  \/ Switch

Spec == Init /\ [][Next]_vars

\* Every await of a Tick returns or throws: D1 does, and a call has a timeout.
Fairness ==
  \A t \in Ticks :
    /\ WF_vars(MainStep(t))
    /\ \A w \in Workers : WF_vars(WorkerStep(t, w))

FairSpec == Spec /\ Fairness

-----------------------------------------------------------------------------
(* Properties *)

\* The heartbeat, the executions and the Ticks have their shapes.
TypeOK ==
  /\ paused \in BOOLEAN
  /\ heartbeat \in Heartbeat
  /\ row \in [Rows -> {"ready", "claimed", "final"}]
  /\ \A t \in Ticks :
       /\ DOMAIN tick[t] = DOMAIN NewTick
       /\ tick[t].phase \in Phases /\ tick[t].left \in 0..SoftWall
       /\ tick[t].errors \in Nat
       /\ Len(tick[t].ready) =< RpcBudget
       /\ tick[t].cursor \in 1..Len(tick[t].ready) + 1
       /\ tick[t].worker \in [Workers -> [at: WorkerStates, row: Rows \cup {NoRow}]]

\* "An old Tick cannot overwrite a new one" (docs/architecture.md, 53): an outcome
\* in the heartbeat is the one of the Tick whose id is beside it.
HeartbeatIsOfOneTick ==
  heartbeat.tick # NoTick /\ heartbeat.outcome # "running" =>
    /\ tick[heartbeat.tick].phase = "ended"
    /\ heartbeat.outcome = OutcomeOf(heartbeat.tick)

\* last_successful_tick_at, by which the console judges the scheduler, is of a
\* Tick no part of which failed.
SuccessIsTrue == heartbeat.successful # NoTick => tick[heartbeat.successful].errors = 0

\* A Tick that has left its pool awaits no claim and no website any more, so that
\* the end of the invocation cuts no call short.
NothingRunsAfterThePool ==
  \A t \in Ticks, w \in Workers :
    tick[t].phase \in {"cleanup", "finish"} =>
      Worker(t, w).at \in {"none", "returned", "rejected"}

\* No two workers of a Tick hold the same execution.
RowsAreShared ==
  \A t \in Ticks, v, w \in Workers :
    v # w /\ Worker(t, v).row # NoRow => Worker(t, v).row # Worker(t, w).row

\* The heartbeat tells how one Tick went, and truly: its outcome is that of the
\* Tick beside it, a success is one no part of which failed, no call outlives the
\* pool it was made by, and no execution is dispatched by two workers of it.
TicksAreAccountedFor ==
  HeartbeatIsOfOneTick /\ SuccessIsTrue /\ NothingRunsAfterThePool /\ RowsAreShared

\* An invocation the platform does not end comes to its end, whatever throws.
TicksEnd == \A t \in Ticks : tick[t].phase = "begin" ~> tick[t].phase \in {"ended", "dead"}
=============================================================================
