--------------------------- MODULE ExecutionLedger ---------------------------
(***************************************************************************)
(* The RPC execution ledger of one Target: the rows of the D1 tables       *)
(* `executions` and `attempts`, the rows of `schedules`, `targets`,        *)
(* `registered_actions` and `platform_state` their statements read, the    *)
(* dispatch slots of overlapping minute Ticks, and the operators of the    *)
(* admin API.                                                              *)
(*                                                                         *)
(* Every D1 statement and every db.batch() is one action; every await in   *)
(* between is a place where any other action, or a crash, may come.        *)
(*                                                                         *)
(* Abstractions.  A lease token and an attempt id are UUIDs written once,  *)
(* in the batch that inserts the attempt, so both are identified with the  *)
(* attempt's number.  Of the columns available_at, lease_expires_at and    *)
(* finished_at only the one the status makes live is ever read, so one     *)
(* field, timer, holds it.  retry_deadline_at is created_at plus a         *)
(* constant on both insert paths.  Payloads, results and error texts carry *)
(* no control and are left out.                                            *)
(***************************************************************************)
EXTENDS Integers, FiniteSets

CONSTANTS
  Schedules,              \* schedule rows registered by the Target
  Actions,                \* (name, version) pairs a registration can declare
  Executions,             \* pool of execution ids (fresh UUIDs, never reused)
  Workers,                \* dispatch slots of Ticks running at the same time
  Operators,              \* concurrent requests of the admin API
  Policies,               \* retry policies a schedule can declare
  AttemptHardLimit,       \* 10 in the code
  LeaseTime,              \* LEASE_MS
  AutomaticRetryWindow,   \* AUTOMATIC_RETRY_WINDOW_MS
  OperatorRetryWindow,    \* 7 days
  SuccessRetention,       \* 14 days
  FailureRetention,       \* 30 days
  MaxTime,                \* bound: the model's clock stops here
  MaxSwitches             \* bound: number of operator and registration switches

\* retryPolicySchema: one delay for every attempt but the last.
ASSUME PoliciesAreWellFormed ==
  \A p \in Policies :
    /\ p.maxAttempts \in 1 .. AttemptHardLimit
    /\ p.delays \in [1 .. (p.maxAttempts - 1) -> Nat]
    /\ p.retryOnUnknown \in BOOLEAN

ASSUME LimitsAreNaturals ==
  /\ AttemptHardLimit \in Nat /\ LeaseTime \in Nat
  /\ AutomaticRetryWindow \in Nat /\ OperatorRetryWindow \in Nat
  /\ SuccessRetention \in Nat /\ FailureRetention \in Nat
  /\ MaxTime \in Nat /\ MaxSwitches \in Nat
ASSUME PoolsAreNonEmpty ==
  Policies # {} /\ Actions # {} /\ Schedules # {} /\ Executions # {}

VARIABLES
  now,            \* Date.now(), in abstract units
  switches,       \* switches used so far (bound only)
  dispatchPaused, \* platform_state.dispatch_paused
  targetEnabled,  \* targets.enabled
  declared,       \* registered_actions: idempotent, unsafe or removed
  schedule,       \* schedules
  exec,           \* executions
  attempts,       \* attempts: status per execution and number
  phase,          \* where each dispatch slot is
  job,            \* the ClaimedExecution a slot holds
  decision,       \* the FinalizeDecision a slot is about to write
  request,        \* the admin mutation planned but not yet committed
  sent            \* the RPCs that reached the Target (history)

controls == <<switches, dispatchPaused, targetEnabled, declared, schedule>>
slots == <<phase, job, decision>>
vars == <<now, controls, exec, attempts, slots, request, sent>>

-----------------------------------------------------------------------------
Declaration == {"idempotent", "unsafe", "removed"}
Reasons == {"initial", "automatic_retry", "operator_retry"}
Active == {"pending", "running", "retry_wait", "unknown"}
Settled == {"succeeded", "failed", "skipped", "cancelled"}
\* "absent": the id is not used yet.  "deleted": cleanupHistory removed the row.
Statuses == Active \cup Settled \cup {"absent", "deleted"}
Finished == {"succeeded", "failed", "unknown"}
AttemptNumbers == 1 .. AttemptHardLimit

ScheduleRow ==
  [action: Actions, declaredEnabled: BOOLEAN, operatorPaused: BOOLEAN,
   enabled: BOOLEAN, retired: BOOLEAN]

ExecutionRow ==
  [schedule: Schedules, status: Statuses, action: Actions, idempotent: BOOLEAN,
   policy: Policies, count: Nat, limit: Nat, reason: Reasons, lease: Nat,
   timer: Int, createdAt: Nat]

Job == [exec: Executions, number: Nat, reason: Reasons, idempotent: BOOLEAN]

Decision ==
  [status: {"succeeded", "failed", "unknown", "retry_wait"},
   attempt: Finished, reason: Reasons, timer: Int]

Request ==
  [kind: {"none", "rerun"}, exec: Executions, status: Statuses, now: Nat]
    \cup [kind: {"retry"}, exec: Executions, status: {"failed", "unknown"}, now: Nat]

NoRow ==
  [schedule |-> CHOOSE s \in Schedules : TRUE, status |-> "absent",
   action |-> CHOOSE a \in Actions : TRUE, idempotent |-> FALSE,
   policy |-> CHOOSE p \in Policies : TRUE, count |-> 0, limit |-> 0,
   reason |-> "initial", lease |-> 0, timer |-> 0, createdAt |-> 0]
NoJob ==
  [exec |-> CHOOSE e \in Executions : TRUE, number |-> 0,
   reason |-> "initial", idempotent |-> FALSE]
NoDecision ==
  [status |-> "failed", attempt |-> "failed", reason |-> "initial", timer |-> 0]
NoRequest ==
  [kind |-> "none", exec |-> CHOOSE e \in Executions : TRUE,
   status |-> "absent", now |-> 0]

Init ==
  /\ now = 0
  /\ switches = 0
  /\ dispatchPaused = FALSE
  /\ targetEnabled = TRUE
  /\ declared \in [Actions -> {"idempotent", "unsafe"}]
  /\ schedule \in [Schedules -> {row \in ScheduleRow :
                      /\ row.declaredEnabled /\ ~row.retired
                      /\ row.enabled = ~row.operatorPaused}]
  /\ exec = [e \in Executions |-> NoRow]
  /\ attempts = [e \in Executions |-> [n \in AttemptNumbers |-> "none"]]
  /\ phase = [w \in Workers |-> "idle"]
  /\ job = [w \in Workers |-> NoJob]
  /\ decision = [w \in Workers |-> NoDecision]
  /\ request = [o \in Operators |-> NoRequest]
  /\ sent = [e \in Executions |-> {}]

-----------------------------------------------------------------------------
(* Pure decisions *)

IsActive(e) == exec[e].status \in Active
\* Mutant: the overlap check forgets results in doubt.
ActiveOfWithoutUnknown(s) ==
  {e \in Executions : exec[e].status \in {"pending", "running", "retry_wait"}
                        /\ exec[e].schedule = s}
ActiveOf(s) == {e \in Executions : IsActive(e) /\ exec[e].schedule = s}
RetryDeadline(e) == exec[e].createdAt + AutomaticRetryWindow

\* canAutomaticallyRetry of domain/model.ts.
CanAutomaticallyRetry(e, currentIdempotent, number, retryable, unknown, deadline) ==
  /\ exec[e].idempotent /\ currentIdempotent
  /\ number < exec[e].policy.maxAttempts
  /\ now < deadline
  /\ IF unknown THEN exec[e].policy.retryOnUnknown ELSE retryable

\* makeFailureDecision; retryDelayMs is the delay the policy lists for the attempt.
FailureDecision(e, currentIdempotent, number, retryable, unknown, deadline) ==
  LET outcome == IF unknown THEN "unknown" ELSE "failed"
  IN IF CanAutomaticallyRetry(e, currentIdempotent, number, retryable, unknown, deadline)
     THEN [status |-> "retry_wait", attempt |-> outcome, reason |-> "automatic_retry",
           timer |-> now + exec[e].policy.delays[number]]
     ELSE [status |-> outcome, attempt |-> outcome, reason |-> "initial", timer |-> now]

SuccessDecision ==
  [status |-> "succeeded", attempt |-> "succeeded", reason |-> "initial", timer |-> now]

\* The policies the contract accepts for a schedule of an action.
PolicyAllowed(p, idempotent) ==
  idempotent \/ (p.maxAttempts = 1 /\ ~p.retryOnUnknown)

\* What listReady and claim ask of the rows around an execution.
Dispatchable(s) ==
  ~dispatchPaused /\ targetEnabled /\ schedule[s].enabled /\ ~schedule[s].retired

\* Mutant: maxAttempts is taken for the number of retries after the first.
NewExecutionOffByOne(s, action, idempotent, policy, status, at) ==
  [schedule |-> s, status |-> status, action |-> action, idempotent |-> idempotent,
   policy |-> policy, count |-> 0, limit |-> policy.maxAttempts - 1,
   reason |-> "initial", lease |-> 0, timer |-> at, createdAt |-> at]

NewExecution(s, action, idempotent, policy, status, at) ==
  [schedule |-> s, status |-> status, action |-> action, idempotent |-> idempotent,
   policy |-> policy, count |-> 0, limit |-> policy.maxAttempts,
   reason |-> "initial", lease |-> 0, timer |-> at, createdAt |-> at]

-----------------------------------------------------------------------------
(* The minute Tick: application/tick.ts with execution-repository.ts *)

\* materializeDue on an occurrence that has come due.  Its INSERT re-reads the
\* rows the earlier listDue joined, so a target disabled meanwhile is recorded
\* as skipped.  The snapshot's idempotent flag was read before the batch, which
\* checks only the schedule's revision: it can be the flag of the registration
\* before (the retry policy cannot, a change of it bumps the revision).
MaterializeDue(s, e) ==
  /\ exec[e].status = "absent"
  /\ schedule[s].enabled /\ ~schedule[s].retired /\ ~dispatchPaused
  /\ declared[schedule[s].action] # "removed"
  /\ now + AutomaticRetryWindow =< MaxTime
  /\ \E misfire \in BOOLEAN, idempotent \in BOOLEAN, policy \in Policies :
       /\ PolicyAllowed(policy, declared[schedule[s].action] = "idempotent")
       /\ LET skip == ~targetEnabled \/ misfire \/ ActiveOf(s) # {}
          IN exec' = [exec EXCEPT ![e] =
                        NewExecution(s, schedule[s].action, idempotent, policy,
                                     IF skip THEN "skipped" ELSE "pending", now)]
  /\ UNCHANGED <<now, controls, attempts, slots, request, sent>>

\* claim: the conditional UPDATE and the attempt INSERT in one batch.
Claim(w, e) ==
  /\ phase[w] = "idle"
  /\ exec[e].status \in {"pending", "retry_wait"}
  /\ exec[e].timer =< now
  /\ exec[e].count < exec[e].limit
  /\ Dispatchable(exec[e].schedule)
  /\ now + LeaseTime =< MaxTime
  /\ LET number == exec[e].count + 1
     IN /\ exec' = [exec EXCEPT ![e] = [@ EXCEPT !.status = "running",
                      !.count = number, !.lease = number, !.timer = now + LeaseTime]]
        /\ attempts' = [attempts EXCEPT ![e] = [@ EXCEPT ![number] = "running"]]
        /\ job' = [job EXCEPT ![w] = [exec |-> e, number |-> number,
                      reason |-> exec[e].reason, idempotent |-> FALSE]]
  /\ phase' = [phase EXCEPT ![w] = "claimed"]
  /\ UNCHANGED <<now, controls, decision, request, sent>>

\* Mutant: a retry trusts the snapshot and does not read the registration again.
RevokedInSnapshot(w) == job[w].reason # "initial" /\ ~exec[job[w].exec].idempotent

\* A retry is only made while snapshot and registration declare idempotency.
Revoked(w) ==
  LET e == job[w].exec
  IN job[w].reason # "initial"
       /\ (~exec[e].idempotent \/ declared[exec[e].action] # "idempotent")

\* dispatch, up to its await on the capability.
CheckCapability(w) ==
  /\ phase[w] = "claimed"
  /\ LET e == job[w].exec
         current == declared[exec[e].action]
     IN IF current = "removed" \/ Revoked(w)
        THEN /\ decision' = [decision EXCEPT ![w] =
                   FailureDecision(e, FALSE, job[w].number, FALSE, FALSE, now)]
             /\ phase' = [phase EXCEPT ![w] = "decided"]
             /\ UNCHANGED job
        ELSE /\ job' = [job EXCEPT ![w] = [@ EXCEPT !.idempotent = (current = "idempotent")]]
             /\ phase' = [phase EXCEPT ![w] = "checked"]
             /\ UNCHANGED decision
  /\ UNCHANGED <<now, controls, exec, attempts, request, sent>>

\* adapter.execute: from here on the Target may run its business code.
SendRpc(w) ==
  /\ phase[w] = "checked"
  /\ phase' = [phase EXCEPT ![w] = "sent"]
  /\ sent' = [sent EXCEPT ![job[w].exec] = @ \cup
                {[number |-> job[w].number, idempotent |-> job[w].idempotent]}]
  /\ UNCHANGED <<now, controls, exec, attempts, job, decision, request>>

\* The RPC answers, is rejected, or its deadline passes first (withDeadline).
AwaitRpc(w) ==
  /\ phase[w] = "sent"
  /\ \E outcome \in {"ok", "retryable", "permanent", "unknown"} :
       LET e == job[w].exec
       IN decision' = [decision EXCEPT ![w] =
            IF outcome = "ok" THEN SuccessDecision
            ELSE FailureDecision(e, job[w].idempotent, job[w].number,
                   outcome = "retryable", outcome = "unknown", RetryDeadline(e))]
  /\ phase' = [phase EXCEPT ![w] = "decided"]
  /\ UNCHANGED <<now, controls, exec, attempts, job, request, sent>>

\* Mutant: recovery asks what claim asks, and stops when dispatch is paused.
LeaseExpiredAndDispatchable(e) ==
  /\ exec[e].status = "running" /\ exec[e].timer =< now
  /\ Dispatchable(exec[e].schedule)

LeaseExpired(e) ==
  /\ exec[e].status = "running" /\ exec[e].timer =< now
  /\ exec[e].lease \in AttemptNumbers /\ attempts[e][exec[e].lease] = "running"

\* recoverExpiredLeases, its SELECT and capability read.
ReadExpiredLease(w, e) ==
  /\ phase[w] = "idle"
  /\ LeaseExpired(e)
  /\ job' = [job EXCEPT ![w] = [exec |-> e, number |-> exec[e].lease,
               reason |-> "initial", idempotent |-> FALSE]]
  /\ decision' = [decision EXCEPT ![w] =
       FailureDecision(e, declared[exec[e].action] = "idempotent", exec[e].count,
                       FALSE, TRUE, RetryDeadline(e))]
  /\ phase' = [phase EXCEPT ![w] = "decided"]
  /\ UNCHANGED <<now, controls, exec, attempts, request, sent>>

\* Mutants: the attempt may have an outcome already; the execution's UPDATE
\* does not ask for the lease token.
AttemptExists(e, n) == attempts[e][n] # "none"
LeaseIsHeldByAnyone(e, n) == exec[e].status = "running"

\* The two UPDATEs of finalize, each a no-op when its WHERE finds no row.
AttemptIsOpen(e, n) == attempts[e][n] = "running"
LeaseIsHeld(e, n) == exec[e].status = "running" /\ exec[e].lease = n

Finalize(w) ==
  /\ phase[w] = "decided"
  /\ LET e == job[w].exec
         n == job[w].number
         d == decision[w]
     IN /\ attempts' = IF AttemptIsOpen(e, n)
                       THEN [attempts EXCEPT ![e] = [@ EXCEPT ![n] = d.attempt]]
                       ELSE attempts
        /\ exec' = IF LeaseIsHeld(e, n) /\ attempts'[e][n] = d.attempt
                   THEN [exec EXCEPT ![e] = [@ EXCEPT !.status = d.status,
                           !.reason = d.reason, !.lease = 0, !.timer = d.timer]]
                   ELSE exec
  /\ phase' = [phase EXCEPT ![w] = "idle"]
  /\ job' = [job EXCEPT ![w] = NoJob]
  /\ decision' = [decision EXCEPT ![w] = NoDecision]
  /\ UNCHANGED <<now, controls, request, sent>>

\* The isolate running the Tick dies, or a D1 call of it throws.
Crash(w) ==
  /\ phase[w] # "idle"
  /\ phase' = [phase EXCEPT ![w] = "idle"]
  /\ job' = [job EXCEPT ![w] = NoJob]
  /\ decision' = [decision EXCEPT ![w] = NoDecision]
  /\ UNCHANGED <<now, controls, exec, attempts, request, sent>>

\* Mutants: the window also closes an operator's retry; it closes only what
\* could be dispatched.
AnyWindowClosed(e) == exec[e].status = "retry_wait" /\ RetryDeadline(e) =< now
DispatchableWindowClosed(e) ==
  /\ exec[e].status = "retry_wait" /\ exec[e].reason = "automatic_retry"
  /\ RetryDeadline(e) =< now /\ Dispatchable(exec[e].schedule)

\* expireAutomaticRetryWindows: one statement over every matching row.
WindowClosed(e) ==
  /\ exec[e].status = "retry_wait"
  /\ exec[e].reason = "automatic_retry"
  /\ RetryDeadline(e) =< now

ExpireRetryWindows ==
  /\ \E e \in Executions : WindowClosed(e)
  /\ exec' = [e \in Executions |->
                IF WindowClosed(e)
                THEN [exec[e] EXCEPT !.status = "failed", !.reason = "initial", !.timer = now]
                ELSE exec[e]]
  /\ UNCHANGED <<now, controls, attempts, slots, request, sent>>

\* The executions DELETE of cleanupHistory; attempts go with their execution.
Outdated(e) ==
  \/ exec[e].status \in {"succeeded", "skipped", "cancelled"}
       /\ exec[e].timer < now - SuccessRetention
  \/ exec[e].status = "failed" /\ exec[e].timer < now - FailureRetention

CleanupHistory ==
  /\ \E e \in Executions : Outdated(e)
  /\ exec' = [e \in Executions |->
                IF Outdated(e) THEN [exec[e] EXCEPT !.status = "deleted"] ELSE exec[e]]
  /\ attempts' = [e \in Executions |->
                    IF Outdated(e) THEN [n \in AttemptNumbers |-> "none"] ELSE attempts[e]]
  /\ UNCHANGED <<now, controls, slots, request, sent>>

-----------------------------------------------------------------------------
(* The admin API: execution-operations-repository.ts.  planRetry and         *)
(* planRerun read several rows, then the mutation batch commits a statement  *)
(* with a guard of its own.                                                  *)

OperatorEligible(e) ==
  /\ targetEnabled
  /\ schedule[exec[e].schedule].enabled /\ ~schedule[exec[e].schedule].retired

\* Mutant: every settled execution may be retried.
PlanRetryOfAnyStatus(o, e) ==
  /\ request[o].kind = "none"
  /\ exec[e].status \in Settled \cup {"unknown"}
  /\ exec[e].idempotent /\ declared[exec[e].action] = "idempotent"
  /\ OperatorEligible(e)
  /\ now - exec[e].createdAt =< OperatorRetryWindow
  /\ exec[e].limit < AttemptHardLimit
  /\ request' = [request EXCEPT ![o] =
       [kind |-> "retry", exec |-> e, status |-> exec[e].status, now |-> now]]
  /\ UNCHANGED <<now, controls, exec, attempts, slots, sent>>

PlanRetry(o, e) ==
  /\ request[o].kind = "none"
  /\ exec[e].status \in {"failed", "unknown"}
  /\ exec[e].idempotent /\ declared[exec[e].action] = "idempotent"
  /\ OperatorEligible(e)
  /\ now - exec[e].createdAt =< OperatorRetryWindow
  /\ exec[e].limit < AttemptHardLimit
  /\ request' = [request EXCEPT ![o] =
       [kind |-> "retry", exec |-> e, status |-> exec[e].status, now |-> now]]
  /\ UNCHANGED <<now, controls, exec, attempts, slots, sent>>

CommitRetry(o) ==
  /\ request[o].kind = "retry"
  /\ LET e == request[o].exec
         matches == /\ exec[e].status = request[o].status
                    /\ exec[e].limit < AttemptHardLimit
                    /\ exec[e].createdAt >= request[o].now - OperatorRetryWindow
                    /\ ActiveOf(exec[e].schedule) \ {e} = {}
     IN exec' = IF matches
                THEN [exec EXCEPT ![e] = [@ EXCEPT !.status = "retry_wait",
                        !.reason = "operator_retry", !.limit = exec[e].limit + 1,
                        !.timer = request[o].now]]
                ELSE exec
  /\ request' = [request EXCEPT ![o] = NoRequest]
  /\ UNCHANGED <<now, controls, attempts, slots, sent>>

PlanRerun(o, e) ==
  /\ request[o].kind = "none"
  /\ exec[e].status \in Settled
  /\ declared[exec[e].action] # "removed"
  /\ OperatorEligible(e)
  /\ now + AutomaticRetryWindow =< MaxTime
  /\ request' = [request EXCEPT ![o] =
       [kind |-> "rerun", exec |-> e, status |-> exec[e].status, now |-> now]]
  /\ UNCHANGED <<now, controls, exec, attempts, slots, sent>>

CommitRerun(o, new) ==
  /\ request[o].kind = "rerun"
  /\ exec[new].status = "absent"
  /\ LET e == request[o].exec
         row == exec[e]
         matches == /\ row.status \in Settled
                    /\ ~schedule[row.schedule].retired
                    /\ ActiveOf(row.schedule) = {}
     IN exec' = IF matches
                THEN [exec EXCEPT ![new] = NewExecution(row.schedule, row.action,
                        row.idempotent, row.policy, "pending", request[o].now)]
                ELSE exec
  /\ request' = [request EXCEPT ![o] = NoRequest]
  /\ UNCHANGED <<now, controls, attempts, slots, sent>>

\* The planning request fails, or the client goes away, before its batch.
AbandonRequest(o) ==
  /\ request[o].kind # "none"
  /\ request' = [request EXCEPT ![o] = NoRequest]
  /\ UNCHANGED <<now, controls, exec, attempts, slots, sent>>

\* planCancel and planResolve decide in their one statement.
Cancel(e) ==
  /\ exec[e].status \in {"pending", "retry_wait"}
  /\ exec' = [exec EXCEPT ![e] = [@ EXCEPT !.status = "cancelled", !.timer = now]]
  /\ UNCHANGED <<now, controls, attempts, slots, request, sent>>

Resolve(e) ==
  /\ exec[e].status = "unknown"
  /\ \E verdict \in {"succeeded", "failed", "cancelled"} :
       exec' = [exec EXCEPT ![e] = [@ EXCEPT !.status = verdict, !.timer = now]]
  /\ UNCHANGED <<now, controls, attempts, slots, request, sent>>

-----------------------------------------------------------------------------
(* The switches around the ledger *)

UseSwitch ==
  /\ switches < MaxSwitches
  /\ switches' = switches + 1
  /\ UNCHANGED <<now, exec, attempts, slots, request, sent>>

SwitchDispatch ==     \* planDispatchState
  /\ UseSwitch
  /\ dispatchPaused' = ~dispatchPaused
  /\ UNCHANGED <<targetEnabled, declared, schedule>>

SwitchTarget ==       \* planEnabledState
  /\ UseSwitch
  /\ targetEnabled' = ~targetEnabled
  /\ UNCHANGED <<dispatchPaused, declared, schedule>>

PauseSchedule(s) ==   \* planPause
  /\ UseSwitch
  /\ ~schedule[s].retired /\ ~schedule[s].operatorPaused
  /\ schedule' = [schedule EXCEPT ![s] =
                    [@ EXCEPT !.operatorPaused = TRUE, !.enabled = FALSE]]
  /\ UNCHANGED <<dispatchPaused, targetEnabled, declared>>

ResumeSchedule(s) ==  \* planResume
  /\ UseSwitch
  /\ ~schedule[s].retired /\ schedule[s].operatorPaused
  /\ declared[schedule[s].action] # "removed"
  /\ schedule' = [schedule EXCEPT ![s] =
                    [@ EXCEPT !.operatorPaused = FALSE, !.enabled = schedule[s].declaredEnabled]]
  /\ UNCHANGED <<dispatchPaused, targetEnabled, declared>>

\* The batch of RegistrationRepository.apply: the actions are replaced, a
\* schedule the declaration leaves out is retired, one it names is upserted
\* and keeps the operator's pause.  The contract lets a schedule name only an
\* action of the same declaration.
Register(actions, kept) ==
  /\ UseSwitch
  /\ \A s \in DOMAIN kept : actions[kept[s].action] # "removed"
  /\ declared' = actions
  /\ schedule' = [s \in Schedules |->
       IF s \notin DOMAIN kept
       THEN [schedule[s] EXCEPT !.enabled = FALSE, !.declaredEnabled = FALSE, !.retired = TRUE]
       ELSE [action |-> kept[s].action, declaredEnabled |-> kept[s].enabled,
             operatorPaused |-> schedule[s].operatorPaused,
             enabled |-> kept[s].enabled /\ ~schedule[s].operatorPaused,
             retired |-> FALSE]]
  /\ UNCHANGED <<dispatchPaused, targetEnabled>>

\* Registrations: what the actions are declared as, and the schedules kept.
Documents(keep) == [keep -> [action: Actions, enabled: BOOLEAN]]

AdvanceClock ==
  /\ now < MaxTime
  /\ now' = now + 1
  /\ UNCHANGED <<controls, exec, attempts, slots, request, sent>>

-----------------------------------------------------------------------------
Tick(w) ==
  \/ \E e \in Executions : Claim(w, e) \/ ReadExpiredLease(w, e)
  \/ CheckCapability(w) \/ SendRpc(w) \/ AwaitRpc(w) \/ Finalize(w) \/ Crash(w)

Admin(o) ==
  \/ \E e \in Executions : PlanRetry(o, e) \/ PlanRerun(o, e) \/ CommitRerun(o, e)
  \/ CommitRetry(o) \/ AbandonRequest(o)

Switch ==
  \/ SwitchDispatch \/ SwitchTarget
  \/ \E s \in Schedules : PauseSchedule(s) \/ ResumeSchedule(s)
  \/ \E actions \in [Actions -> Declaration], keep \in SUBSET Schedules :
       \E kept \in Documents(keep) : Register(actions, kept)

Next ==
  \/ \E s \in Schedules, e \in Executions : MaterializeDue(s, e)
  \/ \E w \in Workers : Tick(w)
  \/ ExpireRetryWindows \/ CleanupHistory
  \/ \E o \in Operators : Admin(o)
  \/ \E e \in Executions : Cancel(e) \/ Resolve(e)
  \/ Switch
  \/ AdvanceClock

Spec == Init /\ [][Next]_vars

\* A Tick comes every minute and its invocation ends, by itself or killed:
\* the clock moves, no slot stays busy for ever, the first two statements of
\* the Tick run again and again (also while dispatch is paused), and a Tick is
\* not killed every single time between reading an expired lease and writing
\* its recovery.  Claims, sends, answers and operators are not fair.
SlotMoves(w) ==
  CheckCapability(w) \/ SendRpc(w) \/ AwaitRpc(w) \/ Finalize(w) \/ Crash(w)

Fairness ==
  /\ WF_vars(AdvanceClock)
  /\ WF_vars(ExpireRetryWindows)
  /\ \A w \in Workers : WF_vars(SlotMoves(w))
  /\ \A e \in Executions :
       /\ SF_vars(\E w \in Workers : ReadExpiredLease(w, e))
       /\ SF_vars(\E w \in Workers : Finalize(w) /\ job[w].exec = e)

FairSpec == Spec /\ Fairness
-----------------------------------------------------------------------------
(* Properties *)

\* Every variable has its type.
TypeOK ==
  /\ now \in Nat /\ switches \in Nat
  /\ dispatchPaused \in BOOLEAN /\ targetEnabled \in BOOLEAN
  /\ declared \in [Actions -> Declaration]
  /\ schedule \in [Schedules -> ScheduleRow]
  /\ exec \in [Executions -> ExecutionRow]
  /\ attempts \in [Executions -> [AttemptNumbers -> Finished \cup {"none", "running"}]]
  /\ phase \in [Workers -> {"idle", "claimed", "checked", "sent", "decided"}]
  /\ job \in [Workers -> Job]
  /\ decision \in [Workers -> Decision]
  /\ request \in [Operators -> Request]
  /\ sent \in [Executions -> SUBSET [number : Nat, idempotent : BOOLEAN]]

\* A schedule never has two executions that may still reach its Target,
\* whatever Ticks and operators interleave.  The guards of materializeDue,
\* planRetry and planRerun ensure it by themselves: the unique index
\* uq_execution_active_schedule never has to reject a statement (which would
\* fail the whole Tick).
OneActivePerSchedule ==
  \A e, f \in Executions :
    IsActive(e) /\ IsActive(f) /\ exec[e].schedule = exec[f].schedule => e = f

\* The two tables agree on who is running.  An execution is running exactly
\* while its latest attempt is, under the lease of that attempt, and no other
\* attempt ever is: finalize updates both rows or neither, although a zero-row
\* UPDATE does not abort a D1 batch.
LeaseAgreement ==
  \A e \in Executions :
    /\ exec[e].status = "running" => exec[e].lease = exec[e].count /\ exec[e].count # 0
    /\ exec[e].status # "running" => exec[e].lease = 0
    /\ \A n \in AttemptNumbers :
         attempts[e][n] = "running" <=> exec[e].status = "running" /\ n = exec[e].count

\* An execution waiting for dispatch always has an attempt left, within the
\* hard limit: no interleaving of automatic and operator retries leaves a row
\* that is active, blocks its schedule, and that claim can never take.
AttemptBudget ==
  \A e \in Executions :
    /\ exec[e].count =< exec[e].limit /\ exec[e].limit =< AttemptHardLimit
    /\ exec[e].status \in {"pending", "retry_wait"} => exec[e].count < exec[e].limit

\* Makes AttemptBudget inductive: the limit covers the snapshot's policy.
LimitCoversPolicy ==
  \A e \in Executions :
    exec[e].status # "absent" => exec[e].policy.maxAttempts =< exec[e].limit

\* Makes the invariants above inductive: a busy slot holds an attempt of an
\* existing execution, which its decision retries only within the policy.
SlotsHoldAttempts ==
  \A w \in Workers :
    phase[w] # "idle" =>
      /\ exec[job[w].exec].status # "absent"
      /\ job[w].number \in 1 .. exec[job[w].exec].count
      /\ phase[w] = "decided" /\ decision[w].status = "retry_wait"
           => job[w].number < exec[job[w].exec].policy.maxAttempts

\* The inductive invariant.
LedgerInv ==
  TypeOK /\ LeaseAgreement /\ AttemptBudget /\ LimitCoversPolicy /\ SlotsHoldAttempts

\* The Target is called again for the same execution only as a retry, only
\* if the snapshot and the registration read right before the call both
\* declare the action idempotent.  The code asks for the dispatch reason, not
\* for the number, so this rests on "first attempt" and "initial" being one.
RepeatedCallsAreIdempotent ==
  \A e \in Executions : \A call \in sent[e] :
    call.number > 1 => exec[e].idempotent /\ call.idempotent

\* What the execution says follows from its attempts: nothing is retried or
\* left in doubt after an attempt that succeeded, an execution in doubt ends in
\* an attempt in doubt, and one that was never claimed has no attempt.
OutcomeAgreement ==
  \A e \in Executions :
    LET last == IF exec[e].count = 0 THEN "none" ELSE attempts[e][exec[e].count]
    IN /\ exec[e].status \in {"pending", "skipped"} => exec[e].count = 0
       /\ exec[e].status = "unknown" => last = "unknown"
       /\ exec[e].status \in {"retry_wait", "failed"} => last \in {"failed", "unknown"}
       /\ \A n \in AttemptNumbers : attempts[e][n] = "succeeded" =>
            n = exec[e].count /\ exec[e].status = "succeeded"

\* A late answer rewrites nothing: an attempt that has an outcome keeps it,
\* until the history is cleaned.
AttemptOutcomeIsFinal ==
  [][\A e \in Executions, n \in AttemptNumbers :
       attempts[e][n] \in Finished /\ exec'[e].status # "deleted"
         => attempts'[e][n] = attempts[e][n]]_vars

\* Every attempt gets an outcome, whichever isolate dies: the lease is
\* recovered even if dispatch is paused or the schedule retired meanwhile.
AttemptsEnd ==
  \A e \in Executions, n \in AttemptNumbers :
    attempts[e][n] = "running" ~> attempts[e][n] # "running"

\* An automatic retry does not wait for ever: it is dispatched, cancelled or,
\* when the schedule or the platform is switched off, closed by its window.
AutomaticRetrySettles ==
  \A e \in Executions :
    exec[e].status = "retry_wait" /\ exec[e].reason = "automatic_retry"
      ~> ~(exec[e].status = "retry_wait" /\ exec[e].reason = "automatic_retry")

\* The message of ATTEMPT_HARD_LIMIT: an operator's retry is refused when the
\* execution has used its total of attempts.  The code compares attempt_limit,
\* which every operator retry raises by one, not attempt_count: it refuses
\* earlier.  (Checked as a violation.)
RefusedOnlyWhenAttemptsAreUsed ==
  \A e \in Executions :
    exec[e].status \in {"failed", "unknown"} /\ exec[e].limit >= AttemptHardLimit
      => exec[e].count = AttemptHardLimit

\* What an operator decides stands.  A retry an operator asked for is never
\* taken back by the 24-hour window of automatic retries, a result in doubt is
\* left only by an operator, and a settled execution comes back only as an
\* operator's retry of a failed one, with one attempt more than before.
OperatorDecisionStands ==
  [][\A e \in Executions :
       LET old == exec[e]
           new == exec'[e]
           retried == /\ new.status = "retry_wait" /\ new.reason = "operator_retry"
                      /\ new.limit = old.limit + 1
       IN new # old =>
            /\ old.status = "retry_wait" /\ old.reason = "operator_retry"
                 => new.status \in {"running", "cancelled"}
            /\ old.status = "unknown" => retried \/ new.status \in Settled
            /\ old.status = "failed" => retried \/ new.status = "deleted"
            /\ old.status \in Settled \ {"failed"} => new.status = "deleted"]_vars
=============================================================================
