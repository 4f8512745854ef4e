------------------------ MODULE ExecutionLedgerProofs ------------------------
(***************************************************************************)
(* Proofs about ExecutionLedger, for every number of schedules, actions,   *)
(* executions, dispatch slots and operators, every retry policy within the *)
(* hard limit and every choice of the time constants: the inductive        *)
(* invariant, and what a step may never do because of it: rewrite an       *)
(* attempt's outcome, go against an operator, show an outcome the attempts *)
(* do not bear out, call the Target again for an action that is not        *)
(* idempotent, or do what ScheduleSlot does not allow.                     *)
(***************************************************************************)
EXTENDS LedgerRefinement, TLAPS

USE LimitsAreNaturals

\* The default row, job, decision and request are well typed.
LEMMA DefaultsTyped ==
  /\ NoRow \in ExecutionRow /\ NoJob \in Job
  /\ NoDecision \in Decision /\ NoRequest \in Request
<1>1. /\ (CHOOSE s \in Schedules : TRUE) \in Schedules
      /\ (CHOOSE a \in Actions : TRUE) \in Actions
      /\ (CHOOSE p \in Policies : TRUE) \in Policies
      /\ (CHOOSE e \in Executions : TRUE) \in Executions
  BY PoolsAreNonEmpty
<1>2. NoRow \in ExecutionRow
  BY <1>1 DEF NoRow, ExecutionRow, Statuses, Active, Settled, Reasons
<1>3. NoJob \in Job
  BY <1>1 DEF NoJob, Job, Reasons
<1>4. NoDecision \in Decision
  BY DEF NoDecision, Decision, Finished, Reasons
<1>5. NoRequest \in Request
  BY <1>1 DEF NoRequest, Request, Statuses, Active, Settled
<1>. QED  BY <1>2, <1>3, <1>4, <1>5

\* A fresh execution is a well-typed row with its whole budget left.
LEMMA NewExecutionTyped ==
  ASSUME NEW s \in Schedules, NEW a \in Actions, NEW i \in BOOLEAN,
         NEW p \in Policies, NEW st \in Statuses, NEW at \in Nat
  PROVE  LET row == NewExecution(s, a, i, p, st, at)
         IN /\ row \in ExecutionRow
            /\ row.schedule = s /\ row.status = st /\ row.policy = p
            /\ row.count = 0 /\ row.lease = 0 /\ row.limit = p.maxAttempts
            /\ row.limit \in 1 .. AttemptHardLimit
<1>1. p.maxAttempts \in 1 .. AttemptHardLimit
  BY PoliciesAreWellFormed
<1>. QED  BY <1>1 DEF NewExecution, ExecutionRow, Reasons

\* A decision made after a failed attempt is well typed, and it retries only
\* when the policy has attempts left.
LEMMA FailureDecisionTyped ==
  ASSUME TypeOK, NEW e \in Executions, NEW cur \in BOOLEAN, NEW n \in Nat \ {0},
         NEW r \in BOOLEAN, NEW u \in BOOLEAN, NEW d \in Int
  PROVE  LET x == FailureDecision(e, cur, n, r, u, d)
         IN /\ x \in Decision
            /\ x.status = "retry_wait" => n < exec[e].policy.maxAttempts
<1>1. exec[e].policy \in Policies /\ now \in Nat
  BY DEF TypeOK, ExecutionRow
<1>2. CASE CanAutomaticallyRetry(e, cur, n, r, u, d)
  <2>1. n < exec[e].policy.maxAttempts
    BY <1>2 DEF CanAutomaticallyRetry
  <2>2. n \in 1 .. (exec[e].policy.maxAttempts - 1)
    BY <1>1, <2>1, PoliciesAreWellFormed
  <2>3. exec[e].policy.delays[n] \in Nat
    BY <1>1, <2>2, PoliciesAreWellFormed
  <2>. QED
    BY <1>1, <1>2, <2>1, <2>3 DEF FailureDecision, Decision, Finished, Reasons
<1>3. CASE ~CanAutomaticallyRetry(e, cur, n, r, u, d)
  BY <1>1, <1>3 DEF FailureDecision, Decision, Finished, Reasons
<1>. QED  BY <1>2, <1>3

-----------------------------------------------------------------------------
LEMMA InitLedgerInv == Init => LedgerInv
<1>. SUFFICES ASSUME Init PROVE LedgerInv
  OBVIOUS
<1>1. TypeOK
  BY DefaultsTyped DEF Init, TypeOK, Declaration, ScheduleRow
<1>2. LeaseAgreement /\ AttemptBudget /\ LimitCoversPolicy
  BY DEF Init, NoRow, LeaseAgreement, AttemptBudget, LimitCoversPolicy, AttemptNumbers
<1>3. SlotsHoldAttempts
  BY DEF Init, SlotsHoldAttempts
<1>. QED  BY <1>1, <1>2, <1>3 DEF LedgerInv

-----------------------------------------------------------------------------
(* One lemma per action.  TypeOK' is a step of its own; the four invariants  *)
(* relate exec, attempts and the slots only.                                 *)

\* The ledger's invariants but for the types.
LedgerRelations ==
  LeaseAgreement /\ AttemptBudget /\ LimitCoversPolicy /\ SlotsHoldAttempts

\* A step that leaves the two tables and the slots alone keeps the relations.
LEMMA FrameRelations ==
  ASSUME LedgerRelations, UNCHANGED <<exec, attempts, slots>>
  PROVE  LedgerRelations'
BY DEF LedgerRelations, slots, LeaseAgreement, AttemptBudget, LimitCoversPolicy,
       SlotsHoldAttempts

LEMMA ClaimInv ==
  ASSUME LedgerInv, NEW w \in Workers, NEW e \in Executions, Claim(w, e)
  PROVE  LedgerInv'
<1>. USE DEF LedgerInv
<1>. DEFINE n == exec[e].count + 1
<1>1. /\ exec[e] \in ExecutionRow /\ now \in Nat
      /\ exec[e].status \in {"pending", "retry_wait"}
      /\ n \in AttemptNumbers /\ n =< exec[e].limit
  BY DEF TypeOK, Claim, AttemptBudget, AttemptNumbers, ExecutionRow
<1>2. /\ exec' = [exec EXCEPT ![e] = [@ EXCEPT !.status = "running",
                    !.count = n, !.lease = n, !.timer = now + LeaseTime]]
      /\ attempts' = [attempts EXCEPT ![e] = [@ EXCEPT ![n] = "running"]]
      /\ job' = [job EXCEPT ![w] = [exec |-> e, number |-> n,
                    reason |-> exec[e].reason, idempotent |-> FALSE]]
      /\ phase' = [phase EXCEPT ![w] = "claimed"]
      /\ UNCHANGED <<now, controls, decision, request, sent>>
  BY DEF Claim
<1>3. TypeOK'
  <2>1. exec' \in [Executions -> ExecutionRow]
    <3>1. n \in Nat /\ now + LeaseTime \in Int /\ "running" \in Statuses
      BY <1>1 DEF AttemptNumbers, Statuses, Active
    <3>2. [exec[e] EXCEPT !.status = "running", !.count = n, !.lease = n,
                          !.timer = now + LeaseTime] \in ExecutionRow
      BY <1>1, <3>1 DEF ExecutionRow
    <3>. QED  BY <1>2, <3>2 DEF TypeOK
  <2>2. attempts' \in [Executions -> [AttemptNumbers -> Finished \cup {"none", "running"}]]
    BY <1>1, <1>2 DEF TypeOK
  <2>3. job' \in [Workers -> Job] /\ phase' \in [Workers -> {"idle", "claimed", "checked", "sent", "decided"}]
    BY <1>1, <1>2 DEF TypeOK, Job, ExecutionRow
  <2>. QED  BY <1>2, <2>1, <2>2, <2>3 DEF TypeOK, controls
<1>4. LeaseAgreement'
  BY <1>1, <1>2 DEF TypeOK, LeaseAgreement, AttemptNumbers
<1>5. AttemptBudget' /\ LimitCoversPolicy'
  BY <1>1, <1>2 DEF TypeOK, AttemptBudget, LimitCoversPolicy
<1>6. SlotsHoldAttempts'
  <2>. SUFFICES ASSUME NEW v \in Workers, phase'[v] # "idle"
                PROVE  /\ exec'[job'[v].exec].status # "absent"
                       /\ job'[v].number \in 1 .. exec'[job'[v].exec].count
                       /\ phase'[v] = "decided" /\ decision'[v].status = "retry_wait"
                            => job'[v].number < exec'[job'[v].exec].policy.maxAttempts
    BY DEF SlotsHoldAttempts
  <2>1. CASE v = w
    BY <1>1, <1>2, <2>1 DEF TypeOK, ExecutionRow
  <2>2. CASE v # w
    <3>1. phase[v] # "idle" /\ job'[v] = job[v] /\ phase'[v] = phase[v]
      BY <1>2, <2>2 DEF TypeOK
    <3>2. job[v] \in Job /\ exec[job[v].exec] \in ExecutionRow
      BY DEF TypeOK, Job
    <3>. QED
      BY <1>1, <1>2, <3>1, <3>2 DEF TypeOK, SlotsHoldAttempts, Job, ExecutionRow
  <2>. QED  BY <2>1, <2>2
<1>. QED  BY <1>3, <1>4, <1>5, <1>6

\* What SlotsHoldAttempts asks of one slot.
SlotHolds(w) ==
  phase[w] # "idle" =>
    /\ exec[job[w].exec].status # "absent"
    /\ job[w].number \in 1 .. exec[job[w].exec].count
    /\ phase[w] = "decided" /\ decision[w].status = "retry_wait"
         => job[w].number < exec[job[w].exec].policy.maxAttempts

\* A step of one slot that leaves the tables alone disturbs that slot only.
LEMMA SlotStepRelations ==
  ASSUME LedgerInv, NEW w \in Workers, UNCHANGED <<exec, attempts>>,
         \A v \in Workers \ {w} : /\ phase'[v] = phase[v] /\ job'[v] = job[v]
                                  /\ decision'[v] = decision[v],
         SlotHolds(w)'
  PROVE  LedgerRelations'
<1>1. LeaseAgreement' /\ AttemptBudget' /\ LimitCoversPolicy'
  BY DEF LedgerInv, LeaseAgreement, AttemptBudget, LimitCoversPolicy
<1>2. SlotsHoldAttempts'
  BY DEF LedgerInv, SlotsHoldAttempts, SlotHolds
<1>. QED  BY <1>1, <1>2 DEF LedgerRelations

\* A step that only rewrites rows, and keeps what a slot relies on.
LEMMA RowStepSlots ==
  ASSUME LedgerInv, UNCHANGED slots,
         \A e \in Executions : exec[e].status # "absent" =>
           /\ exec'[e].status # "absent"
           /\ exec'[e].count = exec[e].count
           /\ exec'[e].policy = exec[e].policy
  PROVE  SlotsHoldAttempts'
<1>. SUFFICES ASSUME NEW w \in Workers, phase'[w] # "idle"
              PROVE  SlotHolds(w)'
  BY DEF SlotsHoldAttempts, SlotHolds
<1>1. job[w].exec \in Executions /\ phase'[w] = phase[w] /\ job'[w] = job[w]
        /\ decision'[w] = decision[w]
  BY DEF LedgerInv, TypeOK, Job, slots
<1>2. SlotHolds(w)
  BY DEF LedgerInv, SlotsHoldAttempts, SlotHolds
<1>. QED  BY <1>1, <1>2 DEF SlotHolds

\* A busy slot holds the number of an attempt of an execution that exists.
LEMMA BusySlot ==
  ASSUME LedgerInv, NEW w \in Workers, phase[w] # "idle"
  PROVE  LET e == job[w].exec
         IN /\ job[w] \in Job /\ e \in Executions /\ exec[e] \in ExecutionRow
            /\ exec[e].status # "absent"
            /\ job[w].number \in 1 .. exec[e].count /\ job[w].number \in Nat \ {0}
            /\ job[w].number \in AttemptNumbers
            /\ exec[e].count \in Nat /\ now \in Int /\ RetryDeadline(e) \in Int
<1>1. job[w] \in Job /\ job[w].exec \in Executions /\ now \in Int
  BY DEF LedgerInv, TypeOK, Job
<1>2. /\ exec[job[w].exec] \in ExecutionRow /\ exec[job[w].exec].count \in Nat
      /\ RetryDeadline(job[w].exec) \in Int
  BY <1>1 DEF LedgerInv, TypeOK, ExecutionRow, RetryDeadline
<1>3. exec[job[w].exec].status # "absent" /\ job[w].number \in 1 .. exec[job[w].exec].count
  BY DEF LedgerInv, SlotsHoldAttempts
<1>4. exec[job[w].exec].count =< AttemptHardLimit
  BY <1>1, <1>2 DEF LedgerInv, AttemptBudget, TypeOK, ExecutionRow
<1>. QED  BY <1>1, <1>2, <1>3, <1>4 DEF AttemptNumbers

LEMMA CheckCapabilityInv ==
  ASSUME LedgerInv, NEW w \in Workers, CheckCapability(w)
  PROVE  LedgerInv'
<1>. DEFINE e == job[w].exec
            x == FailureDecision(e, FALSE, job[w].number, FALSE, FALSE, now)
<1>1. /\ job[w] \in Job /\ e \in Executions /\ phase[w] = "claimed"
      /\ exec[e].status # "absent" /\ job[w].number \in 1 .. exec[e].count
      /\ job[w].number \in Nat \ {0} /\ now \in Int
  BY BusySlot DEF CheckCapability
<1>2. x \in Decision /\ (x.status = "retry_wait" => job[w].number < exec[e].policy.maxAttempts)
  <2>1. TypeOK
    BY DEF LedgerInv
  <2>. QED  BY <1>1, <2>1, FailureDecisionTyped
<1>. HIDE DEF x
<1>3. /\ UNCHANGED <<now, controls, exec, attempts, request, sent>>
      /\ \/ /\ decision' = [decision EXCEPT ![w] = x]
            /\ phase' = [phase EXCEPT ![w] = "decided"]
            /\ job' = job
         \/ /\ \E i \in BOOLEAN : job' = [job EXCEPT ![w] = [@ EXCEPT !.idempotent = i]]
            /\ phase' = [phase EXCEPT ![w] = "checked"]
            /\ decision' = decision
  BY DEF CheckCapability, x
<1>4. TypeOK' /\ SlotHolds(w)'
  <2>1. CASE /\ decision' = [decision EXCEPT ![w] = x]
             /\ phase' = [phase EXCEPT ![w] = "decided"] /\ job' = job
    <3>1. TypeOK'
      BY <1>2, <1>3, <2>1 DEF LedgerInv, TypeOK, controls
    <3>2. SlotHolds(w)'
      BY <1>1, <1>2, <1>3, <2>1 DEF LedgerInv, TypeOK, SlotHolds
    <3>. QED  BY <3>1, <3>2
  <2>2. ASSUME NEW i \in BOOLEAN, job' = [job EXCEPT ![w] = [@ EXCEPT !.idempotent = i]],
               phase' = [phase EXCEPT ![w] = "checked"], decision' = decision
        PROVE  TypeOK' /\ SlotHolds(w)'
    <3>1. /\ [job[w] EXCEPT !.idempotent = i] \in Job
          /\ [job[w] EXCEPT !.idempotent = i].exec = e
          /\ [job[w] EXCEPT !.idempotent = i].number = job[w].number
      BY <1>1 DEF Job
    <3>2. job' \in [Workers -> Job]
      BY <2>2, <3>1 DEF LedgerInv, TypeOK
    <3>3. phase' \in [Workers -> {"idle", "claimed", "checked", "sent", "decided"}]
      BY <2>2 DEF LedgerInv, TypeOK
    <3>4. TypeOK'
      BY <1>3, <2>2, <3>2, <3>3 DEF LedgerInv, TypeOK, controls
    <3>5. job'[w].exec = e /\ job'[w].number = job[w].number /\ phase'[w] = "checked"
      BY <2>2, <3>1 DEF LedgerInv, TypeOK
    <3>6. SlotHolds(w)'
      BY <1>1, <1>3, <3>5 DEF SlotHolds
    <3>. QED  BY <3>4, <3>6
  <2>. QED  BY <1>3, <2>1, <2>2
<1>5. SlotHolds(w)'
  BY <1>4
<1>6. \A v \in Workers \ {w} : phase'[v] = phase[v] /\ job'[v] = job[v] /\ decision'[v] = decision[v]
  BY <1>3 DEF LedgerInv, TypeOK
<1>7. LedgerRelations'
  BY <1>3, <1>5, <1>6, SlotStepRelations
<1>. QED  BY <1>4, <1>7 DEF LedgerInv, LedgerRelations

LEMMA SendRpcInv ==
  ASSUME LedgerInv, NEW w \in Workers, SendRpc(w)
  PROVE  LedgerInv'
<1>1. job[w] \in Job /\ phase[w] = "checked" /\ job[w].exec \in Executions
  BY BusySlot DEF SendRpc
<1>2. TypeOK'
  BY <1>1 DEF SendRpc, LedgerInv, TypeOK, controls, Job
<1>3. SlotHolds(w)'
  BY <1>1 DEF SendRpc, LedgerInv, TypeOK, SlotHolds, SlotsHoldAttempts
<1>4. LedgerRelations'
  BY <1>3, SlotStepRelations DEF SendRpc, LedgerInv, TypeOK
<1>. QED  BY <1>2, <1>4 DEF LedgerInv, LedgerRelations

LEMMA AwaitRpcInv ==
  ASSUME LedgerInv, NEW w \in Workers, AwaitRpc(w)
  PROVE  LedgerInv'
<1>. DEFINE e == job[w].exec
<1>1. /\ job[w] \in Job /\ e \in Executions /\ phase[w] = "sent"
      /\ exec[e].status # "absent" /\ job[w].number \in 1 .. exec[e].count
      /\ job[w].number \in Nat \ {0} /\ RetryDeadline(e) \in Int /\ now \in Int
  BY BusySlot DEF AwaitRpc
<1>2. PICK x \in Decision :
        /\ x.status = "retry_wait" => job[w].number < exec[e].policy.maxAttempts
        /\ decision' = [decision EXCEPT ![w] = x]
  <2>1. SuccessDecision \in Decision /\ SuccessDecision.status # "retry_wait"
    BY <1>1 DEF SuccessDecision, Decision, Finished, Reasons
  <2>2. \A r, u \in BOOLEAN :
          LET x == FailureDecision(e, job[w].idempotent, job[w].number, r, u, RetryDeadline(e))
          IN /\ x \in Decision
             /\ x.status = "retry_wait" => job[w].number < exec[e].policy.maxAttempts
    BY <1>1, FailureDecisionTyped DEF LedgerInv, Job
  <2>. QED  BY <2>1, <2>2 DEF AwaitRpc
<1>3. /\ UNCHANGED <<now, controls, exec, attempts, job, request, sent>>
      /\ phase' = [phase EXCEPT ![w] = "decided"]
  BY DEF AwaitRpc
<1>4. TypeOK'
  BY <1>2, <1>3 DEF LedgerInv, TypeOK, controls
<1>5. SlotHolds(w)'
  BY <1>1, <1>2, <1>3 DEF LedgerInv, TypeOK, SlotHolds
<1>6. LedgerRelations'
  BY <1>2, <1>3, <1>5, SlotStepRelations DEF LedgerInv, TypeOK
<1>. QED  BY <1>4, <1>6 DEF LedgerInv, LedgerRelations

LEMMA ReadExpiredLeaseInv ==
  ASSUME LedgerInv, NEW w \in Workers, NEW e \in Executions, ReadExpiredLease(w, e)
  PROVE  LedgerInv'
<1>. DEFINE n == exec[e].lease
            x == FailureDecision(e, declared[exec[e].action] = "idempotent",
                                 exec[e].count, FALSE, TRUE, RetryDeadline(e))
            j == [exec |-> e, number |-> n, reason |-> "initial", idempotent |-> FALSE]
<1>1. /\ TypeOK /\ exec[e] \in ExecutionRow /\ exec[e].status = "running"
      /\ n = exec[e].count /\ n \in Nat \ {0} /\ RetryDeadline(e) \in Int
  BY DEF LedgerInv, TypeOK, LeaseAgreement, ReadExpiredLease, LeaseExpired, ExecutionRow,
         RetryDeadline
<1>2. x \in Decision /\ (x.status = "retry_wait" => n < exec[e].policy.maxAttempts)
  BY <1>1, FailureDecisionTyped
<1>3. j \in Job
  BY <1>1 DEF Job, Reasons
<1>. HIDE DEF x
<1>4. /\ UNCHANGED <<now, controls, exec, attempts, request, sent>>
      /\ job' = [job EXCEPT ![w] = j]
      /\ decision' = [decision EXCEPT ![w] = x]
      /\ phase' = [phase EXCEPT ![w] = "decided"]
  BY DEF ReadExpiredLease, x
<1>5. TypeOK'
  BY <1>2, <1>3, <1>4 DEF LedgerInv, TypeOK, controls
<1>6. job'[w] = j /\ decision'[w] = x /\ phase'[w] = "decided"
  BY <1>4 DEF LedgerInv, TypeOK
<1>7. SlotHolds(w)'
  BY <1>1, <1>2, <1>4, <1>6 DEF SlotHolds
<1>8. LedgerRelations'
  BY <1>4, <1>7, SlotStepRelations DEF LedgerInv, TypeOK
<1>. QED  BY <1>5, <1>8 DEF LedgerInv, LedgerRelations

LEMMA CrashInv ==
  ASSUME LedgerInv, NEW w \in Workers, Crash(w)
  PROVE  LedgerInv'
<1>1. TypeOK'
  BY DefaultsTyped DEF Crash, LedgerInv, TypeOK, controls
<1>2. SlotHolds(w)'
  BY DEF Crash, LedgerInv, TypeOK, SlotHolds
<1>3. LedgerRelations'
  BY <1>2, SlotStepRelations DEF Crash, LedgerInv, TypeOK
<1>. QED  BY <1>1, <1>3 DEF LedgerInv, LedgerRelations

\* finalize writes both rows or neither: an attempt that is open belongs to
\* the execution's current lease, and the other way round.
LEMMA FinalizeInv ==
  ASSUME LedgerInv, NEW w \in Workers, Finalize(w)
  PROVE  LedgerInv'
<1>. DEFINE e == job[w].exec
            n == job[w].number
            d == decision[w]
<1>1. /\ job[w] \in Job /\ e \in Executions /\ exec[e] \in ExecutionRow
      /\ exec[e].status # "absent" /\ n \in 1 .. exec[e].count
      /\ n \in Nat \ {0} /\ n \in AttemptNumbers /\ exec[e].count \in Nat
      /\ phase[w] = "decided"
  BY BusySlot DEF Finalize
<1>2. /\ d \in Decision
      /\ d.status = "retry_wait" => n < exec[e].policy.maxAttempts
  BY <1>1 DEF LedgerInv, TypeOK, SlotsHoldAttempts
<1>3. AttemptIsOpen(e, n) <=> LeaseIsHeld(e, n)
  BY <1>1 DEF AttemptIsOpen, LeaseIsHeld, LedgerInv, LeaseAgreement
<1>4. /\ UNCHANGED <<now, controls, request, sent>>
      /\ phase' = [phase EXCEPT ![w] = "idle"]
      /\ job' = [job EXCEPT ![w] = NoJob]
      /\ decision' = [decision EXCEPT ![w] = NoDecision]
  BY DEF Finalize
<1>5. CASE ~LeaseIsHeld(e, n)
  <2>1. UNCHANGED <<exec, attempts>>
    BY <1>3, <1>5 DEF Finalize
  <2>2. TypeOK'
    BY <1>4, <2>1, DefaultsTyped DEF LedgerInv, TypeOK, controls
  <2>3. SlotHolds(w)'
    BY <1>4 DEF LedgerInv, TypeOK, SlotHolds
  <2>4. LedgerRelations'
    BY <1>4, <2>1, <2>3, SlotStepRelations DEF LedgerInv, TypeOK
  <2>. QED  BY <2>2, <2>4 DEF LedgerInv, LedgerRelations
<1>6. CASE LeaseIsHeld(e, n)
  <2>. DEFINE row == [exec[e] EXCEPT !.status = d.status, !.reason = d.reason,
                                     !.lease = 0, !.timer = d.timer]
  <2>1. attempts' = [attempts EXCEPT ![e] = [@ EXCEPT ![n] = d.attempt]]
    BY <1>3, <1>6 DEF Finalize
  <2>2. attempts'[e][n] = d.attempt
    BY <1>1, <2>1 DEF LedgerInv, TypeOK
  <2>3. exec' = [exec EXCEPT ![e] = row]
    BY <1>6, <2>2 DEF Finalize
  <2>4. exec[e].status = "running" /\ exec[e].count = n /\ d.attempt # "running"
        /\ d.status # "running" /\ d.status # "pending" /\ d.status # "absent"
    BY <1>1, <1>2, <1>6 DEF LeaseIsHeld, LedgerInv, LeaseAgreement, Decision, Finished
  <2>5. row \in ExecutionRow
    BY <1>1, <1>2 DEF ExecutionRow, Decision, Statuses, Active, Settled
  <2>6. /\ row.status = d.status /\ row.lease = 0 /\ row.count = n
        /\ row.limit = exec[e].limit /\ row.policy = exec[e].policy
    BY <1>1, <2>4 DEF ExecutionRow
  <2>. HIDE DEF row
  <2>7. TypeOK'
    <3>1. exec' \in [Executions -> ExecutionRow]
      BY <1>1, <2>3, <2>5 DEF LedgerInv, TypeOK
    <3>2. attempts' \in [Executions -> [AttemptNumbers -> Finished \cup {"none", "running"}]]
      BY <1>1, <1>2, <2>1 DEF LedgerInv, TypeOK, Decision
    <3>3. /\ phase' \in [Workers -> {"idle", "claimed", "checked", "sent", "decided"}]
          /\ job' \in [Workers -> Job] /\ decision' \in [Workers -> Decision]
      BY <1>4, DefaultsTyped DEF LedgerInv, TypeOK
    <3>. QED  BY <1>4, <3>1, <3>2, <3>3 DEF LedgerInv, TypeOK, controls
  <2>8. LeaseAgreement'
    BY <1>1, <2>1, <2>3, <2>4, <2>6 DEF LedgerInv, TypeOK, LeaseAgreement
  <2>9. LimitCoversPolicy'
    BY <1>1, <2>3, <2>6 DEF LedgerInv, TypeOK, LimitCoversPolicy
  <2>10. AttemptBudget'
    <3>1. row.status \in {"pending", "retry_wait"} => row.count < row.limit
      <4>1. exec[e].policy.maxAttempts =< exec[e].limit
        BY <1>1 DEF LedgerInv, LimitCoversPolicy
      <4>2. exec[e].policy.maxAttempts \in Int /\ exec[e].limit \in Int
        BY <1>1, PoliciesAreWellFormed DEF ExecutionRow
      <4>. QED  BY <1>1, <1>2, <2>4, <2>6, <4>1, <4>2
    <3>. QED  BY <1>1, <2>3, <2>4, <2>6, <3>1 DEF LedgerInv, TypeOK, AttemptBudget
  <2>11. SlotsHoldAttempts'
    <3>. SUFFICES ASSUME NEW v \in Workers, phase'[v] # "idle"
                  PROVE  SlotHolds(v)'
      BY DEF SlotsHoldAttempts, SlotHolds
    <3>1. v # w
      BY <1>4 DEF LedgerInv, TypeOK
    <3>2. /\ phase'[v] = phase[v] /\ job'[v] = job[v] /\ decision'[v] = decision[v]
          /\ job[v].exec \in Executions
      BY <1>4, <3>1 DEF LedgerInv, TypeOK, Job
    <3>3. /\ exec'[job[v].exec].status # "absent"
          /\ exec'[job[v].exec].count = exec[job[v].exec].count
          /\ exec'[job[v].exec].policy = exec[job[v].exec].policy
      BY <2>3, <2>4, <2>6, <3>2 DEF LedgerInv, TypeOK, SlotsHoldAttempts
    <3>4. SlotHolds(v)
      BY DEF LedgerInv, SlotsHoldAttempts, SlotHolds
    <3>. QED  BY <3>2, <3>3, <3>4 DEF SlotHolds
  <2>. QED  BY <2>7, <2>8, <2>9, <2>10, <2>11 DEF LedgerInv
<1>. QED  BY <1>5, <1>6

-----------------------------------------------------------------------------
(* The steps that rewrite rows without being the Tick's own dispatch *)

\* A row may be settled, deleted or handed to an operator's retry without
\* disturbing the relations, as long as it is not a running one.
Rewritten(old, new) ==
  /\ new.lease = old.lease /\ new.count = old.count /\ new.policy = old.policy
  /\ new.limit >= old.limit /\ new.limit =< AttemptHardLimit
  /\ new.status \notin {"absent", "running", "pending"}
  /\ new.status = "retry_wait" => old.count < new.limit

LEMMA RewriteRelations ==
  ASSUME LedgerInv, UNCHANGED slots, exec' \in [Executions -> ExecutionRow],
         NEW S \in SUBSET Executions,
         \A e \in Executions : e \notin S => exec'[e] = exec[e] /\ attempts'[e] = attempts[e],
         \A e \in S : /\ exec[e].status \notin {"absent", "running"}
                      /\ Rewritten(exec[e], exec'[e])
                      /\ \A n \in AttemptNumbers : attempts'[e][n] # "running"
  PROVE  LedgerRelations'
<1>1. \A e \in Executions : exec[e] \in ExecutionRow /\ exec'[e] \in ExecutionRow
  BY DEF LedgerInv, TypeOK
<1>2. LeaseAgreement'
  <2>. SUFFICES ASSUME NEW e \in Executions
                PROVE /\ exec'[e].status = "running" => exec'[e].lease = exec'[e].count /\ exec'[e].count # 0
                      /\ exec'[e].status # "running" => exec'[e].lease = 0
                      /\ \A n \in AttemptNumbers : attempts'[e][n] = "running"
                           <=> exec'[e].status = "running" /\ n = exec'[e].count
    BY DEF LeaseAgreement
  <2>1. CASE e \in S
    BY <2>1 DEF Rewritten, LedgerInv, LeaseAgreement
  <2>2. CASE e \notin S
    BY <2>2 DEF LedgerInv, LeaseAgreement
  <2>. QED  BY <2>1, <2>2
<1>3. AttemptBudget'
  <2>. SUFFICES ASSUME NEW e \in Executions
                PROVE /\ exec'[e].count =< exec'[e].limit /\ exec'[e].limit =< AttemptHardLimit
                      /\ exec'[e].status \in {"pending", "retry_wait"} => exec'[e].count < exec'[e].limit
    BY DEF AttemptBudget
  <2>1. CASE e \in S
    BY <1>1, <2>1 DEF Rewritten, LedgerInv, AttemptBudget, ExecutionRow
  <2>2. CASE e \notin S
    BY <2>2 DEF LedgerInv, AttemptBudget
  <2>. QED  BY <2>1, <2>2
<1>4. LimitCoversPolicy'
  <2>. SUFFICES ASSUME NEW e \in Executions, exec'[e].status # "absent"
                PROVE  exec'[e].policy.maxAttempts =< exec'[e].limit
    BY DEF LimitCoversPolicy
  <2>1. CASE e \in S
    <3>1. /\ exec[e].policy.maxAttempts \in Int /\ exec[e].limit \in Int /\ exec'[e].limit \in Int
          /\ exec[e].policy.maxAttempts =< exec[e].limit
      BY <1>1, <2>1, PoliciesAreWellFormed DEF ExecutionRow, LedgerInv, LimitCoversPolicy
    <3>. QED  BY <2>1, <3>1 DEF Rewritten
  <2>2. CASE e \notin S
    BY <2>2 DEF LedgerInv, LimitCoversPolicy
  <2>. QED  BY <2>1, <2>2
<1>5. SlotsHoldAttempts'
  <2>1. \A e \in Executions : exec[e].status # "absent" =>
          /\ exec'[e].status # "absent" /\ exec'[e].count = exec[e].count
          /\ exec'[e].policy = exec[e].policy
    BY DEF Rewritten
  <2>. QED  BY <2>1, RowStepSlots
<1>. QED  BY <1>2, <1>3, <1>4, <1>5 DEF LedgerRelations

\* No attempt of an execution that is not running is open.
LEMMA NotRunningNoOpenAttempt ==
  ASSUME LedgerInv, NEW e \in Executions, exec[e].status # "running"
  PROVE  \A n \in AttemptNumbers : attempts[e][n] # "running"
BY DEF LedgerInv, LeaseAgreement

LEMMA ExpireRetryWindowsInv ==
  ASSUME LedgerInv, ExpireRetryWindows
  PROVE  LedgerInv'
<1>. DEFINE S == {e \in Executions : WindowClosed(e)}
            row(e) == [exec[e] EXCEPT !.status = "failed", !.reason = "initial", !.timer = now]
<1>1. \A e \in Executions : exec[e] \in ExecutionRow /\ now \in Int
  BY DEF LedgerInv, TypeOK
<1>2. /\ exec' = [e \in Executions |-> IF e \in S THEN row(e) ELSE exec[e]]
      /\ UNCHANGED <<now, controls, attempts, slots, request, sent>>
  BY DEF ExpireRetryWindows
<1>3. \A e \in S : exec[e].status = "retry_wait"
  BY DEF WindowClosed
<1>4. \A e \in S : row(e) \in ExecutionRow
  BY <1>1 DEF ExecutionRow, Statuses, Settled, Reasons
<1>5. exec' \in [Executions -> ExecutionRow]
  BY <1>1, <1>2, <1>4
<1>6. TypeOK'
  BY <1>2, <1>5 DEF LedgerInv, TypeOK, controls, slots
<1>7. \A e \in S : Rewritten(exec[e], row(e))
  BY <1>1, <1>3 DEF Rewritten, ExecutionRow, LedgerInv, AttemptBudget
<1>8. \A e \in S : exec'[e] = row(e)
  BY <1>2
<1>9. \A e \in S : \A n \in AttemptNumbers : attempts'[e][n] # "running"
  BY <1>2, <1>3, NotRunningNoOpenAttempt
<1>10. \A e \in Executions : e \notin S => exec'[e] = exec[e] /\ attempts'[e] = attempts[e]
  BY <1>2
<1>11. UNCHANGED slots
  BY <1>2
<1>12. \A e \in S : /\ exec[e].status \notin {"absent", "running"}
                    /\ Rewritten(exec[e], exec'[e])
                    /\ \A n \in AttemptNumbers : attempts'[e][n] # "running"
  BY <1>3, <1>7, <1>8, <1>9
<1>13. S \in SUBSET Executions
  OBVIOUS
<1>. HIDE DEF S
<1>14. LedgerRelations'
  BY <1>5, <1>10, <1>11, <1>12, <1>13, RewriteRelations
<1>. QED  BY <1>6, <1>14 DEF LedgerInv, LedgerRelations

LEMMA CleanupHistoryInv ==
  ASSUME LedgerInv, CleanupHistory
  PROVE  LedgerInv'
<1>. DEFINE S == {e \in Executions : Outdated(e)}
            row(e) == [exec[e] EXCEPT !.status = "deleted"]
<1>1. \A e \in Executions : exec[e] \in ExecutionRow
  BY DEF LedgerInv, TypeOK
<1>2. /\ exec' = [e \in Executions |-> IF e \in S THEN row(e) ELSE exec[e]]
      /\ attempts' = [e \in Executions |->
                        IF e \in S THEN [n \in AttemptNumbers |-> "none"] ELSE attempts[e]]
      /\ UNCHANGED <<now, controls, slots, request, sent>>
  BY DEF CleanupHistory
<1>3. \A e \in S : exec[e].status \in Settled
  BY DEF Outdated, Settled
<1>4. \A e \in S : row(e) \in ExecutionRow
  BY <1>1 DEF ExecutionRow, Statuses
<1>5. exec' \in [Executions -> ExecutionRow]
  BY <1>1, <1>2, <1>4
<1>6. attempts' \in [Executions -> [AttemptNumbers -> Finished \cup {"none", "running"}]]
  BY <1>2 DEF LedgerInv, TypeOK
<1>7. TypeOK'
  BY <1>2, <1>5, <1>6 DEF LedgerInv, TypeOK, controls, slots
<1>8. \A e \in S : Rewritten(exec[e], row(e))
  BY <1>1 DEF Rewritten, ExecutionRow, LedgerInv, AttemptBudget
<1>9. \A e \in S : /\ exec[e].status \notin {"absent", "running"}
                   /\ Rewritten(exec[e], exec'[e])
                   /\ \A n \in AttemptNumbers : attempts'[e][n] # "running"
  BY <1>2, <1>3, <1>8 DEF Settled
<1>10. \A e \in Executions : e \notin S => exec'[e] = exec[e] /\ attempts'[e] = attempts[e]
  BY <1>2
<1>11. UNCHANGED slots /\ S \in SUBSET Executions
  BY <1>2
<1>. HIDE DEF S
<1>12. LedgerRelations'
  BY <1>5, <1>9, <1>10, <1>11, RewriteRelations
<1>. QED  BY <1>7, <1>12 DEF LedgerInv, LedgerRelations

\* One row that is not running is rewritten, the attempts stay.
LEMMA RewriteOneInv ==
  ASSUME LedgerInv, NEW e \in Executions, NEW row \in ExecutionRow,
         exec' = [exec EXCEPT ![e] = row],
         exec[e].status \notin {"absent", "running"}, Rewritten(exec[e], row),
         UNCHANGED <<now, controls, attempts, slots, sent>>,
         request' \in [Operators -> Request]
  PROVE  LedgerInv'
<1>1. exec' \in [Executions -> ExecutionRow] /\ exec'[e] = row
  BY DEF LedgerInv, TypeOK
<1>2. TypeOK'
  BY <1>1 DEF LedgerInv, TypeOK, controls, slots
<1>3. \A f \in Executions : f \notin {e} => exec'[f] = exec[f] /\ attempts'[f] = attempts[f]
  BY DEF LedgerInv, TypeOK
<1>4. \A n \in AttemptNumbers : attempts'[e][n] # "running"
  BY NotRunningNoOpenAttempt
<1>5. UNCHANGED slots /\ {e} \in SUBSET Executions
  OBVIOUS
<1>6. \A f \in {e} : /\ exec[f].status \notin {"absent", "running"}
                     /\ Rewritten(exec[f], exec'[f])
                     /\ \A n \in AttemptNumbers : attempts'[f][n] # "running"
  BY <1>1, <1>4
<1>7. LedgerRelations'
  BY <1>1, <1>3, <1>5, <1>6, RewriteRelations
<1>. QED  BY <1>2, <1>7 DEF LedgerInv, LedgerRelations

LEMMA CancelInv ==
  ASSUME LedgerInv, NEW e \in Executions, Cancel(e)
  PROVE  LedgerInv'
<1>. DEFINE row == [exec[e] EXCEPT !.status = "cancelled", !.timer = now]
<1>1. exec[e] \in ExecutionRow /\ now \in Int
  BY DEF LedgerInv, TypeOK
<1>2. row \in ExecutionRow
  BY <1>1 DEF ExecutionRow, Statuses, Settled
<1>3. Rewritten(exec[e], row)
  BY <1>1 DEF Rewritten, ExecutionRow, LedgerInv, AttemptBudget
<1>4. /\ exec' = [exec EXCEPT ![e] = row] /\ exec[e].status \notin {"absent", "running"}
      /\ UNCHANGED <<now, controls, attempts, slots, sent>> /\ request' = request
  BY DEF Cancel
<1>5. request' \in [Operators -> Request]
  BY <1>4 DEF LedgerInv, TypeOK
<1>. HIDE DEF row
<1>. QED  BY <1>2, <1>3, <1>4, <1>5, RewriteOneInv

LEMMA ResolveInv ==
  ASSUME LedgerInv, NEW e \in Executions, Resolve(e)
  PROVE  LedgerInv'
<1>1. PICK verdict \in {"succeeded", "failed", "cancelled"} :
        exec' = [exec EXCEPT ![e] = [@ EXCEPT !.status = verdict, !.timer = now]]
  BY DEF Resolve
<1>. DEFINE row == [exec[e] EXCEPT !.status = verdict, !.timer = now]
<1>2. exec[e] \in ExecutionRow /\ now \in Int
  BY DEF LedgerInv, TypeOK
<1>3. row \in ExecutionRow
  BY <1>2 DEF ExecutionRow, Statuses, Settled
<1>4. Rewritten(exec[e], row)
  BY <1>2 DEF Rewritten, ExecutionRow, LedgerInv, AttemptBudget
<1>5. /\ exec' = [exec EXCEPT ![e] = row] /\ exec[e].status \notin {"absent", "running"}
      /\ UNCHANGED <<now, controls, attempts, slots, sent>> /\ request' = request
  BY <1>1 DEF Resolve
<1>6. request' \in [Operators -> Request]
  BY <1>5 DEF LedgerInv, TypeOK
<1>. HIDE DEF row
<1>. QED  BY <1>3, <1>4, <1>5, <1>6, RewriteOneInv

\* A mutation that is planned, abandoned or finds nothing to change.
LEMMA RequestOnlyInv ==
  ASSUME LedgerInv, UNCHANGED <<now, controls, exec, attempts, slots, sent>>,
         request' \in [Operators -> Request]
  PROVE  LedgerInv'
<1>1. TypeOK'
  BY DEF LedgerInv, TypeOK, controls, slots
<1>2. LedgerRelations /\ UNCHANGED <<exec, attempts, slots>>
  BY DEF LedgerInv, LedgerRelations
<1>3. LedgerRelations'
  BY <1>2, FrameRelations
<1>. QED  BY <1>1, <1>3 DEF LedgerInv, LedgerRelations

LEMMA PlanInv ==
  ASSUME LedgerInv, NEW o \in Operators, NEW e \in Executions,
         PlanRetry(o, e) \/ PlanRerun(o, e)
  PROVE  LedgerInv'
<1>1. exec[e].status \in Statuses /\ now \in Nat
  BY DEF LedgerInv, TypeOK, ExecutionRow
<1>2. CASE PlanRetry(o, e)
  <2>1. [kind |-> "retry", exec |-> e, status |-> exec[e].status, now |-> now] \in Request
    BY <1>1, <1>2 DEF PlanRetry, Request
  <2>2. request' \in [Operators -> Request]
    BY <1>2, <2>1 DEF PlanRetry, LedgerInv, TypeOK
  <2>. QED  BY <1>2, <2>2, RequestOnlyInv DEF PlanRetry
<1>3. CASE PlanRerun(o, e)
  <2>1. [kind |-> "rerun", exec |-> e, status |-> exec[e].status, now |-> now] \in Request
    BY <1>1, <1>3 DEF PlanRerun, Request
  <2>2. request' \in [Operators -> Request]
    BY <1>3, <2>1 DEF PlanRerun, LedgerInv, TypeOK
  <2>. QED  BY <1>3, <2>2, RequestOnlyInv DEF PlanRerun
<1>. QED  BY <1>2, <1>3

LEMMA AbandonRequestInv ==
  ASSUME LedgerInv, NEW o \in Operators, AbandonRequest(o)
  PROVE  LedgerInv'
<1>1. request' \in [Operators -> Request]
  BY DefaultsTyped DEF AbandonRequest, LedgerInv, TypeOK
<1>. QED  BY <1>1, RequestOnlyInv DEF AbandonRequest

LEMMA CommitRetryInv ==
  ASSUME LedgerInv, NEW o \in Operators, CommitRetry(o)
  PROVE  LedgerInv'
<1>. DEFINE e == request[o].exec
            row == [exec[e] EXCEPT !.status = "retry_wait", !.reason = "operator_retry",
                                   !.limit = exec[e].limit + 1, !.timer = request[o].now]
<1>1. /\ request[o] \in Request /\ e \in Executions /\ exec[e] \in ExecutionRow
      /\ request[o].now \in Int
  BY DEF LedgerInv, TypeOK, Request
<1>2. /\ request' \in [Operators -> Request]
      /\ UNCHANGED <<now, controls, attempts, slots, sent>>
  BY DefaultsTyped DEF CommitRetry, LedgerInv, TypeOK
<1>3. CASE exec' = exec
  BY <1>2, <1>3, RequestOnlyInv
<1>4. CASE /\ exec' = [exec EXCEPT ![e] = row] /\ exec[e].status = request[o].status
           /\ exec[e].limit < AttemptHardLimit
           /\ request[o].status \in {"failed", "unknown"}
  <2>1. row \in ExecutionRow
    <3>1. exec[e].limit + 1 \in Nat /\ "retry_wait" \in Statuses /\ "operator_retry" \in Reasons
      BY <1>1 DEF ExecutionRow, Statuses, Active, Reasons
    <3>. QED  BY <1>1, <3>1 DEF ExecutionRow
  <2>2. exec[e].count \in Int /\ exec[e].limit \in Int /\ exec[e].count =< exec[e].limit
    BY <1>1 DEF ExecutionRow, LedgerInv, AttemptBudget
  <2>3. Rewritten(exec[e], row)
    BY <1>1, <1>4, <2>2 DEF Rewritten, ExecutionRow
  <2>4. exec[e].status \notin {"absent", "running"}
    BY <1>4
  <2>. HIDE DEF row
  <2>. QED  BY <1>1, <1>2, <1>4, <2>1, <2>3, <2>4, RewriteOneInv
<1>5. request[o].status \in {"failed", "unknown"}
  BY <1>1 DEF CommitRetry, Request
<1>6. \/ exec' = exec
      \/ /\ exec' = [exec EXCEPT ![e] = row] /\ exec[e].status = request[o].status
         /\ exec[e].limit < AttemptHardLimit
  BY DEF CommitRetry
<1>. HIDE DEF row
<1>. QED  BY <1>3, <1>4, <1>5, <1>6

\* A fresh row is inserted under an id that no slot can hold.
LEMMA InsertInv ==
  ASSUME LedgerInv, NEW e \in Executions, NEW row \in ExecutionRow,
         exec[e].status = "absent", exec' = [exec EXCEPT ![e] = row],
         row.count = 0, row.lease = 0, row.limit = row.policy.maxAttempts,
         row.status \in {"skipped", "pending"}, row.limit \in 1 .. AttemptHardLimit,
         UNCHANGED <<now, controls, attempts, slots, sent>>,
         request' \in [Operators -> Request]
  PROVE  LedgerInv'
<1>. USE DEF LedgerInv
<1>1. TypeOK'
  BY DEF TypeOK, controls, slots
<1>2. LeaseAgreement'
  BY DEF TypeOK, LeaseAgreement
<1>3. AttemptBudget' /\ LimitCoversPolicy'
  BY DEF TypeOK, AttemptBudget, LimitCoversPolicy
<1>4. SlotsHoldAttempts'
  BY DEF TypeOK, slots, SlotsHoldAttempts
<1>. QED  BY <1>1, <1>2, <1>3, <1>4

LEMMA CommitRerunInv ==
  ASSUME LedgerInv, NEW o \in Operators, NEW new \in Executions, CommitRerun(o, new)
  PROVE  LedgerInv'
<1>. DEFINE e == request[o].exec
            row == NewExecution(exec[e].schedule, exec[e].action, exec[e].idempotent,
                                exec[e].policy, "pending", request[o].now)
<1>1. /\ request[o] \in Request /\ e \in Executions /\ exec[e] \in ExecutionRow
      /\ request[o].now \in Nat /\ "pending" \in Statuses
  BY DEF LedgerInv, TypeOK, Request, Statuses, Active
<1>2. /\ row \in ExecutionRow /\ row.status = "pending"
      /\ row.count = 0 /\ row.lease = 0 /\ row.limit = row.policy.maxAttempts
      /\ row.limit \in 1 .. AttemptHardLimit
  BY <1>1, NewExecutionTyped DEF ExecutionRow
<1>3. /\ request' \in [Operators -> Request]
      /\ UNCHANGED <<now, controls, attempts, slots, sent>>
      /\ exec[new].status = "absent"
  BY DefaultsTyped DEF CommitRerun, LedgerInv, TypeOK
<1>4. exec' = exec \/ exec' = [exec EXCEPT ![new] = row]
  BY DEF CommitRerun
<1>. HIDE DEF row
<1>5. CASE exec' = exec
  BY <1>3, <1>5, RequestOnlyInv
<1>6. CASE exec' = [exec EXCEPT ![new] = row]
  BY <1>2, <1>3, <1>6, InsertInv
<1>. QED  BY <1>4, <1>5, <1>6

LEMMA MaterializeDueInv ==
  ASSUME LedgerInv, NEW s \in Schedules, NEW e \in Executions, MaterializeDue(s, e)
  PROVE  LedgerInv'
<1>1. PICK idempotent \in BOOLEAN, policy \in Policies, st \in {"skipped", "pending"} :
        exec' = [exec EXCEPT ![e] =
                   NewExecution(s, schedule[s].action, idempotent, policy, st, now)]
  BY DEF MaterializeDue
<1>. DEFINE row == NewExecution(s, schedule[s].action, idempotent, policy, st, now)
<1>2. schedule[s].action \in Actions /\ now \in Nat /\ st \in Statuses
  BY DEF LedgerInv, TypeOK, ScheduleRow, Statuses, Active, Settled
<1>3. /\ row \in ExecutionRow /\ row.status = st /\ row.policy = policy
      /\ row.count = 0 /\ row.lease = 0 /\ row.limit = policy.maxAttempts
      /\ row.limit \in 1 .. AttemptHardLimit
  BY <1>2, NewExecutionTyped
<1>4. /\ exec[e].status = "absent" /\ exec' = [exec EXCEPT ![e] = row]
      /\ UNCHANGED <<now, controls, attempts, slots, sent>>
      /\ request' \in [Operators -> Request]
  BY <1>1 DEF MaterializeDue, LedgerInv, TypeOK
<1>. HIDE DEF row
<1>. QED  BY <1>3, <1>4, InsertInv

-----------------------------------------------------------------------------
(* The switches and the clock leave the ledger alone *)

LEMMA SwitchInv ==
  ASSUME LedgerInv, Switch
  PROVE  LedgerInv'
<1>. DEFINE Frame == UNCHANGED <<now, exec, attempts, slots, request, sent>>
<1>1. Frame /\ switches' \in Nat
  <2>1. /\ SwitchDispatch => UseSwitch
        /\ SwitchTarget => UseSwitch
        /\ \A s \in Schedules : PauseSchedule(s) \/ ResumeSchedule(s) => UseSwitch
        /\ \A actions, kept : Register(actions, kept) => UseSwitch
    BY DEF SwitchDispatch, SwitchTarget, PauseSchedule, ResumeSchedule, Register
  <2>2. UseSwitch
    BY <2>1, Zenon DEF Switch
  <2>. QED  BY <2>2 DEF UseSwitch, LedgerInv, TypeOK
<1>2. /\ dispatchPaused' \in BOOLEAN /\ targetEnabled' \in BOOLEAN
      /\ declared' \in [Actions -> Declaration]
      /\ schedule' \in [Schedules -> ScheduleRow]
  <2>1. CASE SwitchDispatch \/ SwitchTarget
    BY <2>1 DEF SwitchDispatch, SwitchTarget, LedgerInv, TypeOK
  <2>2. ASSUME NEW s \in Schedules, PauseSchedule(s) \/ ResumeSchedule(s)
        PROVE  /\ dispatchPaused' \in BOOLEAN /\ targetEnabled' \in BOOLEAN
               /\ declared' \in [Actions -> Declaration]
               /\ schedule' \in [Schedules -> ScheduleRow]
    <3>1. PICK paused \in BOOLEAN, enabled \in BOOLEAN :
            schedule' = [schedule EXCEPT ![s] =
                           [@ EXCEPT !.operatorPaused = paused, !.enabled = enabled]]
      BY <2>2 DEF PauseSchedule, ResumeSchedule, LedgerInv, TypeOK, ScheduleRow
    <3>2. [schedule[s] EXCEPT !.operatorPaused = paused, !.enabled = enabled] \in ScheduleRow
      BY DEF LedgerInv, TypeOK, ScheduleRow
    <3>. QED
      BY <2>2, <3>1, <3>2 DEF PauseSchedule, ResumeSchedule, LedgerInv, TypeOK
  <2>3. ASSUME NEW actions \in [Actions -> Declaration], NEW keep \in SUBSET Schedules,
               NEW kept \in Documents(keep), Register(actions, kept)
        PROVE  /\ dispatchPaused' \in BOOLEAN /\ targetEnabled' \in BOOLEAN
               /\ declared' \in [Actions -> Declaration]
               /\ schedule' \in [Schedules -> ScheduleRow]
    <3>. DEFINE Retired(s) == [schedule[s] EXCEPT !.enabled = FALSE,
                                 !.declaredEnabled = FALSE, !.retired = TRUE]
                Upserted(s) == [action |-> kept[s].action, declaredEnabled |-> kept[s].enabled,
                                operatorPaused |-> schedule[s].operatorPaused,
                                enabled |-> kept[s].enabled /\ ~schedule[s].operatorPaused,
                                retired |-> FALSE]
    <3>1. \A s \in Schedules : schedule[s] \in ScheduleRow
      BY DEF LedgerInv, TypeOK
    <3>2. \A s \in Schedules : Retired(s) \in ScheduleRow
      BY <3>1 DEF ScheduleRow
    <3>3. \A s \in keep : kept[s].action \in Actions /\ kept[s].enabled \in BOOLEAN
      BY DEF Documents
    <3>4. \A s \in keep : Upserted(s) \in ScheduleRow
      <4>. TAKE s \in keep
      <4>1. kept[s].action \in Actions /\ kept[s].enabled \in BOOLEAN
              /\ schedule[s].operatorPaused \in BOOLEAN
        BY <3>1, <3>3 DEF ScheduleRow
      <4>. QED  BY <4>1 DEF ScheduleRow
    <3>5. DOMAIN kept = keep
      BY DEF Documents
    <3>6. schedule' = [s \in Schedules |-> IF s \notin keep THEN Retired(s) ELSE Upserted(s)]
      BY <2>3, <3>5 DEF Register
    <3>. HIDE DEF Retired, Upserted
    <3>7. schedule' \in [Schedules -> ScheduleRow]
      BY <3>2, <3>4, <3>6
    <3>. QED  BY <2>3, <3>7 DEF Register, LedgerInv, TypeOK
  <2>. QED  BY <2>1, <2>2, <2>3 DEF Switch
<1>3. TypeOK'
  BY <1>1, <1>2 DEF LedgerInv, TypeOK, slots
<1>4. LedgerRelations'
  BY <1>1, FrameRelations DEF LedgerInv, LedgerRelations
<1>. QED  BY <1>3, <1>4 DEF LedgerInv, LedgerRelations

LEMMA AdvanceClockInv ==
  ASSUME LedgerInv, AdvanceClock
  PROVE  LedgerInv'
<1>1. TypeOK'
  BY DEF AdvanceClock, LedgerInv, TypeOK, controls, slots
<1>2. LedgerRelations'
  BY FrameRelations DEF AdvanceClock, LedgerInv, LedgerRelations
<1>. QED  BY <1>1, <1>2 DEF LedgerInv, LedgerRelations

-----------------------------------------------------------------------------
(* The theorems *)

LEMMA NextLedgerInv == LedgerInv /\ [Next]_vars => LedgerInv'
<1>. SUFFICES ASSUME LedgerInv, [Next]_vars PROVE LedgerInv'
  OBVIOUS
<1>1. CASE \E s \in Schedules, e \in Executions : MaterializeDue(s, e)
  BY <1>1, MaterializeDueInv
<1>2. ASSUME NEW w \in Workers, Tick(w) PROVE LedgerInv'
  BY <1>2, ClaimInv, ReadExpiredLeaseInv, CheckCapabilityInv, SendRpcInv, AwaitRpcInv,
     FinalizeInv, CrashInv DEF Tick
<1>3. CASE ExpireRetryWindows
  BY <1>3, ExpireRetryWindowsInv
<1>4. CASE CleanupHistory
  BY <1>4, CleanupHistoryInv
<1>5. ASSUME NEW o \in Operators, Admin(o) PROVE LedgerInv'
  BY <1>5, PlanInv, CommitRetryInv, CommitRerunInv, AbandonRequestInv DEF Admin
<1>6. CASE \E e \in Executions : Cancel(e) \/ Resolve(e)
  BY <1>6, CancelInv, ResolveInv
<1>7. CASE Switch
  BY <1>7, SwitchInv
<1>8. CASE AdvanceClock
  BY <1>8, AdvanceClockInv
<1>9. CASE UNCHANGED vars
  <2>1. UNCHANGED <<now, controls, exec, attempts, slots, sent>> /\ request' = request
    BY <1>9 DEF vars
  <2>. QED  BY <2>1, RequestOnlyInv DEF LedgerInv, TypeOK
<1>. QED  BY <1>1, <1>2, <1>3, <1>4, <1>5, <1>6, <1>7, <1>8, <1>9 DEF Next

\* The inductive invariant of the ledger.
THEOREM LedgerInvariant == Spec => []LedgerInv
BY InitLedgerInv, NextLedgerInv, PTL DEF Spec

\* Every variable keeps its type.
THEOREM TypeCorrect == Spec => []TypeOK
<1>1. LedgerInv => TypeOK
  BY DEF LedgerInv
<1>. QED  BY <1>1, LedgerInvariant, PTL

\* executions and attempts agree on who is running, for any number of Ticks,
\* crashes and late answers: recovery and finalize exclude each other.
THEOREM LeasesAgree == Spec => []LeaseAgreement
<1>1. LedgerInv => LeaseAgreement
  BY DEF LedgerInv
<1>. QED  BY <1>1, LedgerInvariant, PTL

\* No interleaving of automatic and operator retries leaves an execution that
\* waits for dispatch without an attempt to dispatch it with.
THEOREM BudgetHolds == Spec => []AttemptBudget
<1>1. LedgerInv => AttemptBudget
  BY DEF LedgerInv
<1>. QED  BY <1>1, LedgerInvariant, PTL

-----------------------------------------------------------------------------
(* One active execution per schedule *)

\* A step after which only executions that were active are, for their own
\* schedules, admits nobody.
LEMMA NobodyAdmitted ==
  ASSUME OneActivePerSchedule,
         \A e \in Executions : IsActive(e)' =>
           IsActive(e) /\ exec'[e].schedule = exec[e].schedule
  PROVE  OneActivePerSchedule'
BY DEF OneActivePerSchedule

\* A step that writes one row whose schedule no other row occupies.
LEMMA OneAdmitted ==
  ASSUME LedgerInv, OneActivePerSchedule, NEW e \in Executions, NEW row \in ExecutionRow,
         exec' = [exec EXCEPT ![e] = row],
         row.status \in Active => ActiveOf(row.schedule) \ {e} = {}
  PROVE  OneActivePerSchedule'
<1>1. /\ exec'[e] = row
      /\ \A f \in Executions \ {e} : exec'[f] = exec[f]
  BY DEF LedgerInv, TypeOK
<1>2. \A f \in Executions \ {e} : ~(IsActive(f)' /\ IsActive(e)' /\ exec'[f].schedule = row.schedule)
  BY <1>1 DEF IsActive, ActiveOf
<1>. QED  BY <1>1, <1>2 DEF OneActivePerSchedule, IsActive

LEMMA InitOneActive == Init => OneActivePerSchedule
BY DEF Init, OneActivePerSchedule, IsActive, NoRow, Active

LEMMA NextOneActive ==
  LedgerInv /\ OneActivePerSchedule /\ [Next]_vars => OneActivePerSchedule'
<1>. SUFFICES ASSUME LedgerInv, OneActivePerSchedule, [Next]_vars
              PROVE  OneActivePerSchedule'
  OBVIOUS
<1>1. ASSUME NEW s \in Schedules, NEW e \in Executions, MaterializeDue(s, e)
      PROVE  OneActivePerSchedule'
  <2>1. PICK idempotent \in BOOLEAN, policy \in Policies, skip \in BOOLEAN :
          /\ ~skip => ActiveOf(s) = {}
          /\ exec' = [exec EXCEPT ![e] =
                 NewExecution(s, schedule[s].action, idempotent, policy,
                              IF skip THEN "skipped" ELSE "pending", now)]
    BY <1>1 DEF MaterializeDue
  <2>. DEFINE st == IF skip THEN "skipped" ELSE "pending"
              row == NewExecution(s, schedule[s].action, idempotent, policy, st, now)
  <2>2. schedule[s].action \in Actions /\ now \in Nat /\ st \in Statuses
    BY DEF LedgerInv, TypeOK, ScheduleRow, Statuses, Active, Settled
  <2>3. row \in ExecutionRow /\ row.schedule = s /\ row.status = st
    BY <2>2, NewExecutionTyped
  <2>4. row.status \in Active => ActiveOf(row.schedule) \ {e} = {}
    BY <2>1, <2>3 DEF Active
  <2>5. exec' = [exec EXCEPT ![e] = row]
    BY <2>1
  <2>. HIDE DEF row
  <2>. QED  BY <2>3, <2>4, <2>5, OneAdmitted
<1>2. ASSUME NEW w \in Workers, NEW e \in Executions, Claim(w, e)
      PROVE  OneActivePerSchedule'
  <2>1. \A f \in Executions : IsActive(f)' =>
           IsActive(f) /\ exec'[f].schedule = exec[f].schedule
    <3>. TAKE f \in Executions
    <3>1. CASE f = e
      BY <1>2, <3>1 DEF Claim, IsActive, Active, LedgerInv, TypeOK, ExecutionRow
    <3>2. CASE f # e
      BY <1>2, <3>2 DEF Claim, IsActive, LedgerInv, TypeOK
    <3>. QED  BY <3>1, <3>2
  <2>. QED  BY <2>1, NobodyAdmitted
<1>3. ASSUME NEW w \in Workers, Finalize(w) PROVE OneActivePerSchedule'
  <2>. DEFINE e == job[w].exec
              d == decision[w]
  <2>1. e \in Executions /\ exec[e] \in ExecutionRow
    BY DEF LedgerInv, TypeOK, Job
  <2>2. \/ exec' = exec
        \/ /\ exec[e].status = "running"
           /\ exec' = [exec EXCEPT ![e] = [exec[e] EXCEPT !.status = d.status,
                          !.reason = d.reason, !.lease = 0, !.timer = d.timer]]
    BY <1>3 DEF Finalize, LeaseIsHeld
  <2>3. \A f \in Executions : IsActive(f)' =>
           IsActive(f) /\ exec'[f].schedule = exec[f].schedule
    <3>. TAKE f \in Executions
    <3>1. CASE f = e
      <4>1. exec' = exec \/ exec[e].status = "running"
        BY <2>2
      <4>2. exec'[e].schedule = exec[e].schedule
        <5>. DEFINE row == [exec[e] EXCEPT !.status = d.status, !.reason = d.reason,
                              !.lease = 0, !.timer = d.timer]
        <5>1. row.schedule = exec[e].schedule
          BY <2>1 DEF ExecutionRow
        <5>2. exec' = exec \/ exec' = [exec EXCEPT ![e] = row]
          BY <2>2
        <5>. HIDE DEF row
        <5>. QED  BY <2>1, <5>1, <5>2 DEF LedgerInv, TypeOK
      <4>. QED  BY <3>1, <4>1, <4>2 DEF IsActive, Active
    <3>2. CASE f # e
      BY <2>1, <2>2, <3>2 DEF IsActive, LedgerInv, TypeOK
    <3>. QED  BY <3>1, <3>2
  <2>. QED  BY <2>3, NobodyAdmitted
<1>4. CASE ExpireRetryWindows \/ CleanupHistory
  <2>1. \A f \in Executions : exec[f] \in ExecutionRow
    BY DEF LedgerInv, TypeOK
  <2>2. \A f \in Executions :
          exec'[f] = exec[f] \/ exec'[f].status \in {"failed", "deleted"}
    BY <1>4, <2>1 DEF ExpireRetryWindows, CleanupHistory, ExecutionRow
  <2>3. \A f \in Executions : IsActive(f)' => exec'[f] = exec[f]
    BY <2>2 DEF IsActive, Active
  <2>. QED  BY <2>3, NobodyAdmitted DEF IsActive
<1>5. ASSUME NEW o \in Operators, CommitRetry(o) PROVE OneActivePerSchedule'
  <2>. DEFINE e == request[o].exec
              row == [exec[e] EXCEPT !.status = "retry_wait", !.reason = "operator_retry",
                        !.limit = exec[e].limit + 1, !.timer = request[o].now]
  <2>1. /\ e \in Executions /\ exec[e] \in ExecutionRow /\ exec[e].limit + 1 \in Nat
        /\ request[o].now \in Int /\ "retry_wait" \in Statuses /\ "operator_retry" \in Reasons
    BY DEF LedgerInv, TypeOK, Request, ExecutionRow, Statuses, Active, Reasons
  <2>2. row \in ExecutionRow /\ row.schedule = exec[e].schedule
    BY <2>1 DEF ExecutionRow
  <2>3. \/ exec' = exec
        \/ exec' = [exec EXCEPT ![e] = row] /\ ActiveOf(exec[e].schedule) \ {e} = {}
    BY <1>5 DEF CommitRetry
  <2>. HIDE DEF row
  <2>4. CASE exec' = exec
    BY <2>4, NobodyAdmitted DEF IsActive
  <2>5. CASE exec' = [exec EXCEPT ![e] = row] /\ ActiveOf(exec[e].schedule) \ {e} = {}
    BY <2>1, <2>2, <2>5, OneAdmitted
  <2>. QED  BY <2>3, <2>4, <2>5
<1>6. ASSUME NEW o \in Operators, NEW new \in Executions, CommitRerun(o, new)
      PROVE  OneActivePerSchedule'
  <2>. DEFINE e == request[o].exec
              row == NewExecution(exec[e].schedule, exec[e].action, exec[e].idempotent,
                                  exec[e].policy, "pending", request[o].now)
  <2>1. /\ e \in Executions /\ exec[e] \in ExecutionRow
        /\ request[o].now \in Nat /\ "pending" \in Statuses
    BY DEF LedgerInv, TypeOK, Request, Statuses, Active
  <2>2. row \in ExecutionRow /\ row.schedule = exec[e].schedule
    BY <2>1, NewExecutionTyped DEF ExecutionRow
  <2>3. \/ exec' = exec
        \/ exec' = [exec EXCEPT ![new] = row] /\ ActiveOf(exec[e].schedule) = {}
    BY <1>6 DEF CommitRerun
  <2>. HIDE DEF row
  <2>4. CASE exec' = exec
    BY <2>4, NobodyAdmitted DEF IsActive
  <2>5. CASE exec' = [exec EXCEPT ![new] = row] /\ ActiveOf(exec[e].schedule) = {}
    BY <2>2, <2>5, OneAdmitted
  <2>. QED  BY <2>3, <2>4, <2>5
<1>7. ASSUME NEW e \in Executions, Cancel(e) \/ Resolve(e) PROVE OneActivePerSchedule'
  <2>1. exec[e] \in ExecutionRow
    BY DEF LedgerInv, TypeOK
  <2>2. PICK verdict \in {"succeeded", "failed", "cancelled"} :
          exec' = [exec EXCEPT ![e] = [exec[e] EXCEPT !.status = verdict, !.timer = now]]
    BY <1>7 DEF Cancel, Resolve
  <2>3. [exec[e] EXCEPT !.status = verdict, !.timer = now].status = verdict
    BY <2>1 DEF ExecutionRow
  <2>4. exec'[e].status = verdict /\ \A f \in Executions \ {e} : exec'[f] = exec[f]
    BY <2>2, <2>3 DEF LedgerInv, TypeOK
  <2>5. \A f \in Executions : IsActive(f)' => exec'[f] = exec[f]
    BY <2>4 DEF IsActive, Active
  <2>. QED  BY <2>5, NobodyAdmitted DEF IsActive
<1>8. CASE UNCHANGED exec
  BY <1>8, NobodyAdmitted DEF IsActive
<1>9. ASSUME NEW w \in Workers, Tick(w) PROVE OneActivePerSchedule'
  BY <1>2, <1>3, <1>8, <1>9
    DEF Tick, ReadExpiredLease, CheckCapability, SendRpc, AwaitRpc, Crash
<1>10. ASSUME NEW o \in Operators, Admin(o) PROVE OneActivePerSchedule'
  BY <1>5, <1>6, <1>8, <1>10 DEF Admin, PlanRetry, PlanRerun, AbandonRequest
<1>11. CASE Switch
  BY <1>8, <1>11 DEF Switch, SwitchDispatch, SwitchTarget, PauseSchedule, ResumeSchedule,
                     Register, UseSwitch
<1>12. CASE AdvanceClock \/ UNCHANGED vars
  BY <1>8, <1>12 DEF AdvanceClock, vars
<1>. QED  BY <1>1, <1>4, <1>7, <1>9, <1>10, <1>11, <1>12 DEF Next

\* No interleaving of Ticks and operators gives a schedule two executions that
\* may still reach its Target.
THEOREM SlotIsExclusive == Spec => []OneActivePerSchedule
BY InitOneActive, NextOneActive, LedgerInvariant, PTL DEF Spec

-----------------------------------------------------------------------------
(* What a step may never do *)

\* An operator's decision stands for one execution: OperatorDecisionStands,
\* without its quantifier.
DecisionStands(e) ==
  LET old == exec[e]
      new == exec'[e]
      retried == /\ new.status = "retry_wait" /\ new.reason = "operator_retry"
                 /\ new.limit = old.limit + 1
  IN new # old =>
       /\ old.status = "retry_wait" /\ old.reason = "operator_retry"
            => new.status \in {"running", "cancelled"}
       /\ old.status = "unknown" => retried \/ new.status \in Settled
       /\ old.status = "failed" => retried \/ new.status = "deleted"
       /\ old.status \in Settled \ {"failed"} => new.status = "deleted"

LEMMA StatusesDiffer ==
  /\ {"absent", "deleted", "running", "pending", "retry_wait", "unknown"} \cap Settled = {}
  /\ "failed" \in Settled
BY DEF Settled

\* An execution that no statement has touched.
LEMMA UntouchedStands ==
  ASSUME NEW e \in Executions, exec'[e] = exec[e] PROVE DecisionStands(e)
BY DEF DecisionStands

LEMMA MaterializeStands ==
  ASSUME LedgerInv, NEW s \in Schedules, NEW f \in Executions, MaterializeDue(s, f),
         NEW e \in Executions
  PROVE  DecisionStands(e)
<1>1. CASE e # f
  <2>1. exec'[e] = exec[e]
    BY <1>1 DEF MaterializeDue, LedgerInv, TypeOK
  <2>. QED  BY <2>1, UntouchedStands
<1>2. CASE e = f
  BY <1>2, StatusesDiffer DEF MaterializeDue, DecisionStands
<1>. QED  BY <1>1, <1>2

LEMMA ClaimStands ==
  ASSUME LedgerInv, NEW w \in Workers, NEW f \in Executions, Claim(w, f),
         NEW e \in Executions
  PROVE  DecisionStands(e)
<1>1. CASE e # f
  <2>1. exec'[e] = exec[e]
    BY <1>1 DEF Claim, LedgerInv, TypeOK
  <2>. QED  BY <2>1, UntouchedStands
<1>2. CASE e = f
  <2>1. exec[e].status \in {"pending", "retry_wait"} /\ exec'[e].status = "running"
    BY <1>2 DEF Claim, LedgerInv, TypeOK, ExecutionRow
  <2>. QED  BY <2>1, StatusesDiffer DEF DecisionStands
<1>. QED  BY <1>1, <1>2

LEMMA FinalizeStands ==
  ASSUME LedgerInv, NEW w \in Workers, Finalize(w), NEW e \in Executions
  PROVE  DecisionStands(e)
<1>1. exec'[e] = exec[e] \/ exec[e].status = "running"
  BY DEF Finalize, LeaseIsHeld, LedgerInv, TypeOK
<1>. QED  BY <1>1, UntouchedStands, StatusesDiffer DEF DecisionStands

LEMMA ExpireStands ==
  ASSUME LedgerInv, ExpireRetryWindows, NEW e \in Executions PROVE DecisionStands(e)
<1>1. exec'[e] = exec[e] \/ (exec[e].status = "retry_wait" /\ exec[e].reason = "automatic_retry")
  BY DEF ExpireRetryWindows, WindowClosed
<1>. QED  BY <1>1, UntouchedStands, StatusesDiffer DEF DecisionStands

LEMMA CleanupStands ==
  ASSUME LedgerInv, CleanupHistory, NEW e \in Executions PROVE DecisionStands(e)
<1>1. CASE Outdated(e)
  <2>1. exec[e].status \in Settled
    BY <1>1 DEF Outdated, Settled
  <2>2. exec'[e].status = "deleted"
    BY <1>1 DEF CleanupHistory, LedgerInv, TypeOK, ExecutionRow
  <2>. QED  BY <2>1, <2>2, StatusesDiffer DEF DecisionStands
<1>2. CASE ~Outdated(e)
  <2>1. exec'[e] = exec[e]
    BY <1>2 DEF CleanupHistory
  <2>. QED  BY <2>1, UntouchedStands
<1>. QED  BY <1>1, <1>2

LEMMA CommitRetryStands ==
  ASSUME LedgerInv, NEW o \in Operators, CommitRetry(o), NEW e \in Executions
  PROVE  DecisionStands(e)
<1>1. /\ request[o].exec \in Executions /\ request[o].status \in {"failed", "unknown"}
      /\ exec[e] \in ExecutionRow
  BY DEF CommitRetry, LedgerInv, TypeOK, Request
<1>2. CASE exec'[e] = exec[e]
  BY <1>2, UntouchedStands
<1>3. CASE exec'[e] # exec[e]
  <2>1. /\ e = request[o].exec /\ exec[e].status = request[o].status
        /\ exec' = [exec EXCEPT ![e] = [exec[e] EXCEPT !.status = "retry_wait",
                      !.reason = "operator_retry", !.limit = exec[e].limit + 1,
                      !.timer = request[o].now]]
    BY <1>1, <1>3 DEF CommitRetry, LedgerInv, TypeOK
  <2>2. /\ exec'[e].status = "retry_wait" /\ exec'[e].reason = "operator_retry"
        /\ exec'[e].limit = exec[e].limit + 1
    BY <1>1, <2>1 DEF LedgerInv, TypeOK, ExecutionRow
  <2>. QED  BY <1>1, <2>1, <2>2, StatusesDiffer DEF DecisionStands
<1>. QED  BY <1>2, <1>3

LEMMA CommitRerunStands ==
  ASSUME LedgerInv, NEW o \in Operators, NEW f \in Executions, CommitRerun(o, f),
         NEW e \in Executions
  PROVE  DecisionStands(e)
<1>1. exec'[e] = exec[e] \/ exec[e].status = "absent"
  BY DEF CommitRerun, LedgerInv, TypeOK
<1>. QED  BY <1>1, UntouchedStands, StatusesDiffer DEF DecisionStands

LEMMA CancelStands ==
  ASSUME LedgerInv, NEW f \in Executions, Cancel(f), NEW e \in Executions
  PROVE  DecisionStands(e)
<1>1. CASE exec'[e] = exec[e]
  BY <1>1, UntouchedStands
<1>2. CASE exec'[e] # exec[e]
  <2>1. exec[e].status \in {"pending", "retry_wait"} /\ exec'[e].status = "cancelled"
    BY <1>2 DEF Cancel, LedgerInv, TypeOK, ExecutionRow
  <2>. QED  BY <2>1, StatusesDiffer DEF DecisionStands
<1>. QED  BY <1>1, <1>2

LEMMA ResolveStands ==
  ASSUME LedgerInv, NEW f \in Executions, Resolve(f), NEW e \in Executions
  PROVE  DecisionStands(e)
<1>1. CASE exec'[e] = exec[e]
  BY <1>1, UntouchedStands
<1>2. CASE exec'[e] # exec[e]
  <2>1. PICK verdict \in {"succeeded", "failed", "cancelled"} :
          exec' = [exec EXCEPT ![f] = [exec[f] EXCEPT !.status = verdict, !.timer = now]]
    BY DEF Resolve
  <2>2. e = f /\ exec[e].status = "unknown" /\ exec[e] \in ExecutionRow
    BY <1>2, <2>1 DEF Resolve, LedgerInv, TypeOK
  <2>3. exec'[e].status = verdict
    BY <2>1, <2>2 DEF LedgerInv, TypeOK, ExecutionRow
  <2>. QED  BY <2>2, <2>3, StatusesDiffer DEF DecisionStands, Settled
<1>. QED  BY <1>1, <1>2

LEMMA StepStands ==
  ASSUME LedgerInv, Next, NEW e \in Executions PROVE DecisionStands(e)
<1>1. CASE UNCHANGED exec
  BY <1>1, UntouchedStands
<1>2. ASSUME NEW w \in Workers, Tick(w) PROVE DecisionStands(e)
  BY <1>1, <1>2, ClaimStands, FinalizeStands
    DEF Tick, ReadExpiredLease, CheckCapability, SendRpc, AwaitRpc, Crash
<1>3. ASSUME NEW o \in Operators, Admin(o) PROVE DecisionStands(e)
  BY <1>1, <1>3, CommitRetryStands, CommitRerunStands
    DEF Admin, PlanRetry, PlanRerun, AbandonRequest
<1>4. CASE Switch
  BY <1>1, <1>4 DEF Switch, SwitchDispatch, SwitchTarget, PauseSchedule, ResumeSchedule,
                    Register, UseSwitch
<1>5. CASE AdvanceClock
  BY <1>1, <1>5 DEF AdvanceClock
<1>. QED
  BY <1>2, <1>3, <1>4, <1>5, MaterializeStands, ExpireStands, CleanupStands,
     CancelStands, ResolveStands DEF Next

\* No Tick, recovery, window or cleanup goes against what an operator decided.
THEOREM OperatorsHaveTheLastWord == Spec => OperatorDecisionStands
<1>1. LedgerInv /\ [Next]_vars => [\A e \in Executions : DecisionStands(e)]_vars
  BY StepStands
<1>. QED
  BY <1>1, LedgerInvariant, PTL DEF Spec, OperatorDecisionStands, DecisionStands

-----------------------------------------------------------------------------
\* No attempt exists beyond the execution's count, nor of an unused id.
NoAttemptAhead ==
  \A e \in Executions, n \in AttemptNumbers :
    exec[e].status = "absent" \/ n > exec[e].count => attempts[e][n] = "none"

\* What most steps leave alone.
AttemptsKept ==
  /\ attempts' = attempts
  /\ \A e \in Executions :
       /\ exec'[e].count = exec[e].count \/ exec[e].status = "absent"
       /\ exec'[e].status = "absent" => exec[e].status = "absent"

LEMMA UntouchedKept ==
  ASSUME exec' = exec, attempts' = attempts PROVE AttemptsKept
BY DEF AttemptsKept

\* A statement that gives one row new values, its count and attempts apart.
LEMMA RewriteKept ==
  ASSUME LedgerInv, NEW e \in Executions, NEW row, attempts' = attempts,
         exec' = [exec EXCEPT ![e] = row],
         \/ exec[e].status = "absent"
         \/ row.count = exec[e].count /\ row.status # "absent"
  PROVE  AttemptsKept
<1>1. exec'[e] = row /\ \A f \in Executions \ {e} : exec'[f] = exec[f]
  BY DEF LedgerInv, TypeOK
<1>. QED  BY <1>1 DEF AttemptsKept

LEMMA MaterializeKept ==
  ASSUME LedgerInv, NEW s \in Schedules, NEW e \in Executions, MaterializeDue(s, e)
  PROVE  AttemptsKept
BY RewriteKept DEF MaterializeDue

LEMMA ExpireKept == ASSUME LedgerInv, ExpireRetryWindows PROVE AttemptsKept
<1>1. \A e \in Executions : exec[e] \in ExecutionRow
  BY DEF LedgerInv, TypeOK
<1>2. \A e \in Executions :
        exec'[e] = exec[e] \/ (exec'[e].count = exec[e].count /\ exec'[e].status = "failed")
  BY <1>1 DEF ExpireRetryWindows, ExecutionRow
<1>. QED  BY <1>2 DEF ExpireRetryWindows, AttemptsKept

LEMMA OperatorKept ==
  ASSUME LedgerInv, NEW o \in Operators, NEW e \in Executions,
         CommitRetry(o) \/ CommitRerun(o, e) \/ Cancel(e) \/ Resolve(e)
  PROVE  AttemptsKept
<1>1. \A f \in Executions : exec[f] \in ExecutionRow
  BY DEF LedgerInv, TypeOK
<1>2. CASE CommitRetry(o)
  <2>. DEFINE f == request[o].exec
              row == [exec[f] EXCEPT !.status = "retry_wait", !.reason = "operator_retry",
                        !.limit = exec[f].limit + 1, !.timer = request[o].now]
  <2>1. f \in Executions
    BY DEF LedgerInv, TypeOK, Request
  <2>2. row.count = exec[f].count /\ row.status # "absent"
    BY <1>1, <2>1 DEF ExecutionRow
  <2>3. exec' = exec \/ exec' = [exec EXCEPT ![f] = row]
    BY <1>2 DEF CommitRetry
  <2>. HIDE DEF f, row
  <2>4. attempts' = attempts
    BY <1>2 DEF CommitRetry
  <2>. QED  BY <2>1, <2>2, <2>3, <2>4, UntouchedKept, RewriteKept
<1>3. CASE CommitRerun(o, e)
  <2>. DEFINE f == request[o].exec
              row == NewExecution(exec[f].schedule, exec[f].action, exec[f].idempotent,
                                  exec[f].policy, "pending", request[o].now)
  <2>1. exec' = exec \/ exec' = [exec EXCEPT ![e] = row]
    BY <1>3 DEF CommitRerun
  <2>. HIDE DEF f, row
  <2>2. attempts' = attempts /\ exec[e].status = "absent"
    BY <1>3 DEF CommitRerun
  <2>. QED  BY <2>1, <2>2, UntouchedKept, RewriteKept
<1>4. CASE Cancel(e) \/ Resolve(e)
  <2>1. PICK verdict \in {"succeeded", "failed", "cancelled"} :
          exec' = [exec EXCEPT ![e] = [exec[e] EXCEPT !.status = verdict, !.timer = now]]
    BY <1>4 DEF Cancel, Resolve
  <2>2. /\ [exec[e] EXCEPT !.status = verdict, !.timer = now].count = exec[e].count
        /\ [exec[e] EXCEPT !.status = verdict, !.timer = now].status # "absent"
    BY <1>1 DEF ExecutionRow
  <2>3. attempts' = attempts
    BY <1>4 DEF Cancel, Resolve
  <2>. QED  BY <2>1, <2>2, <2>3, RewriteKept
<1>. QED  BY <1>2, <1>3, <1>4

\* Only a claim, a finalize and the cleanup touch attempts.
LEMMA StepKept ==
  ASSUME LedgerInv, [Next]_vars
  PROVE  \/ AttemptsKept
         \/ \E w \in Workers, e \in Executions : Claim(w, e)
         \/ \E w \in Workers : Finalize(w)
         \/ CleanupHistory
<1>1. CASE UNCHANGED <<exec, attempts>>
  BY <1>1, UntouchedKept
<1>2. ASSUME NEW w \in Workers, Tick(w)
      PROVE  \/ UNCHANGED <<exec, attempts>> \/ Finalize(w)
             \/ \E e \in Executions : Claim(w, e)
  BY <1>2 DEF Tick, ReadExpiredLease, CheckCapability, SendRpc, AwaitRpc, Crash
<1>3. ASSUME NEW o \in Operators, Admin(o)
      PROVE  \/ UNCHANGED <<exec, attempts>> \/ CommitRetry(o)
             \/ \E e \in Executions : CommitRerun(o, e)
  BY <1>3 DEF Admin, PlanRetry, PlanRerun, AbandonRequest
<1>4. CASE Switch
  BY <1>1, <1>4 DEF Switch, SwitchDispatch, SwitchTarget, PauseSchedule, ResumeSchedule,
                    Register, UseSwitch
<1>5. CASE AdvanceClock \/ UNCHANGED vars
  BY <1>1, <1>5 DEF AdvanceClock, vars
<1>6. ASSUME NEW o \in Operators, CommitRetry(o) PROVE AttemptsKept
  <2>1. \E e \in Executions : TRUE
    BY PoolsAreNonEmpty
  <2>. QED  BY <1>6, <2>1, OperatorKept
<1>7. ASSUME NEW e \in Executions, Cancel(e) \/ Resolve(e) PROVE AttemptsKept
  <2>1. PICK verdict \in {"succeeded", "failed", "cancelled"} :
          exec' = [exec EXCEPT ![e] = [exec[e] EXCEPT !.status = verdict, !.timer = now]]
    BY <1>7 DEF Cancel, Resolve
  <2>2. exec[e] \in ExecutionRow
    BY DEF LedgerInv, TypeOK
  <2>3. /\ [exec[e] EXCEPT !.status = verdict, !.timer = now].count = exec[e].count
        /\ [exec[e] EXCEPT !.status = verdict, !.timer = now].status # "absent"
    BY <2>2 DEF ExecutionRow
  <2>4. attempts' = attempts
    BY <1>7 DEF Cancel, Resolve
  <2>. QED  BY <2>1, <2>3, <2>4, RewriteKept
<1>. QED
  BY <1>1, <1>2, <1>3, <1>4, <1>5, <1>6, <1>7, MaterializeKept, ExpireKept, OperatorKept DEF Next

\* A claim opens the attempt after the last one.
LEMMA ClaimAttempts ==
  ASSUME LedgerInv, NEW w \in Workers, NEW e \in Executions, Claim(w, e)
  PROVE  LET n == exec[e].count + 1
         IN /\ n \in AttemptNumbers /\ exec[e].status # "absent"
            /\ attempts'[e][n] = "running"
            /\ exec'[e].count = n /\ exec'[e].status # "absent"
            /\ \A m \in AttemptNumbers \ {n} : attempts'[e][m] = attempts[e][m]
            /\ \A f \in Executions \ {e} : attempts'[f] = attempts[f] /\ exec'[f] = exec[f]
<1>. DEFINE n == exec[e].count + 1
<1>1. exec[e] \in ExecutionRow /\ attempts[e] \in [AttemptNumbers -> Finished \cup {"none", "running"}]
  BY DEF LedgerInv, TypeOK
<1>2. n \in AttemptNumbers
  <2>1. exec[e].count \in Nat /\ exec[e].limit \in Nat
    BY <1>1 DEF ExecutionRow
  <2>2. exec[e].count < exec[e].limit /\ exec[e].limit =< AttemptHardLimit
    BY DEF Claim, LedgerInv, AttemptBudget
  <2>. QED  BY <2>1, <2>2 DEF AttemptNumbers
<1>3. exec[e].status # "absent"
  BY DEF Claim
<1>4. /\ exec' = [exec EXCEPT ![e] = [exec[e] EXCEPT !.status = "running",
                    !.count = n, !.lease = n, !.timer = now + LeaseTime]]
      /\ attempts' = [attempts EXCEPT ![e] = [attempts[e] EXCEPT ![n] = "running"]]
  BY DEF Claim
<1>5. exec'[e].count = n /\ exec'[e].status = "running"
  BY <1>1, <1>4 DEF LedgerInv, TypeOK, ExecutionRow
<1>6. /\ attempts'[e] = [attempts[e] EXCEPT ![n] = "running"]
      /\ \A f \in Executions \ {e} : attempts'[f] = attempts[f] /\ exec'[f] = exec[f]
  BY <1>4 DEF LedgerInv, TypeOK
<1>. HIDE DEF n
<1>7. attempts'[e][n] = "running" /\ \A m \in AttemptNumbers \ {n} : attempts'[e][m] = attempts[e][m]
  BY <1>1, <1>2, <1>6
<1>. QED  BY <1>2, <1>3, <1>5, <1>6, <1>7 DEF n

\* A finalize closes an open attempt or none, and leaves the count alone.
LEMMA FinalizeAttempts ==
  ASSUME LedgerInv, NEW w \in Workers, Finalize(w), NEW e \in Executions
  PROVE  /\ exec'[e].count = exec[e].count
         /\ exec'[e].status = "absent" => exec[e].status = "absent"
         /\ \A n \in AttemptNumbers :
              attempts'[e][n] = attempts[e][n] \/ attempts[e][n] = "running"
<1>. DEFINE f == job[w].exec
            k == job[w].number
            d == decision[w]
            row == [exec[f] EXCEPT !.status = d.status, !.reason = d.reason,
                                   !.lease = 0, !.timer = d.timer]
<1>1. /\ exec[f] \in ExecutionRow /\ f \in Executions /\ d \in Decision
      /\ attempts[f] \in [AttemptNumbers -> Finished \cup {"none", "running"}]
  BY DEF LedgerInv, TypeOK, Job
<1>2. /\ \/ attempts' = attempts
         \/ attempts[f][k] = "running"
              /\ attempts' = [attempts EXCEPT ![f] = [attempts[f] EXCEPT ![k] = d.attempt]]
      /\ exec' = exec \/ exec' = [exec EXCEPT ![f] = row]
  BY DEF Finalize, AttemptIsOpen
<1>3. row.count = exec[f].count /\ row.status # "absent"
  BY <1>1 DEF ExecutionRow, Decision
<1>. HIDE DEF row, f, k, d
<1>4. \A n \in AttemptNumbers : attempts'[e][n] = attempts[e][n] \/ attempts[e][n] = "running"
  <2>1. CASE attempts' = attempts
    BY <2>1
  <2>2. CASE /\ attempts[f][k] = "running"
             /\ attempts' = [attempts EXCEPT ![f] = [attempts[f] EXCEPT ![k] = d.attempt]]
    <3>1. CASE e # f
      BY <2>2, <3>1 DEF LedgerInv, TypeOK
    <3>2. CASE e = f
      <4>1. attempts'[e] = [attempts[e] EXCEPT ![k] = d.attempt]
        BY <2>2, <3>2 DEF LedgerInv, TypeOK
      <4>. QED  BY <1>1, <2>2, <3>2, <4>1
    <3>. QED  BY <3>1, <3>2
  <2>. QED  BY <1>2, <2>1, <2>2
<1>5. /\ exec'[e].count = exec[e].count
      /\ exec'[e].status = "absent" => exec[e].status = "absent"
  BY <1>1, <1>2, <1>3 DEF LedgerInv, TypeOK
<1>. QED  BY <1>4, <1>5

\* The cleanup deletes an execution together with its attempts.
LEMMA CleanupAttempts ==
  ASSUME LedgerInv, CleanupHistory, NEW e \in Executions
  PROVE  /\ exec'[e].count = exec[e].count
         /\ exec'[e].status = "absent" => exec[e].status = "absent"
         /\ \/ attempts'[e] = attempts[e]
            \/ exec'[e].status = "deleted" /\ \A n \in AttemptNumbers : attempts'[e][n] = "none"
<1>1. exec[e] \in ExecutionRow
  BY DEF LedgerInv, TypeOK
<1>2. CASE Outdated(e)
  BY <1>1, <1>2 DEF CleanupHistory, ExecutionRow
<1>3. CASE ~Outdated(e)
  BY <1>3 DEF CleanupHistory
<1>. QED  BY <1>2, <1>3

LEMMA InitNoAttemptAhead == Init => NoAttemptAhead
BY DEF Init, NoAttemptAhead

LEMMA NextNoAttemptAhead ==
  LedgerInv /\ NoAttemptAhead /\ [Next]_vars => NoAttemptAhead'
<1>. SUFFICES ASSUME LedgerInv, NoAttemptAhead, [Next]_vars,
                     NEW f \in Executions, NEW m \in AttemptNumbers,
                     exec'[f].status = "absent" \/ m > exec'[f].count
              PROVE  attempts'[f][m] = "none"
  BY DEF NoAttemptAhead
<1>1. /\ exec[f].count \in Nat /\ m \in Int
      /\ exec[f].status = "absent" \/ m > exec[f].count => attempts[f][m] = "none"
  BY DEF LedgerInv, TypeOK, ExecutionRow, NoAttemptAhead, AttemptNumbers
<1>2. CASE AttemptsKept
  BY <1>1, <1>2 DEF AttemptsKept
<1>3. ASSUME NEW w \in Workers, NEW e \in Executions, Claim(w, e)
      PROVE  attempts'[f][m] = "none"
  BY <1>1, <1>3, ClaimAttempts
<1>4. ASSUME NEW w \in Workers, Finalize(w) PROVE attempts'[f][m] = "none"
  <2>1. /\ exec'[f].count = exec[f].count
        /\ exec'[f].status = "absent" => exec[f].status = "absent"
        /\ attempts'[f][m] = attempts[f][m] \/ attempts[f][m] = "running"
    BY <1>4, FinalizeAttempts
  <2>. QED  BY <1>1, <2>1
<1>5. CASE CleanupHistory
  BY <1>1, <1>5, CleanupAttempts
<1>. QED  BY <1>2, <1>3, <1>4, <1>5, StepKept

\* An attempt that has an outcome keeps it for as long as its execution exists:
\* no late answer and no recovery rewrites it, and its number is never reused.
THEOREM OutcomesAreFinal == Spec => AttemptOutcomeIsFinal
<1>1. LedgerInv /\ NoAttemptAhead /\ [Next]_vars =>
        [\A e \in Executions, n \in AttemptNumbers :
           attempts[e][n] \in Finished /\ exec'[e].status # "deleted"
             => attempts'[e][n] = attempts[e][n]]_vars
  <2>. SUFFICES ASSUME LedgerInv, NoAttemptAhead, [Next]_vars,
                       NEW f \in Executions, NEW m \in AttemptNumbers,
                       attempts[f][m] \in Finished, exec'[f].status # "deleted"
                PROVE  attempts'[f][m] = attempts[f][m]
    OBVIOUS
  <2>1. attempts[f][m] \notin {"none", "running"}
    BY DEF Finished
  <2>2. CASE AttemptsKept
    BY <2>2 DEF AttemptsKept
  <2>3. ASSUME NEW w \in Workers, NEW e \in Executions, Claim(w, e)
        PROVE  attempts'[f][m] = attempts[f][m]
    <3>1. exec[e].count \in Nat /\ exec[e].count + 1 \in AttemptNumbers
      BY <2>3, ClaimAttempts DEF LedgerInv, TypeOK, ExecutionRow
    <3>2. attempts[e][exec[e].count + 1] = "none"
      BY <3>1 DEF NoAttemptAhead, AttemptNumbers
    <3>. QED  BY <2>1, <2>3, <3>2, ClaimAttempts
  <2>4. ASSUME NEW w \in Workers, Finalize(w) PROVE attempts'[f][m] = attempts[f][m]
    BY <2>1, <2>4, FinalizeAttempts
  <2>5. CASE CleanupHistory
    BY <2>5, CleanupAttempts
  <2>. QED  BY <2>2, <2>3, <2>4, <2>5, StepKept
<1>2. Spec => []NoAttemptAhead
  BY InitNoAttemptAhead, NextNoAttemptAhead, LedgerInvariant, PTL DEF Spec
<1>. QED  BY <1>1, <1>2, LedgerInvariant, PTL DEF Spec, AttemptOutcomeIsFinal
-----------------------------------------------------------------------------
(* What one step can do to one execution and its attempts *)

\* The columns no statement after the insert writes.
SnapshotKept(e) == exec'[e].idempotent = exec[e].idempotent

RowKept(e) == exec'[e] = exec[e] /\ attempts'[e] = attempts[e]

RowInserted(e) ==
  /\ exec[e].status = "absent" /\ exec'[e].status \in {"pending", "skipped"}
  /\ exec'[e].count = 0 /\ attempts'[e] = attempts[e]

RowClaimed(e) ==
  /\ exec[e].status \in {"pending", "retry_wait"} /\ exec'[e].status = "running"
  /\ exec'[e].count = exec[e].count + 1 /\ SnapshotKept(e)
  /\ attempts'[e][exec[e].count + 1] = "running"
  /\ \A m \in AttemptNumbers : m # exec[e].count + 1 => attempts'[e][m] = attempts[e][m]

RowFinalized(e) ==
  \E w \in Workers :
    /\ phase[w] = "decided"
    /\ exec[e].status = "running" /\ exec'[e].status = decision[w].status
    /\ exec[e].count \in AttemptNumbers
    /\ exec'[e].count = exec[e].count /\ exec'[e].reason = decision[w].reason
    /\ SnapshotKept(e)
    /\ attempts'[e][exec[e].count] = decision[w].attempt
    /\ \A m \in AttemptNumbers : m # exec[e].count => attempts'[e][m] = attempts[e][m]

\* An expired window, a cancellation or a resolution.
RowSettled(e) ==
  /\ \/ exec[e].status = "retry_wait" /\ exec'[e].status = "failed"
     \/ exec[e].status \in {"pending", "retry_wait"} /\ exec'[e].status = "cancelled"
     \/ exec[e].status = "unknown" /\ exec'[e].status \in {"succeeded", "failed", "cancelled"}
  /\ exec'[e].count = exec[e].count /\ SnapshotKept(e) /\ attempts'[e] = attempts[e]

RowRetried(e) ==
  /\ exec[e].status \in {"failed", "unknown"} /\ exec'[e].status = "retry_wait"
  /\ exec'[e].reason = "operator_retry"
  /\ exec'[e].count = exec[e].count /\ SnapshotKept(e) /\ attempts'[e] = attempts[e]

RowDeleted(e) ==
  /\ exec[e].status \in Settled /\ exec'[e].status = "deleted" /\ SnapshotKept(e)
  /\ exec'[e].count = exec[e].count /\ \A n \in AttemptNumbers : attempts'[e][n] = "none"

RowStep(e) ==
  \/ RowKept(e) \/ RowInserted(e) \/ RowClaimed(e) \/ RowFinalized(e)
  \/ RowSettled(e) \/ RowRetried(e) \/ RowDeleted(e)

\* A row written on an unused id.
LEMMA InsertRowStep ==
  ASSUME LedgerInv, NEW e \in Executions, NEW row, exec[e].status = "absent",
         exec' = [exec EXCEPT ![e] = row], attempts' = attempts,
         row.status \in {"pending", "skipped"}, row.count = 0
  PROVE  \A f \in Executions : RowStep(f)
<1>1. exec'[e] = row /\ \A f \in Executions \ {e} : exec'[f] = exec[f]
  BY DEF LedgerInv, TypeOK
<1>. QED  BY <1>1 DEF RowStep, RowKept, RowInserted

LEMMA MaterializeRowStep ==
  ASSUME LedgerInv, NEW s \in Schedules, NEW e \in Executions, MaterializeDue(s, e)
  PROVE  \A f \in Executions : RowStep(f)
<1>1. PICK idempotent \in BOOLEAN, policy \in Policies, st \in {"pending", "skipped"} :
        exec' = [exec EXCEPT ![e] =
                   NewExecution(s, schedule[s].action, idempotent, policy, st, now)]
  BY DEF MaterializeDue
<1>. DEFINE row == NewExecution(s, schedule[s].action, idempotent, policy, st, now)
<1>2. row.status \in {"pending", "skipped"} /\ row.count = 0
  BY DEF NewExecution
<1>3. exec[e].status = "absent" /\ attempts' = attempts
  BY DEF MaterializeDue
<1>. HIDE DEF row
<1>. QED  BY <1>1, <1>2, <1>3, InsertRowStep DEF row

LEMMA CommitRerunRowStep ==
  ASSUME LedgerInv, NEW o \in Operators, NEW e \in Executions, CommitRerun(o, e)
  PROVE  \A f \in Executions : RowStep(f)
<1>. DEFINE g == request[o].exec
            row == NewExecution(exec[g].schedule, exec[g].action, exec[g].idempotent,
                                exec[g].policy, "pending", request[o].now)
<1>1. exec' = exec \/ exec' = [exec EXCEPT ![e] = row]
  BY DEF CommitRerun
<1>2. row.status \in {"pending", "skipped"} /\ row.count = 0
  BY DEF NewExecution
<1>3. exec[e].status = "absent" /\ attempts' = attempts
  BY DEF CommitRerun
<1>. HIDE DEF row
<1>4. CASE exec' = exec
  BY <1>3, <1>4 DEF RowStep, RowKept
<1>. QED  BY <1>1, <1>2, <1>3, <1>4, InsertRowStep

LEMMA ClaimRowStep ==
  ASSUME LedgerInv, NEW w \in Workers, NEW e \in Executions, Claim(w, e)
  PROVE  \A f \in Executions : RowStep(f)
<1>1. exec[e] \in ExecutionRow
  BY DEF LedgerInv, TypeOK
<1>2. /\ exec[e].status \in {"pending", "retry_wait"}
      /\ exec' = [exec EXCEPT ![e] = [exec[e] EXCEPT !.status = "running",
                    !.count = exec[e].count + 1, !.lease = exec[e].count + 1,
                    !.timer = now + LeaseTime]]
  BY DEF Claim
<1>3. exec'[e].status = "running" /\ exec'[e].idempotent = exec[e].idempotent
  BY <1>1, <1>2 DEF LedgerInv, TypeOK, ExecutionRow
<1>4. RowClaimed(e)
  BY <1>2, <1>3, ClaimAttempts DEF RowClaimed, SnapshotKept
<1>5. \A f \in Executions \ {e} : RowKept(f)
  BY ClaimAttempts DEF RowKept
<1>. QED  BY <1>4, <1>5 DEF RowStep

LEMMA FinalizeRowStep ==
  ASSUME LedgerInv, NEW w \in Workers, Finalize(w)
  PROVE  \A f \in Executions : RowStep(f)
<1>. DEFINE e == job[w].exec
            n == job[w].number
            d == decision[w]
            row == [exec[e] EXCEPT !.status = d.status, !.reason = d.reason,
                                   !.lease = 0, !.timer = d.timer]
<1>1. /\ e \in Executions /\ exec[e] \in ExecutionRow /\ n \in AttemptNumbers
      /\ phase[w] = "decided" /\ d \in Decision
      /\ attempts[e] \in [AttemptNumbers -> Finished \cup {"none", "running"}]
  BY BusySlot DEF Finalize, LedgerInv, TypeOK
<1>2. AttemptIsOpen(e, n) <=> LeaseIsHeld(e, n)
  BY <1>1, BusySlot DEF AttemptIsOpen, LeaseIsHeld, LedgerInv, LeaseAgreement
<1>3. CASE ~LeaseIsHeld(e, n)
  <2>1. UNCHANGED <<exec, attempts>>
    BY <1>2, <1>3 DEF Finalize
  <2>. QED  BY <2>1 DEF RowStep, RowKept
<1>4. CASE LeaseIsHeld(e, n)
  <2>1. attempts' = [attempts EXCEPT ![e] = [attempts[e] EXCEPT ![n] = d.attempt]]
    BY <1>2, <1>4 DEF Finalize
  <2>2. attempts'[e] = [attempts[e] EXCEPT ![n] = d.attempt]
    BY <1>1, <2>1 DEF LedgerInv, TypeOK
  <2>3. attempts'[e][n] = d.attempt /\ \A m \in AttemptNumbers : m # n => attempts'[e][m] = attempts[e][m]
    BY <1>1, <2>2
  <2>4. exec' = [exec EXCEPT ![e] = row]
    BY <1>4, <2>3 DEF Finalize
  <2>5. /\ row.status = d.status /\ row.reason = d.reason /\ row.count = exec[e].count
        /\ row.idempotent = exec[e].idempotent
    BY <1>1 DEF ExecutionRow
  <2>6. exec[e].status = "running" /\ n = exec[e].count
    BY <1>1, <1>4 DEF LeaseIsHeld, LedgerInv, LeaseAgreement
  <2>. HIDE DEF row, n, d, e
  <2>7. exec'[e] = row
    BY <1>1, <2>4 DEF LedgerInv, TypeOK
  <2>8. RowFinalized(e)
    <3>1. phase[w] = "decided" /\ d = decision[w]
      BY <1>1 DEF d
    <3>. QED  BY <1>1, <2>3, <2>5, <2>6, <2>7, <3>1 DEF RowFinalized, SnapshotKept
  <2>9. \A f \in Executions \ {e} : RowKept(f)
    BY <2>1, <2>4 DEF LedgerInv, TypeOK, RowKept
  <2>. QED  BY <2>8, <2>9 DEF RowStep
<1>. QED  BY <1>3, <1>4

LEMMA ExpireRowStep ==
  ASSUME LedgerInv, ExpireRetryWindows PROVE \A f \in Executions : RowStep(f)
<1>. SUFFICES ASSUME NEW f \in Executions PROVE RowStep(f)
  OBVIOUS
<1>1. exec[f] \in ExecutionRow /\ attempts' = attempts
  BY DEF LedgerInv, TypeOK, ExpireRetryWindows
<1>2. CASE WindowClosed(f)
  <2>1. exec'[f] = [exec[f] EXCEPT !.status = "failed", !.reason = "initial", !.timer = now]
    BY <1>2 DEF ExpireRetryWindows
  <2>2. /\ exec'[f].status = "failed" /\ exec'[f].count = exec[f].count
        /\ exec'[f].idempotent = exec[f].idempotent
    BY <1>1, <2>1 DEF ExecutionRow
  <2>. QED  BY <1>1, <1>2, <2>2 DEF RowStep, RowSettled, SnapshotKept, WindowClosed
<1>3. CASE ~WindowClosed(f)
  <2>1. exec'[f] = exec[f]
    BY <1>3 DEF ExpireRetryWindows
  <2>. QED  BY <1>1, <2>1 DEF RowStep, RowKept
<1>. QED  BY <1>2, <1>3

LEMMA CleanupRowStep ==
  ASSUME LedgerInv, CleanupHistory PROVE \A f \in Executions : RowStep(f)
<1>. SUFFICES ASSUME NEW f \in Executions PROVE RowStep(f)
  OBVIOUS
<1>1. exec[f] \in ExecutionRow
  BY DEF LedgerInv, TypeOK
<1>2. CASE Outdated(f)
  <2>1. /\ exec'[f] = [exec[f] EXCEPT !.status = "deleted"]
        /\ attempts'[f] = [n \in AttemptNumbers |-> "none"]
    BY <1>2 DEF CleanupHistory
  <2>2. /\ exec'[f].status = "deleted" /\ exec'[f].count = exec[f].count
        /\ exec'[f].idempotent = exec[f].idempotent
    BY <1>1, <2>1 DEF ExecutionRow
  <2>3. exec[f].status \in Settled
    BY <1>2 DEF Outdated, Settled
  <2>. QED  BY <2>1, <2>2, <2>3 DEF RowStep, RowDeleted, SnapshotKept
<1>3. CASE ~Outdated(f)
  BY <1>3 DEF CleanupHistory, RowStep, RowKept
<1>. QED  BY <1>2, <1>3

LEMMA CommitRetryRowStep ==
  ASSUME LedgerInv, NEW o \in Operators, CommitRetry(o)
  PROVE  \A f \in Executions : RowStep(f)
<1>. DEFINE e == request[o].exec
            row == [exec[e] EXCEPT !.status = "retry_wait", !.reason = "operator_retry",
                      !.limit = exec[e].limit + 1, !.timer = request[o].now]
<1>1. /\ e \in Executions /\ request[o].status \in {"failed", "unknown"}
      /\ exec[e] \in ExecutionRow /\ attempts' = attempts
  BY DEF CommitRetry, LedgerInv, TypeOK, Request
<1>2. exec' = exec \/ (exec' = [exec EXCEPT ![e] = row] /\ exec[e].status = request[o].status)
  BY DEF CommitRetry
<1>3. /\ row.status = "retry_wait" /\ row.reason = "operator_retry"
      /\ row.count = exec[e].count /\ row.idempotent = exec[e].idempotent
  BY <1>1 DEF ExecutionRow
<1>. HIDE DEF row, e
<1>4. CASE exec' = exec
  BY <1>1, <1>4 DEF RowStep, RowKept
<1>5. CASE exec' = [exec EXCEPT ![e] = row] /\ exec[e].status = request[o].status
  <2>1. exec'[e] = row /\ \A f \in Executions \ {e} : exec'[f] = exec[f]
    BY <1>1, <1>5 DEF LedgerInv, TypeOK
  <2>. QED  BY <1>1, <1>3, <1>5, <2>1 DEF RowStep, RowKept, RowRetried, SnapshotKept
<1>. QED  BY <1>2, <1>4, <1>5

LEMMA DecideRowStep ==
  ASSUME LedgerInv, NEW e \in Executions, Cancel(e) \/ Resolve(e)
  PROVE  \A f \in Executions : RowStep(f)
<1>1. PICK verdict \in {"succeeded", "failed", "cancelled"} :
        /\ exec' = [exec EXCEPT ![e] = [exec[e] EXCEPT !.status = verdict, !.timer = now]]
        /\ \/ exec[e].status \in {"pending", "retry_wait"} /\ verdict = "cancelled"
           \/ exec[e].status = "unknown"
  BY DEF Cancel, Resolve
<1>2. exec[e] \in ExecutionRow /\ attempts' = attempts
  BY DEF LedgerInv, TypeOK, Cancel, Resolve
<1>. DEFINE row == [exec[e] EXCEPT !.status = verdict, !.timer = now]
<1>3. row.status = verdict /\ row.count = exec[e].count /\ row.idempotent = exec[e].idempotent
  BY <1>2 DEF ExecutionRow
<1>4. exec'[e] = row /\ \A f \in Executions \ {e} : exec'[f] = exec[f]
  BY <1>1 DEF LedgerInv, TypeOK
<1>. HIDE DEF row
<1>. QED  BY <1>1, <1>2, <1>3, <1>4 DEF RowStep, RowKept, RowSettled, SnapshotKept

\* Steps of a Tick, an operator or a switch that leave the ledger alone.
LEMMA EveryRowStep ==
  ASSUME LedgerInv, [Next]_vars PROVE \A f \in Executions : RowStep(f)
<1>1. CASE UNCHANGED <<exec, attempts>>
  BY <1>1 DEF RowStep, RowKept
<1>2. ASSUME NEW w \in Workers, Tick(w) PROVE \A f \in Executions : RowStep(f)
  BY <1>1, <1>2, ClaimRowStep, FinalizeRowStep
    DEF Tick, ReadExpiredLease, CheckCapability, SendRpc, AwaitRpc, Crash
<1>3. ASSUME NEW o \in Operators, Admin(o) PROVE \A f \in Executions : RowStep(f)
  BY <1>1, <1>3, CommitRetryRowStep, CommitRerunRowStep
    DEF Admin, PlanRetry, PlanRerun, AbandonRequest
<1>4. CASE Switch
  BY <1>1, <1>4 DEF Switch, SwitchDispatch, SwitchTarget, PauseSchedule, ResumeSchedule,
                    Register, UseSwitch
<1>5. CASE AdvanceClock \/ UNCHANGED vars
  BY <1>1, <1>5 DEF AdvanceClock, vars
<1>. QED
  BY <1>2, <1>3, <1>4, <1>5, MaterializeRowStep, ExpireRowStep, CleanupRowStep,
     DecideRowStep DEF Next
-----------------------------------------------------------------------------
(* The outcome an execution shows is the outcome of its last attempt *)

DecisionAgrees(d) ==
  /\ d.status = "succeeded" <=> d.attempt = "succeeded"
  /\ d.status = "unknown" => d.attempt = "unknown"
  /\ d.status = "retry_wait" => d.reason = "automatic_retry"

\* What a slot is about to write says the same of the execution and of the attempt.
DecisionsAgree == \A w \in Workers : phase[w] = "decided" => DecisionAgrees(decision[w])

LEMMA FailureDecisionAgrees ==
  ASSUME NEW e, NEW cur, NEW n, NEW r, NEW u, NEW d
  PROVE  DecisionAgrees(FailureDecision(e, cur, n, r, u, d))
BY DEF DecisionAgrees, FailureDecision

LEMMA SuccessDecisionAgrees == DecisionAgrees(SuccessDecision)
BY DEF DecisionAgrees, SuccessDecision

\* What one step can do to one slot.
SlotKept(v) == phase'[v] = phase[v] /\ job'[v] = job[v] /\ decision'[v] = decision[v]
SlotStep(v) ==
  \/ SlotKept(v) \/ phase'[v] = "idle"
  \/ \E e \in Executions : Claim(v, e) \/ ReadExpiredLease(v, e)
  \/ CheckCapability(v) \/ SendRpc(v) \/ AwaitRpc(v)

LEMMA TickSlotStep ==
  ASSUME LedgerInv, NEW w \in Workers, Tick(w), NEW v \in Workers PROVE SlotStep(v)
<1>1. CASE v # w
  BY <1>1 DEF Tick, Claim, ReadExpiredLease, CheckCapability, SendRpc, AwaitRpc, Finalize,
              Crash, LedgerInv, TypeOK, SlotStep, SlotKept
<1>2. CASE v = w
  <2>1. CASE Finalize(w) \/ Crash(w)
    BY <1>2, <2>1 DEF Finalize, Crash, LedgerInv, TypeOK, SlotStep
  <2>. QED  BY <1>2, <2>1 DEF Tick, SlotStep
<1>. QED  BY <1>1, <1>2

LEMMA EverySlotStep ==
  ASSUME LedgerInv, [Next]_vars PROVE \A v \in Workers : SlotStep(v)
<1>1. CASE UNCHANGED slots
  BY <1>1 DEF slots, SlotStep, SlotKept
<1>2. \A s \in Schedules, e \in Executions : MaterializeDue(s, e) => UNCHANGED slots
  BY DEF MaterializeDue
<1>3. \A o \in Operators : Admin(o) => UNCHANGED slots
  BY DEF Admin, PlanRetry, PlanRerun, CommitRerun, CommitRetry, AbandonRequest
<1>4. ExpireRetryWindows \/ CleanupHistory \/ AdvanceClock \/ UNCHANGED vars => UNCHANGED slots
  BY DEF ExpireRetryWindows, CleanupHistory, AdvanceClock, vars
<1>5. \A e \in Executions : Cancel(e) \/ Resolve(e) => UNCHANGED slots
  BY DEF Cancel, Resolve
<1>6. Switch => UNCHANGED slots
  BY DEF Switch, SwitchDispatch, SwitchTarget, PauseSchedule, ResumeSchedule, Register, UseSwitch
<1>. QED  BY <1>1, <1>2, <1>3, <1>4, <1>5, <1>6, TickSlotStep DEF Next

LEMMA NextDecisionsAgree ==
  LedgerInv /\ DecisionsAgree /\ [Next]_vars => DecisionsAgree'
<1>. SUFFICES ASSUME LedgerInv, DecisionsAgree, [Next]_vars,
                     NEW v \in Workers, phase'[v] = "decided"
              PROVE  DecisionAgrees(decision'[v])
  BY DEF DecisionsAgree, DecisionAgrees
<1>1. SlotStep(v)
  BY EverySlotStep
<1>2. CASE SlotKept(v)
  BY <1>2 DEF SlotKept, DecisionsAgree
<1>3. ASSUME NEW e \in Executions, Claim(v, e) PROVE FALSE
  BY <1>3 DEF Claim, LedgerInv, TypeOK
<1>4. ASSUME NEW e \in Executions, ReadExpiredLease(v, e) PROVE DecisionAgrees(decision'[v])
  <2>1. decision'[v] =
          FailureDecision(e, declared[exec[e].action] = "idempotent", exec[e].count,
                          FALSE, TRUE, RetryDeadline(e))
    BY <1>4 DEF ReadExpiredLease, LedgerInv, TypeOK
  <2>2. DecisionAgrees(FailureDecision(e, declared[exec[e].action] = "idempotent",
                                       exec[e].count, FALSE, TRUE, RetryDeadline(e)))
    BY FailureDecisionAgrees
  <2>. QED  BY <2>1, <2>2
<1>5. CASE CheckCapability(v)
  <2>1. decision'[v] = FailureDecision(job[v].exec, FALSE, job[v].number, FALSE, FALSE, now)
    BY <1>5 DEF CheckCapability, LedgerInv, TypeOK
  <2>. QED  BY <2>1, FailureDecisionAgrees
<1>6. CASE SendRpc(v)
  BY <1>6 DEF SendRpc, LedgerInv, TypeOK
<1>7. CASE AwaitRpc(v)
  <2>1. PICK outcome \in {"ok", "retryable", "permanent", "unknown"} :
          decision' = [decision EXCEPT ![v] =
            IF outcome = "ok" THEN SuccessDecision
            ELSE FailureDecision(job[v].exec, job[v].idempotent, job[v].number,
                   outcome = "retryable", outcome = "unknown", RetryDeadline(job[v].exec))]
    BY <1>7 DEF AwaitRpc
  <2>2. decision'[v] =
            IF outcome = "ok" THEN SuccessDecision
            ELSE FailureDecision(job[v].exec, job[v].idempotent, job[v].number,
                   outcome = "retryable", outcome = "unknown", RetryDeadline(job[v].exec))
    BY <2>1 DEF LedgerInv, TypeOK
  <2>. QED  BY <2>2, FailureDecisionAgrees, SuccessDecisionAgrees
<1>. QED  BY <1>1, <1>2, <1>3, <1>4, <1>5, <1>6, <1>7 DEF SlotStep

\* OutcomeAgreement for one execution.
OutcomeAgrees(e) ==
  LET last == IF exec[e].count = 0 THEN "none" ELSE attempts[e][exec[e].count]
  IN /\ exec[e].status \in {"pending", "skipped"} => exec[e].count = 0
     /\ exec[e].status = "unknown" => last = "unknown"
     /\ exec[e].status \in {"retry_wait", "failed"} => last \in {"failed", "unknown"}
     /\ \A n \in AttemptNumbers : attempts[e][n] = "succeeded" =>
          n = exec[e].count /\ exec[e].status = "succeeded"

\* The inductive invariant behind OutcomeAgreement.
OutcomeInv == NoAttemptAhead /\ DecisionsAgree /\ OutcomeAgreement

LEMMA InitOutcomeInv == Init => OutcomeInv
<1>. SUFFICES ASSUME Init PROVE DecisionsAgree /\ OutcomeAgreement
  BY InitNoAttemptAhead DEF OutcomeInv
<1>1. DecisionsAgree
  BY DEF Init, DecisionsAgree
<1>2. OutcomeAgreement
  BY DEF Init, OutcomeAgreement, NoRow
<1>. QED  BY <1>1, <1>2

LEMMA NextOutcomeAgrees ==
  ASSUME LedgerInv, OutcomeInv, NEW e \in Executions, RowStep(e)
  PROVE  OutcomeAgrees(e)'
<1>. DEFINE c == exec[e].count
            last == IF c = 0 THEN "none" ELSE attempts[e][c]
<1>1. /\ exec[e].status \in {"pending", "skipped"} => c = 0
      /\ exec[e].status = "unknown" => last = "unknown"
      /\ exec[e].status \in {"retry_wait", "failed"} => last \in {"failed", "unknown"}
      /\ \A n \in AttemptNumbers : attempts[e][n] = "succeeded" =>
           n = c /\ exec[e].status = "succeeded"
  BY DEF OutcomeInv, OutcomeAgreement
<1>2. c \in Nat /\ \A n \in AttemptNumbers :
        exec[e].status = "absent" \/ n > c => attempts[e][n] = "none"
  BY DEF LedgerInv, TypeOK, ExecutionRow, OutcomeInv, NoAttemptAhead
<1>. HIDE DEF c
<1>3. CASE RowKept(e)
  BY <1>1, <1>3 DEF RowKept, OutcomeAgrees, c
<1>4. CASE RowInserted(e)
  BY <1>2, <1>4 DEF RowInserted, OutcomeAgrees
<1>5. CASE RowClaimed(e)
  BY <1>1, <1>2, <1>5 DEF RowClaimed, OutcomeAgrees, c
<1>6. CASE RowFinalized(e)
  <2>1. PICK w \in Workers :
          /\ phase[w] = "decided"
          /\ exec[e].status = "running" /\ exec'[e].status = decision[w].status
          /\ c \in AttemptNumbers /\ exec'[e].count = c
          /\ attempts'[e][c] = decision[w].attempt
          /\ \A m \in AttemptNumbers : m # c => attempts'[e][m] = attempts[e][m]
    BY <1>6 DEF RowFinalized, c
  <2>2. decision[w] \in Decision /\ DecisionAgrees(decision[w])
    BY <2>1 DEF OutcomeInv, DecisionsAgree, LedgerInv, TypeOK
  <2>. DEFINE st == decision[w].status
              at == decision[w].attempt
  <2>3. /\ st \in {"succeeded", "failed", "unknown", "retry_wait"} /\ at \in Finished
        /\ st = "succeeded" <=> at = "succeeded"
        /\ st = "unknown" => at = "unknown"
    BY <2>2 DEF DecisionAgrees, Decision
  <2>. HIDE DEF st, at
  <2>4. exec'[e].status = st /\ attempts'[e][c] = at /\ c # 0
    BY <2>1 DEF st, at, AttemptNumbers
  <2>5. \A n \in AttemptNumbers : attempts'[e][n] = "succeeded" => n = c /\ st = "succeeded"
    BY <1>1, <2>1, <2>3, <2>4
  <2>. QED  BY <2>1, <2>3, <2>4, <2>5 DEF OutcomeAgrees, Finished
<1>7. CASE RowSettled(e)
  BY <1>1, <1>7 DEF RowSettled, OutcomeAgrees, c
<1>8. CASE RowRetried(e)
  BY <1>1, <1>8 DEF RowRetried, OutcomeAgrees, c
<1>9. CASE RowDeleted(e)
  BY <1>9 DEF RowDeleted, OutcomeAgrees
<1>. QED  BY <1>3, <1>4, <1>5, <1>6, <1>7, <1>8, <1>9 DEF RowStep

LEMMA NextOutcomeInv == LedgerInv /\ OutcomeInv /\ [Next]_vars => OutcomeInv'
<1>. SUFFICES ASSUME LedgerInv, OutcomeInv, [Next]_vars PROVE OutcomeInv'
  OBVIOUS
<1>1. NoAttemptAhead' /\ DecisionsAgree'
  BY NextNoAttemptAhead, NextDecisionsAgree DEF OutcomeInv
<1>2. \A e \in Executions : OutcomeAgrees(e)'
  BY EveryRowStep, NextOutcomeAgrees
<1>3. OutcomeAgreement'
  BY <1>2 DEF OutcomeAgreement, OutcomeAgrees
<1>. QED  BY <1>1, <1>3 DEF OutcomeInv

\* Whatever Ticks, recoveries, windows, cleanups and operators interleave, an
\* execution never shows an outcome its attempts do not bear out.
THEOREM OutcomesAgree == Spec => []OutcomeAgreement
<1>1. OutcomeInv => OutcomeAgreement
  BY DEF OutcomeInv
<1>. QED  BY <1>1, InitOutcomeInv, NextOutcomeInv, LedgerInvariant, PTL DEF Spec

-----------------------------------------------------------------------------
(* A second call is a retry of an idempotent action *)

RetryIsNamed == \A e \in Executions :
  exec[e].status = "retry_wait" => exec[e].reason # "initial"

SentIsOfRows == \A e \in Executions : exec[e].status = "absent" => sent[e] = {}

\* A slot that holds a later attempt than the first is retrying, and after the
\* check it holds an execution whose action both sides declare idempotent.
SlotRetriesSafely(w) ==
  job[w].number > 1 =>
    /\ phase[w] = "claimed" => job[w].reason # "initial"
    /\ phase[w] = "checked" => exec[job[w].exec].idempotent /\ job[w].idempotent
RetriesAreSafe == \A w \in Workers : SlotRetriesSafely(w)

\* The inductive invariant behind RepeatedCallsAreIdempotent.
CallsInv == RetryIsNamed /\ SentIsOfRows /\ RetriesAreSafe /\ RepeatedCallsAreIdempotent

LEMMA InitCallsInv == Init => CallsInv
BY DEF Init, CallsInv, RetryIsNamed, SentIsOfRows, RetriesAreSafe, SlotRetriesSafely,
       RepeatedCallsAreIdempotent, NoRow, NoJob

LEMMA RowKeepsSnapshot ==
  ASSUME NEW e \in Executions, RowStep(e)
  PROVE  /\ exec[e].status # "absent" => SnapshotKept(e)
         /\ exec'[e].status = "absent" => exec[e].status = "absent" \/ RowFinalized(e)
<1>1. exec[e].status # "absent" => SnapshotKept(e)
  BY DEF RowStep, RowKept, RowInserted, RowClaimed, RowFinalized, RowSettled, RowRetried,
         RowDeleted, SnapshotKept
<1>2. exec'[e].status = "absent" => exec[e].status = "absent" \/ RowFinalized(e)
  BY DEF RowStep, RowKept, RowInserted, RowClaimed, RowSettled, RowRetried, RowDeleted
<1>. QED  BY <1>1, <1>2

LEMMA FinalizedIsNamed ==
  ASSUME LedgerInv, DecisionsAgree, NEW e \in Executions, RowFinalized(e)
  PROVE  /\ exec'[e].status # "absent"
         /\ exec'[e].status = "retry_wait" => exec'[e].reason # "initial"
<1>1. PICK w \in Workers :
        /\ phase[w] = "decided"
        /\ exec'[e].status = decision[w].status /\ exec'[e].reason = decision[w].reason
  BY DEF RowFinalized
<1>2. /\ decision[w].status \in {"succeeded", "failed", "unknown", "retry_wait"}
      /\ decision[w].status = "retry_wait" => decision[w].reason = "automatic_retry"
  BY <1>1 DEF LedgerInv, TypeOK, Decision, DecisionsAgree, DecisionAgrees
<1>. QED  BY <1>1, <1>2

LEMMA NextRetryIsNamed ==
  ASSUME LedgerInv, OutcomeInv, RetryIsNamed, [Next]_vars PROVE RetryIsNamed'
<1>. SUFFICES ASSUME NEW e \in Executions, exec'[e].status = "retry_wait"
              PROVE  exec'[e].reason # "initial"
  BY DEF RetryIsNamed
<1>1. RowStep(e)
  BY EveryRowStep
<1>2. CASE RowKept(e)
  BY <1>2 DEF RowKept, RetryIsNamed
<1>3. CASE RowFinalized(e)
  BY <1>3, FinalizedIsNamed DEF OutcomeInv
<1>. QED
  BY <1>1, <1>2, <1>3 DEF RowStep, RowInserted, RowClaimed, RowSettled, RowRetried, RowDeleted

\* Only SendRpc adds a call.
LEMMA StepSent ==
  ASSUME LedgerInv, [Next]_vars
  PROVE  sent' = sent \/ \E w \in Workers : SendRpc(w)
<1>1. \A s \in Schedules, e \in Executions : MaterializeDue(s, e) => UNCHANGED sent
  BY DEF MaterializeDue
<1>2. \A w \in Workers : Tick(w) => UNCHANGED sent \/ SendRpc(w)
  BY DEF Tick, Claim, ReadExpiredLease, CheckCapability, AwaitRpc, Finalize, Crash
<1>3. \A o \in Operators : Admin(o) => UNCHANGED sent
  BY DEF Admin, PlanRetry, PlanRerun, CommitRerun, CommitRetry, AbandonRequest
<1>4. ExpireRetryWindows \/ CleanupHistory \/ AdvanceClock \/ UNCHANGED vars => UNCHANGED sent
  BY DEF ExpireRetryWindows, CleanupHistory, AdvanceClock, vars
<1>5. \A e \in Executions : Cancel(e) \/ Resolve(e) => UNCHANGED sent
  BY DEF Cancel, Resolve
<1>6. Switch => UNCHANGED sent
  BY DEF Switch, SwitchDispatch, SwitchTarget, PauseSchedule, ResumeSchedule, Register, UseSwitch
<1>. QED  BY <1>1, <1>2, <1>3, <1>4, <1>5, <1>6 DEF Next

LEMMA SendRpcRecords ==
  ASSUME LedgerInv, NEW w \in Workers, SendRpc(w)
  PROVE  LET e == job[w].exec
         IN /\ e \in Executions /\ exec' = exec /\ phase[w] = "checked"
            /\ exec[e].status # "absent"
            /\ sent'[e] = sent[e] \cup {[number |-> job[w].number, idempotent |-> job[w].idempotent]}
            /\ \A f \in Executions \ {e} : sent'[f] = sent[f]
<1>1. job[w].exec \in Executions /\ exec[job[w].exec].status # "absent" /\ phase[w] = "checked"
  BY BusySlot DEF SendRpc
<1>. QED  BY <1>1 DEF SendRpc, LedgerInv, TypeOK

LEMMA NextSentIsOfRows ==
  ASSUME LedgerInv, OutcomeInv, SentIsOfRows, [Next]_vars PROVE SentIsOfRows'
<1>. SUFFICES ASSUME NEW e \in Executions, exec'[e].status = "absent" PROVE sent'[e] = {}
  BY DEF SentIsOfRows
<1>1. exec[e].status = "absent"
  BY EveryRowStep, RowKeepsSnapshot, FinalizedIsNamed DEF OutcomeInv
<1>2. sent[e] = {}
  BY <1>1 DEF SentIsOfRows
<1>3. ASSUME NEW w \in Workers, SendRpc(w) PROVE sent'[e] = {}
  BY <1>1, <1>2, <1>3, SendRpcRecords
<1>. QED  BY <1>2, <1>3, StepSent

LEMMA ClaimRetriesSafely ==
  ASSUME LedgerInv, OutcomeInv, RetryIsNamed, NEW w \in Workers, NEW e \in Executions, Claim(w, e)
  PROVE  SlotRetriesSafely(w)'
<1>1. exec[e].status \in {"pending", "retry_wait"} /\ exec[e].count \in Nat
  BY DEF Claim, LedgerInv, TypeOK, ExecutionRow
<1>2. /\ job'[w].number = exec[e].count + 1 /\ job'[w].reason = exec[e].reason
      /\ phase'[w] = "claimed"
  BY DEF Claim, LedgerInv, TypeOK
<1>3. exec[e].status = "pending" => exec[e].count = 0
  BY DEF OutcomeInv, OutcomeAgreement
<1>4. exec[e].status = "retry_wait" => exec[e].reason # "initial"
  BY DEF RetryIsNamed
<1>. QED  BY <1>1, <1>2, <1>3, <1>4 DEF SlotRetriesSafely

LEMMA CheckRetriesSafely ==
  ASSUME LedgerInv, RetriesAreSafe, NEW w \in Workers, CheckCapability(w)
  PROVE  SlotRetriesSafely(w)'
<1>. DEFINE e == job[w].exec
            current == declared[exec[e].action]
<1>1. job[w] \in Job /\ phase[w] = "claimed" /\ exec' = exec
  BY BusySlot DEF CheckCapability
<1>2. CASE current = "removed" \/ Revoked(w)
  <2>1. phase'[w] = "decided"
    BY <1>2 DEF CheckCapability, LedgerInv, TypeOK
  <2>. QED  BY <2>1 DEF SlotRetriesSafely
<1>3. CASE ~(current = "removed" \/ Revoked(w))
  <2>1. phase' = [phase EXCEPT ![w] = "checked"]
    BY <1>3 DEF CheckCapability
  <2>2. job' = [job EXCEPT ![w] = [job[w] EXCEPT !.idempotent = (current = "idempotent")]]
    BY <1>3 DEF CheckCapability
  <2>. DEFINE j == [job[w] EXCEPT !.idempotent = (current = "idempotent")]
  <2>3. /\ j.number = job[w].number /\ j.exec = e
        /\ j.idempotent <=> (current = "idempotent")
    BY <1>1 DEF Job
  <2>4. phase'[w] = "checked" /\ job'[w] = j
    BY <2>1, <2>2 DEF LedgerInv, TypeOK
  <2>. HIDE DEF j
  <2>5. job[w].number > 1 => job[w].reason # "initial"
    BY <1>1 DEF RetriesAreSafe, SlotRetriesSafely
  <2>6. job[w].number > 1 => exec[e].idempotent /\ current = "idempotent"
    BY <1>3, <2>5 DEF Revoked
  <2>. QED  BY <1>1, <2>3, <2>4, <2>6 DEF SlotRetriesSafely
<1>. QED  BY <1>2, <1>3

LEMMA NextRetriesAreSafe ==
  ASSUME LedgerInv, OutcomeInv, CallsInv, [Next]_vars PROVE RetriesAreSafe'
<1>. SUFFICES ASSUME NEW v \in Workers PROVE SlotRetriesSafely(v)'
  BY DEF RetriesAreSafe
<1>1. SlotRetriesSafely(v) /\ RetryIsNamed /\ RetriesAreSafe
  BY DEF CallsInv, RetriesAreSafe
<1>2. SlotStep(v)
  BY EverySlotStep
<1>3. CASE phase'[v] \notin {"claimed", "checked"}
  BY <1>3 DEF SlotRetriesSafely
<1>4. CASE SlotKept(v) /\ phase'[v] \in {"claimed", "checked"}
  <2>. DEFINE e == job[v].exec
  <2>1. e \in Executions /\ exec[e].status # "absent"
    BY <1>4, BusySlot DEF SlotKept
  <2>2. SnapshotKept(e)
    BY <2>1, EveryRowStep, RowKeepsSnapshot
  <2>. QED  BY <1>1, <1>4, <2>2 DEF SlotKept, SlotRetriesSafely, SnapshotKept
<1>5. ASSUME NEW e \in Executions, ReadExpiredLease(v, e) PROVE phase'[v] = "decided"
  BY <1>5 DEF ReadExpiredLease, LedgerInv, TypeOK
<1>6. SendRpc(v) => phase'[v] = "sent"
  BY DEF SendRpc, LedgerInv, TypeOK
<1>7. AwaitRpc(v) => phase'[v] = "decided"
  BY DEF AwaitRpc, LedgerInv, TypeOK
<1>. QED
  BY <1>1, <1>2, <1>3, <1>4, <1>5, <1>6, <1>7, ClaimRetriesSafely, CheckRetriesSafely DEF SlotStep

LEMMA NextRepeatedCalls ==
  ASSUME LedgerInv, OutcomeInv, CallsInv, [Next]_vars PROVE RepeatedCallsAreIdempotent'
<1>. SUFFICES ASSUME NEW e \in Executions, NEW call \in sent'[e], call.number > 1
              PROVE  exec'[e].idempotent /\ call.idempotent
  BY DEF RepeatedCallsAreIdempotent
<1>1. CASE call \in sent[e]
  <2>1. exec[e].status # "absent" /\ exec[e].idempotent /\ call.idempotent
    BY <1>1 DEF CallsInv, SentIsOfRows, RepeatedCallsAreIdempotent
  <2>2. SnapshotKept(e)
    BY <2>1, EveryRowStep, RowKeepsSnapshot
  <2>. QED  BY <2>1, <2>2 DEF SnapshotKept
<1>2. CASE call \notin sent[e]
  <2>1. PICK w \in Workers : SendRpc(w)
    BY <1>2, StepSent
  <2>2. /\ job[w].exec = e /\ exec' = exec /\ phase[w] = "checked"
        /\ call = [number |-> job[w].number, idempotent |-> job[w].idempotent]
    BY <1>2, <2>1, SendRpcRecords
  <2>3. SlotRetriesSafely(w) /\ call.number = job[w].number /\ call.idempotent = job[w].idempotent
    BY <2>2 DEF CallsInv, RetriesAreSafe
  <2>. QED  BY <2>2, <2>3 DEF SlotRetriesSafely
<1>. QED  BY <1>1, <1>2

LEMMA NextCallsInv == LedgerInv /\ OutcomeInv /\ CallsInv /\ [Next]_vars => CallsInv'
BY NextRetryIsNamed, NextSentIsOfRows, NextRetriesAreSafe, NextRepeatedCalls DEF CallsInv

\* The Target is called again for an execution only if both the snapshot and
\* the registration read before the call declare the action idempotent: no
\* interleaving makes the dispatch reason "initial" on a later attempt.
THEOREM CallsRepeatSafely == Spec => []RepeatedCallsAreIdempotent
<1>1. CallsInv => RepeatedCallsAreIdempotent
  BY DEF CallsInv
<1>. QED
  BY <1>1, InitCallsInv, NextCallsInv, InitOutcomeInv, NextOutcomeInv, LedgerInvariant, PTL DEF Spec

-----------------------------------------------------------------------------
(* ExecutionLedger implements the safety part of ScheduleSlot *)

\* Each status has its meaning.
LEMMA LifeOfStatus ==
  /\ LifeOf("absent") = "unused" /\ LifeOf("deleted") = "forgotten"
  /\ LifeOf("pending") = "waiting" /\ LifeOf("retry_wait") = "waiting"
  /\ LifeOf("running") = "running" /\ LifeOf("unknown") = "doubt"
  /\ LifeOf("failed") = "failed" /\ LifeOf("succeeded") = "settled"
  /\ LifeOf("skipped") = "settled" /\ LifeOf("cancelled") = "settled"
BY DEF LifeOf

LEMMA HoldsIsActive ==
  ASSUME LedgerInv, NEW e \in Executions PROVE Slot!Holds(e) <=> IsActive(e)
<1>1. exec[e].status \in Statuses
  BY DEF LedgerInv, TypeOK, ExecutionRow
<1>2. life[e] = LifeOf(exec[e].status)
  BY DEF life
<1>. QED
  BY <1>1, <1>2, LifeOfStatus DEF Slot!Holds, IsActive, Statuses, Active, Settled

\* The ledger's overlap check is the slot's.
LEMMA FreeForIsInactive ==
  ASSUME LedgerInv, NEW e \in Executions, NEW s \in Schedules
  PROVE  Slot!FreeFor(e, s) <=> ActiveOf(s) \ {e} = {}
<1>1. \A f \in Executions : owner[f] = exec[f].schedule
  BY DEF owner
<1>. QED  BY <1>1, HoldsIsActive DEF Slot!FreeFor, ActiveOf

\* How a new value of one row shows in the slot.
LEMMA OneRowMapped ==
  ASSUME LedgerInv, NEW e \in Executions, NEW row, exec' = [exec EXCEPT ![e] = row]
  PROVE  /\ life' = [life EXCEPT ![e] = LifeOf(row.status)]
         /\ owner' = [owner EXCEPT ![e] = row.schedule]
         /\ spent' = [spent EXCEPT ![e] = row.count]
         /\ row.schedule = exec[e].schedule => owner' = owner
         /\ row.count = exec[e].count => spent' = spent
<1>1. exec'[e] = row /\ \A f \in Executions \ {e} : exec'[f] = exec[f]
  BY DEF LedgerInv, TypeOK
<1>2. life' = [f \in Executions |-> IF f = e THEN LifeOf(row.status) ELSE life[f]]
  <2>1. life' = [f \in Executions |-> LifeOf(exec'[f].status)]
    BY DEF life
  <2>2. \A f \in Executions : life[f] = LifeOf(exec[f].status)
    BY DEF life
  <2>. QED  BY <1>1, <2>1, <2>2
<1>3. owner' = [f \in Executions |-> IF f = e THEN row.schedule ELSE owner[f]]
  <2>1. owner' = [f \in Executions |-> exec'[f].schedule]
    BY DEF owner
  <2>2. \A f \in Executions : owner[f] = exec[f].schedule
    BY DEF owner
  <2>. QED  BY <1>1, <2>1, <2>2
<1>4. spent' = [f \in Executions |-> IF f = e THEN row.count ELSE spent[f]]
  <2>1. spent' = [f \in Executions |-> exec'[f].count]
    BY DEF spent
  <2>2. \A f \in Executions : spent[f] = exec[f].count
    BY DEF spent
  <2>. QED  BY <1>1, <2>1, <2>2
<1>5. /\ life = [f \in Executions |-> life[f]]
      /\ owner = [f \in Executions |-> owner[f]]
      /\ spent = [f \in Executions |-> spent[f]]
      /\ owner[e] = exec[e].schedule /\ spent[e] = exec[e].count
  BY DEF life, owner, spent
<1>6. life' = [life EXCEPT ![e] = LifeOf(row.status)]
  BY <1>2, <1>5
<1>7. /\ owner' = [owner EXCEPT ![e] = row.schedule]
      /\ row.schedule = exec[e].schedule => owner' = owner
  BY <1>3, <1>5
<1>8. /\ spent' = [spent EXCEPT ![e] = row.count]
      /\ row.count = exec[e].count => spent' = spent
  BY <1>4, <1>5
<1>. QED  BY <1>6, <1>7, <1>8

LEMMA NothingMapped ==
  ASSUME exec' = exec PROVE UNCHANGED <<life, owner, spent>>
BY DEF life, owner, spent

\* An unused id becomes an execution.
LEMMA NewExecutionAdmits ==
  ASSUME LedgerInv, NEW e \in Executions, NEW s \in Schedules, NEW row,
         exec[e].status = "absent", exec' = [exec EXCEPT ![e] = row],
         row.schedule = s, row.count = 0,
         row.status = "skipped" \/ (row.status = "pending" /\ ActiveOf(s) = {})
  PROVE  Slot!Admit(e, s)
<1>1. life[e] = "unused"
  BY LifeOfStatus DEF life
<1>2. /\ life' = [life EXCEPT ![e] = LifeOf(row.status)]
      /\ owner' = [owner EXCEPT ![e] = s] /\ spent' = [spent EXCEPT ![e] = 0]
  BY OneRowMapped
<1>3. CASE row.status = "skipped"
  BY <1>1, <1>2, <1>3, LifeOfStatus DEF Slot!Admit
<1>4. CASE row.status = "pending" /\ ActiveOf(s) = {}
  BY <1>1, <1>2, <1>4, LifeOfStatus, FreeForIsInactive DEF Slot!Admit
<1>. QED  BY <1>3, <1>4

LEMMA MaterializeMapped ==
  ASSUME LedgerInv, NEW s \in Schedules, NEW e \in Executions, MaterializeDue(s, e)
  PROVE  Slot!Admit(e, s)
<1>1. PICK misfire \in BOOLEAN, idempotent \in BOOLEAN, policy \in Policies :
        LET skip == ~targetEnabled \/ misfire \/ ActiveOf(s) # {}
        IN exec' = [exec EXCEPT ![e] =
                      NewExecution(s, schedule[s].action, idempotent, policy,
                                   IF skip THEN "skipped" ELSE "pending", now)]
  BY DEF MaterializeDue
<1>. DEFINE skip == ~targetEnabled \/ misfire \/ ActiveOf(s) # {}
            row == NewExecution(s, schedule[s].action, idempotent, policy,
                                IF skip THEN "skipped" ELSE "pending", now)
<1>2. row.schedule = s /\ row.count = 0
  BY DEF NewExecution
<1>3. row.status = "skipped" \/ (row.status = "pending" /\ ActiveOf(s) = {})
  BY DEF NewExecution
<1>4. exec[e].status = "absent" /\ exec' = [exec EXCEPT ![e] = row]
  BY <1>1 DEF MaterializeDue
<1>. HIDE DEF row
<1>. QED  BY <1>2, <1>3, <1>4, NewExecutionAdmits

LEMMA CommitRerunMapped ==
  ASSUME LedgerInv, NEW o \in Operators, NEW new \in Executions, CommitRerun(o, new)
  PROVE  UNCHANGED <<life, owner, spent>> \/ \E s \in Schedules : Slot!Admit(new, s)
<1>. DEFINE e == request[o].exec
            row == NewExecution(exec[e].schedule, exec[e].action, exec[e].idempotent,
                                exec[e].policy, "pending", request[o].now)
<1>1. exec[e].schedule \in Schedules
  BY DEF LedgerInv, TypeOK, Request, ExecutionRow
<1>2. row.schedule = exec[e].schedule /\ row.count = 0 /\ row.status = "pending"
  BY DEF NewExecution
<1>3. /\ exec[new].status = "absent"
      /\ \/ exec' = exec
         \/ exec' = [exec EXCEPT ![new] = row] /\ ActiveOf(exec[e].schedule) = {}
  BY DEF CommitRerun
<1>. HIDE DEF row, e
<1>. QED  BY <1>1, <1>2, <1>3, NothingMapped, NewExecutionAdmits

LEMMA ClaimMapped ==
  ASSUME LedgerInv, NEW w \in Workers, NEW e \in Executions, Claim(w, e)
  PROVE  Slot!Start(e)
<1>. DEFINE row == [exec[e] EXCEPT !.status = "running", !.count = exec[e].count + 1,
                      !.lease = exec[e].count + 1, !.timer = now + LeaseTime]
<1>1. exec[e] \in ExecutionRow
  BY DEF LedgerInv, TypeOK
<1>2. /\ exec' = [exec EXCEPT ![e] = row] /\ exec[e].status \in {"pending", "retry_wait"}
      /\ exec[e].count < exec[e].limit
  BY DEF Claim
<1>3. /\ row.status = "running" /\ row.count = exec[e].count + 1
      /\ row.schedule = exec[e].schedule
  BY <1>1 DEF ExecutionRow
<1>. HIDE DEF row
<1>4. /\ life' = [life EXCEPT ![e] = "running"] /\ owner' = owner
      /\ spent' = [spent EXCEPT ![e] = exec[e].count + 1]
  <2>1. LifeOf(row.status) = "running"
    BY <1>3, LifeOfStatus
  <2>2. /\ life' = [life EXCEPT ![e] = LifeOf(row.status)] /\ owner' = owner
        /\ spent' = [spent EXCEPT ![e] = row.count]
    BY <1>2, <1>3, OneRowMapped
  <2>. QED  BY <1>3, <2>1, <2>2
<1>5. life[e] = "waiting" /\ spent[e] = exec[e].count
  BY <1>2, LifeOfStatus DEF life, spent
<1>6. exec[e].count < AttemptHardLimit
  <2>1. exec[e].count \in Nat /\ exec[e].limit \in Nat /\ exec[e].limit =< AttemptHardLimit
    BY <1>1 DEF ExecutionRow, LedgerInv, AttemptBudget
  <2>. QED  BY <1>2, <2>1
<1>. QED  BY <1>4, <1>5, <1>6 DEF Slot!Start

\* A finalize that still holds the lease stops the run; a late one is not seen.
LEMMA FinalizeMapped ==
  ASSUME LedgerInv, NEW w \in Workers, Finalize(w)
  PROVE  UNCHANGED <<life, owner, spent>> \/ \E e \in Executions : Slot!Stop(e)
<1>. DEFINE e == job[w].exec
            d == decision[w]
            row == [exec[e] EXCEPT !.status = d.status, !.reason = d.reason,
                                   !.lease = 0, !.timer = d.timer]
<1>1. /\ e \in Executions /\ exec[e] \in ExecutionRow /\ job[w].number \in Nat
      /\ d.status \in {"succeeded", "failed", "unknown", "retry_wait"}
  BY DEF LedgerInv, TypeOK, Job, Decision
<1>2. CASE exec' = exec
  BY <1>2, NothingMapped
<1>3. CASE LeaseIsHeld(e, job[w].number) /\ exec' = [exec EXCEPT ![e] = row]
  <2>1. row.status = d.status /\ row.count = exec[e].count /\ row.schedule = exec[e].schedule
    BY <1>1 DEF ExecutionRow
  <2>2. exec[e].status = "running" /\ job[w].number = exec[e].count
    BY <1>1, <1>3 DEF LeaseIsHeld, LedgerInv, LeaseAgreement
  <2>3. d.status = "retry_wait" => exec[e].count < AttemptHardLimit
    <3>1. d.status = "retry_wait" => job[w].number < exec[e].policy.maxAttempts
      BY DEF Finalize, LedgerInv, SlotsHoldAttempts
    <3>2. exec[e].policy.maxAttempts \in 1 .. AttemptHardLimit
      BY <1>1, PoliciesAreWellFormed DEF ExecutionRow
    <3>. QED  BY <1>1, <2>2, <3>1, <3>2
  <2>. HIDE DEF row, d, e
  <2>4. /\ life' = [life EXCEPT ![e] = LifeOf(d.status)] /\ UNCHANGED <<owner, spent>>
    <3>1. /\ life' = [life EXCEPT ![e] = LifeOf(row.status)]
          /\ owner' = owner /\ spent' = spent
      BY <1>1, <1>3, <2>1, OneRowMapped
    <3>. QED  BY <2>1, <3>1
  <2>5. life[e] = "running" /\ spent[e] = exec[e].count
    BY <1>1, <2>2, LifeOfStatus DEF life, spent
  <2>6. Slot!Stop(e)
    <3>1. CASE d.status = "retry_wait"
      BY <2>3, <2>4, <2>5, <3>1, LifeOfStatus DEF Slot!Stop
    <3>2. CASE d.status \in {"succeeded", "failed", "unknown"}
      <4>1. LifeOf(d.status) \in {"settled", "failed", "doubt"}
        BY <3>2, LifeOfStatus
      <4>. QED  BY <2>4, <2>5, <4>1 DEF Slot!Stop
    <3>. QED  BY <1>1, <3>1, <3>2
  <2>. QED  BY <1>1, <2>6
<1>. QED  BY <1>2, <1>3 DEF Finalize

LEMMA ExpireMapped ==
  ASSUME LedgerInv, ExpireRetryWindows
  PROVE  \E some \in SUBSET Executions : Slot!Expire(some)
<1>. DEFINE some == {e \in Executions : WindowClosed(e)}
<1>1. \A e \in Executions : exec[e] \in ExecutionRow
  BY DEF LedgerInv, TypeOK
<1>2. \A e \in Executions :
        /\ exec'[e].schedule = exec[e].schedule /\ exec'[e].count = exec[e].count
        /\ exec'[e].status = IF e \in some THEN "failed" ELSE exec[e].status
  BY <1>1 DEF ExpireRetryWindows, ExecutionRow
<1>3. \A e \in some : exec[e].status = "retry_wait"
  BY DEF WindowClosed
<1>. HIDE DEF some
<1>4. life' = [e \in Executions |-> IF e \in some THEN "failed" ELSE life[e]]
  BY <1>2, LifeOfStatus DEF life
<1>5. UNCHANGED <<owner, spent>>
  BY <1>2 DEF owner, spent
<1>6. \A e \in some : life[e] = "waiting"
  BY <1>3, LifeOfStatus DEF life, some
<1>7. some \in SUBSET Executions
  BY DEF some
<1>. QED  BY <1>4, <1>5, <1>6, <1>7 DEF Slot!Expire

LEMMA CleanupMapped ==
  ASSUME LedgerInv, CleanupHistory
  PROVE  \E some \in SUBSET Executions : Slot!Forget(some)
<1>. DEFINE some == {e \in Executions : Outdated(e)}
<1>1. \A e \in Executions : exec[e] \in ExecutionRow
  BY DEF LedgerInv, TypeOK
<1>2. \A e \in Executions :
        /\ exec'[e].schedule = exec[e].schedule /\ exec'[e].count = exec[e].count
        /\ exec'[e].status = IF e \in some THEN "deleted" ELSE exec[e].status
  BY <1>1 DEF CleanupHistory, ExecutionRow
<1>3. \A e \in some : exec[e].status \in {"succeeded", "skipped", "cancelled", "failed"}
  BY DEF Outdated
<1>. HIDE DEF some
<1>4. life' = [e \in Executions |-> IF e \in some THEN "forgotten" ELSE life[e]]
  BY <1>2, LifeOfStatus DEF life
<1>5. UNCHANGED <<owner, spent>>
  BY <1>2 DEF owner, spent
<1>6. \A e \in some : life[e] \in {"failed", "settled"}
  BY <1>3, LifeOfStatus DEF life, some
<1>7. some \in SUBSET Executions
  BY DEF some
<1>. QED  BY <1>4, <1>5, <1>6, <1>7 DEF Slot!Forget

LEMMA CommitRetryMapped ==
  ASSUME LedgerInv, NEW o \in Operators, CommitRetry(o)
  PROVE  UNCHANGED <<life, owner, spent>> \/ \E e \in Executions : Slot!Revive(e)
<1>. DEFINE e == request[o].exec
            row == [exec[e] EXCEPT !.status = "retry_wait", !.reason = "operator_retry",
                      !.limit = exec[e].limit + 1, !.timer = request[o].now]
<1>1. /\ e \in Executions /\ exec[e] \in ExecutionRow
      /\ request[o].status \in {"failed", "unknown"}
  BY DEF CommitRetry, LedgerInv, TypeOK, Request
<1>2. \/ exec' = exec
      \/ /\ exec' = [exec EXCEPT ![e] = row] /\ exec[e].status = request[o].status
         /\ exec[e].limit < AttemptHardLimit /\ ActiveOf(exec[e].schedule) \ {e} = {}
  BY DEF CommitRetry
<1>3. row.status = "retry_wait" /\ row.count = exec[e].count /\ row.schedule = exec[e].schedule
  BY <1>1 DEF ExecutionRow
<1>. HIDE DEF row, e
<1>4. CASE /\ exec' = [exec EXCEPT ![e] = row] /\ exec[e].status = request[o].status
           /\ exec[e].limit < AttemptHardLimit /\ ActiveOf(exec[e].schedule) \ {e} = {}
  <2>1. life' = [life EXCEPT ![e] = "waiting"] /\ UNCHANGED <<owner, spent>>
    <3>1. LifeOf(row.status) = "waiting"
      BY <1>3, LifeOfStatus
    <3>2. /\ life' = [life EXCEPT ![e] = LifeOf(row.status)]
          /\ owner' = owner /\ spent' = spent
      BY <1>1, <1>3, <1>4, OneRowMapped
    <3>. QED  BY <3>1, <3>2
  <2>2. life[e] \in {"failed", "doubt"} /\ owner[e] = exec[e].schedule /\ spent[e] = exec[e].count
    BY <1>1, <1>4, LifeOfStatus DEF life, owner, spent
  <2>3. exec[e].schedule \in Schedules /\ exec[e].count \in Nat /\ exec[e].limit \in Nat
    BY <1>1 DEF ExecutionRow
  <2>4. Slot!FreeFor(e, owner[e])
    BY <1>1, <1>4, <2>2, <2>3, FreeForIsInactive
  <2>5. exec[e].count < AttemptHardLimit
    BY <1>1, <1>4, <2>3 DEF LedgerInv, AttemptBudget
  <2>. QED  BY <1>1, <2>1, <2>2, <2>4, <2>5 DEF Slot!Revive
<1>. QED  BY <1>2, <1>4, NothingMapped

LEMMA DecideMapped ==
  ASSUME LedgerInv, NEW e \in Executions, Cancel(e) \/ Resolve(e)
  PROVE  Slot!Decide(e)
<1>1. exec[e] \in ExecutionRow
  BY DEF LedgerInv, TypeOK
<1>2. PICK verdict \in {"succeeded", "failed", "cancelled"} :
        /\ exec' = [exec EXCEPT ![e] = [exec[e] EXCEPT !.status = verdict, !.timer = now]]
        /\ \/ exec[e].status = "unknown"
           \/ exec[e].status \in {"pending", "retry_wait"} /\ verdict = "cancelled"
  BY DEF Cancel, Resolve
<1>. DEFINE row == [exec[e] EXCEPT !.status = verdict, !.timer = now]
<1>3. row.status = verdict /\ row.count = exec[e].count /\ row.schedule = exec[e].schedule
  BY <1>1 DEF ExecutionRow
<1>4. exec' = [exec EXCEPT ![e] = row]
  BY <1>2
<1>. HIDE DEF row
<1>5. life' = [life EXCEPT ![e] = LifeOf(verdict)] /\ UNCHANGED <<owner, spent>>
  BY <1>3, <1>4, OneRowMapped
<1>6. CASE exec[e].status = "unknown"
  <2>1. life[e] = "doubt" /\ LifeOf(verdict) \in {"settled", "failed"}
    BY <1>2, <1>6, LifeOfStatus DEF life
  <2>. QED  BY <1>5, <2>1 DEF Slot!Decide
<1>7. CASE exec[e].status \in {"pending", "retry_wait"} /\ verdict = "cancelled"
  <2>1. life[e] = "waiting" /\ LifeOf(verdict) = "settled"
    BY <1>7, LifeOfStatus DEF life
  <2>. QED  BY <1>5, <2>1 DEF Slot!Decide
<1>. QED  BY <1>2, <1>6, <1>7

LEMMA InitMapped == Init => Slot!Init
<1>. SUFFICES ASSUME Init PROVE Slot!Init
  OBVIOUS
<1>1. NoRow.status = "absent" /\ NoRow.count = 0 /\ NoRow.schedule \in Schedules
  BY DefaultsTyped DEF NoRow, ExecutionRow
<1>2. \A e \in Executions : exec[e] = NoRow
  BY DEF Init
<1>3. life = [e \in Executions |-> "unused"]
  BY <1>1, <1>2, LifeOfStatus DEF life
<1>. QED  BY <1>1, <1>2, <1>3 DEF Slot!Init, owner, spent

LEMMA StepMapped ==
  LedgerInv /\ [Next]_vars => [Slot!Next]_<<life, owner, spent>>
<1>. SUFFICES ASSUME LedgerInv, [Next]_vars
              PROVE  Slot!Next \/ UNCHANGED <<life, owner, spent>>
  OBVIOUS
<1>1. CASE UNCHANGED exec
  BY <1>1, NothingMapped
<1>2. ASSUME NEW w \in Workers, Tick(w) PROVE Slot!Next \/ UNCHANGED <<life, owner, spent>>
  BY <1>1, <1>2, ClaimMapped, FinalizeMapped
    DEF Tick, ReadExpiredLease, CheckCapability, SendRpc, AwaitRpc, Crash, Slot!Next
<1>3. ASSUME NEW o \in Operators, Admin(o) PROVE Slot!Next \/ UNCHANGED <<life, owner, spent>>
  BY <1>1, <1>3, CommitRetryMapped, CommitRerunMapped
    DEF Admin, PlanRetry, PlanRerun, AbandonRequest, Slot!Next
<1>4. CASE Switch
  BY <1>1, <1>4 DEF Switch, SwitchDispatch, SwitchTarget, PauseSchedule, ResumeSchedule,
                    Register, UseSwitch
<1>5. CASE AdvanceClock \/ UNCHANGED vars
  BY <1>1, <1>5 DEF AdvanceClock, vars
<1>6. ASSUME NEW s \in Schedules, NEW e \in Executions, MaterializeDue(s, e) PROVE Slot!Next
  BY <1>6, MaterializeMapped DEF Slot!Next
<1>7. ASSUME NEW e \in Executions, Cancel(e) \/ Resolve(e) PROVE Slot!Next
  BY <1>7, DecideMapped DEF Slot!Next
<1>8. CASE ExpireRetryWindows \/ CleanupHistory
  BY <1>8, ExpireMapped, CleanupMapped DEF Slot!Next
<1>. QED  BY <1>2, <1>3, <1>4, <1>5, <1>6, <1>7, <1>8 DEF Next

\* The ledger implements the slot: whatever Ticks, operators, registrations and
\* crashes do, a schedule sees one execution at a time that waits, runs within
\* its budget, and never comes back once it is settled.
THEOREM LedgerImplementsSlot == Spec => ImplementsSlot
BY InitMapped, StepMapped, LedgerInvariant, PTL
   DEF Spec, ImplementsSlot, Slot!Spec, Slot!slotVars
=============================================================================
