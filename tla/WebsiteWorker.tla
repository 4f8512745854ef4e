---------------------------- MODULE WebsiteWorker ----------------------------
(***************************************************************************)
(* A website that is called over its service binding: the platform's call  *)
(* with its deadline (service-binding-adapter.ts, tick.ts), the handler of *)
(* the SDK with its abort signal (worker-sdk index.ts), and the Actions of *)
(* the example worker with their business idempotency, their test          *)
(* scenarios and receipts (examples/worker-data).  Calls with one          *)
(* idempotency key may run at once: the platform gave up on one, and sent  *)
(* another.  The summaries and outputs of the example worker are small:    *)
(* the SDK's failures for large ones, which follow an Action that has run, *)
(* are left out.                                                           *)
(***************************************************************************)
EXTENDS Integers, FiniteSets

CONSTANTS Calls,      \* the RPC calls ever made, each of them once
          Keys,       \* idempotency keys: Executions or Deliveries
          Sources,    \* payloads of syncUsers
          Actions,    \* the Actions that are called
          Modes,      \* scenarios that are configured
          MaxArms,    \* bound on the number of configured scenarios
          None

Answers == {"success", "permanent", "retryable", "exception", "malformed_result", "identity_mismatch"}

Stages == {"take", "begin", "run", "insert", "select", "effect", "wait", "listen", "count",
           "receipt", "returned"}

\* A configured scenario has a number of its own; 0 is the default.
Scenarios == [mode : Modes \cup {"success", "non_idempotent_failure"}, number : 0..MaxArms]

\* A call: where it is, its request, its scenario, its signal and its answer;
\* wrote is history, reset tells that the test data were deleted meanwhile.
CallRecord ==
    [stage : Stages, action : Actions, key : Keys, source : Sources \cup {None},
     scenario : Scenarios, late : BOOLEAN, aborted : BOOLEAN,
     answer : Answers \cup Sources \cup {None}, counted : {0, 1}, wrote : BOOLEAN, reset : BOOLEAN]

\* A stored result is no word for how a call went.
WorkerAssumption ==
    /\ Actions \subseteq {"syncUsers", "testScenario", "nonIdempotentScenario"}
    /\ Modes \subseteq {"permanent_failure", "retryable_then_success", "throw_before_effect",
                        "timeout_after_effect", "malformed_result", "identity_mismatch"}
    /\ MaxArms \in Nat
    /\ Sources \cap (Answers \cup {"waiting", "unknown"}) = {}
    /\ None \notin Answers \cup Sources \cup {"waiting", "unknown"} \cup CallRecord \cup Scenarios

VARIABLES results,    \* idempotent_results, per key
          effects,    \* test_side_effects: the keys
          armed,      \* scenario_queue: the one configured scenario
          arms,       \* how many scenarios were configured
          receipts,   \* rpc_receipts
          call,       \* the calls as the website runs them
          told        \* what the platform makes of them

vars == <<results, effects, armed, arms, receipts, call, told>>

\* The mode "success"; slow_success and duplicate_idempotency write the same.
Default == [mode |-> "success", number |-> 0]

NewCall(action, key, source) ==
    [stage |-> IF action = "syncUsers" THEN "begin" ELSE "take",
     action |-> action, key |-> key, source |-> source, scenario |-> Default, late |-> FALSE,
     aborted |-> FALSE, answer |-> None, counted |-> 0, wrote |-> FALSE, reset |-> FALSE]

Init ==
    /\ results = [k \in Keys |-> None]
    /\ effects = {}
    /\ armed = None /\ arms = 0
    /\ receipts = {}
    /\ call = [c \in Calls |-> None]
    /\ told = [c \in Calls |-> None]

At(c, stage) == call[c] # None /\ call[c].stage = stage
Goto(c, stage) == call' = [call EXCEPT ![c].stage = stage]

\* Actions of scenarios leave a receipt on their way out, whatever happened.
OnTheWayOut(c) == IF call[c].action = "syncUsers" THEN "returned" ELSE "count"
Answer(c, answer) ==
    call' = [call EXCEPT ![c].answer = answer, ![c].stage = OnTheWayOut(c)]

Tables == <<results, effects, armed, arms, receipts>>
-----------------------------------------------------------------------------
Start(c) ==
    /\ call[c] = None
    /\ \E a \in Actions, k \in Keys, s \in Sources :
          call' = [call EXCEPT ![c] = NewCall(a, k, IF a = "syncUsers" THEN s ELSE None)]
    /\ told' = [told EXCEPT ![c] = "waiting"]
    /\ UNCHANGED Tables

ArmedAfter == None

\* takeScenario: DELETE ... RETURNING; without a row the mode is "success".
Take(c) ==
    /\ At(c, "take")
    /\ LET s == IF armed = None THEN Default ELSE armed
           m == IF call[c].action = "nonIdempotentScenario" THEN "non_idempotent_failure" ELSE s.mode
           w == [call[c] EXCEPT !.scenario = [mode |-> m, number |-> s.number]]
       IN  call' = [call EXCEPT ![c] =
              IF m \in {"malformed_result", "identity_mismatch"}
              THEN [w EXCEPT !.answer = m, !.stage = "count"] ELSE [w EXCEPT !.stage = "begin"]]
    /\ armed' = ArmedAfter
    /\ UNCHANGED <<results, effects, arms, receipts, told>>

\* The handler refuses what it does not know or cannot read, ...
Refuse(c) ==
    /\ At(c, "begin")
    /\ Answer(c, "permanent")
    /\ UNCHANGED <<Tables, told>>

\* ... answers at once when the deadline has passed, and runs the Action else.
Begin(c) ==
    /\ At(c, "begin")
    /\ IF call[c].late THEN Answer(c, "retryable") ELSE Goto(c, "run")
    /\ UNCHANGED <<Tables, told>>

\* Before any write: CronError is an answer, another error is an exception.
Outcome(c) ==
    CASE call[c].action = "syncUsers" -> IF call[c].aborted THEN "exception" ELSE None
      [] call[c].scenario.mode \in {"permanent_failure", "non_idempotent_failure"} -> "permanent"
      [] call[c].scenario.mode = "retryable_then_success" -> "retryable"
      [] call[c].scenario.mode = "throw_before_effect" -> "exception"
      [] OTHER -> None

Run(c) ==
    /\ At(c, "run")
    /\ IF Outcome(c) # None THEN Answer(c, Outcome(c))
       ELSE Goto(c, IF call[c].action = "syncUsers" THEN "insert" ELSE "effect")
    /\ UNCHANGED <<Tables, told>>

\* Mutant of StoredAfter: INSERT OR REPLACE.
StoredAlways(c) == call[c].source

\* ON CONFLICT DO NOTHING.
StoredAfter(c) == IF results[call[c].key] = None THEN call[c].source ELSE results[call[c].key]

Insert(c) ==
    /\ At(c, "insert")
    /\ results' = [results EXCEPT ![call[c].key] = StoredAfter(c)]
    /\ call' = [call EXCEPT ![c].stage = "select", ![c].wrote = TRUE]
    /\ UNCHANGED <<effects, armed, arms, receipts, told>>

Selected(c) == IF results[call[c].key] = None THEN "exception" ELSE results[call[c].key]

\* The stored result is answered, the call's own or an older one.
Select(c) ==
    /\ At(c, "select")
    /\ Answer(c, Selected(c))
    /\ UNCHANGED <<Tables, told>>

AnswerAfterEffect(c) == IF call[c].scenario.mode = "timeout_after_effect" THEN None ELSE "success"

\* persistScenarioEffect, and for one mode the wait for the deadline.
Effect(c) ==
    /\ At(c, "effect")
    /\ effects' = effects \cup {call[c].key}
    /\ call' = [call EXCEPT ![c].wrote = TRUE,
                  ![c].stage = IF call[c].scenario.mode = "timeout_after_effect" THEN "wait" ELSE "count",
                  ![c].answer = AnswerAfterEffect(c)]
    /\ UNCHANGED <<results, armed, arms, receipts, told>>

\* Mutant of AbortedAlready: waitForAbort only listens.
AbortedNever(c) == FALSE

AbortedAlready(c) == call[c].aborted

\* waitForAbort: the signal may have fired before anybody listened.
WaitForAbort(c) ==
    /\ At(c, "wait")
    /\ IF AbortedAlready(c) THEN Answer(c, "exception") ELSE Goto(c, "listen")
    /\ UNCHANGED <<Tables, told>>

Running == {"run", "insert", "select", "effect", "wait", "listen"}

\* The timer of the handler fires at the deadline, once.
Abort(c) ==
    /\ call[c] # None /\ call[c].stage \in Running
    /\ call[c].late /\ ~call[c].aborted
    /\ call' = [call EXCEPT ![c].aborted = TRUE,
                  ![c].stage = IF @ = "listen" THEN "count" ELSE @,
                  ![c].answer = IF call[c].stage = "listen" THEN "exception" ELSE @]
    /\ UNCHANGED <<Tables, told>>

\* A statement of the website's D1 fails, before or after it took effect.
D1Fails(c) ==
    /\ call[c] # None /\ call[c].stage \in {"insert", "select", "effect"}
    /\ \E done \in IF call[c].stage = "select" THEN {FALSE} ELSE BOOLEAN :
          /\ results' = IF done /\ call[c].stage = "insert"
                        THEN [results EXCEPT ![call[c].key] = StoredAfter(c)] ELSE results
          /\ effects' = IF done /\ call[c].stage = "effect" THEN effects \cup {call[c].key} ELSE effects
          /\ call' = [call EXCEPT ![c].answer = "exception", ![c].stage = OnTheWayOut(c),
                                  ![c].wrote = @ \/ done]
    /\ UNCHANGED <<armed, arms, receipts, told>>

\* recordReceipt, in finally: count the effects of the key, then insert.
CountEffects(c) ==
    /\ At(c, "count")
    /\ call' = [call EXCEPT ![c].stage = "receipt", ![c].counted = IF call[c].key \in effects THEN 1 ELSE 0]
    /\ UNCHANGED <<Tables, told>>

InsertReceipt(c) ==
    /\ At(c, "receipt")
    /\ receipts' = receipts \cup {[call |-> c, mode |-> call[c].scenario.mode, effects |-> call[c].counted]}
    /\ Goto(c, "returned")
    /\ UNCHANGED <<results, effects, armed, arms, told>>

\* An exception of finally replaces whatever was to be answered.
ReceiptFails(c) ==
    /\ call[c] # None /\ call[c].stage \in {"take", "count", "receipt"}
    /\ call' = [call EXCEPT ![c].stage = "returned", ![c].answer = "exception"]
    /\ UNCHANGED <<Tables, told>>

\* The isolate of the website is ended.
Dies(c) ==
    /\ call[c] # None /\ call[c].stage # "returned"
    /\ call' = [call EXCEPT ![c].stage = "returned", ![c].answer = "exception"]
    /\ UNCHANGED <<Tables, told>>
-----------------------------------------------------------------------------
Returned(c) == At(c, "returned")

\* Only a well-formed result of this very Attempt is believed.
Believed(answer) ==
    IF answer \in {"malformed_result", "identity_mismatch", "exception"} THEN "unknown" ELSE answer

Hear(c) ==
    /\ told[c] = "waiting"
    /\ Returned(c)
    /\ told' = [told EXCEPT ![c] = Believed(call[c].answer)]
    /\ UNCHANGED <<Tables, call>>

\* The deadline passes, on both sides of the call.
Deadline(c) ==
    /\ call[c] # None /\ ~call[c].late /\ call[c].stage # "returned"
    /\ call' = [call EXCEPT ![c].late = TRUE]
    /\ UNCHANGED <<Tables, told>>

\* withDeadline: the platform stops waiting; the website may still be running.
GiveUp(c) ==
    /\ told[c] = "waiting" /\ call[c].late
    /\ told' = [told EXCEPT ![c] = "unknown"]
    /\ UNCHANGED <<Tables, call>>

\* POST /__test/scenario replaces the configured scenario.
Arm ==
    /\ arms < MaxArms
    /\ arms' = arms + 1
    /\ \E m \in Modes : armed' = [mode |-> m, number |-> arms + 1]
    /\ UNCHANGED <<results, effects, receipts, call, told>>

\* POST /__test/reset empties all four tables in one batch.
Reset ==
    /\ \E c \in Calls : call[c] # None /\ ~call[c].reset
    /\ results' = [k \in Keys |-> None]
    /\ effects' = {} /\ armed' = None /\ receipts' = {}
    /\ call' = [c \in Calls |-> IF call[c] = None THEN None ELSE [call[c] EXCEPT !.reset = TRUE]]
    /\ UNCHANGED <<arms, told>>

Step(c) ==
    \/ Take(c) \/ Begin(c) \/ Run(c) \/ Insert(c) \/ Select(c) \/ Effect(c)
    \/ WaitForAbort(c) \/ CountEffects(c) \/ InsertReceipt(c)

Next ==
    \/ \E c \in Calls : \/ Start(c) \/ Refuse(c) \/ Step(c) \/ Abort(c) \/ D1Fails(c)
                        \/ ReceiptFails(c) \/ Dies(c) \/ Hear(c) \/ Deadline(c) \/ GiveUp(c)
    \/ Arm
    \/ Reset

Spec == Init /\ [][Next]_vars

\* Time passes and the website's isolate runs on; nobody has to answer.
Fairness ==
    \A c \in Calls : /\ WF_vars(Step(c)) /\ WF_vars(Abort(c)) /\ WF_vars(Deadline(c))
                     /\ WF_vars(Hear(c)) /\ WF_vars(GiveUp(c))

FairSpec == Spec /\ Fairness
-----------------------------------------------------------------------------
\* The shapes of the tables; an Action that has returned has an answer.
TypeOK ==
    /\ results \in [Keys -> Sources \cup {None}]
    /\ effects \subseteq Keys
    /\ arms \in 0..MaxArms /\ armed \in Scenarios \cup {None}
    /\ call \in [Calls -> CallRecord \cup {None}]
    /\ told \in [Calls -> Answers \cup Sources \cup {None, "waiting", "unknown"}]
    /\ \A c \in Calls : call[c] # None /\ call[c].stage = "returned" => call[c].answer # None

(***************************************************************************)
(* A success the platform believes is the stored business result of its    *)
(* key, so all successes of one key are the same, however many calls of    *)
(* the key ran, one after the other or at once                             *)
(* (docs/worker-integration.md: at most one business effect per key).      *)
(***************************************************************************)
SuccessIsStored ==
    \A c \in Calls : call[c] # None /\ ~call[c].reset =>
       /\ told[c] \in Sources => results[call[c].key] = told[c]
       /\ told[c] = "success" => call[c].key \in effects

(***************************************************************************)
(* When the platform is told of a definite failure, this call has written  *)
(* nothing, so it may be retried or given up; what may have been done is   *)
(* unknown (worker-data runScenario, worker-sdk cron).  It is the example  *)
(* worker's property: of an Action with a large summary or output the SDK  *)
(* reports a definite failure after it has run.                            *)
(***************************************************************************)
FailureHasNoEffect ==
    \A c \in Calls : told[c] \in {"permanent", "retryable"} => ~call[c].wrote

(***************************************************************************)
(* When the platform is told how a scenario went, its receipt is there,    *)
(* with the effect of a success and the mode that was played               *)
(* (test-plan.md TTW-005).                                                 *)
(***************************************************************************)
AnswerHasReceipt ==
    \A c \in Calls :
       /\ told[c] \in {"success", "permanent", "retryable"}
       /\ call[c].action # "syncUsers" /\ ~call[c].reset
       => \E r \in receipts : /\ r.call = c /\ r.mode = call[c].scenario.mode
                              /\ told[c] = "success" => r.effects = 1

(***************************************************************************)
(* A configured scenario is played by one call: two calls that arrive      *)
(* together do not both take it, and the retry of a failed one succeeds    *)
(* (worker-data takeScenario; test-plan.md MODE-003).                      *)
(***************************************************************************)
ScenarioIsPlayedOnce ==
    \A c, d \in Calls : c # d /\ call[c] # None /\ call[d] # None
                        /\ call[c].scenario.number = call[d].scenario.number
                        => call[c].scenario.number = 0

(***************************************************************************)
(* Every call ends on both sides: the platform stops waiting, and the      *)
(* Action that waits for its deadline is woken by it, also when the signal *)
(* fired while its effect was being written.                               *)
(***************************************************************************)
CallsEnd ==
    \A c \in Calls : (call[c] # None) ~>
       (At(c, "returned") /\ told[c] # "waiting")
=============================================================================
