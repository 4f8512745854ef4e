----------------------------- MODULE CronHorizon -----------------------------
(***************************************************************************)
(* nextAfter looks at most eight years ahead.  A rule that was accepted is *)
(* calculated again by every Tick that finds it due, and one exception     *)
(* there stops the materialisation of everybody's messages: whatever is    *)
(* accepted once must be found ever after, also the 29th of February       *)
(* around a year like 2100.                                                *)
(*                                                                         *)
(* The calendar keeps four instants of each year; cron-parser is external: *)
(* it yields the next instant of a rule and throws past the end date.      *)
(***************************************************************************)
EXTENDS Integers, FiniteSets, FiniteSetsExt

CONSTANTS FirstYear, LastYear,  \* the clock runs over these years
          Late                  \* how many instants a Tick may come late

HorizonAssumption ==
    /\ FirstYear \in Nat /\ LastYear \in Nat /\ FirstYear < LastYear
    /\ Late \in Nat

(* 1 January, 28 February, 29 February, 1 March; no other is looked at. *)
Dates == {"new year", "28 february", "29 february", "1 march"}
Rules == Dates \cup {"31 february"}
DateNo == [d \in Dates |-> CASE d = "new year" -> 0 [] d = "28 february" -> 1
                             [] d = "29 february" -> 2 [] d = "1 march" -> 3]

IsLeap(y) == y % 4 = 0 /\ (y % 100 # 0 \/ y % 400 = 0)
Instant(y, date) == 4 * y + DateNo[date]
YearOf(t) == t \div 4
IsLeapDay(t) == t % 4 = DateNo["29 february"]
Exists(t) == IsLeapDay(t) => IsLeap(YearOf(t))

VARIABLES now,
          rule,     \* the schedule's rule
          state,    \* "none", "registered", "paused", "refused"
          next,     \* next_run_at, or NoRun
          failed,   \* history: a Tick could not calculate the next run
          last      \* history: the instant next was calculated at

vars == <<now, rule, state, next, failed, last>>

NoRun == -1

----------------------------------------------------------------------------
(* CronCalculator                                                          *)

MaxSearchYears == 8

(* setUTCFullYear: the 29th of February of a common year is the 1st of     *)
(* March.                                                                  *)
YearsLater(t, n) ==
    LET u == t + 4 * n
    IN  IF Exists(u) THEN u ELSE u + 1

(* cron-parser: the runs of a rule after an instant, the end date  *)
(* included.                                                               *)
RunsWithin(r, after, end) ==
    {t \in after + 1..end : r \in Dates /\ t % 4 = DateNo[r] /\ Exists(t)}

(* The first run strictly after the instant, or none within the horizon.   *)
NextAfter(r, after) ==
    LET runs == RunsWithin(r, after, YearsLater(after, MaxSearchYears))
    IN  IF runs = {} THEN NoRun ELSE Min(runs)

----------------------------------------------------------------------------
(* Whoever calculates                                                      *)

Calculate(from, success, failure) ==
    /\ state = from
    /\ next' = NextAfter(rule, now)
    /\ state' = IF next' = NoRun THEN failure ELSE success
    /\ last' = IF next' = NoRun THEN last ELSE now
    /\ UNCHANGED <<now, rule>>

(* PUT /registration: a declaration with a rule that cannot be calculated  *)
(* is refused as a whole.                                                  *)
Register == Calculate("none", "registered", "refused") /\ UNCHANGED failed

(* The operator pauses; next_run_at is forgotten. *)
Pause ==
    /\ state = "registered"
    /\ state' = "paused" /\ next' = NoRun
    /\ UNCHANGED <<now, rule, failed, last>>

(* planResume: calculated again from the clock, or refused. *)
Resume == Calculate("paused", "registered", "paused") /\ UNCHANGED failed

(* materialize, materializeDue: the run that is due is written and the     *)
(* next calculated from the clock, so runs that were missed are skipped.   *)
Tick ==
    /\ state = "registered" /\ next <= now
    /\ LET following == NextAfter(rule, now)
       IN  IF following = NoRun
           THEN failed' = TRUE /\ UNCHANGED <<next, last>>
           ELSE next' = following /\ last' = now /\ UNCHANGED failed
    /\ UNCHANGED <<now, rule, state>>

(* Time passes; Ticks come, but late ones happen. *)
Elapse ==
    /\ YearOf(now) < LastYear
    /\ state = "registered" => now < next + Late
    /\ now' = IF Exists(now + 1) THEN now + 1 ELSE now + 2
    /\ UNCHANGED <<rule, state, next, failed, last>>

Init ==
    /\ now = Instant(FirstYear, "new year")
    /\ rule \in Rules
    /\ state = "none"
    /\ next = NoRun
    /\ failed = FALSE
    /\ last = NoRun

Next == Register \/ Pause \/ Resume \/ Tick \/ Elapse

Spec == Init /\ [][Next]_vars

----------------------------------------------------------------------------
(* Properties                                                              *)

(* A registered schedule, and no other, has a next run, later than the last *)
(* calculation.                                                            *)
TypeOK ==
    /\ Exists(now) /\ rule \in Rules
    /\ state \in {"none", "registered", "paused", "refused"}
    /\ (state = "registered") = (next # NoRun)
    /\ next # NoRun => Exists(next) /\ next > last

(* A rule that was accepted can be calculated by every later Tick, so the  *)
(* exception that would stop the others' messages never comes              *)
(* (CronCalculator.nextAfter in TriggerDeliveryRepository.materialize).    *)
AcceptedIsFound == ~failed

(* Only a rule that never runs is refused: the horizon spans the longest   *)
(* gap of the calendar, wherever it begins.                                *)
OnlyTheImpossibleIsRefused == state = "refused" => rule \notin Dates

(* Between the instant the next run was calculated and that run, the rule  *)
(* has no other: nothing is skipped but what a late Tick missed.           *)
NoRunBetween ==
    state = "registered" =>
        ~\E t \in last + 1..next - 1 :
            rule \in Dates /\ t % 4 = DateNo[rule] /\ Exists(t)
============================================================================
