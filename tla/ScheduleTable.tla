---------------------------- MODULE ScheduleTable ----------------------------
(***************************************************************************)
(* One row of the D1 table `schedules`, from registration to registration: *)
(* which occurrence it is armed for (next_run_at), which configuration it  *)
(* runs, and who rewrites it.  Four parties read it, compute, and commit   *)
(* later: Ticks that record due occurrences (as RPC executions or as queue *)
(* deliveries, both with the same two statements), the Target's            *)
(* registrations, operators who pause and resume, and the deployment whose *)
(* manifest drops the Target.                                              *)
(*                                                                         *)
(* Abstractions.  A configuration is compared by its hash, so it is a      *)
(* value; its cron expression is the period of its occurrences.  NULL in   *)
(* next_run_at is 0.  The recorded occurrences are kept for ever here: the *)
(* history is cleaned after two weeks at the earliest.                     *)
(***************************************************************************)
EXTENDS Integers

CONSTANTS
  Ticks,        \* Ticks running at the same time
  Registrars,   \* concurrent registration requests of the Target
  Operators,    \* concurrent resume requests
  Configs,      \* configurations of the schedule
  Documents,    \* registration documents (revision and hash)
  Omitted,      \* what a document declares that leaves the schedule out
  Declares,     \* the configuration each document declares
  MaxTime,      \* bound: the model's clock stops here
  MaxRevision   \* bound: requests that would go beyond it are not started

ASSUME ConfigsAreWellFormed ==
  \A c \in Configs : c.period \in Nat \ {0} /\ c.enabled \in BOOLEAN
ASSUME DocumentsAreWellFormed ==
  /\ Declares \in [Documents -> Configs \cup {Omitted}]
  /\ Omitted \notin Configs
  /\ \E d \in Documents : Declares[d] # Omitted
ASSUME BoundsAreNaturals == MaxTime \in Nat /\ MaxRevision \in Nat

VARIABLES
  now,            \* Date.now()
  dispatchPaused, \* platform_state.dispatch_paused
  row,            \* the schedules row
  registered,     \* the document in registrations
  occurrences,    \* what executions or trigger_deliveries hold of the schedule
  tick,           \* a Tick's due row and the time it works with
  registration,   \* a registration between its reads and its batch
  resume          \* a resume between its read and its statement

others == <<tick, registration, resume>>
vars == <<now, dispatchPaused, row, registered, occurrences, others>>

-----------------------------------------------------------------------------
Unset == 0

Row ==
  [config: Configs, declaredEnabled: BOOLEAN, operatorPaused: BOOLEAN,
   enabled: BOOLEAN, retired: BOOLEAN, revision: Nat, nextRunAt: Nat]
TickState ==
  [pc: {"idle", "listed", "prepared"}, config: Configs, revision: Nat,
   nextRunAt: Nat, now: Nat]
RegistrationState ==
  [pc: {"idle", "begun", "planned"}, document: Documents, current: Documents, now: Nat]
ResumeState == [pc: {"idle", "planned"}, revision: Nat, nextRunAt: Nat]

\* Mutant: an occurrence at the very time counts as the next one.
NextAtOrAfter(period, time) == ((time + period - 1) \div period) * period

\* CronCalculator.nextAfter: strictly later than the given time.
NextAfter(period, time) == (time \div period + 1) * period

\* Mutant: the deduplication key is the schedule's, without the time.
ConflictsAtAll(at) == occurrences # {}

\* ON CONFLICT: the unique key of an occurrence is (schedule, scheduled_for).
Conflicts(at) == \E o \in occurrences : o.at = at

NoDocument == CHOOSE d \in Documents : TRUE
NoConfig == CHOOSE c \in Configs : TRUE
NoTick == [pc |-> "idle", config |-> NoConfig, revision |-> 0, nextRunAt |-> Unset, now |-> 0]
NoRegistration == [pc |-> "idle", document |-> NoDocument, current |-> NoDocument, now |-> 0]
NoResume == [pc |-> "idle", revision |-> 0, nextRunAt |-> Unset]

\* The schedule as its first registration inserted it, at time 0.
Init ==
  /\ now = 0
  /\ dispatchPaused = FALSE
  /\ registered \in {d \in Documents : Declares[d] # Omitted}
  /\ LET c == Declares[registered]
     IN row = [config |-> c, declaredEnabled |-> c.enabled, operatorPaused |-> FALSE,
               enabled |-> c.enabled, retired |-> FALSE, revision |-> 1,
               nextRunAt |-> IF c.enabled THEN NextAfter(c.period, 0) ELSE Unset]
  /\ occurrences = {}
  /\ tick = [t \in Ticks |-> NoTick]
  /\ registration = [r \in Registrars |-> NoRegistration]
  /\ resume = [o \in Operators |-> NoResume]

-----------------------------------------------------------------------------
(* Ticks *)

\* listDue, or the SELECT of the delivery repository's materialize: the row is
\* due by a clock that was read before the statement ran.
ListDue(t) ==
  /\ tick[t].pc = "idle"
  /\ row.enabled /\ ~row.retired
  /\ \E time \in row.nextRunAt .. now :
       tick' = [tick EXCEPT ![t] = [pc |-> "listed", config |-> row.config,
                  revision |-> row.revision, nextRunAt |-> row.nextRunAt, now |-> time]]
  /\ UNCHANGED <<now, dispatchPaused, row, registered, occurrences, registration, resume>>

\* The Tick computes the following occurrence: of its clock read again (RPC),
\* or of the time it listed by (queue).
Prepare(t) ==
  /\ tick[t].pc = "listed"
  /\ \E time \in {tick[t].now, now} :
       tick' = [tick EXCEPT ![t].pc = "prepared", ![t].now = time]
  /\ UNCHANGED <<now, dispatchPaused, row, registered, occurrences, registration, resume>>

\* The row is still the one the Tick listed.
Listed(t) ==
  row.enabled /\ row.revision = tick[t].revision /\ row.nextRunAt = tick[t].nextRunAt

\* The batch: the INSERT, and the UPDATE that asks for what the INSERT made.
Materialize(t) ==
  /\ tick[t].pc = "prepared"
  /\ LET at == tick[t].nextRunAt
         c == tick[t].config
         inserts == Listed(t) /\ ~dispatchPaused /\ ~Conflicts(at)
     IN /\ occurrences' = IF inserts
                          THEN occurrences \cup {[at |-> at, config |-> c]}
                          ELSE occurrences
        /\ row' = IF inserts
                  THEN [row EXCEPT !.nextRunAt = NextAfter(c.period, tick[t].now)]
                  ELSE row
  /\ tick' = [tick EXCEPT ![t] = NoTick]
  /\ UNCHANGED <<now, dispatchPaused, registered, registration, resume>>

\* disableInvalidSchedule: the Target is no longer in the deployed manifest.
DisableInvalid(t) ==
  /\ tick[t].pc = "prepared"
  /\ row' = IF Listed(t)
            THEN [row EXCEPT !.enabled = FALSE, !.nextRunAt = Unset, !.revision = row.revision + 1]
            ELSE row
  /\ tick' = [tick EXCEPT ![t] = NoTick]
  /\ UNCHANGED <<now, dispatchPaused, registered, occurrences, registration, resume>>

\* The Tick ends or its isolate dies.
EndTick(t) ==
  /\ tick[t].pc # "idle"
  /\ tick' = [tick EXCEPT ![t] = NoTick]
  /\ UNCHANGED <<now, dispatchPaused, row, registered, occurrences, registration, resume>>

-----------------------------------------------------------------------------
(* RegistrationRepository.apply *)

\* Reads the clock ...
BeginRegistration(r, d) ==
  /\ registration[r].pc = "idle"
  /\ row.revision < MaxRevision
  /\ registration' = [registration EXCEPT ![r] =
       [pc |-> "begun", document |-> d, current |-> NoDocument, now |-> now]]
  /\ UNCHANGED <<now, dispatchPaused, row, registered, occurrences, tick, resume>>

\* ... and then the current registration.
PlanRegistration(r) ==
  /\ registration[r].pc = "begun"
  /\ registration' = [registration EXCEPT ![r].pc = "planned", ![r].current = registered]
  /\ UNCHANGED <<now, dispatchPaused, row, registered, occurrences, tick, resume>>

\* Mutant: only a schedule that comes back from retirement gets a new revision.
ChangedByRetirement(c) == row.retired

\* What makes the upsert count as a new configuration.
Changed(c) == row.retired \/ row.config # c

\* Mutant: an unchanged configuration keeps next_run_at, be it NULL.
NextRunKept(c, time) ==
  IF ~c.enabled \/ row.operatorPaused THEN Unset
  ELSE IF ~Changed(c) THEN row.nextRunAt ELSE NextAfter(c.period, time)

\* The CASE of the upsert's next_run_at.
NextRun(c, time) ==
  IF ~c.enabled \/ row.operatorPaused THEN Unset
  ELSE IF ~Changed(c) /\ row.nextRunAt # Unset THEN row.nextRunAt
  ELSE NextAfter(c.period, time)

\* Mutant: a registration enables what it declares, paused or not.
UpsertedOverPause(c, time) ==
  [config |-> c, declaredEnabled |-> c.enabled, operatorPaused |-> row.operatorPaused,
   enabled |-> c.enabled, retired |-> FALSE,
   revision |-> IF Changed(c) THEN row.revision + 1 ELSE row.revision,
   nextRunAt |-> NextRun(c, time)]

Upserted(c, time) ==
  [config |-> c, declaredEnabled |-> c.enabled, operatorPaused |-> row.operatorPaused,
   enabled |-> c.enabled /\ ~row.operatorPaused, retired |-> FALSE,
   revision |-> IF Changed(c) THEN row.revision + 1 ELSE row.revision,
   nextRunAt |-> NextRun(c, time)]

\* Mutant: retirement forgets the configuration.
RetiredAndForgotten ==
  [row EXCEPT !.config = Omitted, !.enabled = FALSE, !.declaredEnabled = FALSE,
              !.retired = TRUE, !.nextRunAt = Unset, !.revision = row.revision + 1]

Retired ==
  IF row.retired THEN row
  ELSE [row EXCEPT !.enabled = FALSE, !.declaredEnabled = FALSE, !.retired = TRUE,
                   !.nextRunAt = Unset, !.revision = row.revision + 1]

\* The batch.  Its guard on the registration it read makes it all or nothing;
\* the document that is current already only confirms itself.
CommitRegistration(r) ==
  /\ registration[r].pc = "planned"
  /\ LET d == registration[r].document
         applies == registered = registration[r].current /\ d # registered
     IN /\ registered' = IF applies THEN d ELSE registered
        /\ row' = IF ~applies THEN row
                  ELSE IF Declares[d] = Omitted THEN Retired
                  ELSE Upserted(Declares[d], registration[r].now)
  /\ registration' = [registration EXCEPT ![r] = NoRegistration]
  /\ UNCHANGED <<now, dispatchPaused, occurrences, tick, resume>>

-----------------------------------------------------------------------------
(* Operators: managed-schedule-repository.ts, system-repository.ts *)

Pause ==
  /\ ~row.retired /\ ~row.operatorPaused
  /\ row.revision < MaxRevision
  /\ row' = [row EXCEPT !.operatorPaused = TRUE, !.enabled = FALSE,
                        !.nextRunAt = Unset, !.revision = row.revision + 1]
  /\ UNCHANGED <<now, dispatchPaused, registered, occurrences, others>>

\* If-Match carries the revision the operator saw; an older one than the row's
\* would never match again.
PlanResume(o) ==
  /\ resume[o].pc = "idle"
  /\ ~row.retired
  /\ row.revision < MaxRevision
  /\ resume' = [resume EXCEPT ![o] =
       [pc |-> "planned", revision |-> row.revision,
        nextRunAt |-> IF row.declaredEnabled THEN NextAfter(row.config.period, now) ELSE Unset]]
  /\ UNCHANGED <<now, dispatchPaused, row, registered, occurrences, tick, registration>>

Resumable(o) ==
  row.operatorPaused /\ ~row.retired /\ row.revision = resume[o].revision

CommitResume(o) ==
  /\ resume[o].pc = "planned"
  /\ row' = IF Resumable(o)
            THEN [row EXCEPT !.operatorPaused = FALSE, !.enabled = row.declaredEnabled,
                    !.nextRunAt = resume[o].nextRunAt, !.revision = row.revision + 1]
            ELSE row
  /\ resume' = [resume EXCEPT ![o] = NoResume]
  /\ UNCHANGED <<now, dispatchPaused, registered, occurrences, tick, registration>>

SwitchDispatch ==
  /\ dispatchPaused' = ~dispatchPaused
  /\ UNCHANGED <<now, row, registered, occurrences, others>>

AdvanceClock ==
  /\ now < MaxTime
  /\ now' = now + 1
  /\ UNCHANGED <<dispatchPaused, row, registered, occurrences, others>>

-----------------------------------------------------------------------------
RunTick(t) == ListDue(t) \/ Prepare(t) \/ Materialize(t) \/ DisableInvalid(t) \/ EndTick(t)

Next ==
  \/ \E t \in Ticks : RunTick(t)
  \/ \E r \in Registrars :
       \/ \E d \in Documents : BeginRegistration(r, d)
       \/ PlanRegistration(r) \/ CommitRegistration(r)
  \/ Pause
  \/ \E o \in Operators : PlanResume(o) \/ CommitResume(o)
  \/ SwitchDispatch
  \/ AdvanceClock

Spec == Init /\ [][Next]_vars

\* A Tick comes every minute, and not every one of them dies before its batch.
Fairness ==
  \A t \in Ticks : SF_vars(ListDue(t)) /\ SF_vars(Prepare(t)) /\ SF_vars(Materialize(t))

FairSpec == Spec /\ Fairness
-----------------------------------------------------------------------------
(* Properties *)

\* Every variable has its type.
TypeOK ==
  /\ now \in Nat /\ dispatchPaused \in BOOLEAN
  /\ row \in Row /\ registered \in Documents
  /\ occurrences \subseteq [at: Nat, config: Configs]
  /\ tick \in [Ticks -> TickState]
  /\ registration \in [Registrars -> RegistrationState]
  /\ resume \in [Operators -> ResumeState]

\* The schedule is armed exactly while it is enabled, whichever registrations,
\* pauses, resumes and disablings interleave: no statement ever violates the
\* table's CHECK (which would fail the whole batch), and a paused or retired
\* schedule holds no occurrence that would fire late when it comes back.
ArmedIffEnabled == row.enabled <=> row.nextRunAt # Unset

\* Only what is declared, not paused and not retired is enabled.
EnabledIsDeclared ==
  row.enabled => row.declaredEnabled /\ ~row.operatorPaused /\ ~row.retired

\* An occurrence is recorded for the configuration the schedule has at that
\* moment, though the Tick read it earlier: every change of the configuration
\* shows in the revision or in next_run_at.
SnapshotIsCurrent ==
  [][\A o \in occurrences' \ occurrences : row.enabled /\ o.config = row.config]_vars

\* Downtime is not caught up minute by minute: recording an occurrence arms the
\* schedule for one that is later than the recorded one and than the time the
\* Tick read, so every other one that came due meanwhile is passed over.
NoBackfill ==
  [][occurrences' # occurrences =>
       /\ row'.nextRunAt > row.nextRunAt
       /\ \E t \in Ticks : tick[t].pc = "prepared" /\ row'.nextRunAt > tick[t].now]_vars

Recorded(time) == \E o \in occurrences : o.at = time

\* A due occurrence that was not recorded before gets recorded, or stops being
\* the schedule's next one, however often dispatch was paused and resumed
\* meanwhile, if it does not stay paused.
DueOccurrenceSettles ==
  <>[]~dispatchPaused =>
    \A time \in 1 .. MaxTime :
      (row.enabled /\ row.nextRunAt = time /\ time =< now /\ ~Recorded(time))
        ~> (Recorded(time) \/ row.nextRunAt # time)

\* docs/cron-semantics.md: editing a schedule computes its next run anew, in
\* the future of the actual clock; so no occurrence it is armed for can have
\* been recorded already.  apply uses the time it read before its batch, and
\* when a Tick has recorded the occurrence in between, the edit arms the
\* schedule for it again; its INSERT then conflicts for ever and next_run_at
\* never moves.  (Checked as a violation.)
ArmedOccurrenceIsNew == row.enabled => ~Recorded(row.nextRunAt)
=============================================================================
