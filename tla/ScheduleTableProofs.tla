------------------------- MODULE ScheduleTableProofs -------------------------
(***************************************************************************)
(* Proofs about ScheduleTable, for every number of Ticks, registrations    *)
(* and operators, and every set of configurations and documents.           *)
(***************************************************************************)
EXTENDS ScheduleTable, TLAPS

USE BoundsAreNaturals

\* What a schedule declares is what its configuration says, until it retires.
DeclaredAsConfigured == ~row.retired => row.declaredEnabled = row.config.enabled

\* A resume whose revision is still the row's read the declaration the row has.
ResumesAgree ==
  \A o \in Operators : resume[o].pc = "planned" =>
    /\ resume[o].revision =< row.revision
    /\ resume[o].revision = row.revision =>
         (resume[o].nextRunAt # Unset <=> row.declaredEnabled)

\* A Tick whose revision is still the row's read the configuration the row has,
\* and it works with a time at which the occurrence was due.
TicksAgree ==
  \A t \in Ticks : tick[t].pc # "idle" =>
    /\ tick[t].revision =< row.revision
    /\ tick[t].revision = row.revision => tick[t].config = row.config
    /\ tick[t].nextRunAt =< tick[t].now /\ tick[t].now =< now

ScheduleInv ==
  /\ TypeOK /\ ArmedIffEnabled /\ EnabledIsDeclared
  /\ DeclaredAsConfigured /\ ResumesAgree /\ TicksAgree

-----------------------------------------------------------------------------
\* The next occurrence is later than the time it is computed from.
LEMMA NextAfterIsLater ==
  ASSUME NEW c \in Configs, NEW time \in Nat
  PROVE  NextAfter(c.period, time) \in Nat /\ NextAfter(c.period, time) > time
<1>1. c.period \in Nat \ {0}
  BY ConfigsAreWellFormed
<1>2. \A p \in Nat \ {0} : NextAfter(p, time) \in Nat /\ NextAfter(p, time) > time
  <2>1. SUFFICES ASSUME NEW p \in Nat \ {0}
                 PROVE  NextAfter(p, time) \in Nat /\ NextAfter(p, time) > time
    OBVIOUS
  <2>2. /\ time \div p \in Nat /\ time % p \in 0 .. (p - 1)
        /\ time = p * (time \div p) + (time % p)
    OBVIOUS
  <2>3. (time \div p + 1) * p = p * (time \div p) + p
    BY <2>2
  <2>4. p * (time \div p) \in Nat
    BY <2>2
  <2>. QED  BY <2>2, <2>3, <2>4 DEF NextAfter
<1>. QED  BY <1>1, <1>2

\* The values of the records that are not in use are well typed.
LEMMA DefaultsTyped ==
  /\ NoTick \in TickState /\ NoRegistration \in RegistrationState
  /\ NoResume \in ResumeState /\ NoDocument \in Documents
<1>1. NoDocument \in Documents /\ NoConfig \in Configs
  BY DocumentsAreWellFormed DEF NoDocument, NoConfig
<1>. QED
  BY <1>1 DEF NoTick, TickState, NoRegistration, RegistrationState, NoResume, ResumeState, Unset

\* The updates of the row that are typed by their new values.
LEMMA RowUpdated ==
  ASSUME row \in Row, NEW on \in BOOLEAN, NEW d \in BOOLEAN, NEW p \in BOOLEAN,
         NEW gone \in BOOLEAN, NEW at \in Nat, NEW n \in Nat
  PROVE  /\ [row EXCEPT !.enabled = on, !.nextRunAt = at, !.revision = n] \in Row
         /\ [row EXCEPT !.enabled = on, !.declaredEnabled = d, !.retired = gone,
                        !.nextRunAt = at, !.revision = n] \in Row
         /\ [row EXCEPT !.operatorPaused = p, !.enabled = on, !.nextRunAt = at,
                        !.revision = n] \in Row
BY DEF Row

\* The upsert arms the row exactly when it enables it, and a configuration that
\* stays under the same revision is the one the row had.
LEMMA UpsertedRow ==
  ASSUME ScheduleInv, NEW c \in Configs, NEW time \in Nat
  PROVE  LET new == Upserted(c, time)
         IN /\ new \in Row /\ ~new.retired
            /\ new.enabled <=> new.nextRunAt # Unset
            /\ new.enabled => new.declaredEnabled /\ ~new.operatorPaused
            /\ new.declaredEnabled = new.config.enabled
            /\ \/ new.revision = row.revision + 1
               \/ /\ new.revision = row.revision /\ new.config = row.config
                  /\ ~row.retired
<1>1. row \in Row /\ c.enabled \in BOOLEAN
  BY ConfigsAreWellFormed DEF ScheduleInv, TypeOK
<1>2. NextAfter(c.period, time) \in Nat \ {0}
  BY NextAfterIsLater
<1>3. NextRun(c, time) \in Nat
  BY <1>1, <1>2 DEF NextRun, Unset, Row
<1>4. c.enabled /\ ~row.operatorPaused <=> NextRun(c, time) # Unset
  BY <1>1, <1>2 DEF NextRun, Unset
<1>. DEFINE on == c.enabled /\ ~row.operatorPaused
            next == NextRun(c, time)
            new == Upserted(c, time)
<1>5. on \in BOOLEAN /\ (on <=> next # Unset)
  BY <1>1, <1>4
<1>6. new = [config |-> c, declaredEnabled |-> c.enabled,
             operatorPaused |-> row.operatorPaused, enabled |-> on, retired |-> FALSE,
             revision |-> IF Changed(c) THEN row.revision + 1 ELSE row.revision,
             nextRunAt |-> next]
  BY DEF Upserted
<1>. HIDE DEF on, next, new
<1>7. /\ new.config = c /\ new.declaredEnabled = c.enabled
      /\ new.operatorPaused = row.operatorPaused /\ new.enabled = on
      /\ new.retired = FALSE /\ new.nextRunAt = next
      /\ new.revision = IF Changed(c) THEN row.revision + 1 ELSE row.revision
  BY <1>6
<1>8. new \in Row
  BY <1>1, <1>3, <1>5, <1>6 DEF Row, next
<1>9. \/ new.revision = row.revision + 1
      \/ new.revision = row.revision /\ new.config = row.config /\ ~row.retired
  BY <1>7 DEF Changed
<1>10. new.enabled => new.declaredEnabled /\ ~new.operatorPaused
  BY <1>7 DEF on
<1>. QED  BY <1>5, <1>7, <1>8, <1>9, <1>10 DEF new

-----------------------------------------------------------------------------
LEMMA InitInv == Init => ScheduleInv
<1>1. SUFFICES ASSUME Init PROVE ScheduleInv
  OBVIOUS
<1>2. Declares[registered] \in Configs /\ registered \in Documents
  BY <1>1, DocumentsAreWellFormed DEF Init
<1>3. /\ Declares[registered].enabled \in BOOLEAN
      /\ NextAfter(Declares[registered].period, 0) \in Nat \ {0}
  BY <1>2, ConfigsAreWellFormed, NextAfterIsLater
<1>4. row \in Row /\ ArmedIffEnabled /\ EnabledIsDeclared /\ DeclaredAsConfigured
  BY <1>1, <1>2, <1>3
    DEF Init, Row, ArmedIffEnabled, EnabledIsDeclared, DeclaredAsConfigured, Unset
<1>5. TypeOK
  BY <1>1, <1>2, <1>4, DefaultsTyped DEF Init, TypeOK
<1>6. ResumesAgree /\ TicksAgree
  BY <1>1 DEF Init, ResumesAgree, TicksAgree, NoResume, NoTick
<1>. QED  BY <1>4, <1>5, <1>6 DEF ScheduleInv

\* A step that leaves the row alone, and forgets or keeps the plans.
LEMMA RowKept ==
  ASSUME ScheduleInv, row' = row, TypeOK', now' \in {now, now + 1},
         \A t \in Ticks : tick'[t] = tick[t] \/ tick'[t].pc = "idle",
         \A o \in Operators : resume'[o] = resume[o] \/ resume'[o].pc = "idle"
  PROVE  ScheduleInv'
<1>1. ArmedIffEnabled' /\ EnabledIsDeclared' /\ DeclaredAsConfigured'
  BY DEF ScheduleInv, ArmedIffEnabled, EnabledIsDeclared, DeclaredAsConfigured, Unset
<1>2. ResumesAgree'
  BY DEF ScheduleInv, ResumesAgree, Unset
<1>3. now \in Nat /\ \A t \in Ticks : tick[t].now \in Nat
  BY DEF ScheduleInv, TypeOK, TickState
<1>4. TicksAgree'
  BY <1>3 DEF ScheduleInv, TicksAgree
<1>. QED  BY <1>1, <1>2, <1>4 DEF ScheduleInv

\* A step that gives the row a new revision, or leaves under the old one what
\* the plans have read, and forgets or keeps the plans.
LEMMA RowChanged ==
  ASSUME ScheduleInv, TypeOK', now' = now,
         ArmedIffEnabled', EnabledIsDeclared', DeclaredAsConfigured',
         \/ row'.revision = row.revision + 1
         \/ /\ row'.revision = row.revision /\ row'.config = row.config
            /\ row'.declaredEnabled = row.declaredEnabled,
         \A t \in Ticks : tick'[t] = tick[t] \/ tick'[t].pc = "idle",
         \A o \in Operators : resume'[o] = resume[o] \/ resume'[o].pc = "idle"
  PROVE  ScheduleInv'
<1>1. /\ row.revision \in Nat
      /\ \A t \in Ticks : tick[t].revision \in Nat
      /\ \A o \in Operators : resume[o].revision \in Nat
  BY DEF ScheduleInv, TypeOK, Row, TickState, ResumeState
<1>2. ResumesAgree'
  BY <1>1 DEF ScheduleInv, ResumesAgree, Unset
<1>3. TicksAgree'
  BY <1>1 DEF ScheduleInv, TicksAgree
<1>. QED  BY <1>2, <1>3 DEF ScheduleInv

LEMMA ListDueInv ==
  ASSUME ScheduleInv, NEW t \in Ticks, ListDue(t) PROVE ScheduleInv'
<1>1. PICK time \in row.nextRunAt .. now :
        tick' = [tick EXCEPT ![t] = [pc |-> "listed", config |-> row.config,
                   revision |-> row.revision, nextRunAt |-> row.nextRunAt, now |-> time]]
  BY DEF ListDue
<1>2. row \in Row /\ time \in Nat /\ row.nextRunAt =< time /\ time =< now
  BY DEF ScheduleInv, TypeOK, Row
<1>3. TypeOK'
  BY <1>1, <1>2 DEF ListDue, ScheduleInv, TypeOK, Row, TickState
<1>4. TicksAgree'
  BY <1>1, <1>2 DEF ListDue, ScheduleInv, TypeOK, TicksAgree, Row
<1>. QED
  BY <1>3, <1>4 DEF ListDue, ScheduleInv, ArmedIffEnabled, EnabledIsDeclared,
                    DeclaredAsConfigured, ResumesAgree, Unset

LEMMA PrepareInv ==
  ASSUME ScheduleInv, NEW t \in Ticks, Prepare(t) PROVE ScheduleInv'
<1>1. PICK time \in {tick[t].now, now} :
        tick' = [tick EXCEPT ![t].pc = "prepared", ![t].now = time]
  BY DEF Prepare
<1>2. tick[t] \in TickState /\ tick[t].pc # "idle" /\ now \in Nat
  BY DEF Prepare, ScheduleInv, TypeOK
<1>3. time \in Nat /\ tick[t].nextRunAt =< time /\ time =< now
  BY <1>2 DEF ScheduleInv, TicksAgree, TickState
<1>4. tick' = [tick EXCEPT ![t] = [tick[t] EXCEPT !.pc = "prepared", !.now = time]]
  BY <1>1 DEF ScheduleInv, TypeOK
<1>5. TypeOK'
  BY <1>2, <1>3, <1>4 DEF Prepare, ScheduleInv, TypeOK, TickState
<1>6. TicksAgree'
  BY <1>2, <1>3, <1>4 DEF Prepare, ScheduleInv, TypeOK, TicksAgree, TickState
<1>. QED
  BY <1>5, <1>6 DEF Prepare, ScheduleInv, ArmedIffEnabled, EnabledIsDeclared,
                    DeclaredAsConfigured, ResumesAgree, Unset

\* A successful materialisation leaves everything of the row but its next run,
\* and that stays set.
LEMMA MaterializeInv ==
  ASSUME ScheduleInv, NEW t \in Ticks, Materialize(t) PROVE ScheduleInv'
<1>. DEFINE c == tick[t].config
            o == [at |-> tick[t].nextRunAt, config |-> c]
            next == NextAfter(c.period, tick[t].now)
<1>1. row \in Row /\ tick[t] \in TickState
  BY DEF ScheduleInv, TypeOK
<1>2. c \in Configs /\ next \in Nat \ {0} /\ o \in [at: Nat, config: Configs]
  BY <1>1, NextAfterIsLater DEF TickState
<1>3. tick' = [tick EXCEPT ![t] = NoTick] /\ NoTick.pc = "idle" /\ NoTick \in TickState
  BY DefaultsTyped DEF Materialize, NoTick
<1>4. \A u \in Ticks : tick'[u] = tick[u] \/ tick'[u].pc = "idle"
  BY <1>3 DEF ScheduleInv, TypeOK
<1>5. CASE row' = row /\ occurrences' = occurrences
  <2>1. TypeOK'
    BY <1>3, <1>5 DEF Materialize, ScheduleInv, TypeOK
  <2>. QED  BY <1>4, <1>5, <2>1, RowKept DEF Materialize
<1>6. CASE /\ row' = [row EXCEPT !.nextRunAt = next] /\ row.enabled
           /\ occurrences' = occurrences \cup {o}
  <2>. HIDE DEF next, o, c
  <2>1. TypeOK'
    BY <1>1, <1>2, <1>3, <1>6 DEF Materialize, ScheduleInv, TypeOK, Row
  <2>2. ArmedIffEnabled' /\ EnabledIsDeclared' /\ DeclaredAsConfigured'
    BY <1>1, <1>2, <1>6 DEF ScheduleInv, ArmedIffEnabled, EnabledIsDeclared,
                            DeclaredAsConfigured, Row, Unset
  <2>3. /\ row'.revision = row.revision /\ row'.config = row.config
        /\ row'.declaredEnabled = row.declaredEnabled
    BY <1>1, <1>6 DEF Row
  <2>. QED  BY <1>4, <2>1, <2>2, <2>3, RowChanged DEF Materialize
<1>. QED  BY <1>5, <1>6 DEF Materialize, Listed

LEMMA DisableInvalidInv ==
  ASSUME ScheduleInv, NEW t \in Ticks, DisableInvalid(t) PROVE ScheduleInv'
<1>1. row \in Row
  BY DEF ScheduleInv, TypeOK
<1>2. tick' = [tick EXCEPT ![t] = NoTick] /\ NoTick.pc = "idle" /\ NoTick \in TickState
  BY DefaultsTyped DEF DisableInvalid, NoTick
<1>3. \A u \in Ticks : tick'[u] = tick[u] \/ tick'[u].pc = "idle"
  BY <1>2 DEF ScheduleInv, TypeOK
<1>4. CASE row' = row
  <2>1. TypeOK'
    BY <1>2, <1>4 DEF DisableInvalid, ScheduleInv, TypeOK
  <2>. QED  BY <1>3, <1>4, <2>1, RowKept DEF DisableInvalid
<1>5. CASE row' = [row EXCEPT !.enabled = FALSE, !.nextRunAt = Unset,
                              !.revision = row.revision + 1]
  <2>1. row.revision + 1 \in Nat /\ Unset \in Nat /\ FALSE \in BOOLEAN
    BY <1>1 DEF Row, Unset
  <2>2. row' \in Row
    BY <1>1, <1>5, <2>1, RowUpdated
  <2>3. TypeOK'
    BY <1>2, <2>2 DEF DisableInvalid, ScheduleInv, TypeOK
  <2>4. ArmedIffEnabled' /\ EnabledIsDeclared' /\ DeclaredAsConfigured'
    BY <1>1, <1>5 DEF ScheduleInv, ArmedIffEnabled, EnabledIsDeclared,
                      DeclaredAsConfigured, Row, Unset
  <2>5. row'.revision = row.revision + 1
    BY <1>1, <1>5 DEF Row
  <2>. QED  BY <1>3, <2>3, <2>4, <2>5, RowChanged DEF DisableInvalid
<1>. QED  BY <1>4, <1>5 DEF DisableInvalid

\* A registration that begins or reads touches its own record only.
LEMMA PlanRegistrationInv ==
  ASSUME ScheduleInv, NEW r \in Registrars, NEW d \in Documents,
         BeginRegistration(r, d) \/ PlanRegistration(r)
  PROVE  ScheduleInv'
<1>1. now \in Nat /\ registration[r] \in RegistrationState /\ registered \in Documents
  BY DEF ScheduleInv, TypeOK
<1>2. registration' \in [Registrars -> RegistrationState]
  <2>1. CASE BeginRegistration(r, d)
    BY <1>1, <2>1, DefaultsTyped
      DEF BeginRegistration, ScheduleInv, TypeOK, RegistrationState
  <2>2. CASE PlanRegistration(r)
    BY <1>1, <2>2 DEF PlanRegistration, ScheduleInv, TypeOK, RegistrationState
  <2>. QED  BY <2>1, <2>2
<1>3. UNCHANGED <<now, dispatchPaused, row, registered, occurrences, tick, resume>>
  BY DEF BeginRegistration, PlanRegistration
<1>4. TypeOK'
  BY <1>2, <1>3 DEF ScheduleInv, TypeOK
<1>. QED  BY <1>3, <1>4, RowKept

\* A committed registration keeps, retires or upserts the row.
LEMMA CommitRegistrationInv ==
  ASSUME ScheduleInv, NEW r \in Registrars, CommitRegistration(r) PROVE ScheduleInv'
<1>. DEFINE d == registration[r].document
            time == registration[r].now
<1>1. row \in Row /\ registration[r] \in RegistrationState
  BY DEF ScheduleInv, TypeOK
<1>2. d \in Documents /\ time \in Nat
  BY <1>1 DEF RegistrationState
<1>3. /\ UNCHANGED <<now, dispatchPaused, occurrences, tick, resume>>
      /\ registration' = [registration EXCEPT ![r] = NoRegistration]
      /\ registered' \in {d, registered}
  BY DEF CommitRegistration
<1>4. ASSUME row' \in Row PROVE TypeOK'
  BY <1>2, <1>3, <1>4, DefaultsTyped DEF ScheduleInv, TypeOK
<1>5. \/ row' = row
      \/ row' = [row EXCEPT !.enabled = FALSE, !.declaredEnabled = FALSE, !.retired = TRUE,
                            !.nextRunAt = Unset, !.revision = row.revision + 1]
      \/ Declares[d] # Omitted /\ row' = Upserted(Declares[d], time)
  BY DEF CommitRegistration, Retired
<1>6. CASE row' = row
  BY <1>1, <1>3, <1>4, <1>6, RowKept
<1>7. CASE row' = [row EXCEPT !.enabled = FALSE, !.declaredEnabled = FALSE, !.retired = TRUE,
                              !.nextRunAt = Unset, !.revision = row.revision + 1]
  <2>1. row.revision + 1 \in Nat /\ Unset \in Nat /\ FALSE \in BOOLEAN /\ TRUE \in BOOLEAN
    BY <1>1 DEF Row, Unset
  <2>2. row' \in Row
    BY <1>1, <1>7, <2>1, RowUpdated
  <2>3. ArmedIffEnabled' /\ EnabledIsDeclared' /\ DeclaredAsConfigured'
    BY <1>1, <1>7 DEF ArmedIffEnabled, EnabledIsDeclared, DeclaredAsConfigured, Row, Unset
  <2>4. row'.revision = row.revision + 1
    BY <1>1, <1>7 DEF Row
  <2>. QED  BY <1>3, <1>4, <2>2, <2>3, <2>4, RowChanged
<1>8. CASE Declares[d] # Omitted /\ row' = Upserted(Declares[d], time)
  <2>1. Declares[d] \in Configs
    BY <1>2, <1>8, DocumentsAreWellFormed
  <2>. HIDE DEF d, time
  <2>2. /\ row' \in Row /\ ~row'.retired
        /\ row'.enabled <=> row'.nextRunAt # Unset
        /\ row'.enabled => row'.declaredEnabled /\ ~row'.operatorPaused
        /\ row'.declaredEnabled = row'.config.enabled
        /\ \/ row'.revision = row.revision + 1
           \/ row'.revision = row.revision /\ row'.config = row.config /\ ~row.retired
    BY <1>2, <1>8, <2>1, UpsertedRow
  <2>3. ArmedIffEnabled' /\ EnabledIsDeclared' /\ DeclaredAsConfigured'
    BY <2>2 DEF ArmedIffEnabled, EnabledIsDeclared, DeclaredAsConfigured, Unset
  <2>4. \/ row'.revision = row.revision + 1
        \/ /\ row'.revision = row.revision /\ row'.config = row.config
           /\ row'.declaredEnabled = row.declaredEnabled
    BY <2>2 DEF ScheduleInv, DeclaredAsConfigured
  <2>. QED  BY <1>3, <1>4, <2>2, <2>3, <2>4, RowChanged
<1>. QED  BY <1>5, <1>6, <1>7, <1>8

LEMMA PauseInv == ASSUME ScheduleInv, Pause PROVE ScheduleInv'
<1>1. row \in Row
  BY DEF ScheduleInv, TypeOK
<1>2. row' = [row EXCEPT !.operatorPaused = TRUE, !.enabled = FALSE,
                         !.nextRunAt = Unset, !.revision = row.revision + 1]
  BY DEF Pause
<1>3. row.revision + 1 \in Nat /\ Unset \in Nat /\ FALSE \in BOOLEAN /\ TRUE \in BOOLEAN
  BY <1>1 DEF Row, Unset
<1>4. row' \in Row
  BY <1>1, <1>2, <1>3, RowUpdated
<1>5. row' \in Row /\ row'.revision = row.revision + 1
  BY <1>1, <1>2, <1>4 DEF Row
<1>6. TypeOK'
  BY <1>5 DEF Pause, others, ScheduleInv, TypeOK
<1>7. ArmedIffEnabled' /\ EnabledIsDeclared' /\ DeclaredAsConfigured'
  BY <1>1, <1>2 DEF ScheduleInv, ArmedIffEnabled, EnabledIsDeclared,
                    DeclaredAsConfigured, Row, Unset
<1>. QED  BY <1>5, <1>6, <1>7, RowChanged DEF Pause, others

LEMMA PlanResumeInv ==
  ASSUME ScheduleInv, NEW o \in Operators, PlanResume(o) PROVE ScheduleInv'
<1>. DEFINE next == IF row.declaredEnabled THEN NextAfter(row.config.period, now) ELSE Unset
            plan == [pc |-> "planned", revision |-> row.revision, nextRunAt |-> next]
<1>1. row \in Row /\ now \in Nat
  BY DEF ScheduleInv, TypeOK
<1>2. next \in Nat /\ (next # Unset <=> row.declaredEnabled)
  BY <1>1, NextAfterIsLater DEF Row, Unset
<1>3. resume' = [resume EXCEPT ![o] = plan]
  BY DEF PlanResume
<1>. HIDE DEF next
<1>4. TypeOK'
  BY <1>1, <1>2, <1>3 DEF PlanResume, ScheduleInv, TypeOK, ResumeState, Row
<1>5. ResumesAgree'
  <2>1. SUFFICES ASSUME NEW p \in Operators, resume'[p].pc = "planned"
                 PROVE  /\ resume'[p].revision =< row.revision
                        /\ resume'[p].revision = row.revision =>
                             (resume'[p].nextRunAt # Unset <=> row.declaredEnabled)
    BY DEF PlanResume, ResumesAgree, Unset
  <2>2. CASE p = o
    BY <1>1, <1>2, <1>3, <2>2 DEF ScheduleInv, TypeOK, Row
  <2>3. CASE p # o
    BY <1>3, <2>1, <2>3 DEF ScheduleInv, TypeOK, ResumesAgree
  <2>. QED  BY <2>2, <2>3
<1>. QED
  BY <1>4, <1>5 DEF PlanResume, ScheduleInv, ArmedIffEnabled, EnabledIsDeclared,
                    DeclaredAsConfigured, TicksAgree, Unset

\* A resume that the row still accepts arms it as it is declared.
LEMMA CommitResumeInv ==
  ASSUME ScheduleInv, NEW o \in Operators, CommitResume(o) PROVE ScheduleInv'
<1>1. row \in Row /\ resume[o] \in ResumeState /\ resume[o].pc = "planned"
  BY DEF ScheduleInv, TypeOK, CommitResume
<1>2. resume' = [resume EXCEPT ![o] = NoResume] /\ NoResume.pc = "idle" /\ NoResume \in ResumeState
  BY DefaultsTyped DEF CommitResume, NoResume
<1>3. \A p \in Operators : resume'[p] = resume[p] \/ resume'[p].pc = "idle"
  BY <1>2 DEF ScheduleInv, TypeOK
<1>4. CASE row' = row
  <2>1. TypeOK'
    BY <1>2, <1>4 DEF CommitResume, ScheduleInv, TypeOK
  <2>. QED  BY <1>3, <1>4, <2>1, RowKept DEF CommitResume
<1>5. CASE /\ Resumable(o)
           /\ row' = [row EXCEPT !.operatorPaused = FALSE, !.enabled = row.declaredEnabled,
                        !.nextRunAt = resume[o].nextRunAt, !.revision = row.revision + 1]
  <2>1. /\ row.revision + 1 \in Nat /\ resume[o].nextRunAt \in Nat
        /\ row.declaredEnabled \in BOOLEAN /\ FALSE \in BOOLEAN
    BY <1>1 DEF Row, ResumeState
  <2>2. row' \in Row
    BY <1>1, <1>5, <2>1, RowUpdated
  <2>3. row' \in Row /\ row'.revision = row.revision + 1
    BY <1>1, <1>5, <2>2 DEF Row
  <2>4. TypeOK'
    BY <1>2, <2>3 DEF CommitResume, ScheduleInv, TypeOK
  <2>5. ~row.retired /\ (resume[o].nextRunAt # Unset <=> row.declaredEnabled)
    BY <1>1, <1>5 DEF Resumable, ScheduleInv, ResumesAgree
  <2>6. ArmedIffEnabled' /\ EnabledIsDeclared' /\ DeclaredAsConfigured'
    BY <1>1, <1>5, <2>5 DEF ScheduleInv, ArmedIffEnabled, EnabledIsDeclared,
                            DeclaredAsConfigured, Row, Unset
  <2>. QED  BY <1>3, <2>3, <2>4, <2>6, RowChanged DEF CommitResume
<1>. QED  BY <1>4, <1>5 DEF CommitResume

-----------------------------------------------------------------------------
LEMMA NextInv == ScheduleInv /\ [Next]_vars => ScheduleInv'
<1>. SUFFICES ASSUME ScheduleInv, [Next]_vars PROVE ScheduleInv'
  OBVIOUS
<1>1. ASSUME NEW t \in Ticks, EndTick(t) PROVE ScheduleInv'
  <2>1. tick' = [tick EXCEPT ![t] = NoTick] /\ NoTick.pc = "idle" /\ NoTick \in TickState
    BY <1>1, DefaultsTyped DEF EndTick, NoTick
  <2>2. /\ \A u \in Ticks : tick'[u] = tick[u] \/ tick'[u].pc = "idle"
        /\ TypeOK'
    BY <1>1, <2>1 DEF EndTick, ScheduleInv, TypeOK
  <2>. QED  BY <1>1, <2>2, RowKept DEF EndTick
<1>2. ASSUME NEW t \in Ticks, RunTick(t) PROVE ScheduleInv'
  BY <1>1, <1>2, ListDueInv, PrepareInv, MaterializeInv, DisableInvalidInv DEF RunTick
<1>3. ASSUME NEW r \in Registrars,
             \/ \E d \in Documents : BeginRegistration(r, d)
             \/ PlanRegistration(r) \/ CommitRegistration(r)
      PROVE ScheduleInv'
  <2>1. NoDocument \in Documents
    BY DefaultsTyped
  <2>. QED  BY <1>3, <2>1, PlanRegistrationInv, CommitRegistrationInv
<1>4. CASE SwitchDispatch
  <2>1. TypeOK'
    BY <1>4 DEF SwitchDispatch, others, ScheduleInv, TypeOK
  <2>. QED  BY <1>4, <2>1, RowKept DEF SwitchDispatch, others
<1>5. CASE AdvanceClock
  <2>1. TypeOK'
    BY <1>5 DEF AdvanceClock, others, ScheduleInv, TypeOK
  <2>. QED  BY <1>5, <2>1, RowKept DEF AdvanceClock, others
<1>6. CASE UNCHANGED vars
  <2>1. TypeOK'
    BY <1>6 DEF vars, others, ScheduleInv, TypeOK
  <2>. QED  BY <1>6, <2>1, RowKept DEF vars, others
<1>. QED
  BY <1>2, <1>3, <1>4, <1>5, <1>6, PauseInv, PlanResumeInv, CommitResumeInv DEF Next

\* The inductive invariant holds in every reachable state.
THEOREM ScheduleInvariant == Spec => []ScheduleInv
BY InitInv, NextInv, PTL DEF Spec

\* Every variable keeps its type.
THEOREM ScheduleTypeCorrect == Spec => []TypeOK
<1>1. ScheduleInv => TypeOK
  BY DEF ScheduleInv
<1>. QED  BY <1>1, ScheduleInvariant, PTL

\* However Ticks, registrations, pauses, resumes and disablings interleave, the
\* row satisfies the CHECK of its table that ties enabled to next_run_at.
THEOREM ArmedExactlyWhenEnabled == Spec => []ArmedIffEnabled
<1>1. ScheduleInv => ArmedIffEnabled
  BY DEF ScheduleInv
<1>. QED  BY <1>1, ScheduleInvariant, PTL

\* No interleaving enables a schedule that is undeclared, paused or retired.
THEOREM EnabledOnlyAsDeclared == Spec => []EnabledIsDeclared
<1>1. ScheduleInv => EnabledIsDeclared
  BY DEF ScheduleInv
<1>. QED  BY <1>1, ScheduleInvariant, PTL

\* Only a Tick's batch records an occurrence, and only while the row is the one
\* the Tick listed; its next run is computed from the Tick's time.
LEMMA OnlyMaterializeRecords ==
  ASSUME ScheduleInv, Next, occurrences' # occurrences
  PROVE  \E t \in Ticks :
           /\ tick[t].pc = "prepared" /\ Listed(t)
           /\ occurrences' =
                occurrences \cup {[at |-> tick[t].nextRunAt, config |-> tick[t].config]}
           /\ row' = [row EXCEPT !.nextRunAt = NextAfter(tick[t].config.period, tick[t].now)]
<1>1. PICK t \in Ticks : Materialize(t)
  BY DEF Next, RunTick, ListDue, Prepare, DisableInvalid, EndTick, BeginRegistration,
         PlanRegistration, CommitRegistration, Pause, PlanResume, CommitResume,
         SwitchDispatch, AdvanceClock
<1>. QED  BY <1>1 DEF Materialize

\* An occurrence is recorded for the configuration of that moment: a Tick's
\* snapshot is never older than the row its batch finds.
THEOREM SnapshotsAreCurrent == Spec => SnapshotIsCurrent
<1>1. ASSUME ScheduleInv, [Next]_vars
      PROVE  [\A o \in occurrences' \ occurrences : row.enabled /\ o.config = row.config]_vars
  <2>1. SUFFICES ASSUME Next, occurrences' # occurrences
                 PROVE  \A o \in occurrences' \ occurrences :
                          row.enabled /\ o.config = row.config
    BY <1>1
  <2>2. PICK t \in Ticks :
          /\ tick[t].pc = "prepared" /\ Listed(t)
          /\ occurrences' =
               occurrences \cup {[at |-> tick[t].nextRunAt, config |-> tick[t].config]}
    BY <1>1, <2>1, OnlyMaterializeRecords
  <2>3. row.enabled /\ tick[t].config = row.config
    BY <1>1, <2>2 DEF Listed, ScheduleInv, TicksAgree
  <2>. QED  BY <2>2, <2>3
<1>. QED  BY <1>1, ScheduleInvariant, PTL DEF Spec, SnapshotIsCurrent

\* Recording an occurrence always arms the schedule for a later one than the
\* recorded one, and than the time the Tick works with.
THEOREM NeverBackfills == Spec => NoBackfill
<1>1. ASSUME ScheduleInv, [Next]_vars
      PROVE  [occurrences' # occurrences =>
                /\ row'.nextRunAt > row.nextRunAt
                /\ \E t \in Ticks : tick[t].pc = "prepared" /\ row'.nextRunAt > tick[t].now]_vars
  <2>1. SUFFICES ASSUME Next, occurrences' # occurrences
                 PROVE  /\ row'.nextRunAt > row.nextRunAt
                        /\ \E t \in Ticks :
                             tick[t].pc = "prepared" /\ row'.nextRunAt > tick[t].now
    BY <1>1
  <2>2. PICK t \in Ticks :
          /\ tick[t].pc = "prepared" /\ Listed(t)
          /\ row' = [row EXCEPT !.nextRunAt = NextAfter(tick[t].config.period, tick[t].now)]
    BY <1>1, <2>1, OnlyMaterializeRecords
  <2>3. row \in Row /\ tick[t] \in TickState
    BY <1>1 DEF ScheduleInv, TypeOK
  <2>4. /\ tick[t].config \in Configs /\ tick[t].now \in Nat
        /\ tick[t].nextRunAt \in Nat
    BY <2>3 DEF TickState
  <2>5. /\ NextAfter(tick[t].config.period, tick[t].now) \in Nat
        /\ NextAfter(tick[t].config.period, tick[t].now) > tick[t].now
    BY <2>4, NextAfterIsLater
  <2>6. row.nextRunAt = tick[t].nextRunAt /\ tick[t].nextRunAt =< tick[t].now
    BY <1>1, <2>2 DEF Listed, ScheduleInv, TicksAgree
  <2>7. row'.nextRunAt = NextAfter(tick[t].config.period, tick[t].now)
    BY <2>2, <2>3 DEF Row
  <2>. QED  BY <2>2, <2>4, <2>5, <2>6, <2>7
<1>. QED  BY <1>1, ScheduleInvariant, PTL DEF Spec, NoBackfill
=============================================================================
