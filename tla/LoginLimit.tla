----------------------------- MODULE LoginLimit -----------------------------
(***************************************************************************)
(* The throttle of the administrator's login for one source                *)
(* (admin-login-limit-repository.ts, routes/auth.ts).  A login reads the   *)
(* limit, verifies the password and writes the limit in three steps that   *)
(* other logins of the source run between.                                 *)
(***************************************************************************)
EXTENDS Integers, Sequences, FiniteSets

CONSTANTS Logins,            \* the logins ever made, each of them once
          Window, Block,     \* WINDOW_MS and BLOCK_MS, in steps of the clock
          MaxFailures,       \* MAX_FAILURES
          MaxTime,           \* bound of the clock
          NoRow, NoBlock     \* no row of the source; blocked_until IS NULL

LimitRows == [failed : Nat \ {0}, since : 0..MaxTime, until : 0..(MaxTime + Block) \cup {NoBlock}]

\* A block outlasts its window: both are a quarter of an hour.
LimitAssumption ==
    /\ {Window, Block, MaxFailures} \subseteq Nat \ {0}
    /\ Window <= Block
    /\ MaxTime \in Nat
    /\ NoRow \notin LimitRows /\ NoBlock \notin Nat

VARIABLES now,
          limit,    \* the source's row of admin_login_limits
          login,    \* what each login knows
          log       \* history: the times of the failures since the last success

vars == <<now, limit, login, log>>

Stages == {"new", "verify", "wrong", "right", "failed", "refused", "session", "done"}

Init ==
    /\ now = 0
    /\ limit = NoRow
    /\ login = [l \in Logins |-> [stage |-> "new", at |-> 0]]
    /\ log = << >>

Goto(l, stage) == login' = [login EXCEPT ![l].stage = stage]

\* A login that is answered, and no failure.
Over(stage) == [stage |-> stage, at |-> 0]
Answer(l, stage) == login' = [login EXCEPT ![l] = Over(stage)]
-----------------------------------------------------------------------------
\* Mutant of IsBlocked: the length of the block is ignored.
IsBlockedForGood == limit # NoRow /\ limit.until # NoBlock

IsBlocked == limit # NoRow /\ limit.until # NoBlock /\ limit.until > now

\* requireAllowed: a blocked source is told to come back later.
Arrive(l) ==
    /\ login[l].stage = "new"
    /\ login' = [login EXCEPT ![l] = IF IsBlocked THEN Over("refused")
                                     ELSE [stage |-> "verify", at |-> now]]
    /\ UNCHANGED <<now, limit, log>>

\* The PBKDF2 derivation takes its time and does not touch D1.
Verify(l) ==
    /\ login[l].stage = "verify"
    /\ \E answer \in {"wrong", "right"} : Goto(l, answer)
    /\ UNCHANGED <<now, limit, log>>

\* A failure opens a window or counts in the one that is open.
FailuresNow == IF limit = NoRow \/ limit.since <= now - Window THEN 1 ELSE limit.failed + 1

WindowNow == IF limit = NoRow \/ limit.since <= now - Window THEN now ELSE limit.since

BlockedFrom(failures) == failures >= MaxFailures

BlockEnd == now + Block

\* recordFailure: one upsert, the clock read after the verification.
RecordFailure(l) ==
    /\ login[l].stage = "wrong"
    /\ limit' = [failed |-> FailuresNow, since |-> WindowNow,
                 until |-> IF BlockedFrom(FailuresNow) THEN BlockEnd ELSE NoBlock]
    /\ log' = Append(log, now)
    /\ Goto(l, "failed")
    /\ UNCHANGED now

\* clear: a right password deletes the row of the source.
Clear(l) ==
    /\ login[l].stage = "right"
    /\ limit' = NoRow
    /\ log' = << >>
    /\ Goto(l, "session")
    /\ UNCHANGED now

CreateSession(l) ==
    /\ login[l].stage = "session"
    /\ Answer(l, "done")
    /\ UNCHANGED <<now, limit, log>>

\* The invocation or its statement fails; the login is answered with an error.
Fail(l) ==
    /\ login[l].stage \in {"verify", "wrong", "right", "session"}
    /\ Answer(l, "done")
    /\ UNCHANGED <<now, limit, log>>

PassTime ==
    /\ now < MaxTime
    /\ now' = now + 1
    /\ UNCHANGED <<limit, login, log>>

\* cleanupHistory: the window began a day ago, which is after any block.
IsOver == limit.since <= now - Window - Block /\ (limit.until # NoBlock => limit.until <= now)

Cleanup ==
    /\ limit # NoRow /\ IsOver
    /\ limit' = NoRow
    /\ UNCHANGED <<now, login, log>>

Next ==
    \/ \E l \in Logins : \/ Arrive(l) \/ Verify(l) \/ RecordFailure(l)
                         \/ Clear(l) \/ CreateSession(l) \/ Fail(l)
    \/ PassTime
    \/ Cleanup

Spec == Init /\ [][Next]_vars
-----------------------------------------------------------------------------
\* A block is never announced for longer than BLOCK_MS from now on.
TypeOK ==
    /\ now \in 0..MaxTime
    /\ limit = NoRow \/ limit \in LimitRows
    /\ limit # NoRow /\ limit.until # NoBlock => limit.until <= now + Block
    /\ \A l \in Logins : login[l].stage \in Stages /\ login[l].at \in 0..now

Recorded(times) == {i \in 1..Len(log) : log[i] \in times}

(***************************************************************************)
(* The count of a window is the number of wrong passwords recorded in it:  *)
(* two failures that were let in together are both counted                 *)
(* (admin-login-limit-repository.ts recordFailure).                        *)
(***************************************************************************)
CountIsExact ==
    limit # NoRow => limit.failed = Cardinality(Recorded(limit.since..now))

(***************************************************************************)
(* A source is refused only after MAX_FAILURES wrong passwords of one      *)
(* window since its last success, and for BLOCK_MS after the last of them. *)
(***************************************************************************)
RefusedForAReason ==
    [][ \A l \in Logins : login[l].stage # "refused" /\ login'[l].stage = "refused" =>
          /\ log[Len(log)] > now - Block
          /\ Cardinality(Recorded((log[Len(log)] - Window + 1)..now)) >= MaxFailures ]_vars

(***************************************************************************)
(* However many logins run at once, one window counts at most the          *)
(* MAX_FAILURES - 1 that leave a source open and those that were let in    *)
(* before it was blocked; so logins that do not overlap are at most        *)
(* MAX_FAILURES.                                                           *)
(***************************************************************************)
OverlapOnly ==
    limit # NoRow /\ limit.failed > MaxFailures =>
       \E T \in SUBSET Logins :
          /\ Cardinality(T) = limit.failed - MaxFailures + 1
          /\ \A l \in T : login[l].stage = "failed" /\ login[l].at <= log[MaxFailures + Len(log) - limit.failed]
=============================================================================
