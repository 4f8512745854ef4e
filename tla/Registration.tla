---------------------------- MODULE Registration ----------------------------
(***************************************************************************)
(* A Worker publishes its complete declaration with a registration token:  *)
(* api/routes/registration.ts and registration-repository.ts `apply`.  A   *)
(* request reads the token, the stored answer of its idempotency key, the  *)
(* current declaration, the history of revisions and the capacity, each in *)
(* a statement of its own, and commits one batch whose guards ask for all  *)
(* of it again.  When the batch fails it reads again to say why.           *)
(*                                                                         *)
(* The tokens are those of Credentials, whose steps interleave with the    *)
(* requests.  A body is a declaration in one serialisation; `content`      *)
(* stands for all of it but the revision.  What a declaration does to the  *)
(* schedules is in ScheduleTable; here it is their number.  last_used_at   *)
(* and the audit row are written and never read by a decision.             *)
(***************************************************************************)
EXTENDS Integers, FiniteSetsExt, Credentials

CONSTANTS
  Targets,
  TokenTarget,   \* target_id of each token
  Revisions, Contents,
  SizeOf,        \* schedules that each content declares
  Unsafe,        \* <<target, content>>: Queue mode without idempotency
  Forms,         \* serialisations of one declaration
  Keys,          \* Idempotency-Key
  Capacities,    \* values of max_schedules
  Requests,      \* requests in flight at a time
  NoDeclaration

ASSUME TargetsAreFinite == IsFiniteSet(Targets)
ASSUME TokensHaveTargets == TokenTarget \in [Tokens -> Targets]
ASSUME SizesAreNumbers == SizeOf \in [Contents -> Nat]
ASSUME CapacitiesAreNumbers == Capacities \subseteq Nat \ {0}

VARIABLES
  capacity,   \* scheduler_settings.max_schedules
  registered, \* registrations
  revisions,  \* registration_revisions, as the declarations bound per target
  stored,     \* api_idempotency of the registration scope
  request

vars == <<credentials, capacity, registered, revisions, stored, request>>
tables == <<capacity, registered, revisions, stored>>

-----------------------------------------------------------------------------
Declarations == [revision: Revisions, content: Contents]
Bodies == [revision: Revisions, content: Contents, form: Forms]

ASSUME NoDeclarationIsNone == NoDeclaration \notin Declarations

\* documentHash: serialisation and order do not count.
\* Mutant: the body is hashed as it came.
AsSerialised(body) == body
Canonical(body) == [revision |-> body.revision, content |-> body.content]

Succeeded == {"applied", "unchanged"}
Refused == {"revision_conflict", "limit", "invalid_token", "concurrent",
            "key_conflict", "invalid", "error"}

\* A stored answer: the request it belongs to, and whether its 7 days are over.
NoAnswer == [kept |-> "none"]
Answers == {NoAnswer} \cup [kept: {"valid", "expired"}, body: Bodies, answer: Succeeded]

Phases ==
  {"idle", "authenticated", "started", "current", "history", "read", "noop", "apply",
   "failed", "blame revision", "blame token", "blame capacity", "done"}

\* `fresh`: the token had not expired at `now`; `first`: the answer is not a replay.
Request ==
  [phase: Phases, token: Tokens, key: Keys, body: Bodies, fresh: BOOLEAN,
   current: Declarations \cup {NoDeclaration}, others: Nat,
   cause: {"none", "key", "malformed", "limit", "other"},
   answer: Succeeded \cup Refused \cup {"none", "lost"}, first: BOOLEAN]

Idle == [phase |-> "idle"]

Init ==
  /\ InitCredentials
  /\ capacity \in Capacities
  /\ registered = [t \in Targets |-> NoDeclaration]
  /\ revisions = [t \in Targets |-> {}]
  /\ stored = [k \in Tokens |-> [i \in Keys |-> NoAnswer]]
  /\ request = [r \in Requests |-> Idle]

-----------------------------------------------------------------------------
TargetOf(r) == TokenTarget[request[r].token]
DeclarationOf(r) == Canonical(request[r].body)
StoredFor(r) == stored[request[r].token][request[r].key]

Goto(r, phase) == request' = [request EXCEPT ![r] = [@ EXCEPT !.phase = phase]]
Fail(r, cause) ==
  request' = [request EXCEPT ![r] = [@ EXCEPT !.phase = "failed", !.cause = cause]]
Finish(r, answer, first) ==
  request' = [request EXCEPT ![r] =
    [@ EXCEPT !.phase = "done", !.answer = answer, !.first = first, !.current = NoDeclaration,
              !.others = 0, !.fresh = FALSE, !.cause = "none"]]
Answer(r, answer) == Finish(r, answer, TRUE)

\* The route: authenticate.  Anyone may send any declaration, again or anew.
Authenticate(r) ==
  /\ request[r].phase \in {"idle", "done"}
  /\ \E k \in Tokens, i \in Keys, body \in Bodies :
       LET sent == [phase |-> "authenticated", token |-> k, key |-> i, body |-> body,
                    fresh |-> FALSE, current |-> NoDeclaration, others |-> 0, cause |-> "none",
                    answer |-> "none", first |-> TRUE]
       IN /\ token[k] # "unissued"
          /\ request' = [request EXCEPT ![r] =
               IF token[k] = "active" THEN sent
               ELSE [sent EXCEPT !.phase = "done", !.answer = "invalid_token"]]
  /\ UNCHANGED <<credentials, tables>>

\* replayIdempotency
Replayed(r) ==
  IF StoredFor(r).body = request[r].body THEN StoredFor(r).answer ELSE "key_conflict"

\* apply begins: it fixes `now` and looks for a stored answer.
Start(r) ==
  /\ request[r].phase = "authenticated"
  /\ IF <<TargetOf(r), request[r].body.content>> \in Unsafe THEN Answer(r, "invalid")
     ELSE IF StoredFor(r).kept = "valid" THEN Finish(r, Replayed(r), FALSE)
     ELSE request' = [request EXCEPT ![r] =
            [@ EXCEPT !.phase = "started", !.fresh = (token[request[r].token] = "active")]]
  /\ UNCHANGED <<credentials, tables>>

SizeOfDeclaration(d) == IF d = NoDeclaration THEN 0 ELSE SizeOf[d.content]
Others(t) == MapThenSumSet(LAMBDA u : SizeOfDeclaration(registered[u]), Targets \ {t})
Exceeds(t, d) == Others(t) + SizeOfDeclaration(d) > capacity

\* Promise.all, in either order: the current declaration and the number of other
\* schedules in one step, the history in another.
ReadCurrent(r) ==
  /\ request[r].phase \in {"started", "history"}
  /\ request' = [request EXCEPT ![r] =
       [@ EXCEPT !.current = registered[TargetOf(r)], !.others = Others(TargetOf(r)),
                 !.phase = IF request[r].phase = "history" THEN "read" ELSE "current"]]
  /\ UNCHANGED <<credentials, tables>>

\* The revision is bound to another declaration.
Conflicts(t, d) == \E e \in revisions[t] : e.revision = d.revision /\ e # d

ReadHistory(r) ==
  /\ request[r].phase \in {"started", "current"}
  /\ IF Conflicts(TargetOf(r), DeclarationOf(r)) THEN Answer(r, "revision_conflict")
     ELSE Goto(r, IF request[r].phase = "current" THEN "read" ELSE "history")
  /\ UNCHANGED <<credentials, tables>>

\* The settings are read after the count, and before the question of a repeat.
CheckCapacity(r) ==
  /\ request[r].phase = "read"
  /\ IF request[r].others + SizeOfDeclaration(DeclarationOf(r)) > capacity
     THEN Answer(r, "limit")
     ELSE Goto(r, IF request[r].current = DeclarationOf(r) THEN "noop" ELSE "apply")
  /\ UNCHANGED <<credentials, tables>>

-----------------------------------------------------------------------------
(* The batch *)

\* PRIMARY KEY (scope, key): an expired answer still holds its place.
KeyIsFree(r) == StoredFor(r).kept = "none"

\* activeTokenGuard, with the `now` of the request.
TokenIsActive(r) == token[request[r].token] # "revoked" /\ request[r].fresh

\* revisionGuardStatements
\* Mutant: the history is only read before the batch.
RevisionWasBound(t, d) == TRUE
RevisionIsBound(t, d) == ~Conflicts(t, d)

\* registration_guard: changes() = 1 after the insert or the update.
\* Mutant: the update does not ask what it replaces.
NothingIsCurrent(r) == TRUE
CurrentIsUnchanged(r) == registered[TargetOf(r)] = request[r].current

\* The trigger, and the capacity guard at the end of the batch.
Fits(t, d) == ~Exceeds(t, d)

\* How the first statement that fails makes the batch fail.  A declaration that
\* does not fit fails by the trigger when it adds rows, else by the last guard.
BatchFailures(r) ==
  IF ~KeyIsFree(r) THEN {"key"}
  ELSE IF ~TokenIsActive(r) \/ ~RevisionIsBound(TargetOf(r), DeclarationOf(r))
            \/ ~CurrentIsUnchanged(r) THEN {"malformed"}
  ELSE IF request[r].phase = "apply" /\ ~Fits(TargetOf(r), DeclarationOf(r))
       THEN {"limit", "malformed"}
  ELSE {}

\* apply's batch and confirmNoopRegistration's: they differ in what they write,
\* and the no-op does not ask for capacity.
Commit(r) ==
  /\ request[r].phase \in {"noop", "apply"}
  /\ BatchFailures(r) = {}
  /\ LET t == TargetOf(r)
         answer == IF request[r].phase = "noop" THEN "unchanged" ELSE "applied"
     IN /\ registered' = [registered EXCEPT ![t] = DeclarationOf(r)]
        /\ revisions' = [revisions EXCEPT ![t] = @ \cup {DeclarationOf(r)}]
        /\ stored' = [stored EXCEPT ![request[r].token] = [@ EXCEPT ![request[r].key] =
             [kept |-> "valid", body |-> request[r].body, answer |-> answer]]]
        /\ Answer(r, answer) \/ Fail(r, "other")
  /\ UNCHANGED <<credentials, capacity>>

\* The batch is refused, or never reaches D1.
CommitFails(r) ==
  /\ request[r].phase \in {"noop", "apply"}
  /\ \E cause \in BatchFailures(r) \cup {"other"} : Fail(r, cause)
  /\ UNCHANGED <<credentials, tables>>

\* The stored answer of a request with the same key, or of this one.
FindRaced(r) ==
  /\ request[r].phase = "failed"
  /\ IF StoredFor(r).kept = "valid"
     THEN Finish(r, Replayed(r), FALSE)
     ELSE CASE request[r].cause = "limit" -> Answer(r, "limit")
            [] request[r].cause = "malformed" -> Goto(r, "blame revision")
            [] OTHER -> Answer(r, "error")
  /\ UNCHANGED <<credentials, tables>>

\* rethrowRegistrationError, one read at a time.
BlameRevision(r) ==
  /\ request[r].phase = "blame revision"
  /\ IF Conflicts(TargetOf(r), DeclarationOf(r)) THEN Answer(r, "revision_conflict")
     ELSE Goto(r, "blame token")
  /\ UNCHANGED <<credentials, tables>>

BlameToken(r) ==
  /\ request[r].phase = "blame token"
  /\ IF ~TokenIsActive(r) THEN Answer(r, "invalid_token") ELSE Goto(r, "blame capacity")
  /\ UNCHANGED <<credentials, tables>>

\* A no-op does not give the number of schedules and skips the question.
BlameCapacity(r) ==
  /\ request[r].phase = "blame capacity"
  /\ IF request[r].current # DeclarationOf(r) /\ Exceeds(TargetOf(r), DeclarationOf(r))
     THEN Answer(r, "limit") ELSE Answer(r, "concurrent")
  /\ UNCHANGED <<credentials, tables>>

\* The invocation dies, or a read throws; the SDK sees no answer it knows.
Abandon(r) ==
  /\ request[r].phase \notin {"idle", "done"}
  /\ Answer(r, "lost")
  /\ UNCHANGED <<credentials, tables>>

-----------------------------------------------------------------------------
\* Also a rotation from one Target to another, which never happens: a revocation
\* and an issue in one step.
ManageTokens == Manage /\ UNCHANGED <<tables, request>>

SetCapacity ==
  /\ capacity' \in Capacities
  /\ UNCHANGED <<credentials, registered, revisions, stored, request>>

\* The seven days of a stored answer are over.
AnswerExpires(k, i) ==
  /\ stored[k][i].kept = "valid"
  /\ stored' = [stored EXCEPT ![k] = [@ EXCEPT ![i] = [stored[k][i] EXCEPT !.kept = "expired"]]]
  /\ UNCHANGED <<credentials, capacity, registered, revisions, request>>

\* cleanupHistory of a Tick
CleanupAnswer(k, i) ==
  /\ stored[k][i].kept = "expired"
  /\ stored' = [stored EXCEPT ![k] = [@ EXCEPT ![i] = NoAnswer]]
  /\ UNCHANGED <<credentials, capacity, registered, revisions, request>>

Next ==
  \/ \E r \in Requests :
       \/ Authenticate(r) \/ Start(r) \/ ReadCurrent(r) \/ ReadHistory(r) \/ CheckCapacity(r)
       \/ Commit(r) \/ CommitFails(r) \/ FindRaced(r)
       \/ BlameRevision(r) \/ BlameToken(r) \/ BlameCapacity(r) \/ Abandon(r)
  \/ \E k \in Tokens, i \in Keys : AnswerExpires(k, i) \/ CleanupAnswer(k, i)
  \/ ManageTokens \/ SetCapacity

RegistrationSpec == Init /\ [][Next]_vars

-----------------------------------------------------------------------------
(* Properties *)

\* Tables and requests have the shape the schema and the code give them.
TypeOK ==
  /\ token \in [Tokens -> Statuses]
  /\ heir \in [Tokens -> Tokens \cup {NoToken}]
  /\ capacity \in Capacities
  /\ registered \in [Targets -> Declarations \cup {NoDeclaration}]
  /\ revisions \in [Targets -> SUBSET Declarations]
  /\ stored \in [Tokens -> [Keys -> Answers]]
  /\ request \in [Requests -> Request \cup {Idle}]

\* The current declaration, bound revisions and capacity, as the contract has them.
Declared == INSTANCE DeclaredState WITH
  current <- registered, bound <- revisions,
  ScheduleCount <- SizeOfDeclaration, Revision <- LAMBDA d : d.revision

\* Declarations are replaced as a whole, a revision keeps the declaration first
\* seen under it, and what is published fits the capacity, however requests of
\* one Target or of several interleave (docs/architecture.md, 10 to 14).
ImplementsDeclaredState == Declared!Spec

FirstHandSuccess(r) ==
  /\ request[r].phase # "done" /\ request'[r].phase = "done"
  /\ request'[r].answer \in Succeeded /\ request'[r].first

\* A request told "applied" or "unchanged" leaves its declaration the current
\* one, and replaced no other than the one it had read.
SuccessIsCurrent ==
  [][\A r \in Requests : FirstHandSuccess(r) =>
       /\ registered'[TargetOf(r)] = DeclarationOf(r)
       /\ registered[TargetOf(r)] = request[r].current]_vars

\* A token that was revoked or rotated while its request was under way publishes
\* nothing (activeTokenGuard).
RevokedTokenPublishesNothing ==
  [][\A r \in Requests : FirstHandSuccess(r) => token[request[r].token] # "revoked"]_vars

\* Two requests with one key never both publish while the first answer is kept.
OncePerKey ==
  [][\A r \in Requests : FirstHandSuccess(r) => StoredFor(r).kept # "valid"]_vars

\* Why a request was refused is true: its revision is bound to another
\* declaration, or its token is no longer active (rethrowRegistrationError).
RefusalIsTrue ==
  \A r \in Requests : request[r].phase = "done" =>
    /\ request[r].answer = "revision_conflict" => Conflicts(TargetOf(r), DeclarationOf(r))
    /\ request[r].answer = "invalid_token" => token[request[r].token] # "active"

\* Whoever is told of a success has earned it, and whoever is refused hears the
\* reason: what was applied is current and replaced only what had been read, under a
\* token that was still active and a key no other request had used; a revision or a
\* token is blamed only when it is to blame.
OutcomesAreTrue ==
  /\ []RefusalIsTrue
  /\ SuccessIsCurrent
  /\ RevokedTokenPublishesNothing
  /\ OncePerKey

\* "Repeating the same revision and body is a no-op" (docs/self-registration.md:45):
\* the current declaration is never refused for its size.
RepeatIsNoop ==
  [][\A r \in Requests :
       request[r].phase # "done" /\ request'[r].phase = "done" /\ request'[r].answer = "limit"
         => registered[TargetOf(r)] # DeclarationOf(r)]_vars
=============================================================================
