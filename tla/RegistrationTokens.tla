------------------------- MODULE RegistrationTokens -------------------------
(***************************************************************************)
(* The administrator's operations on registration tokens:                  *)
(* registration-token-repository.ts and api/routes/registration-tokens.ts. *)
(* The raw token is no random value: it is derived from a secret of the    *)
(* deployment, the route, the Idempotency-Key and the body, so that a      *)
(* repeated request shows it again; D1 keeps its hash.  Every read is a    *)
(* step of its own, and every batch asks again for what was read.          *)
(*                                                                         *)
(* An Idempotency-Key stands for the actor too, who is part of its scope.  *)
(* Labels, the audit row and last_used_at are left out.                    *)
(***************************************************************************)
EXTENDS Integers

CONSTANTS
  Tokens,       \* ids, crypto.randomUUID
  Targets,
  SyncedTargets,\* allowed by the manifest and synchronised to D1
  Lifetimes,    \* what a request may say of no_expire
  Keys,
  Requests,     \* bound: one member for each request ever made
  MaxSecret,    \* bound: how often ADMIN_PASSWORD_HASH is changed
  NoToken

ASSUME NoTokenIsNone == NoToken \notin Tokens
ASSUME SomeAreSynced == SyncedTargets \subseteq Targets
ASSUME KnownLifetimes == Lifetimes \subseteq {"days", "never", "inherit"}
ASSUME SecretsAreCounted == MaxSecret \in Nat \ {0}

VARIABLES
  row,     \* registration_tokens
  stored,  \* api_idempotency of these routes
  secret,  \* ADMIN_PASSWORD_HASH
  request

vars == <<row, stored, secret, request>>

-----------------------------------------------------------------------------
IssueBodies == [target: Targets, lifetime: Lifetimes \ {"inherit"}]
RotateBodies == [lifetime: Lifetimes]
RevokeBody == [lifetime |-> "none"]

Scopes == [op: {"issue"}, id: {NoToken}] \cup [op: {"rotate"}, id: Tokens]

\* deriveRegistrationToken: equal inputs give equal tokens, and no others do.
RawTokens == [scope: Scopes, key: Keys, body: IssueBodies \cup RotateBodies, secret: 1..MaxSecret]

NoRow == [target |-> "none"]
Rows == [target: Targets, raw: RawTokens, noExpire: BOOLEAN, expired: BOOLEAN, revoked: BOOLEAN,
         rotatedFrom: Tokens \cup {NoToken}, replacedBy: Tokens \cup {NoToken}]

NoAnswer == [kept |-> "none"]
Answers == {NoAnswer} \cup
  [kept: {"valid", "expired"}, body: IssueBodies \cup RotateBodies, id: Tokens]

Phases == {"idle", "begun", "look", "read", "apply", "failed", "done"}

\* `expired`: the token named had run out at the `now` of the request.
Request ==
  [phase: Phases, op: {"issue", "rotate", "revoke"}, id: Tokens \cup {NoToken}, key: Keys,
   body: IssueBodies \cup RotateBodies \cup {RevokeBody}, secret: 1..MaxSecret,
   expired: BOOLEAN, cause: {"none", "constraint", "malformed", "other"},
   answer: {"none", "ok", "invalid", "not_found", "not_active", "key_conflict", "error", "lost"},
   shown: Tokens \cup {NoToken}]

Idle == [phase |-> "idle"]

Init ==
  /\ row = [k \in Tokens |-> NoRow]
  /\ stored = [s \in Scopes |-> [i \in Keys |-> NoAnswer]]
  /\ secret = 1
  /\ request = [r \in Requests |-> Idle]

-----------------------------------------------------------------------------
Exists(k) == row[k] # NoRow
ScopeOf(r) == [op |-> request[r].op, id |-> request[r].id]
StoredFor(r) == stored[ScopeOf(r)][request[r].key]

\* The token this request derives.
RawOf(r) ==
  [scope |-> ScopeOf(r), key |-> request[r].key, body |-> request[r].body,
   secret |-> request[r].secret]

Goto(r, phase) == request' = [request EXCEPT ![r] = [@ EXCEPT !.phase = phase]]
Fail(r, cause) ==
  request' = [request EXCEPT ![r] = [@ EXCEPT !.phase = "failed", !.cause = cause]]
Finish(r, answer, k) ==
  request' = [request EXCEPT ![r] =
    [@ EXCEPT !.phase = "done", !.answer = answer, !.shown = k, !.expired = FALSE,
              !.cause = "none"]]
Answer(r, answer) == Finish(r, answer, NoToken)
Show(r, k) == Finish(r, "ok", k)

\* A request arrives and reads the clock; it may repeat an earlier one's key and body.
Begin(r) ==
  /\ request[r].phase = "idle"
  /\ \E i \in Keys :
       LET Arrive(op, k, body) ==
             request' = [request EXCEPT ![r] =
               [phase |-> "begun", op |-> op, id |-> k, key |-> i, body |-> body,
                secret |-> secret, expired |-> k # NoToken /\ Exists(k) /\ row[k].expired,
                cause |-> "none", answer |-> "none", shown |-> NoToken]]
       IN \/ \E body \in IssueBodies : Arrive("issue", NoToken, body)
          \/ \E body \in RotateBodies, k \in Tokens : Arrive("rotate", k, body)
          \/ \E k \in Tokens : Arrive("revoke", k, RevokeBody)
  /\ UNCHANGED <<row, stored, secret>>

\* issue looks for the Target first, revoke reads its token at once.
Admit(r) ==
  /\ request[r].phase = "begun"
  /\ CASE request[r].op = "issue" ->
            IF request[r].body.target \in SyncedTargets
            THEN Goto(r, "look") ELSE Answer(r, "invalid")
       [] request[r].op = "rotate" -> Goto(r, "look")
       [] request[r].op = "revoke" -> Goto(r, "read")
  /\ UNCHANGED <<row, stored, secret>>

\* replaySensitive, with the token derived anew
Replay(r) ==
  IF StoredFor(r).body = request[r].body THEN Show(r, StoredFor(r).id)
  ELSE Answer(r, "key_conflict")

\* prepareSensitiveIdempotency
FindStored(r) ==
  /\ request[r].phase = "look"
  /\ IF StoredFor(r).kept = "valid" THEN Replay(r)
     ELSE Goto(r, IF request[r].op = "issue" THEN "apply" ELSE "read")
  /\ UNCHANGED <<row, stored, secret>>

\* The predecessor, as rotate's read and its update ask for it.
\* Mutant: a token revoked since it was read is rotated.
WasRotatable(r) == Exists(request[r].id)
Rotatable(r) ==
  LET old == row[request[r].id]
  IN old # NoRow /\ ~old.revoked /\ old.replacedBy = NoToken /\ ~request[r].expired

ReadToken(r) ==
  /\ request[r].phase = "read"
  /\ IF ~Exists(request[r].id) THEN Answer(r, "not_found")
     ELSE IF request[r].op = "revoke"
     THEN IF row[request[r].id].revoked THEN Answer(r, "ok") ELSE Goto(r, "apply")
     ELSE IF row[request[r].id].revoked \/ row[request[r].id].replacedBy # NoToken
               \/ request[r].expired
     THEN Answer(r, "not_active") ELSE Goto(r, "apply")
  /\ UNCHANGED <<row, stored, secret>>

-----------------------------------------------------------------------------
(* The batches *)

KeyIsFree(r) == StoredFor(r).kept = "none"

\* token_hash UNIQUE
HashIsNew(r) == \A k \in Tokens : Exists(k) => row[k].raw # RawOf(r)

\* uq_registration_token_rotation
IsFirstSuccessor(r) == \A k \in Tokens : Exists(k) => row[k].rotatedFrom # request[r].id

NewRow(r, target, noExpire) ==
  [target |-> target, raw |-> RawOf(r), noExpire |-> noExpire, expired |-> FALSE,
   revoked |-> FALSE, rotatedFrom |-> request[r].id, replacedBy |-> NoToken]

Keep(r, k) ==
  stored' = [stored EXCEPT ![ScopeOf(r)] = [@ EXCEPT ![request[r].key] =
    [kept |-> "valid", body |-> request[r].body, id |-> k]]]

\* The batch commits; its acknowledgement may be lost.
Committed(r, k) == Show(r, k) \/ Fail(r, "other")

\* no_expire is inherited unless the body says otherwise.
NoExpire(lifetime, inherited) ==
  IF lifetime = "inherit" THEN inherited ELSE lifetime = "never"

Issue(r) ==
  /\ request[r].phase = "apply" /\ request[r].op = "issue"
  /\ KeyIsFree(r) /\ HashIsNew(r)
  /\ \E k \in Tokens :
       /\ ~Exists(k)
       /\ row' = [row EXCEPT ![k] =
            NewRow(r, request[r].body.target, NoExpire(request[r].body.lifetime, FALSE))]
       /\ Keep(r, k)
       /\ Committed(r, k)
  /\ UNCHANGED secret

Retired(old, k) == [old EXCEPT !.replacedBy = k, !.revoked = TRUE]

Rotate(r) ==
  /\ request[r].phase = "apply" /\ request[r].op = "rotate"
  /\ KeyIsFree(r) /\ HashIsNew(r) /\ IsFirstSuccessor(r) /\ Rotatable(r)
  /\ \E k \in Tokens :
       LET old == row[request[r].id]
           noExpire == NoExpire(request[r].body.lifetime, old.noExpire)
       IN /\ ~Exists(k)
          /\ row' = [row EXCEPT ![k] = NewRow(r, old.target, noExpire),
                                ![request[r].id] = Retired(old, k)]
          /\ Keep(r, k)
          /\ Committed(r, k)
  /\ UNCHANGED secret

Revoke(r) ==
  /\ request[r].phase = "apply" /\ request[r].op = "revoke"
  /\ ~row[request[r].id].revoked
  /\ row' = [row EXCEPT ![request[r].id] = [@ EXCEPT !.revoked = TRUE]]
  /\ Committed(r, NoToken)
  /\ UNCHANGED <<stored, secret>>

\* How the first statement that fails makes the batch fail.
BatchFailures(r) ==
  IF request[r].op = "revoke" THEN IF row[request[r].id].revoked THEN {"malformed"} ELSE {}
  ELSE IF ~KeyIsFree(r) \/ ~HashIsNew(r) THEN {"constraint"}
  ELSE IF request[r].op = "issue" THEN {}
  ELSE IF ~IsFirstSuccessor(r) THEN {"constraint"}
  ELSE IF ~Rotatable(r) THEN {"malformed"}
  ELSE {}

CommitFails(r) ==
  /\ request[r].phase = "apply"
  /\ \E cause \in BatchFailures(r) \cup {"other"} : Fail(r, cause)
  /\ UNCHANGED <<row, stored, secret>>

\* What rotate makes of a failed batch it finds no answer for.
\* Mutant: every failure is taken for a token that is not active.
AnyFailure(cause) == "not_active"
RotationFailure(cause) == IF cause = "other" THEN "error" ELSE "not_active"

\* The answer of a request that was faster, or of this one.
FindRaced(r) ==
  /\ request[r].phase = "failed"
  /\ IF request[r].op = "revoke"
     THEN Answer(r, IF request[r].cause = "malformed" /\ row[request[r].id].revoked
                    THEN "ok" ELSE "error")
     ELSE IF StoredFor(r).kept = "valid" THEN Replay(r)
     ELSE Answer(r, IF request[r].op = "issue" THEN "error"
                    ELSE RotationFailure(request[r].cause))
  /\ UNCHANGED <<row, stored, secret>>

\* The invocation dies, or a read throws.
Abandon(r) ==
  /\ request[r].phase \notin {"idle", "done"}
  /\ Answer(r, "lost")
  /\ UNCHANGED <<row, stored, secret>>

-----------------------------------------------------------------------------
Expire(k) ==
  /\ Exists(k) /\ ~row[k].noExpire /\ ~row[k].expired
  /\ row' = [row EXCEPT ![k] = [@ EXCEPT !.expired = TRUE]]
  /\ UNCHANGED <<stored, secret, request>>

\* A stored answer is kept for seven days, and deleted by a later Tick.
AnswerExpires(s, i) ==
  /\ stored[s][i].kept = "valid"
  /\ stored' = [stored EXCEPT ![s] = [@ EXCEPT ![i] = [stored[s][i] EXCEPT !.kept = "expired"]]]
  /\ UNCHANGED <<row, secret, request>>

CleanupAnswer(s, i) ==
  /\ stored[s][i].kept = "expired"
  /\ stored' = [stored EXCEPT ![s] = [@ EXCEPT ![i] = NoAnswer]]
  /\ UNCHANGED <<row, secret, request>>

\* The deployment gets another password.
ChangeSecret ==
  /\ secret < MaxSecret
  /\ secret' = secret + 1
  /\ UNCHANGED <<row, stored, request>>

Next ==
  \/ \E r \in Requests :
       \/ Begin(r) \/ Admit(r) \/ FindStored(r) \/ ReadToken(r)
       \/ Issue(r) \/ Rotate(r) \/ Revoke(r) \/ CommitFails(r) \/ FindRaced(r) \/ Abandon(r)
  \/ \E k \in Tokens : Expire(k)
  \/ \E s \in Scopes, i \in Keys : AnswerExpires(s, i) \/ CleanupAnswer(s, i)
  \/ ChangeSecret

Spec == Init /\ [][Next]_vars

-----------------------------------------------------------------------------
(* Properties *)

\* Tables and requests have the shape the schema and the code give them.
TypeOK ==
  /\ row \in [Tokens -> Rows \cup {NoRow}]
  /\ stored \in [Scopes -> [Keys -> Answers]]
  /\ secret \in 1..MaxSecret
  /\ request \in [Requests -> Request \cup {Idle}]

Status(k) ==
  IF ~Exists(k) THEN "unissued" ELSE IF row[k].revoked THEN "revoked"
  ELSE IF row[k].expired THEN "expired" ELSE "active"

Credentials == INSTANCE Credentials WITH
  token <- [k \in Tokens |-> Status(k)],
  heir <- [k \in Tokens |-> IF Exists(k) THEN row[k].replacedBy ELSE NoToken]

\* What Registration relies on: a revoked token never comes back and is never
\* replaced, and a rotation retires the old token in the step that creates the
\* new one (docs/self-registration.md, 23).
ImplementsCredentials == Credentials!Spec

\* A rotation links both tokens, has one successor, and retires the predecessor.
ChainsAreLinked ==
  \A k \in Tokens : Exists(k) =>
    /\ row[k].rotatedFrom # NoToken =>
         Exists(row[k].rotatedFrom) /\ row[row[k].rotatedFrom].replacedBy = k
    /\ row[k].replacedBy # NoToken =>
         /\ row[k].revoked
         /\ Exists(row[k].replacedBy) /\ row[row[k].replacedBy].rotatedFrom = k
         /\ row[row[k].replacedBy].target = row[k].target

\* No raw token belongs to two rows, though a key whose answer has been forgotten
\* derives the same one again: authenticate names one token or none.
RawTokensAreDistinct ==
  \A k, l \in Tokens : Exists(k) /\ Exists(l) /\ row[k].raw = row[l].raw => k = l

\* The token that an answer shows, a repeated one too, is the one whose hash is
\* kept, unless the deployment's secret has changed in between.
ShownTokenIsKept ==
  \A r \in Requests : request[r].phase = "done" /\ request[r].shown # NoToken =>
    LET kept == row[request[r].shown].raw
    IN kept.secret = request[r].secret => kept = RawOf(r)

\* "Not active" is said of no token that is active, and "revoked" only of one
\* that is.
AnswersAreTrue ==
  \A r \in Requests : request[r].phase = "done" =>
    /\ request[r].answer = "not_active" => Status(request[r].id) # "active"
    /\ request[r].op = "revoke" /\ request[r].answer = "ok" => row[request[r].id].revoked

\* The routes leave sound tokens: a rotation links both and retires the predecessor, a
\* raw token names one row, the token an answer shows works, also when the answer is
\* repeated or was forgotten, and "not active" and "revoked" are true.
TokensAreSound ==
  ChainsAreLinked /\ RawTokensAreDistinct /\ ShownTokenIsKept /\ AnswersAreTrue
=============================================================================
