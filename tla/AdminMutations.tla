--------------------------- MODULE AdminMutations ---------------------------
(***************************************************************************)
(* The audited switches of the console: dispatch paused or not, a Target   *)
(* enabled or not, the scheduler settings and the recorded check of a      *)
(* Target.  Every one of them is written by one D1 batch that also claims  *)
(* the Idempotency-Key of the request and writes an audit event            *)
(* (infrastructure/d1/idempotent-mutation.ts).                             *)
(***************************************************************************)
EXTENDS Integers, Sequences, FiniteSets

CONSTANTS Requests,    \* the HTTP requests ever made, each of them once
          Actors, Keys,
          Operations,  \* the routes that are called, of AllOperations
          Values,      \* settings the schema accepts
          Blanks,      \* bodies that parse as {}: none at all, {}, { }
          Actions,     \* what a Target may declare and describe
          NoRow        \* the Target is not in D1, or a table has no such row

VARIABLES state,       \* what the mutations change, per entity
          answers,     \* api_idempotency, per scope and key
          audit,       \* audit_events, oldest first
          declared, described,  \* the Target's Registration and its describe()
          req,         \* the requests
          deleted      \* history: identities whose stored answer was deleted

vars == <<state, answers, audit, declared, described, req, deleted>>

Entity == [pause |-> "dispatch", resume |-> "dispatch", enable |-> "target",
           disable |-> "target", settings |-> "settings", check |-> "check"]
AllOperations == DOMAIN Entity
Verdicts == {"compatible", "incompatible", "unreachable"}

Bodies == Values \cup Blanks
\* If-Match of a request; 0 when the header is missing or is no revision.
Revisions == 0..Cardinality(Requests)
Contents == {q \in [op : Operations, actor : Actors, key : Keys, body : Bodies, ifMatch : Revisions] :
                q.op # "settings" => q.ifMatch = 0}  \* only settings read the header

\* The scope of a key is the actor, the method and the path.
Identity(q) == <<q.actor, q.op, q.key>>
Identities == Actors \X Operations \X Keys

\* What an operation may answer: a revision, a verdict or a switch.
DataOf(op) == CASE op = "settings" -> 2..(Cardinality(Requests) + 1)
                [] op = "check"    -> Verdicts
                [] OTHER           -> BOOLEAN

\* There are the operations of the code; NoRow is no row and no value of one.
OperationsAssumption ==
    /\ Operations \subseteq AllOperations
    /\ IsFiniteSet(Requests)
    /\ \A op \in AllOperations :
          NoRow \notin DataOf(op) \cup [body : Bodies, data : DataOf(op), fresh : BOOLEAN]

Idle == [stage |-> "idle"]
Working(q, stage) ==
    [stage |-> stage, q |-> q, declared |-> {}, verdict |-> NoRow, error |-> NoRow]
\* A request that was answered: what it asked, and its status and data.
Answered(q, status, data) == [stage |-> "answered", q |-> q, status |-> status, data |-> data]

IsWorking(r) == req[r].stage \notin {"idle", "answered"}

Verdict(registered, remote) ==
    IF registered # {} /\ registered = remote THEN "compatible" ELSE "incompatible"
-----------------------------------------------------------------------------
Init ==
    /\ state \in [dispatch : {FALSE}, target : {NoRow, TRUE}, check : {NoRow},
                  settings : [value : Values, revision : {1}]]
    /\ answers = [i \in Identities |-> NoRow]
    /\ audit = << >>
    /\ declared \in SUBSET Actions
    /\ described \in SUBSET Actions
    /\ req = [r \in Requests |-> Idle]
    /\ deleted = {}

\* readStored: only an answer that has not expired is found.
Stored(q) == answers[Identity(q)] # NoRow /\ answers[Identity(q)].fresh

\* A stored answer is repeated for the same bytes, and for no others.
Replay(q) ==
    LET a == answers[Identity(q)]
    IN  IF a.body = q.body THEN Answered(q, "done", a.data)
        ELSE Answered(q, "key conflict", NoRow)

\* What createPlan refuses before any write: the body, and a missing If-Match.
IsValid(q) ==
    IF q.op = "settings" THEN q.ifMatch # 0 /\ q.body \in Values
    ELSE q.body \in Blanks

(***************************************************************************)
(* A request arrives, its key is looked up and, when it is new, its plan   *)
(* is made.  Only the plan of a check waits for something.                 *)
(***************************************************************************)
Arrive(r, q) ==
    /\ req[r] = Idle
    /\ req' = [req EXCEPT ![r] =
                  IF Stored(q) THEN Replay(q)
                  ELSE IF ~IsValid(q) THEN Answered(q, "invalid", NoRow)
                  ELSE Working(q, IF q.op = "check" THEN "catalog" ELSE "batch")]
    /\ UNCHANGED <<state, answers, audit, declared, described, deleted>>

\* The check reads the declared Actions, then asks the Target for its own.
ReadCatalog(r) ==
    /\ req[r].stage = "catalog"
    /\ req' = [req EXCEPT ![r].stage = "describe", ![r].declared = declared]
    /\ UNCHANGED <<state, answers, audit, declared, described, deleted>>

Describe(r) ==
    /\ req[r].stage = "describe"
    /\ \E v \in {"unreachable", Verdict(req[r].declared, described)} :
          req' = [req EXCEPT ![r].stage = "batch", ![r].declared = {}, ![r].verdict = v]
    /\ UNCHANGED <<state, answers, audit, declared, described, deleted>>
-----------------------------------------------------------------------------
\* The INSERT into api_idempotency needs the key, expired or not.
KeyIsFree(q) == answers[Identity(q)] = NoRow

RevisionMatches(q) == state.settings.revision = q.ifMatch

\* changes() = 1: the UPDATE of the plan met its row, and changes something.
Applies(q) ==
    CASE q.op = "pause"    -> ~state.dispatch
      [] q.op = "resume"   -> state.dispatch
      [] q.op = "enable"   -> state.target # NoRow /\ ~state.target
      [] q.op = "disable"  -> state.target # NoRow /\ state.target
      [] q.op = "settings" -> RevisionMatches(q)
      [] q.op = "check"    -> state.target # NoRow

NewValue(w) ==
    CASE w.q.op \in {"pause", "enable"}   -> TRUE
      [] w.q.op \in {"resume", "disable"} -> FALSE
      [] w.q.op = "settings" -> [value |-> w.q.body, revision |-> state.settings.revision + 1]
      [] w.q.op = "check"    -> w.verdict

\* The data of the answer, which is planned from the request alone.
Data(w) ==
    IF w.q.op = "settings" THEN w.q.ifMatch + 1 ELSE NewValue(w)

Commit(r) ==
    LET w == req[r]
        e == Entity[w.q.op]
    IN  /\ state' = IF Applies(w.q) THEN [state EXCEPT ![e] = NewValue(w)] ELSE state
        /\ answers' = [answers EXCEPT ![Identity(w.q)] =
                          [body |-> w.q.body, data |-> Data(w), fresh |-> TRUE]]
        /\ audit' = Append(audit, [by |-> r, entity |-> e,
                                   to |-> IF e = "settings" THEN w.q.body ELSE NewValue(w)])

MayCommit(q) == KeyIsFree(q) /\ Applies(q)

Batch(r) ==
    /\ req[r].stage = "batch"
    /\ MayCommit(req[r].q)
    /\ Commit(r)
    /\ \/ req' = [req EXCEPT ![r] = Answered(req[r].q, "done", Data(req[r]))]
       \/ req' = [req EXCEPT ![r].stage = "raced", ![r].error = "lost"]
    /\ UNCHANGED <<declared, described, deleted>>

\* Nothing is written: a constraint of the batch, or D1 did not take it.
BatchFails(r) ==
    /\ req[r].stage = "batch"
    /\ \E e \in {"lost"} \cup (IF MayCommit(req[r].q) THEN {} ELSE {"constraint"}) :
          req' = [req EXCEPT ![r].stage = "raced", ![r].error = e]
    /\ UNCHANGED <<state, answers, audit, declared, described, deleted>>

\* Mutant of AnswerRaced: the error is answered at once.
AnswerError(r) ==
    Answered(req[r].q, IF req[r].error = "constraint" THEN "conflict" ELSE "error", NoRow)

\* After an error the key is looked up again, for whoever took it.
AnswerRaced(r) ==
    IF Stored(req[r].q) THEN Replay(req[r].q)
    ELSE Answered(req[r].q, IF req[r].error = "constraint" THEN "conflict" ELSE "error", NoRow)

Reread(r) ==
    /\ req[r].stage = "raced"
    /\ req' = [req EXCEPT ![r] = AnswerRaced(r)]
    /\ UNCHANGED <<state, answers, audit, declared, described, deleted>>

\* The lookup fails too, and the request with it.
RereadFails(r) ==
    /\ req[r].stage = "raced"
    /\ req' = [req EXCEPT ![r] = Answered(req[r].q, "error", NoRow)]
    /\ UNCHANGED <<state, answers, audit, declared, described, deleted>>
-----------------------------------------------------------------------------
\* Seven days are over.  No request is under way for that long.
Expire(i) ==
    /\ answers[i] # NoRow /\ answers[i].fresh
    /\ \A r \in Requests : IsWorking(r) => Identity(req[r].q) # i
    /\ answers' = [answers EXCEPT ![i].fresh = FALSE]
    /\ UNCHANGED <<state, audit, declared, described, req, deleted>>

\* A Tick deletes expired answers, some time later.
Cleanup(i) ==
    /\ answers[i] # NoRow /\ ~answers[i].fresh
    /\ answers' = [answers EXCEPT ![i] = NoRow]
    /\ deleted' = deleted \cup {i}
    /\ UNCHANGED <<state, audit, declared, described, req>>

\* The generated seed: a new row is enabled, an existing one keeps its switch.
Seed ==
    /\ state.target = NoRow
    /\ state' = [state EXCEPT !.target = TRUE]
    /\ UNCHANGED <<answers, audit, declared, described, req, deleted>>

\* The website registers again, or is deployed with other Actions.
Redeclare ==
    /\ \E r \in Requests : IsWorking(r) /\ req[r].q.op = "check"
    /\ \/ declared' \in SUBSET Actions /\ UNCHANGED described
       \/ described' \in SUBSET Actions /\ UNCHANGED declared
    /\ UNCHANGED <<state, answers, audit, req, deleted>>

Next ==
    \/ \E r \in Requests :
          \/ \E q \in Contents : Arrive(r, q)
          \/ ReadCatalog(r) \/ Describe(r)
          \/ Batch(r) \/ BatchFails(r) \/ Reread(r) \/ RereadFails(r)
    \/ \E i \in Identities : Expire(i) \/ Cleanup(i)
    \/ Seed
    \/ Redeclare

Spec == Init /\ [][Next]_vars
-----------------------------------------------------------------------------
\* Only values the schemas accept reach the tables.
TypeOK ==
    /\ state.dispatch \in BOOLEAN
    /\ state.target = NoRow \/ state.target \in BOOLEAN
    /\ state.check = NoRow \/ state.check \in Verdicts
    /\ state.settings \in [value : Values, revision : 1..(Cardinality(Requests) + 1)]
    /\ \A i \in Identities : answers[i] # NoRow =>
          answers[i] \in [body : Bodies, data : DataOf(i[2]), fresh : BOOLEAN]
    /\ \A r \in Requests : req[r].stage \in {"idle", "catalog", "describe", "batch", "raced", "answered"}

\* The events of an entity, the number of one among them, and the last one.
EventsOn(e) == {i \in DOMAIN audit : audit[i].entity = e}
NumberOf(i) == Cardinality({j \in EventsOn(audit[i].entity) : j <= i})
IsLast(i) == \A j \in EventsOn(audit[i].entity) : j <= i
IsNextAfter(i, j) == i < j /\ \A k \in EventsOn(audit[i].entity) : k <= i \/ j <= k

(***************************************************************************)
(* The audit log tells the whole history of a switch: its events alternate *)
(* and the last one is the present value; a settings revision is the       *)
(* number of updates, and the last check recorded is the last one logged   *)
(* (idempotent-mutation.ts: the assertion on changes()).                   *)
(***************************************************************************)
StateIsAudited ==
    /\ \A e \in {"dispatch", "target", "check"} : \A i \in EventsOn(e) :
          IsLast(i) => state[e] = audit[i].to
    /\ \A e \in {"dispatch", "target"} : \A i, j \in EventsOn(e) :
          IsNextAfter(i, j) => audit[i].to # audit[j].to
    /\ state.settings.revision = Cardinality(EventsOn("settings")) + 1
    /\ \A i \in EventsOn("settings") : IsLast(i) => state.settings.value = audit[i].to

\* The event that a request's key has, or had, in the log.
Asked(i) == req[audit[i].by].q
EventsOf(q) == {i \in DOMAIN audit : Identity(Asked(i)) = Identity(q)}
Is(r, status) == req[r].stage = "answered" /\ req[r].status = status

(***************************************************************************)
(* A request that is told it succeeded has, under its actor, route and     *)
(* key, an effect in the log that was asked for with the same bytes, even  *)
(* when it was another request, a retry after a lost answer, that did it   *)
(* (test-plan.md R5-010: the same key returns the same result, another     *)
(* body is a conflict).                                                    *)
(***************************************************************************)
SuccessHasItsEffect ==
    \A r \in Requests : Is(r, "done") =>
       \E i \in EventsOf(req[r].q) :
          /\ Asked(i).body = req[r].q.body
          /\ IF req[r].q.op = "settings" THEN audit[i].to = req[r].q.body
             ELSE audit[i].to = req[r].data

(***************************************************************************)
(* The effect of a key happens once, however often and however             *)
(* concurrently the key is sent, as long as its answer is kept: a second   *)
(* effect needs the first answer to have been deleted.                     *)
(***************************************************************************)
OncePerKey ==
    \A r \in Requests : req[r] # Idle =>
       Cardinality(EventsOf(req[r].q)) <= 1 \/ Identity(req[r].q) \in deleted

(***************************************************************************)
(* Two operators who edit the settings they both read cannot both be told  *)
(* that they succeeded, unless it is one update sent twice: an update that *)
(* is answered with revision n is the one that made revision n             *)
(* (system-repository.ts planSettings).                                    *)
(***************************************************************************)
NoLostUpdate ==
    \A r \in Requests : Is(r, "done") /\ req[r].q.op = "settings" =>
       \E i \in EventsOn("settings") :
          /\ NumberOf(i) = req[r].data - 1
          /\ Identity(Asked(i)) = Identity(req[r].q)
          /\ Asked(i).body = req[r].q.body

(***************************************************************************)
(* "State has changed" is never the answer to a request whose key already  *)
(* has its effect and its kept answer, with the batch of a concurrent      *)
(* request or with its own whose answer was lost.                          *)
(***************************************************************************)
ConflictIsNoSuccess ==
    [][ \A r \in Requests : Is(r, "conflict")' /\ ~Is(r, "conflict") =>
           ~Stored(req[r].q) ]_vars
=============================================================================
