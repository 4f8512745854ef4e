------------------------ MODULE AdminMutationsProofs ------------------------
(***************************************************************************)
(* Proofs about AdminMutations, for any number of requests, actors, keys   *)
(* and bodies.  A request makes one event at most; the events tell the     *)
(* history of the state, and every answer, stored or given, is that of an  *)
(* event with the same identity and body.                                  *)
(***************************************************************************)
EXTENDS AdminMutations, TLAPS, FiniteSetTheorems

-----------------------------------------------------------------------------
(* The inductive invariant *)

Entities == {"dispatch", "target", "settings", "check"}
Replies == BOOLEAN \cup Verdicts \cup Nat \cup {NoRow}

\* What an event may tell of an entity.
ToOf(e) == CASE e = "settings" -> Values
             [] e = "check"    -> Verdicts
             [] OTHER          -> BOOLEAN
Event == [by : Requests, entity : Entities, to : Values \cup Verdicts \cup BOOLEAN]

WorkingRows ==
  [stage : {"catalog", "describe", "batch", "raced"}, q : Contents, declared : SUBSET Actions,
   verdict : Verdicts \cup {NoRow}, error : {NoRow, "lost", "constraint"}]
AnsweredRows ==
  [stage : {"answered"}, q : Contents, data : Replies,
   status : {"done", "key conflict", "invalid", "conflict", "error"}]

Typed ==
  /\ state \in [dispatch : BOOLEAN, target : BOOLEAN \cup {NoRow}, check : Verdicts \cup {NoRow},
                settings : [value : Values, revision : 1..(Cardinality(Requests) + 1)]]
  /\ answers = [i \in Identities |-> answers[i]]
  /\ \A i \in Identities : answers[i] # NoRow =>
       answers[i] \in [body : Bodies, data : DataOf(i[2]), fresh : BOOLEAN]
  /\ audit \in Seq(Event)
  /\ declared \in SUBSET Actions
  /\ req \in [Requests -> {Idle} \cup WorkingRows \cup AnsweredRows]

\* A request under way was found valid, and a check has its verdict by the batch.
PlanIsMade(w) ==
  w.stage \notin {"idle", "answered"} =>
    /\ IsValid(w.q)
    /\ w.stage \in {"batch", "raced"} /\ w.q.op = "check" => w.verdict \in Verdicts

\* A request is named by one event at most, which it has left behind.
EventIsMade(i) ==
  /\ req[audit[i].by].stage \in {"raced", "answered"}
  /\ audit[i].entity = Entity[Asked(i).op]
  /\ audit[i].to \in ToOf(audit[i].entity)
EventsAreMade ==
  /\ \A i \in DOMAIN audit : EventIsMade(i)
  /\ \A i, j \in DOMAIN audit : audit[i].by = audit[j].by => i = j

\* Some event was asked for with this identity and body, and answered with data.
IsEventOf(i, id, body, data) ==
  /\ Identity(Asked(i)) = id /\ Asked(i).body = body
  /\ IF id[2] = "settings" THEN audit[i].to = body /\ data = NumberOf(i) + 1
                           ELSE audit[i].to = data
HasEvent(id, body, data) == \E i \in DOMAIN audit : IsEventOf(i, id, body, data)
AnswersHaveEvents ==
  /\ \A id \in Identities : answers[id] # NoRow => HasEvent(id, answers[id].body, answers[id].data)
  /\ \A r \in Requests : Is(r, "done") => HasEvent(Identity(req[r].q), req[r].q.body, req[r].data)

\* A kept answer stands for the one event of its identity.
KeyIsOnce(id) ==
  /\ \A i, j \in DOMAIN audit : Identity(Asked(i)) = id /\ Identity(Asked(j)) = id => i = j
  /\ \A i \in DOMAIN audit : Identity(Asked(i)) = id => answers[id] # NoRow
KeysAreOnce == \A id \in Identities \ deleted : KeyIsOnce(id)

Requested == \A r \in Requests : PlanIsMade(req[r])
AdminInv ==
  Typed /\ Requested /\ EventsAreMade /\ AnswersHaveEvents /\ KeysAreOnce /\ StateIsAudited

-----------------------------------------------------------------------------
(* Counting events *)

\* Events that requests make one each are no more than the requests.
LEMMA EventsAreFew ==
  ASSUME IsFiniteSet(Requests), NEW log \in Seq(Event),
         \A i, j \in DOMAIN log : log[i].by = log[j].by => i = j,
         NEW S \in SUBSET DOMAIN log
  PROVE  IsFiniteSet(S) /\ Cardinality(S) \in Nat /\ Cardinality(S) <= Cardinality(Requests)
<1>. DEFINE f == [i \in S |-> log[i].by]
<1>1. \A i \in S : log[i] \in Event
  OBVIOUS
<1>2. f \in [S -> Requests]
  BY <1>1 DEF Event
<1>3. f \in Injection(S, Requests)
  BY <1>2 DEF Injection, IsInjective
<1>. HIDE DEF f
<1>4. IsFiniteSet(S) /\ Cardinality(S) <= Cardinality(Requests)
  BY <1>3, FS_Injection, Zenon
<1>. QED  BY <1>4, FS_CardinalityType

\* Looking back at an event, a longer log shows the same.
LEMMA LogGrows ==
  ASSUME NEW e \in Event, audit \in Seq(Event), audit' = Append(audit, e)
  PROVE  /\ audit' \in Seq(Event) /\ DOMAIN audit' = DOMAIN audit \cup {Len(audit) + 1}
         /\ Len(audit) + 1 \notin DOMAIN audit
         /\ \A i \in DOMAIN audit : audit'[i] = audit[i] /\ NumberOf(i)' = NumberOf(i)
         /\ audit'[Len(audit) + 1] = e
         /\ \A n \in Entities : EventsOn(n)' = EventsOn(n)
                                  \cup (IF n = e.entity THEN {Len(audit) + 1} ELSE {})
<1>1. /\ audit' \in Seq(Event) /\ DOMAIN audit' = DOMAIN audit \cup {Len(audit) + 1}
      /\ Len(audit) + 1 \notin DOMAIN audit /\ audit'[Len(audit) + 1] = e
      /\ \A i \in DOMAIN audit : audit'[i] = audit[i]
      /\ DOMAIN audit = 1..Len(audit) /\ Len(audit) \in Nat
  OBVIOUS
<1>2. \A n \in Entities : EventsOn(n)' = EventsOn(n)
                             \cup (IF n = e.entity THEN {Len(audit) + 1} ELSE {})
  BY <1>1 DEF EventsOn
<1>3. ASSUME NEW i \in DOMAIN audit PROVE NumberOf(i)' = NumberOf(i)
  <2>1. audit'[i].entity = audit[i].entity
    BY <1>1
  <2>2. {j \in EventsOn(audit[i].entity)' : j <= i} = {j \in EventsOn(audit[i].entity) : j <= i}
    BY <1>1, <1>3 DEF EventsOn
  <2>. QED  BY <2>1, <2>2 DEF NumberOf, EventsOn
<1>. QED  BY <1>1, <1>2, <1>3

-----------------------------------------------------------------------------
(* Facts about requests and events *)

LEMMA CountIsNat ==
  ASSUME OperationsAssumption
  PROVE  Cardinality(Requests) \in Nat
BY FS_CardinalityType DEF OperationsAssumption

\* Rows are told apart by their stage.
LEMMA Rows ==
  /\ Idle.stage = "idle"
  /\ \A w \in WorkingRows : w.stage \in {"catalog", "describe", "batch", "raced"} /\ w.q \in Contents
  /\ \A w \in AnsweredRows : w.stage = "answered" /\ w.q \in Contents
BY DEF Idle, WorkingRows, AnsweredRows

\* What was asked, by a request that has left an event.
LEMMA AskedIsContents ==
  ASSUME Typed, EventsAreMade, NEW i \in DOMAIN audit
  PROVE  audit[i].by \in Requests /\ Asked(i) \in Contents /\ audit[i].entity \in Entities
<1>1. audit[i] \in Event
  BY DEF Typed
<1>2. audit[i].by \in Requests /\ audit[i].entity \in Entities
  BY <1>1 DEF Event
<1>3. req[audit[i].by] \in {Idle} \cup WorkingRows \cup AnsweredRows
  BY <1>2 DEF Typed
<1>4. req[audit[i].by].stage \in {"raced", "answered"}
  BY Zenon DEF EventsAreMade, EventIsMade
<1>. QED  BY <1>2, <1>3, <1>4, Rows DEF Asked

LEMMA IdentityIsOne ==
  ASSUME NEW q \in Contents
  PROVE  /\ Identity(q) \in Identities /\ Identity(q)[2] = q.op
         /\ q.body \in Bodies /\ q.op \in Operations /\ q.ifMatch \in Revisions
BY DEF Contents, Identity, Identities

\* An identity and a body may have an event, whatever else happens to requests.
LEMMA RequestMoves ==
  ASSUME OperationsAssumption, AdminInv, NEW r \in Requests, NEW w \in WorkingRows \cup AnsweredRows,
         req' = [req EXCEPT ![r] = w], UNCHANGED <<state, answers, audit, declared, deleted>>,
         req[r].stage # "idle" => w.q = req[r].q,
         req[r].stage \in {"raced", "answered"} => w.stage \in {"raced", "answered"},
         PlanIsMade(w),
         w.stage = "answered" /\ w.status = "done" => HasEvent(Identity(w.q), w.q.body, w.data)
  PROVE  AdminInv'
<1>. USE DEF AdminInv
<1>1. /\ req \in [Requests -> {Idle} \cup WorkingRows \cup AnsweredRows]
      /\ req' \in [Requests -> {Idle} \cup WorkingRows \cup AnsweredRows]
      /\ req'[r] = w /\ \A x \in Requests \ {r} : req'[x] = req[x]
  BY DEF Typed
<1>2. \A i \in DOMAIN audit : Asked(i)' = Asked(i) /\ EventIsMade(i)'
  <2>. SUFFICES ASSUME NEW i \in DOMAIN audit PROVE Asked(i)' = Asked(i) /\ EventIsMade(i)'
    OBVIOUS
  <2>1. EventIsMade(i) /\ audit[i].by \in Requests
    BY AskedIsContents, Zenon DEF EventsAreMade
  <2>2. req[audit[i].by].stage \in {"raced", "answered"}
    BY <2>1 DEF EventIsMade
  <2>3. req'[audit[i].by].q = req[audit[i].by].q /\ req'[audit[i].by].stage \in {"raced", "answered"}
    BY <2>1, <2>2, <1>1
  <2>. QED  BY <2>1, <2>2, <2>3 DEF EventIsMade, Asked
<1>3. Typed'
  BY <1>1 DEF Typed
<1>4. Requested'
  BY <1>1 DEF Requested
<1>5. EventsAreMade'
  BY <1>2 DEF EventsAreMade
<1>6. ASSUME NEW id, NEW body, NEW d, HasEvent(id, body, d) PROVE HasEvent(id, body, d)'
  <2>1. PICK i \in DOMAIN audit : IsEventOf(i, id, body, d)
    BY <1>6 DEF HasEvent
  <2>2. NumberOf(i)' = NumberOf(i)
    BY DEF NumberOf, EventsOn
  <2>3. IsEventOf(i, id, body, d)'
    BY <2>1, <2>2, <1>2 DEF IsEventOf
  <2>. QED  BY <2>3 DEF HasEvent
<1>7. AnswersHaveEvents'
  <2>1. \A id \in Identities : answers'[id] # NoRow => HasEvent(id, answers[id].body, answers[id].data)'
    BY <1>6 DEF AnswersHaveEvents
  <2>2. ASSUME NEW x \in Requests, Is(x, "done")'
        PROVE  HasEvent(Identity(req[x].q), req[x].q.body, req[x].data)'
    <3>. PICK z : z = req'[x]
      OBVIOUS
    <3>1. z.stage = "answered" /\ z.status = "done"
      BY <2>2 DEF Is
    <3>2. HasEvent(Identity(z.q), z.q.body, z.data)
      BY <3>1, <1>1 DEF Is, AnswersHaveEvents
    <3>3. HasEvent(Identity(z.q), z.q.body, z.data)'
      BY <3>2, <1>6
    <3>. QED  BY <3>3
  <2>. QED  BY <2>1, <2>2 DEF AnswersHaveEvents
<1>8. KeysAreOnce'
  BY <1>2 DEF KeysAreOnce, KeyIsOnce
<1>9. StateIsAudited'
  BY DEF StateIsAudited, EventsOn, IsLast, IsNextAfter
<1>. QED  BY <1>3, <1>4, <1>5, <1>7, <1>8, <1>9

-----------------------------------------------------------------------------
(* The steps that change one request *)

LEMMA DataIsReply ==
  ASSUME OperationsAssumption, NEW op \in Operations
  PROVE  DataOf(op) \subseteq Replies
<1>1. 2..(Cardinality(Requests) + 1) \subseteq Nat
  BY CountIsNat
<1>. QED  BY <1>1 DEF DataOf, Replies

\* An answer that is no success needs no event.
LEMMA PlainAnswer ==
  ASSUME NEW q \in Contents, NEW w, NEW s,
         s \in {"key conflict", "invalid", "conflict", "error"}, w = Answered(q, s, NoRow)
  PROVE  w \in AnsweredRows /\ w.q = q /\ w.stage = "answered" /\ w.status # "done"
BY DEF Answered, AnsweredRows, Replies

\* A stored answer was found: its event is that of the request too, or their bodies differ.
LEMMA ReplayIsEarned ==
  ASSUME OperationsAssumption, AdminInv, NEW q \in Contents, Stored(q)
  PROVE  /\ Replay(q) \in AnsweredRows /\ Replay(q).q = q
         /\ Replay(q).status = "done" => HasEvent(Identity(q), q.body, Replay(q).data)
<1>. DEFINE a == answers[Identity(q)]
<1>1. a # NoRow /\ Identity(q) \in Identities /\ Identity(q)[2] = q.op /\ q.op \in Operations
  BY IdentityIsOne DEF Stored
<1>2. a.data \in Replies
  <2>1. a \in [body : Bodies, data : DataOf(q.op), fresh : BOOLEAN]
    BY <1>1 DEF AdminInv, Typed
  <2>2. a.data \in DataOf(q.op)
    BY <2>1
  <2>. QED  BY <2>2, <1>1, DataIsReply
<1>3. HasEvent(Identity(q), a.body, a.data)
  BY <1>1 DEF AdminInv, AnswersHaveEvents
<1>4. CASE a.body = q.body
  <2>1. Replay(q) = Answered(q, "done", a.data)
    BY <1>4 DEF Replay
  <2>2. HasEvent(Identity(q), q.body, a.data)
    BY <1>3, <1>4
  <2>. HIDE DEF a
  <2>. QED  BY <2>1, <2>2, <1>2 DEF Answered, AnsweredRows
<1>5. CASE a.body # q.body
  <2>1. Replay(q) = Answered(q, "key conflict", NoRow)
    BY <1>5 DEF Replay
  <2>. QED  BY <2>1, PlainAnswer
<1>. QED  BY <1>4, <1>5

LEMMA AnsweredIsPlanned ==
  ASSUME NEW w \in AnsweredRows
  PROVE  PlanIsMade(w)
BY Rows DEF PlanIsMade

LEMMA ArriveKeeps ==
  ASSUME OperationsAssumption, AdminInv, NEW r \in Requests, NEW q \in Contents, Arrive(r, q)
  PROVE  AdminInv'
<1>. PICK w : req' = [req EXCEPT ![r] = w]
              /\ w = IF Stored(q) THEN Replay(q)
                     ELSE IF ~IsValid(q) THEN Answered(q, "invalid", NoRow)
                     ELSE Working(q, IF q.op = "check" THEN "catalog" ELSE "batch")
  BY DEF Arrive
<1>1. req[r].stage = "idle"
  BY Rows DEF Arrive
<1>2. /\ w \in WorkingRows \cup AnsweredRows /\ PlanIsMade(w)
      /\ w.stage = "answered" /\ w.status = "done" => HasEvent(Identity(w.q), w.q.body, w.data)
  <2>1. CASE Stored(q)
    BY <2>1, ReplayIsEarned, AnsweredIsPlanned
  <2>2. CASE ~Stored(q) /\ ~IsValid(q)
    BY <2>2, PlainAnswer, AnsweredIsPlanned
  <2>3. CASE ~Stored(q) /\ IsValid(q)
    <3>1. w = Working(q, IF q.op = "check" THEN "catalog" ELSE "batch")
      BY <2>3
    <3>2. w \in WorkingRows /\ w.q = q /\ w.stage = IF q.op = "check" THEN "catalog" ELSE "batch"
      BY <3>1 DEF Working, WorkingRows
    <3>. QED  BY <3>2, <2>3 DEF PlanIsMade
  <2>. QED  BY <2>1, <2>2, <2>3
<1>. QED  BY <1>1, <1>2, RequestMoves DEF Arrive

LEMMA ReadCatalogKeeps ==
  ASSUME OperationsAssumption, AdminInv, NEW r \in Requests, ReadCatalog(r)
  PROVE  AdminInv'
<1>. PICK w : w = [req[r] EXCEPT !.stage = "describe", !.declared = declared]
  OBVIOUS
<1>1. req[r] \in {Idle} \cup WorkingRows \cup AnsweredRows /\ declared \in SUBSET Actions
  BY DEF AdminInv, Typed
<1>2. req[r] \in WorkingRows
  BY <1>1, Rows DEF ReadCatalog
<1>3. w \in WorkingRows /\ w.stage = "describe" /\ w.q = req[r].q
  BY <1>1, <1>2 DEF WorkingRows
<1>4. PlanIsMade(w)
  BY <1>3 DEF AdminInv, Requested, PlanIsMade, ReadCatalog
<1>5. req' = [req EXCEPT ![r] = w]
  BY DEF ReadCatalog
<1>. QED  BY <1>3, <1>4, <1>5, RequestMoves DEF ReadCatalog

LEMMA DescribeKeeps ==
  ASSUME OperationsAssumption, AdminInv, NEW r \in Requests, Describe(r)
  PROVE  AdminInv'
<1>. PICK v \in {"unreachable", Verdict(req[r].declared, described)} :
        req' = [req EXCEPT ![r].stage = "batch", ![r].declared = {}, ![r].verdict = v]
  BY DEF Describe
<1>. PICK w : w = [req[r] EXCEPT !.stage = "batch", !.declared = {}, !.verdict = v]
  OBVIOUS
<1>1. req[r] \in {Idle} \cup WorkingRows \cup AnsweredRows
  BY DEF AdminInv, Typed
<1>2. req[r] \in WorkingRows
  BY <1>1, Rows DEF Describe
<1>3. v \in Verdicts
  BY DEF Verdict, Verdicts
<1>4. w \in WorkingRows /\ w.stage = "batch" /\ w.q = req[r].q /\ w.verdict = v
  BY <1>2, <1>3 DEF WorkingRows
<1>5. PlanIsMade(w)
  BY <1>3, <1>4 DEF AdminInv, Requested, PlanIsMade, Describe
<1>6. req' = [req EXCEPT ![r] = w]
  OBVIOUS
<1>. QED  BY <1>4, <1>5, <1>6, RequestMoves DEF Describe

LEMMA BatchFailsKeeps ==
  ASSUME OperationsAssumption, AdminInv, NEW r \in Requests, BatchFails(r)
  PROVE  AdminInv'
<1>. PICK e \in {"lost", "constraint"} : req' = [req EXCEPT ![r].stage = "raced", ![r].error = e]
  BY DEF BatchFails
<1>. PICK w : w = [req[r] EXCEPT !.stage = "raced", !.error = e]
  OBVIOUS
<1>1. req[r] \in {Idle} \cup WorkingRows \cup AnsweredRows
  BY DEF AdminInv, Typed
<1>2. req[r] \in WorkingRows
  BY <1>1, Rows DEF BatchFails
<1>3. w \in WorkingRows /\ w.stage = "raced" /\ w.q = req[r].q /\ w.verdict = req[r].verdict
  BY <1>2 DEF WorkingRows
<1>4. PlanIsMade(w)
  BY <1>3 DEF AdminInv, Requested, PlanIsMade, BatchFails
<1>5. req' = [req EXCEPT ![r] = w]
  OBVIOUS
<1>. QED  BY <1>3, <1>4, <1>5, RequestMoves DEF BatchFails

LEMMA RereadKeeps ==
  ASSUME OperationsAssumption, AdminInv, NEW r \in Requests, Reread(r) \/ RereadFails(r)
  PROVE  AdminInv'
<1>. PICK q : q = req[r].q
  OBVIOUS
<1>. PICK w : /\ req' = [req EXCEPT ![r] = w]
              /\ \/ Stored(q) /\ w = Replay(q)
                 \/ \E s \in {"conflict", "error"} : w = Answered(q, s, NoRow)
  <2>1. CASE Reread(r)
    BY <2>1 DEF Reread, AnswerRaced
  <2>2. CASE RereadFails(r)
    BY <2>2 DEF RereadFails
  <2>. QED  BY <2>1, <2>2
<1>1. req[r].stage = "raced" /\ UNCHANGED <<state, answers, audit, declared, deleted>>
  BY DEF Reread, RereadFails
<1>2. q \in Contents
  <2>1. req[r] \in {Idle} \cup WorkingRows \cup AnsweredRows
    BY DEF AdminInv, Typed
  <2>. QED  BY <2>1, <1>1, Rows
<1>3. /\ w \in AnsweredRows /\ w.q = q
      /\ w.status = "done" => HasEvent(Identity(w.q), w.q.body, w.data)
  <2>1. CASE Stored(q) /\ w = Replay(q)
    BY <2>1, <1>2, ReplayIsEarned
  <2>2. CASE w = Answered(q, "conflict", NoRow)
    BY <2>2, <1>2, PlainAnswer
  <2>3. CASE w = Answered(q, "error", NoRow)
    BY <2>3, <1>2, PlainAnswer
  <2>. QED  BY <2>1, <2>2, <2>3
<1>. QED  BY <1>1, <1>3, AnsweredIsPlanned, Rows, RequestMoves

-----------------------------------------------------------------------------
(* The batch: the effect, the answer and the event together *)

\* What the batch of a request writes.
Writes(w, e, v) ==
  /\ w \in WorkingRows /\ w.stage = "batch" /\ w.q \in Contents /\ e \in Entities
  /\ state' = [state EXCEPT ![e] = v]
  /\ answers[Identity(w.q)] = NoRow /\ Applies(w.q)
  /\ e = "dispatch" => v \in BOOLEAN /\ v # state.dispatch
  /\ e = "target" => v \in BOOLEAN /\ v # state.target
  /\ e = "check" => v \in Verdicts
  /\ e = "settings" <=> w.q.op = "settings"
  /\ e = "settings" => /\ v = [value |-> w.q.body, revision |-> state.settings.revision + 1]
                       /\ w.q.body \in Values
                       /\ w.q.ifMatch = state.settings.revision
  /\ Data(w) \in DataOf(w.q.op) /\ (e # "settings" => Data(w) = v)

LEMMA BatchWrites ==
  ASSUME OperationsAssumption, AdminInv, NEW r \in Requests, Batch(r),
         NEW w, w = req[r], NEW e, e = Entity[w.q.op], NEW v, v = NewValue(w)
  PROVE  Writes(w, e, v)
<1>. USE DEF Writes
<1>1. w \in WorkingRows /\ w.stage = "batch" /\ w.q \in Contents
  <2>1. req[r] \in {Idle} \cup WorkingRows \cup AnsweredRows
    BY DEF AdminInv, Typed
  <2>. QED  BY <2>1, Rows DEF Batch
<1>2. Applies(w.q) /\ answers[Identity(w.q)] = NoRow
  BY DEF Batch, MayCommit, KeyIsFree
<1>3. state' = [state EXCEPT ![e] = v]
  BY <1>2 DEF Batch, Commit
<1>4. IsValid(w.q) /\ (w.q.op = "check" => w.verdict \in Verdicts)
  BY <1>1 DEF AdminInv, Requested, PlanIsMade
<1>5. w.q.op \in AllOperations /\ w.q.ifMatch \in 0..Cardinality(Requests)
  BY <1>1, IdentityIsOne DEF OperationsAssumption, Revisions
<1>6. /\ state.dispatch \in BOOLEAN /\ state.target \in BOOLEAN \cup {NoRow}
      /\ state.settings.revision \in Nat
  BY CountIsNat DEF AdminInv, Typed
<1>7. w.q.op \in {"pause", "resume", "enable", "disable", "settings", "check"}
  BY <1>5 DEF AllOperations, Entity
<1>8. CASE w.q.op \in {"pause", "resume"}
  <2>1. e = "dispatch" /\ v \in BOOLEAN /\ v # state.dispatch
    <3>1. CASE w.q.op = "pause"
      <4>1. e = "dispatch" /\ v = TRUE /\ state.dispatch = FALSE
        BY <3>1, <1>2, <1>6 DEF Entity, NewValue, Applies
      <4>. QED  BY <4>1
    <3>2. CASE w.q.op = "resume"
      <4>1. e = "dispatch" /\ v = FALSE /\ state.dispatch = TRUE
        BY <3>2, <1>2, <1>6 DEF Entity, NewValue, Applies
      <4>. QED  BY <4>1
    <3>. QED  BY <1>8, <3>1, <3>2
  <2>2. DataOf(w.q.op) = BOOLEAN /\ Data(w) = v
    BY <1>8 DEF DataOf, Data
  <2>. QED  BY <2>1, <2>2, <1>1, <1>2, <1>3, <1>8 DEF Entities
<1>9. CASE w.q.op \in {"enable", "disable"}
  <2>1. e = "target" /\ v \in BOOLEAN /\ v # state.target
    <3>1. CASE w.q.op = "enable"
      <4>1. e = "target" /\ v = TRUE /\ state.target = FALSE
        BY <3>1, <1>2, <1>6 DEF Entity, NewValue, Applies
      <4>. QED  BY <4>1
    <3>2. CASE w.q.op = "disable"
      <4>1. e = "target" /\ v = FALSE /\ state.target = TRUE
        BY <3>2, <1>2, <1>6 DEF Entity, NewValue, Applies
      <4>. QED  BY <4>1
    <3>. QED  BY <1>9, <3>1, <3>2
  <2>2. DataOf(w.q.op) = BOOLEAN /\ Data(w) = v
    BY <1>9 DEF DataOf, Data
  <2>. QED  BY <2>1, <2>2, <1>1, <1>2, <1>3, <1>9 DEF Entities
<1>10. CASE w.q.op = "check"
  <2>1. e = "check" /\ v \in Verdicts
    BY <1>10, <1>4 DEF Entity, NewValue
  <2>2. DataOf(w.q.op) = Verdicts /\ Data(w) = v
    BY <1>10 DEF DataOf, Data
  <2>. QED  BY <2>1, <2>2, <1>1, <1>2, <1>3, <1>10 DEF Entities
<1>11. CASE w.q.op = "settings"
  <2>1. e = "settings" /\ v = [value |-> w.q.body, revision |-> state.settings.revision + 1]
    BY <1>11 DEF Entity, NewValue
  <2>2. w.q.body \in Values /\ w.q.ifMatch = state.settings.revision /\ w.q.ifMatch # 0
    BY <1>11, <1>2, <1>4 DEF IsValid, Applies, RevisionMatches
  <2>3. DataOf(w.q.op) = 2..(Cardinality(Requests) + 1) /\ Data(w) = w.q.ifMatch + 1
    BY <1>11 DEF DataOf, Data
  <2>4. Data(w) \in DataOf(w.q.op)
    BY <2>2, <2>3, <1>5, CountIsNat
  <2>. QED  BY <2>1, <2>2, <2>4, <1>1, <1>2, <1>3, <1>11 DEF Entities
<1>. QED  BY <1>7, <1>8, <1>9, <1>10, <1>11

LEMMA BatchKeeps ==
  ASSUME OperationsAssumption, AdminInv, NEW r \in Requests, Batch(r)
  PROVE  AdminInv'
<1>. PICK w : w = req[r]
  OBVIOUS
<1>. PICK e : e = Entity[w.q.op]
  OBVIOUS
<1>. PICK v : v = NewValue(w)
  OBVIOUS
<1>. PICK d : d = Data(w)
  OBVIOUS
<1>. PICK id : id = Identity(w.q)
  OBVIOUS
<1>. PICK ev : ev = [by |-> r, entity |-> e, to |-> IF e = "settings" THEN w.q.body ELSE v]
  OBVIOUS
<1>. PICK n : n = Len(audit) + 1
  OBVIOUS
<1>0. Writes(w, e, v)
  BY BatchWrites
<1>1. /\ w \in WorkingRows /\ w.stage = "batch" /\ w.q \in Contents /\ e \in Entities
      /\ state' = [state EXCEPT ![e] = v]
      /\ answers[id] = NoRow /\ Applies(w.q)
      /\ e = "dispatch" => v \in BOOLEAN /\ v # state.dispatch
      /\ e = "target" => v \in BOOLEAN /\ v # state.target
      /\ e = "check" => v \in Verdicts
      /\ e = "settings" <=> w.q.op = "settings"
      /\ e = "settings" => /\ v = [value |-> w.q.body, revision |-> state.settings.revision + 1]
                           /\ w.q.body \in Values
                           /\ w.q.ifMatch = state.settings.revision
      /\ d \in DataOf(w.q.op)
      /\ e # "settings" => d = v
  BY <1>0 DEF Writes
<1>2. /\ answers' = [answers EXCEPT ![id] = [body |-> w.q.body, data |-> d, fresh |-> TRUE]]
      /\ audit' = Append(audit, ev) /\ UNCHANGED <<declared, described, deleted>>
  BY DEF Batch, Commit
<1>3. /\ id \in Identities /\ id[2] = w.q.op /\ w.q.body \in Bodies /\ w.q.op \in Operations
  BY <1>1, IdentityIsOne
<1>4. /\ ev \in Event /\ ev.to \in ToOf(e) /\ ev.by = r /\ ev.entity = e
      /\ e = "settings" => ev.to = w.q.body
      /\ e # "settings" => ev.to = v
  BY <1>1 DEF Event, ToOf, Entities
<1>5. audit \in Seq(Event)
  BY DEF AdminInv, Typed
<1>6. /\ audit' \in Seq(Event) /\ DOMAIN audit' = DOMAIN audit \cup {n} /\ n \notin DOMAIN audit
      /\ \A i \in DOMAIN audit : audit'[i] = audit[i] /\ NumberOf(i)' = NumberOf(i)
      /\ audit'[n] = ev
      /\ \A x \in Entities : EventsOn(x)' = EventsOn(x) \cup (IF x = e THEN {n} ELSE {})
  BY <1>2, <1>4, <1>5, LogGrows
<1>7. PICK z : /\ req' = [req EXCEPT ![r] = z]
               /\ \/ z = Answered(w.q, "done", d)
                  \/ z = [w EXCEPT !.stage = "raced", !.error = "lost"]
  BY DEF Batch
<1>8. d \in Replies
  BY <1>1, <1>3, DataIsReply
<1>9. /\ z \in WorkingRows \cup AnsweredRows /\ z.q = w.q /\ z.stage \in {"raced", "answered"}
      /\ z.stage = "answered" => z.data = d
  <2>1. CASE z = Answered(w.q, "done", d)
    BY <2>1, <1>1, <1>8 DEF Answered, AnsweredRows
  <2>2. CASE z = [w EXCEPT !.stage = "raced", !.error = "lost"]
    BY <2>2, <1>1 DEF WorkingRows
  <2>. QED  BY <1>7, <2>1, <2>2
<1>10. PlanIsMade(z)
  <2>1. CASE z = Answered(w.q, "done", d)
    BY <2>1 DEF PlanIsMade, Answered
  <2>2. CASE z = [w EXCEPT !.stage = "raced", !.error = "lost"]
    <3>1. PlanIsMade(w)
      BY DEF AdminInv, Requested
    <3>2. z.q = w.q /\ z.verdict = w.verdict /\ z.stage = "raced"
      BY <2>2, <1>1 DEF WorkingRows
    <3>. QED  BY <3>1, <3>2, <1>1 DEF PlanIsMade
  <2>. QED  BY <1>7, <2>1, <2>2
<1>11. /\ req \in [Requests -> {Idle} \cup WorkingRows \cup AnsweredRows]
       /\ req' \in [Requests -> {Idle} \cup WorkingRows \cup AnsweredRows]
       /\ req'[r] = z /\ \A x \in Requests \ {r} : req'[x] = req[x]
  BY <1>7, <1>9 DEF AdminInv, Typed
<1>12. ASSUME NEW i \in DOMAIN audit
       PROVE  audit[i].by # r /\ Asked(i)' = Asked(i) /\ EventIsMade(i)'
  <2>1. EventIsMade(i) /\ audit[i].by \in Requests
    BY AskedIsContents, Zenon DEF AdminInv, EventsAreMade
  <2>2. audit[i].by # r
    BY <2>1, <1>1 DEF EventIsMade
  <2>3. audit'[i] = audit[i] /\ req'[audit[i].by] = req[audit[i].by]
    BY <2>1, <2>2, <1>6, <1>11
  <2>. QED  BY <2>1, <2>2, <2>3 DEF EventIsMade, Asked
<1>13. Asked(n)' = w.q /\ EventIsMade(n)'
  <2>1. Asked(n)' = w.q
    BY <1>4, <1>6, <1>9, <1>11 DEF Asked
  <2>2. audit'[n].entity = Entity[w.q.op] /\ audit'[n].to \in ToOf(audit'[n].entity)
    BY <1>4, <1>6
  <2>3. req'[audit'[n].by].stage \in {"raced", "answered"}
    BY <1>4, <1>6, <1>9, <1>11
  <2>. QED  BY <2>1, <2>2, <2>3 DEF EventIsMade
<1>14. Typed'
  <2>1. answers' = [i \in Identities |-> answers'[i]]
    BY <1>2, <1>3 DEF AdminInv, Typed
  <2>2. ASSUME NEW i \in Identities, answers'[i] # NoRow
        PROVE  answers'[i] \in [body : Bodies, data : DataOf(i[2]), fresh : BOOLEAN]
    <3>1. CASE i = id
      BY <3>1, <1>1, <1>2, <1>3 DEF AdminInv, Typed
    <3>2. CASE i # id
      BY <3>2, <2>2, <1>2 DEF AdminInv, Typed
    <3>. QED  BY <3>1, <3>2
  <2>3. state' \in [dispatch : BOOLEAN, target : BOOLEAN \cup {NoRow}, check : Verdicts \cup {NoRow},
                    settings : [value : Values, revision : 1..(Cardinality(Requests) + 1)]]
    <3>. DEFINE Settings == [value : Values, revision : 1..(Cardinality(Requests) + 1)]
    <3>1. ASSUME e = "settings" PROVE v \in Settings
      <4>1. w.q.ifMatch \in 0..Cardinality(Requests)
        BY <1>1, IdentityIsOne DEF Revisions
      <4>. QED  BY <3>1, <4>1, <1>1, CountIsNat
    <3>. HIDE DEF Settings
    <3>2. state \in [dispatch : BOOLEAN, target : BOOLEAN \cup {NoRow}, check : Verdicts \cup {NoRow},
                     settings : Settings]
      BY DEF AdminInv, Typed, Settings
    <3>3. state' \in [dispatch : BOOLEAN, target : BOOLEAN \cup {NoRow}, check : Verdicts \cup {NoRow},
                      settings : Settings]
      BY <3>1, <3>2, <1>1 DEF Entities
    <3>. QED  BY <3>3 DEF Settings
  <2>. QED  BY <2>1, <2>2, <2>3, <1>2, <1>6, <1>11 DEF AdminInv, Typed
<1>15. Requested'
  BY <1>10, <1>11 DEF AdminInv, Requested
<1>16. EventsAreMade'
  <2>1. \A i \in DOMAIN audit' : EventIsMade(i)'
    BY <1>6, <1>12, <1>13
  <2>2. \A i, j \in DOMAIN audit' : audit'[i].by = audit'[j].by => i = j
    BY <1>4, <1>6, <1>12 DEF AdminInv, EventsAreMade
  <2>. QED  BY <2>1, <2>2 DEF EventsAreMade
<1>17. ASSUME NEW x, NEW body, NEW y, HasEvent(x, body, y) PROVE HasEvent(x, body, y)'
  <2>1. PICK i \in DOMAIN audit : IsEventOf(i, x, body, y)
    BY <1>17 DEF HasEvent
  <2>2. IsEventOf(i, x, body, y)'
    BY <2>1, <1>6, <1>12 DEF IsEventOf
  <2>. QED  BY <2>2, <1>6 DEF HasEvent
<1>18. IsFiniteSet(EventsOn("settings")) /\ Cardinality(EventsOn("settings")) \in Nat
  BY <1>5, EventsAreFew DEF AdminInv, EventsAreMade, OperationsAssumption, EventsOn
<1>19. e = "settings" => NumberOf(n)' = Cardinality(EventsOn("settings")) + 1
  <2>. SUFFICES ASSUME e = "settings" PROVE NumberOf(n)' = Cardinality(EventsOn("settings")) + 1
    OBVIOUS
  <2>1. EventsOn("settings")' = EventsOn("settings") \cup {n}
    BY <1>6 DEF Entities
  <2>2. \A j \in EventsOn("settings") : j \in DOMAIN audit /\ j <= n
    BY <1>5 DEF EventsOn
  <2>3. {j \in EventsOn("settings")' : j <= n} = EventsOn("settings") \cup {n}
    BY <2>1, <2>2, <1>5
  <2>4. NumberOf(n)' = Cardinality(EventsOn("settings") \cup {n})
    BY <2>3, <1>4, <1>6 DEF NumberOf
  <2>5. n \notin EventsOn("settings")
    BY <2>2, <1>6
  <2>. QED  BY <2>4, <2>5, <1>18, FS_AddElement
<1>20. HasEvent(id, w.q.body, d)'
  <2>1. IsEventOf(n, id, w.q.body, d)'
    <3>1. CASE e = "settings"
      <4>1. state.settings.revision = Cardinality(EventsOn("settings")) + 1
        BY DEF AdminInv, StateIsAudited
      <4>2. d = w.q.ifMatch + 1
        BY <3>1, <1>1 DEF Data
      <4>3. d = NumberOf(n)' + 1
        BY <4>1, <4>2, <3>1, <1>1, <1>19
      <4>4. audit'[n].to = w.q.body
        BY <3>1, <1>4, <1>6
      <4>. QED  BY <4>3, <4>4, <3>1, <1>1, <1>3, <1>13 DEF IsEventOf
    <3>2. CASE e # "settings"
      <4>1. audit'[n].to = d
        BY <3>2, <1>1, <1>4, <1>6
      <4>. QED  BY <4>1, <3>2, <1>1, <1>3, <1>13 DEF IsEventOf
    <3>. QED  BY <3>1, <3>2
  <2>. QED  BY <2>1, <1>6 DEF HasEvent
<1>21. AnswersHaveEvents'
  <2>1. ASSUME NEW i \in Identities, answers'[i] # NoRow
        PROVE  HasEvent(i, answers[i].body, answers[i].data)'
    <3>. PICK a : a = answers'[i]
      OBVIOUS
    <3>1. CASE i = id
      BY <3>1, <1>2, <1>3, <1>20 DEF AdminInv, Typed
    <3>2. CASE i # id
      <4>1. HasEvent(i, a.body, a.data)
        BY <3>2, <2>1, <1>2 DEF AdminInv, Typed, AnswersHaveEvents
      <4>2. HasEvent(i, a.body, a.data)'
        BY <4>1, <1>17
      <4>. QED  BY <4>2
    <3>. QED  BY <3>1, <3>2
  <2>2. ASSUME NEW x \in Requests, Is(x, "done")'
        PROVE  HasEvent(Identity(req[x].q), req[x].q.body, req[x].data)'
    <3>1. CASE x = r
      BY <3>1, <2>2, <1>9, <1>11, <1>20 DEF Is
    <3>2. CASE x # r
      <4>. PICK y : y = req'[x]
        OBVIOUS
      <4>1. HasEvent(Identity(y.q), y.q.body, y.data)
        BY <3>2, <2>2, <1>11 DEF Is, AdminInv, AnswersHaveEvents
      <4>2. HasEvent(Identity(y.q), y.q.body, y.data)'
        BY <4>1, <1>17
      <4>. QED  BY <4>2
    <3>. QED  BY <3>1, <3>2
  <2>. QED  BY <2>1, <2>2 DEF AnswersHaveEvents
<1>22. KeysAreOnce'
  <2>. SUFFICES ASSUME NEW x \in Identities \ deleted PROVE KeyIsOnce(x)'
    BY <1>2 DEF KeysAreOnce
  <2>1. KeyIsOnce(x)
    BY DEF AdminInv, KeysAreOnce
  <2>2. \A i \in DOMAIN audit : Identity(Asked(i))' = Identity(Asked(i))
    BY <1>12
  <2>3. Identity(Asked(n))' = id
    BY <1>13
  <2>4. answers'[x] = NoRow => answers[x] = NoRow /\ x # id
    <3>1. CASE x = id
      <4>. PICK a : a = [body |-> w.q.body, data |-> d, fresh |-> TRUE]
        OBVIOUS
      <4>1. a \in [body : Bodies, data : DataOf(w.q.op), fresh : BOOLEAN]
        BY <1>1, <1>3
      <4>2. a # NoRow
        BY <4>1, <1>3 DEF OperationsAssumption
      <4>3. answers'[x] = a
        BY <3>1, <1>2, <1>3 DEF AdminInv, Typed
      <4>. QED  BY <4>2, <4>3
    <3>2. CASE x # id
      BY <3>2, <1>2 DEF AdminInv, Typed
    <3>. QED  BY <3>1, <3>2
  <2>. QED  BY <2>1, <2>2, <2>3, <2>4, <1>1, <1>6 DEF KeyIsOnce
<1>23. StateIsAudited'
  <2>1. StateIsAudited
    BY DEF AdminInv
  <2>2. ASSUME NEW x \in {"dispatch", "target", "check"}, NEW i \in EventsOn(x)', IsLast(i)'
        PROVE  state'[x] = audit'[i].to
    <3>1. CASE x = e
      <4>1. n \in EventsOn(x)' /\ \A j \in DOMAIN audit : j < n
        BY <3>1, <1>5, <1>6 DEF Entities
      <4>2. i \in DOMAIN audit' /\ audit'[i].entity = x
        BY <2>2 DEF EventsOn
      <4>3. i = n
        BY <4>1, <4>2, <2>2, <1>5, <1>6 DEF IsLast
      <4>. QED  BY <4>3, <3>1, <1>1, <1>4, <1>6 DEF AdminInv, Typed
    <3>2. CASE x # e
      <4>0. state'[x] = state[x]
        BY <3>2, <1>1 DEF AdminInv, Typed
      <4>1. EventsOn(x)' = EventsOn(x)
        BY <3>2, <1>6 DEF Entities
      <4>2. i \in EventsOn(x) /\ i \in DOMAIN audit /\ audit[i].entity = x /\ audit'[i] = audit[i]
        BY <4>1, <2>2, <1>6 DEF EventsOn
      <4>3. IsLast(i)
        BY <4>1, <4>2, <2>2 DEF IsLast
      <4>. QED  BY <2>1, <4>0, <4>2, <4>3 DEF StateIsAudited
    <3>. QED  BY <3>1, <3>2
  <2>3. ASSUME NEW x \in {"dispatch", "target"}, NEW i \in EventsOn(x)', NEW j \in EventsOn(x)',
               IsNextAfter(i, j)'
        PROVE  audit'[i].to # audit'[j].to
    <3>1. CASE x # e
      <4>1. EventsOn(x)' = EventsOn(x)
        BY <3>1, <1>6 DEF Entities
      <4>2. \A k \in EventsOn(x) : k \in DOMAIN audit /\ audit[k].entity = x /\ audit'[k] = audit[k]
        BY <1>6 DEF EventsOn
      <4>3. IsNextAfter(i, j)
        BY <4>1, <4>2, <2>3 DEF IsNextAfter
      <4>. QED  BY <2>1, <2>3, <4>1, <4>2, <4>3 DEF StateIsAudited
    <3>2. CASE x = e
      <4>1. EventsOn(x)' = EventsOn(x) \cup {n}
        BY <3>2, <1>6 DEF Entities
      <4>2. \A k \in EventsOn(x) : /\ k \in DOMAIN audit /\ audit[k].entity = x /\ audit'[k] = audit[k]
                                   /\ k < n
        BY <1>5, <1>6 DEF EventsOn
      <4>3. i < j /\ \A k \in EventsOn(x)' : k <= i \/ j <= k
        <5>1. audit'[i].entity = x
          BY <2>3 DEF EventsOn
        <5>. QED  BY <5>1, <2>3 DEF IsNextAfter
      <4>4. i \in EventsOn(x)
        BY <4>1, <4>2, <4>3, <1>5
      <4>5. CASE j # n
        <5>1. j \in EventsOn(x)
          BY <4>1, <4>5
        <5>2. IsNextAfter(i, j)
          BY <5>1, <4>1, <4>2, <4>3, <4>4 DEF IsNextAfter
        <5>. QED  BY <2>1, <5>1, <5>2, <4>2, <4>4 DEF StateIsAudited
      <4>6. CASE j = n
        <5>1. IsLast(i)
          BY <4>1, <4>2, <4>3, <4>4, <4>6, <1>5 DEF IsLast
        <5>2. state[x] = audit[i].to
          BY <2>1, <5>1, <4>4 DEF StateIsAudited
        <5>3. v # state[x]
          BY <3>2, <1>1
        <5>. QED  BY <5>2, <5>3, <4>2, <4>4, <4>6, <3>2, <1>4, <1>6
      <4>. QED  BY <4>5, <4>6
    <3>. QED  BY <3>1, <3>2
  <2>4. state'.settings.revision = Cardinality(EventsOn("settings")') + 1
    <3>1. CASE e = "settings"
      <4>1. EventsOn("settings")' = EventsOn("settings") \cup {n} /\ n \notin EventsOn("settings")
        BY <3>1, <1>6 DEF Entities, EventsOn
      <4>2. Cardinality(EventsOn("settings")') = Cardinality(EventsOn("settings")) + 1
        BY <4>1, <1>18, FS_AddElement
      <4>3. state'.settings.revision = state.settings.revision + 1
        BY <3>1, <1>1 DEF AdminInv, Typed
      <4>. QED  BY <2>1, <4>2, <4>3 DEF StateIsAudited
    <3>2. CASE e # "settings"
      <4>1. EventsOn("settings")' = EventsOn("settings") /\ state'.settings = state.settings
        BY <3>2, <1>1, <1>6 DEF Entities, AdminInv, Typed
      <4>. QED  BY <2>1, <4>1 DEF StateIsAudited
    <3>. QED  BY <3>1, <3>2
  <2>5. ASSUME NEW i \in EventsOn("settings")', IsLast(i)' PROVE state'.settings.value = audit'[i].to
    <3>0. i \in DOMAIN audit' /\ audit'[i].entity = "settings"
      BY <2>5 DEF EventsOn
    <3>1. CASE e = "settings"
      <4>1. n \in EventsOn("settings")' /\ \A j \in DOMAIN audit : j < n
        BY <3>1, <1>5, <1>6 DEF Entities
      <4>2. i = n
        BY <4>1, <3>0, <2>5, <1>5, <1>6 DEF IsLast
      <4>3. state'.settings.value = w.q.body
        BY <3>1, <1>1 DEF AdminInv, Typed
      <4>. QED  BY <4>2, <4>3, <3>1, <1>4, <1>6
    <3>2. CASE e # "settings"
      <4>1. EventsOn("settings")' = EventsOn("settings") /\ state'.settings = state.settings
        BY <3>2, <1>1, <1>6 DEF Entities, AdminInv, Typed
      <4>2. i \in EventsOn("settings") /\ i \in DOMAIN audit /\ audit[i].entity = "settings" /\ audit'[i] = audit[i]
        BY <4>1, <2>5, <1>6 DEF EventsOn
      <4>3. IsLast(i)
        BY <4>1, <4>2, <2>5 DEF IsLast
      <4>. QED  BY <2>1, <4>1, <4>2, <4>3 DEF StateIsAudited
    <3>. QED  BY <3>1, <3>2
  <2>. QED  BY <2>2, <2>3, <2>4, <2>5 DEF StateIsAudited
<1>. QED  BY <1>14, <1>15, <1>16, <1>21, <1>22, <1>23 DEF AdminInv

-----------------------------------------------------------------------------
(* The other steps *)

\* Rows of api_idempotency expire and are deleted; the log and the requests stay.
LEMMA AnswerLeaves ==
  ASSUME OperationsAssumption, AdminInv, NEW i \in Identities, Expire(i) \/ Cleanup(i)
  PROVE  AdminInv'
<1>. PICK a : a = answers'[i]
  OBVIOUS
<1>1. answers[i] # NoRow /\ UNCHANGED <<state, audit, declared, described, req>>
  BY DEF Expire, Cleanup
<1>2. answers' = [answers EXCEPT ![i] = a] /\ \/ a = NoRow /\ deleted' = deleted \cup {i}
                                              \/ a = [answers[i] EXCEPT !.fresh = FALSE] /\ deleted' = deleted
  <2>1. CASE Expire(i)
    BY <2>1 DEF Expire, AdminInv, Typed
  <2>2. CASE Cleanup(i)
    BY <2>2 DEF Cleanup, AdminInv, Typed
  <2>. QED  BY <2>1, <2>2
<1>3. a # NoRow => /\ deleted' = deleted /\ i[2] \in AllOperations
                   /\ a \in [body : Bodies, data : DataOf(i[2]), fresh : BOOLEAN]
                   /\ a.body = answers[i].body /\ a.data = answers[i].data
  <2>1. answers[i] \in [body : Bodies, data : DataOf(i[2]), fresh : BOOLEAN]
    BY <1>1 DEF AdminInv, Typed
  <2>2. i[2] \in AllOperations
    BY DEF Identities, OperationsAssumption
  <2>. QED  BY <1>2, <2>1, <2>2
<1>4. /\ answers' = [x \in Identities |-> answers'[x]]
      /\ \A x \in Identities : answers'[x] = IF x = i THEN a ELSE answers[x]
  BY <1>2 DEF AdminInv, Typed
<1>5. Typed'
  BY <1>1, <1>3, <1>4 DEF AdminInv, Typed
<1>6. Requested' /\ EventsAreMade' /\ StateIsAudited'
  BY <1>1 DEF AdminInv, Requested, EventsAreMade, EventIsMade, Asked, StateIsAudited, EventsOn,
              IsLast, IsNextAfter
<1>7. ASSUME NEW x, NEW body, NEW d, HasEvent(x, body, d) PROVE HasEvent(x, body, d)'
  BY <1>1, <1>7 DEF HasEvent, IsEventOf, Asked, NumberOf, EventsOn
<1>8. AnswersHaveEvents'
  <2>1. ASSUME NEW x \in Identities, answers'[x] # NoRow
        PROVE  HasEvent(x, answers[x].body, answers[x].data)'
    <3>. PICK b : b = answers'[x]
      OBVIOUS
    <3>1. answers[x] # NoRow /\ b.body = answers[x].body /\ b.data = answers[x].data
      BY <2>1, <1>1, <1>3, <1>4
    <3>2. HasEvent(x, b.body, b.data)
      BY <3>1 DEF AdminInv, AnswersHaveEvents
    <3>3. HasEvent(x, b.body, b.data)'
      BY <3>2, <1>7
    <3>. QED  BY <3>3
  <2>2. ASSUME NEW x \in Requests, Is(x, "done")'
        PROVE  HasEvent(Identity(req[x].q), req[x].q.body, req[x].data)'
    <3>. PICK y : y = req'[x]
      OBVIOUS
    <3>1. HasEvent(Identity(y.q), y.q.body, y.data)
      BY <2>2, <1>1 DEF Is, AdminInv, AnswersHaveEvents
    <3>2. HasEvent(Identity(y.q), y.q.body, y.data)'
      BY <3>1, <1>7
    <3>. QED  BY <3>2
  <2>. QED  BY <2>1, <2>2 DEF AnswersHaveEvents
<1>9. KeysAreOnce'
  <2>. SUFFICES ASSUME NEW x \in Identities \ deleted' PROVE KeyIsOnce(x)'
    BY DEF KeysAreOnce
  <2>1. KeyIsOnce(x)
    BY <1>2 DEF AdminInv, KeysAreOnce
  <2>2. answers[x] # NoRow => answers'[x] # NoRow
    <3>1. CASE x = i
      <4>1. a # NoRow
        <5>1. a = [answers[i] EXCEPT !.fresh = FALSE]
          BY <3>1, <1>2
        <5>2. answers[i] \in [body : Bodies, data : DataOf(i[2]), fresh : BOOLEAN]
          BY <1>1 DEF AdminInv, Typed
        <5>3. a \in [body : Bodies, data : DataOf(i[2]), fresh : BOOLEAN]
          BY <5>1, <5>2
        <5>. QED  BY <5>3 DEF Identities, OperationsAssumption
      <4>. QED  BY <3>1, <4>1, <1>4
    <3>2. CASE x # i
      BY <3>2, <1>4
    <3>. QED  BY <3>1, <3>2
  <2>. QED  BY <2>1, <2>2, <1>1 DEF KeyIsOnce, Asked
<1>. QED  BY <1>5, <1>6, <1>8, <1>9 DEF AdminInv

\* A Target that had no row was never switched: it is seeded, and nothing else changes.
LEMMA SeedKeeps ==
  ASSUME OperationsAssumption, AdminInv, Seed
  PROVE  AdminInv'
<1>1. state' = [state EXCEPT !.target = TRUE] /\ state.target = NoRow
      /\ UNCHANGED <<answers, audit, declared, described, req, deleted>>
  BY DEF Seed
<1>2. Typed'
  BY <1>1 DEF AdminInv, Typed
<1>3. Requested' /\ EventsAreMade' /\ KeysAreOnce'
  BY <1>1 DEF AdminInv, Requested, EventsAreMade, EventIsMade, Asked, KeysAreOnce, KeyIsOnce
<1>4. AnswersHaveEvents'
  BY <1>1 DEF AdminInv, AnswersHaveEvents, HasEvent, IsEventOf, Asked, NumberOf, EventsOn, Is
<1>5. StateIsAudited'
  <2>1. ASSUME NEW i \in EventsOn("target"), IsLast(i) PROVE FALSE
    <3>1. i \in DOMAIN audit /\ audit[i].entity = "target"
      BY <2>1 DEF EventsOn
    <3>2. audit[i].to \in BOOLEAN
      BY <3>1 DEF AdminInv, EventsAreMade, EventIsMade, ToOf
    <3>3. audit[i].to = NoRow
      BY <2>1, <1>1 DEF AdminInv, StateIsAudited
    <3>4. "enable" \in AllOperations /\ DataOf("enable") = BOOLEAN
      BY DEF AllOperations, Entity, DataOf
    <3>. QED  BY <3>2, <3>3, <3>4 DEF OperationsAssumption
  <2>2. state'.dispatch = state.dispatch /\ state'.check = state.check /\ state'.settings = state.settings
    BY <1>1 DEF AdminInv, Typed
  <2>3. \A e \in Entities : EventsOn(e)' = EventsOn(e)
    BY <1>1 DEF EventsOn
  <2>4. \A i : IsLast(i)' = IsLast(i) /\ \A j : IsNextAfter(i, j)' = IsNextAfter(i, j)
    BY <1>1 DEF IsLast, IsNextAfter, EventsOn
  <2>. DEFINE Tells(e) == \A i \in EventsOn(e) : IsLast(i) => state[e] = audit[i].to
              Turns(e) == \A i, j \in EventsOn(e) : IsNextAfter(i, j) => audit[i].to # audit[j].to
  <2>5. Tells("dispatch")' /\ Tells("target")' /\ Tells("check")'
    BY <2>1, <2>2, <2>3, <2>4, <1>1 DEF AdminInv, StateIsAudited, Entities
  <2>6. Turns("dispatch")' /\ Turns("target")'
    BY <2>3, <2>4, <1>1 DEF AdminInv, StateIsAudited, Entities
  <2>7. /\ (state.settings.revision = Cardinality(EventsOn("settings")) + 1)'
        /\ (\A i \in EventsOn("settings") : IsLast(i) => state.settings.value = audit[i].to)'
    BY <2>2, <2>3, <2>4, <1>1 DEF AdminInv, StateIsAudited, Entities
  <2>. QED  BY <2>5, <2>6, <2>7 DEF StateIsAudited
<1>. QED  BY <1>2, <1>3, <1>4, <1>5 DEF AdminInv

\* What is declared or described anew is read by later checks only.
LEMMA RedeclareKeeps ==
  ASSUME AdminInv, declared' \in SUBSET Actions, UNCHANGED <<state, answers, audit, req, deleted>>
  PROVE  AdminInv'
<1>1. Typed'
  BY DEF AdminInv, Typed
<1>2. Requested' /\ EventsAreMade' /\ KeysAreOnce'
  BY DEF AdminInv, Requested, EventsAreMade, EventIsMade, Asked, KeysAreOnce, KeyIsOnce
<1>3. AnswersHaveEvents'
  BY DEF AdminInv, AnswersHaveEvents, HasEvent, IsEventOf, Asked, NumberOf, EventsOn, Is
<1>4. StateIsAudited'
  BY DEF AdminInv, StateIsAudited, EventsOn, IsLast, IsNextAfter
<1>. QED  BY <1>1, <1>2, <1>3, <1>4 DEF AdminInv

LEMMA InitIsAudited ==
  ASSUME OperationsAssumption, Init
  PROVE  AdminInv
<1>1. audit = << >> /\ DOMAIN audit = {}
  BY DEF Init
<1>2. Typed
  <2>1. state \in [dispatch : BOOLEAN, target : BOOLEAN \cup {NoRow}, check : Verdicts \cup {NoRow},
                   settings : [value : Values, revision : 1..(Cardinality(Requests) + 1)]]
    <3>. DEFINE S == [value : Values, revision : 1..(Cardinality(Requests) + 1)]
    <3>1. [value : Values, revision : {1}] \subseteq S
      BY CountIsNat
    <3>. HIDE DEF S
    <3>2. state \in [dispatch : BOOLEAN, target : BOOLEAN \cup {NoRow}, check : Verdicts \cup {NoRow},
                     settings : S]
      BY <3>1 DEF Init
    <3>. QED  BY <3>2 DEF S
  <2>2. req \in [Requests -> {Idle} \cup WorkingRows \cup AnsweredRows]
    BY DEF Init
  <2>. QED  BY <2>1, <2>2, <1>1 DEF Init, Typed
<1>3. Requested
  BY Rows DEF Init, Requested, PlanIsMade
<1>4. AnswersHaveEvents
  BY Rows DEF Init, AnswersHaveEvents, Is
<1>5. EventsAreMade /\ KeysAreOnce
  BY <1>1 DEF EventsAreMade, KeysAreOnce, KeyIsOnce
<1>6. StateIsAudited
  <2>1. \A e : EventsOn(e) = {}
    BY <1>1 DEF EventsOn
  <2>2. state.settings.revision = Cardinality(EventsOn("settings")) + 1
    <3>1. state.settings.revision = 1
      BY DEF Init
    <3>. QED  BY <3>1, <2>1, FS_EmptySet
  <2>. QED  BY <2>1, <2>2 DEF StateIsAudited
<1>. QED  BY <1>2, <1>3, <1>4, <1>5, <1>6 DEF AdminInv

LEMMA AdminStep ==
  ASSUME OperationsAssumption, AdminInv, [Next]_vars
  PROVE  AdminInv'
<1>1. ASSUME NEW r \in Requests, NEW q \in Contents, Arrive(r, q) PROVE AdminInv'
  BY <1>1, ArriveKeeps
<1>2. ASSUME NEW r \in Requests, ReadCatalog(r) PROVE AdminInv'
  BY <1>2, ReadCatalogKeeps
<1>3. ASSUME NEW r \in Requests, Describe(r) PROVE AdminInv'
  BY <1>3, DescribeKeeps
<1>4. ASSUME NEW r \in Requests, Batch(r) PROVE AdminInv'
  BY <1>4, BatchKeeps
<1>5. ASSUME NEW r \in Requests, BatchFails(r) PROVE AdminInv'
  BY <1>5, BatchFailsKeeps
<1>6. ASSUME NEW r \in Requests, Reread(r) \/ RereadFails(r) PROVE AdminInv'
  BY <1>6, RereadKeeps
<1>7. ASSUME NEW i \in Identities, Expire(i) \/ Cleanup(i) PROVE AdminInv'
  BY <1>7, AnswerLeaves
<1>8. CASE Seed
  BY <1>8, SeedKeeps
<1>9. CASE Redeclare \/ UNCHANGED vars
  <2>1. declared' \in SUBSET Actions /\ UNCHANGED <<state, answers, audit, req, deleted>>
    BY <1>9 DEF Redeclare, vars, AdminInv, Typed
  <2>. QED  BY <2>1, RedeclareKeeps
<1>. QED  BY <1>1, <1>2, <1>3, <1>4, <1>5, <1>6, <1>7, <1>8, <1>9, Zenon DEF Next

-----------------------------------------------------------------------------
(* The theorems *)

\* The inductive invariant: each request leaves one event at most, and every answer has its own.
THEOREM AdminInvariant ==
  ASSUME OperationsAssumption
  PROVE  Spec => []AdminInv
<1>1. Init => AdminInv
  BY InitIsAudited
<1>2. AdminInv /\ [Next]_vars => AdminInv'
  BY AdminStep
<1>. QED  BY <1>1, <1>2, PTL DEF Spec

\* Only values the schemas accept reach the tables.
THEOREM TypesAreKept ==
  ASSUME OperationsAssumption
  PROVE  Spec => []TypeOK
<1>1. AdminInv => TypeOK
  <2>. SUFFICES ASSUME AdminInv PROVE TypeOK
    OBVIOUS
  <2>1. \A r \in Requests : req[r].stage \in {"idle", "catalog", "describe", "batch", "raced", "answered"}
    <3>1. \A r \in Requests : req[r] \in {Idle} \cup WorkingRows \cup AnsweredRows
      BY DEF AdminInv, Typed
    <3>. QED  BY <3>1, Rows
  <2>. QED  BY <2>1 DEF AdminInv, Typed, TypeOK
<1>. QED  BY <1>1, AdminInvariant, PTL

\* The audit log tells the whole history of every switch and of the settings.
THEOREM StateStaysAudited ==
  ASSUME OperationsAssumption
  PROVE  Spec => []StateIsAudited
BY AdminInvariant, PTL DEF AdminInv

\* Who is told of a success finds its effect in the log, asked for with the same bytes.
THEOREM SuccessIsInTheLog ==
  ASSUME OperationsAssumption
  PROVE  Spec => []SuccessHasItsEffect
<1>1. AdminInv => SuccessHasItsEffect
  <2>. SUFFICES ASSUME AdminInv, NEW r \in Requests, Is(r, "done")
                PROVE  \E i \in EventsOf(req[r].q) :
                          /\ Asked(i).body = req[r].q.body
                          /\ IF req[r].q.op = "settings" THEN audit[i].to = req[r].q.body
                             ELSE audit[i].to = req[r].data
    BY DEF SuccessHasItsEffect
  <2>1. PICK i \in DOMAIN audit : IsEventOf(i, Identity(req[r].q), req[r].q.body, req[r].data)
    BY DEF AdminInv, AnswersHaveEvents, HasEvent
  <2>2. Identity(req[r].q)[2] = req[r].q.op
    BY DEF Identity
  <2>. QED  BY <2>1, <2>2 DEF IsEventOf, EventsOf
<1>. QED  BY <1>1, AdminInvariant, PTL

\* The effect of a key happens once as long as its answer is kept.
THEOREM EffectHappensOnce ==
  ASSUME OperationsAssumption
  PROVE  Spec => []OncePerKey
<1>1. AdminInv => OncePerKey
  <2>. SUFFICES ASSUME AdminInv, NEW r \in Requests, req[r] # Idle, Identity(req[r].q) \notin deleted
                PROVE  Cardinality(EventsOf(req[r].q)) <= 1
    BY DEF OncePerKey
  <2>1. req[r].q \in Contents
    BY Rows DEF AdminInv, Typed
  <2>2. KeyIsOnce(Identity(req[r].q))
    BY <2>1, IdentityIsOne DEF AdminInv, KeysAreOnce
  <2>3. \A i, j \in EventsOf(req[r].q) : i = j
    BY <2>2 DEF KeyIsOnce, EventsOf
  <2>4. CASE EventsOf(req[r].q) = {}
    BY <2>4, FS_EmptySet
  <2>5. CASE EventsOf(req[r].q) # {}
    <3>1. PICK i : EventsOf(req[r].q) = {i}
      BY <2>3, <2>5
    <3>. QED  BY <3>1, FS_Singleton
  <2>. QED  BY <2>4, <2>5
<1>. QED  BY <1>1, AdminInvariant, PTL

\* Of two edits of the settings one succeeds, and its answer is the revision that it made.
THEOREM UpdatesAreKept ==
  ASSUME OperationsAssumption
  PROVE  Spec => []NoLostUpdate
<1>1. AdminInv => NoLostUpdate
  <2>. SUFFICES ASSUME AdminInv, NEW r \in Requests, Is(r, "done"), req[r].q.op = "settings"
                PROVE  \E i \in EventsOn("settings") :
                          /\ NumberOf(i) = req[r].data - 1
                          /\ Identity(Asked(i)) = Identity(req[r].q)
                          /\ Asked(i).body = req[r].q.body
    BY DEF NoLostUpdate
  <2>1. PICK i \in DOMAIN audit : IsEventOf(i, Identity(req[r].q), req[r].q.body, req[r].data)
    BY DEF AdminInv, AnswersHaveEvents, HasEvent
  <2>2. /\ Identity(Asked(i)) = Identity(req[r].q) /\ Asked(i).body = req[r].q.body
        /\ req[r].data = NumberOf(i) + 1
    BY <2>1 DEF IsEventOf, Identity
  <2>3. Asked(i).op = "settings"
    BY <2>2 DEF Identity
  <2>4. audit[i].entity = "settings"
    BY <2>3 DEF AdminInv, EventsAreMade, EventIsMade, Entity
  <2>5. NumberOf(i) \in Nat
    <3>1. {j \in EventsOn(audit[i].entity) : j <= i} \in SUBSET DOMAIN audit
      BY DEF EventsOn
    <3>. QED  BY <3>1, EventsAreFew DEF NumberOf, AdminInv, Typed, EventsAreMade, OperationsAssumption
  <2>. QED  BY <2>2, <2>4, <2>5 DEF EventsOn
<1>. QED  BY <1>1, AdminInvariant, PTL

\* A request whose key has its kept answer is not told of a conflict.
THEOREM NoConflictAfterSuccess ==
  ASSUME OperationsAssumption
  PROVE  Spec => ConflictIsNoSuccess
<1>1. AdminInv /\ [Next]_vars =>
        [\A r \in Requests : Is(r, "conflict")' /\ ~Is(r, "conflict") => ~Stored(req[r].q)]_vars
  <2>. SUFFICES ASSUME AdminInv, Next, NEW x \in Requests, Is(x, "conflict")', ~Is(x, "conflict")
                PROVE  ~Stored(req[x].q)
    BY DEF Is, vars
  <2>. PICK y : y = req'[x]
    OBVIOUS
  <2>1. y.stage = "answered" /\ y.status = "conflict" /\ y # req[x]
    BY DEF Is
  <2>2. req \in [Requests -> {Idle} \cup WorkingRows \cup AnsweredRows]
    BY DEF AdminInv, Typed
  <2>3. \A q : Stored(q) => ~(Replay(q).status = "conflict")
    BY DEF Replay, Answered
  <2>4. ASSUME NEW r \in Requests, NEW q \in Contents, Arrive(r, q) PROVE ~Stored(req[x].q)
    <3>1. x = r /\ y = IF Stored(q) THEN Replay(q)
                       ELSE IF ~IsValid(q) THEN Answered(q, "invalid", NoRow)
                       ELSE Working(q, IF q.op = "check" THEN "catalog" ELSE "batch")
      BY <2>1, <2>2, <2>4 DEF Arrive
    <3>2. y = Replay(q) /\ Stored(q)
      BY <3>1, <2>1 DEF Answered, Working
    <3>. QED  BY <3>2, <2>1, <2>3
  <2>5. ASSUME NEW r \in Requests, ReadCatalog(r) \/ Describe(r) \/ BatchFails(r)
        PROVE  y.stage # "answered"
    <3>1. req'[r].stage # "answered" /\ \A z \in Requests \ {r} : req'[z] = req[z]
      <4>. req[r] \in WorkingRows
        BY <2>2, <2>5, Rows DEF ReadCatalog, Describe, BatchFails
      <4>1. CASE ReadCatalog(r)
        BY <2>2, <4>1 DEF ReadCatalog, WorkingRows
      <4>2. CASE Describe(r)
        BY <2>2, <4>2 DEF Describe, WorkingRows
      <4>3. CASE BatchFails(r)
        BY <2>2, <4>3 DEF BatchFails, WorkingRows
      <4>. QED  BY <2>5, <4>1, <4>2, <4>3
    <3>. QED  BY <3>1, <2>1, <2>2
  <2>6. ASSUME NEW r \in Requests, Batch(r) PROVE FALSE
    <3>. req[r] \in WorkingRows
      BY <2>2, <2>6, Rows DEF Batch
    <3>1. CASE req' = [req EXCEPT ![r] = Answered(req[r].q, "done", Data(req[r]))]
      BY <3>1, <2>1, <2>2 DEF Answered
    <3>2. CASE req' = [req EXCEPT ![r].stage = "raced", ![r].error = "lost"]
      BY <3>2, <2>1, <2>2 DEF WorkingRows
    <3>. QED  BY <3>1, <3>2, <2>6 DEF Batch
  <2>7. ASSUME NEW r \in Requests, Reread(r) PROVE ~Stored(req[x].q)
    <3>1. x = r /\ y = AnswerRaced(r)
      BY <2>1, <2>2, <2>7 DEF Reread
    <3>. QED  BY <3>1, <2>1, <2>3 DEF AnswerRaced
  <2>8. ASSUME NEW r \in Requests, RereadFails(r) PROVE FALSE
    BY <2>1, <2>2, <2>8 DEF RereadFails, Answered
  <2>9. ASSUME UNCHANGED req PROVE FALSE
    BY <2>1, <2>9
  <2>. QED  BY <2>1, <2>4, <2>5, <2>6, <2>7, <2>8, <2>9 DEF Next, Expire, Cleanup, Seed, Redeclare
<1>. QED  BY <1>1, AdminInvariant, PTL DEF Spec, ConflictIsNoSuccess

=============================================================================
