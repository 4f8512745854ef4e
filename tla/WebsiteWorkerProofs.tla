------------------------- MODULE WebsiteWorkerProofs -------------------------
(***************************************************************************)
(* Proofs about WebsiteWorker, for any number of calls, keys and sources.  *)
(* A call changes itself and adds to the tables; what another call knows   *)
(* of the tables stays true, until a reset that every call is told of.     *)
(***************************************************************************)
EXTENDS WebsiteWorker, TLAPS

-----------------------------------------------------------------------------
(* The inductive invariant *)

Early == {"take", "begin", "run", "insert", "effect"}
IsAnswered(w) == w.stage \in {"count", "receipt", "returned"}

\* A call that has written nothing definite yet, and one that is told so.
Known(w) ==
  /\ w.stage \in Early => ~w.wrote
  /\ w.answer \in {"permanent", "retryable"} => ~w.wrote
  /\ IsAnswered(w) <=> w.answer # None

\* A success is in the tables from the moment it is to be answered.
Kept(w) ==
  ~w.reset => /\ w.answer \in Sources => results[w.key] = w.answer
              /\ w.answer = "success" => w.key \in effects

HasReceipt(c, w) ==
  \E r \in receipts : /\ r.call = c /\ r.mode = w.scenario.mode
                      /\ w.answer = "success" => r.effects = 1

Receipted(c, w) ==
  ~w.reset /\ w.action # "syncUsers" =>
    /\ w.stage = "receipt" /\ w.answer = "success" => w.counted = 1
    /\ w.stage = "returned" /\ w.answer \in {"success", "permanent", "retryable"} => HasReceipt(c, w)

Sound(c, w) == Known(w) /\ Kept(w) /\ Receipted(c, w)
CallsAreSound == \A c \in Calls : call[c] # None => Sound(c, call[c])

\* What the platform was told is the answer of a call that is over.
ToldTruly(c) ==
  told[c] \in Answers \cup Sources =>
    call[c] # None /\ call[c].stage = "returned" /\ told[c] = call[c].answer
AllToldTruly == \A c \in Calls : ToldTruly(c)

\* Scenarios are numbered as they are configured; the one that waits is no call's.
Numbered ==
  /\ armed # None => armed.number \in 1..arms
  /\ \A c \in Calls : call[c] # None =>
       /\ call[c].scenario.number =< arms
       /\ armed # None => call[c].scenario.number # armed.number
  /\ ScenarioIsPlayedOnce

Typed ==
  /\ results \in [Keys -> Sources \cup {None}]
  /\ effects \subseteq Keys
  /\ arms \in 0..MaxArms /\ armed \in Scenarios \cup {None}
  /\ call \in [Calls -> CallRecord \cup {None}]
  /\ told \in [Calls -> Answers \cup Sources \cup {None, "waiting", "unknown"}]

WebsiteInv == Typed /\ CallsAreSound /\ AllToldTruly /\ Numbered

-----------------------------------------------------------------------------
(* One call *)

LEMMA Fields ==
  ASSUME NEW w \in CallRecord
  PROVE  /\ w.stage \in Stages /\ w.action \in Actions /\ w.key \in Keys
         /\ w.source \in Sources \cup {None} /\ w.scenario \in Scenarios
         /\ w.late \in BOOLEAN /\ w.aborted \in BOOLEAN
         /\ w.answer \in Answers \cup Sources \cup {None}
         /\ w.counted \in {0, 1} /\ w.wrote \in BOOLEAN /\ w.reset \in BOOLEAN
BY DEF CallRecord

\* Nothing that was stored is replaced.
TablesGrow ==
  /\ \A k \in Keys : results[k] # None => results'[k] = results[k]
  /\ effects \subseteq effects' /\ receipts \subseteq receipts'

LEMMA StaysSound ==
  ASSUME WorkerAssumption, NEW c, NEW w \in CallRecord, Sound(c, w), TablesGrow
  PROVE  Sound(c, w)'
<1>1. Kept(w)'
  <2>1. w.answer \in Sources => w.answer # None
    BY DEF WorkerAssumption
  <2>. QED  BY <2>1, Fields DEF Sound, Kept, TablesGrow
<1>2. HasReceipt(c, w) => HasReceipt(c, w)'
  BY DEF HasReceipt, TablesGrow
<1>3. Receipted(c, w)'
  BY <1>2 DEF Sound, Receipted
<1>. QED  BY <1>1, <1>3 DEF Sound, Known, IsAnswered

\* A call moves, with its scenario, and nobody is told.
Moves(c) ==
  /\ call[c] # None /\ call[c].stage # "returned"
  /\ \E w \in CallRecord :
       call' = [call EXCEPT ![c] = w] /\ Sound(c, w)' /\ w.scenario = call[c].scenario
  /\ results' \in [Keys -> Sources \cup {None}] /\ effects' \subseteq Keys /\ TablesGrow
  /\ told' = told /\ arms' = arms /\ armed' = armed

\* A call that moves without touching the tables.
LEMMA QuietMove ==
  ASSUME WebsiteInv, NEW c \in Calls, call[c] # None, call[c].stage # "returned",
         NEW w \in CallRecord, call' = [call EXCEPT ![c] = w], Sound(c, w),
         w.scenario = call[c].scenario, UNCHANGED <<Tables, told>>
  PROVE  Moves(c)
<1>1. UNCHANGED <<results, effects, receipts, arms, armed, told>>
  BY DEF Tables
<1>2. Sound(c, w)'
  BY <1>1 DEF Sound, Known, IsAnswered, Kept, Receipted, HasReceipt
<1>. QED  BY <1>1, <1>2 DEF Moves, TablesGrow, WebsiteInv, Typed

\* The stages before the answer differ in what was written only.
LEMMA GotoMoves ==
  ASSUME WebsiteInv, NEW c \in Calls, call[c] # None, NEW stage \in Stages,
         ~IsAnswered(call[c]), stage \notin {"count", "receipt", "returned"},
         stage \in Early => ~call[c].wrote,
         Goto(c, stage), UNCHANGED <<Tables, told>>
  PROVE  Moves(c)
<1>. DEFINE k == call[c]
            w == [k EXCEPT !.stage = stage]
<1>1. k \in CallRecord /\ Sound(c, k)
  BY DEF WebsiteInv, Typed, CallsAreSound
<1>2. w \in CallRecord /\ w.stage = stage /\ w.answer = k.answer /\ w.wrote = k.wrote
      /\ w.key = k.key /\ w.action = k.action /\ w.scenario = k.scenario /\ w.reset = k.reset
  BY <1>1 DEF CallRecord
<1>3. call' = [call EXCEPT ![c] = w]
  BY DEF Goto
<1>4. Known(w)
  BY <1>1, <1>2 DEF Sound, Known, IsAnswered
<1>5. Kept(w) /\ Receipted(c, w)
  BY <1>1, <1>2 DEF Sound, Kept, Receipted
<1>. QED  BY <1>2, <1>3, <1>4, <1>5, QuietMove DEF Sound, IsAnswered

\* An answer before or without a write; a stored result is one that is in the table.
LEMMA AnswerMoves ==
  ASSUME WorkerAssumption, WebsiteInv, NEW c \in Calls, call[c] # None, ~IsAnswered(call[c]),
         NEW answer \in (Answers \ {"success"}) \cup Sources,
         answer \in {"permanent", "retryable"} => ~call[c].wrote,
         answer \in Sources => results[call[c].key] = answer,
         Answer(c, answer), UNCHANGED <<Tables, told>>
  PROVE  Moves(c)
<1>. DEFINE k == call[c]
            w == [k EXCEPT !.answer = answer, !.stage = OnTheWayOut(c)]
<1>1. k \in CallRecord /\ Sound(c, k) /\ OnTheWayOut(c) \in {"returned", "count"} /\ answer # None
      /\ answer # "success"
  BY DEF WebsiteInv, Typed, CallsAreSound, OnTheWayOut, WorkerAssumption, Answers
<1>2. w \in CallRecord /\ w.stage = OnTheWayOut(c) /\ w.answer = answer /\ w.wrote = k.wrote
      /\ w.key = k.key /\ w.action = k.action /\ w.scenario = k.scenario /\ w.reset = k.reset
  <2>1. OnTheWayOut(c) \in Stages /\ answer \in Answers \cup Sources \cup {None}
    BY <1>1 DEF Stages
  <2>. QED  BY <1>1, <2>1 DEF CallRecord
<1>3. call' = [call EXCEPT ![c] = w]
  BY DEF Answer
<1>4. Known(w)
  BY <1>1, <1>2 DEF Known, IsAnswered, Early
<1>5. Kept(w)
  BY <1>1, <1>2 DEF Kept
<1>6. Receipted(c, w)
  BY <1>1, <1>2 DEF Receipted, OnTheWayOut
<1>. QED  BY <1>2, <1>3, <1>4, <1>5, <1>6, QuietMove DEF Sound, IsAnswered

LEMMA OthersStaySound ==
  ASSUME WorkerAssumption, WebsiteInv, NEW c \in Calls, NEW w \in CallRecord,
         call' = [call EXCEPT ![c] = w], Sound(c, w)', TablesGrow
  PROVE  CallsAreSound' /\ call' \in [Calls -> CallRecord \cup {None}]
<1>1. call \in [Calls -> CallRecord \cup {None}]
  BY DEF WebsiteInv, Typed
<1>2. ASSUME NEW d \in Calls, call'[d] # None PROVE Sound(d, call[d])'
  <2>1. CASE d = c
    <3>1. call'[d] = w
      BY <1>1, <2>1
    <3>. QED  BY <2>1, <3>1 DEF Sound, Known, IsAnswered, Kept, Receipted, HasReceipt
  <2>2. CASE d # c
    <3>1. call'[d] = call[d] /\ call[d] \in CallRecord
      BY <1>1, <1>2, <2>2
    <3>2. PICK v \in CallRecord : v = call[d]
      BY <3>1
    <3>3. Sound(d, v)
      BY <1>2, <3>1, <3>2 DEF WebsiteInv, CallsAreSound
    <3>4. Sound(d, v)'
      BY <3>3, StaysSound
    <3>. QED  BY <3>1, <3>2, <3>4 DEF Sound, Known, IsAnswered, Kept, Receipted, HasReceipt
  <2>. QED  BY <2>1, <2>2
<1>3. CallsAreSound'
  BY <1>2 DEF CallsAreSound
<1>. QED  BY <1>1, <1>3

LEMMA ToldStays ==
  ASSUME WorkerAssumption, WebsiteInv, NEW c \in Calls, NEW w \in CallRecord,
         call[c] # None => call[c].stage # "returned", call' = [call EXCEPT ![c] = w],
         told' \in {told, [told EXCEPT ![c] = "waiting"]}
  PROVE  /\ AllToldTruly'
         /\ told' \in [Calls -> Answers \cup Sources \cup {None, "waiting", "unknown"}]
<1>1. call \in [Calls -> CallRecord \cup {None}]
      /\ told \in [Calls -> Answers \cup Sources \cup {None, "waiting", "unknown"}]
  BY DEF WebsiteInv, Typed
<1>2. ASSUME NEW d \in Calls, told'[d] \in Answers \cup Sources
      PROVE  call'[d] # None /\ call'[d].stage = "returned" /\ told'[d] = call'[d].answer
  <2>1. "waiting" \notin Answers \cup Sources
    BY DEF WorkerAssumption, Answers
  <2>2. told'[d] = told[d]
    BY <1>1, <1>2, <2>1
  <2>3. call[d] # None /\ call[d].stage = "returned" /\ told[d] = call[d].answer
    BY <1>2, <2>2 DEF WebsiteInv, AllToldTruly, ToldTruly
  <2>4. d # c
    BY <2>3
  <2>. QED  BY <1>1, <2>2, <2>3, <2>4
<1>. QED  BY <1>1, <1>2 DEF AllToldTruly, ToldTruly

LEMMA MovesInv ==
  ASSUME WorkerAssumption, WebsiteInv, NEW c \in Calls, Moves(c)
  PROVE  WebsiteInv'
<1>1. PICK w \in CallRecord :
        call' = [call EXCEPT ![c] = w] /\ Sound(c, w)' /\ w.scenario = call[c].scenario
  BY Zenon DEF Moves
<1>2. CallsAreSound' /\ call' \in [Calls -> CallRecord \cup {None}]
  BY <1>1, OthersStaySound DEF Moves
<1>3. AllToldTruly' /\ told' \in [Calls -> Answers \cup Sources \cup {None, "waiting", "unknown"}]
  BY <1>1, ToldStays DEF Moves
<1>4. Typed'
  BY <1>2, <1>3 DEF Typed, Moves, WebsiteInv
<1>5. Numbered'
  <2>1. \A d \in Calls : call'[d] # None => call[d] # None /\ call'[d].scenario = call[d].scenario
    BY <1>1 DEF Moves, WebsiteInv, Typed
  <2>2. arms' = arms /\ armed' = armed
    BY DEF Moves
  <2>3. ScenarioIsPlayedOnce'
    BY <2>1 DEF WebsiteInv, Numbered, ScenarioIsPlayedOnce
  <2>. QED  BY <2>1, <2>2, <2>3 DEF WebsiteInv, Numbered
<1>. QED  BY <1>2, <1>3, <1>4, <1>5 DEF WebsiteInv

-----------------------------------------------------------------------------
(* The handler and its Actions *)

\* A call that has not answered has nothing to answer yet.
LEMMA CallIs ==
  ASSUME WebsiteInv, NEW c \in Calls, call[c] # None
  PROVE  /\ call[c] \in CallRecord /\ Sound(c, call[c])
         /\ call[c].stage \in Early => ~call[c].wrote
         /\ ~IsAnswered(call[c]) => call[c].answer = None
BY DEF WebsiteInv, Typed, CallsAreSound, Sound, Known

LEMMA RefuseMoves ==
  ASSUME WorkerAssumption, WebsiteInv, NEW c \in Calls, Refuse(c) PROVE Moves(c)
<1>1. call[c] # None /\ call[c].stage = "begin"
  BY DEF Refuse, At
<1>2. ~call[c].wrote /\ ~IsAnswered(call[c])
  BY <1>1, CallIs DEF Early, IsAnswered
<1>3. "permanent" \in Answers \ {"success"} /\ "permanent" \notin Sources
  BY DEF WorkerAssumption, Answers
<1>. QED  BY <1>1, <1>2, <1>3, AnswerMoves DEF Refuse

LEMMA BeginMoves ==
  ASSUME WorkerAssumption, WebsiteInv, NEW c \in Calls, Begin(c) PROVE Moves(c)
<1>1. call[c] # None /\ call[c].stage = "begin"
  BY DEF Begin, At
<1>2. ~call[c].wrote /\ ~IsAnswered(call[c])
  BY <1>1, CallIs DEF Early, IsAnswered
<1>3. "retryable" \in Answers \ {"success"} /\ "retryable" \notin Sources
  BY DEF WorkerAssumption, Answers
<1>4. CASE call[c].late
  BY <1>1, <1>2, <1>3, <1>4, AnswerMoves DEF Begin
<1>5. CASE ~call[c].late
  BY <1>1, <1>2, <1>5, GotoMoves DEF Begin, Stages
<1>. QED  BY <1>4, <1>5

LEMMA RunMoves ==
  ASSUME WorkerAssumption, WebsiteInv, NEW c \in Calls, Run(c) PROVE Moves(c)
<1>1. call[c] # None /\ call[c].stage = "run"
  BY DEF Run, At
<1>2. ~call[c].wrote /\ ~IsAnswered(call[c])
  BY <1>1, CallIs DEF Early, IsAnswered
<1>3. {"permanent", "retryable", "exception"} \cap Sources = {}
  BY DEF WorkerAssumption, Answers
<1>4. CASE Outcome(c) # None
  <2>1. Outcome(c) \in {"permanent", "retryable", "exception"}
    BY <1>4 DEF Outcome
  <2>2. Outcome(c) \in Answers \ {"success"} /\ Outcome(c) \notin Sources
    BY <1>3, <2>1 DEF Answers
  <2>. QED  BY <1>1, <1>2, <1>4, <2>2, AnswerMoves DEF Run
<1>5. CASE Outcome(c) = None
  <2>1. Goto(c, "insert") \/ Goto(c, "effect")
    BY <1>5 DEF Run
  <2>. QED  BY <1>1, <1>2, <2>1, GotoMoves DEF Run, Stages
<1>. QED  BY <1>4, <1>5

LEMMA SelectMoves ==
  ASSUME WorkerAssumption, WebsiteInv, NEW c \in Calls, Select(c) PROVE Moves(c)
<1>1. call[c] # None /\ call[c].stage = "select"
  BY DEF Select, At
<1>2. ~IsAnswered(call[c]) /\ call[c].key \in Keys
  BY <1>1, CallIs, Fields DEF IsAnswered
<1>3. ({"permanent", "retryable", "exception"} \cap Sources) = {}
  BY DEF WorkerAssumption, Answers
<1>4. \/ Selected(c) = "exception"
      \/ Selected(c) \in Sources /\ Selected(c) = results[call[c].key]
  BY <1>2 DEF Selected, WebsiteInv, Typed
<1>5. /\ Selected(c) \in (Answers \ {"success"}) \cup Sources
      /\ Selected(c) \notin {"permanent", "retryable"}
      /\ Selected(c) \in Sources => results[call[c].key] = Selected(c)
  BY <1>3, <1>4 DEF Answers
<1>. QED  BY <1>1, <1>2, <1>5, AnswerMoves DEF Select

LEMMA WaitMoves ==
  ASSUME WorkerAssumption, WebsiteInv, NEW c \in Calls, WaitForAbort(c) PROVE Moves(c)
<1>1. call[c] # None /\ call[c].stage = "wait" /\ ~IsAnswered(call[c])
  BY DEF WaitForAbort, At, IsAnswered
<1>2. "exception" \in Answers \ {"success"} /\ "exception" \notin Sources
  BY DEF WorkerAssumption, Answers
<1>3. CASE AbortedAlready(c)
  BY <1>1, <1>2, <1>3, AnswerMoves DEF WaitForAbort
<1>4. CASE ~AbortedAlready(c)
  BY <1>1, <1>4, GotoMoves DEF WaitForAbort, Stages, Early
<1>. QED  BY <1>3, <1>4

\* A row is inserted where there was none.
LEMMA StoreGrows ==
  ASSUME WebsiteInv, NEW c \in Calls, call[c] # None,
         results' \in {results, [results EXCEPT ![call[c].key] = StoredAfter(c)]},
         effects' \in {effects, effects \cup {call[c].key}}, receipts' = receipts
  PROVE  TablesGrow /\ results' \in [Keys -> Sources \cup {None}] /\ effects' \subseteq Keys
<1>1. call[c].key \in Keys /\ call[c].source \in Sources \cup {None}
  BY CallIs, Fields
<1>2. StoredAfter(c) \in Sources \cup {None}
      /\ (results[call[c].key] # None => StoredAfter(c) = results[call[c].key])
  BY <1>1 DEF StoredAfter, WebsiteInv, Typed
<1>. QED  BY <1>1, <1>2 DEF TablesGrow, WebsiteInv, Typed

LEMMA InsertMoves ==
  ASSUME WorkerAssumption, WebsiteInv, NEW c \in Calls, Insert(c) PROVE Moves(c)
<1>. DEFINE k == call[c]
            n == [k EXCEPT !.stage = "select", !.wrote = TRUE]
<1>1. k # None /\ k.stage = "insert" /\ k \in CallRecord /\ k.answer = None
  BY CallIs DEF Insert, At, IsAnswered
<1>0. n \in CallRecord /\ n.stage = "select" /\ n.answer = None /\ n.scenario = k.scenario
  BY <1>1 DEF CallRecord, Stages
<1>2. PICK w \in CallRecord :
        w = n /\ w.stage = "select" /\ w.answer = None /\ w.scenario = k.scenario
  BY <1>0
<1>3. Sound(c, w)'
  BY <1>2 DEF Sound, Known, Kept, Receipted, IsAnswered, Early, WorkerAssumption, Answers
<1>4. TablesGrow /\ results' \in [Keys -> Sources \cup {None}] /\ effects' \subseteq Keys
  BY <1>1, StoreGrows DEF Insert
<1>5. call' = [call EXCEPT ![c] = w]
  BY <1>2 DEF Insert
<1>. QED  BY <1>1, <1>2, <1>3, <1>4, <1>5 DEF Insert, Moves

LEMMA EffectMoves ==
  ASSUME WorkerAssumption, WebsiteInv, NEW c \in Calls, Effect(c) PROVE Moves(c)
<1>. DEFINE k == call[c]
            stage == IF k.scenario.mode = "timeout_after_effect" THEN "wait" ELSE "count"
            n == [k EXCEPT !.wrote = TRUE, !.stage = stage, !.answer = AnswerAfterEffect(c)]
<1>1. k # None /\ k.stage = "effect" /\ k \in CallRecord
  BY CallIs DEF Effect, At
<1>2. \/ stage = "wait" /\ AnswerAfterEffect(c) = None
      \/ stage = "count" /\ AnswerAfterEffect(c) = "success"
  BY DEF AnswerAfterEffect
<1>0. /\ n \in CallRecord /\ n.stage = stage /\ n.answer = AnswerAfterEffect(c)
      /\ n.key = k.key /\ n.scenario = k.scenario
  <2>1. stage \in Stages /\ AnswerAfterEffect(c) \in Answers \cup Sources \cup {None}
    BY <1>2 DEF Stages, Answers
  <2>. QED  BY <1>1, <2>1 DEF CallRecord
<1>3. PICK w \in CallRecord :
        /\ w = n /\ w.key = k.key /\ w.scenario = k.scenario
        /\ \/ w.stage = "wait" /\ w.answer = None
           \/ w.stage = "count" /\ w.answer = "success"
  <2>. HIDE DEF n, stage
  <2>. QED  BY <1>0, <1>2
<1>4. call' = [call EXCEPT ![c] = w] /\ effects' = effects \cup {w.key}
  BY <1>3 DEF Effect
<1>5. Known(w)
  BY <1>3 DEF Known, IsAnswered, Early, WorkerAssumption, Answers
<1>6. Kept(w)'
  BY <1>3, <1>4 DEF Kept, WorkerAssumption, Answers
<1>7. Receipted(c, w)'
  BY <1>3 DEF Receipted
<1>8. TablesGrow /\ results' \in [Keys -> Sources \cup {None}] /\ effects' \subseteq Keys
  BY <1>1, StoreGrows DEF Effect
<1>9. Sound(c, w)'
  BY <1>5, <1>6, <1>7 DEF Sound, Known, IsAnswered
<1>. QED  BY <1>1, <1>3, <1>4, <1>8, <1>9 DEF Effect, Moves

LEMMA D1FailsMoves ==
  ASSUME WorkerAssumption, WebsiteInv, NEW c \in Calls, D1Fails(c) PROVE Moves(c)
<1>. DEFINE k == call[c]
<1>1. k # None /\ k.stage \in {"insert", "select", "effect"} /\ k \in CallRecord
  BY CallIs DEF D1Fails
<1>2. PICK done \in BOOLEAN :
        /\ results' = IF done /\ k.stage = "insert"
                      THEN [results EXCEPT ![k.key] = StoredAfter(c)] ELSE results
        /\ effects' = IF done /\ k.stage = "effect" THEN effects \cup {k.key} ELSE effects
        /\ call' = [call EXCEPT ![c].answer = "exception", ![c].stage = OnTheWayOut(c),
                                ![c].wrote = @ \/ done]
  BY DEF D1Fails
<1>. DEFINE n == [k EXCEPT !.answer = "exception", !.stage = OnTheWayOut(c), !.wrote = @ \/ done]
<1>0. n \in CallRecord /\ n.stage \in {"count", "returned"} /\ n.answer = "exception"
      /\ n.scenario = k.scenario
  BY <1>1 DEF CallRecord, Stages, Answers, OnTheWayOut
<1>3. PICK w \in CallRecord :
        w = n /\ w.stage \in {"count", "returned"} /\ w.answer = "exception" /\ w.scenario = k.scenario
  BY <1>0
<1>4. "exception" \notin Sources \cup {None}
  BY DEF WorkerAssumption, Answers
<1>5. call' = [call EXCEPT ![c] = w]
  BY <1>2, <1>3
<1>6. Sound(c, w)'
  BY <1>3, <1>4 DEF Sound, Known, Kept, Receipted, IsAnswered, Early
<1>7. TablesGrow /\ results' \in [Keys -> Sources \cup {None}] /\ effects' \subseteq Keys
  BY <1>1, <1>2, StoreGrows DEF D1Fails
<1>. QED  BY <1>1, <1>3, <1>5, <1>6, <1>7 DEF D1Fails, Moves

\* The way out with an exception, whatever was to be answered.
LEMMA ThrowMoves ==
  ASSUME WorkerAssumption, WebsiteInv, NEW c \in Calls, ReceiptFails(c) \/ Dies(c) PROVE Moves(c)
<1>. DEFINE k == call[c]
            w == [k EXCEPT !.stage = "returned", !.answer = "exception"]
<1>1. k # None /\ k.stage # "returned" /\ k \in CallRecord
  BY CallIs DEF ReceiptFails, Dies, At
<1>2. w \in CallRecord /\ w.stage = "returned" /\ w.answer = "exception" /\ w.scenario = k.scenario
  BY <1>1 DEF CallRecord, Stages, Answers
<1>3. "exception" \notin Sources \cup {None}
  BY DEF WorkerAssumption, Answers
<1>4. call' = [call EXCEPT ![c] = w] /\ UNCHANGED <<Tables, told>>
  BY DEF ReceiptFails, Dies
<1>. HIDE DEF w
<1>5. Sound(c, w)
  BY <1>2, <1>3 DEF Sound, Known, Kept, Receipted, IsAnswered, Early
<1>. QED  BY <1>1, <1>2, <1>4, <1>5, QuietMove

LEMMA DeadlineMoves ==
  ASSUME WorkerAssumption, WebsiteInv, NEW c \in Calls, Deadline(c) PROVE Moves(c)
<1>. DEFINE k == call[c]
            w == [k EXCEPT !.late = TRUE]
<1>1. k # None /\ k.stage # "returned" /\ k \in CallRecord /\ Sound(c, k)
  BY CallIs DEF Deadline
<1>2. /\ w \in CallRecord /\ w.stage = k.stage /\ w.answer = k.answer /\ w.wrote = k.wrote
      /\ w.key = k.key /\ w.action = k.action /\ w.scenario = k.scenario
      /\ w.reset = k.reset /\ w.counted = k.counted
  BY <1>1 DEF CallRecord
<1>3. call' = [call EXCEPT ![c] = w] /\ UNCHANGED <<Tables, told>>
  BY DEF Deadline
<1>. HIDE DEF w
<1>4. Sound(c, w)
  BY <1>1, <1>2 DEF Sound, Known, Kept, Receipted, HasReceipt, IsAnswered
<1>. QED  BY <1>1, <1>2, <1>3, <1>4, QuietMove

LEMMA AbortMoves ==
  ASSUME WorkerAssumption, WebsiteInv, NEW c \in Calls, Abort(c) PROVE Moves(c)
<1>. DEFINE k == call[c]
            listens == k.stage = "listen"
            w == [k EXCEPT !.aborted = TRUE, !.stage = IF listens THEN "count" ELSE @,
                           !.answer = IF listens THEN "exception" ELSE @]
<1>1. k # None /\ k.stage \in Running /\ k \in CallRecord /\ Sound(c, k)
  BY CallIs DEF Abort
<1>2. /\ w \in CallRecord /\ w.wrote = k.wrote /\ w.key = k.key /\ w.action = k.action
      /\ w.scenario = k.scenario /\ w.reset = k.reset /\ w.counted = k.counted
      /\ listens => w.stage = "count" /\ w.answer = "exception"
      /\ ~listens => w.stage = k.stage /\ w.answer = k.answer
  BY <1>1 DEF CallRecord, Stages, Answers
<1>3. call' = [call EXCEPT ![c] = w] /\ UNCHANGED <<Tables, told>>
  BY DEF Abort
<1>4. "exception" \notin Sources \cup {None} /\ k.stage # "returned"
  BY <1>1 DEF WorkerAssumption, Answers, Running
<1>. HIDE DEF w
<1>5. Sound(c, w)
  <2>1. CASE listens
    BY <1>2, <1>4, <2>1 DEF Sound, Known, Kept, Receipted, IsAnswered, Early
  <2>2. CASE ~listens
    BY <1>1, <1>2, <2>2 DEF Sound, Known, Kept, Receipted, HasReceipt, IsAnswered
  <2>. QED  BY <2>1, <2>2
<1>. QED  BY <1>1, <1>2, <1>3, <1>4, <1>5, QuietMove

\* The receipt counts the effect that a success has.
LEMMA CountMoves ==
  ASSUME WorkerAssumption, WebsiteInv, NEW c \in Calls, CountEffects(c) PROVE Moves(c)
<1>. DEFINE k == call[c]
            n == IF k.key \in effects THEN 1 ELSE 0
            w == [k EXCEPT !.stage = "receipt", !.counted = n]
<1>1. k # None /\ k.stage = "count" /\ k \in CallRecord /\ Sound(c, k)
  BY CallIs DEF CountEffects, At
<1>2. /\ w \in CallRecord /\ w.wrote = k.wrote /\ w.key = k.key /\ w.action = k.action
      /\ w.scenario = k.scenario /\ w.reset = k.reset /\ w.stage = "receipt"
      /\ w.answer = k.answer /\ w.counted = n
  BY <1>1 DEF CallRecord, Stages
<1>3. call' = [call EXCEPT ![c] = w] /\ UNCHANGED <<Tables, told>>
  BY DEF CountEffects
<1>. HIDE DEF w
<1>4. Sound(c, w)
  BY <1>1, <1>2 DEF Sound, Known, Kept, Receipted, IsAnswered, Early
<1>. QED  BY <1>1, <1>2, <1>3, <1>4, QuietMove

LEMMA ReceiptMoves ==
  ASSUME WorkerAssumption, WebsiteInv, NEW c \in Calls, InsertReceipt(c) PROVE Moves(c)
<1>. DEFINE k == call[c]
            r == [call |-> c, mode |-> k.scenario.mode, effects |-> k.counted]
            n == [k EXCEPT !.stage = "returned"]
<1>1. k # None /\ k.stage = "receipt" /\ k \in CallRecord /\ Sound(c, k)
  BY CallIs DEF InsertReceipt, At
<1>0. /\ n \in CallRecord /\ n.wrote = k.wrote /\ n.key = k.key /\ n.action = k.action
      /\ n.scenario = k.scenario /\ n.reset = k.reset /\ n.stage = "returned"
      /\ n.answer = k.answer /\ n.counted = k.counted
  BY <1>1 DEF CallRecord, Stages
<1>2. PICK w \in CallRecord :
        /\ w = n /\ w.wrote = k.wrote /\ w.key = k.key /\ w.action = k.action
        /\ w.scenario = k.scenario /\ w.reset = k.reset /\ w.stage = "returned"
        /\ w.answer = k.answer /\ w.counted = k.counted
  BY <1>0
<1>3. /\ call' = [call EXCEPT ![c] = w] /\ receipts' = receipts \cup {r}
      /\ UNCHANGED <<results, effects, armed, arms, told>>
  BY <1>2 DEF InsertReceipt, Goto
<1>4. Known(w) /\ Kept(w)'
  BY <1>1, <1>2, <1>3 DEF Sound, Known, Kept, IsAnswered, Early
<1>5. Receipted(c, w)'
  <2>1. PICK s \in receipts' : s.call = c /\ s.mode = w.scenario.mode /\ s.effects = w.counted
    <3>1. r \in receipts' /\ r.call = c /\ r.mode = k.scenario.mode /\ r.effects = k.counted
      BY <1>3
    <3>. HIDE DEF r, n
    <3>. QED  BY <1>2, <3>1
  <2>2. ~w.reset /\ w.action # "syncUsers" /\ w.answer = "success" => w.counted = 1
    BY <1>1, <1>2 DEF Sound, Receipted
  <2>3. ~w.reset /\ w.action # "syncUsers" => HasReceipt(c, w)'
    BY <2>1, <2>2 DEF HasReceipt
  <2>. QED  BY <1>2, <2>3 DEF Receipted
<1>6. Sound(c, w)'
  BY <1>4, <1>5 DEF Sound, Known, IsAnswered
<1>. QED  BY <1>1, <1>2, <1>3, <1>6 DEF Moves, TablesGrow, WebsiteInv, Typed

-----------------------------------------------------------------------------
(* Scenarios: who takes one, and who is new *)

\* One call is new or takes a number that nobody has.
LEMMA NumberTaken ==
  ASSUME WorkerAssumption, WebsiteInv, NEW c \in Calls, NEW w \in CallRecord,
         call' = [call EXCEPT ![c] = w], arms' = arms,
         \/ w.scenario.number = 0 /\ armed' \in {armed, None}
         \/ armed # None /\ w.scenario.number = armed.number /\ armed' = None
  PROVE  Numbered'
<1>1. /\ call'[c] = w /\ \A d \in Calls : d # c => call'[d] = call[d]
      /\ armed # None => armed.number \in 1..arms
      /\ arms \in Nat
  BY DEF WebsiteInv, Typed, Numbered, WorkerAssumption
<1>2. \A d \in Calls : call[d] # None =>
        call[d].scenario.number =< arms /\ (armed # None => call[d].scenario.number # armed.number)
  BY DEF WebsiteInv, Numbered
<1>3. w.scenario.number =< arms /\ (armed' # None => w.scenario.number # armed.number)
  BY <1>1
<1>4. ASSUME NEW d \in Calls, NEW e \in Calls, d # e, call'[d] # None, call'[e] # None,
             call'[d].scenario.number = call'[e].scenario.number
      PROVE  call'[d].scenario.number = 0
  <2>1. CASE d # c /\ e # c
    BY <1>1, <1>4, <2>1 DEF WebsiteInv, Numbered, ScenarioIsPlayedOnce
  <2>2. CASE d = c
    BY <1>1, <1>2, <1>4, <2>2
  <2>3. CASE e = c
    BY <1>1, <1>2, <1>4, <2>3
  <2>. QED  BY <2>1, <2>2, <2>3
<1>5. ScenarioIsPlayedOnce'
  BY <1>4 DEF ScenarioIsPlayedOnce
<1>6. \A d \in Calls : call'[d] # None =>
        call'[d].scenario.number =< arms /\ (armed' # None => call'[d].scenario.number # armed.number)
  BY <1>1, <1>2, <1>3
<1>. QED  BY <1>1, <1>5, <1>6 DEF Numbered

LEMMA StartInv ==
  ASSUME WorkerAssumption, WebsiteInv, NEW c \in Calls, Start(c) PROVE WebsiteInv'
<1>1. PICK a \in Actions, k \in Keys, s \in Sources :
        call' = [call EXCEPT ![c] = NewCall(a, k, IF a = "syncUsers" THEN s ELSE None)]
  BY DEF Start
<1>. DEFINE w == NewCall(a, k, IF a = "syncUsers" THEN s ELSE None)
<1>2. Default \in Scenarios
  BY DEF Default, Scenarios, WorkerAssumption
<1>3. /\ w \in CallRecord /\ w.stage \in {"begin", "take"} /\ w.answer = None /\ ~w.wrote
      /\ w.scenario.number = 0
  BY <1>2 DEF NewCall, CallRecord, Stages, Default
<1>4. /\ call[c] = None /\ call' = [call EXCEPT ![c] = w] /\ told' = [told EXCEPT ![c] = "waiting"]
      /\ UNCHANGED <<results, effects, armed, arms, receipts>>
  BY <1>1 DEF Start, Tables
<1>. HIDE DEF w
<1>5. Sound(c, w)
  BY <1>3 DEF Sound, Known, Kept, Receipted, IsAnswered, WorkerAssumption, Answers
<1>6. Sound(c, w)' /\ TablesGrow
  BY <1>4, <1>5 DEF Sound, Known, Kept, Receipted, HasReceipt, IsAnswered, TablesGrow
<1>7. CallsAreSound' /\ call' \in [Calls -> CallRecord \cup {None}]
  BY <1>3, <1>4, <1>6, OthersStaySound
<1>8. AllToldTruly' /\ told' \in [Calls -> Answers \cup Sources \cup {None, "waiting", "unknown"}]
  BY <1>3, <1>4, ToldStays
<1>9. Numbered'
  BY <1>3, <1>4, NumberTaken
<1>. QED  BY <1>4, <1>7, <1>8, <1>9 DEF WebsiteInv, Typed

LEMMA TakeInv ==
  ASSUME WorkerAssumption, WebsiteInv, NEW c \in Calls, Take(c) PROVE WebsiteInv'
<1>. DEFINE k == call[c]
            s == IF armed = None THEN Default ELSE armed
            m == IF k.action = "nonIdempotentScenario" THEN "non_idempotent_failure" ELSE s.mode
            sc == [mode |-> m, number |-> s.number]
            v == [k EXCEPT !.scenario = sc]
            n == IF m \in {"malformed_result", "identity_mismatch"}
                 THEN [v EXCEPT !.answer = m, !.stage = "count"] ELSE [v EXCEPT !.stage = "begin"]
<1>1. k # None /\ k.stage = "take" /\ k \in CallRecord /\ Sound(c, k) /\ k.answer = None /\ ~k.wrote
  BY CallIs DEF Take, At, IsAnswered, Early
<1>2. sc \in Scenarios
  <2>1. s \in Scenarios
    BY DEF WebsiteInv, Typed, Default, Scenarios, WorkerAssumption
  <2>. QED  BY <2>1 DEF Scenarios
<1>3. v \in CallRecord /\ v.answer = None /\ v.wrote = k.wrote /\ v.scenario = sc
  <2>. HIDE DEF sc
  <2>. QED  BY <1>1, <1>2 DEF CallRecord
<1>4. \/ /\ n \in CallRecord /\ n.stage = "count" /\ n.answer \in {"malformed_result", "identity_mismatch"}
         /\ n.scenario = sc
      \/ n \in CallRecord /\ n.stage = "begin" /\ n.answer = None /\ ~n.wrote /\ n.scenario = sc
  <2>. HIDE DEF v, m, sc
  <2>. QED  BY <1>1, <1>3 DEF CallRecord, Stages, Answers
<1>5. /\ call' = [call EXCEPT ![c] = n] /\ armed' = None
      /\ UNCHANGED <<results, effects, arms, receipts, told>>
  BY DEF Take, ArmedAfter
<1>6. PICK w \in CallRecord :
        /\ w = n /\ w.scenario = sc
        /\ \/ w.stage = "count" /\ w.answer \in {"malformed_result", "identity_mismatch"}
           \/ w.stage = "begin" /\ w.answer = None /\ ~w.wrote
  <2>. HIDE DEF n, sc
  <2>. QED  BY <1>4
<1>7. call' = [call EXCEPT ![c] = w]
  BY <1>5, <1>6
<1>8. \/ w.scenario.number = 0 /\ armed = None
      \/ armed # None /\ w.scenario.number = armed.number
  <2>. HIDE DEF n, m
  <2>. QED  BY <1>6 DEF Default
<1>. HIDE DEF n, sc
<1>9. Sound(c, w)
  <2>1. {"malformed_result", "identity_mismatch"} \cap Sources = {}
        /\ None \notin {"malformed_result", "identity_mismatch"} \cup Sources \cup {"success", "permanent", "retryable"}
    BY DEF WorkerAssumption, Answers
  <2>. QED  BY <1>6, <2>1 DEF Sound, Known, Kept, Receipted, IsAnswered, Early
<1>10. Sound(c, w)' /\ TablesGrow
  BY <1>5, <1>9 DEF Sound, Known, Kept, Receipted, HasReceipt, IsAnswered, TablesGrow
<1>11. CallsAreSound' /\ call' \in [Calls -> CallRecord \cup {None}]
  BY <1>7, <1>10, OthersStaySound
<1>12. AllToldTruly' /\ told' \in [Calls -> Answers \cup Sources \cup {None, "waiting", "unknown"}]
  BY <1>1, <1>5, <1>7, ToldStays
<1>13. Numbered'
  BY <1>5, <1>7, <1>8, NumberTaken
<1>. QED  BY <1>5, <1>11, <1>12, <1>13 DEF WebsiteInv, Typed

-----------------------------------------------------------------------------
(* The platform, and the tests' own routes *)

LEMMA HearInv ==
  ASSUME WorkerAssumption, WebsiteInv, NEW c \in Calls, Hear(c) \/ GiveUp(c) PROVE WebsiteInv'
<1>1. \/ told' = [told EXCEPT ![c] = "unknown"]
      \/ Hear(c) /\ told' = [told EXCEPT ![c] = call[c].answer]
  <2>1. CASE Hear(c)
    <3>1. told' = [told EXCEPT ![c] = Believed(call[c].answer)]
      BY <2>1 DEF Hear
    <3>2. Believed(call[c].answer) = "unknown" \/ Believed(call[c].answer) = call[c].answer
      BY DEF Believed
    <3>. QED  BY <2>1, <3>1, <3>2
  <2>2. CASE GiveUp(c)
    BY <2>2 DEF GiveUp
  <2>. QED  BY <2>1, <2>2
<1>2. UNCHANGED <<results, effects, armed, arms, receipts, call>>
  BY DEF Hear, GiveUp, Tables
<1>3. Hear(c) => call[c] # None /\ call[c].stage = "returned"
                 /\ call[c].answer \in Answers \cup Sources \cup {None}
  BY Fields DEF Hear, Returned, At, WebsiteInv, Typed
<1>4. told' \in [Calls -> Answers \cup Sources \cup {None, "waiting", "unknown"}]
  BY <1>1, <1>3 DEF WebsiteInv, Typed
<1>5. ASSUME NEW d \in Calls, told'[d] \in Answers \cup Sources
      PROVE  call[d] # None /\ call[d].stage = "returned" /\ told'[d] = call[d].answer
  <2>1. CASE d = c
    <3>1. Hear(c) /\ told'[d] = call[d].answer
      BY <1>1, <1>5, <2>1 DEF WebsiteInv, Typed, WorkerAssumption, Answers
    <3>. QED  BY <1>1, <1>3, <2>1, <3>1
  <2>2. CASE d # c
    <3>1. told'[d] = told[d]
      BY <1>1, <2>2 DEF WebsiteInv, Typed
    <3>. QED  BY <1>5, <3>1 DEF WebsiteInv, AllToldTruly, ToldTruly
  <2>. QED  BY <2>1, <2>2
<1>6. AllToldTruly'
  BY <1>2, <1>5 DEF AllToldTruly, ToldTruly
<1>7. CallsAreSound' /\ Numbered'
  BY <1>2 DEF WebsiteInv, CallsAreSound, Sound, Known, IsAnswered, Kept, Receipted, HasReceipt,
              Numbered, ScenarioIsPlayedOnce
<1>. QED  BY <1>2, <1>4, <1>6, <1>7 DEF WebsiteInv, Typed

LEMMA ArmInv == ASSUME WorkerAssumption, WebsiteInv, Arm PROVE WebsiteInv'
<1>1. PICK m \in Modes : armed' = [mode |-> m, number |-> arms + 1]
  BY DEF Arm
<1>2. arms \in Nat /\ arms < MaxArms /\ MaxArms \in Nat /\ arms' = arms + 1
      /\ UNCHANGED <<results, effects, receipts, call, told>>
  BY DEF Arm, WebsiteInv, Typed, WorkerAssumption
<1>3. armed' \in Scenarios /\ armed'.number = arms'
  BY <1>1, <1>2 DEF Scenarios
<1>4. \A d \in Calls : call[d] # None =>
        call[d].scenario.number \in Nat /\ call[d].scenario.number =< arms
  BY Fields DEF WebsiteInv, Typed, Numbered, Scenarios
<1>5. Numbered'
  <2>1. ScenarioIsPlayedOnce'
    BY <1>2 DEF WebsiteInv, Numbered, ScenarioIsPlayedOnce
  <2>. QED  BY <1>2, <1>3, <1>4, <2>1 DEF Numbered
<1>6. CallsAreSound' /\ AllToldTruly'
  BY <1>2 DEF WebsiteInv, CallsAreSound, Sound, Known, IsAnswered, Kept, Receipted, HasReceipt,
              AllToldTruly, ToldTruly
<1>. QED  BY <1>2, <1>3, <1>5, <1>6 DEF WebsiteInv, Typed

LEMMA ResetInv == ASSUME WorkerAssumption, WebsiteInv, Reset PROVE WebsiteInv'
<1>1. /\ results' = [k \in Keys |-> None] /\ effects' = {} /\ armed' = None /\ receipts' = {}
      /\ call' = [c \in Calls |-> IF call[c] = None THEN None ELSE [call[c] EXCEPT !.reset = TRUE]]
      /\ UNCHANGED <<arms, told>>
  BY DEF Reset
<1>2. ASSUME NEW c \in Calls, call[c] # None
      PROVE  /\ call'[c] \in CallRecord /\ call'[c] # None
             /\ call'[c].reset /\ call'[c].stage = call[c].stage /\ call'[c].answer = call[c].answer
             /\ call'[c].wrote = call[c].wrote /\ call'[c].scenario = call[c].scenario
  <2>1. call'[c] = [call[c] EXCEPT !.reset = TRUE] /\ call[c] \in CallRecord
    BY <1>1, <1>2, CallIs
  <2>2. call'[c] \in CallRecord
    BY <2>1 DEF CallRecord
  <2>. QED  BY <2>1, <2>2 DEF CallRecord, WorkerAssumption
<1>3. \A c \in Calls : call[c] = None => call'[c] = None
  BY <1>1
<1>4. call' \in [Calls -> CallRecord \cup {None}]
  BY <1>1, <1>2
<1>5. ASSUME NEW c \in Calls, call'[c] # None PROVE Sound(c, call[c])'
  <2>1. call[c] # None /\ Sound(c, call[c])
    BY <1>3, <1>5 DEF WebsiteInv, CallsAreSound
  <2>. QED  BY <1>2, <2>1 DEF Sound, Known, IsAnswered, Kept, Receipted
<1>6. CallsAreSound'
  BY <1>5 DEF CallsAreSound
<1>7. AllToldTruly'
  BY <1>1, <1>2 DEF WebsiteInv, AllToldTruly, ToldTruly
<1>8. Numbered'
  <2>1. ScenarioIsPlayedOnce'
    BY <1>2, <1>3 DEF WebsiteInv, Numbered, ScenarioIsPlayedOnce
  <2>. QED  BY <1>1, <1>2, <1>3, <2>1 DEF WebsiteInv, Numbered
<1>. QED  BY <1>1, <1>4, <1>6, <1>7, <1>8 DEF WebsiteInv, Typed

-----------------------------------------------------------------------------
(* The invariant is inductive *)

LEMMA InitInv == ASSUME WorkerAssumption PROVE Init => WebsiteInv
<1>1. None \notin Answers \cup Sources
  BY DEF WorkerAssumption
<1>. QED  BY <1>1 DEF Init, WebsiteInv, Typed, CallsAreSound, AllToldTruly, ToldTruly, Numbered,
               ScenarioIsPlayedOnce, WorkerAssumption

LEMMA NextInv == ASSUME WorkerAssumption PROVE WebsiteInv /\ [Next]_vars => WebsiteInv'
<1>. SUFFICES ASSUME WebsiteInv, [Next]_vars PROVE WebsiteInv'
  OBVIOUS
<1>1. ASSUME NEW c \in Calls, Step(c) PROVE WebsiteInv'
  BY <1>1, TakeInv, BeginMoves, RunMoves, InsertMoves, SelectMoves, EffectMoves, WaitMoves,
     CountMoves, ReceiptMoves, MovesInv DEF Step
<1>2. ASSUME NEW c \in Calls,
             Refuse(c) \/ Abort(c) \/ D1Fails(c) \/ ReceiptFails(c) \/ Dies(c) \/ Deadline(c)
      PROVE  WebsiteInv'
  BY <1>2, RefuseMoves, AbortMoves, D1FailsMoves, ThrowMoves, DeadlineMoves, MovesInv
<1>3. ASSUME NEW c \in Calls, Start(c) \/ Hear(c) \/ GiveUp(c) PROVE WebsiteInv'
  BY <1>3, StartInv, HearInv
<1>4. CASE Arm \/ Reset
  BY <1>4, ArmInv, ResetInv
<1>5. CASE UNCHANGED vars
  BY <1>5 DEF vars, WebsiteInv, Typed, CallsAreSound, Sound, Known, IsAnswered, Kept, Receipted,
              HasReceipt, AllToldTruly, ToldTruly, Numbered, ScenarioIsPlayedOnce
<1>. QED  BY <1>1, <1>2, <1>3, <1>4, <1>5 DEF Next

\* However many calls of one key run at once, whatever fails under them and whatever
\* the tests configure and reset, the invariant holds.
THEOREM WebsiteInvariant == ASSUME WorkerAssumption PROVE Spec => []WebsiteInv
BY InitInv, NextInv, PTL DEF Spec

-----------------------------------------------------------------------------
(* What it shows *)

\* The tables and calls have their shapes, and who has returned has an answer.
THEOREM WebsiteTypeCorrect == ASSUME WorkerAssumption PROVE Spec => []TypeOK
<1>1. WebsiteInv => TypeOK
  BY DEF WebsiteInv, Typed, TypeOK, CallsAreSound, Sound, Known, IsAnswered
<1>. QED  BY <1>1, WebsiteInvariant, PTL

\* A success the platform believes is the stored result of its key; a definite
\* failure has written nothing; a scenario that was answered has left its receipt.
THEOREM AnswersStayEarned ==
  ASSUME WorkerAssumption
  PROVE  Spec => [](SuccessIsStored /\ FailureHasNoEffect /\ AnswerHasReceipt)
<1>1. WebsiteInv => SuccessIsStored /\ FailureHasNoEffect /\ AnswerHasReceipt
  <2>. SUFFICES ASSUME WebsiteInv PROVE SuccessIsStored /\ FailureHasNoEffect /\ AnswerHasReceipt
    OBVIOUS
  <2>1. \A c \in Calls : told[c] \in Answers \cup Sources =>
          /\ call[c] # None /\ call[c].stage = "returned" /\ told[c] = call[c].answer
          /\ Sound(c, call[c])
    BY DEF WebsiteInv, AllToldTruly, ToldTruly, CallsAreSound
  <2>2. {"success", "permanent", "retryable"} \subseteq Answers
    BY DEF Answers
  <2>3. SuccessIsStored
    BY <2>1, <2>2 DEF SuccessIsStored, Sound, Kept
  <2>4. FailureHasNoEffect
    BY <2>1, <2>2 DEF FailureHasNoEffect, Sound, Known
  <2>5. AnswerHasReceipt
    BY <2>1, <2>2 DEF AnswerHasReceipt, Sound, Receipted, HasReceipt
  <2>. QED  BY <2>3, <2>4, <2>5
<1>. QED  BY <1>1, WebsiteInvariant, PTL

\* A configured scenario is played by one call.
THEOREM ScenariosArePlayedOnce ==
  ASSUME WorkerAssumption PROVE Spec => []ScenarioIsPlayedOnce
<1>1. WebsiteInv => ScenarioIsPlayedOnce
  BY DEF WebsiteInv, Numbered
<1>. QED  BY <1>1, WebsiteInvariant, PTL
=============================================================================
