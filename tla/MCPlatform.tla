----------------------------- MODULE MCPlatform -----------------------------
(* The parts of Platform on small instances.  In a behaviour one of them    *)
(* moves, and the others stay in one of their initial states: they share no *)
(* state, so every order of their steps shows them the same.               *)
EXTENDS Platform, TLC

CONSTANTS a1, a2, a3, b1, b2, c1, c2, e1, e2, e3, open, done,
          Moving  \* the parts that move, one per behaviour

VARIABLES part

-----------------------------------------------------------------------------
(* Tick: one with a pool of two workers over three executions, one of them  *)
(* with a longer timeout; or two that find an execution at most              *)
Timeouts == e1 :> 1 @@ e2 :> 1 @@ e3 :> 2

TickWithin ==
  CASE part = "pool" -> tick[b2].phase = "idle"
    [] part = "heartbeat" -> \A t \in {b1, b2} : Len(tick[t].ready) =< 1

(* AdminMutations: requests of one actor with two keys, three of them for   *)
(* the switch or the settings, two for a Target or a check; the first to     *)
(* arrive is a1, its key b1                                                 *)
AdminSent == {req[r].q : r \in {r \in Requests : req[r] # Admin!Idle}}
AdminWithin ==
  /\ req[a1] = Admin!Idle => req[a2] = Admin!Idle
  /\ req[a2] = Admin!Idle => req[a3] = Admin!Idle
  /\ req[a1] # Admin!Idle => req[a1].q.key = b1
  /\ part = "settings" /\ req[a3] # Admin!Idle => req[a3].q.key = b1
  /\ \A q \in AdminSent : Admin!Entity[q.op] = part /\ (part # "settings" => q.body # "large")
  /\ \A q \in AdminSent : part = "settings" => q.body \notin Blanks /\ q.ifMatch \in {1, 2}
  /\ part \in {"check", "target"} => req[a3] = Admin!Idle
  /\ part # "check" => declared = {} /\ described = {}
  /\ part \in {"dispatch", "settings"} => state.target = NoRow

(* LoginLimit: four logins of one source, named as they come *)
LoginWithin ==
  \A p \in {<<a1, a2>>, <<a2, a3>>, <<a3, b1>>} :
    login[p[1]].stage = "new" => login[p[2]].stage = "new"

(* WebsiteWorker: two calls with one key or two, of syncUsers or of the test *)
(* Actions                                                                 *)
WebsiteWithin ==
  /\ call[b1] = None => call[b2] = None
  /\ call[b1] # None => call[b1].key = c1
  /\ \A c \in {b1, b2} : call[c] # None =>
       CASE part = "sync" -> call[c].action = "syncUsers" /\ arms = 0
         [] part = "scenario" ->
              call[c].action # "syncUsers" /\ call[c].key = c1 /\ (call[c].reset => call[b2] = None)
                /\ (c = b2 => call[c].action = "testScenario")

(* HistoryPaging: pages of two rows of a table of four.  Three of four rows: *)
(* ties on created_at in both orders of the ids, the older row before or    *)
(* after them, and a free id.                                              *)
PagingWithin == changes + reads =< 4

At(created, status) == [created |-> created, status |-> status]
Tables ==
  {t \in [1..4 -> {At(0, done), At(1, done), At(1, open), None}] :
     /\ \A i, j \in 1..4 : t[i] = t[j] => i = j
     /\ t[3] = None /\ t[2] # At(0, done)}
OneTable == CHOOSE t \in Tables : TRUE

(* CronDialect: entries and lists of two, in range or not *)
DialectWithin == Len(field.week) = 2 => field.week[2].step = Dialect!NoStep

-----------------------------------------------------------------------------
Ticking == {"pool", "heartbeat"}
Entities == {"dispatch", "target", "settings", "check"}
Websites == {"sync", "scenario"}

\* A part that does not move has one initial state.
MCInit ==
  /\ part \in Moving
  /\ Init /\ (part \notin Ticking => ~paused)
  /\ Admin!Init
  /\ state.settings.value = "small"
  /\ IF part \in Entities THEN AdminWithin
     ELSE declared = {} /\ described = {} /\ state.target = NoRow
  /\ Throttle!Init
  /\ Tab!Init /\ (part # "tab" => ~polling)
  /\ Website!Init
  /\ Paging!InitTable(IF part = "paging" THEN Tables ELSE {OneTable})
  /\ part # "paging" => list = "history" /\ ~params.sliding
  /\ IF part = "dialect" THEN Dialect!Init /\ DialectWithin
     ELSE /\ field = [anyDate |-> TRUE, week |-> <<Dialect!Star>>]
          /\ dialect = "absent" /\ stage = "site"
          /\ written = [rule |-> field, dialect |-> dialect, route |-> "sdk"]
  /\ Horizon!Init /\ (part # "horizon" => yearly = "new year")
  /\ Body!Init /\ (part # "body" => text = <<>> /\ isJson /\ length = 0)

MCNext ==
  /\ UNCHANGED part
  /\ \/ part \in Ticking  /\ TickMoves    /\ TickWithin'
     \/ part \in Entities /\ AdminMoves   /\ AdminWithin'
     \/ part = "login"    /\ LoginMoves   /\ LoginWithin'
     \/ part = "tab"      /\ TabMoves
     \/ part \in Websites /\ WebsiteMoves /\ WebsiteWithin'
     \/ part = "paging"   /\ PagingMoves  /\ PagingWithin'
     \/ part = "dialect"  /\ DialectMoves
     \/ part = "horizon"  /\ HorizonMoves
     \/ part = "body"     /\ BodyMoves

MCSpec == MCInit /\ [][MCNext]_<<part, platformVars>>
=============================================================================
