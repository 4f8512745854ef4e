------------------------------ MODULE Platform ------------------------------
(***************************************************************************)
(* The parts of the system that share no state with each other: a Tick and *)
(* its pool, the administrators' mutations, the throttle of their logins,  *)
(* a console tab and its session, a website that is called, an operator's  *)
(* walk through the history, a weekday field on its way to the schedule, a *)
(* schedule's next run and a body that is read.  They move in any order;   *)
(* what each of them does is in its module.                                *)
(***************************************************************************)
EXTENDS Tick

CONSTANTS
  Requests, Actors, IdempotencyKeys, Values, Operations,        \* AdminMutations
  Blanks, Actions,
  Logins, Window, Block, MaxFailures, MaxTime, NoBlock,         \* LoginLimit
  Tokens, TabCalls,                                             \* ConsoleSession
  WebsiteCalls, WebsiteKeys, Sources, Modes, MaxArms,           \* WebsiteWorker
  WebsiteActions,
  Ids, Statuses, Settled, AllStatuses, Lists, Limit, Lag,       \* HistoryPaging
  SlidingWindow, Retention, PagingTime, MaxChanges, MaxReads,
  Numbers, Steps, MaxAtoms,                                     \* CronDialect
  FirstYear, LastYear, Late,                                    \* CronHorizon
  MaxBytes, Widths, MaxCharacters,                              \* BoundedBody
  None

VARIABLES
  state, answers, audit, declared, described, req, deleted,
  now, limit, login, log,
  session, events, drawn, cookie, gate, polling, tab,
  results, effects, armed, arms, receipts, call, told,
  clock, rows, list, params, request, data, changes, reads, left, seen, steady,
  written, field, dialect, stage,
  date, yearly, schedule, next, failed, last,
  text, isJson, length, sent, chunks, size, outcome

Admin    == INSTANCE AdminMutations WITH Keys <- IdempotencyKeys
Throttle == INSTANCE LoginLimit
Tab      == INSTANCE ConsoleSession WITH Calls <- TabCalls, audit <- events, call <- tab
Website  == INSTANCE WebsiteWorker WITH
              Calls <- WebsiteCalls, Keys <- WebsiteKeys, Actions <- WebsiteActions
Paging   == INSTANCE HistoryPaging WITH
              Window <- SlidingWindow, MaxTime <- PagingTime, now <- clock
Dialect  == INSTANCE CronDialect WITH declared <- written, rule <- field
Horizon  == INSTANCE CronHorizon WITH now <- date, rule <- yearly, state <- schedule
Body     == INSTANCE BoundedBody WITH declared <- length

ASSUME AdminAssumption    == Admin!OperationsAssumption
ASSUME ThrottleAssumption == Throttle!LimitAssumption
ASSUME TabAssumption      == Tab!SessionAssumption
ASSUME WebsiteAssumption  == Website!WorkerAssumption
ASSUME HistoryAssumption  == Paging!PagingAssumption
ASSUME CronAssumption     == Dialect!DialectAssumption /\ Horizon!HorizonAssumption
ASSUME BoundAssumption    == Body!BodyAssumption

adminVars   == <<state, answers, audit, declared, described, req, deleted>>
loginVars   == <<now, limit, login, log>>
tabVars     == <<session, events, drawn, cookie, gate, polling, tab>>
websiteVars == <<results, effects, armed, arms, receipts, call, told>>
pagingVars  == <<clock, rows, list, params, request, data, changes, reads, left, seen, steady>>
dialectVars == <<written, field, dialect, stage>>
horizonVars == <<date, yearly, schedule, next, failed, last>>
bodyVars    == <<text, isJson, length, sent, chunks, size, outcome>>
platformVars == <<vars, adminVars, loginVars, tabVars, websiteVars, pagingVars, dialectVars,
                  horizonVars, bodyVars>>

-----------------------------------------------------------------------------
(* One part moves, the others stay as they are *)

TickMoves ==
  /\ UNCHANGED <<adminVars, loginVars, tabVars, websiteVars, pagingVars, dialectVars,
                 horizonVars, bodyVars>>
  /\ Next
AdminMoves ==
  /\ UNCHANGED <<vars, loginVars, tabVars, websiteVars, pagingVars, dialectVars, horizonVars,
                 bodyVars>>
  /\ Admin!Next
LoginMoves ==
  /\ UNCHANGED <<vars, adminVars, tabVars, websiteVars, pagingVars, dialectVars, horizonVars,
                 bodyVars>>
  /\ Throttle!Next
TabMoves ==
  /\ UNCHANGED <<vars, adminVars, loginVars, websiteVars, pagingVars, dialectVars, horizonVars,
                 bodyVars>>
  /\ Tab!Next
WebsiteMoves ==
  /\ UNCHANGED <<vars, adminVars, loginVars, tabVars, pagingVars, dialectVars, horizonVars,
                 bodyVars>>
  /\ Website!Next
PagingMoves ==
  /\ UNCHANGED <<vars, adminVars, loginVars, tabVars, websiteVars, dialectVars, horizonVars,
                 bodyVars>>
  /\ Paging!Next
DialectMoves ==
  /\ UNCHANGED <<vars, adminVars, loginVars, tabVars, websiteVars, pagingVars, horizonVars,
                 bodyVars>>
  /\ Dialect!Next
HorizonMoves ==
  /\ UNCHANGED <<vars, adminVars, loginVars, tabVars, websiteVars, pagingVars, dialectVars,
                 bodyVars>>
  /\ Horizon!Next
BodyMoves ==
  /\ UNCHANGED <<vars, adminVars, loginVars, tabVars, websiteVars, pagingVars, dialectVars,
                 horizonVars>>
  /\ Body!Next

PlatformInit ==
  /\ Init /\ Admin!Init /\ Throttle!Init /\ Tab!Init /\ Website!Init
  /\ Paging!Init /\ Dialect!Init /\ Horizon!Init /\ Body!Init

PlatformNext ==
  \/ TickMoves \/ AdminMoves \/ LoginMoves \/ TabMoves \/ WebsiteMoves
  \/ PagingMoves \/ DialectMoves \/ HorizonMoves \/ BodyMoves

PlatformSpec == PlatformInit /\ [][PlatformNext]_platformVars

-----------------------------------------------------------------------------
(* The properties, one for each of the systems: the modules state the parts *)
(* of each and say what they mean.  That of Tick is TicksAreAccountedFor.    *)

\* The types of all parts.
TypesOK ==
  /\ TypeOK /\ Admin!TypeOK /\ Throttle!TypeOK /\ Tab!TypeOK /\ Website!TypeOK
  /\ Paging!TypeOK /\ Dialect!TypeOK /\ Horizon!TypeOK /\ Body!TypeOK

\* However requests of an operator race, are repeated or lose their answer: the
\* effect of a key happens once, whoever is told of a success finds it in the audit
\* log, the log tells the history of every switch, of two edits of one revision one
\* succeeds, and no request that succeeded is told of a conflict (idempotentMutation).
MutationsHappenOnce ==
  /\ [](Admin!OncePerKey /\ Admin!SuccessHasItsEffect /\ Admin!StateIsAudited
          /\ Admin!NoLostUpdate)
  /\ Admin!ConflictIsNoSuccess

\* The count of a window is the number of its failures, those past the limit were
\* under way when it was reached, and a login is refused for no others
\* (admin-login-limit-repository).
FailuresAreCounted ==
  /\ [](Throttle!CountIsExact /\ Throttle!OverlapOnly)
  /\ Throttle!RefusedForAReason

\* The log says how every session ended, and once it has the pages are not shown
\* again without a session cookie (revoke, auth-gate logout).
SessionsEnd == Tab!EndsAreAudited /\ Tab!PagesNeedACookie

\* What the platform is told of a call is true of the website's tables, with several
\* calls of one key at once: a success is the key's stored result, a definite failure
\* wrote nothing, an answered scenario has its receipt, and no two calls play one
\* (worker-sdk cron, worker-data).
AnswersAreEarned ==
  /\ Website!SuccessIsStored
  /\ Website!FailureHasNoEffect
  /\ Website!AnswerHasReceipt
  /\ Website!ScenarioIsPlayedOnce

\* A walk through a list that changes meanwhile shows every row that was there all
\* the while, its pages do not overlap, it ends where the list ends, and a total is
\* never less than its page (history-pagination, run-history-repository).
WalksAreComplete ==
  /\ Paging!NothingSkipped
  /\ Paging!PagesAreAdjacent
  /\ Paging!EndIsTheEnd
  /\ Paging!TotalCoversPage

\* A rule runs on the days its website meant, whichever route declared it; once
\* accepted it is found by every later Tick, only one that never runs is refused, and
\* no run is passed over (cron-dialect, CronCalculator).
RulesRunAsMeant ==
  /\ Dialect!RunsOnTheDaysMeant /\ Dialect!OneParseDecides
  /\ Horizon!AcceptedIsFound /\ Horizon!OnlyTheImpossibleIsRefused /\ Horizon!NoRunBetween

\* What is kept of a body never passes the limit, and the answer is that of the body,
\* however the stream was cut (readBoundedJson).
BodiesAreBounded == Body!KeptIsBounded /\ Body!AnswerIsOfTheBody
=============================================================================
