---------------------------- MODULE HistoryPaging ----------------------------
(***************************************************************************)
(* The run history: pages of a table that grows, changes and is cleaned    *)
(* up while an operator walks through it.                                  *)
(*                                                                         *)
(* A page is cut by a keyset boundary on (created_at, id), newest first;   *)
(* the page and the counts come from one D1 batch, the two cursors from a  *)
(* statement of their own that runs later (readHistoryCursors).  The       *)
(* console keeps its filter, cursor and direction in the URL, reads again  *)
(* every 30 seconds and whenever the URL changes, and offers the buttons   *)
(* only while nothing is being read.  The API's older lists (executions,   *)
(* audit events) read one row more than the page instead and go forward    *)
(* only.                                                                   *)
(*                                                                         *)
(* A row is the key and the one filtered column.  The tables the view      *)
(* unites are modelled in ExecutionLedger and QueueDelivery; here they are *)
(* rows that appear, change their status and are removed.                  *)
(***************************************************************************)
EXTENDS Integers, Sequences, FiniteSets, SequencesExt

CONSTANTS Ids,        \* row ids, ordered as D1 orders them (unrelated to time)
          Statuses,   \* values of the filtered column
          Settled,    \* the statuses cleanup may remove
          AllStatuses, \* the filter that asks for nothing
          None,       \* no row, no cursor, no data
          Lists,      \* the lists walked: "history" (two cursors), "ledger"
          Limit,      \* rows of a page
          Lag,        \* how far created_at may lie before the insertion
          Window,     \* span of the sliding time window
          Retention,  \* age from which a settled row is cleaned up
          MaxTime,    \* bound: the clock
          MaxChanges, \* bound: changes of the table
          MaxReads    \* bound: reads of a page

Times == 0..MaxTime
Keys == [created : Times, id : Ids]

PagingAssumption ==
    /\ Ids \subseteq Nat /\ IsFiniteSet(Ids) /\ Settled \subseteq Statuses
    /\ None \notin Keys
    /\ Lists \subseteq {"history", "ledger"}
    /\ {Limit, Window, MaxTime, MaxReads} \subseteq Nat \ {0}
    /\ {Lag, Retention, MaxChanges} \subseteq Nat

VARIABLES now,     \* the clock
          rows,    \* the table: id |-> row
          list,    \* which list is walked
          params,  \* the URL: status, sliding, cursor, direction
          request, \* the read in progress
          data,    \* the page on the screen
          changes, reads,   \* bounds
          left,    \* history: the page the last click left
          seen,    \* history: ids shown since the filter was chosen
          steady   \* history: ids that matched the filter ever since

vars == <<now, rows, list, params, request, data, changes, reads, left,
          seen, steady>>

(* ORDER BY created_at DESC, id DESC: a comes before b. *)
Newer(a, b) == \/ a.created > b.created
               \/ a.created = b.created /\ a.id > b.id

First(page) == page[1]

----------------------------------------------------------------------------
(* Reading                                                                 *)

KeyOf(id) == [created |-> rows[id].created, id |-> id]

StatusMatches(status, id) ==
    rows[id] # None /\ status \in {AllStatuses, rows[id].status}

(* runWhere: the filters of both statements, without the cursor. *)
Matching(where) == {KeyOf(id) : id \in {i \in Ids :
    StatusMatches(where.status, i) /\ rows[i].created >= where.from}}

(* historyBoundary: strictly beyond the cursor, in the page's direction. *)
HistoryBoundary(keys, cursor, reverse) ==
    IF cursor = None THEN keys
    ELSE {k \in keys : IF reverse THEN Newer(k, cursor)
                                  ELSE Newer(cursor, k)}

(* The keys of a finite set, newest first. *)
Sorted(keys) ==
    CHOOSE p \in [1..Cardinality(keys) -> keys] :
        /\ Range(p) = keys
        /\ \A i, j \in DOMAIN p : i < j => Newer(p[i], p[j])

(* LIMIT n, from either end. *)
FirstOf(sorted, n) == SubSeq(sorted, 1, IF Len(sorted) < n THEN Len(sorted) ELSE n)
LastOf(sorted, n) ==
    SubSeq(sorted, IF Len(sorted) < n THEN 1 ELSE Len(sorted) - n + 1, Len(sorted))

(* Mutant: a page read backwards is not turned round again. *)
UnreversedPage(keys, cursor, reverse) ==
    LET beyond == Sorted(HistoryBoundary(keys, cursor, reverse))
    IN  IF reverse THEN Reverse(LastOf(beyond, Limit)) ELSE FirstOf(beyond, Limit)

(* The page, newest first: the rows next to the cursor.  One read backwards *)
(* is ordered oldest first, cut and turned round.                          *)
PageOf(keys, cursor, reverse) ==
    LET beyond == Sorted(HistoryBoundary(keys, cursor, reverse))
    IN  IF reverse THEN LastOf(beyond, Limit) ELSE FirstOf(beyond, Limit)

IsReverse == params.cursor # None /\ params.direction = "previous"

Idle == [phase |-> "idle"]

----------------------------------------------------------------------------
(* The table                                                               *)

(* The row with this id is now r; a row that no longer matches the filter  *)
(* of the walk is not steady any more.                                     *)
Write(id, r) ==
    /\ changes < MaxChanges /\ changes' = changes + 1
    /\ rows' = [rows EXCEPT ![id] = r]
    /\ steady' = IF r # None /\ params.status \in {AllStatuses, r.status}
                 THEN steady ELSE steady \ {id}
    /\ UNCHANGED <<now, list, params, request, data, reads, left, seen>>

(* materialize, run now, rerun: a new row, stamped with the time the Tick  *)
(* or the request began.                                                   *)
Insert(id) ==
    /\ rows[id] = None
    /\ \E created \in Times, status \in Statuses \ Settled :
         /\ created <= now /\ now - created <= Lag
         /\ Write(id, [created |-> created, status |-> status])

(* Any later statement on the row: it settles, is retried, is reported. *)
Change(id) ==
    /\ rows[id] # None
    /\ \E status \in Statuses \ {rows[id].status} :
         Write(id, [rows[id] EXCEPT !.status = status])

(* cleanup: a settled row older than the retention. *)
CleanUp(id) ==
    /\ rows[id] # None
    /\ rows[id].status \in Settled /\ rows[id].created + Retention < now
    /\ Write(id, None)

Elapse ==
    /\ now < MaxTime /\ now' = now + 1
    /\ UNCHANGED <<rows, list, params, request, data, changes, reads, left,
                   seen, steady>>

----------------------------------------------------------------------------
(* The console                                                             *)

(* historyQuery: the filter of one read; a sliding window ends now. *)
WhereOf(p) == [status |-> p.status,
               from |-> IF p.sliding /\ now > Window THEN now - Window ELSE 0]

(* useQuery begins a read: on the first use of a URL, after 30 seconds, or *)
(* when the operator asks again after an error.                            *)
Fetch ==
    /\ request = Idle /\ reads < MaxReads
    /\ reads' = reads + 1
    /\ request' = [phase |-> "sent", where |-> WhereOf(params)]
    /\ UNCHANGED <<now, rows, list, params, data, changes, left, seen, steady>>

(* list, page: the rows and the counts of one transaction. *)
ReadPage ==
    /\ request.phase = "sent" /\ list = "history"
    /\ LET keys == Matching(request.where)
       IN  request' = [phase |-> "page", where |-> request.where,
                       page |-> PageOf(keys, params.cursor, IsReverse),
                       total |-> Cardinality(keys)]
    /\ UNCHANGED <<now, rows, list, params, data, changes, reads, left, seen,
                   steady>>

(* The answer is on the screen. *)
Show(where, page, previous, next, total) ==
    /\ data' = [where |-> where, page |-> page, previous |-> previous,
                next |-> next, total |-> total]
    /\ seen' = seen \cup {page[i].id : i \in DOMAIN page}
    /\ request' = Idle
    /\ UNCHANGED <<now, rows, list, params, changes, reads, left, steady>>

(* Mutant: the rows beyond the page are looked for by time alone. *)
TimeOnlyCursors(keys, page) ==
    IF page = <<>> THEN [previous |-> None, next |-> None]
    ELSE [previous |-> IF \E k \in keys : k.created > First(page).created
                       THEN First(page) ELSE None,
          next |-> IF \E k \in keys : k.created < Last(page).created
                   THEN Last(page) ELSE None]

(* readHistoryCursors: a cursor for each side on which rows are left; none *)
(* at all for an empty page.                                               *)
HistoryCursors(keys, page) ==
    IF page = <<>> THEN [previous |-> None, next |-> None]
    ELSE [previous |-> IF \E k \in keys : Newer(k, First(page))
                       THEN First(page) ELSE None,
          next |-> IF \E k \in keys : Newer(Last(page), k)
                   THEN Last(page) ELSE None]

ReadCursors ==
    /\ request.phase = "page"
    /\ LET c == HistoryCursors(Matching(request.where), request.page)
       IN  Show(request.where, request.page, c.previous, c.next,
                request.total)

(* ExecutionOperationsRepository.list and listAudit: one statement. *)
ReadLedgerPage ==
    /\ request.phase = "sent" /\ list = "ledger"
    /\ LET keys  == Matching(request.where)
           ahead == FirstOf(Sorted(HistoryBoundary(keys, params.cursor, FALSE)),
                            Limit + 1)
           page  == FirstOf(ahead, Limit)
       IN  Show(request.where, page, None,
                IF Len(ahead) > Limit THEN Last(page) ELSE None, Len(page))

(* D1 or the network fails: the screen keeps the page it has. *)
ReadFails ==
    /\ request # Idle
    /\ request' = Idle
    /\ UNCHANGED <<now, rows, list, params, data, changes, reads, left, seen,
                   steady>>

(* HistoryPagination.go: the URL changes, the new page is read. *)
Go(cursor, direction) ==
    /\ request = Idle /\ reads < MaxReads
    /\ cursor # None
    /\ params' = [params EXCEPT !.cursor = cursor, !.direction = direction]
    /\ left' = [page |-> data.page, direction |-> direction]
    /\ data' = None
    /\ reads' = reads + 1
    /\ request' = [phase |-> "sent", where |-> WhereOf(params)]
    /\ UNCHANGED <<now, rows, list, changes, seen, steady>>

GoNext == data # None /\ Go(data.next, "next")
GoPrevious == data # None /\ Go(data.previous, "previous")

(* update: another filter starts at the first page. *)
Filtered(p, status) ==
    [p EXCEPT !.status = status, !.cursor = None, !.direction = "next"]

(* HistoryControls.update, also while a read is in progress: react-query   *)
(* drops the answer to the old URL.                                        *)
ChooseFilter(status) ==
    /\ status # params.status /\ reads < MaxReads
    /\ params' = Filtered(params, status)
    /\ left' = None
    /\ data' = None
    /\ seen' = {}
    /\ steady' = {id \in Ids : StatusMatches(status, id)}
    /\ reads' = reads + 1
    /\ request' = [phase |-> "sent", where |-> WhereOf(params')]
    /\ UNCHANGED <<now, rows, list, changes>>

----------------------------------------------------------------------------
(* Rows the console finds when it is opened: created at any time so far. *)
Row == [created : Times, status : Statuses]

InitTable(initial) ==
    /\ now = MaxTime - 1
    /\ rows \in initial
    /\ \A id \in Ids : rows[id] # None => rows[id].created <= now
    /\ list \in Lists
    /\ params \in [status : {AllStatuses}, sliding : BOOLEAN, cursor : {None},
                   direction : {"next"}]
    /\ request = Idle
    /\ data = None
    /\ changes = 0 /\ reads = 0
    /\ left = None
    /\ seen = {}
    /\ steady = {id \in Ids : rows[id] # None}

Init == InitTable([Ids -> Row \cup {None}])

Table == \/ \E id \in Ids : Insert(id) \/ Change(id) \/ CleanUp(id)
         \/ Elapse
Console == \/ Fetch \/ ReadPage \/ ReadCursors \/ ReadLedgerPage \/ ReadFails
           \/ GoNext \/ GoPrevious
           \/ \E status \in Statuses \cup {AllStatuses} : ChooseFilter(status)

Next == Table \/ Console

Spec == Init /\ [][Next]_vars

----------------------------------------------------------------------------
(* Properties                                                              *)

PageLists == {p \in UNION {[1..n -> Keys] : n \in 0..Limit} :
                 \A i, j \in DOMAIN p : i < j => Newer(p[i], p[j])}

(* The types; a page on the screen is a list of at most Limit rows, each   *)
(* strictly newer than the next.                                           *)
TypeOK ==
    /\ now \in Times
    /\ rows \in [Ids -> Row \cup {None}]
    /\ list \in Lists
    /\ params.status \in Statuses \cup {AllStatuses}
    /\ params.cursor \in Keys \cup {None}
    /\ params.direction \in {"next", "previous"}
    /\ request.phase \in {"idle", "sent", "page"}
    /\ data # None => /\ data.page \in PageLists
                      /\ {data.previous, data.next} \subseteq Keys \cup {None}
                      /\ data.total \in Nat
    /\ seen \subseteq Ids /\ steady \subseteq Ids

(* The rows that have matched since the filter was chosen and still lie in *)
(* the window of the page shown.                                           *)
SteadyKeys == {KeyOf(id) : id \in {i \in steady :
                               rows[i].created >= data.where.from}}

(* Walking down from the first page misses nothing: every row that matched *)
(* all the while and is not older than the page shown has been shown, no   *)
(* matter what was inserted, changed or removed between the reads          *)
(* (historyBoundary; test plan R7-003).                                    *)
NothingSkipped ==
    data # None /\ data.page # <<>> =>
        \A k \in SteadyKeys : Newer(Last(data.page), k) \/ k.id \in seen

(* The two pages of a click lie on either side of each other, share no row *)
(* and leave out none that matched all the while (the boundary of          *)
(* historyBoundary and the reversal of a page read backwards).             *)
PagesAreAdjacent ==
    data # None /\ left # None /\ data.page # <<>> =>
        LET upper == IF left.direction = "next" THEN left.page ELSE data.page
            lower == IF left.direction = "next" THEN data.page ELSE left.page
        IN  /\ Newer(Last(upper), First(lower))
            /\ \A k \in SteadyKeys :
                 ~(Newer(Last(upper), k) /\ Newer(k, First(lower)))

(* A page without a cursor on a side is the end of the list on that side:  *)
(* no row that matched all the while lies beyond it, although the cursors  *)
(* are read after the page (readHistoryCursors).                           *)
EndIsTheEnd ==
    data # None /\ data.page # <<>> =>
        \A k \in SteadyKeys :
            /\ data.next = None => ~Newer(Last(data.page), k)
            /\ data.previous = None /\ list = "history"
                 => ~Newer(k, First(data.page))

(* The counts belong to the rows they are shown with: the page is never    *)
(* longer than the total (list and page read both in one transaction).     *)
TotalCoversPage == data # None => Len(data.page) <= data.total
============================================================================
