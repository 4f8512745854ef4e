--------------------------- MODULE ConsoleSession ---------------------------
(***************************************************************************)
(* Administrator sessions in D1 (admin-session-repository.ts, access.ts),  *)
(* the routes that ask for one, and the console in one browser tab that    *)
(* shows its pages or the login page (auth-gate.tsx, api-client.ts).       *)
(* Requests are answered in any order; the query library drops the answer  *)
(* of a query that was cleared from its cache.  Some pages refetch their   *)
(* data at an interval, others only when they are opened, when the window  *)
(* is focused and after the user acted on them.                            *)
(***************************************************************************)
EXTENDS Integers, FiniteSets

CONSTANTS Tokens,   \* the session tokens ever drawn
          Calls,    \* HTTP calls of the tab that are under way
          None      \* no cookie, no row, no actor

\* None is no token, and no row is a row in either of its states.
SessionAssumption == None \notin Tokens /\ None \notin {"valid", "expired"}

VARIABLES session,  \* admin_sessions: "valid", "expired" or None, per token
          audit,    \* per token, its auth.login and auth.logout events
          drawn,    \* tokens that exist
          cookie,   \* the browser's session cookie
          gate,     \* what AuthGate renders
          polling,  \* the page of the router has a refetchInterval that runs
          call      \* the calls

vars == <<session, audit, drawn, cookie, gate, polling, call>>

Free == [kind |-> "free"]
Kinds == {"session", "data", "mutation", "login", "logout"}
Gates == {"loading", "pages", "login", "unavailable"}
Waiting(kind, token) == [kind |-> kind, stage |-> "sent", token |-> token, kept |-> TRUE, answer |-> None]
IsBusy(kind) == \E c \in Calls : call[c].kind = kind
Asking == \E c \in Calls : call[c].kind = "session" /\ call[c].kept

Init ==
    /\ session = [t \in Tokens |-> None]
    /\ audit = [t \in Tokens |-> [login |-> 0, logout |-> 0]]
    /\ drawn = {}
    /\ cookie = None
    /\ gate = "loading"
    /\ polling \in BOOLEAN
    /\ call = [c \in Calls |-> Free]
-----------------------------------------------------------------------------
\* readAdminActor: a row that has not expired.
IsActor(t) == t # None /\ session[t] = "valid"

Send(c, kind) ==
    /\ call[c] = Free
    /\ call' = [call EXCEPT ![c] = Waiting(kind, cookie)]
    /\ UNCHANGED <<session, audit, drawn, cookie, gate, polling>>

\* The session is asked for on mount, on focus, and by the retry button.
AskSession(c) == ~Asking /\ Send(c, "session")

\* A page asks for its data when it is opened or focused and after a mutation, if
\* what it has is stale.
Fetch(c) == gate = "pages" /\ ~IsBusy("data") /\ Send(c, "data")

\* The interval of a page that has one.
Poll(c) == polling /\ Fetch(c)

\* The user follows a link: what the page that is left has asked for is aborted.
Visit(p) ==
    /\ gate = "pages"
    /\ polling' = p
    /\ call' = [c \in Calls |-> IF call[c].kind = "data" THEN Free ELSE call[c]]
    /\ UNCHANGED <<session, audit, drawn, cookie, gate>>

\* The tab is hidden, which stops its interval, or seen again.
Turn(p) ==
    /\ polling' = p
    /\ UNCHANGED <<session, audit, drawn, cookie, gate, call>>

\* The user acts on a page, or on the gate.
Mutate(c) == gate = "pages" /\ ~IsBusy("mutation") /\ Send(c, "mutation")
Logout(c) == gate = "pages" /\ ~IsBusy("logout") /\ Send(c, "logout")
Login(c)  == gate = "login" /\ ~IsBusy("login") /\ Send(c, "login")
-----------------------------------------------------------------------------
Reply(c, answer) == call' = [call EXCEPT ![c].stage = "answered", ![c].answer = answer]

\* GET /auth/session is no error without a session.
ServeSession(c) ==
    /\ call[c].kind = "session" /\ call[c].stage = "sent"
    /\ Reply(c, IF IsActor(call[c].token) THEN "authenticated" ELSE "anonymous")
    /\ UNCHANGED <<session, audit, drawn, cookie, gate, polling>>

\* authenticate runs before every other route and its check of the mutation.
Authenticate(c) ==
    /\ call[c].kind \in {"data", "mutation"} /\ call[c].stage = "sent"
    /\ Reply(c, IF IsActor(call[c].token) THEN "ok" ELSE "401")
    /\ UNCHANGED <<session, audit, drawn, cookie, gate, polling>>

\* create: the row and its audit event in one batch.
ServeLogin(c) ==
    /\ call[c].kind = "login" /\ call[c].stage = "sent"
    /\ \/ \E t \in Tokens \ drawn :
             /\ session' = [session EXCEPT ![t] = "valid"]
             /\ audit' = [audit EXCEPT ![t].login = @ + 1]
             /\ drawn' = drawn \cup {t}
             /\ call' = [call EXCEPT ![c].stage = "answered", ![c].answer = "ok", ![c].token = t]
       \/ Reply(c, "401") /\ UNCHANGED <<session, audit, drawn>>
    /\ UNCHANGED <<cookie, gate, polling>>

\* revoke inserts its event from the row, expired or not.
LogoutEvents(t) == IF session[t] = None THEN 0 ELSE 1

\* POST /auth/logout needs no session and always succeeds.
ServeLogout(c) ==
    /\ call[c].kind = "logout" /\ call[c].stage = "sent"
    /\ LET t == call[c].token
       IN  IF t = None THEN UNCHANGED <<session, audit>>
           ELSE /\ audit' = [audit EXCEPT ![t].logout = @ + LogoutEvents(t)]
                /\ session' = [session EXCEPT ![t] = None]
    /\ Reply(c, "ok")
    /\ UNCHANGED <<drawn, cookie, gate, polling>>

\* The network, D1 or the worker fails, before or after the work was done.
ServerFails(c) ==
    /\ call[c].kind # "free"
    /\ Reply(c, "error")
    /\ UNCHANGED <<session, audit, drawn, cookie, gate, polling>>

Expire(t) ==
    /\ session[t] = "valid"
    /\ session' = [session EXCEPT ![t] = "expired"]
    /\ UNCHANGED <<audit, drawn, cookie, gate, polling, call>>

\* A Tick deletes expired rows, without an event.
Cleanup(t) ==
    /\ session[t] = "expired"
    /\ session' = [session EXCEPT ![t] = None]
    /\ UNCHANGED <<audit, drawn, cookie, gate, polling, call>>
-----------------------------------------------------------------------------
IsAnswered(c, kind) == call[c].kind = kind /\ call[c].stage = "answered"
Done(c) == call' = [call EXCEPT ![c] = Free]

\* Mutant of Loses: a logout leaves the queries of the cache alone.
LosesNone == [c \in Calls |-> call[c]]

\* queryClient.clear(): what the queries under way will answer is dropped.
Loses == [c \in Calls |-> IF call[c].kind \in {"session", "data"} THEN [call[c] EXCEPT !.kept = FALSE]
                          ELSE call[c]]

\* AuthGate after the answer of its query: a failed refetch hides the pages.
TakeSession(c) ==
    /\ IsAnswered(c, "session")
    /\ gate' = CASE ~call[c].kept -> gate
                 [] call[c].kept /\ call[c].answer = "authenticated" -> "pages"
                 [] call[c].kept /\ call[c].answer = "anonymous"     -> "login"
                 [] call[c].kept /\ call[c].answer = "error"         -> "unavailable"
    /\ Done(c)
    /\ UNCHANGED <<session, audit, drawn, cookie, polling>>

\* Mutant of AsksForLogin: a 401 is shown like any other error.
AsksForNothing(answer) == FALSE

\* The client tells the gate of a 401, whose query it was.
AsksForLogin(answer) == answer = "401"

\* The page of an execution polls until its data say that the execution settled.
TakeData(c) ==
    /\ IsAnswered(c, "data") \/ IsAnswered(c, "mutation")
    /\ gate' = IF AsksForLogin(call[c].answer) THEN "login" ELSE gate
    /\ polling' \in IF IsAnswered(c, "data") /\ call[c].answer = "ok" THEN BOOLEAN ELSE {polling}
    /\ Done(c)
    /\ UNCHANGED <<session, audit, drawn, cookie>>

\* Set-Cookie of the answer, and a new query for the session in place of the
\* one under way, if any.
TakeLogin(c) ==
    /\ IsAnswered(c, "login")
    /\ IF call[c].answer = "ok"
       THEN /\ cookie' = call[c].token
            /\ call' = [[d \in Calls |-> IF call[d].kind = "session" THEN [call[d] EXCEPT !.kept = FALSE]
                                          ELSE call[d]] EXCEPT ![c] = Waiting("session", call[c].token)]
       ELSE Done(c) /\ UNCHANGED cookie
    /\ UNCHANGED <<session, audit, drawn, gate, polling>>

\* The cleared cookie, the cleared cache, and the answer as session data.
TakeLogout(c) ==
    /\ IsAnswered(c, "logout")
    /\ IF call[c].answer = "ok"
       THEN /\ cookie' = None
            /\ gate' = "login"
            /\ call' = [Loses EXCEPT ![c] = Free]
       ELSE Done(c) /\ UNCHANGED <<cookie, gate>>
    /\ UNCHANGED <<session, audit, drawn, polling>>

Serve(c) ==
    \/ ServeSession(c) \/ Authenticate(c) \/ ServeLogin(c) \/ ServeLogout(c)
Take(c) ==
    \/ TakeSession(c) \/ TakeData(c) \/ TakeLogin(c) \/ TakeLogout(c)

Next ==
    \/ \E c \in Calls :
          \/ AskSession(c) \/ Poll(c) \/ Fetch(c) \/ Mutate(c) \/ Logout(c) \/ Login(c)
          \/ Serve(c) \/ ServerFails(c) \/ Take(c)
    \/ \E p \in BOOLEAN : Visit(p) \/ Turn(p)
    \/ \E t \in Tokens : Expire(t) \/ Cleanup(t)

Spec == Init /\ [][Next]_vars

\* Every call is answered, the platform is not out of reach for ever, and a page with
\* a refetchInterval refetches its data as long as it is the one that is seen.  Nothing
\* makes the other pages ask: what the user does has no fairness.
Fairness ==
    /\ \A c \in Calls : WF_vars(Serve(c) \/ ServerFails(c)) /\ WF_vars(Take(c))
    /\ WF_vars(\E c \in Calls : Poll(c))
    /\ SF_vars(\E c \in Calls : Authenticate(c))
    /\ SF_vars(\E c \in Calls : TakeData(c) /\ call[c].answer # "error")

FairSpec == Spec /\ Fairness
-----------------------------------------------------------------------------
\* The shapes of sessions and calls; a token has at most one login and one logout.
TypeOK ==
    /\ session \in [Tokens -> {"valid", "expired", None}]
    /\ audit \in [Tokens -> [login : {0, 1}, logout : {0, 1}]]
    /\ cookie \in drawn \cup {None}
    /\ gate \in Gates
    /\ polling \in BOOLEAN
    /\ \A c \in Calls : call[c] # Free =>
          call[c].kind \in Kinds /\ call[c].token \in drawn \cup {None}

(***************************************************************************)
(* The log says how a session ended: one login event, and a logout event   *)
(* if and only if the row was deleted before a Tick found it expired; two  *)
(* logouts of one session at once log one event                            *)
(* (admin-session-repository.ts revoke).                                   *)
(***************************************************************************)
EndsAreAudited ==
    [][ \A t \in Tokens : session[t] # session'[t] =>
          \/ session[t] = None   /\ audit'[t] = [login |-> 1, logout |-> 0]
          \/ session'[t] = None  /\ session[t] = "expired" /\ audit'[t].logout \in {0, 1}
          \/ session'[t] = None  /\ session[t] = "valid" /\ audit'[t].logout = 1
          \/ session'[t] = "expired" /\ audit'[t].logout = 0 ]_vars

(***************************************************************************)
(* A logout is not undone: however late the answers of queries that were   *)
(* asked for before it arrive, the pages are shown again only to a browser *)
(* that holds a session cookie (auth-gate.tsx logout).                     *)
(***************************************************************************)
PagesNeedACookie ==
    [][ gate # "pages" /\ gate' = "pages" => cookie # None ]_vars

(***************************************************************************)
(* A page that polls does not outlive its session: whether the session     *)
(* expired, was cleaned up or was ended elsewhere, and whatever else is    *)
(* asked and lost meanwhile, a poll is answered with 401 and the login     *)
(* page is shown, unless the user turns to a page that does not poll first *)
(* (refetchInterval, auth-gate.tsx requireAuthentication).                 *)
(***************************************************************************)
EndIsNoticed ==
    \A t \in Tokens :
       (cookie = t /\ gate = "pages" /\ session[t] # "valid" /\ polling)
         ~> (gate # "pages" \/ cookie # t \/ ~polling)
=============================================================================
