--------------------------- MODULE PlatformProofs ---------------------------
(***************************************************************************)
(* Proofs about Platform, for all values of its constants.  Each part is   *)
(* proved correct by itself, from an inductive invariant of its own; the   *)
(* last section shows that Platform implements each of its parts, so that  *)
(* what is true of a part is true of it, whatever the others do.  The      *)
(* proofs about a website and about the mutations of the administrators    *)
(* are in modules of their own.                                            *)
(***************************************************************************)
EXTENDS Platform, TLAPS, FiniteSetTheorems, SequenceTheorems, WellFoundedInduction

-----------------------------------------------------------------------------
(* Lemmas *)

\* A set of natural numbers has a least one.
LEMMA LeastNumber ==
  ASSUME NEW S \in SUBSET Nat, S # {}
  PROVE  \E z \in S : \A y \in S : z =< y
<1>1. OpToRel(<, Nat) = {p \in Nat \X Nat : p[1] < p[2]}
  BY Zenon DEF OpToRel
<1>2. IsWellFoundedOn(OpToRel(<, Nat), Nat)
  BY NatLessThanWellFounded, Zenon
<1>. DEFINE R == {p \in Nat \X Nat : p[1] < p[2]}
<1>3. IsWellFoundedOn(R, Nat)
  BY <1>1, <1>2, Zenon
<1>4. PICK x \in S : \A y \in S : ~ (<<y, x>> \in R)
  <2>. HIDE DEF R
  <2>. QED  BY <1>3, WFMin, Zenon
<1>5. \A y \in S : ~(y < x)
  BY <1>4
<1>. QED  BY <1>5

-----------------------------------------------------------------------------
(* The console tab and its session *)

CallRows ==
  [kind : Tab!Kinds, stage : {"sent", "answered"}, token : Tokens \cup {None}, kept : BOOLEAN,
   answer : {None, "authenticated", "anonymous", "ok", "401", "error"}]

\* A token that was not drawn has no row and no events; a row has its login event alone.
RowsAreAudited ==
  /\ session \in [Tokens -> {"valid", "expired", None}]
  /\ events \in [Tokens -> [login : {0, 1}, logout : {0, 1}]]
  /\ drawn \subseteq Tokens
  /\ \A t \in Tokens : session[t] # None => events[t] = [login |-> 1, logout |-> 0]
  /\ \A t \in Tokens \ drawn : session[t] = None /\ events[t] = [login |-> 0, logout |-> 0]

\* What a kept query for the session may still answer, the cookie has been there for.
Holds(w) ==
  /\ w.kind = "session" /\ w.stage = "answered" => w.answer \in {"authenticated", "anonymous", "error"}
  /\ w.kind = "session" /\ w.stage = "answered" /\ w.answer = "authenticated" => w.token # None
  /\ w.kind = "login" /\ w.stage = "answered" /\ w.answer = "ok" => w.token # None
  /\ w.kind = "session" /\ w.kept /\ w.token # None => cookie # None

\* A call is one the tab makes, and Holds of it.
CallsHold ==
  /\ tab \in [TabCalls -> {Tab!Free} \cup CallRows]
  /\ cookie \in Tokens \cup {None}
  /\ \A c \in TabCalls : Holds(tab[c])

\* The table and the tab.
SessionInv == RowsAreAudited /\ CallsHold

LEMMA CallRow ==
  ASSUME CallsHold, NEW c \in TabCalls, tab[c].kind # "free"
  PROVE  tab[c] \in CallRows
BY DEF CallsHold, Tab!Free

LEMMA InitIsLoggedOut ==
  ASSUME Tab!Init
  PROVE  SessionInv
<1>1. RowsAreAudited
  BY DEF Tab!Init, RowsAreAudited
<1>2. CallsHold
  BY DEF Tab!Init, CallsHold, Holds, Tab!Free
<1>. QED  BY <1>1, <1>2 DEF SessionInv

LEMMA RowsStep ==
  ASSUME Tab!SessionAssumption, SessionInv, [Tab!Next]_Tab!vars
  PROVE  /\ RowsAreAudited'
         /\ \A t \in Tokens : session[t] # session'[t] =>
              \/ session[t] = None   /\ events'[t] = [login |-> 1, logout |-> 0]
              \/ session'[t] = None  /\ session[t] = "expired" /\ events'[t].logout \in {0, 1}
              \/ session'[t] = None  /\ session[t] = "valid" /\ events'[t].logout = 1
              \/ session'[t] = "expired" /\ events'[t].logout = 0
<1>. DEFINE Ends == \A t \in Tokens : session[t] # session'[t] =>
              \/ session[t] = None   /\ events'[t] = [login |-> 1, logout |-> 0]
              \/ session'[t] = None  /\ session[t] = "expired" /\ events'[t].logout \in {0, 1}
              \/ session'[t] = None  /\ session[t] = "valid" /\ events'[t].logout = 1
              \/ session'[t] = "expired" /\ events'[t].logout = 0
<1>. USE DEF SessionInv, RowsAreAudited
<1>1. CASE UNCHANGED <<session, events, drawn>>
  BY <1>1
<1>2. ASSUME NEW t \in Tokens \ drawn, session' = [session EXCEPT ![t] = "valid"],
             events' = [events EXCEPT ![t].login = @ + 1], drawn' = drawn \cup {t}
      PROVE  RowsAreAudited' /\ Ends
  BY <1>2 DEF Tab!SessionAssumption
<1>3. ASSUME NEW t, events' = [events EXCEPT ![t].logout = @ + Tab!LogoutEvents(t)],
             session' = [session EXCEPT ![t] = None], UNCHANGED drawn
      PROVE  RowsAreAudited' /\ Ends
  <2>1. CASE t \in Tokens /\ session[t] # None
    <3>1. events[t] = [login |-> 1, logout |-> 0]
      BY <2>1
    <3>2. events'[t] = [login |-> 1, logout |-> 1]
      BY <1>3, <2>1, <3>1 DEF Tab!LogoutEvents
    <3>3. session'[t] = None /\ \A u \in Tokens \ {t} : session'[u] = session[u] /\ events'[u] = events[u]
      BY <1>3, <2>1
    <3>4. session' \in [Tokens -> {"valid", "expired", None}]
      BY <1>3
    <3>5. events' \in [Tokens -> [login : {0, 1}, logout : {0, 1}]]
      BY <1>3, <2>1, <3>1 DEF Tab!LogoutEvents
    <3>. QED  BY <2>1, <3>2, <3>3, <3>4, <3>5, <1>3 DEF Tab!SessionAssumption
  <2>2. CASE ~(t \in Tokens /\ session[t] # None)
    <3>1. session' = session
      BY <1>3, <2>2
    <3>2. t \in Tokens => events[t].logout + Tab!LogoutEvents(t) = events[t].logout
      BY <2>2 DEF Tab!LogoutEvents
    <3>3. events' = events
      BY <1>3, <3>2
    <3>. QED  BY <1>1, <1>3, <3>1, <3>3
  <2>. QED  BY <2>1, <2>2
<1>4. ASSUME NEW t \in Tokens, Tab!Expire(t)
      PROVE  RowsAreAudited' /\ Ends
  BY <1>4 DEF Tab!Expire, Tab!SessionAssumption
<1>5. ASSUME NEW t \in Tokens, Tab!Cleanup(t)
      PROVE  RowsAreAudited' /\ Ends
  BY <1>5 DEF Tab!Cleanup, Tab!SessionAssumption
<1>6. ASSUME NEW c \in TabCalls, Tab!ServeLogin(c)
      PROVE  RowsAreAudited' /\ Ends
  BY <1>1, <1>2, <1>6 DEF Tab!ServeLogin
<1>7. ASSUME NEW c \in TabCalls, Tab!ServeLogout(c)
      PROVE  RowsAreAudited' /\ Ends
  BY <1>1, <1>3, <1>7 DEF Tab!ServeLogout
<1>. QED  BY <1>1, <1>4, <1>5, <1>6, <1>7
       DEF Tab!Next, Tab!vars, Tab!AskSession, Tab!Poll, Tab!Fetch, Tab!Mutate, Tab!Logout,
           Tab!Login, Tab!Send, Tab!Serve, Tab!ServeSession, Tab!Authenticate,
           Tab!ServerFails, Tab!Visit, Tab!Turn, Tab!Take, Tab!TakeSession, Tab!TakeData, Tab!TakeLogin, Tab!TakeLogout

\* A call that goes on, and the cookie stays.
LEMMA CallMoves ==
  ASSUME CallsHold, NEW c \in TabCalls, NEW w \in {Tab!Free} \cup CallRows, tab' = [tab EXCEPT ![c] = w],
         UNCHANGED cookie, Holds(w)
  PROVE  CallsHold'
BY DEF CallsHold, Holds

LEMMA CallsStep ==
  ASSUME Tab!SessionAssumption, SessionInv, [Tab!Next]_Tab!vars
  PROVE  CallsHold' /\ (gate # "pages" /\ gate' = "pages" => cookie # None)
<1>. DEFINE Shown == gate # "pages" /\ gate' = "pages" => cookie # None
<1>. USE DEF SessionInv
<1>0. Holds(Tab!Free)
  BY DEF Tab!Free, Holds
<1>1. ASSUME NEW c \in TabCalls, NEW k \in Tab!Kinds, Tab!Send(c, k) PROVE CallsHold' /\ Shown
  <2>. PICK w : w = Tab!Waiting(k, cookie)
    OBVIOUS
  <2>1. w \in CallRows /\ Holds(w)
    BY DEF Tab!Waiting, CallRows, Holds, CallsHold
  <2>. QED  BY <1>1, <2>1, CallMoves DEF Tab!Send
<1>2. ASSUME NEW c \in TabCalls, Tab!ServeSession(c) \/ Tab!Authenticate(c) \/ Tab!ServerFails(c) PROVE CallsHold' /\ Shown
  <2>. PICK a \in {"authenticated", "anonymous", "ok", "401", "error"} :
          /\ Tab!Reply(c, a) /\ (a = "authenticated" \/ a = "ok" => tab[c].kind # "login")
          /\ a = "authenticated" => tab[c].token # None
          /\ tab[c].kind = "session" => a \in {"authenticated", "anonymous", "error"}
    BY <1>2 DEF Tab!ServeSession, Tab!Authenticate, Tab!ServerFails, Tab!IsActor
  <2>. PICK w : w = [tab[c] EXCEPT !.stage = "answered", !.answer = a]
    OBVIOUS
  <2>0. tab[c] \in CallRows
    BY <1>2, CallRow DEF Tab!ServeSession, Tab!Authenticate, Tab!ServerFails
  <2>1. w \in CallRows /\ w.kind = tab[c].kind /\ w.token = tab[c].token /\ w.kept = tab[c].kept /\ w.answer = a
    BY <2>0 DEF CallRows
  <2>2. Holds(w)
    BY <2>1 DEF CallsHold, Holds
  <2>3. tab' = [tab EXCEPT ![c] = w]
    BY DEF Tab!Reply
  <2>. QED  BY <1>2, <2>1, <2>2, <2>3, CallMoves DEF Tab!ServeSession, Tab!Authenticate,
        Tab!ServerFails
<1>3. ASSUME NEW c \in TabCalls, Tab!ServeLogin(c) \/ Tab!ServeLogout(c) PROVE CallsHold' /\ Shown
  <2>0. tab[c] \in CallRows /\ tab[c].kind \in {"login", "logout"}
    BY <1>3, CallRow DEF Tab!ServeLogin, Tab!ServeLogout
  <2>1. CASE \E t \in Tokens \ drawn :
               tab' = [tab EXCEPT ![c].stage = "answered", ![c].answer = "ok", ![c].token = t]
    <3>. PICK t \in Tokens :
           tab' = [tab EXCEPT ![c].stage = "answered", ![c].answer = "ok", ![c].token = t]
      BY <2>1
    <3>. PICK w : w = [tab[c] EXCEPT !.stage = "answered", !.answer = "ok", !.token = t]
      OBVIOUS
    <3>1. w \in CallRows /\ w.kind = tab[c].kind /\ w.token = t
      BY <2>0 DEF CallRows
    <3>2. Holds(w)
      BY <3>1, <2>0 DEF Holds, Tab!SessionAssumption
    <3>3. tab' = [tab EXCEPT ![c] = w]
      OBVIOUS
    <3>. QED  BY <1>3, <3>1, <3>2, <3>3, CallMoves DEF Tab!ServeLogin, Tab!ServeLogout
  <2>2. CASE \E a \in {"401", "ok"} : Tab!Reply(c, a) /\ (a = "ok" => tab[c].kind = "logout")
    <3>. PICK a \in {"401", "ok"} : Tab!Reply(c, a) /\ (a = "ok" => tab[c].kind = "logout")
      BY <2>2
    <3>. PICK w : w = [tab[c] EXCEPT !.stage = "answered", !.answer = a]
      OBVIOUS
    <3>1. w \in CallRows /\ w.kind = tab[c].kind /\ w.answer = a
      BY <2>0 DEF CallRows
    <3>2. Holds(w)
      BY <3>1, <2>0 DEF Holds
    <3>3. tab' = [tab EXCEPT ![c] = w]
      BY DEF Tab!Reply
    <3>. QED  BY <1>3, <3>1, <3>2, <3>3, CallMoves DEF Tab!ServeLogin, Tab!ServeLogout
  <2>. QED  BY <1>3, <2>1, <2>2 DEF Tab!ServeLogin, Tab!ServeLogout
<1>4. ASSUME NEW c \in TabCalls, Tab!TakeSession(c) PROVE CallsHold' /\ Shown
  <2>1. CallsHold'
    BY <1>0, <1>4, CallMoves DEF Tab!TakeSession, Tab!Done
  <2>2. gate # "pages" /\ gate' = "pages" => tab[c].kept /\ tab[c].answer = "authenticated"
    <3>1. tab[c] \in CallRows
      BY <1>4, CallRow DEF Tab!TakeSession, Tab!IsAnswered
    <3>2. tab[c].kept \in BOOLEAN
      BY <3>1 DEF CallRows
    <3>3. tab[c].answer \in {"authenticated", "anonymous", "error"}
      BY <1>4 DEF Tab!TakeSession, Tab!IsAnswered, CallsHold, Holds
    <3>4. CASE tab[c].kept = FALSE
      BY <1>4, <3>4 DEF Tab!TakeSession
    <3>5. CASE tab[c].kept = TRUE
      BY <1>4, <3>3, <3>5 DEF Tab!TakeSession
    <3>. QED  BY <3>2, <3>4, <3>5
  <2>. QED  BY <1>4, <2>1, <2>2 DEF Tab!TakeSession, Tab!IsAnswered, CallsHold, Holds
<1>5. ASSUME NEW c \in TabCalls, Tab!TakeData(c) PROVE CallsHold' /\ Shown
  BY <1>0, <1>5, CallMoves DEF Tab!TakeData, Tab!Done
<1>6. ASSUME NEW c \in TabCalls, Tab!TakeLogin(c) PROVE CallsHold' /\ Shown
  <2>1. CASE tab[c].answer # "ok"
    BY <1>0, <1>6, <2>1, CallMoves DEF Tab!TakeLogin, Tab!Done
  <2>2. CASE tab[c].answer = "ok"
    <3>. PICK t : t = tab[c].token
      OBVIOUS
    <3>. PICK w : w = Tab!Waiting("session", t)
      OBVIOUS
    <3>1. t \in Tokens /\ t # None
      <4>1. tab[c] \in CallRows
        BY <1>6, CallRow DEF Tab!TakeLogin, Tab!IsAnswered
      <4>2. t # None
        BY <1>6, <2>2 DEF Tab!TakeLogin, Tab!IsAnswered, CallsHold, Holds
      <4>. QED  BY <4>1, <4>2 DEF CallRows
    <3>2. w \in CallRows /\ w.stage = "sent" /\ w.token = t
      BY <3>1 DEF Tab!Waiting, CallRows, Tab!Kinds
    <3>3. cookie' = t
      BY <1>6, <2>2 DEF Tab!TakeLogin
    <3>4. tab' = [d \in TabCalls |-> IF d = c THEN w
                                     ELSE IF tab[d].kind = "session" THEN [tab[d] EXCEPT !.kept = FALSE]
                                     ELSE tab[d]]
      BY <1>6, <2>2 DEF Tab!TakeLogin
    <3>5. ASSUME NEW d \in TabCalls PROVE tab'[d] \in {Tab!Free} \cup CallRows /\ Holds(tab[d])'
      <4>1. CASE d = c
        BY <3>1, <3>2, <3>3, <3>4, <4>1 DEF Holds
      <4>2. CASE d # c /\ tab[d].kind = "session"
        <5>1. tab[d] \in CallRows
          BY <4>2, CallRow
        <5>2. tab'[d] = [tab[d] EXCEPT !.kept = FALSE]
          BY <3>4, <4>2
        <5>3. /\ tab'[d] \in CallRows /\ tab'[d].kept = FALSE
              /\ tab'[d].kind = "session" /\ tab'[d].stage = tab[d].stage
              /\ tab'[d].answer = tab[d].answer /\ tab'[d].token = tab[d].token
          BY <5>1, <5>2, <4>2 DEF CallRows
        <5>. QED  BY <5>3, <4>2 DEF CallsHold, Holds
      <4>3. CASE d # c /\ tab[d].kind # "session"
        BY <3>1, <3>3, <3>4, <4>3 DEF CallsHold, Holds
      <4>. QED  BY <4>1, <4>2, <4>3
    <3>6. tab' \in [TabCalls -> {Tab!Free} \cup CallRows]
      BY <3>4, <3>5
    <3>. QED  BY <1>6, <3>1, <3>3, <3>5, <3>6 DEF Tab!TakeLogin, CallsHold
  <2>. QED  BY <2>1, <2>2
<1>7. ASSUME NEW c \in TabCalls, Tab!TakeLogout(c) PROVE CallsHold' /\ Shown
  <2>1. CASE tab[c].answer # "ok"
    BY <1>0, <1>7, <2>1, CallMoves DEF Tab!TakeLogout, Tab!Done
  <2>2. CASE tab[c].answer = "ok"
    <3>1. tab' = [[d \in TabCalls |-> IF tab[d].kind \in {"session", "data"} THEN [tab[d] EXCEPT !.kept = FALSE]
                                      ELSE tab[d]] EXCEPT ![c] = Tab!Free]
      BY <1>7, <2>2 DEF Tab!TakeLogout, Tab!Loses
    <3>2. ASSUME NEW d \in TabCalls PROVE tab'[d] \in {Tab!Free} \cup CallRows /\ Holds(tab[d])'
      <4>1. CASE d = c
        BY <3>1, <4>1, <1>0 DEF Tab!Free, Holds
      <4>2. CASE d # c /\ tab[d].kind \in {"session", "data"}
        <5>1. tab[d] \in CallRows
          BY <4>2, CallRow
        <5>2. tab'[d] = [tab[d] EXCEPT !.kept = FALSE]
          BY <3>1, <4>2
        <5>3. /\ tab'[d] \in CallRows /\ tab'[d].kept = FALSE
              /\ tab'[d].kind = tab[d].kind /\ tab'[d].stage = tab[d].stage
              /\ tab'[d].answer = tab[d].answer /\ tab'[d].token = tab[d].token
          BY <5>1, <5>2 DEF CallRows
        <5>. QED  BY <5>3, <4>2 DEF CallsHold, Holds
      <4>3. CASE d # c /\ tab[d].kind \notin {"session", "data"}
        BY <3>1, <4>3 DEF CallsHold, Holds
      <4>. QED  BY <4>1, <4>2, <4>3
    <3>3. tab' \in [TabCalls -> {Tab!Free} \cup CallRows]
      BY <3>1, <3>2
    <3>4. cookie' = None /\ gate' = "login"
      BY <1>7, <2>2 DEF Tab!TakeLogout
    <3>. QED  BY <3>2, <3>3, <3>4 DEF CallsHold
  <2>. QED  BY <2>1, <2>2
<1>8. CASE UNCHANGED <<cookie, gate, tab>>
  BY <1>8 DEF CallsHold, Holds
<1>9. ASSUME NEW p, Tab!Visit(p) PROVE CallsHold' /\ Shown
  <2>1. \A d \in TabCalls : tab'[d] \in {Tab!Free, tab[d]}
    BY <1>9 DEF Tab!Visit
  <2>2. tab' \in [TabCalls -> {Tab!Free} \cup CallRows]
    BY <1>9 DEF Tab!Visit, CallsHold
  <2>. QED  BY <1>0, <1>9, <2>1, <2>2 DEF Tab!Visit, CallsHold, Holds
<1>. QED  BY <1>1, <1>2, <1>3, <1>4, <1>5, <1>6, <1>7, <1>8, <1>9
       DEF Tab!Next, Tab!vars, Tab!AskSession, Tab!Poll, Tab!Fetch, Tab!Mutate, Tab!Logout,
           Tab!Login, Tab!Kinds, Tab!Serve, Tab!Take, Tab!Turn, Tab!Expire, Tab!Cleanup

\* Every token in use was drawn.
TokensAreDrawn ==
  /\ cookie \in drawn \cup {None} /\ gate \in Tab!Gates /\ polling \in BOOLEAN
  /\ \A c \in TabCalls : tab[c].kind # "free" => tab[c].token \in drawn \cup {None}

LEMMA OneMoves ==
  ASSUME CallsHold, TokensAreDrawn, NEW c \in TabCalls, NEW w, tab' = [tab EXCEPT ![c] = w],
         drawn \subseteq drawn', w.kind # "free" => w.token \in drawn' \cup {None},
         UNCHANGED <<cookie, gate, polling>>
  PROVE  TokensAreDrawn'
BY DEF CallsHold, TokensAreDrawn

LEMMA TokensStep ==
  ASSUME Tab!SessionAssumption, SessionInv, TokensAreDrawn, [Tab!Next]_Tab!vars
  PROVE  TokensAreDrawn'
<1>. USE DEF SessionInv
<1>1. ASSUME NEW c \in TabCalls, NEW k, Tab!Send(c, k) PROVE TokensAreDrawn'
  <2>1. Tab!Waiting(k, cookie).token \in drawn \cup {None}
    BY DEF Tab!Waiting, TokensAreDrawn
  <2>. QED  BY <1>1, <2>1, OneMoves DEF Tab!Send
<1>2. ASSUME NEW c \in TabCalls, Tab!ServeSession(c) \/ Tab!Authenticate(c) \/ Tab!ServerFails(c) PROVE TokensAreDrawn'
  <2>. PICK a : Tab!Reply(c, a) /\ tab[c].kind # "free"
    BY <1>2 DEF Tab!ServeSession, Tab!Authenticate, Tab!ServerFails
  <2>. PICK w : w = [tab[c] EXCEPT !.stage = "answered", !.answer = a]
    OBVIOUS
  <2>1. w.token = tab[c].token
    BY CallRow DEF CallRows
  <2>2. tab' = [tab EXCEPT ![c] = w]
    BY DEF Tab!Reply
  <2>. QED  BY <1>2, <2>1, <2>2, OneMoves DEF Tab!ServeSession, Tab!Authenticate, Tab!ServerFails,
                                              TokensAreDrawn
<1>3. ASSUME NEW c \in TabCalls, Tab!ServeLogin(c) \/ Tab!ServeLogout(c) PROVE TokensAreDrawn'
  <2>0. tab[c] \in CallRows /\ tab[c].kind # "free"
    BY <1>3, CallRow DEF Tab!ServeLogin, Tab!ServeLogout
  <2>1. CASE \E t \in Tokens \ drawn : drawn' = drawn \cup {t} /\
               tab' = [tab EXCEPT ![c].stage = "answered", ![c].answer = "ok", ![c].token = t]
    <3>. PICK t \in Tokens : drawn' = drawn \cup {t} /\
               tab' = [tab EXCEPT ![c].stage = "answered", ![c].answer = "ok", ![c].token = t]
      BY <2>1
    <3>. PICK w : w = [tab[c] EXCEPT !.stage = "answered", !.answer = "ok", !.token = t]
      OBVIOUS
    <3>1. w.token = t
      BY <2>0 DEF CallRows
    <3>2. tab' = [tab EXCEPT ![c] = w]
      OBVIOUS
    <3>. QED  BY <1>3, <3>1, <3>2, OneMoves DEF Tab!ServeLogin, Tab!ServeLogout
  <2>2. CASE \E a : Tab!Reply(c, a) /\ UNCHANGED drawn
    <3>. PICK a : Tab!Reply(c, a) /\ UNCHANGED drawn
      BY <2>2
    <3>. PICK w : w = [tab[c] EXCEPT !.stage = "answered", !.answer = a]
      OBVIOUS
    <3>1. w.token = tab[c].token
      BY <2>0 DEF CallRows
    <3>2. tab' = [tab EXCEPT ![c] = w]
      BY DEF Tab!Reply
    <3>. QED  BY <1>3, <2>0, <3>1, <3>2, OneMoves DEF Tab!ServeLogin, Tab!ServeLogout,
          TokensAreDrawn
  <2>. QED  BY <1>3, <2>1, <2>2 DEF Tab!ServeLogin, Tab!ServeLogout
<1>4. ASSUME NEW c \in TabCalls, Tab!Done(c), UNCHANGED <<drawn, cookie>>, gate' \in Tab!Gates,
             polling' \in BOOLEAN
      PROVE  TokensAreDrawn'
  BY <1>4 DEF Tab!Done, Tab!Free, CallsHold, TokensAreDrawn
<1>5. ASSUME NEW c \in TabCalls, Tab!TakeSession(c) \/ Tab!TakeData(c) PROVE TokensAreDrawn'
  <2>1. Tab!Done(c) /\ UNCHANGED <<drawn, cookie>>
    BY <1>5 DEF Tab!TakeSession, Tab!TakeData
  <2>2. CASE Tab!TakeData(c)
    <3>1. gate' \in Tab!Gates
      BY <2>2 DEF Tab!TakeData, TokensAreDrawn, Tab!Gates
    <3>2. polling' \in BOOLEAN
      BY <2>2 DEF Tab!TakeData, TokensAreDrawn
    <3>. QED  BY <1>4, <2>1, <3>1, <3>2
  <2>3. CASE Tab!TakeSession(c)
    <3>1. tab[c] \in CallRows
      BY <2>3, CallRow DEF Tab!TakeSession, Tab!IsAnswered
    <3>2. tab[c].kept \in BOOLEAN
      BY <3>1 DEF CallRows
    <3>3. tab[c].answer \in {"authenticated", "anonymous", "error"}
      BY <2>3 DEF Tab!TakeSession, Tab!IsAnswered, CallsHold, Holds
    <3>0. polling' \in BOOLEAN
      BY <2>3 DEF Tab!TakeSession, TokensAreDrawn
    <3>4. CASE tab[c].kept = FALSE
      <4>1. gate' \in Tab!Gates
        BY <2>3, <3>4 DEF Tab!TakeSession, TokensAreDrawn
      <4>. QED  BY <1>4, <2>1, <3>0, <4>1
    <3>5. CASE tab[c].kept = TRUE
      <4>1. gate' \in Tab!Gates
        BY <2>3, <3>3, <3>5 DEF Tab!TakeSession, Tab!Gates
      <4>. QED  BY <1>4, <2>1, <3>0, <4>1
    <3>. QED  BY <3>2, <3>4, <3>5
  <2>. QED  BY <1>5, <2>2, <2>3
<1>6. ASSUME NEW c \in TabCalls, Tab!TakeLogin(c) PROVE TokensAreDrawn'
  <2>1. CASE tab[c].answer # "ok"
    BY <1>4, <1>6, <2>1 DEF Tab!TakeLogin, TokensAreDrawn
  <2>2. CASE tab[c].answer = "ok"
    <3>. PICK w : w = Tab!Waiting("session", tab[c].token)
      OBVIOUS
    <3>1. w.token = tab[c].token /\ tab[c].kind # "free"
      BY <1>6 DEF Tab!Waiting, Tab!TakeLogin, Tab!IsAnswered
    <3>2. tab' = [d \in TabCalls |-> IF d = c THEN w
                                     ELSE IF tab[d].kind = "session" THEN [tab[d] EXCEPT !.kept = FALSE]
                                     ELSE tab[d]]
      BY <1>6, <2>2 DEF Tab!TakeLogin
    <3>3. \A d \in TabCalls : tab[d].kind = "session" => [tab[d] EXCEPT !.kept = FALSE].token = tab[d].token
      BY CallRow DEF CallRows
    <3>. QED  BY <1>6, <2>2, <3>1, <3>2, <3>3 DEF Tab!TakeLogin, TokensAreDrawn
  <2>. QED  BY <2>1, <2>2
<1>7. ASSUME NEW c \in TabCalls, Tab!TakeLogout(c) PROVE TokensAreDrawn'
  <2>1. CASE tab[c].answer # "ok"
    BY <1>4, <1>7, <2>1 DEF Tab!TakeLogout, TokensAreDrawn
  <2>2. CASE tab[c].answer = "ok"
    <3>1. tab' = [[d \in TabCalls |-> IF tab[d].kind \in {"session", "data"} THEN [tab[d] EXCEPT !.kept = FALSE]
                                      ELSE tab[d]] EXCEPT ![c] = Tab!Free]
      BY <1>7, <2>2 DEF Tab!TakeLogout, Tab!Loses
    <3>2. \A d \in TabCalls : tab[d].kind \in {"session", "data"} =>
                                /\ [tab[d] EXCEPT !.kept = FALSE].token = tab[d].token
                                /\ tab[d].kind # "free"
      BY CallRow DEF CallRows
    <3>3. cookie' = None /\ gate' = "login" /\ drawn' = drawn /\ polling' = polling
      BY <1>7, <2>2 DEF Tab!TakeLogout
    <3>4. ASSUME NEW d \in TabCalls, tab'[d].kind # "free" PROVE tab'[d].token \in drawn \cup {None}
      <4>1. d # c
        BY <3>1, <3>4 DEF Tab!Free
      <4>. QED  BY <3>1, <3>2, <3>4, <4>1 DEF TokensAreDrawn
    <3>. QED  BY <3>3, <3>4 DEF TokensAreDrawn, Tab!Gates
  <2>. QED  BY <2>1, <2>2
<1>8. CASE UNCHANGED <<drawn, cookie, gate, tab>> /\ polling' \in BOOLEAN
  BY <1>8 DEF TokensAreDrawn
<1>9. ASSUME NEW p \in BOOLEAN, Tab!Visit(p) PROVE TokensAreDrawn'
  <2>1. \A d \in TabCalls : tab'[d] \in {Tab!Free, tab[d]}
    BY <1>9 DEF Tab!Visit
  <2>. QED  BY <1>9, <2>1 DEF Tab!Visit, Tab!Free, TokensAreDrawn
<1>10. ASSUME NEW p \in BOOLEAN, Tab!Turn(p) PROVE TokensAreDrawn'
  BY <1>8, <1>10 DEF Tab!Turn
<1>11. ASSUME NEW t \in Tokens, Tab!Expire(t) \/ Tab!Cleanup(t) PROVE TokensAreDrawn'
  BY <1>8, <1>11 DEF Tab!Expire, Tab!Cleanup, TokensAreDrawn
<1>12. CASE UNCHANGED Tab!vars
  BY <1>8, <1>12 DEF Tab!vars, TokensAreDrawn
<1>. QED  BY <1>1, <1>2, <1>3, <1>5, <1>6, <1>7, <1>9, <1>10, <1>11, <1>12
       DEF Tab!Next, Tab!vars, Tab!AskSession, Tab!Poll, Tab!Fetch, Tab!Mutate, Tab!Logout,
           Tab!Login, Tab!Serve, Tab!Take, Tab!Turn, Tab!Expire, Tab!Cleanup

\* The shapes of sessions and calls, and a cookie or a call carries a token that exists.
THEOREM TokensStayDrawn ==
  ASSUME Tab!SessionAssumption
  PROVE  Tab!Spec => []Tab!TypeOK
<1>1. Tab!Init => SessionInv /\ TokensAreDrawn
  BY InitIsLoggedOut DEF Tab!Init, TokensAreDrawn, Tab!Gates, Tab!Free
<1>2. SessionInv /\ TokensAreDrawn /\ [Tab!Next]_Tab!vars => SessionInv' /\ TokensAreDrawn'
  BY RowsStep, CallsStep, TokensStep DEF SessionInv
<1>3. SessionInv /\ TokensAreDrawn => Tab!TypeOK
  <2>. SUFFICES ASSUME SessionInv, TokensAreDrawn, NEW c \in TabCalls, tab[c] # Tab!Free
                PROVE  tab[c].kind \in Tab!Kinds /\ tab[c].token \in drawn \cup {None}
    BY DEF SessionInv, RowsAreAudited, TokensAreDrawn, Tab!TypeOK
  <2>1. tab[c] \in CallRows
    BY DEF SessionInv, CallsHold
  <2>. QED  BY <2>1 DEF CallRows, Tab!Kinds, TokensAreDrawn
<1>. QED  BY <1>1, <1>2, <1>3, PTL DEF Tab!Spec

\* What has become of a session, the log says.
THEOREM SessionEndsAreAudited ==
  ASSUME Tab!SessionAssumption
  PROVE  Tab!Spec => Tab!EndsAreAudited
<1>1. Tab!Init => SessionInv
  BY InitIsLoggedOut
<1>2. SessionInv /\ [Tab!Next]_Tab!vars => SessionInv'
  BY RowsStep, CallsStep DEF SessionInv
<1>3. SessionInv /\ [Tab!Next]_Tab!vars =>
        [ \A t \in Tokens : session[t] # session'[t] =>
              \/ session[t] = None   /\ events'[t] = [login |-> 1, logout |-> 0]
              \/ session'[t] = None  /\ session[t] = "expired" /\ events'[t].logout \in {0, 1}
              \/ session'[t] = None  /\ session[t] = "valid" /\ events'[t].logout = 1
              \/ session'[t] = "expired" /\ events'[t].logout = 0 ]_Tab!vars
  BY RowsStep
<1>. QED  BY <1>1, <1>2, <1>3, PTL DEF Tab!Spec, Tab!EndsAreAudited

\* A page is shown again only to a browser with a session cookie.
THEOREM PagesAreNotShownAgain ==
  ASSUME Tab!SessionAssumption
  PROVE  Tab!Spec => Tab!PagesNeedACookie
<1>1. Tab!Init => SessionInv
  BY InitIsLoggedOut
<1>2. SessionInv /\ [Tab!Next]_Tab!vars => SessionInv'
  BY RowsStep, CallsStep DEF SessionInv
<1>3. SessionInv /\ [Tab!Next]_Tab!vars => [ gate # "pages" /\ gate' = "pages" => cookie # None ]_Tab!vars
  BY CallsStep
<1>. QED  BY <1>1, <1>2, <1>3, PTL DEF Tab!Spec, Tab!PagesNeedACookie

-----------------------------------------------------------------------------
(* The throttle of the logins *)

\* An instance brings its own copy of the definitions of FiniteSets.
LEMMA SameCardinality == \A S : Throttle!Cardinality(S) = Cardinality(S)
BY Zenon DEF Throttle!Cardinality, Cardinality

\* The window of the row holds the last failures of the log, and no others are in it.
WindowHolds ==
  LET f == limit.failed
      n == Len(log)
  IN  /\ limit \in Throttle!LimitRows /\ limit.since <= now /\ f <= n
      /\ \A i \in 1..n : log[i] < limit.since + Window /\ (log[i] >= limit.since <=> i > n - f)
      /\ IF f >= MaxFailures THEN limit.until = log[n] + Block ELSE limit.until = NoBlock

\* When the block of the row began.
BlockBegan == log[MaxFailures + Len(log) - limit.failed]

\* A login that is still to fail in the window was let in before it was blocked.
LetInBefore ==
  limit.failed >= MaxFailures /\ limit.since > now - Window =>
    \A l \in Logins : login[l].stage \in {"verify", "wrong"} => login[l].at <= BlockBegan

\* The failures from the one that blocked the source are of as many logins.
Overlap ==
  limit.failed >= MaxFailures =>
    \E T \in SUBSET Logins :
       /\ IsFiniteSet(T) /\ Cardinality(T) = limit.failed - MaxFailures + 1
       /\ \A l \in T : login[l].stage = "failed" /\ login[l].at <= BlockBegan

\* Without a row every failure is over; with one, its window, its block and who passed it.
LimitInv ==
  /\ now \in 0..MaxTime
  /\ login \in [Logins -> [stage : Throttle!Stages, at : 0..MaxTime]]
  /\ \A l \in Logins : login[l].at <= now
  /\ log \in Seq(Nat) /\ \A i \in 1..Len(log) : log[i] <= now
  /\ IF limit = NoRow THEN \A i \in 1..Len(log) : log[i] < now
     ELSE WindowHolds /\ LetInBefore /\ Overlap

\* Numbers of the row, as numbers.
LEMMA RowNumbers ==
  ASSUME Throttle!LimitAssumption, LimitInv, limit # NoRow
  PROVE  /\ limit.failed \in Nat /\ limit.failed >= 1 /\ limit.since \in Nat /\ limit.since <= now
         /\ limit.failed <= Len(log) /\ Len(log) \in Nat /\ now \in Nat
         /\ Window \in Nat /\ Window >= 1 /\ Block \in Nat /\ Block >= Window
         /\ MaxFailures \in Nat /\ MaxFailures >= 1
BY DEF Throttle!LimitAssumption, LimitInv, WindowHolds, Throttle!LimitRows

LEMMA RowTimes ==
  ASSUME Throttle!LimitAssumption, LimitInv, limit # NoRow
  PROVE  \A i \in 1..Len(log) :
           /\ log[i] \in Nat /\ log[i] <= now /\ log[i] < limit.since + Window
           /\ log[i] >= limit.since <=> i > Len(log) - limit.failed
BY DEF LimitInv, WindowHolds

LEMMA RowBlock ==
  ASSUME Throttle!LimitAssumption, LimitInv, limit # NoRow
  PROVE  /\ log[Len(log)] \in Nat /\ log[Len(log)] >= limit.since /\ log[Len(log)] < limit.since + Window
         /\ log[Len(log)] <= now
         /\ limit.failed >= MaxFailures => limit.until = log[Len(log)] + Block /\ limit.until # NoBlock
         /\ limit.failed < MaxFailures => limit.until = NoBlock
<1>1. Len(log) \in 1..Len(log) /\ Len(log) > Len(log) - limit.failed
  BY RowNumbers
<1>2. /\ log[Len(log)] \in Nat /\ log[Len(log)] >= limit.since /\ log[Len(log)] < limit.since + Window
      /\ log[Len(log)] <= now
  BY <1>1, RowTimes
<1>3. /\ limit.failed >= MaxFailures => limit.until = log[Len(log)] + Block
      /\ limit.failed < MaxFailures => limit.until = NoBlock
  BY RowNumbers DEF LimitInv, WindowHolds
<1>4. limit.failed >= MaxFailures => limit.until # NoBlock
  <2>1. log[Len(log)] + Block \in Nat
    BY <1>2, RowNumbers
  <2>. QED  BY <1>3, <2>1 DEF Throttle!LimitAssumption
<1>. QED  BY <1>2, <1>3, <1>4

LEMMA InitIsOpen ==
  ASSUME Throttle!LimitAssumption, Throttle!Init
  PROVE  LimitInv
BY DEF Throttle!Init, LimitInv, Throttle!LimitAssumption, Throttle!Stages

\* Only logins change, and none of those that matter comes or goes but when it may.
LEMMA OneLoginMoves ==
  ASSUME Throttle!LimitAssumption, LimitInv, NEW l \in Logins, NEW w \in [stage : Throttle!Stages, at : 0..MaxTime],
         login' = [login EXCEPT ![l] = w], UNCHANGED <<now, limit, log>>, w.at <= now,
         login[l].stage # "failed",
         w.stage \in {"verify", "wrong"} =>
            \/ login[l].stage \in {"verify", "wrong"} /\ w.at = login[l].at
            \/ ~Throttle!IsBlocked
  PROVE  LimitInv'
<1>1. /\ login' \in [Logins -> [stage : Throttle!Stages, at : 0..MaxTime]]
      /\ \A k \in Logins : login'[k] = IF k = l THEN w ELSE login[k]
      /\ \A k \in Logins : login'[k].at <= now
  BY DEF LimitInv
<1>2. CASE limit = NoRow
  BY <1>1, <1>2 DEF LimitInv
<1>3. CASE limit # NoRow
  <2>1. WindowHolds' /\ BlockBegan' = BlockBegan
    BY <1>3 DEF LimitInv, WindowHolds, BlockBegan
  <2>2. LetInBefore'
    <3>. SUFFICES ASSUME limit.failed >= MaxFailures, limit.since > now - Window,
                         NEW k \in Logins, login'[k].stage \in {"verify", "wrong"}
                  PROVE  login'[k].at <= BlockBegan
      BY <2>1 DEF LetInBefore
    <3>1. Throttle!IsBlocked
      <4>2. limit.until > now /\ limit.until # NoBlock
        BY <1>3, RowNumbers, RowBlock
      <4>. QED  BY <1>3, <4>2 DEF Throttle!IsBlocked
    <3>. QED  BY <3>1, <1>1, <1>3 DEF LimitInv, LetInBefore
  <2>3. Overlap'
    <3>. SUFFICES ASSUME limit.failed >= MaxFailures PROVE Overlap'
      BY DEF Overlap
    <3>1. PICK T \in SUBSET Logins :
             /\ IsFiniteSet(T) /\ Cardinality(T) = limit.failed - MaxFailures + 1
             /\ \A k \in T : login[k].stage = "failed" /\ login[k].at <= BlockBegan
      BY <1>3 DEF LimitInv, Overlap
    <3>2. \A k \in T : login'[k] = login[k]
      BY <1>1, <3>1
    <3>. QED  BY <2>1, <3>1, <3>2 DEF Overlap
  <2>. QED  BY <1>1, <1>3, <2>1, <2>2, <2>3 DEF LimitInv
<1>. QED  BY <1>2, <1>3


LEMMA FailureCounts ==
  ASSUME Throttle!LimitAssumption, LimitInv, NEW l \in Logins, Throttle!RecordFailure(l)
  PROVE  LimitInv'
<1>f. PICK f : f = Throttle!FailuresNow
  OBVIOUS
<1>s. PICK s : s = Throttle!WindowNow
  OBVIOUS
<1>n. PICK n : n = Len(log)
  OBVIOUS
<1>w. PICK w : w = [login[l] EXCEPT !.stage = "failed"]
  OBVIOUS
<1>here. PICK here : here = [failed |-> f, since |-> s, until |-> IF Throttle!BlockedFrom(f) THEN Throttle!BlockEnd ELSE NoBlock]
  OBVIOUS
<1>1. /\ now \in Nat /\ now <= MaxTime /\ MaxTime \in Nat /\ n \in Nat /\ MaxFailures \in Nat /\ MaxFailures >= 1
      /\ Window \in Nat /\ Window >= 1 /\ Block \in Nat
      /\ log \in Seq(Nat) /\ \A i \in 1..n : log[i] \in Nat /\ log[i] <= now
  BY <1>n DEF LimitInv, Throttle!LimitAssumption
<1>2. /\ login[l] \in [stage : Throttle!Stages, at : 0..MaxTime] /\ login[l].stage = "wrong" /\ login[l].at <= now
      /\ w.stage = "failed" /\ w.at = login[l].at /\ w \in [stage : Throttle!Stages, at : 0..MaxTime]
      /\ login' = [login EXCEPT ![l] = w]
  BY <1>w DEF LimitInv, Throttle!RecordFailure, Throttle!Goto, Throttle!Stages
<1>3. /\ login' \in [Logins -> [stage : Throttle!Stages, at : 0..MaxTime]]
      /\ \A k \in Logins : login'[k] = IF k = l THEN w ELSE login[k]
      /\ \A k \in Logins : login'[k].at <= now
  BY <1>2 DEF LimitInv
<1>4. limit' = here /\ now' = now /\ log' = Append(log, now)
  BY <1>f, <1>s, <1>here DEF Throttle!RecordFailure
<1>5. /\ log' \in Seq(Nat) /\ Len(log') = n + 1 /\ log'[n + 1] = now
      /\ \A i \in 1..n : log'[i] = log[i]
  BY <1>1, <1>4, <1>n
<1>6. \A i \in 1..Len(log') : i \in 1..n \/ i = n + 1
  BY <1>1, <1>5
<1>7. \A i \in 1..Len(log') : log'[i] <= now
  BY <1>1, <1>5, <1>6
<1>8. /\ f \in Nat /\ f >= 1 /\ f <= n + 1 /\ s \in Nat /\ s <= now
      /\ \A i \in 1..n : log[i] < s + Window /\ (log[i] >= s <=> i > n + 1 - f)
      /\ now < s + Window
      /\ \/ f = 1 /\ s = now
         \/ limit # NoRow /\ f = limit.failed + 1 /\ s = limit.since /\ s > now - Window
  <2>1. CASE limit = NoRow \/ limit.since <= now - Window
    <3>1. f = 1 /\ s = now
      BY <2>1, <1>f, <1>s DEF Throttle!FailuresNow, Throttle!WindowNow
    <3>2. \A i \in 1..n : log[i] < now
      <4>1. CASE limit = NoRow
        BY <4>1, <1>n DEF LimitInv
      <4>2. CASE limit # NoRow
        BY <2>1, <4>2, <1>1, <1>n, RowNumbers, RowTimes
      <4>. QED  BY <4>1, <4>2
    <3>. QED  BY <3>1, <3>2, <1>1
  <2>2. CASE ~(limit = NoRow \/ limit.since <= now - Window)
    <3>1. f = limit.failed + 1 /\ s = limit.since
      BY <2>2, <1>f, <1>s DEF Throttle!FailuresNow, Throttle!WindowNow
    <3>2. limit # NoRow /\ limit.failed \in Nat /\ n = Len(log) /\ n \in Nat
      BY <2>2, <1>n, RowNumbers
    <3>3. \A i \in 1..n : log[i] < s + Window /\ (log[i] >= s <=> i > n + 1 - f)
      <4>1. \A i \in 1..n : log[i] < s + Window /\ (log[i] >= s <=> i > n - limit.failed)
        BY <3>1, <3>2, RowTimes, Zenon
      <4>2. n - limit.failed = n + 1 - f
        BY ONLY <3>1, <3>2
      <4>. QED  BY <4>1, <4>2
    <3>4. now < s + Window /\ s > now - Window
      BY <2>2, <3>1, <1>1, RowNumbers
    <3>5. limit # NoRow /\ f \in Nat /\ f >= 1 /\ f <= n + 1 /\ s \in Nat /\ s <= now
      BY <2>2, <3>1, <1>1, <1>n, RowNumbers
    <3>. QED  BY <3>1, <3>3, <3>4, <3>5, Zenon
  <2>. QED  BY <2>1, <2>2
<1>9. here \in Throttle!LimitRows /\ here.failed = f /\ here.since = s
      /\ here.until = IF f >= MaxFailures THEN now + Block ELSE NoBlock
  BY <1>1, <1>8, <1>here DEF Throttle!LimitRows, Throttle!BlockedFrom, Throttle!BlockEnd
<1>10. here # NoRow
  BY <1>9 DEF Throttle!LimitAssumption
<1>11. WindowHolds'
  <2>1. \A i \in 1..Len(log') : log'[i] < s + Window /\ (log'[i] >= s <=> i > Len(log') - f)
    <3>1. ASSUME NEW i \in 1..n PROVE log'[i] < s + Window /\ (log'[i] >= s <=> i > n + 1 - f)
      BY <3>1, <1>5, <1>8
    <3>2. log'[n + 1] < s + Window /\ log'[n + 1] >= s /\ n + 1 > n + 1 - f
      BY <1>1, <1>5, <1>8
    <3>3. Len(log') - f = n + 1 - f
      BY <1>1, <1>5, <1>8
    <3>. QED  BY <3>1, <3>2, <3>3, <1>6
  <2>2. here.until = IF f >= MaxFailures THEN log'[n + 1] + Block ELSE NoBlock
    BY <1>5, <1>9
  <2>. QED  BY <2>1, <2>2, <1>1, <1>4, <1>5, <1>8, <1>9 DEF WindowHolds
<1>12. f > MaxFailures => BlockBegan' = BlockBegan /\ limit # NoRow /\ limit.failed >= MaxFailures
  <2>. SUFFICES ASSUME f > MaxFailures
                PROVE  BlockBegan' = BlockBegan /\ limit # NoRow /\ limit.failed >= MaxFailures
    OBVIOUS
  <2>1. limit # NoRow /\ f = limit.failed + 1
    <3>1. f # 1
      BY <1>1, <1>8
    <3>. QED  BY <3>1, <1>8
  <2>2. limit.failed \in Nat /\ limit.failed >= MaxFailures /\ limit.failed <= n
    BY <2>1, <1>1, <1>n, RowNumbers
  <2>3. MaxFailures + (n + 1) - f = MaxFailures + n - limit.failed
    <3>1. \A g, x \in Nat : x + (n + 1) - (g + 1) = x + n - g
      BY <1>1
    <3>. QED  BY <3>1, <2>1, <2>2, <1>1
  <2>4. MaxFailures + n - limit.failed \in 1..n
    <3>1. \A g, x \in Nat : g >= x /\ g <= n /\ x >= 1 => x + n - g \in 1..n
      BY <1>1
    <3>. QED  BY <3>1, <2>2, <1>1
  <2>5. BlockBegan' = log'[MaxFailures + (n + 1) - f]
    BY <1>4, <1>5, <1>9 DEF BlockBegan
  <2>. QED  BY <2>1, <2>2, <2>3, <2>4, <2>5, <1>5, <1>n DEF BlockBegan
<1>13. f = MaxFailures => BlockBegan' = now
  <2>1. f = MaxFailures => MaxFailures + (n + 1) - f = n + 1
    BY <1>1, <1>8
  <2>. QED  BY <2>1, <1>4, <1>5, <1>9 DEF BlockBegan
<1>14. LetInBefore'
  <2>. SUFFICES ASSUME f >= MaxFailures, NEW k \in Logins, login'[k].stage \in {"verify", "wrong"}
                PROVE  login'[k].at <= BlockBegan'
    BY <1>4, <1>9 DEF LetInBefore
  <2>1. CASE f = MaxFailures
    BY <2>1, <1>3, <1>13
  <2>2. CASE f > MaxFailures
    <3>1. login'[k] = login[k]
      BY <1>2, <1>3
    <3>2. LetInBefore /\ limit.since > now - Window
      BY <2>2, <1>1, <1>8, <1>12 DEF LimitInv
    <3>. QED  BY <2>2, <3>1, <3>2, <1>12 DEF LetInBefore
  <2>. QED  BY <2>1, <2>2, <1>1, <1>8
<1>15. Overlap'
  <2>. SUFFICES ASSUME f >= MaxFailures
                PROVE  \E T \in SUBSET Logins :
                          /\ IsFiniteSet(T) /\ Cardinality(T) = f - MaxFailures + 1
                          /\ \A k \in T : login'[k].stage = "failed" /\ login'[k].at <= BlockBegan'
    BY <1>4, <1>9 DEF Overlap
  <2>1. CASE f = MaxFailures
    <3>1. IsFiniteSet({l}) /\ Cardinality({l}) = 1
      BY FS_Singleton
    <3>2. f - MaxFailures + 1 = 1
      BY <2>1, <1>8
    <3>. WITNESS {l} \in SUBSET Logins
    <3>. QED  BY <2>1, <3>1, <3>2, <1>2, <1>3, <1>13
  <2>2. CASE f > MaxFailures
    <3>1. PICK T \in SUBSET Logins :
             /\ IsFiniteSet(T) /\ Cardinality(T) = limit.failed - MaxFailures + 1
             /\ \A k \in T : login[k].stage = "failed" /\ login[k].at <= BlockBegan
      BY <2>2, <1>12 DEF LimitInv, Overlap
    <3>2. l \notin T
      BY <3>1, <1>2
    <3>3. IsFiniteSet(T \cup {l}) /\ Cardinality(T \cup {l}) = Cardinality(T) + 1
      BY <3>1, <3>2, FS_AddElement
    <3>4. Cardinality(T \cup {l}) = f - MaxFailures + 1
      <4>1. f = limit.failed + 1 /\ limit.failed \in Nat
        <5>1. f # 1
          BY <2>2, <1>1, <1>8
        <5>. QED  BY <5>1, <2>2, <1>8, <1>12, RowNumbers
      <4>. QED  BY <4>1, <3>1, <3>3, <1>1
    <3>5. login[l].at <= BlockBegan
      BY <2>2, <1>1, <1>2, <1>8, <1>12 DEF LimitInv, LetInBefore
    <3>6. \A k \in T \cup {l} : login'[k].stage = "failed" /\ login'[k].at <= BlockBegan'
      BY <3>1, <3>5, <2>2, <1>2, <1>3, <1>12
    <3>. WITNESS T \cup {l} \in SUBSET Logins
    <3>. QED  BY <3>3, <3>4, <3>6
  <2>. QED  BY <2>1, <2>2, <1>1, <1>8
<1>. QED  BY <1>1, <1>3, <1>4, <1>5, <1>7, <1>10, <1>11, <1>14, <1>15 DEF LimitInv

LEMMA ClockMoves ==
  ASSUME Throttle!LimitAssumption, LimitInv, Throttle!PassTime
  PROVE  LimitInv'
<1>1. /\ now' = now + 1 /\ now' \in 0..MaxTime /\ now \in Nat /\ UNCHANGED <<limit, login, log>>
  BY DEF Throttle!PassTime, LimitInv, Throttle!LimitAssumption
<1>2. /\ \A i \in 1..Len(log) : log[i] \in Nat /\ log[i] < now'
      /\ \A l \in Logins : login[l].at <= now'
  BY <1>1 DEF LimitInv
<1>3. CASE limit = NoRow
  BY <1>1, <1>2, <1>3 DEF LimitInv
<1>4. CASE limit # NoRow
  <2>1. WindowHolds'
    BY <1>1, <1>4, RowNumbers DEF LimitInv, WindowHolds
  <2>2. LetInBefore' /\ Overlap'
    <3>1. LetInBefore /\ Overlap /\ BlockBegan' = BlockBegan
      BY <1>1, <1>4 DEF LimitInv, BlockBegan
    <3>2. limit.since > now' - Window => limit.since > now - Window
      BY <1>1, <1>4, RowNumbers
    <3>. QED  BY <3>1, <3>2, <1>1 DEF LetInBefore, Overlap
  <2>. QED  BY <1>1, <1>2, <1>4, <2>1, <2>2 DEF LimitInv
<1>. QED  BY <1>3, <1>4

\* A window that is over for as long as a block has no failure of this instant.
LEMMA CleanupKeeps ==
  ASSUME Throttle!LimitAssumption, LimitInv, Throttle!Cleanup
  PROVE  LimitInv'
<1>1. \A i \in 1..Len(log) : log[i] < now
  BY RowNumbers, RowTimes DEF Throttle!Cleanup, Throttle!IsOver
<1>. QED  BY <1>1 DEF Throttle!Cleanup, LimitInv

LEMMA LimitStep ==
  ASSUME Throttle!LimitAssumption, LimitInv, [Throttle!Next]_Throttle!vars
  PROVE  LimitInv'
<1>1. ASSUME NEW l \in Logins, NEW w \in [stage : Throttle!Stages, at : 0..MaxTime],
             login' = [login EXCEPT ![l] = w], UNCHANGED <<now, limit, log>>, w.at <= now,
             login[l].stage # "failed", w.stage \notin {"verify", "wrong"}
      PROVE  LimitInv'
  BY <1>1, OneLoginMoves
<1>2. now \in Nat /\ now <= MaxTime /\ MaxTime \in Nat /\ \A l \in Logins :
        login[l] \in [stage : Throttle!Stages, at : 0..MaxTime] /\ login[l].at <= now
  BY DEF LimitInv, Throttle!LimitAssumption
<1>3. ASSUME NEW l \in Logins, Throttle!Arrive(l) PROVE LimitInv'
  <2>. PICK w : w = IF Throttle!IsBlocked THEN Throttle!Over("refused") ELSE [stage |-> "verify", at |-> now]
    OBVIOUS
  <2>1. w \in [stage : Throttle!Stages, at : 0..MaxTime] /\ w.at <= now
    BY <1>2 DEF Throttle!Over, Throttle!Stages
  <2>2. w.stage \in {"verify", "wrong"} => ~Throttle!IsBlocked
    BY DEF Throttle!Over
  <2>3. login' = [login EXCEPT ![l] = w] /\ UNCHANGED <<now, limit, log>> /\ login[l].stage # "failed"
    BY <1>3 DEF Throttle!Arrive
  <2>. QED  BY <2>1, <2>2, <2>3, OneLoginMoves
<1>4. ASSUME NEW l \in Logins, Throttle!Verify(l) PROVE LimitInv'
  <2>. PICK answer \in {"wrong", "right"} : Throttle!Goto(l, answer)
    BY <1>4 DEF Throttle!Verify
  <2>. PICK w : w = [login[l] EXCEPT !.stage = answer]
    OBVIOUS
  <2>1. w \in [stage : Throttle!Stages, at : 0..MaxTime] /\ w.at = login[l].at
    BY <1>2 DEF Throttle!Stages
  <2>2. login' = [login EXCEPT ![l] = w] /\ UNCHANGED <<now, limit, log>> /\ login[l].stage = "verify"
    BY <1>4 DEF Throttle!Verify, Throttle!Goto
  <2>. QED  BY <2>1, <2>2, <1>2, OneLoginMoves
<1>5. ASSUME NEW l \in Logins, Throttle!Clear(l) PROVE LimitInv'
  <2>1. login' \in [Logins -> [stage : Throttle!Stages, at : 0..MaxTime]] /\ \A k \in Logins : login'[k].at <= now
    BY <1>2, <1>5 DEF Throttle!Clear, Throttle!Goto, Throttle!Stages, LimitInv
  <2>. QED  BY <2>1, <1>5 DEF Throttle!Clear, LimitInv
<1>6. ASSUME NEW l \in Logins, Throttle!CreateSession(l) \/ Throttle!Fail(l) PROVE LimitInv'
  <2>. PICK w : w = Throttle!Over("done")
    OBVIOUS
  <2>1. w \in [stage : Throttle!Stages, at : 0..MaxTime] /\ w.at <= now /\ w.stage = "done"
    BY <1>2 DEF Throttle!Over, Throttle!Stages
  <2>2. login' = [login EXCEPT ![l] = w] /\ UNCHANGED <<now, limit, log>> /\ login[l].stage # "failed"
    BY <1>6 DEF Throttle!CreateSession, Throttle!Fail, Throttle!Answer
  <2>. QED  BY <2>1, <2>2, <1>1
<1>7. CASE UNCHANGED Throttle!vars
  BY <1>7 DEF Throttle!vars, LimitInv, WindowHolds, LetInBefore, Overlap, BlockBegan
<1>. QED  BY <1>3, <1>4, <1>5, <1>6, <1>7, FailureCounts, ClockMoves, CleanupKeeps, Zenon
     DEF Throttle!Next

LEMMA LimitInvariant ==
  ASSUME Throttle!LimitAssumption
  PROVE  Throttle!Spec => []LimitInv
<1>1. Throttle!Init => LimitInv
  BY InitIsOpen
<1>2. LimitInv /\ [Throttle!Next]_Throttle!vars => LimitInv'
  BY LimitStep
<1>. QED  BY <1>1, <1>2, PTL DEF Throttle!Spec

\* The row keeps its shape, and a block is over after Block.
THEOREM BlocksAreShort ==
  ASSUME Throttle!LimitAssumption
  PROVE  Throttle!Spec => []Throttle!TypeOK
<1>1. LimitInv => Throttle!TypeOK
  <2>. SUFFICES ASSUME LimitInv PROVE Throttle!TypeOK
    OBVIOUS
  <2>1. \A l \in Logins : login[l].stage \in Throttle!Stages /\ login[l].at \in 0..now
    BY DEF LimitInv, Throttle!LimitAssumption
  <2>2. ASSUME limit # NoRow, limit.until # NoBlock PROVE limit.until <= now + Block
    <3>1. limit.until = log[Len(log)] + Block /\ log[Len(log)] <= now
      BY <2>2, RowNumbers, RowBlock
    <3>. QED  BY <3>1, <2>2, RowNumbers, RowBlock
  <2>. QED  BY <2>1, <2>2 DEF LimitInv, WindowHolds, Throttle!TypeOK
<1>. QED  BY <1>1, LimitInvariant, PTL

\* The count of a window is the number of the failures recorded in it.
THEOREM CountStaysExact ==
  ASSUME Throttle!LimitAssumption
  PROVE  Throttle!Spec => []Throttle!CountIsExact
<1>1. LimitInv => Throttle!CountIsExact
  <2>. SUFFICES ASSUME LimitInv, limit # NoRow
                PROVE  limit.failed = Cardinality(Throttle!Recorded(limit.since..now))
    BY SameCardinality DEF Throttle!CountIsExact
  <2>n. PICK n : n = Len(log)
    OBVIOUS
  <2>m. PICK m : m = n - limit.failed + 1
    OBVIOUS
  <2>1. m \in Int /\ m >= 1 /\ n \in Int /\ n - m + 1 = limit.failed /\ m <= n
    BY <2>n, <2>m, RowNumbers
  <2>2. \A i \in 1..n : log[i] \in limit.since..now <=> i >= m
    <3>. SUFFICES ASSUME NEW i \in 1..n PROVE log[i] \in limit.since..now <=> i >= m
      OBVIOUS
    <3>1. /\ log[i] \in Nat /\ log[i] <= now
          /\ log[i] >= limit.since <=> i > n - limit.failed
      BY <2>n, RowTimes
    <3>2. i > n - limit.failed <=> i >= m
      BY <2>1, RowNumbers
    <3>. QED  BY <3>1, <3>2, RowNumbers
  <2>3. Throttle!Recorded(limit.since..now) = m..n
    BY <2>n, <2>1, <2>2 DEF Throttle!Recorded
  <2>4. Cardinality(m..n) = n - m + 1
    BY <2>1, FS_Interval
  <2>. QED  BY <2>1, <2>3, <2>4
<1>. QED  BY <1>1, LimitInvariant, PTL

\* The failures past the limit are of logins that had come before it was reached.
THEOREM OverlapIsBounded ==
  ASSUME Throttle!LimitAssumption
  PROVE  Throttle!Spec => []Throttle!OverlapOnly
<1>1. LimitInv => Throttle!OverlapOnly
  <2>. SUFFICES ASSUME LimitInv, limit # NoRow, limit.failed > MaxFailures
                PROVE  \E T \in SUBSET Logins :
                          /\ Cardinality(T) = limit.failed - MaxFailures + 1
                          /\ \A l \in T : login[l].stage = "failed"
                               /\ login[l].at <= log[MaxFailures + Len(log) - limit.failed]
    BY SameCardinality DEF Throttle!OverlapOnly
  <2>. QED  BY RowNumbers DEF LimitInv, Overlap, BlockBegan
<1>. QED  BY <1>1, LimitInvariant, PTL

\* A login is refused only while that many failures block the source.
THEOREM RefusalHasItsReason ==
  ASSUME Throttle!LimitAssumption
  PROVE  Throttle!Spec => Throttle!RefusedForAReason
<1>1. LimitInv /\ [Throttle!Next]_Throttle!vars =>
        [ \A l \in Logins : login[l].stage # "refused" /\ login'[l].stage = "refused" =>
            /\ log[Len(log)] > now - Block
            /\ Throttle!Cardinality(Throttle!Recorded((log[Len(log)] - Window + 1)..now)) >= MaxFailures ]_Throttle!vars
  <2>. SUFFICES ASSUME LimitInv, Throttle!Next, NEW l \in Logins, login[l].stage # "refused",
                       login'[l].stage = "refused"
                PROVE  /\ log[Len(log)] > now - Block
                       /\ Cardinality(Throttle!Recorded((log[Len(log)] - Window + 1)..now)) >= MaxFailures
    BY SameCardinality DEF Throttle!vars
  <2>1. Throttle!IsBlocked
    <3>1. \A k \in Logins : login[k].stage \in Throttle!Stages
      BY DEF LimitInv
    <3>2. ASSUME NEW k \in Logins, Throttle!Arrive(k) PROVE Throttle!IsBlocked
      BY <3>2 DEF Throttle!Arrive, LimitInv
    <3>3. ASSUME NEW k \in Logins, NEW w, login' = [login EXCEPT ![k] = w], w.stage # "refused" PROVE FALSE
      BY <3>3 DEF LimitInv
    <3>4. ASSUME NEW k \in Logins, NEW g \in {"wrong", "right", "failed", "session"}, Throttle!Goto(k, g) PROVE FALSE
      <4>. PICK w : w = [login[k] EXCEPT !.stage = g]
        OBVIOUS
      <4>1. w.stage = g
        BY DEF LimitInv
      <4>2. login' = [login EXCEPT ![k] = w]
        BY <3>4 DEF Throttle!Goto
      <4>. QED  BY <3>3, <4>1, <4>2
    <3>5. ASSUME NEW k \in Logins, Throttle!CreateSession(k) \/ Throttle!Fail(k) PROVE FALSE
      BY <3>3, <3>5 DEF Throttle!CreateSession, Throttle!Fail, Throttle!Answer, Throttle!Over
    <3>6. ASSUME NEW k \in Logins, Throttle!Verify(k) \/ Throttle!RecordFailure(k) \/ Throttle!Clear(k) PROVE FALSE
      BY <3>4, <3>6 DEF Throttle!Verify, Throttle!RecordFailure, Throttle!Clear
    <3>7. login' # login
      OBVIOUS
    <3>. QED  BY <3>2, <3>5, <3>6, <3>7, Zenon DEF Throttle!Next, Throttle!PassTime,
          Throttle!Cleanup
  <2>n. PICK n : n = Len(log)
    OBVIOUS
  <2>m. PICK m : m = n - limit.failed + 1
    OBVIOUS
  <2>2. limit # NoRow /\ WindowHolds
    BY <2>1 DEF Throttle!IsBlocked, LimitInv
  <2>3. m \in Int /\ m >= 1 /\ n \in Int /\ n - m + 1 = limit.failed /\ m <= n
    BY <2>n, <2>m, <2>2, RowNumbers
  <2>4. limit.failed >= MaxFailures /\ limit.until = log[n] + Block
    BY <2>n, <2>1, <2>2, RowNumbers, RowBlock DEF Throttle!IsBlocked
  <2>5. log[n] > now - Block
    BY <2>n, <2>1, <2>2, <2>4, RowNumbers, RowBlock DEF Throttle!IsBlocked
  <2>. DEFINE S == Throttle!Recorded((log[n] - Window + 1)..now)
  <2>6. m..n \subseteq S /\ S \subseteq 1..n
    <3>1. ASSUME NEW i \in 1..n, i >= m PROVE log[i] \in (log[n] - Window + 1)..now
      <4>1. i > n - limit.failed
        BY <2>3, <3>1, <2>2, RowNumbers
      <4>2. log[i] \in Nat /\ log[i] <= now /\ log[i] >= limit.since
        BY <2>n, <4>1, <2>2, RowTimes
      <4>. QED  BY <2>n, <4>2, <2>2, RowNumbers, RowBlock
    <3>. QED  BY <2>n, <3>1, <2>3 DEF Throttle!Recorded
  <2>7. Cardinality(m..n) <= Cardinality(S)
    <3>. HIDE DEF S
    <3>1. IsFiniteSet(1..n)
      BY <2>3, FS_Interval
    <3>2. IsFiniteSet(S)
      BY <3>1, <2>6, FS_Subset
    <3>. QED  BY <3>2, <2>6, FS_Subset
  <2>8. Cardinality(m..n) = limit.failed
    <3>1. Cardinality(m..n) = n - m + 1
      BY <2>3, FS_Interval
    <3>. QED  BY <2>3, <3>1
  <2>9. Cardinality(S) >= MaxFailures
    <3>1. Cardinality(S) \in Nat
      <4>1. IsFiniteSet(1..n)
        BY <2>3, FS_Interval
      <4>. HIDE DEF S
      <4>2. IsFiniteSet(S)
        BY <4>1, <2>6, FS_Subset
      <4>. QED  BY <4>2, FS_CardinalityType
    <3>. HIDE DEF S
    <3>. QED  BY <3>1, <2>2, <2>4, <2>7, <2>8, RowNumbers
  <2>. QED  BY <2>n, <2>5, <2>9
<1>. QED  BY <1>1, LimitInvariant, PTL DEF Throttle!Spec, Throttle!RefusedForAReason

-----------------------------------------------------------------------------
(* A schedule's next run *)

\* A set of natural numbers has its least one, and Min finds it.
LEMMA LeastIsFound ==
  ASSUME NEW S \in SUBSET Nat, S # {}
  PROVE  Horizon!Min(S) \in S /\ \A t \in S : Horizon!Min(S) <= t
BY LeastNumber DEF Horizon!Min

LEMMA DateNumbers ==
  /\ Horizon!DateNo["new year"] = 0 /\ Horizon!DateNo["28 february"] = 1
  /\ Horizon!DateNo["29 february"] = 2 /\ Horizon!DateNo["1 march"] = 3
  /\ \A d \in Horizon!Dates : Horizon!DateNo[d] \in 0..3 /\ (Horizon!DateNo[d] = 2 <=> d = "29 february")
BY DEF Horizon!Dates, Horizon!DateNo

\* An instant is a year and a date of it.
LEMMA YearAndDate ==
  ASSUME NEW y \in Nat, NEW d \in 0..3
  PROVE  /\ 4 * y + d \in Nat /\ (4 * y + d) % 4 = d /\ (4 * y + d) \div 4 = y
         /\ Horizon!Exists(4 * y + d) <=> (d = 2 => Horizon!IsLeap(y))
<1>1. 4 * y + d \in Nat /\ (4 * y + d) % 4 = d /\ (4 * y + d) \div 4 = y
  OBVIOUS
<1>. QED  BY <1>1, DateNumbers DEF Horizon!Exists, Horizon!IsLeapDay, Horizon!YearOf

LEMMA Decomposed ==
  ASSUME NEW t \in Nat
  PROVE  \E y \in Nat : \E d \in 0..3 : t = 4 * y + d
<1>1. t \div 4 \in Nat /\ t % 4 \in 0..3 /\ t = 4 * (t \div 4) + (t % 4)
  OBVIOUS
<1>. QED  BY <1>1

\* Of two years that are multiples of four one is a leap year, also around a century.
LEMMA LeapYears ==
  ASSUME NEW q \in Nat
  PROVE  Horizon!IsLeap(4 * q) \/ Horizon!IsLeap(4 * q + 4)
<1>1. (4 * q) % 4 = 0 /\ (4 * q + 4) % 4 = 0
  OBVIOUS
<1>2. (4 * q) % 100 = 0 => (4 * q + 4) % 100 # 0
  OBVIOUS
<1>. QED  BY <1>1, <1>2 DEF Horizon!IsLeap

\* Every date but the 31st of February comes within the horizon.
LEMMA RunComes ==
  ASSUME NEW r \in Horizon!Dates, NEW after \in Nat, Horizon!Exists(after)
  PROVE  Horizon!RunsWithin(r, after, Horizon!YearsLater(after, Horizon!MaxSearchYears)) # {}
<1>1. PICK y \in Nat, d \in 0..3 : after = 4 * y + d
  BY Decomposed
<1>. PICK end : end = Horizon!YearsLater(after, Horizon!MaxSearchYears)
  OBVIOUS
<1>2. end \in Nat /\ end >= 4 * y + d + 32
  BY <1>1 DEF Horizon!YearsLater, Horizon!MaxSearchYears
<1>3. ASSUME NEW t \in Nat, t > after, t <= 4 * y + d + 32, t % 4 = Horizon!DateNo[r], Horizon!Exists(t)
      PROVE  Horizon!RunsWithin(r, after, end) # {}
  BY <1>1, <1>2, <1>3 DEF Horizon!RunsWithin
<1>4. CASE r # "29 february"
  <2>1. Horizon!DateNo[r] \in 0..3 /\ Horizon!DateNo[r] # 2
    BY <1>4, DateNumbers
  <2>2. PICK e \in 0..3 : e = Horizon!DateNo[r]
    BY <2>1
  <2>3. PICK z \in Nat : z = y + 1
    OBVIOUS
  <2>4. Horizon!Exists(4 * z + e) /\ (4 * z + e) % 4 = e /\ 4 * z + e \in Nat
    BY <2>1, <2>2, YearAndDate
  <2>. PICK t : t = 4 * z + e
    OBVIOUS
  <2>5. t \in Nat /\ t > after /\ t <= 4 * y + d + 32
    BY <1>1, <2>3
  <2>. QED  BY <1>3, <2>2, <2>4, <2>5
<1>5. CASE r = "29 february"
  <2>0. ASSUME NEW z \in Nat, Horizon!IsLeap(z), 4 * z + 2 > after, 4 * z + 2 <= 4 * y + d + 32
        PROVE  Horizon!RunsWithin(r, after, end) # {}
    <3>1. Horizon!Exists(4 * z + 2) /\ (4 * z + 2) % 4 = 2 /\ 4 * z + 2 \in Nat
      BY <2>0, YearAndDate
    <3>. QED  BY <1>3, <1>5, <2>0, <3>1, DateNumbers
  <2>1. PICK q \in Nat : y = 4 * q \/ (4 * q < y /\ y < 4 * q + 4)
    <3>1. y \div 4 \in Nat /\ (y = 4 * (y \div 4) \/ (4 * (y \div 4) < y /\ y < 4 * (y \div 4) + 4))
      OBVIOUS
    <3>. QED  BY <3>1
  <2>2. Horizon!IsLeap(4 * q) \/ Horizon!IsLeap(4 * q + 4)
    BY LeapYears
  <2>3. Horizon!IsLeap(4 * q + 4) \/ Horizon!IsLeap(4 * q + 8)
    <3>. PICK z \in Nat : z = q + 1
      OBVIOUS
    <3>1. Horizon!IsLeap(4 * z) \/ Horizon!IsLeap(4 * z + 4)
      BY LeapYears
    <3>2. 4 * z = 4 * q + 4 /\ 4 * z + 4 = 4 * q + 8
      OBVIOUS
    <3>. QED  BY <3>1, <3>2
  <2>4. CASE Horizon!IsLeap(4 * q + 4)
    BY <2>0, <2>1, <2>4, <1>1
  <2>5. CASE ~Horizon!IsLeap(4 * q + 4)
    <3>1. Horizon!IsLeap(4 * q) /\ Horizon!IsLeap(4 * q + 8)
      BY <2>2, <2>3, <2>5
    <3>2. CASE y = 4 * q /\ d < 2
      BY <2>0, <3>1, <3>2, <1>1
    <3>3. CASE y > 4 * q \/ d >= 2
      BY <2>0, <2>1, <3>1, <3>3, <1>1
    <3>. QED  BY <2>1, <3>2, <3>3
  <2>. QED  BY <2>4, <2>5
<1>. QED  BY <1>4, <1>5

\* What nextAfter returns: the first run after the instant, and none only for a rule without runs.
LEMMA NextRun ==
  ASSUME NEW r \in Horizon!Rules, NEW after \in Nat, Horizon!Exists(after)
  PROVE  /\ Horizon!NextAfter(r, after) = Horizon!NoRun <=> r \notin Horizon!Dates
         /\ Horizon!NextAfter(r, after) # Horizon!NoRun =>
              /\ Horizon!NextAfter(r, after) \in Nat /\ Horizon!NextAfter(r, after) > after /\ Horizon!Exists(Horizon!NextAfter(r, after))
              /\ \A t \in after + 1..Horizon!NextAfter(r, after) - 1 :
                    ~(r \in Horizon!Dates /\ t % 4 = Horizon!DateNo[r] /\ Horizon!Exists(t))
<1>. DEFINE end == Horizon!YearsLater(after, Horizon!MaxSearchYears)
            runs == Horizon!RunsWithin(r, after, end)
<1>0. end \in Nat
  BY DEF Horizon!YearsLater, Horizon!MaxSearchYears
<1>. HIDE DEF end
<1>1. runs \in SUBSET Nat /\ \A t \in runs : t > after /\ Horizon!Exists(t)
  BY <1>0 DEF Horizon!RunsWithin
<1>2. CASE r \notin Horizon!Dates
  <2>1. runs = {}
    BY <1>2 DEF Horizon!RunsWithin
  <2>. QED  BY <1>2, <2>1 DEF Horizon!NextAfter, end
<1>3. CASE r \in Horizon!Dates
  <2>1. runs # {}
    BY <1>3, RunComes DEF end
  <2>2. Horizon!NextAfter(r, after) = Horizon!Min(runs)
    BY <2>1 DEF Horizon!NextAfter, end
  <2>. HIDE DEF runs
  <2>3. Horizon!Min(runs) \in runs /\ \A t \in runs : Horizon!Min(runs) <= t
    BY <2>1, <1>1, LeastIsFound
  <2>4. Horizon!Min(runs) \in Nat /\ Horizon!Min(runs) > after /\ Horizon!Exists(Horizon!Min(runs)) /\ Horizon!Min(runs) # Horizon!NoRun
    <3>1. Horizon!Min(runs) \in Nat
      BY <2>3, <1>1
    <3>. QED  BY <3>1, <2>3, <1>1 DEF Horizon!NoRun
  <2>5. Horizon!Min(runs) <= end
    BY <2>3, <1>0 DEF runs, Horizon!RunsWithin
  <2>6. ASSUME NEW t \in after + 1..Horizon!Min(runs) - 1, t % 4 = Horizon!DateNo[r], Horizon!Exists(t) PROVE FALSE
    <3>1. t \in after + 1..end
      BY <2>4, <2>5, <2>6, <1>0
    <3>2. t \in runs
      BY <3>1, <2>6, <1>3 DEF runs, Horizon!RunsWithin
    <3>. QED  BY <3>2, <2>3, <2>4, <2>6
  <2>. QED  BY <2>2, <2>4, <2>6, <1>3
<1>. QED  BY <1>2, <1>3

\* A registered schedule has a next run, later than the last, with none between them.
HorizonInv ==
  /\ date \in Nat /\ Horizon!Exists(date) /\ yearly \in Horizon!Rules /\ failed = FALSE
  /\ schedule \in {"none", "registered", "paused", "refused"}
  /\ last \in Nat \cup {Horizon!NoRun}
  /\ IF schedule = "registered"
     THEN /\ yearly \in Horizon!Dates /\ next \in Nat /\ Horizon!Exists(next) /\ last \in Nat /\ next > last
          /\ \A t \in last + 1..next - 1 : ~(yearly \in Horizon!Dates /\ t % 4 = Horizon!DateNo[yearly] /\ Horizon!Exists(t))
     ELSE next = Horizon!NoRun
  /\ schedule = "refused" => yearly \notin Horizon!Dates

LEMMA InitIsNewYear ==
  ASSUME Horizon!HorizonAssumption, Horizon!Init
  PROVE  HorizonInv
<1>1. date = 4 * FirstYear + 0 /\ FirstYear \in Nat
  BY DateNumbers DEF Horizon!Init, Horizon!Instant, Horizon!HorizonAssumption
<1>2. date \in Nat /\ Horizon!Exists(date)
  <2>0. PICK e \in 0..3 : e = 0
    OBVIOUS
  <2>1. Horizon!Exists(4 * FirstYear + e) <=> (e = 2 => Horizon!IsLeap(FirstYear))
    BY <1>1, YearAndDate
  <2>2. 4 * FirstYear + e = date
    BY <1>1, <2>0
  <2>. QED  BY <1>1, <2>0, <2>1, <2>2
<1>. QED  BY <1>2 DEF Horizon!Init, HorizonInv

LEMMA HorizonStep ==
  ASSUME Horizon!HorizonAssumption, HorizonInv, [Horizon!Next]_Horizon!vars
  PROVE  HorizonInv'
<1>1. ASSUME NEW from \in {"none", "paused"}, NEW failure \in {"refused", "paused"},
             Horizon!Calculate(from, "registered", failure), UNCHANGED failed
      PROVE  HorizonInv'
  <2>. PICK n : n = Horizon!NextAfter(yearly, date)
    OBVIOUS
  <2>1. /\ next' = n /\ schedule' = (IF n = Horizon!NoRun THEN failure ELSE "registered")
        /\ last' = (IF n = Horizon!NoRun THEN last ELSE date) /\ date' = date /\ yearly' = yearly /\ failed' = failed
    BY <1>1 DEF Horizon!Calculate
  <2>2. /\ n = Horizon!NoRun <=> yearly \notin Horizon!Dates
        /\ n # Horizon!NoRun => /\ n \in Nat /\ n > date /\ Horizon!Exists(n)
                                /\ \A t \in date + 1..n - 1 : ~(yearly \in Horizon!Dates /\ t % 4 = Horizon!DateNo[yearly] /\ Horizon!Exists(t))
    BY NextRun DEF HorizonInv
  <2>. QED  BY <2>1, <2>2 DEF HorizonInv
<1>2. CASE Horizon!Pause
  BY <1>2 DEF Horizon!Pause, HorizonInv
<1>3. CASE Horizon!Tick
  <2>. PICK n : n = Horizon!NextAfter(yearly, date)
    OBVIOUS
  <2>1. schedule = "registered" /\ yearly \in Horizon!Dates
    BY <1>3 DEF Horizon!Tick, HorizonInv
  <2>2. n # Horizon!NoRun /\ n \in Nat /\ n > date /\ Horizon!Exists(n)
        /\ \A t \in date + 1..n - 1 : ~(yearly \in Horizon!Dates /\ t % 4 = Horizon!DateNo[yearly] /\ Horizon!Exists(t))
    BY <2>1, NextRun DEF HorizonInv
  <2>3. next' = n /\ last' = date /\ UNCHANGED <<date, yearly, schedule, failed>>
    BY <2>2, <1>3 DEF Horizon!Tick
  <2>. QED  BY <2>1, <2>2, <2>3 DEF HorizonInv
<1>4. CASE Horizon!Elapse
  <2>1. date' \in Nat /\ Horizon!Exists(date')
    <3>1. PICK y \in Nat, d \in 0..3 : date + 1 = 4 * y + d
      <4>1. date + 1 \in Nat
        BY DEF HorizonInv
      <4>. QED  BY <4>1, Decomposed
    <3>2. CASE Horizon!Exists(date + 1)
      BY <1>4, <3>2 DEF Horizon!Elapse, HorizonInv
    <3>3. CASE ~Horizon!Exists(date + 1)
      <4>1. d = 2
        BY <3>1, <3>3, YearAndDate
      <4>2. date' = 4 * y + 3
        BY <1>4, <3>1, <3>3, <4>1 DEF Horizon!Elapse, HorizonInv
      <4>3. 3 \in 0..3 /\ Horizon!Exists(4 * y + 3)
        <5>0. PICK e \in 0..3 : e = 3
          OBVIOUS
        <5>1. Horizon!Exists(4 * y + e) <=> (e = 2 => Horizon!IsLeap(y))
          BY YearAndDate
        <5>. QED  BY <5>0, <5>1
      <4>. QED  BY <4>2, <4>3
    <3>. QED  BY <3>2, <3>3
  <2>. QED  BY <1>4, <2>1 DEF Horizon!Elapse, HorizonInv
<1>5. CASE UNCHANGED Horizon!vars
  BY <1>5 DEF Horizon!vars, HorizonInv
<1>. QED  BY <1>1, <1>2, <1>3, <1>4, <1>5 DEF Horizon!Next, Horizon!Register, Horizon!Resume

\* What is accepted is found by every later Tick, only a date that never comes is refused,
\* and no run lies between the last and the next.
THEOREM RunsAreFound ==
  ASSUME Horizon!HorizonAssumption
  PROVE  Horizon!Spec => [](Horizon!TypeOK /\ Horizon!AcceptedIsFound
                          /\ Horizon!OnlyTheImpossibleIsRefused /\ Horizon!NoRunBetween)
<1>1. Horizon!Init => HorizonInv
  BY InitIsNewYear
<1>2. HorizonInv /\ [Horizon!Next]_Horizon!vars => HorizonInv'
  BY HorizonStep
<1>3. HorizonInv => Horizon!TypeOK /\ Horizon!AcceptedIsFound /\ Horizon!OnlyTheImpossibleIsRefused /\ Horizon!NoRunBetween
  BY DEF HorizonInv, Horizon!TypeOK, Horizon!AcceptedIsFound, Horizon!OnlyTheImpossibleIsRefused,
         Horizon!NoRunBetween, Horizon!NoRun
<1>. QED  BY <1>1, <1>2, <1>3, PTL DEF Horizon!Spec

-----------------------------------------------------------------------------
(* A weekday field *)

Nos == [kind : {"number"}, lo : 0..6, hi : {0}, step : {Dialect!NoStep}]

Los(s) == {s[i].lo : i \in DOMAIN s}

LEMMA NumberIsNo ==
  ASSUME NEW n \in 0..6
  PROVE  Dialect!Number(n) \in Nos /\ Dialect!Number(n).lo = n /\ Dialect!Number(n).kind = "number"
BY DEF Dialect!Number, Nos

\* What a list of numbers holds, put together of two.
LEMMA JoinedDays ==
  ASSUME NEW S, NEW s \in Seq(S), NEW t \in Seq(S)
  PROVE  /\ s \o t \in Seq(S)
         /\ Los(s \o t) = Los(s) \cup Los(t)
<1>1. s \o t \in Seq(S) /\ Len(s \o t) = Len(s) + Len(t) /\ Len(s) \in Nat /\ Len(t) \in Nat
  OBVIOUS
<1>2. DOMAIN (s \o t) = 1..(Len(s) + Len(t)) /\ DOMAIN s = 1..Len(s) /\ DOMAIN t = 1..Len(t)
  BY <1>1
<1>3. \A i \in DOMAIN s : i \in DOMAIN (s \o t) /\ (s \o t)[i] = s[i]
  BY <1>1, <1>2
<1>4. \A i \in DOMAIN t : Len(s) + i \in DOMAIN (s \o t) /\ (s \o t)[Len(s) + i] = t[i]
  BY <1>1, <1>2
<1>5. \A i \in DOMAIN (s \o t) : \/ i \in DOMAIN s /\ (s \o t)[i] = s[i]
                                 \/ i - Len(s) \in DOMAIN t /\ (s \o t)[i] = t[i - Len(s)]
  BY <1>1, <1>2
<1>6. ASSUME NEW x \in Los(s \o t) PROVE x \in Los(s) \cup Los(t)
  <2>1. PICK i \in DOMAIN (s \o t) : x = (s \o t)[i].lo
    BY <1>6 DEF Los
  <2>2. CASE i \in DOMAIN s /\ (s \o t)[i] = s[i]
    BY <2>1, <2>2 DEF Los
  <2>3. CASE i - Len(s) \in DOMAIN t /\ (s \o t)[i] = t[i - Len(s)]
    BY <2>1, <2>3 DEF Los
  <2>. QED  BY <2>1, <2>2, <2>3, <1>5
<1>7. ASSUME NEW x \in Los(s) PROVE x \in Los(s \o t)
  <2>1. PICK i \in DOMAIN s : x = s[i].lo
    BY <1>7 DEF Los
  <2>. QED  BY <2>1, <1>3, Zenon DEF Los
<1>8. ASSUME NEW x \in Los(t) PROVE x \in Los(s \o t)
  <2>1. PICK i \in DOMAIN t : x = t[i].lo
    BY <1>8 DEF Los
  <2>. QED  BY <2>1, <1>4, Zenon DEF Los
<1>. QED  BY <1>1, <1>6, <1>7, <1>8, Zenon

LEMMA WeekIsDays ==
  ASSUME NEW week, \A i \in DOMAIN week : Dialect!ConvertedDays(week[i]) \subseteq 0..6
  PROVE  /\ Dialect!ConvertedWeek(week) \in Seq(Nos)
         /\ Los(Dialect!ConvertedWeek(week)) = UNION {Dialect!ConvertedDays(week[i]) : i \in DOMAIN week}
<1>. DEFINE days == UNION {Dialect!ConvertedDays(week[i]) : i \in DOMAIN week}
            Day(d) == IF d \in days THEN <<Dialect!Number(d)>> ELSE << >>
<1>1. ASSUME NEW d \in 0..6
      PROVE  Day(d) \in Seq(Nos) /\ Los(Day(d)) = days \cap {d}
  <2>1. CASE d \in days
    <3>1. Day(d) = <<Dialect!Number(d)>>
      BY <2>1
    <3>2. Los(<<Dialect!Number(d)>>) = {d}
      BY NumberIsNo DEF Los
    <3>. HIDE DEF Day, days
    <3>. QED  BY <3>1, <3>2, <2>1, NumberIsNo
  <2>2. CASE d \notin days
    <3>1. Day(d) = << >>
      BY <2>2
    <3>2. Los(<< >>) = {}
      BY DEF Los
    <3>. HIDE DEF Day, days
    <3>. QED  BY <3>1, <3>2, <2>2
  <2>. QED  BY <2>1, <2>2
<1>3. Dialect!ConvertedWeek(week) = Day(0) \o Day(1) \o Day(2) \o Day(3) \o Day(4) \o Day(5) \o Day(6)
  BY DEF Dialect!ConvertedWeek
<1>4. days \subseteq 0..6
  OBVIOUS
<1>. HIDE DEF Day, days
<1>5. ASSUME NEW s \in Seq(Nos), NEW n \in 0..5, Los(s) = days \cap (0..n)
      PROVE  s \o Day(n + 1) \in Seq(Nos) /\ Los(s \o Day(n + 1)) = days \cap (0..(n + 1))
  <2>1. Day(n + 1) \in Seq(Nos) /\ Los(Day(n + 1)) = days \cap {n + 1}
    BY <1>1
  <2>2. s \o Day(n + 1) \in Seq(Nos) /\ Los(s \o Day(n + 1)) = Los(s) \cup Los(Day(n + 1))
    BY <2>1, JoinedDays, Zenon
  <2>. QED  BY <2>1, <2>2, <1>5
<1>6. Day(0) \in Seq(Nos) /\ Los(Day(0)) = days \cap (0..0)
  BY <1>1
<1>7. PICK w1 : w1 = Day(0) \o Day(1)
  OBVIOUS
<1>8. PICK w2 : w2 = w1 \o Day(2)
  OBVIOUS
<1>9. PICK w3 : w3 = w2 \o Day(3)
  OBVIOUS
<1>10. PICK w4 : w4 = w3 \o Day(4)
  OBVIOUS
<1>11. PICK w5 : w5 = w4 \o Day(5)
  OBVIOUS
<1>12. PICK w6 : w6 = w5 \o Day(6)
  OBVIOUS
<1>13. w1 \in Seq(Nos) /\ Los(w1) = days \cap (0..1)
  BY ONLY <1>6, <1>7, <1>5
<1>14. w2 \in Seq(Nos) /\ Los(w2) = days \cap (0..2)
  BY ONLY <1>13, <1>8, <1>5
<1>15. w3 \in Seq(Nos) /\ Los(w3) = days \cap (0..3)
  BY ONLY <1>14, <1>9, <1>5
<1>16. w4 \in Seq(Nos) /\ Los(w4) = days \cap (0..4)
  BY ONLY <1>15, <1>10, <1>5
<1>17. w5 \in Seq(Nos) /\ Los(w5) = days \cap (0..5)
  BY ONLY <1>16, <1>11, <1>5
<1>18. w6 \in Seq(Nos) /\ Los(w6) = days \cap (0..6)
  BY ONLY <1>17, <1>12, <1>5
<1>19. Dialect!ConvertedWeek(week) = w6
  BY <1>3, <1>7, <1>8, <1>9, <1>10, <1>11, <1>12, Zenon
<1>20. Los(w6) = days
  BY <1>4, <1>18
<1>. QED  BY <1>18, <1>19, <1>20 DEF days

\* The days of an entry, counted from its start, are those that Cloudflare means.
LEMMA StepsAreMultiples ==
  ASSUME NEW s \in Nat, s >= 1, NEW x \in 0..6
  PROVE  x % s = 0 <=> \E k \in 0..6 : x = k * s
<1>1. CASE s >= 7
  <2>1. x % s = x
    BY <1>1
  <2>2. ASSUME NEW k \in 0..6, x = k * s PROVE k = 0
    BY <2>2, <1>1
  <2>. QED  BY <2>1, <2>2
<1>2. CASE s \in 1..6
  BY <1>2
<1>. QED  BY <1>1, <1>2

LEMMA EntryIsMeant ==
  ASSUME Dialect!DialectAssumption, NEW a \in Dialect!Atoms, Dialect!Convertible(a)
  PROVE  /\ Dialect!ConvertedDays(a) = {d - 1 : d \in Dialect!MeantBy(a)}
         /\ Dialect!ConvertedDays(a) \subseteq 0..6
<1>1. PICK s : s = Dialect!StepOf(a)
  OBVIOUS
<1>2. PICK f : f = Dialect!StartOf(a)
  OBVIOUS
<1>3. PICK e : e = Dialect!EndOf(a)
  OBVIOUS
<1>4. s \in Nat /\ s >= 1 /\ f \in 1..7 /\ e \in 1..7 /\ f <= e
  BY <1>1, <1>2, <1>3 DEF Dialect!DialectAssumption, Dialect!Atoms, Dialect!Convertible,
                          Dialect!StepOf, Dialect!StartOf, Dialect!EndOf, Dialect!NoStep
<1>5. Dialect!MeantBy(a) = {d \in 1..7 : d >= f /\ d <= e /\ (d - f) % s = 0}
  BY <1>1, <1>2, <1>3 DEF Dialect!MeantBy, Dialect!Atoms, Dialect!StepOf, Dialect!StartOf,
                          Dialect!EndOf
<1>6. Dialect!ConvertedDays(a) = {f + k * s - 1 : k \in {k \in 0..6 : f + k * s <= e}}
  BY <1>1, <1>2, <1>3 DEF Dialect!ConvertedDays
<1>7. ASSUME NEW k \in 0..6
      PROVE  k * s \in Nat
  BY <1>4
<1>8. ASSUME NEW d \in 1..7, d >= f, (d - f) % s = 0
      PROVE  \E k \in 0..6 : d = f + k * s
  <2>1. d - f \in 0..6
    BY <1>4, <1>8
  <2>2. PICK k \in 0..6 : d - f = k * s
    BY <2>1, <1>4, <1>8, StepsAreMultiples
  <2>3. k * s \in Nat
    BY <1>7
  <2>. QED  BY <2>2, <2>3, <1>4
<1>9. ASSUME NEW k \in 0..6, f + k * s <= e
      PROVE  f + k * s \in 1..7 /\ f + k * s >= f /\ ((f + k * s) - f) % s = 0
  <2>1. k * s \in Nat
    BY <1>7
  <2>2. PICK x : x = k * s
    OBVIOUS
  <2>3. x \in 0..6 /\ (f + x) - f = x /\ f + x \in 1..7 /\ f + x >= f
    BY <2>1, <2>2, <1>4, <1>9
  <2>4. x % s = 0
    BY <2>2, <2>3, <1>4, StepsAreMultiples
  <2>. QED  BY <2>2, <2>3, <2>4
<1>10. ASSUME NEW x \in Dialect!ConvertedDays(a)
       PROVE  x \in 0..6 /\ \E d \in Dialect!MeantBy(a) : x = d - 1
  <2>1. PICK k \in 0..6 : f + k * s <= e /\ x = f + k * s - 1
    BY <1>6, <1>10
  <2>2. PICK d : d = f + k * s
    OBVIOUS
  <2>5. f + k * s \in 1..7 /\ f + k * s >= f /\ ((f + k * s) - f) % s = 0
    BY <2>1, <1>9, Zenon
  <2>3. d \in 1..7 /\ d >= f /\ d <= e /\ (d - f) % s = 0
    BY ONLY <2>1, <2>2, <2>5, Zenon
  <2>4. d \in Dialect!MeantBy(a)
    BY <2>3, <1>5
  <2>6. x = d - 1
    <3>1. PICK m : m = k * s
      OBVIOUS
    <3>2. m \in Nat
      BY <3>1, <1>7
    <3>3. x = f + m - 1 /\ d = f + m
      BY ONLY <2>1, <2>2, <3>1, Zenon
    <3>. QED  BY ONLY <3>2, <3>3, <1>4
  <2>7. d \in 1..7 /\ d <= e
    BY <2>3
  <2>8. d - 1 \in 0..6
    BY <2>7
  <2>. QED  BY <2>4, <2>6, <2>8, Zenon
<1>11. ASSUME NEW d \in Dialect!MeantBy(a)
       PROVE  d - 1 \in Dialect!ConvertedDays(a)
  <2>1. d \in 1..7 /\ d >= f /\ d <= e /\ (d - f) % s = 0
    BY <1>5, <1>11
  <2>2. PICK k \in 0..6 : d = f + k * s
    BY <2>1, <1>8
  <2>3. f + k * s <= e
    BY ONLY <2>1, <2>2, Zenon
  <2>4. d - 1 = f + k * s - 1
    <3>1. PICK m : m = k * s
      OBVIOUS
    <3>2. m \in Nat
      BY <3>1, <1>7
    <3>3. d = f + m
      BY ONLY <2>2, <3>1, Zenon
    <3>4. d - 1 = f + m - 1
      BY ONLY <3>2, <3>3, <1>4
    <3>. QED  BY ONLY <3>1, <3>4, Zenon
  <2>. QED  BY <2>3, <2>4, <1>6
<1>. QED  BY <1>10, <1>11

-----------------------------------------------------------------------------
(* The route *)

LEMMA WeekIsMeant ==
  ASSUME Dialect!DialectAssumption, NEW r \in Dialect!Rules, \A i \in DOMAIN r.week : Dialect!Convertible(r.week[i])
  PROVE  /\ Dialect!ConvertedWeek(r.week) \in Seq(Nos)
         /\ Los(Dialect!ConvertedWeek(r.week)) = {d - 1 : d \in Dialect!CloudflareDays(r.week)}
<1>1. ASSUME NEW i \in DOMAIN r.week
      PROVE  /\ Dialect!ConvertedDays(r.week[i]) = {d - 1 : d \in Dialect!MeantBy(r.week[i])}
             /\ Dialect!ConvertedDays(r.week[i]) \subseteq 0..6
  <2>1. r.week[i] \in Dialect!Atoms
    BY DEF Dialect!Rules, Dialect!Fields
  <2>. QED  BY <2>1, EntryIsMeant
<1>2. UNION {Dialect!ConvertedDays(r.week[i]) : i \in DOMAIN r.week} = {d - 1 : d \in Dialect!CloudflareDays(r.week)}
  <2>1. ASSUME NEW x \in UNION {Dialect!ConvertedDays(r.week[i]) : i \in DOMAIN r.week}
        PROVE  \E d \in Dialect!CloudflareDays(r.week) : x = d - 1
    BY <2>1, <1>1 DEF Dialect!CloudflareDays
  <2>2. ASSUME NEW d \in Dialect!CloudflareDays(r.week)
        PROVE  d - 1 \in UNION {Dialect!ConvertedDays(r.week[i]) : i \in DOMAIN r.week}
    BY <2>2, <1>1 DEF Dialect!CloudflareDays
  <2>. QED  BY <2>1, <2>2
<1>. QED  BY <1>1, <1>2, WeekIsDays

\* The one parse that the rule must go through.
ParsedOnce == Dialect!Normalized(written.rule, written.dialect)

\* On its way a rule is as written or parsed once, and nothing else.
DialectInv ==
  /\ written \in [rule : Dialect!Rules, dialect : {"absent", "unix", "cloudflare"}, route : {"sdk", "http"}]
  /\ stage \in {"site", "wire", "platform", "stored", Dialect!Refused}
  /\ stage = "site" => field = written.rule /\ dialect = written.dialect
  /\ stage = "wire" => IF written.route = "http"
                       THEN field = written.rule /\ dialect = written.dialect
                       ELSE ParsedOnce.ok /\ field = ParsedOnce.rule /\ dialect = "absent"
  /\ stage = "platform" => ParsedOnce.ok /\ field = ParsedOnce.rule /\ dialect = "absent"
  /\ stage = "stored" => /\ ParsedOnce.ok /\ field = ParsedOnce.rule /\ dialect = "absent"
                         /\ field.anyDate \/ field.week = <<Dialect!Star>>
  /\ stage = Dialect!Refused => /\ \/ ~ParsedOnce.ok
                                   \/ ~ParsedOnce.rule.anyDate /\ ParsedOnce.rule.week # <<Dialect!Star>>
                                /\ \/ field = written.rule /\ dialect = written.dialect
                                   \/ ParsedOnce.ok /\ field = ParsedOnce.rule /\ dialect = "absent"

LEMMA DialectStep ==
  ASSUME DialectInv, [Dialect!Next]_Dialect!vars
  PROVE  DialectInv'
<1>. USE DEF DialectInv, Dialect!Refused
<1>1. CASE Dialect!ParseAtSdk
  BY <1>1, Zenon DEF Dialect!ParseAtSdk, Dialect!Parse, Dialect!DialectAfter, ParsedOnce
<1>2. CASE Dialect!SendAsWritten
  BY <1>2, Zenon DEF Dialect!SendAsWritten, ParsedOnce
<1>3. CASE Dialect!ParseAtPlatform
  BY <1>3 DEF Dialect!ParseAtPlatform, Dialect!Parse, Dialect!DialectAfter, ParsedOnce,
              Dialect!Normalized
<1>4. CASE Dialect!Validate
  BY <1>4 DEF Dialect!Validate, ParsedOnce
<1>5. CASE UNCHANGED Dialect!vars
  BY <1>5 DEF Dialect!vars, ParsedOnce
<1>. QED  BY <1>1, <1>2, <1>3, <1>4, <1>5 DEF Dialect!Next

LEMMA DialectInvariant == Dialect!Spec => []DialectInv
<1>1. Dialect!Init => DialectInv
  BY DEF Dialect!Init, DialectInv, Dialect!Refused
<1>. QED  BY <1>1, DialectStep, PTL DEF Dialect!Spec

LEMMA ConvertedIsNoStar ==
  ASSUME Dialect!DialectAssumption, NEW r \in Dialect!Rules, \A i \in DOMAIN r.week : Dialect!Convertible(r.week[i])
  PROVE  Dialect!ConvertedWeek(r.week) # <<Dialect!Star>>
<1>1. Dialect!ConvertedWeek(r.week) \in Seq(Nos)
  BY WeekIsMeant
<1>2. <<Dialect!Star>> \notin Seq(Nos)
  BY DEF Dialect!Star, Nos
<1>. QED  BY <1>1, <1>2

LEMMA StarIsEveryDay ==
  ASSUME NEW r, r.week = <<Dialect!Star>>
  PROVE  {d - 1 : d \in Dialect!CloudflareDays(r.week)} = 0..6
<1>1. Dialect!MeantBy(Dialect!Star) = 1..7
  BY DEF Dialect!MeantBy, Dialect!Star, Dialect!StepOf, Dialect!NoStep
<1>2. Dialect!CloudflareDays(r.week) = 1..7
  BY <1>1 DEF Dialect!CloudflareDays
<1>. QED  BY <1>2

LEMMA RulesAsMeant ==
  ASSUME Dialect!DialectAssumption, DialectInv
  PROVE  Dialect!TypeOK /\ Dialect!RunsOnTheDaysMeant /\ Dialect!OneParseDecides
<1>1. written.rule \in Dialect!Rules /\ written.dialect \in {"absent", "unix", "cloudflare"}
  BY DEF DialectInv
<1>2. CASE written.dialect # "cloudflare" \/ written.rule.week = <<Dialect!Star>>
  <2>1. ParsedOnce.rule = written.rule /\ ParsedOnce.ok
    BY <1>2 DEF ParsedOnce, Dialect!Normalized
  <2>2. field = written.rule
    BY <2>1 DEF DialectInv, Dialect!Refused
  <2>3. Dialect!RunsOnTheDaysMeant
    BY <2>2, <1>2, StarIsEveryDay DEF Dialect!RunsOnTheDaysMeant, Dialect!StoredDays
  <2>. QED  BY <2>1, <2>2, <2>3 DEF DialectInv, Dialect!TypeOK, Dialect!OneParseDecides,
                                    ParsedOnce, Dialect!Refused
<1>3. CASE written.dialect = "cloudflare" /\ written.rule.week # <<Dialect!Star>>
  <2>1. ParsedOnce = [ok |-> written.rule.anyDate
                              /\ \A i \in DOMAIN written.rule.week : Dialect!Convertible(written.rule.week[i]),
                      rule |-> [written.rule EXCEPT !.week = Dialect!ConvertedWeek(written.rule.week)]]
    BY <1>3 DEF ParsedOnce, Dialect!Normalized
  <2>2. CASE ParsedOnce.ok
    <3>1. \A i \in DOMAIN written.rule.week : Dialect!Convertible(written.rule.week[i])
      BY <2>1, <2>2
    <3>2. PICK w : w = Dialect!ConvertedWeek(written.rule.week)
      OBVIOUS
    <3>3. /\ w \in Seq(Nos) /\ w # <<Dialect!Star>>
          /\ Los(w) = {d - 1 : d \in Dialect!CloudflareDays(written.rule.week)}
      BY <3>1, <3>2, <1>1, WeekIsMeant, ConvertedIsNoStar
    <3>4. ParsedOnce.rule.week = w /\ ParsedOnce.rule.anyDate = written.rule.anyDate
      BY <2>1, <3>2, <1>1 DEF Dialect!Rules
    <3>5. Dialect!RunsOnTheDaysMeant
      BY <3>3, <3>4 DEF Dialect!RunsOnTheDaysMeant, Dialect!StoredDays, Los, DialectInv
    <3>6. \A i \in DOMAIN w : w[i].kind = "number" /\ w[i].lo \in 0..6
      <4>1. \A i \in DOMAIN w : w[i] \in Nos
        BY <3>3
      <4>. QED  BY <4>1 DEF Nos
    <3>7. field = written.rule \/ field = ParsedOnce.rule
      BY DEF DialectInv, Dialect!Refused
    <3>8. dialect \in {"absent", "unix", "cloudflare"} /\ stage \in {"site", "wire", "platform", "stored", Dialect!Refused}
      BY <1>1 DEF DialectInv, Dialect!Refused
    <3>9. Dialect!TypeOK
      BY <3>4, <3>6, <3>7, <3>8 DEF Dialect!TypeOK
    <3>. QED  BY <3>5, <3>9 DEF DialectInv, Dialect!OneParseDecides, ParsedOnce, Dialect!Refused
  <2>3. CASE ~ParsedOnce.ok
    <3>1. field = written.rule
      BY <2>3 DEF DialectInv, Dialect!Refused
    <3>. QED  BY <2>3, <3>1 DEF DialectInv, Dialect!TypeOK, Dialect!RunsOnTheDaysMeant,
                                Dialect!OneParseDecides, ParsedOnce, Dialect!Refused
  <2>. QED  BY <2>2, <2>3
<1>. QED  BY <1>2, <1>3

\* A rule runs on the days its website meant, whichever route declared it.
THEOREM DaysAreKept ==
  ASSUME Dialect!DialectAssumption
  PROVE  Dialect!Spec => [](Dialect!TypeOK /\ Dialect!RunsOnTheDaysMeant /\ Dialect!OneParseDecides)
<1>1. DialectInv => Dialect!TypeOK /\ Dialect!RunsOnTheDaysMeant /\ Dialect!OneParseDecides
  BY RulesAsMeant
<1>. QED  BY <1>1, DialectInvariant, PTL

-----------------------------------------------------------------------------
(* A body that is read *)

\* What FlattenSeq makes of the first n sequences.
IsJoined(s, n, f) == f = [i \in 1..n |-> IF i = 1 THEN s[i] ELSE f[i - 1] \o s[i]]

LEMMA JoinedExists ==
  ASSUME NEW s, NEW n \in Nat
  PROVE  \E f : IsJoined(s, n, f)
<1>. DEFINE Bad == {m \in Nat : ~\E f : IsJoined(s, m, f)}
<1>. SUFFICES ASSUME Bad # {} PROVE FALSE
  OBVIOUS
<1>1. PICK m \in Bad : \A k \in Bad : m =< k
  BY LeastNumber
<1>2. m # 0
  <2>. DEFINE f == [i \in 1..0 |-> 0]
  <2>1. IsJoined(s, 0, f)
    BY DEF IsJoined
  <2>. QED  BY <2>1
<1>3. m - 1 \in Nat /\ m - 1 \notin Bad
  BY <1>1, <1>2
<1>4. PICK f : IsJoined(s, m - 1, f)
  BY <1>3
<1>. DEFINE g == [i \in 1..m |-> IF i = m THEN IF m = 1 THEN s[m] ELSE f[m - 1] \o s[m] ELSE f[i]]
<1>5. ASSUME NEW i \in 1..m
      PROVE  g[i] = IF i = 1 THEN s[i] ELSE g[i - 1] \o s[i]
  <2>1. CASE i = m
    <3>1. i # 1 => g[i - 1] = f[m - 1]
      BY <2>1, <1>3
    <3>. QED  BY <2>1, <3>1
  <2>2. CASE i # m
    <3>1. i \in 1..m - 1 /\ (i # 1 => i - 1 \in 1..m - 1 /\ i - 1 \in 1..m /\ i - 1 # m)
      BY <2>2, <1>3
    <3>2. f[i] = IF i = 1 THEN s[i] ELSE f[i - 1] \o s[i]
      BY <3>1, <1>4, Zenon DEF IsJoined
    <3>3. i # 1 => g[i - 1] = f[i - 1]
      BY <3>1
    <3>4. g[i] = f[i]
      BY <2>2
    <3>. HIDE DEF g
    <3>. QED  BY <3>2, <3>3, <3>4, Zenon
  <2>. QED  BY <2>1, <2>2
<1>6. IsJoined(s, m, g)
  <2>1. g = [i \in 1..m |-> g[i]]
    OBVIOUS
  <2>. HIDE DEF g
  <2>. QED  BY <2>1, <1>5, Zenon DEF IsJoined
<1>. QED  BY <1>6, <1>1

LEMMA JoinedIs ==
  ASSUME NEW s, NEW n \in Nat, NEW f, IsJoined(s, n, f)
  PROVE  \A i \in 1..n : f[i] = IF i = 1 THEN s[i] ELSE f[i - 1] \o s[i]
BY Zenon DEF IsJoined

LEMMA FlattenIsJoined ==
  ASSUME NEW s, Len(s) \in Nat \ {0}
  PROVE  \E f : IsJoined(s, Len(s), f) /\ Body!FlattenSeq(s) = f[Len(s)]
<1>1. \E f : IsJoined(s, Len(s), f)
  BY JoinedExists
<1>2. Body!FlattenSeq(s) = (CHOOSE f : IsJoined(s, Len(s), f))[Len(s)]
  BY Zenon DEF Body!FlattenSeq, IsJoined
<1>. QED  BY <1>1, <1>2

LEMMA FlattenEmpty == Body!FlattenSeq(<< >>) = << >>
BY DEF Body!FlattenSeq

\* A set of sequences that is closed under \o holds what its members are joined to.
LEMMA JoinedStays ==
  ASSUME NEW T, \A a, b \in T : a \o b \in T, NEW s, NEW n \in Nat, \A i \in 1..n : s[i] \in T,
         NEW f, IsJoined(s, n, f)
  PROVE  \A i \in 1..n : f[i] \in T
<1>. DEFINE Bad == {i \in Nat : i \in 1..n /\ f[i] \notin T}
<1>. SUFFICES ASSUME Bad # {} PROVE FALSE
  OBVIOUS
<1>1. PICK m \in Bad : \A k \in Bad : m =< k
  BY LeastNumber
<1>2. f[m] = IF m = 1 THEN s[m] ELSE f[m - 1] \o s[m]
  BY <1>1, JoinedIs
<1>3. m # 1
  BY <1>1, <1>2
<1>4. m - 1 \in 1..n /\ m - 1 \in Nat /\ m - 1 \notin Bad
  BY <1>1, <1>3
<1>5. f[m - 1] \in T
  BY <1>4
<1>. QED  BY <1>1, <1>2, <1>3, <1>5

LEMMA JoinedAgree ==
  ASSUME NEW s, NEW t, NEW n \in Nat, NEW k \in Nat, n =< k, \A i \in 1..n : s[i] = t[i],
         NEW f, IsJoined(s, n, f), NEW g, IsJoined(t, k, g)
  PROVE  \A i \in 1..n : f[i] = g[i]
<1>. DEFINE Bad == {i \in Nat : i \in 1..n /\ f[i] # g[i]}
<1>. SUFFICES ASSUME Bad # {} PROVE FALSE
  OBVIOUS
<1>1. PICK m \in Bad : \A j \in Bad : m =< j
  BY LeastNumber
<1>2. f[m] = IF m = 1 THEN s[m] ELSE f[m - 1] \o s[m]
  BY <1>1, JoinedIs
<1>3. g[m] = IF m = 1 THEN t[m] ELSE g[m - 1] \o t[m]
  BY <1>1, JoinedIs
<1>4. m # 1
  BY <1>1, <1>2, <1>3
<1>5. m - 1 \in 1..n /\ m - 1 \in Nat /\ m - 1 \notin Bad
  BY <1>1, <1>4
<1>6. f[m - 1] = g[m - 1] /\ s[m] = t[m]
  BY <1>1, <1>5
<1>. QED  BY <1>1, <1>2, <1>3, <1>4, <1>6

LEMMA FlattenStays ==
  ASSUME NEW T, \A a, b \in T : a \o b \in T, NEW s \in Seq(T), << >> \in T
  PROVE  Body!FlattenSeq(s) \in T
<1>1. CASE Len(s) = 0
  BY <1>1, FlattenEmpty
<1>2. CASE Len(s) # 0
  <2>1. Len(s) \in Nat \ {0} /\ \A i \in 1..Len(s) : s[i] \in T
    BY <1>2
  <2>2. PICK f : IsJoined(s, Len(s), f) /\ Body!FlattenSeq(s) = f[Len(s)]
    BY <2>1, FlattenIsJoined
  <2>3. \A i \in 1..Len(s) : f[i] \in T
    BY <2>1, <2>2, JoinedStays
  <2>. QED  BY <2>1, <2>2, <2>3
<1>. QED  BY <1>1, <1>2

LEMMA FlattenAppend ==
  ASSUME NEW S, NEW s \in Seq(Seq(S)), NEW c \in Seq(S)
  PROVE  Body!FlattenSeq(Append(s, c)) = Body!FlattenSeq(s) \o c
<1>. DEFINE t == Append(s, c)
<1>1. /\ Len(s) \in Nat /\ Len(t) = Len(s) + 1 /\ t[Len(s) + 1] = c
      /\ \A i \in 1..Len(s) : t[i] = s[i]
  OBVIOUS
<1>. HIDE DEF t
<1>2. PICK g : IsJoined(t, Len(t), g) /\ Body!FlattenSeq(t) = g[Len(t)]
  BY <1>1, FlattenIsJoined
<1>3. g[Len(t)] = IF Len(t) = 1 THEN t[Len(t)] ELSE g[Len(t) - 1] \o t[Len(t)]
  BY <1>1, <1>2, JoinedIs
<1>4. CASE Len(s) = 0
  <2>1. s = << >> /\ Body!FlattenSeq(t) = c
    BY <1>1, <1>2, <1>3, <1>4
  <2>. QED  BY <2>1, FlattenEmpty DEF t
<1>5. CASE Len(s) # 0
  <2>1. PICK f : IsJoined(s, Len(s), f) /\ Body!FlattenSeq(s) = f[Len(s)]
    BY <1>1, <1>5, FlattenIsJoined
  <2>2. \A i \in 1..Len(s) : f[i] = g[i]
    <3>1. PICK k : k = Len(t)
      OBVIOUS
    <3>2. PICK m : m = Len(s)
      OBVIOUS
    <3>3. m \in Nat /\ k \in Nat /\ m =< k /\ \A i \in 1..m : s[i] = t[i]
      BY <3>1, <3>2, <1>1
    <3>4. IsJoined(s, m, f) /\ IsJoined(t, k, g)
      BY <3>1, <3>2, <1>2, <2>1
    <3>5. \A i \in 1..m : f[i] = g[i]
      BY ONLY <3>3, <3>4, JoinedAgree
    <3>. QED  BY <3>2, <3>5
  <2>3. Body!FlattenSeq(s) = g[Len(s)]
    BY <1>1, <1>5, <2>1, <2>2
  <2>4. Len(t) # 1 /\ Len(t) - 1 = Len(s)
    BY <1>1, <1>5
  <2>5. Body!FlattenSeq(t) = Body!FlattenSeq(s) \o c
    BY <1>1, <1>2, <1>3, <2>3, <2>4, Zenon
  <2>. QED  BY <2>5, Zenon DEF t
<1>. QED  BY <1>4, <1>5

-----------------------------------------------------------------------------
Bytes == [char : Nat, part : Nat, of : Nat]

LEMMA Utf8Joins ==
  ASSUME NEW a \in Seq(Bytes), NEW b \in Seq(Bytes), Body!IsUtf8(a), Body!IsUtf8(b)
  PROVE  Body!IsUtf8(a \o b)
<1>. DEFINE c == a \o b
<1>1. /\ Len(a) \in Nat /\ Len(b) \in Nat /\ Len(c) = Len(a) + Len(b) /\ DOMAIN c = 1..Len(c)
      /\ DOMAIN a = 1..Len(a) /\ DOMAIN b = 1..Len(b)
      /\ \A i \in 1..Len(a) : c[i] = a[i]
      /\ \A i \in 1..Len(b) : c[Len(a) + i] = b[i]
  OBVIOUS
<1>. HIDE DEF c
<1>2. ASSUME NEW i \in DOMAIN c
      PROVE  /\ c[i].part > 1 => i > 1 /\ c[i - 1] = [c[i] EXCEPT !.part = @ - 1]
             /\ c[i].part < c[i].of => i < Len(c) /\ c[i + 1] = [c[i] EXCEPT !.part = @ + 1]
  <2>1. CASE i <= Len(a)
    <3>1. i \in DOMAIN a /\ c[i] = a[i]
      BY <1>1, <2>1
    <3>2. /\ a[i].part > 1 => i > 1 /\ a[i - 1] = [a[i] EXCEPT !.part = @ - 1]
          /\ a[i].part < a[i].of => i < Len(a) /\ a[i + 1] = [a[i] EXCEPT !.part = @ + 1]
      BY <3>1, Zenon DEF Body!IsUtf8
    <3>3. i > 1 => c[i - 1] = a[i - 1]
      BY <1>1, <2>1
    <3>4. i < Len(a) => c[i + 1] = a[i + 1] /\ i < Len(c)
      BY <1>1, <2>1
    <3>. QED  BY <3>1, <3>2, <3>3, <3>4, Zenon
  <2>2. CASE i > Len(a)
    <3>. PICK j : j = i - Len(a)
      OBVIOUS
    <3>1. j \in DOMAIN b /\ i = Len(a) + j /\ c[i] = b[j]
      BY <1>1, <2>2
    <3>n. /\ Len(a) \in Nat /\ Len(b) \in Nat /\ Len(c) = Len(a) + Len(b)
          /\ j \in 1..Len(b) /\ i = Len(a) + j
      BY <1>1, <3>1, Zenon
    <3>2. /\ b[j].part > 1 => j > 1 /\ b[j - 1] = [b[j] EXCEPT !.part = @ - 1]
          /\ b[j].part < b[j].of => j < Len(b) /\ b[j + 1] = [b[j] EXCEPT !.part = @ + 1]
      BY <3>1, Zenon DEF Body!IsUtf8
    <3>3. j > 1 => c[i - 1] = b[j - 1] /\ i > 1
      <4>. SUFFICES ASSUME j > 1 PROVE c[i - 1] = b[j - 1] /\ i > 1
        OBVIOUS
      <4>1. j - 1 \in 1..Len(b) /\ Len(a) + (j - 1) = i - 1 /\ i > 1
        BY ONLY <3>n, j > 1
      <4>. QED  BY <4>1, <1>1
    <3>4. j < Len(b) => c[i + 1] = b[j + 1] /\ i < Len(c)
      <4>. SUFFICES ASSUME j < Len(b) PROVE c[i + 1] = b[j + 1] /\ i < Len(c)
        OBVIOUS
      <4>1. j + 1 \in 1..Len(b) /\ Len(a) + (j + 1) = i + 1 /\ i < Len(c)
        BY ONLY <3>n, j < Len(b)
      <4>. QED  BY <4>1, <1>1
    <3>. QED  BY <3>1, <3>2, <3>3, <3>4, Zenon
  <2>. QED  BY <2>1, <2>2, <1>1
<1>. QED  BY <1>2, Zenon DEF Body!IsUtf8, c

Utf8 == {b \in Seq(Bytes) : Body!IsUtf8(b)}

LEMMA CharacterIsUtf8 ==
  ASSUME NEW i \in Nat, NEW w \in Nat \ {0}
  PROVE  Body!Character(i, w) \in Utf8
<1>. PICK c : c = Body!Character(i, w)
  OBVIOUS
<1>1. c = [p \in 1..w |-> Body!Byte(i, p, w)]
  BY DEF Body!Character
<1>2. c \in Seq(Bytes) /\ Len(c) = w /\ DOMAIN c = 1..w
  <2>1. \A p \in 1..w : Body!Byte(i, p, w) \in Bytes
    BY DEF Body!Byte, Bytes
  <2>. QED  BY <1>1, <2>1
<1>3. \A p \in 1..w : c[p] = [char |-> i, part |-> p, of |-> w]
  BY <1>1 DEF Body!Byte
<1>4. Body!IsUtf8(c)
  BY <1>2, <1>3 DEF Body!IsUtf8
<1>. QED  BY <1>2, <1>4 DEF Utf8

LEMMA TextIsUtf8 ==
  ASSUME Body!BodyAssumption, NEW t \in Body!Texts
  PROVE  t \in Utf8
<1>1. PICK n \in 0..MaxCharacters : \E widths \in [1..n -> Widths] :
        t = Body!FlattenSeq([i \in DOMAIN widths |-> Body!Character(i, widths[i])])
  BY DEF Body!Texts
<1>w. PICK widths \in [1..n -> Widths] :
        t = Body!FlattenSeq([i \in DOMAIN widths |-> Body!Character(i, widths[i])])
  BY <1>1
<1>2. PICK s : s = [i \in DOMAIN widths |-> Body!Character(i, widths[i])]
  OBVIOUS
<1>3. \A i \in 1..n : Body!Character(i, widths[i]) \in Utf8
  <2>. TAKE i \in 1..n
  <2>1. i \in Nat
    BY DEF Body!BodyAssumption
  <2>2. widths[i] \in Nat \ {0}
    BY DEF Body!BodyAssumption
  <2>. QED  BY <2>1, <2>2, CharacterIsUtf8
<1>4. s \in Seq(Utf8)
  BY <1>2, <1>3
<1>5. \A a, b \in Utf8 : a \o b \in Utf8
  BY Utf8Joins DEF Utf8
<1>6. << >> \in Utf8
  BY DEF Utf8, Body!IsUtf8
<1>. QED  BY <1>w, <1>2, <1>4, <1>5, <1>6, FlattenStays

\* The chunks that are kept are what was sent, unless that was too much.
BodyInv ==
  /\ text \in Seq(Bytes) /\ Body!IsUtf8(text)
  /\ sent \in 0..Len(text) /\ size \in Nat
  /\ chunks \in Seq(Seq(Bytes)) /\ Body!Raw \in Seq(Bytes)
  /\ outcome \in {"begun", "reading", "value", "null", "too_large", "invalid_json", "broken"}
  /\ outcome # "too_large" => size = sent /\ Body!Raw = SubSeq(text, 1, sent)
  /\ Body!KeptIsBounded /\ Body!AnswerIsOfTheBody

LEMMA InitIsEmpty ==
  ASSUME Body!BodyAssumption, Body!Init
  PROVE  BodyInv
<1>1. text \in Utf8
  BY TextIsUtf8 DEF Body!Init
<1>2. text \in Seq(Bytes) /\ Body!IsUtf8(text)
  BY <1>1 DEF Utf8
<1>3. Body!Raw = << >>
  BY FlattenEmpty DEF Body!Init, Body!Raw
<1>4. SubSeq(text, 1, 0) = << >>
  OBVIOUS
<1>5. Len(<< >>) = 0 /\ << >> \in Seq(Bytes) /\ << >> \in Seq(Seq(Bytes))
  OBVIOUS
<1>. QED
  BY <1>2, <1>3, <1>4, <1>5 DEF Body!Init, BodyInv, Body!KeptIsBounded, Body!AnswerIsOfTheBody,
                                Body!BodyAssumption

LEMMA ReceiveKeeps ==
  ASSUME Body!BodyAssumption, BodyInv, Body!Receive
  PROVE  BodyInv'
<1>1. PICK n \in 1..Len(text) - sent :
         /\ sent' = sent + n /\ size' = size + n
         /\ IF size' > MaxBytes THEN outcome' = "too_large" /\ UNCHANGED chunks
            ELSE chunks' = Append(chunks, SubSeq(text, sent + 1, sent + n)) /\ UNCHANGED outcome
  BY DEF Body!Receive, Body!Counted
<1>2. UNCHANGED <<text, isJson, length>> /\ outcome = "reading"
  BY DEF Body!Receive
<1>3. /\ sent \in Nat /\ size = sent /\ Body!Raw = SubSeq(text, 1, sent) /\ sent + n \in 0..Len(text)
      /\ Len(text) \in Nat /\ MaxBytes \in Nat
  BY <1>1, <1>2 DEF BodyInv, Body!BodyAssumption
<1>4. CASE size' > MaxBytes
  <2>1. Body!Raw' = Body!Raw
    BY <1>1, <1>4 DEF Body!Raw
  <2>. QED  BY <1>1, <1>2, <1>3, <1>4, <2>1 DEF BodyInv, Body!KeptIsBounded, Body!AnswerIsOfTheBody
<1>5. CASE ~(size' > MaxBytes)
  <2>. PICK c : c = SubSeq(text, sent + 1, sent + n)
    OBVIOUS
  <2>1. text \in Seq(Bytes) /\ sent \in 0..Len(text)
    BY DEF BodyInv
  <2>2. c \in Seq(Bytes)
    BY <1>1, <1>3, <2>1
  <2>3. SubSeq(text, 1, sent) \o c = SubSeq(text, 1, sent + n)
    <3>1. 1 \in 1..Len(text) + 1 /\ sent \in 1 - 1..Len(text) /\ sent + n \in sent..Len(text)
      BY <1>1, <1>3
    <3>. QED  BY <3>1, <2>1, ConcatAdjacentSubSeq, Zenon
  <2>4. chunks' = Append(chunks, c) /\ chunks' \in Seq(Seq(Bytes))
    <3>1. chunks' = Append(chunks, c)
      BY <1>1, <1>5
    <3>2. chunks \in Seq(Seq(Bytes))
      BY DEF BodyInv
    <3>3. Append(chunks, c) \in Seq(Seq(Bytes))
      BY <2>2, <3>2, AppendProperties, Zenon
    <3>. QED  BY <3>1, <3>3, Zenon
  <2>5. Body!Raw' = Body!Raw \o c
    BY <2>2, <2>4, FlattenAppend DEF BodyInv, Body!Raw
  <2>6. Body!Raw' = SubSeq(text, 1, sent + n)
    BY <1>3, <2>3, <2>5
  <2>7. Body!Raw' \in Seq(Bytes) /\ Len(Body!Raw') = sent + n
    BY <1>1, <1>3, <2>1, <2>6
  <2>. QED  BY <1>1, <1>2, <1>3, <1>5, <2>4, <2>6, <2>7 DEF BodyInv, Body!KeptIsBounded,
        Body!AnswerIsOfTheBody
<1>. QED  BY <1>4, <1>5

LEMMA EndKeeps ==
  ASSUME Body!BodyAssumption, BodyInv, Body!End
  PROVE  BodyInv'
<1>1. /\ outcome = "reading" /\ sent = Len(text) /\ UNCHANGED <<text, isJson, length, sent, chunks, size>>
      /\ outcome' = IF size = 0 THEN "null" ELSE IF Body!Decodes(chunks) /\ isJson THEN "value" ELSE "invalid_json"
  BY DEF Body!End, Body!Decide
<1>2. size = Len(text) /\ Body!Raw = text
  BY <1>1 DEF BodyInv
<1>3. Body!Decodes(chunks)
  BY <1>2 DEF BodyInv, Body!Decodes, Body!Raw
<1>4. size = 0 <=> text = << >>
  BY <1>2 DEF BodyInv
<1>5. Body!Raw' = Body!Raw
  BY <1>1 DEF Body!Raw
<1>. QED  BY <1>1, <1>2, <1>3, <1>4, <1>5 DEF BodyInv, Body!KeptIsBounded, Body!AnswerIsOfTheBody

LEMMA BodyStep ==
  ASSUME Body!BodyAssumption, BodyInv, [Body!Next]_Body!vars
  PROVE  BodyInv'
<1>1. CASE Body!CheckLength \/ Body!Break
  <2>1. UNCHANGED <<text, isJson, length, sent, chunks, size>> /\ Body!Raw' = Body!Raw
    BY <1>1 DEF Body!CheckLength, Body!Break, Body!Decide, Body!Raw
  <2>2. outcome # "too_large" /\ (outcome' \in {"reading", "broken"} \/ (outcome' = "too_large" /\ length > MaxBytes))
    <3>1. outcome # "too_large"
      BY <1>1 DEF Body!CheckLength, Body!Break
    <3>2. CASE Body!CheckLength
      <4>1. outcome' = IF length > MaxBytes THEN "too_large" ELSE "reading"
        BY <3>2, Zenon DEF Body!CheckLength, Body!Decide
      <4>. QED  BY <3>1, <4>1
    <3>3. CASE Body!Break
      BY <3>1, <3>3 DEF Body!Break, Body!Decide
    <3>. QED  BY <1>1, <3>2, <3>3
  <2>. QED  BY <2>1, <2>2 DEF BodyInv, Body!KeptIsBounded, Body!AnswerIsOfTheBody
<1>2. CASE UNCHANGED Body!vars
  BY <1>2 DEF Body!vars, BodyInv, Body!KeptIsBounded, Body!AnswerIsOfTheBody, Body!Raw
<1>. QED  BY <1>1, <1>2, ReceiveKeeps, EndKeeps DEF Body!Next

\* What is kept of a body never passes the limit, and the answer is that of the body,
\* however the stream was cut.
THEOREM BodyIsRead ==
  ASSUME Body!BodyAssumption
  PROVE  Body!Spec => [](Body!TypeOK /\ Body!KeptIsBounded /\ Body!AnswerIsOfTheBody)
<1>1. Body!Init => BodyInv
  BY InitIsEmpty
<1>2. BodyInv /\ [Body!Next]_Body!vars => BodyInv'
  BY BodyStep
<1>3. BodyInv => Body!TypeOK /\ Body!KeptIsBounded /\ Body!AnswerIsOfTheBody
  <2>. SUFFICES ASSUME BodyInv PROVE Body!TypeOK
    BY DEF BodyInv
  <2>1. outcome # "too_large" => Len(Body!Raw) = sent
    BY DEF BodyInv
  <2>. QED  BY <2>1 DEF BodyInv, Body!TypeOK
<1>. QED  BY <1>1, <1>2, <1>3, PTL DEF Body!Spec

-----------------------------------------------------------------------------
(* A walk through the history *)

\* An instance brings its own copy of the definitions of FiniteSets.
LEMMA SameSets ==
  \A S : Paging!Cardinality(S) = Cardinality(S) /\ (Paging!IsFiniteSet(S) <=> IsFiniteSet(S))
BY Zenon DEF Paging!Cardinality, Cardinality, Paging!IsFiniteSet, IsFiniteSet

\* Of two keys one is newer, of three the newest.
LEMMA NewerIsAnOrder ==
  ASSUME Paging!PagingAssumption, NEW a \in Paging!Keys, NEW b \in Paging!Keys, NEW c \in Paging!Keys
  PROVE  /\ ~Paging!Newer(a, a)
         /\ Paging!Newer(a, b) => ~Paging!Newer(b, a)
         /\ a # b => Paging!Newer(a, b) \/ Paging!Newer(b, a)
         /\ Paging!Newer(a, b) /\ Paging!Newer(b, c) => Paging!Newer(a, c)
<1>1. /\ a.created \in Nat /\ b.created \in Nat /\ c.created \in Nat
      /\ a.id \in Nat /\ b.id \in Nat /\ c.id \in Nat
  <2>1. Ids \subseteq Nat
    BY DEF Paging!PagingAssumption
  <2>2. \A k \in Paging!Keys : k.created \in Nat /\ k.id \in Ids
    BY DEF Paging!Keys, Paging!Times
  <2>. QED  BY <2>1, <2>2
<1>2. a.created = b.created /\ a.id = b.id => a = b
  BY DEF Paging!Keys
<1>. QED  BY <1>1, <1>2 DEF Paging!Newer

\* Some keys in their order, newest first.
IsSorted(p, S) ==
  /\ p \in [1..Cardinality(S) -> S] /\ Paging!Range(p) = S
  /\ \A i, j \in DOMAIN p : i < j => Paging!Newer(p[i], p[j])

LEMMA OneLess ==
  ASSUME NEW S, IsFiniteSet(S), NEW x \in S
  PROVE  /\ IsFiniteSet(S \ {x}) /\ Cardinality(S \ {x}) = Cardinality(S) - 1
         /\ Cardinality(S) \in Nat \ {0} /\ Cardinality(S \ {x}) \in Nat
<1>1. IsFiniteSet(S \ {x}) /\ Cardinality(S \ {x}) = Cardinality(S) - 1
  BY FS_RemoveElement
<1>2. Cardinality(S) \in Nat /\ Cardinality(S \ {x}) \in Nat
  BY <1>1, FS_CardinalityType
<1>. QED  BY <1>1, <1>2

LEMMA NewestExists ==
  ASSUME Paging!PagingAssumption, NEW S \in SUBSET Paging!Keys, IsFiniteSet(S), S # {}
  PROVE  \E m \in S : \A k \in S \ {m} : Paging!Newer(m, k)
<1>. DEFINE Odd == {T \in SUBSET Paging!Keys : /\ IsFiniteSet(T) /\ T # {}
                                               /\ ~\E m \in T : \A k \in T \ {m} : Paging!Newer(m, k)}
            Sizes == {Cardinality(T) : T \in Odd}
<1>. SUFFICES ASSUME S \in Odd PROVE FALSE
  OBVIOUS
<1>1. Sizes \in SUBSET Nat /\ Sizes # {}
  BY FS_CardinalityType
<1>2. PICK n \in Sizes : \A k \in Sizes : n =< k
  <2>. HIDE DEF Sizes
  <2>. QED  BY <1>1, LeastNumber
<1>3. PICK T \in Odd : Cardinality(T) = n
  BY <1>2
<1>4. PICK x \in T : TRUE
  BY <1>3
<1>5. T \ {x} \notin Odd
  <2>1. Cardinality(T \ {x}) = n - 1 /\ n \in Nat
    BY <1>1, <1>3, <1>4, OneLess
  <2>2. T \ {x} \in Odd => Cardinality(T \ {x}) \in Sizes
    OBVIOUS
  <2>. HIDE DEF Odd, Sizes
  <2>3. T \ {x} \in Odd => n =< n - 1
    BY <1>2, <2>1, <2>2
  <2>. QED  BY <2>1, <2>3
<1>6. T \ {x} # {}
  BY <1>3, <1>4
<1>7. IsFiniteSet(T \ {x})
  BY <1>3, OneLess
<1>8. PICK m \in T \ {x} : \A k \in (T \ {x}) \ {m} : Paging!Newer(m, k)
  BY <1>3, <1>5, <1>6, <1>7
<1>9. x \in Paging!Keys /\ m \in Paging!Keys /\ x # m
  BY <1>3
<1>10. CASE Paging!Newer(m, x)
  <2>1. \A k \in T \ {m} : Paging!Newer(m, k)
    BY <1>8, <1>10
  <2>. QED  BY <2>1, <1>3
<1>11. CASE Paging!Newer(x, m)
  <2>1. \A k \in T \ {x} : Paging!Newer(x, k)
    <3>. TAKE k \in T \ {x}
    <3>1. k \in Paging!Keys
      BY <1>3
    <3>2. k = m \/ Paging!Newer(m, k)
      BY <1>8
    <3>. QED  BY <3>1, <3>2, <1>9, <1>11, NewerIsAnOrder
  <2>. QED  BY <2>1, <1>3
<1>. QED  BY <1>9, <1>10, <1>11, NewerIsAnOrder

LEMMA SortedExists ==
  ASSUME Paging!PagingAssumption, NEW S \in SUBSET Paging!Keys, IsFiniteSet(S)
  PROVE  \E p : IsSorted(p, S)
<1>. DEFINE Odd == {T \in SUBSET Paging!Keys : IsFiniteSet(T) /\ ~\E p : IsSorted(p, T)}
            Sizes == {Cardinality(T) : T \in Odd}
<1>. SUFFICES ASSUME S \in Odd PROVE FALSE
  OBVIOUS
<1>1. Sizes \in SUBSET Nat /\ Sizes # {}
  BY FS_CardinalityType
<1>2. PICK n \in Sizes : \A k \in Sizes : n =< k
  <2>. HIDE DEF Sizes
  <2>. QED  BY <1>1, LeastNumber
<1>3. PICK T \in Odd : Cardinality(T) = n
  BY <1>2
<1>4. T # {}
  <2>. SUFFICES ASSUME T = {} PROVE FALSE
    OBVIOUS
  <2>. DEFINE p == [i \in 1..0 |-> 0]
  <2>1. Cardinality({}) = 0
    BY FS_EmptySet
  <2>2. IsSorted(p, {})
    BY <2>1 DEF IsSorted, Paging!Range
  <2>. QED  BY <2>2, <1>3
<1>5. PICK m \in T : \A k \in T \ {m} : Paging!Newer(m, k)
  BY <1>3, <1>4, NewestExists
<1>6. /\ IsFiniteSet(T \ {m}) /\ Cardinality(T \ {m}) = n - 1 /\ n \in Nat \ {0}
      /\ n - 1 \in Nat
  BY <1>3, OneLess
<1>7. T \ {m} \notin Odd
  <2>1. T \ {m} \in Odd => Cardinality(T \ {m}) \in Sizes
    OBVIOUS
  <2>. HIDE DEF Odd, Sizes
  <2>2. T \ {m} \in Odd => n =< n - 1
    BY <1>2, <1>6, <2>1
  <2>. QED  BY <1>6, <2>2
<1>8. PICK q : IsSorted(q, T \ {m})
  BY <1>3, <1>6, <1>7
<1>. DEFINE p == [i \in 1..n |-> IF i = 1 THEN m ELSE q[i - 1]]
<1>9. q \in [1..n - 1 -> T \ {m}] /\ Paging!Range(q) = T \ {m}
      /\ \A i, j \in 1..n - 1 : i < j => Paging!Newer(q[i], q[j])
  BY <1>6, <1>8 DEF IsSorted
<1>10. p \in [1..n -> T]
  BY <1>6, <1>9
<1>11. Paging!Range(p) = T
  <2>1. ASSUME NEW k \in T PROVE \E i \in 1..n : p[i] = k
    <3>1. CASE k = m
      BY <1>6, <3>1
    <3>2. CASE k # m
      <4>1. PICK i \in 1..n - 1 : q[i] = k
        BY <3>2, <1>9 DEF Paging!Range
      <4>2. i + 1 \in 1..n /\ i + 1 # 1 /\ (i + 1) - 1 = i
        BY <1>6
      <4>. QED  BY <4>1, <4>2
    <3>. QED  BY <3>1, <3>2
  <2>. HIDE DEF p
  <2>. QED  BY <2>1, <1>10 DEF Paging!Range
<1>12. ASSUME NEW i \in 1..n, NEW j \in 1..n, i < j
       PROVE  Paging!Newer(p[i], p[j])
  <2>1. j # 1 /\ j - 1 \in 1..n - 1 /\ p[j] = q[j - 1]
    BY <1>6, <1>12
  <2>2. CASE i = 1
    <3>1. q[j - 1] \in T \ {m}
      BY <2>1, <1>9
    <3>. QED  BY <2>1, <2>2, <3>1, <1>5
  <2>3. CASE i # 1
    <3>1. i - 1 \in 1..n - 1 /\ i - 1 < j - 1 /\ p[i] = q[i - 1]
      BY <1>6, <1>12, <2>3
    <3>. QED  BY <2>1, <3>1, <1>9
  <2>. QED  BY <2>2, <2>3
<1>13. IsSorted(p, T)
  <2>. HIDE DEF p
  <2>. QED  BY <1>3, <1>10, <1>11, <1>12 DEF IsSorted
<1>. QED  BY <1>3, <1>13

LEMMA SortedIsSorted ==
  ASSUME Paging!PagingAssumption, NEW S \in SUBSET Paging!Keys, IsFiniteSet(S)
  PROVE  IsSorted(Paging!Sorted(S), S)
<1>1. \E p \in [1..Cardinality(S) -> S] :
        Paging!Range(p) = S /\ \A i, j \in DOMAIN p : i < j => Paging!Newer(p[i], p[j])
  BY SortedExists DEF IsSorted
<1>2. Cardinality(S) = Paging!Cardinality(S)
  BY SameSets
<1>. QED  BY <1>1, <1>2, Zenon DEF IsSorted, Paging!Sorted

\* The ends of a list.
IsList(p, c, S) == c \in Nat /\ p \in [1..c -> S]

IsFirstOf(q, p, c, n, S) ==
  \E m \in Nat : /\ m =< c /\ m =< n /\ (m < n => m = c) /\ Len(q) = m
                 /\ q \in [1..m -> S] /\ \A i \in 1..m : q[i] = p[i]

IsLastOf(q, p, c, n, S) ==
  \E m, d \in Nat : /\ d + m = c /\ m =< n /\ (m < n => m = c) /\ Len(q) = m
                    /\ q \in [1..m -> S] /\ \A i \in 1..m : q[i] = p[d + i]

LEMMA FirstOfList ==
  ASSUME NEW S, NEW c, NEW p, IsList(p, c, S), NEW n \in Nat
  PROVE  IsFirstOf(Paging!FirstOf(p, n), p, c, n, S)
<1>. c \in Nat /\ p \in [1..c -> S]
  BY DEF IsList
<1>. PICK m \in Nat : m = IF c < n THEN c ELSE n
  OBVIOUS
<1>. PICK q : q = Paging!FirstOf(p, n)
  OBVIOUS
<1>1. p \in Seq(S) /\ Len(p) = c
  OBVIOUS
<1>2. m =< c /\ m =< n /\ (m < n => m = c)
  OBVIOUS
<1>3. q = SubSeq(p, 1, m)
  BY <1>1, Zenon DEF Paging!FirstOf
<1>4. Len(q) = m /\ q \in Seq(S) /\ \A i \in 1..m : q[i] = p[i]
  BY ONLY <1>1, <1>2, <1>3, c \in Nat, m \in Nat
<1>5. q \in [1..m -> S]
  BY <1>4, LenProperties, Zenon
<1>. QED  BY <1>2, <1>4, <1>5, Zenon DEF IsFirstOf

LEMMA LastOfList ==
  ASSUME NEW S, NEW c, NEW p, IsList(p, c, S), NEW n \in Nat
  PROVE  IsLastOf(Paging!LastOf(p, n), p, c, n, S)
<1>. c \in Nat /\ p \in [1..c -> S]
  BY DEF IsList
<1>. PICK m \in Nat : m = IF c < n THEN c ELSE n
  OBVIOUS
<1>0. m =< c
  OBVIOUS
<1>. PICK d \in Nat : d = c - m
  BY ONLY <1>0, c \in Nat, m \in Nat
<1>. PICK q : q = Paging!LastOf(p, n)
  OBVIOUS
<1>1. p \in Seq(S) /\ Len(p) = c
  OBVIOUS
<1>2. d + m = c /\ m =< n /\ (m < n => m = c) /\ (IF c < n THEN 1 ELSE c - n + 1) = d + 1
  OBVIOUS
<1>3. q = SubSeq(p, d + 1, c)
  BY <1>1, <1>2, Zenon DEF Paging!LastOf
<1>4. Len(q) = m /\ q \in Seq(S) /\ \A i \in 1..m : q[i] = p[(d + 1) + i - 1]
  BY ONLY <1>1, <1>2, <1>3, c \in Nat, m \in Nat, d \in Nat
<1>5. q \in [1..m -> S]
  BY <1>4, LenProperties, Zenon
<1>6. \A i \in 1..m : q[i] = p[d + i]
  BY ONLY <1>4, m \in Nat, d \in Nat
<1>. QED  BY <1>2, <1>4, <1>5, <1>6, Zenon DEF IsLastOf

LEMMA FirstOfSorted ==
  ASSUME Paging!PagingAssumption, NEW S \in SUBSET Paging!Keys, IsFiniteSet(S), NEW n \in Nat \ {0},
         NEW q, q = Paging!FirstOf(Paging!Sorted(S), n)
  PROVE  /\ Len(q) \in 0..n /\ Len(q) =< Cardinality(S) /\ q \in [1..Len(q) -> S]
         /\ \A i, j \in 1..Len(q) : i < j => Paging!Newer(q[i], q[j])
         /\ Len(q) < n => Len(q) = Cardinality(S)
         /\ \A k \in S : k \in Paging!Range(q) \/ (Len(q) = n /\ Paging!Newer(q[Len(q)], k))
<1>. PICK p : p = Paging!Sorted(S)
  OBVIOUS
<1>. PICK c : c = Cardinality(S)
  OBVIOUS
<1>1. /\ p \in [1..c -> S] /\ Paging!Range(p) = S /\ c \in Nat /\ p \in Seq(S) /\ Len(p) = c
      /\ \A i, j \in 1..c : i < j => Paging!Newer(p[i], p[j])
  BY SortedIsSorted, FS_CardinalityType DEF IsSorted
<1>3. PICK m \in Nat : /\ m =< c /\ m =< n /\ (m < n => m = c) /\ Len(q) = m
                        /\ q \in [1..m -> S] /\ \A i \in 1..m : q[i] = p[i]
  <2>1. q = Paging!FirstOf(p, n)
    BY Zenon
  <2>2. IsList(p, c, S) /\ n \in Nat
    BY <1>1 DEF IsList
  <2>3. IsFirstOf(q, p, c, n, S)
    BY <2>1, <2>2, FirstOfList, Zenon
  <2>. QED  BY ONLY <2>3, Zenon DEF IsFirstOf
<1>4. ASSUME NEW k \in S, k \notin Paging!Range(q)
      PROVE  m = n /\ Paging!Newer(q[m], k)
  <2>1. PICK i \in 1..c : p[i] = k
    BY <1>1 DEF Paging!Range
  <2>2. ~(i \in 1..m)
    BY <1>3, <1>4, <2>1 DEF Paging!Range
  <2>3. m < i /\ m = n /\ m \in 1..c /\ m \in 1..m
    BY ONLY <1>1, <1>3, <2>1, <2>2, m \in Nat
  <2>. QED  BY <1>1, <1>3, <2>1, <2>3
<1>. QED  BY <1>1, <1>3, <1>4

LEMMA LastOfSorted ==
  ASSUME Paging!PagingAssumption, NEW S \in SUBSET Paging!Keys, IsFiniteSet(S), NEW n \in Nat \ {0},
         NEW q, q = Paging!LastOf(Paging!Sorted(S), n)
  PROVE  /\ Len(q) \in 0..n /\ Len(q) =< Cardinality(S) /\ q \in [1..Len(q) -> S]
         /\ \A i, j \in 1..Len(q) : i < j => Paging!Newer(q[i], q[j])
         /\ \A k \in S : k \in Paging!Range(q) \/ (Len(q) = n /\ Paging!Newer(k, q[1]))
<1>. PICK p : p = Paging!Sorted(S)
  OBVIOUS
<1>. PICK c : c = Cardinality(S)
  OBVIOUS
<1>1. /\ p \in [1..c -> S] /\ Paging!Range(p) = S /\ c \in Nat /\ p \in Seq(S) /\ Len(p) = c
      /\ \A i, j \in 1..c : i < j => Paging!Newer(p[i], p[j])
  BY SortedIsSorted, FS_CardinalityType DEF IsSorted
<1>3. PICK m \in Nat, d \in Nat :
        /\ d + m = c /\ m =< n /\ (m < n => m = c) /\ Len(q) = m
        /\ q \in [1..m -> S] /\ \A i \in 1..m : q[i] = p[d + i]
  <2>1. q = Paging!LastOf(p, n)
    BY Zenon
  <2>2. IsList(p, c, S) /\ n \in Nat
    BY <1>1 DEF IsList
  <2>3. IsLastOf(q, p, c, n, S)
    BY <2>1, <2>2, LastOfList, Zenon
  <2>. QED  BY ONLY <2>3, Zenon DEF IsLastOf
<1>c. c \in Nat /\ m \in Nat /\ d \in Nat
  BY <1>1
<1>4. ASSUME NEW k \in S, k \notin Paging!Range(q)
      PROVE  m = n /\ Paging!Newer(k, q[1])
  <2>1. PICK i \in 1..c : p[i] = k
    BY <1>1 DEF Paging!Range
  <2>2. ~(i > d)
    <3>. SUFFICES ASSUME i > d PROVE FALSE
      OBVIOUS
    <3>. PICK j : j = i - d
      OBVIOUS
    <3>1. j \in 1..m /\ d + j = i
      BY ONLY <1>c, <1>3, <2>1, i > d, j = i - d
    <3>. QED  BY <1>3, <1>4, <2>1, <3>1 DEF Paging!Range
  <2>3. i < d + 1 /\ m = n /\ 1 \in 1..m /\ d + 1 \in 1..c
    BY ONLY <1>c, <1>3, <2>1, <2>2
  <2>. QED  BY <1>1, <1>3, <2>1, <2>3
<1>5. ASSUME NEW i \in 1..m, NEW j \in 1..m, i < j
      PROVE  Paging!Newer(q[i], q[j])
  <2>1. d + i \in 1..c /\ d + j \in 1..c /\ d + i < d + j
    BY ONLY <1>c, <1>3, <1>5, i \in 1..m, j \in 1..m
  <2>. QED  BY <1>1, <1>3, <1>5, <2>1
<1>. QED  BY <1>1, <1>3, <1>4, <1>5

\* What a page is of the rows there are: those beyond the cursor, next to it.
IsPage(p, keys, cursor, reverse) ==
  /\ p \in Paging!PageLists /\ Len(p) =< Cardinality(keys)
  /\ \A i \in DOMAIN p : p[i] \in Paging!HistoryBoundary(keys, cursor, reverse)
  /\ p # << >> =>
       \A k \in Paging!HistoryBoundary(keys, cursor, reverse) :
         \/ k \in Paging!Range(p)
         \/ IF reverse THEN Paging!Newer(k, Paging!First(p)) ELSE Paging!Newer(Paging!Last(p), k)

LEMMA PageOfIsPage ==
  ASSUME Paging!PagingAssumption, NEW keys \in SUBSET Paging!Keys, IsFiniteSet(keys),
         NEW cursor, NEW reverse \in BOOLEAN
  PROVE  IsPage(Paging!PageOf(keys, cursor, reverse), keys, cursor, reverse)
<1>. PICK S : S = Paging!HistoryBoundary(keys, cursor, reverse)
  OBVIOUS
<1>1. S \subseteq keys
  BY DEF Paging!HistoryBoundary
<1>2. IsFiniteSet(S) /\ Cardinality(S) =< Cardinality(keys) /\ S \in SUBSET Paging!Keys
      /\ Cardinality(S) \in Nat /\ Cardinality(keys) \in Nat
  BY <1>1, FS_Subset, FS_CardinalityType
<1>3. Limit \in Nat \ {0}
  BY DEF Paging!PagingAssumption
<1>. PICK q : q = Paging!PageOf(keys, cursor, reverse)
  OBVIOUS
<1>4. q = IF reverse THEN Paging!LastOf(Paging!Sorted(S), Limit) ELSE Paging!FirstOf(Paging!Sorted(S), Limit)
  BY DEF Paging!PageOf
<1>5. /\ Len(q) \in 0..Limit /\ Len(q) =< Cardinality(S) /\ q \in [1..Len(q) -> S]
      /\ \A i, j \in 1..Len(q) : i < j => Paging!Newer(q[i], q[j])
      /\ \A k \in S : k \in Paging!Range(q) \/ IF reverse THEN Paging!Newer(k, q[1]) ELSE Paging!Newer(q[Len(q)], k)
  BY <1>2, <1>3, <1>4, FirstOfSorted, LastOfSorted
<1>6. q \in Paging!PageLists
  <2>1. q \in [1..Len(q) -> Paging!Keys]
    BY <1>2, <1>5
  <2>. QED  BY <1>5, <2>1 DEF Paging!PageLists
<1>. QED  BY <1>2, <1>5, <1>6 DEF IsPage, Paging!First, Paging!Last

\* One row more than the page is read: none left when it is not there.
LEMMA LedgerPageIsPage ==
  ASSUME Paging!PagingAssumption, NEW keys \in SUBSET Paging!Keys, IsFiniteSet(keys), NEW cursor,
         NEW ahead, ahead = Paging!FirstOf(Paging!Sorted(Paging!HistoryBoundary(keys, cursor, FALSE)), Limit + 1),
         NEW page, page = Paging!FirstOf(ahead, Limit)
  PROVE  /\ IsPage(page, keys, cursor, FALSE)
         /\ ~(Len(ahead) > Limit) =>
              \A k \in Paging!HistoryBoundary(keys, cursor, FALSE) : k \in Paging!Range(page)
         /\ Len(ahead) > Limit => page # << >>
<1>. PICK S : S = Paging!HistoryBoundary(keys, cursor, FALSE)
  OBVIOUS
<1>1. S \subseteq keys
  BY DEF Paging!HistoryBoundary
<1>2. IsFiniteSet(S) /\ Cardinality(S) \in Nat /\ S \in SUBSET Paging!Keys
  BY <1>1, FS_Subset, FS_CardinalityType
<1>3. Limit \in Nat \ {0} /\ Limit + 1 \in Nat \ {0}
  BY DEF Paging!PagingAssumption
<1>. PICK p : p = Paging!Sorted(S)
  OBVIOUS
<1>. PICK c : c = Cardinality(S)
  OBVIOUS
<1>4. p \in [1..c -> S] /\ Paging!Range(p) = S /\ c \in Nat /\ Len(p) = c
  <2>1. p \in [1..c -> S] /\ Paging!Range(p) = S /\ c \in Nat
    BY <1>2, SortedIsSorted DEF IsSorted
  <2>. QED  BY ONLY <2>1
<1>5. PICK a \in Nat :
        /\ a =< c /\ a =< Limit + 1 /\ (a < Limit + 1 => a = c) /\ Len(ahead) = a
        /\ ahead \in [1..a -> S] /\ \A i \in 1..a : ahead[i] = p[i]
  <2>1. ahead = Paging!FirstOf(p, Limit + 1)
    BY Zenon
  <2>2. IsList(p, c, S) /\ Limit + 1 \in Nat
    BY <1>3, <1>4 DEF IsList
  <2>3. IsFirstOf(ahead, p, c, Limit + 1, S)
    BY <2>1, <2>2, FirstOfList, Zenon
  <2>. QED  BY ONLY <2>3, Zenon DEF IsFirstOf
<1>6. PICK m \in Nat :
        /\ m =< a /\ m =< Limit /\ (m < Limit => m = a) /\ Len(page) = m
        /\ page \in [1..m -> S] /\ \A i \in 1..m : page[i] = ahead[i]
  <2>1. page = Paging!FirstOf(ahead, Limit)
    BY Zenon
  <2>2. IsList(ahead, a, S) /\ Limit \in Nat
    BY <1>3, <1>5 DEF IsList
  <2>3. IsFirstOf(page, ahead, a, Limit, S)
    BY <2>1, <2>2, FirstOfList, Zenon
  <2>. QED  BY ONLY <2>3, Zenon DEF IsFirstOf
<1>7. PICK l \in Nat :
        /\ l =< c /\ l =< Limit /\ (l < Limit => l = c)
        /\ Len(Paging!FirstOf(p, Limit)) = l
        /\ Paging!FirstOf(p, Limit) \in [1..l -> S] /\ \A i \in 1..l : Paging!FirstOf(p, Limit)[i] = p[i]
  <2>1. IsList(p, c, S) /\ Limit \in Nat
    BY <1>3, <1>4 DEF IsList
  <2>2. IsFirstOf(Paging!FirstOf(p, Limit), p, c, Limit, S)
    BY <2>1, FirstOfList, Zenon
  <2>. QED  BY ONLY <2>2, Zenon DEF IsFirstOf
<1>8. l = m /\ (a > Limit => m > 0) /\ (~(a > Limit) => m = c)
  BY ONLY <1>3, <1>4, <1>5, <1>6, <1>7, a \in Nat, m \in Nat, l \in Nat
<1>9. \A i \in 1..m : page[i] = p[i]
  BY ONLY <1>5, <1>6, a \in Nat, m \in Nat
<1>10. page = Paging!FirstOf(p, Limit)
  BY ONLY <1>6, <1>7, <1>8, <1>9
<1>11. page = Paging!PageOf(keys, cursor, FALSE)
  BY <1>10, Zenon DEF Paging!PageOf
<1>12. IsPage(page, keys, cursor, FALSE)
  BY <1>11, PageOfIsPage
<1>13. ASSUME ~(Len(ahead) > Limit), NEW k \in S PROVE k \in Paging!Range(page)
  <2>1. m = c
    BY <1>5, <1>8, <1>13
  <2>2. PICK i \in 1..c : p[i] = k
    BY <1>4 DEF Paging!Range
  <2>3. page[i] = k /\ i \in DOMAIN page
    BY ONLY <1>6, <1>9, <2>1, <2>2
  <2>. QED  BY <2>3 DEF Paging!Range
<1>14. Len(ahead) > Limit => page # << >>
  BY ONLY <1>5, <1>6, <1>8, a \in Nat, m \in Nat
<1>. QED  BY <1>12, <1>13, <1>14

-----------------------------------------------------------------------------
\* The keys of the rows that have matched all the while and are not older than from.
Since(from) == {Paging!KeyOf(id) : id \in {i \in steady : rows[i].created >= from}}

\* The ids a page shows.
IdsOf(page) == {page[i].id : i \in DOMAIN page}

\* None of the keys is missed up to the end of a page, up to a cursor, next to a cursor.
Reached(keys, page, shown) == \A k \in keys : Paging!Newer(Paging!Last(page), k) \/ k.id \in shown
Covered(keys, cursor, shown) == \A k \in keys : Paging!Newer(cursor, k) \/ k.id \in shown
Beside(keys, page, cursor, direction) ==
  IF direction = "previous"
  THEN /\ Paging!Newer(Paging!Last(page), cursor)
       /\ \A k \in keys : ~(Paging!Newer(Paging!Last(page), k) /\ Paging!Newer(k, cursor))
  ELSE /\ Paging!Newer(cursor, Paging!First(page))
       /\ \A k \in keys : ~(Paging!Newer(cursor, k) /\ Paging!Newer(k, Paging!First(page)))

LEMMA PageEnds ==
  ASSUME NEW p \in Paging!PageLists, Paging!PagingAssumption
  PROVE  /\ Len(p) \in 0..Limit /\ p \in [1..Len(p) -> Paging!Keys] /\ p \in Seq(Paging!Keys) /\ DOMAIN p = 1..Len(p)
         /\ \A i, j \in 1..Len(p) : i < j => Paging!Newer(p[i], p[j])
         /\ p # << >> => /\ Len(p) >= 1 /\ Paging!First(p) = p[1] /\ Paging!Last(p) = p[Len(p)]
                         /\ Paging!First(p) \in Paging!Keys /\ Paging!Last(p) \in Paging!Keys /\ Paging!First(p) # None /\ Paging!Last(p) # None
                         /\ Paging!First(p) = Paging!Last(p) \/ Paging!Newer(Paging!First(p), Paging!Last(p))
<1>1. PICK n \in 0..Limit : p \in [1..n -> Paging!Keys]
  BY DEF Paging!PageLists
<1>2. \A i, j \in DOMAIN p : i < j => Paging!Newer(p[i], p[j])
  BY DEF Paging!PageLists
<1>3. Limit \in Nat /\ None \notin Paging!Keys
  BY DEF Paging!PagingAssumption
<1>4. Len(p) = n /\ p \in Seq(Paging!Keys) /\ n \in Nat /\ DOMAIN p = 1..n
  BY <1>1, <1>3
<1>5. p # << >> => n >= 1
  BY <1>1, <1>4
<1>. QED  BY <1>1, <1>2, <1>3, <1>4, <1>5 DEF Paging!First, Paging!Last

LEMMA PageIsCut ==
  ASSUME Paging!PagingAssumption, NEW keys \in SUBSET Paging!Keys, NEW since \in SUBSET keys,
         NEW cursor \in Paging!Keys \cup {None}, NEW direction, NEW reverse,
         reverse = (cursor # None /\ direction = "previous"),
         NEW p, IsPage(p, keys, cursor, reverse), p # << >>,
         NEW shown, cursor # None => Covered(since, cursor, shown)
  PROVE  /\ Reached(since, p, shown \cup IdsOf(p))
         /\ cursor # None => Beside(since, p, cursor, direction)
<1>. DEFINE l == Paging!Last(p)
            f == Paging!First(p)
<1>1. p \in Paging!PageLists
  BY DEF IsPage
<1>2. /\ DOMAIN p = 1..Len(p) /\ Len(p) \in Nat /\ Len(p) >= 1 /\ l = p[Len(p)] /\ f = p[1]
      /\ f \in Paging!Keys /\ l \in Paging!Keys /\ (f = l \/ Paging!Newer(f, l))
      /\ \A i \in 1..Len(p) : p[i] \in Paging!Keys
      /\ \A i, j \in 1..Len(p) : i < j => Paging!Newer(p[i], p[j])
  BY <1>1, PageEnds, None \notin Paging!Keys DEF Paging!PagingAssumption
<1>3. \A i \in 1..Len(p) : (p[i] = l \/ Paging!Newer(p[i], l)) /\ (p[i] = f \/ Paging!Newer(f, p[i]))
  BY ONLY <1>2
<1>4. \A k \in Paging!HistoryBoundary(keys, cursor, reverse) :
         (\E i \in 1..Len(p) : p[i] = k) \/ IF reverse THEN Paging!Newer(k, f) ELSE Paging!Newer(l, k)
  BY <1>2 DEF IsPage, Paging!Range
<1>5. cursor # None => IF reverse THEN Paging!Newer(l, cursor) /\ Paging!Newer(f, cursor)
                                  ELSE Paging!Newer(cursor, l) /\ Paging!Newer(cursor, f)
  BY <1>2 DEF IsPage, Paging!HistoryBoundary
<1>6. \A k \in keys : \/ k \in Paging!HistoryBoundary(keys, cursor, reverse)
                      \/ cursor # None /\ (IF reverse THEN ~Paging!Newer(k, cursor) ELSE ~Paging!Newer(cursor, k))
  BY DEF Paging!HistoryBoundary
<1>. HIDE DEF l, f
<1>7. ASSUME NEW k \in since PROVE Paging!Newer(l, k) \/ k.id \in shown \cup IdsOf(p)
  <2>1. k \in Paging!Keys /\ k \in keys
    OBVIOUS
  <2>2. CASE \E i \in 1..Len(p) : p[i] = k
    BY <1>2, <2>2 DEF IdsOf
  <2>3. CASE k \in Paging!HistoryBoundary(keys, cursor, reverse) /\ ~\E i \in 1..Len(p) : p[i] = k
    <3>1. ~reverse => Paging!Newer(l, k)
      BY <1>4, <2>3
    <3>2. reverse => cursor # None /\ Paging!Newer(k, f) /\ Paging!Newer(f, cursor)
      BY <1>4, <1>5, <2>3
    <3>3. reverse => Paging!Newer(k, cursor)
      BY <1>2, <2>1, <3>2, NewerIsAnOrder
    <3>4. reverse => k.id \in shown
      BY <2>1, <3>2, <3>3, NewerIsAnOrder DEF Covered
    <3>. QED  BY <3>1, <3>4
  <2>4. CASE k \notin Paging!HistoryBoundary(keys, cursor, reverse)
    <3>1. cursor # None /\ (Paging!Newer(cursor, k) \/ k.id \in shown)
      BY <1>6, <2>1, <2>4 DEF Covered
    <3>2. ~reverse => k.id \in shown
      BY <1>6, <2>1, <2>4, <3>1
    <3>3. reverse /\ Paging!Newer(cursor, k) => Paging!Newer(l, k)
      BY <1>2, <1>5, <2>1, <3>1, NewerIsAnOrder
    <3>. QED  BY <3>1, <3>2, <3>3
  <2>. QED  BY <2>2, <2>3, <2>4
<1>8. ASSUME cursor # None PROVE Beside(since, p, cursor, direction)
  <2>1. CASE direction = "previous"
    <3>1. reverse
      BY <1>8, <2>1
    <3>2. ASSUME NEW k \in since, Paging!Newer(l, k), Paging!Newer(k, cursor) PROVE FALSE
      <4>1. k \in Paging!HistoryBoundary(keys, cursor, reverse) /\ k \in Paging!Keys
        BY <1>6, <1>8, <3>1, <3>2
      <4>2. CASE Paging!Newer(k, f)
        BY <1>2, <4>1, <4>2, <3>2, NewerIsAnOrder
      <4>3. CASE \E i \in 1..Len(p) : p[i] = k
        BY <1>2, <1>3, <4>1, <4>3, <3>2, NewerIsAnOrder
      <4>. QED  BY <1>4, <3>1, <4>1, <4>2, <4>3
    <3>. QED  BY <1>5, <1>8, <2>1, <3>1, <3>2 DEF Beside, l
  <2>2. CASE direction # "previous"
    <3>1. ~reverse
      BY <2>2
    <3>2. ASSUME NEW k \in since, Paging!Newer(cursor, k), Paging!Newer(k, f) PROVE FALSE
      <4>1. k \in Paging!HistoryBoundary(keys, cursor, reverse) /\ k \in Paging!Keys
        BY <1>6, <3>1, <3>2
      <4>2. CASE Paging!Newer(l, k)
        BY <1>2, <4>1, <4>2, <3>2, NewerIsAnOrder
      <4>3. CASE \E i \in 1..Len(p) : p[i] = k
        BY <1>2, <1>3, <4>1, <4>3, <3>2, NewerIsAnOrder
      <4>. QED  BY <1>4, <3>1, <4>1, <4>2, <4>3
    <3>. QED  BY <1>5, <1>8, <2>2, <3>1, <3>2 DEF Beside, f
  <2>. QED  BY <2>1, <2>2
<1>. QED  BY <1>7, <1>8 DEF Reached, l

\* The URL, the table, what was shown, and what has matched ever since.
WellTyped ==
  /\ clock \in Paging!Times /\ rows \in [Ids -> Paging!Row \cup {None}] /\ list \in Lists
  /\ params \in [status : Statuses \cup {AllStatuses}, sliding : BOOLEAN,
                 cursor : Paging!Keys \cup {None}, direction : {"next", "previous"}]
  /\ seen \subseteq Ids /\ steady \subseteq Ids
  /\ \A id \in steady : Paging!StatusMatches(params.status, id)

\* The filter of a read is that of the URL, its window no later than one of now.
IsWhere(where) ==
  where.status = params.status /\ where.from \in Nat /\ where.from <= Paging!WhereOf(params).from

\* What was read as a page: none of the rows is missed up to its end, and none lies
\* between it and the cursor it was cut by.
IsRead(page, total, where, shown) ==
  /\ page \in Paging!PageLists /\ total \in Nat /\ Len(page) <= total
  /\ page # << >> =>
       /\ Reached(Since(where.from), page, shown)
       /\ params.cursor # None => Beside(Since(where.from), page, params.cursor, params.direction)

\* The read in progress, once it has its page.
ReadIsSound ==
  /\ request.phase \in {"idle", "sent", "page"}
  /\ request.phase # "idle" => IsWhere(request.where)
  /\ request.phase = "page" =>
       IsRead(request.page, request.total, request.where, seen \cup IdsOf(request.page))

\* Going down, all up to the cursor was shown.
CursorIsSound ==
  params.cursor # None =>
    /\ Covered(Since(Paging!WhereOf(params).from), params.cursor, seen)
    /\ request.phase # "idle" => Covered(Since(request.where.from), params.cursor, seen)

\* The page on the screen, and the ends of the list it shows.
DataIsSound ==
  data # None =>
    /\ IsWhere(data.where)
    /\ IsRead(data.page, data.total, data.where, seen)
    /\ data.previous # None => data.page # << >> /\ data.previous = Paging!First(data.page)
    /\ data.next # None => data.page # << >> /\ data.next = Paging!Last(data.page)
    /\ data.page # << >> =>
         \A k \in Since(data.where.from) :
            /\ data.next = None => ~Paging!Newer(Paging!Last(data.page), k)
            /\ data.previous = None /\ list = "history" => ~Paging!Newer(k, Paging!First(data.page))

\* The cursor is the end of the page that the last click left.
ClickIsSound ==
  left # None =>
    /\ params.cursor # None /\ left.direction = params.direction
    /\ params.cursor = IF left.direction = "next" THEN Paging!Last(left.page) ELSE Paging!First(left.page)

\* The older lists have no way back.
LedgerIsForward ==
  list = "ledger" => /\ params.direction = "next" /\ request.phase # "page"
                     /\ data # None => data.previous = None

\* The invariant: what the walk has learned is true of the table as it is now.
PagingInv ==
  WellTyped /\ ReadIsSound /\ CursorIsSound /\ DataIsSound /\ ClickIsSound /\ LedgerIsForward

LEMMA LaterIsFewer ==
  ASSUME WellTyped, Paging!PagingAssumption, NEW f \in Nat, NEW g \in Nat, f <= g
  PROVE  Since(g) \subseteq Since(f)
<1>1. \A id \in steady : rows[id] \in Paging!Row /\ rows[id].created \in Nat
  BY DEF WellTyped, Paging!StatusMatches, Paging!Row, Paging!Times
<1>. QED  BY <1>1 DEF Since

LEMMA StartIsNatural ==
  ASSUME WellTyped, Paging!PagingAssumption
  PROVE  Paging!WhereOf(params).from \in Nat /\ Paging!WhereOf(params).status = params.status
<1>1. clock \in Nat /\ SlidingWindow \in Nat
  BY DEF WellTyped, Paging!PagingAssumption, Paging!Times
<1>. QED  BY <1>1 DEF Paging!WhereOf

\* What is there to be read: keys, as many as there are ids at most, with those that
\* have matched all the while among them.
LEMMA MatchingIs ==
  ASSUME Paging!PagingAssumption, WellTyped, NEW where, IsWhere(where)
  PROVE  /\ Paging!Matching(where) \in SUBSET Paging!Keys /\ IsFiniteSet(Paging!Matching(where))
         /\ Cardinality(Paging!Matching(where)) \in Nat
         /\ Since(where.from) \subseteq Paging!Matching(where)
<1>. DEFINE T == {i \in Ids : Paging!StatusMatches(where.status, i) /\ rows[i].created >= where.from}
            f == [i \in T |-> Paging!KeyOf(i)]
<1>1. \A i \in T : Paging!KeyOf(i) \in Paging!Keys
  BY DEF WellTyped, Paging!StatusMatches, Paging!KeyOf, Paging!Keys, Paging!Row
<1>2. Paging!Matching(where) = {Paging!KeyOf(i) : i \in T}
  BY Zenon DEF Paging!Matching
<1>3. IsFiniteSet(T)
  BY FS_Subset, SameSets DEF Paging!PagingAssumption
<1>4. f \in Surjection(T, Paging!Matching(where))
  <2>1. f \in [T -> Paging!Matching(where)]
    BY <1>2
  <2>2. \A k \in Paging!Matching(where) : \E i \in T : f[i] = k
    BY <1>2
  <2>. QED  BY <2>1, <2>2 DEF Surjection
<1>5. IsFiniteSet(Paging!Matching(where))
  BY <1>3, <1>4, FS_Surjection
<1>6. \A i \in steady : rows[i].created >= where.from => i \in T
  BY DEF WellTyped, IsWhere
<1>. HIDE DEF T, f
<1>. QED  BY <1>1, <1>2, <1>5, <1>6, FS_CardinalityType DEF Since

LEMMA InitIsSound ==
  ASSUME Paging!PagingAssumption, Paging!Init
  PROVE  PagingInv
<1>1. PagingTime - 1 \in Paging!Times
  BY DEF Paging!PagingAssumption, Paging!Times
<1>2. WellTyped
  BY <1>1 DEF Paging!Init, Paging!InitTable, WellTyped, Paging!StatusMatches
<1>3. ReadIsSound /\ CursorIsSound /\ DataIsSound /\ ClickIsSound /\ LedgerIsForward
  BY DEF Paging!Init, Paging!InitTable, Paging!Idle, ReadIsSound, CursorIsSound, DataIsSound,
         ClickIsSound, LedgerIsForward
<1>. QED  BY <1>2, <1>3 DEF PagingInv

-----------------------------------------------------------------------------
(* The table changes *)

TableStays == UNCHANGED <<list, params, request, data, left, seen>>

LEMMA FewerKeys ==
  ASSUME Paging!PagingAssumption, PagingInv, Paging!Table
  PROVE  /\ TableStays /\ WellTyped' /\ clock <= clock'
         /\ \A from : Since(from)' \subseteq Since(from)
<1>. USE DEF PagingInv
<1>1. CASE Paging!Elapse
  <2>1. clock' \in Paging!Times /\ clock <= clock' /\ rows' = rows /\ steady' = steady
    BY <1>1 DEF Paging!Elapse, WellTyped, Paging!Times, Paging!PagingAssumption
  <2>. QED  BY <1>1, <2>1 DEF Paging!Elapse, TableStays, WellTyped, Paging!StatusMatches, Since,
                              Paging!KeyOf
<1>2. ASSUME NEW id \in Ids, Paging!Insert(id) \/ Paging!Change(id) \/ Paging!CleanUp(id) PROVE
        /\ TableStays /\ clock' = clock
        /\ \E r \in Paging!Row \cup {None} :
             /\ rows' = [rows EXCEPT ![id] = r]
             /\ steady' = IF r # None /\ params.status \in {AllStatuses, r.status}
                          THEN steady ELSE steady \ {id}
             /\ id \in steady => r = None \/ r.created = rows[id].created
  <2>1. rows[id] \in Paging!Row \cup {None} /\ (id \in steady => rows[id] # None)
    BY DEF WellTyped, Paging!StatusMatches
  <2>2. CASE Paging!Insert(id)
    <3>1. PICK created \in Paging!Times, status \in Statuses \ Settled : Paging!Write(id, [created |-> created, status |-> status])
      BY <2>2 DEF Paging!Insert
    <3>2. id \notin steady
      BY <2>1, <2>2 DEF Paging!Insert
    <3>3. [created |-> created, status |-> status] \in Paging!Row
      BY DEF Paging!Row
    <3>. QED  BY <3>1, <3>2, <3>3 DEF Paging!Write, TableStays
  <2>3. CASE Paging!Change(id)
    <3>1. PICK status \in Statuses : Paging!Write(id, [rows[id] EXCEPT !.status = status])
      BY <2>3 DEF Paging!Change
    <3>2. [rows[id] EXCEPT !.status = status] \in Paging!Row /\ [rows[id] EXCEPT !.status = status].created = rows[id].created
      BY <2>1, <2>3 DEF Paging!Change, Paging!Row
    <3>. QED  BY <3>1, <3>2 DEF Paging!Write, TableStays
  <2>4. CASE Paging!CleanUp(id)
    BY <2>4 DEF Paging!CleanUp, Paging!Write, TableStays
  <2>. QED  BY <1>2, <2>2, <2>3, <2>4
<1>3. CASE \E id \in Ids : Paging!Insert(id) \/ Paging!Change(id) \/ Paging!CleanUp(id)
  <2>1. PICK id \in Ids : Paging!Insert(id) \/ Paging!Change(id) \/ Paging!CleanUp(id)
    BY <1>3
  <2>2. TableStays /\ clock' = clock
    BY <1>2, <2>1
  <2>3. PICK r \in Paging!Row \cup {None} :
             /\ rows' = [rows EXCEPT ![id] = r]
             /\ steady' = IF r # None /\ params.status \in {AllStatuses, r.status}
                          THEN steady ELSE steady \ {id}
             /\ id \in steady => r = None \/ r.created = rows[id].created
    BY <1>2, <2>1
  <2>4. rows' \in [Ids -> Paging!Row \cup {None}] /\ rows'[id] = r /\ \A i \in Ids \ {id} : rows'[i] = rows[i]
    BY <2>3 DEF WellTyped
  <2>5. steady' \subseteq steady /\ \A i \in steady' : rows'[i] # None /\ rows'[i].created = rows[i].created
          /\ params.status \in {AllStatuses, rows'[i].status}
    BY <2>3, <2>4 DEF WellTyped, Paging!StatusMatches
  <2>6. clock <= clock' /\ clock' \in Paging!Times
    BY <2>2 DEF WellTyped, Paging!Times
  <2>7. WellTyped'
    BY <2>2, <2>4, <2>5, <2>6 DEF WellTyped, TableStays, Paging!StatusMatches
  <2>8. \A from : Since(from)' \subseteq Since(from)
    BY <2>5 DEF Since, Paging!KeyOf
  <2>. QED  BY <2>2, <2>6, <2>7, <2>8
<1>. QED  BY <1>1, <1>3 DEF Paging!Table

\* What the invariant says of some keys holds of fewer.
LEMMA FewerIsEnough ==
  ASSUME NEW keys, NEW fewer, fewer \subseteq keys, NEW page, NEW cursor, NEW direction, NEW shown
  PROVE  /\ Reached(keys, page, shown) => Reached(fewer, page, shown)
         /\ Covered(keys, cursor, shown) => Covered(fewer, cursor, shown)
         /\ Beside(keys, page, cursor, direction) => Beside(fewer, page, cursor, direction)
BY DEF Reached, Covered, Beside

\* The three windows the invariant speaks of.
Windows == /\ Since(Paging!WhereOf(params).from)' \subseteq Since(Paging!WhereOf(params).from)
           /\ Since(request.where.from)' \subseteq Since(request.where.from)
           /\ Since(data.where.from)' \subseteq Since(data.where.from)

LEMMA WindowsShrink ==
  ASSUME Paging!PagingAssumption, PagingInv, Paging!Table
  PROVE  Windows /\ Paging!WhereOf(params).from <= (Paging!WhereOf(params).from)'
         /\ (Paging!WhereOf(params).from)' \in Nat
<1>1. WellTyped /\ WellTyped' /\ TableStays /\ clock <= clock' /\ \A from : Since(from)' \subseteq Since(from)
  BY FewerKeys DEF PagingInv
<1>2. Paging!WhereOf(params).from \in Nat /\ (Paging!WhereOf(params).from)' \in Nat
      /\ Paging!WhereOf(params).from <= (Paging!WhereOf(params).from)'
  <2>1. clock \in Nat /\ clock' \in Nat /\ SlidingWindow \in Nat /\ params' = params
    BY <1>1 DEF WellTyped, Paging!PagingAssumption, Paging!Times, TableStays
  <2>2. Paging!WhereOf(params).from = IF params.sliding /\ clock > SlidingWindow THEN clock - SlidingWindow ELSE 0
    BY DEF Paging!WhereOf
  <2>3. (Paging!WhereOf(params).from)' = IF params.sliding /\ clock' > SlidingWindow THEN clock' - SlidingWindow ELSE 0
    BY <2>1 DEF Paging!WhereOf
  <2>4. CASE params.sliding
    <3>1. Paging!WhereOf(params).from = IF clock > SlidingWindow THEN clock - SlidingWindow ELSE 0
      BY <2>2, <2>4, Zenon
    <3>2. (Paging!WhereOf(params).from)' = IF clock' > SlidingWindow THEN clock' - SlidingWindow ELSE 0
      BY <2>3, <2>4, Zenon
    <3>. PICK x : x = Paging!WhereOf(params).from
      OBVIOUS
    <3>. PICK y : y = (Paging!WhereOf(params).from)'
      OBVIOUS
    <3>. PICK u \in Nat : u = clock
      BY <2>1
    <3>. PICK v \in Nat : v = clock'
      BY <2>1
    <3>3. u <= v /\ x = (IF u > SlidingWindow THEN u - SlidingWindow ELSE 0) /\ y = (IF v > SlidingWindow THEN v - SlidingWindow ELSE 0)
      BY <1>1, <3>1, <3>2, Zenon
    <3>4. x \in Nat /\ y \in Nat /\ x <= y
      BY ONLY <2>1, <3>3, u \in Nat, v \in Nat
    <3>. QED  BY <3>4
  <2>5. CASE ~params.sliding
    <3>1. Paging!WhereOf(params).from = 0 /\ (Paging!WhereOf(params).from)' = 0
      BY <2>2, <2>3, <2>5, Zenon
    <3>. QED  BY <3>1
  <2>. QED  BY <2>4, <2>5
<1>. PICK f : f = request.where.from
  OBVIOUS
<1>. PICK g : g = data.where.from
  OBVIOUS
<1>. PICK s \in Nat : s = (Paging!WhereOf(params).from)'
  BY <1>2
<1>. PICK t \in Nat : t = Paging!WhereOf(params).from
  BY <1>2
<1>3. request'.where.from = f /\ data'.where.from = g
  BY <1>1 DEF TableStays
<1>4. Since(f)' \subseteq Since(f) /\ Since(g)' \subseteq Since(g) /\ Since(s)' \subseteq Since(s)
  BY <1>1
<1>5. Since(s) \subseteq Since(t)
  BY <1>1, <1>2, LaterIsFewer
<1>6. Since(request.where.from)' = Since(f)' /\ Since(data.where.from)' = Since(g)'
  BY <1>3 DEF Since
<1>7. Since(Paging!WhereOf(params).from)' = Since(s)'
  BY DEF Since
<1>. QED  BY <1>2, <1>4, <1>5, <1>6, <1>7 DEF Windows

LEMMA TableKeeps ==
  ASSUME Paging!PagingAssumption, PagingInv, Paging!Table
  PROVE  PagingInv'
<1>1. WellTyped' /\ TableStays
  BY FewerKeys
<1>2. Windows /\ Paging!WhereOf(params).from <= (Paging!WhereOf(params).from)' /\ (Paging!WhereOf(params).from)' \in Nat
      /\ Paging!WhereOf(params).from \in Nat
  BY WindowsShrink, StartIsNatural DEF PagingInv
<1>. PICK a : a = Since(request.where.from)
  OBVIOUS
<1>. PICK b : b = Since(data.where.from)
  OBVIOUS
<1>. PICK c : c = Since(Paging!WhereOf(params).from)
  OBVIOUS
<1>. PICK a1 : a1 = Since(request.where.from)'
  OBVIOUS
<1>. PICK b1 : b1 = Since(data.where.from)'
  OBVIOUS
<1>. PICK c1 : c1 = Since(Paging!WhereOf(params).from)'
  OBVIOUS
<1>3. a1 \subseteq a /\ b1 \subseteq b /\ c1 \subseteq c
  BY <1>2 DEF Windows
<1>4. /\ params' = params /\ request' = request /\ data' = data /\ left' = left /\ seen' = seen
      /\ list' = list
  BY <1>1 DEF TableStays
<1>6. ReadIsSound'
  <2>1. request.phase # "idle" => IsWhere(request.where)'
    BY <1>2, <1>4 DEF PagingInv, ReadIsSound, IsWhere
  <2>2. request.phase = "page" =>
          IsRead(request.page, request.total, request.where, seen \cup IdsOf(request.page))'
    <3>. PICK shown : shown = seen \cup IdsOf(request.page)
      OBVIOUS
    <3>1. shown = (seen \cup IdsOf(request.page))'
      BY <1>4 DEF IdsOf
    <3>2. request.phase = "page" => IsRead(request.page, request.total, request.where, shown)
      BY DEF PagingInv, ReadIsSound
    <3>3. request.phase = "page" /\ request.page # << >> =>
            /\ Reached(a1, request.page, shown)
            /\ params.cursor # None => Beside(a1, request.page, params.cursor, params.direction)
      <4>1. request.phase = "page" /\ request.page # << >> =>
              /\ Reached(a, request.page, shown)
              /\ params.cursor # None => Beside(a, request.page, params.cursor, params.direction)
        BY <3>2 DEF IsRead
      <4>. QED  BY <1>3, <4>1, FewerIsEnough
    <3>. QED  BY <1>4, <3>1, <3>2, <3>3 DEF IsRead
  <2>. QED  BY <1>4, <2>1, <2>2 DEF PagingInv, ReadIsSound
<1>7. CursorIsSound'
  BY <1>3, <1>4, FewerIsEnough DEF PagingInv, CursorIsSound
<1>8. DataIsSound'
  <2>. SUFFICES ASSUME data # None PROVE DataIsSound'
    BY <1>4 DEF DataIsSound
  <2>1. IsWhere(data.where)'
    BY <1>2, <1>4 DEF PagingInv, DataIsSound, IsWhere
  <2>2. IsRead(data.page, data.total, data.where, seen)'
    <3>1. IsRead(data.page, data.total, data.where, seen)
      BY DEF PagingInv, DataIsSound
    <3>2. data.page # << >> =>
            /\ Reached(b, data.page, seen)
            /\ params.cursor # None => Beside(b, data.page, params.cursor, params.direction)
      BY <3>1 DEF IsRead
    <3>3. data.page # << >> =>
            /\ Reached(b1, data.page, seen)
            /\ params.cursor # None => Beside(b1, data.page, params.cursor, params.direction)
      BY <1>3, <3>2, FewerIsEnough
    <3>. QED  BY <1>4, <3>1, <3>3 DEF IsRead
  <2>3. data.page # << >> => \A k \in b1 :
            /\ data.next = None => ~Paging!Newer(Paging!Last(data.page), k)
            /\ data.previous = None /\ list = "history" => ~Paging!Newer(k, Paging!First(data.page))
    BY <1>3 DEF PagingInv, DataIsSound
  <2>. QED  BY <1>4, <2>1, <2>2, <2>3 DEF PagingInv, DataIsSound
<1>9. ClickIsSound'
  BY <1>4 DEF PagingInv, ClickIsSound
<1>10. LedgerIsForward'
  BY <1>4 DEF PagingInv, LedgerIsForward
<1>. QED  BY <1>1, <1>6, <1>7, <1>8, <1>9, <1>10 DEF PagingInv

-----------------------------------------------------------------------------
(* The console reads *)

\* While the table does not change, its keys do not.
LEMMA KeysStay ==
  ASSUME UNCHANGED <<clock, rows, steady>>
  PROVE  /\ Since(request.where.from)' = Since(request'.where.from)
         /\ Since(data.where.from)' = Since(data'.where.from)
         /\ (Paging!WhereOf(params))' = Paging!WhereOf(params')
         /\ Since(Paging!WhereOf(params).from)' = Since(Paging!WhereOf(params').from)
BY DEF Since, Paging!KeyOf, Paging!WhereOf

LEMMA TypesStay ==
  ASSUME WellTyped, UNCHANGED <<clock, rows, list, steady>>,
         params' \in [status : {params.status}, sliding : {params.sliding},
                      cursor : Paging!Keys \cup {None}, direction : {"next", "previous"}],
         seen' \subseteq Ids
  PROVE  WellTyped'
BY DEF WellTyped, Paging!StatusMatches

LEMMA FetchKeeps ==
  ASSUME Paging!PagingAssumption, PagingInv, Paging!Fetch
  PROVE  PagingInv'
<1>1. /\ request' = [phase |-> "sent", where |-> Paging!WhereOf(params)]
      /\ UNCHANGED <<clock, rows, list, params, data, left, seen, steady>>
  BY DEF Paging!Fetch
<1>2. WellTyped'
  BY <1>1 DEF PagingInv, WellTyped, Paging!StatusMatches
<1>3. Paging!WhereOf(params).from \in Nat /\ Paging!WhereOf(params).status = params.status
  BY StartIsNatural DEF PagingInv
<1>4. Since(data.where.from)' = Since(data.where.from) /\ (Paging!WhereOf(params))' = Paging!WhereOf(params)
      /\ Since(Paging!WhereOf(params).from)' = Since(Paging!WhereOf(params).from)
      /\ Since(request.where.from)' = Since(Paging!WhereOf(params).from)
  BY <1>1, KeysStay
<1>5. request'.phase = "sent" /\ request'.where = Paging!WhereOf(params)
  BY <1>1
<1>6. ReadIsSound'
  BY <1>1, <1>3, <1>4, <1>5 DEF ReadIsSound, IsWhere
<1>7. CursorIsSound'
  BY <1>1, <1>4 DEF PagingInv, CursorIsSound
<1>8. DataIsSound'
  BY <1>1, <1>4 DEF PagingInv, DataIsSound, IsRead, IsWhere
<1>9. ClickIsSound'
  BY <1>1 DEF PagingInv, ClickIsSound
<1>10. LedgerIsForward'
  BY <1>1, <1>5 DEF PagingInv, LedgerIsForward
<1>. QED  BY <1>2, <1>6, <1>7, <1>8, <1>9, <1>10 DEF PagingInv

LEMMA ReadFailsKeeps ==
  ASSUME Paging!PagingAssumption, PagingInv, Paging!ReadFails
  PROVE  PagingInv'
<1>1. request' = Paging!Idle /\ UNCHANGED <<clock, rows, list, params, data, left, seen, steady>>
  BY DEF Paging!ReadFails
<1>2. WellTyped'
  BY <1>1 DEF PagingInv, WellTyped, Paging!StatusMatches
<1>4. Since(data.where.from)' = Since(data.where.from) /\ (Paging!WhereOf(params))' = Paging!WhereOf(params)
      /\ Since(Paging!WhereOf(params).from)' = Since(Paging!WhereOf(params).from)
  BY <1>1, KeysStay
<1>5. request'.phase = "idle"
  BY <1>1 DEF Paging!Idle
<1>6. ReadIsSound' /\ CursorIsSound'
  BY <1>1, <1>4, <1>5 DEF PagingInv, ReadIsSound, CursorIsSound
<1>8. DataIsSound'
  BY <1>1, <1>4 DEF PagingInv, DataIsSound, IsRead, IsWhere
<1>9. ClickIsSound'
  BY <1>1 DEF PagingInv, ClickIsSound
<1>10. LedgerIsForward'
  BY <1>1, <1>5 DEF PagingInv, LedgerIsForward
<1>. QED  BY <1>2, <1>6, <1>8, <1>9, <1>10 DEF PagingInv

\* What is read of the table in one transaction.
LEMMA PageIsRead ==
  ASSUME Paging!PagingAssumption, PagingInv, request.phase # "idle",
         NEW page, IsPage(page, Paging!Matching(request.where), params.cursor, Paging!IsReverse)
  PROVE  /\ page \in Paging!PageLists /\ Len(page) <= Cardinality(Paging!Matching(request.where))
         /\ page # << >> =>
              /\ Reached(Since(request.where.from), page, seen \cup IdsOf(page))
              /\ params.cursor # None =>
                   Beside(Since(request.where.from), page, params.cursor, params.direction)
<1>1. IsWhere(request.where) /\ WellTyped
  BY DEF PagingInv, ReadIsSound
<1>2. Paging!Matching(request.where) \in SUBSET Paging!Keys /\ Since(request.where.from) \in SUBSET Paging!Matching(request.where)
  BY <1>1, MatchingIs
<1>3. params.cursor \in Paging!Keys \cup {None}
  BY <1>1 DEF WellTyped
<1>4. Paging!IsReverse = (params.cursor # None /\ params.direction = "previous")
  BY DEF Paging!IsReverse
<1>5. params.cursor # None => Covered(Since(request.where.from), params.cursor, seen)
  BY DEF PagingInv, CursorIsSound
<1>6. page \in Paging!PageLists /\ Len(page) <= Cardinality(Paging!Matching(request.where))
  BY DEF IsPage
<1>. QED  BY <1>2, <1>3, <1>4, <1>5, <1>6, PageIsCut

LEMMA ReadPageKeeps ==
  ASSUME Paging!PagingAssumption, PagingInv, Paging!ReadPage
  PROVE  PagingInv'
<1>. PICK w : w = request.where
  OBVIOUS
<1>. PICK page : page = Paging!PageOf(Paging!Matching(w), params.cursor, Paging!IsReverse)
  OBVIOUS
<1>1. /\ request' = [phase |-> "page", where |-> w, page |-> page, total |-> Cardinality(Paging!Matching(w))]
      /\ request.phase = "sent"
      /\ UNCHANGED <<clock, rows, list, params, data, left, seen, steady>>
  BY SameSets DEF Paging!ReadPage
<1>2. WellTyped'
  BY <1>1 DEF PagingInv, WellTyped, Paging!StatusMatches
<1>3. IsWhere(w) /\ WellTyped
  BY <1>1 DEF PagingInv, ReadIsSound
<1>4. Since(data.where.from)' = Since(data.where.from) /\ (Paging!WhereOf(params))' = Paging!WhereOf(params)
      /\ Since(Paging!WhereOf(params).from)' = Since(Paging!WhereOf(params).from)
      /\ Since(request.where.from)' = Since(w.from)
  BY <1>1, KeysStay
<1>5. Paging!Matching(w) \in SUBSET Paging!Keys /\ IsFiniteSet(Paging!Matching(w)) /\ Cardinality(Paging!Matching(w)) \in Nat
  BY <1>3, MatchingIs
<1>6. IsPage(page, Paging!Matching(w), params.cursor, Paging!IsReverse)
  BY <1>5, PageOfIsPage DEF Paging!IsReverse
<1>7. /\ page \in Paging!PageLists /\ Len(page) <= Cardinality(Paging!Matching(w))
      /\ page # << >> =>
              /\ Reached(Since(w.from), page, seen \cup IdsOf(page))
              /\ params.cursor # None => Beside(Since(w.from), page, params.cursor, params.direction)
  BY <1>1, <1>6, PageIsRead
<1>8. /\ request'.phase = "page" /\ request'.where = w /\ request'.page = page
      /\ request'.total = Cardinality(Paging!Matching(w))
      /\ (seen \cup IdsOf(request.page))' = seen \cup IdsOf(page)
  BY <1>1 DEF IdsOf
<1>9. IsRead(request.page, request.total, request.where, seen \cup IdsOf(request.page))'
  BY <1>1, <1>4, <1>5, <1>7, <1>8 DEF IsRead
<1>10. ReadIsSound'
  BY <1>1, <1>3, <1>4, <1>8, <1>9 DEF ReadIsSound, IsWhere
<1>11. CursorIsSound'
  BY <1>1, <1>4, <1>8 DEF PagingInv, CursorIsSound
<1>12. DataIsSound'
  BY <1>1, <1>4 DEF PagingInv, DataIsSound, IsRead, IsWhere
<1>13. ClickIsSound'
  BY <1>1 DEF PagingInv, ClickIsSound
<1>14. LedgerIsForward'
  BY <1>1 DEF PagingInv, LedgerIsForward, Paging!ReadPage
<1>. QED  BY <1>2, <1>10, <1>11, <1>12, <1>13, <1>14 DEF PagingInv

LEMMA ShowKeeps ==
  ASSUME Paging!PagingAssumption, PagingInv, request.phase # "idle",
         NEW page, NEW total, NEW previous, NEW following,
         Paging!Show(request.where, page, previous, following, total),
         IsRead(page, total, request.where, seen \cup IdsOf(page)),
         previous # None => page # << >> /\ previous = Paging!First(page),
         following # None => page # << >> /\ following = Paging!Last(page),
         list = "ledger" => previous = None,
         page # << >> =>
           \A k \in Since(request.where.from) :
             /\ following = None => ~Paging!Newer(Paging!Last(page), k)
             /\ previous = None /\ list = "history" => ~Paging!Newer(k, Paging!First(page))
  PROVE  PagingInv'
<1>. PICK w : w = request.where
  OBVIOUS
<1>1. /\ data' = [where |-> w, page |-> page, previous |-> previous, next |-> following, total |-> total]
      /\ seen' = seen \cup IdsOf(page) /\ request' = Paging!Idle
      /\ UNCHANGED <<clock, rows, list, params, left, steady>>
  BY Zenon DEF Paging!Show, IdsOf
<1>2. page \in Paging!PageLists
  BY DEF IsRead
<1>3. IdsOf(page) \subseteq Ids
  <2>1. \A i \in DOMAIN page : page[i] \in Paging!Keys
    BY <1>2, PageEnds
  <2>. QED  BY <2>1 DEF IdsOf, Paging!Keys
<1>4. WellTyped'
  BY <1>1, <1>3 DEF PagingInv, WellTyped, Paging!StatusMatches
<1>5. IsWhere(w)
  BY DEF PagingInv, ReadIsSound
<1>6. /\ data'.where = w /\ data'.page = page /\ data'.previous = previous /\ data'.next = following
      /\ data'.total = total /\ request'.phase = "idle"
  BY <1>1 DEF Paging!Idle
<1>7. (Paging!WhereOf(params))' = Paging!WhereOf(params) /\ Since(data.where.from)' = Since(w.from)
      /\ Since(Paging!WhereOf(params).from)' = Since(Paging!WhereOf(params).from)
  BY <1>1, <1>6, KeysStay
<1>8. ReadIsSound'
  BY <1>6 DEF ReadIsSound
<1>9. CursorIsSound'
  <2>1. \A keys, cursor : Covered(keys, cursor, seen) => Covered(keys, cursor, seen')
    BY <1>1 DEF Covered
  <2>. QED  BY <1>1, <1>6, <1>7, <2>1 DEF PagingInv, CursorIsSound
<1>10. DataIsSound'
  <2>1. IsWhere(data.where)'
    BY <1>1, <1>5, <1>6, <1>7 DEF IsWhere
  <2>2. IsRead(data.page, data.total, data.where, seen)'
    BY <1>1, <1>6, <1>7 DEF IsRead
  <2>. QED  BY <1>1, <1>6, <1>7, <2>1, <2>2 DEF DataIsSound
<1>11. ClickIsSound'
  BY <1>1 DEF PagingInv, ClickIsSound
<1>12. LedgerIsForward'
  BY <1>1, <1>6 DEF PagingInv, LedgerIsForward
<1>. QED  BY <1>4, <1>8, <1>9, <1>10, <1>11, <1>12 DEF PagingInv

LEMMA ReadCursorsKeeps ==
  ASSUME Paging!PagingAssumption, PagingInv, Paging!ReadCursors
  PROVE  PagingInv'
<1>. PICK page : page = request.page
  OBVIOUS
<1>. PICK keys : keys = Paging!Matching(request.where)
  OBVIOUS
<1>. PICK c : c = Paging!HistoryCursors(keys, page)
  OBVIOUS
<1>1. request.phase = "page" /\ Paging!Show(request.where, page, c.previous, c.next, request.total)
  BY Zenon DEF Paging!ReadCursors
<1>2. IsWhere(request.where) /\ WellTyped
      /\ IsRead(page, request.total, request.where, seen \cup IdsOf(page)) /\ list # "ledger"
  BY <1>1 DEF PagingInv, ReadIsSound, LedgerIsForward
<1>3. keys \in SUBSET Paging!Keys /\ Since(request.where.from) \subseteq keys
  BY <1>2, MatchingIs
<1>4. page \in Paging!PageLists
  BY <1>2 DEF IsRead
<1>5. page # << >> => Paging!First(page) # None /\ Paging!Last(page) # None
  BY <1>4, PageEnds
<1>6. CASE page = << >>
  <2>1. c.previous = None /\ c.next = None
    BY <1>6 DEF Paging!HistoryCursors
  <2>. QED  BY <1>1, <1>2, <1>6, <2>1, ShowKeeps
<1>7. CASE page # << >>
  <2>1. /\ c.previous = IF \E k \in keys : Paging!Newer(k, Paging!First(page)) THEN Paging!First(page) ELSE None
        /\ c.next = IF \E k \in keys : Paging!Newer(Paging!Last(page), k) THEN Paging!Last(page) ELSE None
    BY <1>7 DEF Paging!HistoryCursors
  <2>2. /\ c.previous # None => c.previous = Paging!First(page)
        /\ c.next # None => c.next = Paging!Last(page)
        /\ \A k \in Since(request.where.from) :
             /\ c.next = None => ~Paging!Newer(Paging!Last(page), k)
             /\ c.previous = None => ~Paging!Newer(k, Paging!First(page))
    BY <1>3, <1>5, <1>7, <2>1
  <2>. QED  BY <1>1, <1>2, <1>7, <2>2, ShowKeeps
<1>. QED  BY <1>6, <1>7

LEMMA ReadLedgerPageKeeps ==
  ASSUME Paging!PagingAssumption, PagingInv, Paging!ReadLedgerPage
  PROVE  PagingInv'
<1>. PICK w : w = request.where
  OBVIOUS
<1>. PICK keys : keys = Paging!Matching(w)
  OBVIOUS
<1>. PICK ahead : ahead = Paging!FirstOf(Paging!Sorted(Paging!HistoryBoundary(keys, params.cursor, FALSE)), Limit + 1)
  OBVIOUS
<1>. PICK page : page = Paging!FirstOf(ahead, Limit)
  OBVIOUS
<1>. PICK following : following = IF Len(ahead) > Limit THEN Paging!Last(page) ELSE None
  OBVIOUS
<1>1. request.phase = "sent" /\ list = "ledger" /\ Paging!Show(w, page, None, following, Len(page))
  BY Zenon DEF Paging!ReadLedgerPage
<1>2. IsWhere(w) /\ WellTyped
  BY <1>1 DEF PagingInv, ReadIsSound
<1>3. keys \in SUBSET Paging!Keys /\ IsFiniteSet(keys) /\ Since(w.from) \subseteq keys
  BY <1>2, MatchingIs
<1>4. /\ IsPage(page, keys, params.cursor, FALSE)
      /\ ~(Len(ahead) > Limit) =>
              \A k \in Paging!HistoryBoundary(keys, params.cursor, FALSE) : k \in Paging!Range(page)
      /\ Len(ahead) > Limit => page # << >>
  BY <1>3, LedgerPageIsPage
<1>5. params.direction = "next" /\ Paging!IsReverse = FALSE
  BY <1>1 DEF PagingInv, LedgerIsForward, Paging!IsReverse
<1>6. IsRead(page, Len(page), w, seen \cup IdsOf(page)) /\ page \in Paging!PageLists
  <2>1. /\ page \in Paging!PageLists
        /\ page # << >> =>
              /\ Reached(Since(w.from), page, seen \cup IdsOf(page))
              /\ params.cursor # None => Beside(Since(w.from), page, params.cursor, params.direction)
    BY <1>1, <1>4, <1>5, PageIsRead
  <2>2. Len(page) \in Nat /\ Len(page) <= Len(page)
    <3>1. Limit \in Nat /\ Len(page) \in 0..Limit
      BY <2>1, PageEnds, Zenon DEF Paging!PagingAssumption
    <3>. QED  BY ONLY <3>1
  <2>. QED  BY <2>1, <2>2 DEF IsRead
<1>7. following # None => page # << >> /\ following = Paging!Last(page)
  BY <1>4
<1>8. ASSUME page # << >>, following = None, NEW k \in Since(w.from), Paging!Newer(Paging!Last(page), k)
      PROVE  FALSE
  <2>. PICK l : l = Paging!Last(page)
    OBVIOUS
  <2>1. /\ DOMAIN page = 1..Len(page) /\ Len(page) \in Nat /\ Len(page) >= 1 /\ l = page[Len(page)]
        /\ l \in Paging!Keys /\ l # None
        /\ \A i, j \in 1..Len(page) : i < j => Paging!Newer(page[i], page[j])
        /\ \A i \in 1..Len(page) : page[i] \in Paging!Keys
    <3>1. Limit \in Nat
      BY DEF Paging!PagingAssumption
    <3>2. /\ Len(page) \in 0..Limit /\ page \in [1..Len(page) -> Paging!Keys] /\ DOMAIN page = 1..Len(page)
          /\ \A i, j \in 1..Len(page) : i < j => Paging!Newer(page[i], page[j])
          /\ Len(page) >= 1 /\ l = page[Len(page)] /\ l \in Paging!Keys /\ l # None
      BY <1>6, <1>8, PageEnds
    <3>. QED  BY ONLY <3>1, <3>2
  <2>2. ~(Len(ahead) > Limit)
    BY <1>8, <2>1
  <2>3. l \in Paging!HistoryBoundary(keys, params.cursor, FALSE)
    <3>1. Len(page) \in DOMAIN page
      BY ONLY <2>1
    <3>. QED  BY <1>4, <2>1, <3>1, Zenon DEF IsPage
  <2>4. k \in keys /\ k \in Paging!Keys /\ params.cursor \in Paging!Keys \cup {None}
    BY <1>2, <1>3 DEF WellTyped
  <2>5. params.cursor # None => Paging!Newer(params.cursor, k)
    BY <1>8, <2>1, <2>3, <2>4, NewerIsAnOrder DEF Paging!HistoryBoundary
  <2>6. k \in Paging!HistoryBoundary(keys, params.cursor, FALSE)
    BY <2>4, <2>5 DEF Paging!HistoryBoundary
  <2>7. PICK i \in 1..Len(page) : page[i] = k
    <3>1. k \in Paging!Range(page)
      BY <1>4, <2>2, <2>6, Zenon
    <3>. QED  BY <2>1, <3>1, Zenon DEF Paging!Range
  <2>8. k = l \/ Paging!Newer(k, l)
    BY ONLY <2>1, <2>7, i \in 1..Len(page)
  <2>9. Paging!Newer(l, k) /\ l \in Paging!Keys
    BY <1>8, <2>1
  <2>. QED  BY ONLY Paging!PagingAssumption, <2>4, <2>8, <2>9, NewerIsAnOrder
<1>. QED  BY <1>1, <1>6, <1>7, <1>8, ShowKeeps

LEMMA GoKeeps ==
  ASSUME Paging!PagingAssumption, PagingInv, NEW cursor, NEW direction \in {"next", "previous"},
         Paging!Go(cursor, direction), data # None,
         direction = "next" => cursor = data.next,
         direction = "previous" => cursor = data.previous
  PROVE  PagingInv'
<1>. PICK page : page = data.page
  OBVIOUS
<1>1. /\ params' = [params EXCEPT !.cursor = cursor, !.direction = direction]
      /\ left' = [page |-> page, direction |-> direction] /\ data' = None
      /\ request' = [phase |-> "sent", where |-> Paging!WhereOf(params)] /\ cursor # None
      /\ UNCHANGED <<clock, rows, list, seen, steady>>
  BY DEF Paging!Go
<1>2. /\ page \in Paging!PageLists /\ page # << >> /\ Reached(Since(data.where.from), page, seen)
      /\ data.where.from \in Nat /\ data.where.from <= Paging!WhereOf(params).from
      /\ cursor = IF direction = "next" THEN Paging!Last(page) ELSE Paging!First(page)
  BY <1>1 DEF PagingInv, DataIsSound, IsRead, IsWhere
<1>3. cursor \in Paging!Keys /\ Paging!Last(page) \in Paging!Keys /\ (cursor = Paging!Last(page) \/ Paging!Newer(cursor, Paging!Last(page)))
  BY <1>2, PageEnds
<1>4. /\ params'.cursor = cursor /\ params'.direction = direction /\ params'.status = params.status
      /\ params'.sliding = params.sliding
      /\ params' \in [status : {params.status}, sliding : {params.sliding},
                      cursor : Paging!Keys \cup {None}, direction : {"next", "previous"}]
  BY <1>1, <1>3 DEF PagingInv, WellTyped
<1>5. WellTyped'
  <2>1. seen' \subseteq Ids
    BY <1>1 DEF PagingInv, WellTyped
  <2>. QED  BY <1>1, <1>4, <2>1, TypesStay DEF PagingInv
<1>6. Paging!WhereOf(params') = Paging!WhereOf(params)
  BY <1>4 DEF Paging!WhereOf
<1>7. /\ (Paging!WhereOf(params))' = Paging!WhereOf(params)
      /\ Since(request.where.from)' = Since(Paging!WhereOf(params).from)
      /\ Since(Paging!WhereOf(params).from)' = Since(Paging!WhereOf(params).from)
  BY <1>1, <1>6, KeysStay
<1>8. Paging!WhereOf(params).from \in Nat /\ Paging!WhereOf(params).status = params.status
  BY StartIsNatural DEF PagingInv
<1>9. Covered(Since(Paging!WhereOf(params).from), cursor, seen)
  <2>1. Since(Paging!WhereOf(params).from) \subseteq Since(data.where.from)
    BY <1>2, <1>8, LaterIsFewer DEF PagingInv
  <2>2. Since(Paging!WhereOf(params).from) \subseteq Paging!Keys
    <3>1. IsWhere(Paging!WhereOf(params))
      BY <1>8 DEF IsWhere
    <3>. QED  BY <3>1, MatchingIs DEF PagingInv
  <2>. QED  BY <1>2, <1>3, <2>1, <2>2, NewerIsAnOrder DEF Reached, Covered
<1>10. request'.phase = "sent" /\ request'.where = Paging!WhereOf(params)
  BY <1>1
<1>11. ReadIsSound'
  BY <1>4, <1>7, <1>8, <1>10 DEF ReadIsSound, IsWhere
<1>12. CursorIsSound'
  BY <1>1, <1>4, <1>7, <1>9 DEF CursorIsSound
<1>13. DataIsSound' /\ LedgerIsForward'
  BY <1>1, <1>4, <1>10 DEF PagingInv, DataIsSound, LedgerIsForward
<1>14. ClickIsSound'
  BY <1>1, <1>2, <1>4 DEF ClickIsSound
<1>. QED  BY <1>5, <1>11, <1>12, <1>13, <1>14 DEF PagingInv

LEMMA ChooseFilterKeeps ==
  ASSUME Paging!PagingAssumption, PagingInv, NEW status \in Statuses \cup {AllStatuses}, Paging!ChooseFilter(status)
  PROVE  PagingInv'
<1>1. /\ params' = [params EXCEPT !.status = status, !.cursor = None, !.direction = "next"]
      /\ left' = None /\ data' = None /\ seen' = {}
      /\ steady' = {id \in Ids : Paging!StatusMatches(status, id)}
      /\ request' = [phase |-> "sent", where |-> Paging!WhereOf(params')]
      /\ UNCHANGED <<clock, rows, list>>
  BY DEF Paging!ChooseFilter, Paging!Filtered
<1>2. /\ params'.cursor = None /\ params'.direction = "next" /\ params'.status = status
      /\ params' \in [status : Statuses \cup {AllStatuses}, sliding : BOOLEAN,
                      cursor : Paging!Keys \cup {None}, direction : {"next", "previous"}]
  BY <1>1 DEF PagingInv, WellTyped
<1>3. WellTyped'
  BY <1>1, <1>2 DEF PagingInv, WellTyped, Paging!StatusMatches
<1>4. (Paging!WhereOf(params))' = Paging!WhereOf(params')
  BY <1>1 DEF Paging!WhereOf
<1>5. (Paging!WhereOf(params).from)' \in Nat /\ (Paging!WhereOf(params).status)' = params'.status
  <2>1. clock \in Nat /\ SlidingWindow \in Nat
    BY DEF PagingInv, WellTyped, Paging!PagingAssumption, Paging!Times
  <2>. QED  BY <1>1, <2>1 DEF Paging!WhereOf
<1>6. request'.phase = "sent" /\ request'.where = Paging!WhereOf(params')
  BY <1>1
<1>7. ReadIsSound'
  BY <1>4, <1>5, <1>6 DEF ReadIsSound, IsWhere
<1>8. CursorIsSound' /\ DataIsSound' /\ ClickIsSound' /\ LedgerIsForward'
  BY <1>1, <1>2, <1>6 DEF CursorIsSound, DataIsSound, ClickIsSound, LedgerIsForward
<1>. QED  BY <1>3, <1>7, <1>8 DEF PagingInv

LEMMA PagingStep ==
  ASSUME Paging!PagingAssumption, PagingInv, [Paging!Next]_Paging!vars
  PROVE  PagingInv'
<1>1. CASE Paging!Table
  BY <1>1, TableKeeps
<1>2. CASE Paging!GoNext \/ Paging!GoPrevious
  BY <1>2, GoKeeps DEF Paging!GoNext, Paging!GoPrevious
<1>3. CASE UNCHANGED Paging!vars
  <2>1. UNCHANGED <<clock, rows, list, params, request, data, left, seen, steady>>
    BY <1>3 DEF Paging!vars
  <2>2. WellTyped'
    BY <2>1 DEF PagingInv, WellTyped, Paging!StatusMatches
  <2>3. /\ (Paging!WhereOf(params))' = Paging!WhereOf(params) /\ Since(data.where.from)' = Since(data.where.from)
        /\ Since(Paging!WhereOf(params).from)' = Since(Paging!WhereOf(params).from)
        /\ Since(request.where.from)' = Since(request.where.from)
        /\ IdsOf(request.page)' = IdsOf(request.page)
    BY <2>1, KeysStay DEF IdsOf
  <2>4. ReadIsSound'
    BY <2>1, <2>3 DEF PagingInv, ReadIsSound, IsWhere, IsRead
  <2>5. CursorIsSound'
    BY <2>1, <2>3 DEF PagingInv, CursorIsSound
  <2>6. DataIsSound'
    BY <2>1, <2>3 DEF PagingInv, DataIsSound, IsWhere, IsRead
  <2>7. ClickIsSound' /\ LedgerIsForward'
    BY <2>1 DEF PagingInv, ClickIsSound, LedgerIsForward
  <2>. QED  BY <2>2, <2>4, <2>5, <2>6, <2>7 DEF PagingInv
<1>. QED
  BY <1>1, <1>2, <1>3, FetchKeeps, ReadPageKeeps, ReadCursorsKeeps, ReadLedgerPageKeeps, ReadFailsKeeps,
     ChooseFilterKeeps DEF Paging!Next, Paging!Console

\* What the invariant says of the page that is shown.
LEMMA WalkIsSound ==
  ASSUME Paging!PagingAssumption, PagingInv
  PROVE  Paging!TypeOK /\ Paging!NothingSkipped /\ Paging!PagesAreAdjacent /\ Paging!EndIsTheEnd /\ Paging!TotalCoversPage
<1>1. Paging!SteadyKeys = Since(data.where.from)
  BY Zenon DEF Paging!SteadyKeys, Since
<1>2. data # None => data.page \in Paging!PageLists /\ (data.page # << >> =>
                       Paging!First(data.page) \in Paging!Keys /\ Paging!Last(data.page) \in Paging!Keys)
  BY PageEnds DEF PagingInv, DataIsSound, IsRead
<1>3. Paging!TypeOK
  BY <1>2 DEF PagingInv, WellTyped, ReadIsSound, DataIsSound, IsRead, Paging!TypeOK
<1>4. Paging!NothingSkipped
  BY <1>1 DEF PagingInv, DataIsSound, IsRead, Reached, Paging!NothingSkipped
<1>5. Paging!PagesAreAdjacent
  BY <1>1 DEF PagingInv, WellTyped, DataIsSound, ClickIsSound, IsRead, Beside,
              Paging!PagesAreAdjacent
<1>6. Paging!EndIsTheEnd /\ Paging!TotalCoversPage
  BY <1>1 DEF PagingInv, DataIsSound, IsRead, Paging!EndIsTheEnd, Paging!TotalCoversPage
<1>. QED  BY <1>3, <1>4, <1>5, <1>6

\* A walk through a table that changes meanwhile misses no row that is there all the
\* while, its pages lie side by side, and it ends where the list does.
THEOREM WalksAreSound ==
  ASSUME Paging!PagingAssumption
  PROVE  Paging!Spec => [](Paging!TypeOK /\ Paging!NothingSkipped /\ Paging!PagesAreAdjacent
                         /\ Paging!EndIsTheEnd /\ Paging!TotalCoversPage)
<1>1. Paging!Init => PagingInv
  BY InitIsSound
<1>2. PagingInv /\ [Paging!Next]_Paging!vars => PagingInv'
  BY PagingStep
<1>3. PagingInv => Paging!TypeOK /\ Paging!NothingSkipped /\ Paging!PagesAreAdjacent /\ Paging!EndIsTheEnd /\ Paging!TotalCoversPage
  BY WalkIsSound
<1>. QED  BY <1>1, <1>2, <1>3, PTL DEF Paging!Spec

-----------------------------------------------------------------------------
(* A Tick *)

USE RowsHaveTimeouts, BudgetsAreNumbers, NoneIsNone

-----------------------------------------------------------------------------
(* The inductive invariant *)

BeforePool == {"idle", "begin"} \cup {Parts[i] : i \in DOMAIN Parts}

TickRecord ==
  [phase: Phases, left: 0..SoftWall, paused: BOOLEAN, threw: BOOLEAN, errors: Nat,
   ready: Seq(Rows), cursor: Nat \ {0},
   worker: [Workers -> [at: WorkerStates, row: Rows \cup {NoRow}]]]

Typed ==
  /\ paused \in BOOLEAN /\ heartbeat \in Heartbeat
  /\ row \in [Rows -> {"ready", "claimed", "final"}]
  /\ tick \in [Ticks -> TickRecord]

\* Between the end of its list and the pool, a Tick has an empty cursor; its list has
\* each row once, and a worker holds a row that the cursor has passed.
ListIsSound(k) ==
  /\ Len(k.ready) =< RpcBudget /\ k.cursor =< Len(k.ready) + 1
  /\ \A i, j \in 1..Len(k.ready) : k.ready[i] = k.ready[j] => i = j
  /\ k.phase \in BeforePool => k.ready = <<>> /\ k.cursor = 1 /\ k.worker = NoWorkers
HeldIsTaken(k) ==
  \A w \in Workers : k.worker[w].row # NoRow =>
    \E i \in 1..(k.cursor - 1) : k.worker[w].row = k.ready[i]
HeldOnce(k) ==
  \A v, w \in Workers : v # w /\ k.worker[v].row # NoRow => k.worker[v].row # k.worker[w].row

\* Nothing has failed yet, or it is counted: a paused Tick meets no errors but those it throws.
ErrorsAreCounted(k) ==
  /\ k.phase \in {"idle", "begin", "recover"} => k.errors = 0 /\ ~k.threw
  /\ k.paused /\ ~k.threw =>
       k.errors = 0 /\ k.phase \notin {"deliver", "materialize", "list", "pool"}

\* A worker is in the middle of an await only in the pool.
WorkersAreInThePool(k) ==
  k.phase # "pool" => \A w \in Workers : k.worker[w].at \in {"none", "returned", "rejected"}

TickSound(k) ==
  ListIsSound(k) /\ HeldIsTaken(k) /\ HeldOnce(k) /\ ErrorsAreCounted(k) /\ WorkersAreInThePool(k)

\* Who is named as successful is over, and stays so.
SuccessIsOver ==
  heartbeat.successful # NoTick =>
    tick[heartbeat.successful].phase = "ended" /\ tick[heartbeat.successful].errors = 0

TickInv == Typed /\ (\A t \in Ticks : TickSound(tick[t])) /\ HeartbeatIsOfOneTick /\ SuccessIsOver

-----------------------------------------------------------------------------
(* The parts and their order *)

LEMMA PartsAre ==
  /\ DOMAIN Parts = 1..4
  /\ Parts[1] = "recover" /\ Parts[2] = "deliver" /\ Parts[3] = "materialize" /\ Parts[4] = "list"
  /\ {Parts[i] : i \in DOMAIN Parts} = {"recover", "deliver", "materialize", "list"}
BY DEF Parts

LEMMA PartIndex ==
  ASSUME NEW i \in 1..4 PROVE (CHOOSE j \in DOMAIN Parts : Parts[j] = Parts[i]) = i
BY PartsAre

\* The parts follow each other, and a paused Tick leaves after the first.
LEMMA NextPart ==
  ASSUME NEW t \in Ticks, tick[t].phase \in {"recover", "deliver", "materialize"}
  PROVE  /\ tick[t].phase = "recover" /\ tick[t].paused => PartAfter(t) = "cleanup"
         /\ tick[t].phase = "recover" /\ ~tick[t].paused => PartAfter(t) = "deliver"
         /\ tick[t].phase = "deliver" => PartAfter(t) = "materialize"
         /\ tick[t].phase = "materialize" => PartAfter(t) = "list"
<1>1. CASE tick[t].phase = "recover"
  <2>1. (CHOOSE j \in DOMAIN Parts : Parts[j] = tick[t].phase) = 1
    BY <1>1, PartsAre, PartIndex
  <2>. QED  BY <1>1, <2>1, PartsAre DEF PartAfter
<1>2. CASE tick[t].phase = "deliver"
  <2>1. (CHOOSE j \in DOMAIN Parts : Parts[j] = tick[t].phase) = 2
    BY <1>2, PartsAre, PartIndex
  <2>. QED  BY <1>2, <2>1, PartsAre DEF PartAfter
<1>3. CASE tick[t].phase = "materialize"
  <2>1. (CHOOSE j \in DOMAIN Parts : Parts[j] = tick[t].phase) = 3
    BY <1>3, PartsAre, PartIndex
  <2>. QED  BY <1>3, <2>1, PartsAre DEF PartAfter
<1>. QED  BY <1>1, <1>2, <1>3

-----------------------------------------------------------------------------
(* One Tick *)

\* A Tick takes a new value, and no other does.
Becomes(t, k) ==
  /\ k \in TickRecord
  /\ tick' \in [Ticks -> TickRecord] /\ tick'[t] = k
  /\ \A u \in Ticks : u # t => tick'[u] = tick[u]

LEMMA BecomesByExcept ==
  ASSUME Typed, NEW t \in Ticks, NEW k \in TickRecord, tick' = [tick EXCEPT ![t] = k]
  PROVE  Becomes(t, k)
BY DEF Typed, Becomes

LEMMA FieldsTyped ==
  ASSUME NEW k \in TickRecord
  PROVE  /\ k.phase \in Phases /\ k.left \in 0..SoftWall /\ k.paused \in BOOLEAN
         /\ k.threw \in BOOLEAN /\ k.errors \in Nat /\ k.ready \in Seq(Rows)
         /\ k.cursor \in Nat \ {0}
         /\ k.worker \in [Workers -> [at: WorkerStates, row: Rows \cup {NoRow}]]
BY DEF TickRecord

LEMMA NoWorkersTyped ==
  /\ NoWorkers \in [Workers -> [at: WorkerStates, row: Rows \cup {NoRow}]]
  /\ \A w \in Workers : NoWorkers[w].at = "none" /\ NoWorkers[w].row = NoRow
BY DEF NoWorkers, WorkerStates

\* A step that leaves list, cursor and workers alone.
LEMMA PoolStays ==
  ASSUME NEW k \in TickRecord, NEW n \in TickRecord, TickSound(k),
         n.ready = k.ready, n.cursor = k.cursor, n.worker = k.worker,
         n.phase \in BeforePool => k.phase \in BeforePool,
         n.phase = "pool" \/ k.phase # "pool", ErrorsAreCounted(n)
  PROVE  TickSound(n)
<1>1. ListIsSound(n)
  BY Zenon DEF TickSound, ListIsSound
<1>2. HeldIsTaken(n)
  BY Zenon DEF TickSound, HeldIsTaken
<1>3. HeldOnce(n)
  BY Zenon DEF TickSound, HeldOnce
<1>4. WorkersAreInThePool(n)
  BY Zenon DEF TickSound, WorkersAreInThePool
<1>. QED  BY <1>1, <1>2, <1>3, <1>4 DEF TickSound

\* What the main thread of a Tick writes.
MainStays(n, k) ==
  /\ n.left = k.left /\ n.ready = k.ready /\ n.cursor = k.cursor /\ n.worker = k.worker

OneSound(t) == \E n : Becomes(t, n) /\ TickSound(n)

LEMMA StartSound ==
  ASSUME TickInv, NEW t \in Ticks, Start(t) PROVE OneSound(t)
<1>. DEFINE n == [tick[t] EXCEPT !.phase = "begin"]
<1>1. tick[t] \in TickRecord /\ TickSound(tick[t]) /\ tick[t].phase = "idle"
  BY DEF TickInv, Typed, Start
<1>2. n \in TickRecord /\ MainStays(n, tick[t])
  BY <1>1 DEF TickRecord, Phases, MainStays
<1>3. Becomes(t, n)
  BY <1>2, BecomesByExcept DEF TickInv, Start, Goto
<1>4. ErrorsAreCounted(n)
  BY <1>1 DEF TickSound, ErrorsAreCounted, TickRecord
<1>5. TickSound(n)
  <2>1. n.phase = "begin" /\ tick[t].phase \in BeforePool
    BY <1>1 DEF TickRecord, BeforePool
  <2>. QED  BY <1>1, <1>2, <1>4, <2>1, PoolStays DEF MainStays
<1>. QED  BY <1>3, <1>5 DEF OneSound

LEMMA BeginSound ==
  ASSUME TickInv, NEW t \in Ticks, Begin(t) PROVE OneSound(t)
<1>. DEFINE n == [tick[t] EXCEPT !.phase = "recover", !.paused = paused]
<1>1. tick[t] \in TickRecord /\ TickSound(tick[t]) /\ tick[t].phase = "begin" /\ paused \in BOOLEAN
  BY DEF TickInv, Typed, Begin
<1>2. n \in TickRecord /\ MainStays(n, tick[t])
  BY <1>1, PartsAre DEF TickRecord, Phases, MainStays
<1>3. Becomes(t, n)
  BY <1>2, BecomesByExcept, PartsAre DEF TickInv, Begin
<1>4. ErrorsAreCounted(n)
  BY <1>1 DEF TickSound, ErrorsAreCounted, TickRecord
<1>5. TickSound(n)
  <2>1. n.phase = "recover" /\ tick[t].phase \in BeforePool
    BY <1>1 DEF TickRecord, BeforePool
  <2>. QED  BY <1>1, <1>2, <1>4, <2>1, PoolStays DEF MainStays
<1>. QED  BY <1>3, <1>5 DEF OneSound

LEMMA PartReturnsSound ==
  ASSUME TickInv, NEW t \in Ticks, PartReturns(t) PROVE OneSound(t)
<1>1. PICK errors \in IF tick[t].phase = "deliver" THEN {0, 1} ELSE {0} :
        tick' = [tick EXCEPT ![t].phase = PartAfter(t), ![t].errors = @ + errors]
  BY DEF PartReturns
<1>. DEFINE n == [tick[t] EXCEPT !.phase = PartAfter(t), !.errors = @ + errors]
<1>2. tick[t] \in TickRecord /\ TickSound(tick[t])
      /\ tick[t].phase \in {"recover", "deliver", "materialize"}
  BY PartsAre DEF TickInv, Typed, PartReturns
<1>3. errors \in {0, 1} /\ (errors = 1 => tick[t].phase = "deliver")
  OBVIOUS
<1>4. n \in TickRecord /\ MainStays(n, tick[t])
  <2>1. PartAfter(t) \in Phases
    BY <1>2, NextPart, PartsAre DEF Phases, TickRecord
  <2>2. tick[t].errors + errors \in Nat
    BY <1>2, <1>3, FieldsTyped
  <2>. QED  BY <1>2, <2>1, <2>2 DEF TickRecord, MainStays
<1>5. Becomes(t, n)
  BY <1>1, <1>4, BecomesByExcept DEF TickInv
<1>6. ErrorsAreCounted(n)
  BY <1>2, <1>3, NextPart DEF TickSound, ErrorsAreCounted, TickRecord
<1>7. n.phase # "pool" /\ tick[t].phase # "pool" /\ tick[t].phase \in BeforePool
  BY <1>2, NextPart, PartsAre DEF TickRecord, BeforePool
<1>8. TickSound(n)
  BY <1>2, <1>4, <1>6, <1>7, PoolStays DEF MainStays
<1>. QED  BY <1>5, <1>8 DEF OneSound

LEMMA PartThrowsSound ==
  ASSUME TickInv, NEW t \in Ticks, PartThrows(t) PROVE OneSound(t)
<1>. DEFINE n == [tick[t] EXCEPT !.phase = "finish", !.threw = TRUE, !.errors = @ + 1]
<1>1. tick[t] \in TickRecord /\ TickSound(tick[t]) /\ tick[t].phase # "pool"
  BY PartsAre DEF TickInv, Typed, PartThrows
<1>2. n \in TickRecord /\ MainStays(n, tick[t]) /\ n.phase = "finish" /\ n.threw
  <2>1. tick[t].errors + 1 \in Nat
    BY <1>1, FieldsTyped
  <2>. QED  BY <1>1, <2>1 DEF TickRecord, Phases, MainStays
<1>3. Becomes(t, n)
  <2>1. Throw(t)
    BY DEF PartThrows
  <2>2. tick' = [tick EXCEPT ![t] = n]
    BY <2>1 DEF Throw
  <2>. QED  BY <1>2, <2>2, BecomesByExcept DEF TickInv
<1>4. ErrorsAreCounted(n)
  BY <1>2 DEF ErrorsAreCounted
<1>5. TickSound(n)
  BY <1>1, <1>2, <1>4, PartsAre, PoolStays DEF MainStays, BeforePool
<1>. QED  BY <1>3, <1>5 DEF OneSound

LEMMA CleanupSound ==
  ASSUME TickInv, NEW t \in Ticks, Cleanup(t) PROVE OneSound(t)
<1>. DEFINE n == [tick[t] EXCEPT !.phase = "finish"]
<1>1. tick[t] \in TickRecord /\ TickSound(tick[t]) /\ tick[t].phase = "cleanup"
  BY DEF TickInv, Typed, Cleanup
<1>2. n \in TickRecord /\ MainStays(n, tick[t]) /\ n.phase = "finish"
  BY <1>1 DEF TickRecord, Phases, MainStays
<1>3. Becomes(t, n)
  BY <1>2, BecomesByExcept DEF TickInv, Cleanup, Goto
<1>4. ErrorsAreCounted(n)
  BY <1>1 DEF TickSound, ErrorsAreCounted, TickRecord
<1>5. TickSound(n)
  BY <1>1, <1>2, <1>4, PartsAre, PoolStays DEF MainStays, BeforePool
<1>. QED  BY <1>3, <1>5 DEF OneSound

\* An invocation that is over has nothing left but its verdict.
LEMMA GoneSound ==
  ASSUME TickInv, NEW t \in Ticks, NEW phase \in {"ended", "dead"}, tick' = [tick EXCEPT ![t] = Gone(t, phase)],
         tick[t].phase # "idle"
  PROVE  Becomes(t, Gone(t, phase)) /\ TickSound(Gone(t, phase))
<1>. DEFINE k == tick[t]
            n == Gone(t, phase)
<1>1. k \in TickRecord /\ TickSound(k)
  BY DEF TickInv, Typed
<1>2. /\ n.phase = phase /\ n.threw = k.threw /\ n.paused = k.paused /\ n.errors = k.errors
      /\ n.ready = <<>> /\ n.cursor = 1 /\ n.worker = NoWorkers
  BY DEF Gone, NewTick
<1>3. n \in TickRecord
  <2>1. NewTick \in TickRecord
    BY NoWorkersTyped DEF NewTick, TickRecord, Phases
  <2>. QED  BY <1>1, <2>1, FieldsTyped DEF Gone, TickRecord, Phases
<1>4. Becomes(t, n)
  BY <1>3, BecomesByExcept DEF TickInv
<1>5. ListIsSound(n)
  BY <1>2 DEF ListIsSound
<1>6. HeldIsTaken(n) /\ HeldOnce(n) /\ WorkersAreInThePool(n)
  BY <1>2, NoWorkersTyped DEF HeldIsTaken, HeldOnce, WorkersAreInThePool
<1>7. ErrorsAreCounted(n)
  BY <1>1, <1>2 DEF ErrorsAreCounted, TickSound
<1>. QED  BY <1>4, <1>5, <1>6, <1>7 DEF TickSound

-----------------------------------------------------------------------------
(* The pool *)

LEMMA AtMostTyped ==
  ASSUME NEW S \in SUBSET Rows
  PROVE  AtMost(S) \in Nat /\ AtMost(S) =< RpcBudget
<1>1. IsFiniteSet(S)
  BY FS_Subset
<1>2. Cardinality(S) \in Nat
  BY <1>1, FS_CardinalityType
<1>. QED  BY <1>2 DEF AtMost

LEMMA ListReadySound ==
  ASSUME TickInv, NEW t \in Ticks, ListReady(t) PROVE OneSound(t)
<1>. DEFINE ready == IF paused THEN {} ELSE {e \in Rows : row[e] = "ready"}
            m == AtMost(ready)
            k == tick[t]
            workers == [w \in Workers |-> IF w =< m THEN [at |-> "head", row |-> NoRow]
                                          ELSE k.worker[w]]
<1>1. PICK some \in [1..m -> ready] :
        /\ \A i, j \in 1..m : some[i] = some[j] => i = j
        /\ tick' = [tick EXCEPT ![t].phase = "pool", ![t].ready = some,
             ![t].worker = [w \in Workers |->
               IF w =< m THEN [at |-> "head", row |-> NoRow] ELSE @[w]]]
  BY Zenon DEF ListReady
<1>. DEFINE n == [k EXCEPT !.phase = "pool", !.ready = some, !.worker = workers]
<1>2. k \in TickRecord /\ TickSound(k) /\ k.phase = "list"
  BY DEF TickInv, Typed, ListReady
<1>3. k.ready = <<>> /\ k.cursor = 1 /\ k.worker = NoWorkers
  BY <1>2, PartsAre DEF TickSound, ListIsSound, BeforePool
<1>4. m \in Nat /\ m =< RpcBudget
  BY AtMostTyped
<1>5. some \in Seq(Rows) /\ Len(some) = m
  <2>1. some \in [1..m -> Rows]
    OBVIOUS
  <2>. HIDE DEF m
  <2>. QED  BY <1>4, <2>1
<1>6. /\ workers \in [Workers -> [at: WorkerStates, row: Rows \cup {NoRow}]]
      /\ \A w \in Workers : workers[w].row = NoRow
  BY <1>3, NoWorkersTyped DEF WorkerStates
<1>. HIDE DEF workers, m
<1>7. n \in TickRecord
  BY <1>2, <1>5, <1>6 DEF TickRecord, Phases
<1>8. Becomes(t, n)
  <2>1. tick' = [tick EXCEPT ![t] = n]
    BY <1>1 DEF workers
  <2>. QED  BY <1>7, <2>1, BecomesByExcept DEF TickInv
<1>9. /\ n.phase = "pool" /\ n.ready = some /\ n.cursor = 1 /\ n.worker = workers
      /\ n.paused = k.paused /\ n.threw = k.threw /\ n.errors = k.errors
  BY <1>2, <1>3 DEF TickRecord
<1>10. ListIsSound(n)
  <2>1. n.phase \notin BeforePool
    BY <1>9, PartsAre DEF BeforePool
  <2>2. Len(n.ready) =< RpcBudget /\ n.cursor =< Len(n.ready) + 1
    BY <1>4, <1>5, <1>9
  <2>3. \A i, j \in 1..Len(n.ready) : n.ready[i] = n.ready[j] => i = j
    BY <1>1, <1>5, <1>9
  <2>. QED  BY <2>1, <2>2, <2>3 DEF ListIsSound
<1>11. HeldIsTaken(n) /\ HeldOnce(n) /\ WorkersAreInThePool(n)
  BY <1>6, <1>9 DEF HeldIsTaken, HeldOnce, WorkersAreInThePool
<1>12. ErrorsAreCounted(n)
  BY <1>2, <1>9 DEF TickSound, ErrorsAreCounted
<1>. QED  BY <1>8, <1>10, <1>11, <1>12 DEF OneSound, TickSound

\* A worker keeps its row, drops it, or takes the one under the cursor, which moves on.
LEMMA WorkerWrites ==
  ASSUME NEW k \in TickRecord, NEW n \in TickRecord, TickSound(k), k.phase = "pool",
         NEW w \in Workers, NEW at \in WorkerStates, NEW e \in Rows \cup {NoRow},
         n.phase = k.phase, n.paused = k.paused, n.threw = k.threw, n.errors = k.errors,
         n.ready = k.ready, n.worker = [k.worker EXCEPT ![w] = [at |-> at, row |-> e]],
         \/ n.cursor = k.cursor /\ e \in {NoRow, k.worker[w].row}
         \/ /\ n.cursor = k.cursor + 1 /\ k.cursor =< Len(k.ready)
            /\ e \in {NoRow, k.ready[k.cursor]}
  PROVE  TickSound(n)
<1>0. /\ k.cursor \in Nat \ {0} /\ Len(k.ready) \in Nat
      /\ k.worker \in [Workers -> [at: WorkerStates, row: Rows \cup {NoRow}]]
  BY FieldsTyped
<1>1. ErrorsAreCounted(n) /\ WorkersAreInThePool(n)
  BY Zenon DEF TickSound, ErrorsAreCounted, WorkersAreInThePool
<1>2. ListIsSound(n)
  <2>1. n.phase \notin BeforePool
    BY PartsAre DEF BeforePool
  <2>2. n.cursor =< Len(n.ready) + 1
    BY <1>0 DEF TickSound, ListIsSound
  <2>. QED  BY <2>1, <2>2 DEF TickSound, ListIsSound
<1>3. /\ n.worker[w].row = e
      /\ \A v \in Workers : v # w => n.worker[v] = k.worker[v]
  BY <1>0
<1>4. HeldIsTaken(n)
  <2>1. \A i \in 1..(k.cursor - 1) : i \in 1..(n.cursor - 1) /\ n.ready[i] = k.ready[i]
    BY <1>0
  <2>2. SUFFICES ASSUME NEW v \in Workers, n.worker[v].row # NoRow
                 PROVE  \E i \in 1..(n.cursor - 1) : n.worker[v].row = n.ready[i]
    BY DEF HeldIsTaken
  <2>3. CASE n.worker[v].row = k.worker[v].row
    <3>1. PICK i \in 1..(k.cursor - 1) : k.worker[v].row = k.ready[i]
      BY <2>2, <2>3 DEF TickSound, HeldIsTaken
    <3>. QED  BY <2>1, <2>3, <3>1
  <2>4. CASE v = w /\ e = k.ready[k.cursor] /\ n.cursor = k.cursor + 1
    <3>1. k.cursor \in 1..(n.cursor - 1) /\ n.worker[v].row = n.ready[k.cursor]
      BY <1>0, <1>3, <2>4
    <3>. QED  BY <3>1
  <2>. QED  BY <1>3, <2>2, <2>3, <2>4
<1>5. \A v \in Workers : v # w /\ n.worker[v].row # NoRow => n.worker[v].row # e
  <2>1. SUFFICES ASSUME NEW v \in Workers, v # w, k.worker[v].row # NoRow, e # NoRow,
                        k.worker[v].row = e
                 PROVE  FALSE
    BY <1>3
  <2>2. PICK i \in 1..(k.cursor - 1) : k.worker[v].row = k.ready[i]
    BY <2>1 DEF TickSound, HeldIsTaken
  <2>3. CASE e = k.worker[w].row
    BY <2>1, <2>3 DEF TickSound, HeldOnce
  <2>4. CASE e = k.ready[k.cursor] /\ k.cursor =< Len(k.ready)
    <3>1. i \in 1..Len(k.ready) /\ k.cursor \in 1..Len(k.ready) /\ i # k.cursor
      <4>. DEFINE c == k.cursor
                  m == Len(k.ready)
      <4>1. c \in Nat \ {0} /\ m \in Nat /\ c =< m /\ i \in 1..(c - 1)
        BY <1>0, <2>4
      <4>. HIDE DEF c, m
      <4>2. i \in 1..m /\ c \in 1..m /\ i # c
        BY <4>1
      <4>. QED  BY <4>2 DEF c, m
    <3>2. k.ready[i] # k.ready[k.cursor]
      BY <3>1 DEF TickSound, ListIsSound
    <3>. QED  BY <2>1, <2>2, <2>4, <3>2
  <2>. QED  BY <2>1, <2>3, <2>4
<1>6. HeldOnce(n)
  BY <1>3, <1>5 DEF TickSound, HeldOnce
<1>. QED  BY <1>1, <1>2, <1>4, <1>6 DEF TickSound

LEMMA StepSound ==
  ASSUME TickInv, NEW t \in Ticks, NEW w \in Workers, NEW at \in WorkerStates,
         NEW e \in {NoRow, tick[t].worker[w].row}, tick[t].phase = "pool", Step(t, w, at, e)
  PROVE  OneSound(t)
<1>. DEFINE k == tick[t]
            worker == [k.worker EXCEPT ![w] = [at |-> at, row |-> e]]
            n == [k EXCEPT !.worker = worker]
<1>1. k \in TickRecord /\ TickSound(k)
  BY DEF TickInv, Typed
<1>2. e \in Rows \cup {NoRow}
  BY <1>1, FieldsTyped
<1>3. worker \in [Workers -> [at: WorkerStates, row: Rows \cup {NoRow}]]
  BY <1>1, <1>2, FieldsTyped
<1>4. n \in TickRecord
  BY <1>1, <1>3 DEF TickRecord
<1>5. Becomes(t, n)
  BY <1>4, BecomesByExcept DEF TickInv, Step
<1>6. /\ n.phase = k.phase /\ n.paused = k.paused /\ n.threw = k.threw /\ n.errors = k.errors
      /\ n.ready = k.ready /\ n.worker = worker /\ n.cursor = k.cursor
  BY <1>1 DEF TickRecord
<1>7. TickSound(n)
  <2>. HIDE DEF n
  <2>. QED  BY <1>1, <1>2, <1>4, <1>6, WorkerWrites
<1>. QED  BY <1>5, <1>7 DEF OneSound

LEMMA TakeRowSound ==
  ASSUME TickInv, NEW t \in Ticks, NEW w \in Workers, TakeRow(t, w)
  PROVE  OneSound(t)
<1>. DEFINE k == tick[t]
            e == k.ready[k.cursor]
<1>1. k \in TickRecord /\ TickSound(k) /\ k.phase = "pool"
  BY DEF TickInv, Typed, TakeRow
<1>2. CASE k.cursor > Len(k.ready)
  BY <1>1, <1>2, StepSound DEF TakeRow, WorkerStates
<1>3. CASE ~(k.cursor > Len(k.ready))
  <2>1. PICK rest \in 0..k.left :
          tick' = [tick EXCEPT ![t].left = rest, ![t].cursor = CursorAfter(t),
                    ![t].worker[w] = IF rest < TimeoutOf[e] + Reserve
                                     THEN [at |-> "returned", row |-> NoRow]
                                     ELSE [at |-> "claim", row |-> e]]
    BY <1>3 DEF TakeRow
  <2>2. PICK at \in WorkerStates, f \in {NoRow, e} :
          (IF rest < TimeoutOf[e] + Reserve THEN [at |-> "returned", row |-> NoRow]
           ELSE [at |-> "claim", row |-> e]) = [at |-> at, row |-> f]
    BY DEF WorkerStates
  <2>. DEFINE worker == [k.worker EXCEPT ![w] = [at |-> at, row |-> f]]
              n == [k EXCEPT !.left = rest, !.cursor = k.cursor + 1, !.worker = worker]
  <2>3. k.cursor \in Nat \ {0} /\ Len(k.ready) \in Nat /\ k.cursor =< Len(k.ready)
    BY <1>1, <1>3, FieldsTyped
  <2>4. e \in Rows /\ f \in Rows \cup {NoRow}
    <3>1. k.ready \in Seq(Rows) /\ k.cursor \in 1..Len(k.ready)
      BY <1>1, <2>3, FieldsTyped
    <3>2. k.ready[k.cursor] \in Rows
      <4>. HIDE DEF k
      <4>. QED  BY <3>1
    <3>. QED  BY <3>2
  <2>5. rest \in 0..SoftWall
    BY <1>1, FieldsTyped
  <2>. HIDE DEF e
  <2>6. n \in TickRecord
    <3>1. worker \in [Workers -> [at: WorkerStates, row: Rows \cup {NoRow}]]
      BY <1>1, <2>4, FieldsTyped
    <3>2. k.cursor + 1 \in Nat \ {0}
      BY <2>3
    <3>. HIDE DEF worker
    <3>. QED  BY <1>1, <2>5, <3>1, <3>2 DEF TickRecord
  <2>7. Becomes(t, n)
    <3>1. tick' = [tick EXCEPT ![t] = n]
      BY <2>1, <2>2 DEF CursorAfter
    <3>. QED  BY <2>6, <3>1, BecomesByExcept DEF TickInv
  <2>8. /\ n.phase = k.phase /\ n.paused = k.paused /\ n.threw = k.threw /\ n.errors = k.errors
        /\ n.ready = k.ready /\ n.worker = worker /\ n.cursor = k.cursor + 1
    BY <1>1 DEF TickRecord
  <2>9. TickSound(n)
    <3>1. f \in {NoRow, k.ready[k.cursor]}
      BY <2>2 DEF e
    <3>2. \/ n.cursor = k.cursor /\ f \in {NoRow, k.worker[w].row}
          \/ /\ n.cursor = k.cursor + 1 /\ k.cursor =< Len(k.ready)
             /\ f \in {NoRow, k.ready[k.cursor]}
      <4>. HIDE DEF n
      <4>. QED  BY <2>3, <2>8, <3>1
    <3>. HIDE DEF n, k
    <3>. QED  BY <1>1, <2>4, <2>6, <2>8, <3>2, WorkerWrites
  <2>. QED  BY <2>7, <2>9 DEF OneSound
<1>. QED  BY <1>2, <1>3

\* Whoever awaits something is in a pool.
LEMMA AwaitsInThePool ==
  ASSUME TickInv, NEW t \in Ticks, NEW w \in Workers,
         Worker(t, w).at \in {"claim", "call", "finalize"}
  PROVE  tick[t].phase = "pool"
BY DEF TickInv, TickSound, WorkersAreInThePool, Worker

LEMMA WorkerStepSound ==
  ASSUME TickInv, NEW t \in Ticks, NEW w \in Workers, WorkerStep(t, w)
  PROVE  /\ OneSound(t) /\ tick[t].phase = "pool" /\ heartbeat' = heartbeat /\ paused' = paused
         /\ row' \in [Rows -> {"ready", "claimed", "final"}]
<1>. DEFINE e == tick[t].worker[w].row
<1>1. tick[t] \in TickRecord /\ row \in [Rows -> {"ready", "claimed", "final"}]
  BY DEF TickInv, Typed
<1>. USE DEF WorkerStates
<1>2. CASE TakeRow(t, w)
  BY <1>1, <1>2, TakeRowSound DEF TakeRow
<1>3. CASE Claim(t, w)
  <2>1. tick[t].phase = "pool"
    BY <1>3, AwaitsInThePool DEF Claim
  <2>2. Step(t, w, "call", e) \/ Step(t, w, "head", NoRow)
    BY <1>3 DEF Claim, Worker
  <2>3. OneSound(t)
    BY <2>1, <2>2, StepSound
  <2>. QED  BY <1>1, <1>3, <2>1, <2>3 DEF Claim
<1>4. CASE Answer(t, w)
  <2>1. tick[t].phase = "pool" /\ Step(t, w, "finalize", e)
    BY <1>4, AwaitsInThePool DEF Answer, Worker
  <2>2. OneSound(t)
    BY <2>1, StepSound
  <2>. QED  BY <1>1, <1>4, <2>1, <2>2 DEF Answer
<1>5. CASE Finalize(t, w)
  <2>1. tick[t].phase = "pool" /\ Step(t, w, "head", NoRow)
    BY <1>5, AwaitsInThePool DEF Finalize
  <2>2. OneSound(t)
    BY <2>1, StepSound
  <2>. QED  BY <1>1, <1>5, <2>1, <2>2 DEF Finalize
<1>6. CASE WorkerRejects(t, w)
  <2>1. tick[t].phase = "pool" /\ Step(t, w, "rejected", NoRow)
    BY <1>6, AwaitsInThePool DEF WorkerRejects
  <2>2. OneSound(t)
    BY <2>1, StepSound
  <2>. QED  BY <1>1, <1>6, <2>1, <2>2 DEF WorkerRejects
<1>. QED  BY <1>2, <1>3, <1>4, <1>5, <1>6 DEF WorkerStep

LEMMA PoolEndsSound ==
  ASSUME TickInv, NEW t \in Ticks, PoolEnds(t) PROVE OneSound(t)
<1>. DEFINE k == tick[t]
            rejected == {w \in Workers : Worker(t, w).at = "rejected"}
            n == [k EXCEPT !.phase = "cleanup", !.errors = @ + Cardinality(rejected)]
<1>1. k \in TickRecord /\ TickSound(k) /\ k.phase = "pool"
  BY DEF TickInv, Typed, PoolEnds
<1>2. Cardinality(rejected) \in Nat
  <2>1. IsFiniteSet(Workers)
    BY FS_Interval DEF Workers
  <2>. QED  BY <2>1, FS_Subset, FS_CardinalityType
<1>. HIDE DEF rejected
<1>3. n \in TickRecord /\ MainStays(n, k) /\ n.phase = "cleanup" /\ n.paused = k.paused /\ n.threw = k.threw
  <2>1. k.errors + Cardinality(rejected) \in Nat
    BY <1>1, <1>2, FieldsTyped
  <2>. QED  BY <1>1, <2>1 DEF TickRecord, Phases, MainStays
<1>4. Becomes(t, n)
  BY <1>3, BecomesByExcept DEF TickInv, PoolEnds, rejected
<1>5. ErrorsAreCounted(n)
  BY <1>1, <1>3 DEF TickSound, ErrorsAreCounted
<1>6. ListIsSound(n) /\ HeldIsTaken(n) /\ HeldOnce(n)
  BY <1>1, <1>3, PartsAre DEF MainStays, TickSound, HeldIsTaken, HeldOnce, ListIsSound, BeforePool
<1>7. WorkersAreInThePool(n)
  BY <1>3 DEF MainStays, WorkersAreInThePool, PoolEnds, AllSettled, Worker
<1>. QED  BY <1>4, <1>5, <1>6, <1>7 DEF OneSound, TickSound

-----------------------------------------------------------------------------
(* The heartbeat *)

\* A step of a Tick that is not over does not touch the one the heartbeat is about.
LEMMA HeartbeatStays ==
  ASSUME TickInv, NEW t \in Ticks, OneSound(t), tick[t].phase # "ended",
         heartbeat' \in {heartbeat, Running(t)}
  PROVE  heartbeat' \in Heartbeat /\ HeartbeatIsOfOneTick' /\ SuccessIsOver'
<1>1. \A u \in Ticks : u # t => tick'[u] = tick[u]
  BY DEF OneSound, Becomes
<1>2. heartbeat \in Heartbeat
  BY DEF TickInv, Typed
<1>3. heartbeat' \in Heartbeat /\ heartbeat'.successful = heartbeat.successful
  BY <1>2 DEF Running, Heartbeat, Outcomes
<1>4. HeartbeatIsOfOneTick'
  <2>1. CASE heartbeat' = heartbeat
    <3>. SUFFICES ASSUME heartbeat.tick # NoTick, heartbeat.outcome # "running"
                  PROVE  tick'[heartbeat.tick].phase = "ended" /\ heartbeat.outcome = OutcomeOf(heartbeat.tick)'
      BY <2>1 DEF HeartbeatIsOfOneTick, OutcomeOf
    <3>1. tick[heartbeat.tick].phase = "ended" /\ heartbeat.outcome = OutcomeOf(heartbeat.tick)
      BY DEF TickInv, HeartbeatIsOfOneTick
    <3>2. heartbeat.tick \in Ticks
      BY <1>2 DEF Heartbeat
    <3>3. tick'[heartbeat.tick] = tick[heartbeat.tick]
      BY <1>1, <3>1, <3>2
    <3>4. OutcomeOf(heartbeat.tick)' = OutcomeOf(heartbeat.tick)
      BY <2>1, <3>3 DEF OutcomeOf
    <3>. QED  BY <3>1, <3>3, <3>4
  <2>2. CASE heartbeat' = Running(t)
    BY <1>2, <2>2 DEF Running, Heartbeat, HeartbeatIsOfOneTick
  <2>. QED  BY <2>1, <2>2
<1>5. SuccessIsOver'
  <2>. SUFFICES ASSUME heartbeat.successful # NoTick
                PROVE  tick'[heartbeat.successful].phase = "ended" /\ tick'[heartbeat.successful].errors = 0
    BY <1>3 DEF SuccessIsOver
  <2>1. tick[heartbeat.successful].phase = "ended" /\ tick[heartbeat.successful].errors = 0
    BY DEF TickInv, SuccessIsOver
  <2>2. heartbeat.successful \in Ticks
    BY <1>2 DEF Heartbeat
  <2>. QED  BY <1>1, <2>1, <2>2
<1>. QED  BY <1>3, <1>4, <1>5

\* What finishTick writes is about the Tick that writes it, and a Tick is a success
\* only if it met no error.
LEMMA FinishTells ==
  ASSUME TickInv, NEW t \in Ticks, Finish(t)
  PROVE  OneSound(t) /\ heartbeat' \in Heartbeat /\ HeartbeatIsOfOneTick' /\ SuccessIsOver'
<1>. DEFINE k == tick[t]
            n == Gone(t, "ended")
<1>1. k \in TickRecord /\ TickSound(k) /\ k.phase = "finish" /\ heartbeat \in Heartbeat
  BY DEF TickInv, Typed, Finish
<1>2. Becomes(t, n) /\ TickSound(n)
  BY <1>1, GoneSound DEF Finish
<1>3. OneSound(t)
  BY <1>2 DEF OneSound
<1>4. CASE heartbeat' = heartbeat
  BY <1>1, <1>3, <1>4, HeartbeatStays
<1>5. CASE heartbeat' = Written(t) /\ IsLatest(t)
  <2>1. /\ tick'[t] = n /\ n.phase = "ended" /\ n.threw = k.threw /\ n.paused = k.paused
        /\ n.errors = k.errors
    BY <1>2 DEF Becomes, Gone, NewTick
  <2>2. OutcomeOf(t)' = OutcomeOf(t)
    BY <2>1 DEF OutcomeOf
  <2>3. OutcomeOf(t) \in Outcomes
    BY DEF OutcomeOf, Outcomes
  <2>4. /\ heartbeat' \in Heartbeat /\ heartbeat'.tick = t /\ heartbeat'.outcome = OutcomeOf(t)
        /\ heartbeat'.successful =
             IF OutcomeOf(t) \in {"succeeded", "paused"} THEN t ELSE heartbeat.successful
    BY <1>1, <1>5, <2>3 DEF Written, IsLatest, Heartbeat
  <2>5. HeartbeatIsOfOneTick'
    BY <2>1, <2>2, <2>4 DEF HeartbeatIsOfOneTick, OutcomeOf
  <2>6. OutcomeOf(t) \in {"succeeded", "paused"} => k.errors = 0
    BY <1>1, FieldsTyped DEF OutcomeOf, TickSound, ErrorsAreCounted
  <2>7. SuccessIsOver'
    <3>1. CASE OutcomeOf(t) \in {"succeeded", "paused"}
      BY <2>1, <2>4, <2>6, <3>1 DEF SuccessIsOver
    <3>2. CASE heartbeat'.successful = heartbeat.successful /\ heartbeat.successful # NoTick
      <4>1. heartbeat.successful \in Ticks /\ tick[heartbeat.successful].phase = "ended"
            /\ tick[heartbeat.successful].errors = 0
        BY <1>1, <3>2 DEF TickInv, SuccessIsOver, Heartbeat
      <4>2. tick'[heartbeat.successful] = tick[heartbeat.successful]
        BY <1>1, <1>2, <4>1 DEF Becomes
      <4>. QED  BY <3>2, <4>1, <4>2 DEF SuccessIsOver
    <3>. QED  BY <2>4, <3>1, <3>2 DEF SuccessIsOver
  <2>. QED  BY <1>3, <2>4, <2>5, <2>7
<1>. QED  BY <1>4, <1>5 DEF Finish, Written

-----------------------------------------------------------------------------
(* The invariant is inductive *)

LEMMA InitInv == Init => TickInv
<1>. SUFFICES ASSUME Init PROVE TickInv
  OBVIOUS
<1>1. NewTick \in TickRecord
  BY NoWorkersTyped DEF NewTick, TickRecord, Phases
<1>2. /\ NewTick.phase = "idle" /\ NewTick.errors = 0 /\ ~NewTick.threw /\ ~NewTick.paused
      /\ NewTick.ready = <<>> /\ NewTick.cursor = 1 /\ NewTick.worker = NoWorkers
  BY DEF NewTick
<1>3. TickSound(NewTick)
  BY <1>2, NoWorkersTyped
  DEF TickSound, ListIsSound, HeldIsTaken, HeldOnce, ErrorsAreCounted, WorkersAreInThePool
<1>. QED  BY <1>1, <1>3
  DEF Init, TickInv, Typed, Heartbeat, HeartbeatIsOfOneTick, SuccessIsOver

LEMMA OneChanges ==
  ASSUME TickInv, NEW t \in Ticks, OneSound(t)
  PROVE  tick' \in [Ticks -> TickRecord] /\ \A u \in Ticks : TickSound(tick'[u])
<1>1. PICK n : Becomes(t, n) /\ TickSound(n)
  BY DEF OneSound
<1>2. ASSUME NEW u \in Ticks PROVE TickSound(tick'[u])
  BY <1>1 DEF TickInv, Becomes
<1>. QED  BY <1>1, <1>2 DEF Becomes

LEMMA NextInv == TickInv /\ [Next]_vars => TickInv'
<1>. SUFFICES ASSUME TickInv, [Next]_vars PROVE TickInv'
  OBVIOUS
<1>0. Typed
  BY DEF TickInv
<1>1. ASSUME NEW t \in Ticks, OneSound(t), paused' \in BOOLEAN, heartbeat' \in Heartbeat,
             row' \in [Rows -> {"ready", "claimed", "final"}],
             HeartbeatIsOfOneTick', SuccessIsOver'
      PROVE  TickInv'
  BY <1>1, OneChanges DEF TickInv, Typed
<1>2. ASSUME NEW t \in Ticks, OneSound(t), tick[t].phase # "ended", paused' = paused,
             heartbeat' \in {heartbeat, Running(t)},
             row' \in [Rows -> {"ready", "claimed", "final"}]
      PROVE  TickInv'
  BY <1>0, <1>1, <1>2, HeartbeatStays DEF Typed
<1>3. ASSUME NEW t \in Ticks, Start(t) PROVE TickInv'
  BY <1>0, <1>2, <1>3, StartSound DEF Start, Typed
<1>4. ASSUME NEW t \in Ticks, Begin(t) PROVE TickInv'
  BY <1>0, <1>2, <1>4, BeginSound DEF Begin, Typed
<1>5. ASSUME NEW t \in Ticks, PartReturns(t) PROVE TickInv'
  <2>1. tick[t].phase # "ended" /\ UNCHANGED <<paused, heartbeat, row>>
    BY <1>5, PartsAre DEF PartReturns
  <2>. QED  BY <1>0, <1>2, <1>5, <2>1, PartReturnsSound DEF Typed
<1>6. ASSUME NEW t \in Ticks, ListReady(t) PROVE TickInv'
  BY <1>0, <1>2, <1>6, ListReadySound DEF ListReady, Typed
<1>7. ASSUME NEW t \in Ticks, PartThrows(t) PROVE TickInv'
  BY <1>0, <1>2, <1>7, PartThrowsSound, PartsAre DEF PartThrows, Typed
<1>8. ASSUME NEW t \in Ticks, PoolEnds(t) PROVE TickInv'
  BY <1>0, <1>2, <1>8, PoolEndsSound DEF PoolEnds, Typed
<1>9. ASSUME NEW t \in Ticks, Cleanup(t) PROVE TickInv'
  BY <1>0, <1>2, <1>9, CleanupSound DEF Cleanup, Typed
<1>10. ASSUME NEW t \in Ticks, Finish(t) PROVE TickInv'
  BY <1>0, <1>1, <1>10, FinishTells DEF Finish, Typed
<1>11. ASSUME NEW t \in Ticks, Dies(t) PROVE TickInv'
  <2>1. OneSound(t)
    BY <1>11, GoneSound DEF Dies, OneSound
  <2>. QED  BY <1>0, <1>2, <1>11, <2>1 DEF Dies, Typed
<1>12. ASSUME NEW t \in Ticks, NEW w \in Workers, WorkerStep(t, w) PROVE TickInv'
  BY <1>0, <1>2, <1>12, WorkerStepSound
<1>13. CASE Switch \/ UNCHANGED vars
  <2>1. tick' = tick /\ heartbeat' = heartbeat /\ row' = row /\ paused' \in BOOLEAN
    BY <1>0, <1>13 DEF Switch, vars, Typed
  <2>2. HeartbeatIsOfOneTick' /\ SuccessIsOver'
    BY <2>1 DEF TickInv, HeartbeatIsOfOneTick, SuccessIsOver, OutcomeOf
  <2>. QED  BY <2>1, <2>2 DEF TickInv, Typed
<1>. QED  BY <1>3, <1>4, <1>5, <1>6, <1>7, <1>8, <1>9, <1>10, <1>11, <1>12, <1>13
  DEF Next, MainStep

\* Whatever a Tick meets and however Ticks overlap, the invariant holds.
THEOREM TickInvariant == Spec => []TickInv
BY InitInv, NextInv, PTL DEF Spec

-----------------------------------------------------------------------------
(* What it shows *)

\* The heartbeat, the executions and the Ticks have their shapes, and the cursor of
\* a pool stays within its list.
THEOREM TickTypeCorrect == Spec => []TypeOK
<1>1. TickInv => TypeOK
  <2>. SUFFICES ASSUME TickInv PROVE TypeOK
    OBVIOUS
  <2>1. ASSUME NEW t \in Ticks
        PROVE  /\ DOMAIN tick[t] = DOMAIN NewTick
               /\ tick[t].phase \in Phases /\ tick[t].left \in 0..SoftWall
               /\ tick[t].errors \in Nat
               /\ Len(tick[t].ready) =< RpcBudget
               /\ tick[t].cursor \in 1..Len(tick[t].ready) + 1
               /\ tick[t].worker \in [Workers -> [at: WorkerStates, row: Rows \cup {NoRow}]]
    <3>1. tick[t] \in TickRecord /\ TickSound(tick[t])
      BY DEF TickInv, Typed
    <3>2. DOMAIN tick[t] = DOMAIN NewTick
      BY <3>1 DEF TickRecord, NewTick
    <3>3. Len(tick[t].ready) \in Nat
      BY <3>1, FieldsTyped
    <3>. QED  BY <3>1, <3>2, <3>3, FieldsTyped DEF TickSound, ListIsSound
  <2>. QED  BY <2>1 DEF TickInv, Typed, TypeOK
<1>. QED  BY <1>1, TickInvariant, PTL

\* The heartbeat tells how one Tick went, and truly: its outcome is that of the
\* Tick beside it, a success is one no part of which failed, no call outlives the
\* pool it was made by, and no execution is dispatched by two workers of it.
THEOREM TicksStayAccountedFor == Spec => []TicksAreAccountedFor
<1>1. TickInv => TicksAreAccountedFor
  <2>. SUFFICES ASSUME TickInv PROVE TicksAreAccountedFor
    OBVIOUS
  <2>1. NothingRunsAfterThePool
    BY DEF TickInv, TickSound, WorkersAreInThePool, NothingRunsAfterThePool, Worker
  <2>2. RowsAreShared
    BY DEF TickInv, TickSound, HeldOnce, RowsAreShared, Worker
  <2>3. HeartbeatIsOfOneTick /\ SuccessIsTrue
    BY DEF TickInv, SuccessIsOver, SuccessIsTrue
  <2>. QED  BY <2>1, <2>2, <2>3 DEF TicksAreAccountedFor
<1>. QED  BY <1>1, TickInvariant, PTL

-----------------------------------------------------------------------------
(* The parts together *)

Site     == INSTANCE WebsiteWorkerProofs WITH
              Calls <- WebsiteCalls, Keys <- WebsiteKeys, Actions <- WebsiteActions
Operator == INSTANCE AdminMutationsProofs WITH Keys <- IdempotencyKeys

\* The modules with the proofs of a website and of the mutations have the same
\* definitions of them as Platform's instances.
LEMMA SameWebsite ==
  /\ Website!WorkerAssumption => Site!WorkerAssumption
  /\ Website!Init => Site!Init
  /\ Website!Next => Site!Next
  /\ Website!vars = Site!vars
<1>. USE DEF Website!Answers, Site!Answers, Website!Stages, Site!Stages, Website!Scenarios,
         Site!Scenarios, Website!CallRecord, Site!CallRecord, Website!WorkerAssumption,
         Site!WorkerAssumption, Website!vars, Site!vars, Website!Default, Site!Default,
         Website!NewCall, Site!NewCall, Website!Init, Site!Init, Website!At, Site!At,
         Website!Goto, Site!Goto, Website!OnTheWayOut, Site!OnTheWayOut, Website!Answer,
         Site!Answer, Website!Tables, Site!Tables, Website!Start, Site!Start, Website!ArmedAfter,
         Site!ArmedAfter, Website!Take, Site!Take, Website!Refuse, Site!Refuse, Website!Begin,
         Site!Begin, Website!Outcome, Site!Outcome, Website!Run, Site!Run, Website!StoredAfter,
         Site!StoredAfter, Website!Insert, Site!Insert, Website!Selected, Site!Selected,
         Website!Select, Site!Select, Website!AnswerAfterEffect, Site!AnswerAfterEffect,
         Website!Effect, Site!Effect, Website!AbortedAlready, Site!AbortedAlready,
         Website!WaitForAbort, Site!WaitForAbort, Website!Running, Site!Running, Website!Abort,
         Site!Abort, Website!D1Fails, Site!D1Fails, Website!CountEffects, Site!CountEffects,
         Website!InsertReceipt, Site!InsertReceipt, Website!ReceiptFails, Site!ReceiptFails,
         Website!Dies, Site!Dies, Website!Returned, Site!Returned, Website!Believed,
         Site!Believed, Website!Hear, Site!Hear, Website!Deadline, Site!Deadline, Website!GiveUp,
         Site!GiveUp, Website!Arm, Site!Arm, Website!Reset, Site!Reset, Website!Step, Site!Step,
         Website!Next, Site!Next
<1>1. Website!WorkerAssumption => Site!WorkerAssumption
  BY Zenon
<1>2. Website!Init => Site!Init
  BY Zenon
<1>3. Website!Next => Site!Next
  BY Zenon
<1>4. Website!vars = Site!vars
  BY Zenon
<1>. QED  BY <1>1, <1>2, <1>3, <1>4

LEMMA SameAnswers ==
  Site!SuccessIsStored /\ Site!FailureHasNoEffect /\ Site!AnswerHasReceipt /\ Site!ScenarioIsPlayedOnce
    => AnswersAreEarned
BY Zenon
  DEF AnswersAreEarned, Website!SuccessIsStored, Site!SuccessIsStored, Website!FailureHasNoEffect,
      Site!FailureHasNoEffect, Website!AnswerHasReceipt, Site!AnswerHasReceipt,
      Website!ScenarioIsPlayedOnce, Site!ScenarioIsPlayedOnce

LEMMA SameMutations ==
  /\ Admin!OperationsAssumption => Operator!OperationsAssumption
  /\ Admin!Init => Operator!Init
  /\ Admin!Next => Operator!Next
  /\ Admin!vars = Operator!vars
<1>. USE DEF Admin!vars, Operator!vars, Admin!Entity, Operator!Entity, Admin!AllOperations,
         Operator!AllOperations, Admin!Verdicts, Operator!Verdicts, Admin!Bodies, Operator!Bodies,
         Admin!Revisions, Operator!Revisions, Admin!Contents, Operator!Contents, Admin!Identity,
         Operator!Identity, Admin!Identities, Operator!Identities, Admin!DataOf, Operator!DataOf,
         Admin!OperationsAssumption, Operator!OperationsAssumption, Admin!Idle, Operator!Idle,
         Admin!Working, Operator!Working, Admin!Answered, Operator!Answered, Admin!IsWorking,
         Operator!IsWorking, Admin!Verdict, Operator!Verdict, Admin!Init, Operator!Init,
         Admin!Stored, Operator!Stored, Admin!Replay, Operator!Replay, Admin!IsValid,
         Operator!IsValid, Admin!Arrive, Operator!Arrive, Admin!ReadCatalog, Operator!ReadCatalog,
         Admin!Describe, Operator!Describe, Admin!KeyIsFree, Operator!KeyIsFree,
         Admin!RevisionMatches, Operator!RevisionMatches, Admin!Applies, Operator!Applies,
         Admin!NewValue, Operator!NewValue, Admin!Data, Operator!Data, Admin!Commit,
         Operator!Commit, Admin!MayCommit, Operator!MayCommit, Admin!Batch, Operator!Batch,
         Admin!BatchFails, Operator!BatchFails, Admin!AnswerRaced, Operator!AnswerRaced,
         Admin!Reread, Operator!Reread, Admin!RereadFails, Operator!RereadFails, Admin!Expire,
         Operator!Expire, Admin!Cleanup, Operator!Cleanup, Admin!Seed, Operator!Seed,
         Admin!Redeclare, Operator!Redeclare, Admin!Next, Operator!Next, Admin!Cardinality,
         Operator!Cardinality, Admin!IsFiniteSet, Operator!IsFiniteSet
<1>1. Admin!OperationsAssumption => Operator!OperationsAssumption
  BY Zenon
<1>2. Admin!Init => Operator!Init
  BY Zenon
<1>3. Admin!Next => Operator!Next
  BY Zenon
<1>4. Admin!vars = Operator!vars
  BY Zenon
<1>. QED  BY <1>1, <1>2, <1>3, <1>4

LEMMA SameOutcomes ==
  /\ Operator!OncePerKey /\ Operator!SuccessHasItsEffect /\ Operator!StateIsAudited /\ Operator!NoLostUpdate
       => Admin!OncePerKey /\ Admin!SuccessHasItsEffect /\ Admin!StateIsAudited /\ Admin!NoLostUpdate
BY Zenon
  DEF Admin!vars, Operator!vars, Admin!Identity, Operator!Identity, Admin!Idle, Operator!Idle,
      Admin!Stored, Operator!Stored, Admin!EventsOn, Operator!EventsOn, Admin!NumberOf,
      Operator!NumberOf, Admin!IsLast, Operator!IsLast, Admin!IsNextAfter,
      Operator!IsNextAfter, Admin!StateIsAudited, Operator!StateIsAudited, Admin!Asked,
      Operator!Asked, Admin!EventsOf, Operator!EventsOf, Admin!Is, Operator!Is,
      Admin!SuccessHasItsEffect, Operator!SuccessHasItsEffect, Admin!OncePerKey,
      Operator!OncePerKey, Admin!NoLostUpdate, Operator!NoLostUpdate, Admin!Cardinality,
      Operator!Cardinality

LEMMA SameBehaviours ==
  /\ Website!Spec => Site!Spec
  /\ Admin!Spec => Operator!Spec
<1>1. Website!Init => Site!Init
  BY SameWebsite
<1>2. [Website!Next]_Website!vars => [Site!Next]_Site!vars
  BY Zenon, SameWebsite DEF Website!vars, Site!vars
<1>3. Admin!Init => Operator!Init
  BY SameMutations
<1>4. [Admin!Next]_Admin!vars => [Operator!Next]_Operator!vars
  BY Zenon, SameMutations DEF Admin!vars, Operator!vars
<1>. QED
  BY <1>1, <1>2, <1>3, <1>4, PTL DEF Website!Spec, Site!Spec, Admin!Spec, Operator!Spec

\* Their types too.
LEMMA SameTypes ==
  /\ Site!TypeOK => Website!TypeOK
  /\ Operator!TypeOK => Admin!TypeOK
<1>1. Site!TypeOK => Website!TypeOK
  BY Zenon
  DEF Website!Answers, Site!Answers, Website!Stages, Site!Stages, Website!Scenarios,
      Site!Scenarios, Website!CallRecord, Site!CallRecord, Website!TypeOK, Site!TypeOK
<1>2. Operator!TypeOK => Admin!TypeOK
  BY Zenon
  DEF Admin!Verdicts, Operator!Verdicts, Admin!Bodies, Operator!Bodies, Admin!Identities,
      Operator!Identities, Admin!DataOf, Operator!DataOf, Admin!TypeOK, Operator!TypeOK,
      Admin!Cardinality, Operator!Cardinality
<1>. QED  BY <1>1, <1>2

\* A step of Platform is one of each part, or leaves it alone.
LEMMA PartsMove ==
  ASSUME [PlatformNext]_platformVars
  PROVE  /\ [Next]_vars
         /\ [Admin!Next]_Admin!vars
         /\ [Throttle!Next]_Throttle!vars
         /\ [Tab!Next]_Tab!vars
         /\ [Website!Next]_Website!vars
         /\ [Paging!Next]_Paging!vars
         /\ [Dialect!Next]_Dialect!vars
         /\ [Horizon!Next]_Horizon!vars
         /\ [Body!Next]_Body!vars
<1>. USE DEF platformVars, vars, adminVars, loginVars, tabVars, websiteVars, pagingVars,
             dialectVars,
             horizonVars, bodyVars, Admin!vars, Throttle!vars, Tab!vars, Website!vars,
             Paging!vars, Dialect!vars, Horizon!vars, Body!vars
<1>1. CASE TickMoves
  BY Zenon, <1>1 DEF TickMoves
<1>2. CASE AdminMoves
  BY Zenon, <1>2 DEF AdminMoves
<1>3. CASE LoginMoves
  BY Zenon, <1>3 DEF LoginMoves
<1>4. CASE TabMoves
  BY Zenon, <1>4 DEF TabMoves
<1>5. CASE WebsiteMoves
  BY Zenon, <1>5 DEF WebsiteMoves
<1>6. CASE PagingMoves
  BY Zenon, <1>6 DEF PagingMoves
<1>7. CASE DialectMoves
  BY Zenon, <1>7 DEF DialectMoves
<1>8. CASE HorizonMoves
  BY Zenon, <1>8 DEF HorizonMoves
<1>9. CASE BodyMoves
  BY Zenon, <1>9 DEF BodyMoves
<1>10. CASE UNCHANGED platformVars
  BY Zenon, <1>10
<1>. QED
  BY Zenon, <1>1, <1>2, <1>3, <1>4, <1>5, <1>6, <1>7, <1>8, <1>9, <1>10 DEF PlatformNext

\* Platform implements each of its parts.
THEOREM PartsAreImplemented ==
  PlatformSpec => /\ Spec /\ Admin!Spec /\ Throttle!Spec /\ Tab!Spec
                  /\ Website!Spec /\ Paging!Spec /\ Dialect!Spec /\ Horizon!Spec /\ Body!Spec
<1>1. PlatformInit => /\ Init /\ Admin!Init /\ Throttle!Init /\ Tab!Init
                      /\ Website!Init /\ Paging!Init /\ Dialect!Init /\ Horizon!Init /\ Body!Init
  BY Zenon DEF PlatformInit
<1>2. [PlatformNext]_platformVars =>
         /\ [Next]_vars /\ [Admin!Next]_Admin!vars /\ [Throttle!Next]_Throttle!vars
         /\ [Tab!Next]_Tab!vars /\ [Website!Next]_Website!vars /\ [Paging!Next]_Paging!vars
         /\ [Dialect!Next]_Dialect!vars /\ [Horizon!Next]_Horizon!vars
         /\ [Body!Next]_Body!vars
  BY PartsMove
<1>. QED
  BY <1>1, <1>2, PTL DEF PlatformSpec, Spec, Admin!Spec, Throttle!Spec, Tab!Spec, Website!Spec,
                         Paging!Spec, Dialect!Spec, Horizon!Spec, Body!Spec

\* A Tick accounts for itself whatever the other parts do.
THEOREM TicksAreAccountedForInPlatform == PlatformSpec => []TicksAreAccountedFor
BY PartsAreImplemented, TicksStayAccountedFor, PTL

\* However requests of an operator race and are repeated: every key has its effect
\* once, a success is in the audit log, the log tells the history of every switch, no
\* edit is lost, and no request that succeeded is told of a conflict.
THEOREM MutationsStayOnce == PlatformSpec => MutationsHappenOnce
<1>1. Operator!OperationsAssumption
  BY AdminAssumption, SameMutations
<1>2. Operator!Spec => []Operator!OncePerKey
  BY <1>1, Operator!EffectHappensOnce
<1>3. Operator!Spec => []Operator!SuccessHasItsEffect
  BY <1>1, Operator!SuccessIsInTheLog
<1>4. Operator!Spec => []Operator!StateIsAudited
  BY <1>1, Operator!StateStaysAudited
<1>5. Operator!Spec => []Operator!NoLostUpdate
  BY <1>1, Operator!UpdatesAreKept
<1>6. Operator!Spec => Operator!ConflictIsNoSuccess
  BY <1>1, Operator!NoConflictAfterSuccess
<1>7. Operator!ConflictIsNoSuccess => Admin!ConflictIsNoSuccess
  <2>1. [\A r \in Requests : Operator!Is(r, "conflict")' /\ ~Operator!Is(r, "conflict") =>
             ~Operator!Stored(req[r].q)]_Operator!vars
        => [\A r \in Requests : Admin!Is(r, "conflict")' /\ ~Admin!Is(r, "conflict") =>
              ~Admin!Stored(req[r].q)]_Admin!vars
    BY Zenon, SameMutations
    DEF Admin!Is, Operator!Is, Admin!Stored, Operator!Stored, Admin!Identity, Operator!Identity,
         Admin!vars, Operator!vars
  <2>. QED  BY <2>1, PTL DEF Operator!ConflictIsNoSuccess, Admin!ConflictIsNoSuccess
<1>. QED
  BY <1>2, <1>3, <1>4, <1>5, <1>6, <1>7, SameOutcomes, SameBehaviours, PartsAreImplemented, PTL
  DEF MutationsHappenOnce

\* The count of a window is exact, only logins under way pass its limit, and a login
\* is refused for that many failures and no other reason.
THEOREM FailuresStayCounted == PlatformSpec => FailuresAreCounted
<1>1. Throttle!LimitAssumption
  BY ThrottleAssumption
<1>2. Throttle!Spec => []Throttle!CountIsExact
  BY <1>1, CountStaysExact
<1>3. Throttle!Spec => []Throttle!OverlapOnly
  BY <1>1, OverlapIsBounded
<1>4. Throttle!Spec => Throttle!RefusedForAReason
  BY <1>1, RefusalHasItsReason
<1>. QED  BY <1>2, <1>3, <1>4, PartsAreImplemented, PTL DEF FailuresAreCounted

\* The audit log says how every session ended, and no page is shown again without a
\* session cookie.
THEOREM SessionsEndAudited == PlatformSpec => SessionsEnd
<1>1. Tab!SessionAssumption
  BY TabAssumption
<1>2. Tab!Spec => Tab!EndsAreAudited
  BY <1>1, SessionEndsAreAudited
<1>3. Tab!Spec => Tab!PagesNeedACookie
  BY <1>1, PagesAreNotShownAgain
<1>. QED  BY <1>2, <1>3, PartsAreImplemented, PTL DEF SessionsEnd

\* What the platform is told of a call to a website is true of the website's tables.
THEOREM AnswersStayTrue == PlatformSpec => []AnswersAreEarned
<1>1. Site!WorkerAssumption
  BY WebsiteAssumption, SameWebsite
<1>2. Site!Spec => [](Site!SuccessIsStored /\ Site!FailureHasNoEffect /\ Site!AnswerHasReceipt)
  BY <1>1, Site!AnswersStayEarned
<1>3. Site!Spec => []Site!ScenarioIsPlayedOnce
  BY <1>1, Site!ScenariosArePlayedOnce
<1>. QED  BY <1>2, <1>3, SameBehaviours, SameAnswers, PartsAreImplemented, PTL

\* A rule runs on the days its website meant, whichever route declared it; an accepted
\* one is found by every later Tick, and none of its runs is passed over.
THEOREM RulesStayAsMeant == PlatformSpec => []RulesRunAsMeant
<1>1. Dialect!DialectAssumption /\ Horizon!HorizonAssumption
  BY CronAssumption
<1>2. Dialect!Spec => [](Dialect!TypeOK /\ Dialect!RunsOnTheDaysMeant /\ Dialect!OneParseDecides)
  BY <1>1, DaysAreKept
<1>3. Horizon!Spec => [](Horizon!TypeOK /\ Horizon!AcceptedIsFound /\ Horizon!OnlyTheImpossibleIsRefused
                            /\ Horizon!NoRunBetween)
  BY <1>1, RunsAreFound
<1>4. /\ Dialect!TypeOK /\ Dialect!RunsOnTheDaysMeant /\ Dialect!OneParseDecides
      /\ Horizon!TypeOK /\ Horizon!AcceptedIsFound
      /\ Horizon!OnlyTheImpossibleIsRefused /\ Horizon!NoRunBetween
      => RulesRunAsMeant
  BY Zenon DEF RulesRunAsMeant
<1>. QED  BY <1>2, <1>3, <1>4, PartsAreImplemented, PTL

\* What is kept of a body never passes the limit, and the answer is that of the body,
\* however the stream was cut.
THEOREM BodiesStayBounded == PlatformSpec => []BodiesAreBounded
<1>1. Body!Spec => [](Body!TypeOK /\ Body!KeptIsBounded /\ Body!AnswerIsOfTheBody)
  BY BoundAssumption, BodyIsRead
<1>2. Body!KeptIsBounded /\ Body!AnswerIsOfTheBody => BodiesAreBounded
  BY Zenon DEF BodiesAreBounded
<1>. QED  BY <1>1, <1>2, PartsAreImplemented, PTL

\* A walk through the history misses no row that was there all the while, its pages
\* lie side by side, it ends where the list does, and no total is less than its page.
THEOREM WalksStayComplete == PlatformSpec => []WalksAreComplete
<1>1. Paging!Spec => [](Paging!TypeOK /\ Paging!NothingSkipped /\ Paging!PagesAreAdjacent
                           /\ Paging!EndIsTheEnd /\ Paging!TotalCoversPage)
  BY HistoryAssumption, WalksAreSound
<1>2. /\ Paging!NothingSkipped /\ Paging!PagesAreAdjacent
      /\ Paging!EndIsTheEnd /\ Paging!TotalCoversPage
      => WalksAreComplete
  BY Zenon DEF WalksAreComplete
<1>. QED  BY <1>1, <1>2, PartsAreImplemented, PTL

\* The state of every part keeps its shape.
THEOREM TypesStayCorrect == PlatformSpec => []TypesOK
<1>1. Spec => []TypeOK
  BY TickTypeCorrect
<1>2. Operator!Spec => []Operator!TypeOK
  BY AdminAssumption, SameMutations, Operator!TypesAreKept
<1>3. Throttle!Spec => []Throttle!TypeOK
  BY ThrottleAssumption, BlocksAreShort
<1>4. Tab!Spec => []Tab!TypeOK
  BY TabAssumption, TokensStayDrawn
<1>5. Site!Spec => []Site!TypeOK
  BY WebsiteAssumption, SameWebsite, Site!WebsiteTypeCorrect
<1>6. Paging!Spec => [](Paging!TypeOK /\ Paging!NothingSkipped /\ Paging!PagesAreAdjacent
                           /\ Paging!EndIsTheEnd /\ Paging!TotalCoversPage)
  BY HistoryAssumption, WalksAreSound
<1>7. Dialect!Spec => [](Dialect!TypeOK /\ Dialect!RunsOnTheDaysMeant /\ Dialect!OneParseDecides)
  BY CronAssumption, DaysAreKept
<1>8. Horizon!Spec => [](Horizon!TypeOK /\ Horizon!AcceptedIsFound /\ Horizon!OnlyTheImpossibleIsRefused
                            /\ Horizon!NoRunBetween)
  BY CronAssumption, RunsAreFound
<1>9. Body!Spec => [](Body!TypeOK /\ Body!KeptIsBounded /\ Body!AnswerIsOfTheBody)
  BY BoundAssumption, BodyIsRead
<1>10. /\ TypeOK /\ Operator!TypeOK /\ Throttle!TypeOK /\ Tab!TypeOK /\ Site!TypeOK
       /\ Paging!TypeOK /\ Dialect!TypeOK /\ Horizon!TypeOK /\ Body!TypeOK
       => TypesOK
  BY Zenon, SameTypes DEF TypesOK
<1>. QED
  BY <1>1, <1>2, <1>3, <1>4, <1>5, <1>6, <1>7, <1>8, <1>9, <1>10, SameBehaviours,
     PartsAreImplemented, PTL
=============================================================================
