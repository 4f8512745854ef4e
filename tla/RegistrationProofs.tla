------------------------- MODULE RegistrationProofs -------------------------
(***************************************************************************)
(* Registration, for every set of Targets, tokens, keys, declarations and  *)
(* requests: the types, the truth of what a Worker is told, and the        *)
(* contract of DeclaredState.                                              *)
(*                                                                         *)
(* The argument.  The tables only move forward: a token is never active    *)
(* again and a revision is never unbound (WorldMoves).  What a request     *)
(* remembers is therefore still true when it is answered (RequestSound),   *)
(* and the guards of the one statement that commits say the rest.  The     *)
(* capacity is compared with a sum over the other Targets; a sum taken in  *)
(* the order of CHOOSE is compared with another by a counterexample of     *)
(* least cardinality (BySize), as no theorem of induction is at hand.      *)
(***************************************************************************)
EXTENDS Registration, TLAPS, FiniteSetTheorems, WellFoundedInduction
-----------------------------------------------------------------------------
(* Sums.  MapThenSumSet takes the elements of a set in the order of CHOOSE; *)
(* its sum is that of any order.                                            *)

Some(s) == CHOOSE x \in s : TRUE

\* g is the function that MapThenSumSet(F, S) defines on the subsets of S.
IsSum(g, F, S) ==
  g = [s \in SUBSET S |-> IF s = {} THEN 0 ELSE F[Some(s)] + g[s \ {Some(s)}]]

\* A set of naturals that is not empty has a least element.
LEMMA SmallestExists ==
  ASSUME NEW T \in SUBSET Nat, T # {}
  PROVE \E x \in T : \A y \in T : x =< y
<1>1. OpToRel(<, Nat) = {ss \in Nat \X Nat : ss[1] < ss[2]}
  BY Zenon DEF OpToRel
<1>2. IsWellFoundedOn(OpToRel(<, Nat), Nat)
  BY NatLessThanWellFounded, Zenon
<1>. DEFINE R == {ss \in Nat \X Nat : ss[1] < ss[2]}
<1>3. IsWellFoundedOn(R, Nat)
  BY <1>1, <1>2, Zenon
<1>4. PICK x \in T : \A y \in T : ~(<<y, x>> \in R)
  <2>. HIDE DEF R
  <2>. QED  BY <1>3, WFMin, Zenon
<1>5. \A y \in T : ~(y < x)
  BY <1>4
<1>. QED  BY <1>5

\* A set of naturals that holds 0 and the successor of every member holds all.
LEMMA NaturalsFromZero ==
  ASSUME NEW T \in SUBSET Nat, 0 \in T, \A n \in T : n + 1 \in T
  PROVE  T = Nat
<1>1. SUFFICES ASSUME T # Nat PROVE FALSE
  OBVIOUS
<1>2. Nat \ T # {} /\ Nat \ T \in SUBSET Nat
  BY <1>1
<1>3. PICK n \in Nat \ T : \A m \in Nat \ T : n =< m
  BY <1>2, SmallestExists
<1>4. n # 0 /\ n - 1 \in Nat
  BY <1>3
<1>5. n - 1 \in T
  BY <1>3, <1>4
<1>6. (n - 1) + 1 \in T
  BY <1>5
<1>. QED  BY <1>3, <1>6

\* The element that CHOOSE takes from a set is one of its members.
LEMMA SomeIsMember ==
  ASSUME NEW s, s # {} PROVE Some(s) \in s
BY DEF Some

\* What is left of a subset without one member is a smaller subset.
LEMMA Removal ==
  ASSUME NEW S, IsFiniteSet(S), NEW s \in SUBSET S, NEW x \in s
  PROVE  /\ s \ {x} \in SUBSET S /\ IsFiniteSet(s)
         /\ Cardinality(s) \in Nat /\ Cardinality(s \ {x}) \in Nat
         /\ Cardinality(s \ {x}) = Cardinality(s) - 1
<1>1. IsFiniteSet(s)
  BY FS_Subset
<1>2. IsFiniteSet(s \ {x}) /\ Cardinality(s \ {x}) = Cardinality(s) - 1
  BY <1>1, FS_RemoveElement
<1>. QED  BY <1>1, <1>2, FS_CardinalityType

\* Whatever numbers a finite set is mapped to, there is such a function.
LEMMA SumExists ==
  ASSUME NEW S, IsFiniteSet(S), NEW F \in [S -> Nat]
  PROVE  \E g : IsSum(g, F, S)
<1>. DEFINE Small(n) == {s \in SUBSET S : Cardinality(s) =< n}
            SumUpTo(n) == \E g : /\ g \in [Small(n) -> Nat]
                                 /\ \A s \in Small(n) : g[s] =
                                      IF s = {} THEN 0 ELSE F[Some(s)] + g[s \ {Some(s)}]
            T == {n \in Nat : SumUpTo(n)}
<1>1. \A s \in SUBSET S : IsFiniteSet(s) /\ Cardinality(s) \in Nat
  BY FS_Subset, FS_CardinalityType
<1>2. SumUpTo(0)
  <2>1. \A s \in Small(0) : s = {}
    BY <1>1, FS_EmptySet
  <2>. DEFINE g == [s \in Small(0) |-> 0]
  <2>2. g \in [Small(0) -> Nat] /\ \A s \in Small(0) : g[s] = 0
    OBVIOUS
  <2>. QED  BY <2>1, <2>2
<1>3. ASSUME NEW n \in Nat, SumUpTo(n) PROVE SumUpTo(n + 1)
  <2>1. PICK g : /\ g \in [Small(n) -> Nat]
                 /\ \A s \in Small(n) : g[s] =
                      IF s = {} THEN 0 ELSE F[Some(s)] + g[s \ {Some(s)}]
    BY <1>3
  <2>. DEFINE h == [s \in Small(n + 1) |->
                      IF s = {} THEN 0 ELSE F[Some(s)] + g[s \ {Some(s)}]]
  <2>2. ASSUME NEW s \in Small(n + 1), s # {}
        PROVE  /\ Some(s) \in S /\ s \ {Some(s)} \in Small(n)
               /\ s \ {Some(s)} \in Small(n + 1)
    <3>1. Some(s) \in s /\ s \in SUBSET S
      BY <2>2, SomeIsMember
    <3>2. s \ {Some(s)} \in SUBSET S /\ Cardinality(s \ {Some(s)}) = Cardinality(s) - 1
      BY <3>1, Removal
    <3>. QED  BY <1>1, <3>1, <3>2
  <2>3. ASSUME NEW s \in Small(n) PROVE h[s] = g[s]
    <3>1. s \in Small(n + 1)
      BY <1>1
    <3>. QED  BY <2>1, <3>1
  <2>4. ASSUME NEW s \in Small(n + 1)
        PROVE  h[s] = IF s = {} THEN 0 ELSE F[Some(s)] + h[s \ {Some(s)}]
    <3>. HIDE DEF Small
    <3>. QED  BY <2>2, <2>3
  <2>5. h \in [Small(n + 1) -> Nat]
    <3>1. ASSUME NEW s \in Small(n + 1), s # {} PROVE F[Some(s)] + g[s \ {Some(s)}] \in Nat
      <4>. HIDE DEF Small
      <4>. QED  BY <2>1, <2>2, <3>1
    <3>. QED  BY <3>1
  <2>. HIDE DEF h, Small
  <2>. QED  BY <2>4, <2>5
<1>4. T = Nat
  <2>1. T \in SUBSET Nat /\ 0 \in T /\ \A n \in T : n + 1 \in T
    <3>. HIDE DEF SumUpTo
    <3>. QED  BY <1>2, <1>3
  <2>. HIDE DEF T
  <2>. QED  BY <2>1, NaturalsFromZero
<1>5. SumUpTo(Cardinality(S))
  <2>1. Cardinality(S) \in Nat
    BY FS_CardinalityType
  <2>. HIDE DEF SumUpTo
  <2>. QED  BY <1>4, <2>1
<1>6. Small(Cardinality(S)) = SUBSET S
  BY FS_Subset
<1>7. PICK g : /\ g \in [SUBSET S -> Nat]
               /\ \A s \in SUBSET S : g[s] =
                    IF s = {} THEN 0 ELSE F[Some(s)] + g[s \ {Some(s)}]
  <2>. HIDE DEF Small
  <2>. QED  BY <1>5, <1>6
<1>8. g = [s \in SUBSET S |-> g[s]]
  BY <1>7
<1>9. g = [s \in SUBSET S |-> IF s = {} THEN 0 ELSE F[Some(s)] + g[s \ {Some(s)}]]
  BY <1>7, <1>8
<1>. QED  BY <1>9 DEF IsSum

\* What the equation says of one subset.
LEMMA SumStep ==
  ASSUME NEW S, NEW F, NEW g, IsSum(g, F, S), NEW s \in SUBSET S
  PROVE  g[s] = IF s = {} THEN 0 ELSE F[Some(s)] + g[s \ {Some(s)}]
<1>. DEFINE G(u) == IF u = {} THEN 0 ELSE F[Some(u)] + g[u \ {Some(u)}]
<1>1. g = [u \in SUBSET S |-> G(u)]
  BY DEF IsSum
<1>. HIDE DEF G
<1>2. g[s] = G(s)
  BY <1>1
<1>. QED  BY <1>2 DEF G

\* No counterexample of least cardinality is no counterexample.
LEMMA BySize ==
  ASSUME NEW S, IsFiniteSet(S), NEW Bad \in SUBSET (SUBSET S),
         \A s \in Bad : \E u \in Bad : Cardinality(u) < Cardinality(s)
  PROVE  Bad = {}
<1>. SUFFICES ASSUME Bad # {} PROVE FALSE
  OBVIOUS
<1>. DEFINE T == {Cardinality(s) : s \in Bad}
<1>1. \A s \in Bad : Cardinality(s) \in Nat
  BY FS_Subset, FS_CardinalityType
<1>2. T \in SUBSET Nat /\ T # {}
  BY <1>1
<1>3. PICK n \in T : \A m \in T : n =< m
  <2>. HIDE DEF T
  <2>. QED  BY <1>2, SmallestExists
<1>4. PICK s \in Bad : n = Cardinality(s)
  BY <1>3
<1>5. PICK u \in Bad : Cardinality(u) < Cardinality(s)
  OBVIOUS
<1>. QED  BY <1>1, <1>3, <1>4, <1>5

\* A sum is a number, and so is every sum it is made of.
LEMMA SumIsNatural ==
  ASSUME NEW S, IsFiniteSet(S), NEW F \in [S -> Nat], NEW g, IsSum(g, F, S)
  PROVE  \A s \in SUBSET S : g[s] \in Nat
<1>. DEFINE Bad == {s \in SUBSET S : g[s] \notin Nat}
<1>1. ASSUME NEW s \in Bad PROVE \E u \in Bad : Cardinality(u) < Cardinality(s)
  <2>1. s # {} /\ g[s] = F[Some(s)] + g[s \ {Some(s)}]
    BY SumStep
  <2>2. Some(s) \in s /\ F[Some(s)] \in Nat
    BY <2>1, SomeIsMember
  <2>3. s \ {Some(s)} \in SUBSET S /\ Cardinality(s \ {Some(s)}) < Cardinality(s)
    BY <2>2, Removal
  <2>4. g[s \ {Some(s)}] \notin Nat
    BY <2>1, <2>2
  <2>. QED  BY <2>3, <2>4
<1>2. Bad = {}
  <2>1. Bad \in SUBSET (SUBSET S)
    OBVIOUS
  <2>. HIDE DEF Bad
  <2>. QED  BY <1>1, <2>1, BySize
<1>. QED  BY <1>2

\* Any member may be the one added last.
LEMMA SumOfMember ==
  ASSUME NEW S, IsFiniteSet(S), NEW F \in [S -> Nat], NEW g, IsSum(g, F, S)
  PROVE  \A s \in SUBSET S : \A x \in s : g[s] = F[x] + g[s \ {x}]
<1>. DEFINE Bad == {s \in SUBSET S : \E x \in s : g[s] # F[x] + g[s \ {x}]}
<1>1. ASSUME NEW s \in Bad PROVE \E u \in Bad : Cardinality(u) < Cardinality(s)
  <2>1. PICK x \in s : g[s] # F[x] + g[s \ {x}]
    OBVIOUS
  <2>. DEFINE y == Some(s)
  <2>2. g[s] = F[y] + g[s \ {y}] /\ y \in s /\ s \in SUBSET S
    BY <2>1, SumStep, SomeIsMember
  <2>. HIDE DEF y
  <2>3. x # y
    BY <2>1, <2>2
  <2>4. /\ s \ {x} \in SUBSET S /\ Cardinality(s \ {x}) < Cardinality(s)
        /\ s \ {y} \in SUBSET S /\ Cardinality(s \ {y}) < Cardinality(s)
    BY <2>1, <2>2, Removal
  <2>5. (s \ {y}) \ {x} = (s \ {x}) \ {y} /\ x \in s \ {y} /\ y \in s \ {x}
    BY <2>1, <2>2, <2>3
  <2>6. F[x] \in Nat /\ F[y] \in Nat /\ g[(s \ {x}) \ {y}] \in Nat
    BY <2>2, <2>4, SumIsNatural
  <2>7. CASE s \ {x} \in Bad \/ s \ {y} \in Bad
    BY <2>4, <2>7
  <2>8. CASE s \ {x} \notin Bad /\ s \ {y} \notin Bad
    <3>1. g[s \ {x}] = F[y] + g[(s \ {x}) \ {y}] /\ g[s \ {y}] = F[x] + g[(s \ {y}) \ {x}]
      BY <2>4, <2>5, <2>8
    <3>2. g[(s \ {y}) \ {x}] = g[(s \ {x}) \ {y}]
      BY <2>5
    <3>3. \A a, b, c \in Nat : a + (b + c) = b + (a + c)
      OBVIOUS
    <3>4. g[s] = F[y] + (F[x] + g[(s \ {x}) \ {y}])
      BY <2>2, <3>1, <3>2, Zenon
    <3>5. g[s] = F[x] + (F[y] + g[(s \ {x}) \ {y}])
      BY <2>6, <3>3, <3>4, Zenon
    <3>. QED  BY <2>1, <3>1, <3>5, Zenon
  <2>. QED  BY <2>7, <2>8
<1>2. Bad = {}
  <2>1. Bad \in SUBSET (SUBSET S)
    OBVIOUS
  <2>. HIDE DEF Bad
  <2>. QED  BY <1>1, <2>1, BySize
<1>. QED  BY <1>2

\* Two sums agree where what they add agrees.
LEMMA SumsAgree ==
  ASSUME NEW S, NEW R, NEW F, NEW E, NEW g, NEW h,
         IsFiniteSet(S), R \in SUBSET S, \A x \in R : F[x] = E[x],
         IsSum(g, F, S), IsSum(h, E, R)
  PROVE  \A s \in SUBSET R : g[s] = h[s]
<1>. DEFINE Bad == {s \in SUBSET R : g[s] # h[s]}
<1>0. IsFiniteSet(R)
  BY FS_Subset
<1>1. ASSUME NEW s \in Bad PROVE \E u \in Bad : Cardinality(u) < Cardinality(s)
  <2>1. s \in SUBSET S /\ s \in SUBSET R
    OBVIOUS
  <2>2. /\ g[s] = IF s = {} THEN 0 ELSE F[Some(s)] + g[s \ {Some(s)}]
        /\ h[s] = IF s = {} THEN 0 ELSE E[Some(s)] + h[s \ {Some(s)}]
    BY <2>1, SumStep
  <2>3. s # {} /\ Some(s) \in s
    BY <2>2, SomeIsMember
  <2>4. s \ {Some(s)} \in SUBSET R /\ Cardinality(s \ {Some(s)}) < Cardinality(s)
    BY <1>0, <2>1, <2>3, Removal
  <2>5. g[s \ {Some(s)}] # h[s \ {Some(s)}]
    BY <2>1, <2>2, <2>3
  <2>. QED  BY <2>4, <2>5
<1>2. Bad = {}
  <2>1. Bad \in SUBSET (SUBSET R)
    OBVIOUS
  <2>. HIDE DEF Bad
  <2>. QED  BY <1>0, <1>1, <2>1, BySize
<1>. QED  BY <1>2

Requested == Request \cup {Idle}

\* A request that has begun has every field, and names rows that exist.
LEMMA ActiveRequest ==
  ASSUME TypeOK, NEW r \in Requests, request[r].phase # "idle"
  PROVE  /\ request[r] \in Request
         /\ request[r].token \in Tokens /\ request[r].key \in Keys /\ request[r].body \in Bodies
         /\ request[r].current \in Declarations \cup {NoDeclaration}
         /\ TargetOf(r) \in Targets /\ DeclarationOf(r) \in Declarations
         /\ StoredFor(r) \in Answers
<1>1. request[r] \in Request
  BY DEF TypeOK, Idle
<1>2. /\ request[r].token \in Tokens /\ request[r].key \in Keys /\ request[r].body \in Bodies
      /\ request[r].current \in Declarations \cup {NoDeclaration}
  BY <1>1 DEF Request
<1>3. TargetOf(r) \in Targets
  BY <1>2, TokensHaveTargets DEF TargetOf
<1>4. DeclarationOf(r) \in Declarations
  BY <1>2 DEF DeclarationOf, Canonical, Bodies, Declarations
<1>5. StoredFor(r) \in Answers
  BY <1>2 DEF StoredFor, TypeOK
<1>. QED  BY <1>1, <1>2, <1>3, <1>4, <1>5

\* A request takes a new value, and no other does.
Becomes(r, q) ==
  /\ q \in Request
  /\ request' = [request EXCEPT ![r] = q]

\* Replacing one request by a typed one keeps the requests typed.
LEMMA BecomesTyped ==
  ASSUME TypeOK, NEW r \in Requests, NEW q, Becomes(r, q)
  PROVE  /\ request' \in [Requests -> Request \cup {Idle}]
         /\ request'[r] = q
         /\ \A o \in Requests \ {r} : request'[o] = request[o]
BY DEF TypeOK, Becomes

Went(r, phase) == [request[r] EXCEPT !.phase = phase]
Failed(r, cause) == [request[r] EXCEPT !.phase = "failed", !.cause = cause]
Finished(r, answer, first) ==
  [request[r] EXCEPT !.phase = "done", !.answer = answer, !.first = first,
                     !.current = NoDeclaration, !.others = 0, !.fresh = FALSE, !.cause = "none"]

\* What the steps of a request make of its record.
LEMMA WentFields ==
  ASSUME NEW r \in Requests, request[r] \in Request, NEW phase \in Phases
  PROVE  LET q == Went(r, phase)
         IN /\ q \in Request /\ q.phase = phase
            /\ q.token = request[r].token /\ q.body = request[r].body
            /\ q.fresh = request[r].fresh /\ q.current = request[r].current
            /\ q.answer = request[r].answer
BY DEF Went, Request

\* The record after a batch that was refused.
LEMMA FailedFields ==
  ASSUME NEW r \in Requests, request[r] \in Request,
         NEW cause \in {"none", "key", "malformed", "limit", "other"}
  PROVE  LET q == Failed(r, cause)
         IN /\ q \in Request /\ q.phase = "failed"
            /\ q.token = request[r].token /\ q.body = request[r].body
            /\ q.fresh = request[r].fresh /\ q.current = request[r].current
            /\ q.answer = request[r].answer
BY DEF Failed, Request, Phases

\* The record after an answer.
LEMMA FinishedFields ==
  ASSUME NEW r \in Requests, request[r] \in Request,
         NEW answer \in Succeeded \cup Refused \cup {"none", "lost"}, NEW first \in BOOLEAN
  PROVE  LET q == Finished(r, answer, first)
         IN /\ q \in Request /\ q.phase = "done" /\ q.answer = answer /\ q.first = first
            /\ q.token = request[r].token /\ q.body = request[r].body
BY DEF Finished, Request, Phases

Begun(r, k, i, body) ==
  [phase |-> "authenticated", token |-> k, key |-> i, body |-> body,
   fresh |-> FALSE, current |-> NoDeclaration, others |-> 0, cause |-> "none",
   answer |-> "none", first |-> TRUE]

\* The record of a call whose token is active.
LEMMA BegunFields ==
  ASSUME NEW r, NEW k \in Tokens, NEW i \in Keys, NEW body \in Bodies
  PROVE  LET sent == Begun(r, k, i, body)
         IN sent \in Request /\ sent.phase = "authenticated" /\ sent.token = k
BY DEF Begun, Request, Phases

\* The record of a call whose token is not active.
LEMMA RefusedFields ==
  ASSUME NEW sent \in Request
  PROVE  LET refused == [sent EXCEPT !.phase = "done", !.answer = "invalid_token"]
         IN /\ refused \in Request /\ refused.phase = "done" /\ refused.token = sent.token
            /\ refused.answer = "invalid_token"
BY DEF Request, Phases, Refused

Admitted(r, fresh) == [request[r] EXCEPT !.phase = "started", !.fresh = fresh]
\* The record after `apply` has fixed its `now`.
LEMMA AdmittedFields ==
  ASSUME NEW r \in Requests, request[r] \in Request, NEW fresh \in BOOLEAN
  PROVE  LET q == Admitted(r, fresh)
         IN /\ q \in Request /\ q.phase = "started" /\ q.fresh = fresh
            /\ q.token = request[r].token /\ q.body = request[r].body
BY DEF Admitted, Request, Phases

Seen(r, current, others, phase) ==
  [request[r] EXCEPT !.current = current, !.others = others, !.phase = phase]
\* The record after the current declaration was read.
LEMMA SeenFields ==
  ASSUME NEW r \in Requests, request[r] \in Request,
         NEW current \in Declarations \cup {NoDeclaration}, NEW others \in Nat,
         NEW phase \in {"read", "current"}
  PROVE  LET q == Seen(r, current, others, phase)
         IN /\ q \in Request /\ q.phase = phase /\ q.current = current
            /\ q.fresh = request[r].fresh
            /\ q.token = request[r].token /\ q.body = request[r].body
BY DEF Seen, Request, Phases

-----------------------------------------------------------------------------
(* The number of schedules *)

Counts(state) == [u \in Targets |-> SizeOfDeclaration(state[u])]

\* A declaration has a natural number of schedules.
LEMMA SizeIsNatural ==
  ASSUME NEW d \in Declarations \cup {NoDeclaration}
  PROVE  SizeOfDeclaration(d) \in Nat
BY SizesAreNumbers, NoDeclarationIsNone DEF SizeOfDeclaration, Declarations

\* The numbers of schedules of every Target's declaration.
LEMMA CountsTyped ==
  ASSUME NEW state \in [Targets -> Declarations \cup {NoDeclaration}]
  PROVE  Counts(state) \in [Targets -> Nat]
BY SizeIsNatural DEF Counts

\* Others is the sum of the other targets' declarations.
LEMMA OthersIsSum ==
  ASSUME registered \in [Targets -> Declarations \cup {NoDeclaration}], NEW t \in Targets
  PROVE  \E g : /\ IsSum(g, Counts(registered), Targets \ {t})
                /\ Others(t) = g[Targets \ {t}]
<1>. DEFINE S == Targets \ {t}
            Body(g) == [s \in SUBSET S |-> IF s = {} THEN 0
                ELSE SizeOfDeclaration(registered[Some(s)]) + g[s \ {Some(s)}]]
            F == [u \in S |-> SizeOfDeclaration(registered[u])]
            h == CHOOSE g : g = Body(g)
<1>1. F \in [S -> Nat] /\ IsFiniteSet(S)
  BY SizeIsNatural, TargetsAreFinite, FS_RemoveElement
<1>2. PICK g : IsSum(g, F, S)
  <2>. HIDE DEF F, S
  <2>. QED  BY <1>1, SumExists
<1>3. \A x, s : s \in SUBSET S /\ s # {} =>
        /\ F[Some(s)] = SizeOfDeclaration(registered[Some(s)])
        /\ Counts(registered)[Some(s)] = SizeOfDeclaration(registered[Some(s)])
  <2>1. \A s : s \in SUBSET S /\ s # {} => Some(s) \in S
    BY SomeIsMember
  <2>. QED  BY <2>1 DEF Counts
<1>4. g = Body(g)
  <2>1. g = [s \in SUBSET S |-> IF s = {} THEN 0 ELSE F[Some(s)] + g[s \ {Some(s)}]]
    BY <1>2 DEF IsSum
  <2>. HIDE DEF F, S
  <2>2. \A s \in SUBSET S : (IF s = {} THEN 0 ELSE F[Some(s)] + g[s \ {Some(s)}])
          = (IF s = {} THEN 0 ELSE SizeOfDeclaration(registered[Some(s)]) + g[s \ {Some(s)}])
    BY <1>3
  <2>. QED  BY <2>1, <2>2
<1>5. h = Body(h)
  <2>. HIDE DEF Body
  <2>. QED  BY <1>4
<1>6. Others(t) = h[S]
  BY DEF Others, MapThenSumSet, MapThenFoldSet, Some
<1>. HIDE DEF h
<1>7. IsSum(h, Counts(registered), S)
  <2>. HIDE DEF F, S
  <2>1. \A s \in SUBSET S :
          (IF s = {} THEN 0 ELSE Counts(registered)[Some(s)] + h[s \ {Some(s)}])
          = (IF s = {} THEN 0 ELSE SizeOfDeclaration(registered[Some(s)]) + h[s \ {Some(s)}])
    BY <1>3
  <2>. QED  BY <1>5, <2>1 DEF IsSum
<1>. QED  BY <1>6, <1>7

\* The sum over the other Targets is a number.
LEMMA SumOverSubset ==
  ASSUME NEW state \in [Targets -> Declarations \cup {NoDeclaration}], NEW t \in Targets,
         NEW h, IsSum(h, Counts(state), Targets \ {t})
  PROVE  h[Targets \ {t}] \in Nat
<1>. DEFINE S == Targets \ {t}
            F == [u \in S |-> Counts(state)[u]]
<1>1. F \in [S -> Nat] /\ IsFiniteSet(S)
  BY CountsTyped, TargetsAreFinite, FS_RemoveElement
<1>2. PICK g : IsSum(g, F, S)
  <2>. HIDE DEF F, S
  <2>. QED  BY <1>1, SumExists
<1>3. \A x \in S : F[x] = Counts(state)[x]
  OBVIOUS
<1>. HIDE DEF F, S
<1>4. IsSum(h, Counts(state), S)
  BY DEF S
<1>5. \A s \in SUBSET S : g[s] = h[s]
  BY <1>1, <1>2, <1>3, <1>4, SumsAgree
<1>6. g[S] \in Nat
  BY <1>1, <1>2, SumIsNatural
<1>. QED  BY <1>5, <1>6 DEF S

\* Others, the number the capacity is compared with, is a number.
LEMMA OthersIsNatural ==
  ASSUME registered \in [Targets -> Declarations \cup {NoDeclaration}], NEW t \in Targets
  PROVE  Others(t) \in Nat
BY OthersIsSum, SumOverSubset

-----------------------------------------------------------------------------
(* What is true of a request, given the tokens and the bound revisions *)

Clash(bound, d) == \E e \in bound : e.revision = d.revision /\ e # d

\* The phases after `now` is fixed.
Fixed == {"started", "current", "history", "read", "noop", "apply", "failed",
          "blame revision", "blame token", "blame capacity"}

RequestSound(q, tokens, history) ==
  /\ q.phase # "idle" => tokens[q.token] # "unissued"
  /\ q.phase \in Fixed /\ ~q.fresh => tokens[q.token] # "active"
  /\ q.phase = "noop" => q.current = Canonical(q.body)
  /\ q.phase = "done" /\ q.answer = "revision_conflict" =>
       Clash(history[TokenTarget[q.token]], Canonical(q.body))
  /\ q.phase = "done" /\ q.answer = "invalid_token" => tokens[q.token] # "active"

RequestsAreSound == \A r \in Requests : RequestSound(request[r], token, revisions)

\* An answer of success that is no repeat comes from a batch.
IsEarned(r, q) == q.phase = "done" /\ q.answer \in Succeeded /\ q.first => Commit(r)

Moves(r) ==
  \E q : Becomes(r, q) /\ RequestSound(q, token, revisions) /\ IsEarned(r, q)

\* Authenticate: a refusal blames a token that is not active.
LEMMA AuthenticateMoves ==
  ASSUME TypeOK, NEW r \in Requests, Authenticate(r) PROVE Moves(r)
<1>1. PICK k \in Tokens, i \in Keys, body \in Bodies :
        /\ token[k] # "unissued"
        /\ request' = [request EXCEPT ![r] =
             IF token[k] = "active" THEN Begun(r, k, i, body)
             ELSE [Begun(r, k, i, body) EXCEPT !.phase = "done", !.answer = "invalid_token"]]
  BY DEF Authenticate, Begun
<1>. DEFINE sent == Begun(r, k, i, body)
            refused == [sent EXCEPT !.phase = "done", !.answer = "invalid_token"]
<1>2. /\ sent \in Request /\ sent.phase = "authenticated" /\ sent.token = k
      /\ refused \in Request /\ refused.phase = "done" /\ refused.token = k
      /\ refused.answer = "invalid_token"
  <2>. HIDE DEF sent
  <2>1. sent \in Request /\ sent.phase = "authenticated" /\ sent.token = k
    BY BegunFields DEF sent
  <2>. QED  BY <2>1, RefusedFields
<1>3. CASE token[k] = "active"
  <2>1. Becomes(r, sent)
    BY <1>1, <1>2, <1>3 DEF Becomes
  <2>2. RequestSound(sent, token, revisions) /\ IsEarned(r, sent)
    <3>. HIDE DEF sent
    <3>. QED  BY <1>1, <1>2 DEF RequestSound, Fixed, IsEarned
  <2>. QED  BY <2>1, <2>2 DEF Moves
<1>4. CASE token[k] # "active"
  <2>1. Becomes(r, refused)
    BY <1>1, <1>2, <1>4 DEF Becomes
  <2>2. RequestSound(refused, token, revisions) /\ IsEarned(r, refused)
    <3>. HIDE DEF refused
    <3>. QED  BY <1>1, <1>2, <1>4 DEF RequestSound, Fixed, IsEarned, Succeeded
  <2>. QED  BY <2>1, <2>2 DEF Moves
<1>. QED  BY <1>3, <1>4

\* A request goes on to a phase that says nothing new.
LEMMA GotoMoves ==
  ASSUME TypeOK, NEW r \in Requests, RequestSound(request[r], token, revisions),
         request[r].phase \in Fixed, NEW phase \in Fixed, Goto(r, phase),
         phase = "noop" => request[r].current = DeclarationOf(r)
  PROVE  Moves(r)
<1>. DEFINE q == Went(r, phase)
<1>1. request[r] \in Request
  BY ActiveRequest DEF Fixed
<1>2. /\ q \in Request /\ q.phase = phase
      /\ q.token = request[r].token /\ q.body = request[r].body
      /\ q.fresh = request[r].fresh /\ q.current = request[r].current
  <2>1. phase \in Phases
    BY DEF Fixed, Phases
  <2>. QED  BY <1>1, <2>1, WentFields
<1>3. Becomes(r, q)
  BY <1>2 DEF Goto, Becomes, Went
<1>. HIDE DEF q
<1>4. RequestSound(q, token, revisions) /\ IsEarned(r, q)
  BY <1>2 DEF RequestSound, Fixed, IsEarned, DeclarationOf
<1>. QED  BY <1>3, <1>4 DEF Moves

\* A batch that fails: the cause is known, the rest as it was.
LEMMA FailMoves ==
  ASSUME TypeOK, NEW r \in Requests, RequestSound(request[r], token, revisions),
         request[r].phase \in Fixed,
         NEW cause \in {"none", "key", "malformed", "limit", "other"}, Fail(r, cause)
  PROVE  Moves(r)
<1>. DEFINE q == Failed(r, cause)
<1>1. request[r] \in Request
  BY ActiveRequest DEF Fixed
<1>2. /\ q \in Request /\ q.phase = "failed"
      /\ q.token = request[r].token /\ q.body = request[r].body
      /\ q.fresh = request[r].fresh
  BY <1>1, FailedFields
<1>3. Becomes(r, q)
  BY <1>2 DEF Fail, Becomes, Failed
<1>. HIDE DEF q
<1>4. RequestSound(q, token, revisions) /\ IsEarned(r, q)
  BY <1>2 DEF RequestSound, Fixed, IsEarned
<1>. QED  BY <1>3, <1>4 DEF Moves

\* A request ends with an answer that is true.
LEMMA FinishMoves ==
  ASSUME TypeOK, NEW r \in Requests, RequestSound(request[r], token, revisions),
         request[r].phase # "idle",
         NEW answer \in Succeeded \cup Refused \cup {"none", "lost"}, NEW first \in BOOLEAN,
         Finish(r, answer, first),
         answer = "revision_conflict" => Conflicts(TargetOf(r), DeclarationOf(r)),
         answer = "invalid_token" => token[request[r].token] # "active",
         answer \in Succeeded /\ first => Commit(r)
  PROVE  Moves(r)
<1>. DEFINE q == Finished(r, answer, first)
<1>1. request[r] \in Request
  BY ActiveRequest
<1>2. /\ q \in Request /\ q.phase = "done" /\ q.answer = answer /\ q.first = first
      /\ q.token = request[r].token /\ q.body = request[r].body
  BY <1>1, FinishedFields
<1>3. Becomes(r, q)
  BY <1>2 DEF Finish, Becomes, Finished
<1>. HIDE DEF q
<1>4. RequestSound(q, token, revisions)
  BY <1>2 DEF RequestSound, Fixed, Conflicts, Clash, TargetOf, DeclarationOf
<1>5. IsEarned(r, q)
  BY <1>2 DEF IsEarned
<1>. QED  BY <1>3, <1>4, <1>5 DEF Moves

\* A stored answer is an answer.
LEMMA ReplayedTyped ==
  ASSUME TypeOK, NEW r \in Requests, request[r].phase # "idle", StoredFor(r).kept = "valid"
  PROVE  Replayed(r) \in Succeeded \cup {"key_conflict"}
<1>1. StoredFor(r) \in Answers
  BY ActiveRequest
<1>2. StoredFor(r).answer \in Succeeded
  BY <1>1 DEF Answers, NoAnswer
<1>. QED  BY <1>2 DEF Replayed

\* A replayed answer says nothing that has to be earned.
LEMMA ReplayMoves ==
  ASSUME TypeOK, NEW r \in Requests, RequestSound(request[r], token, revisions),
         request[r].phase # "idle", StoredFor(r).kept = "valid",
         Finish(r, Replayed(r), FALSE)
  PROVE  Moves(r)
<1>1. Replayed(r) \in Succeeded \cup {"key_conflict"}
  BY ReplayedTyped
<1>. HIDE DEF Finish
<1>2. /\ Replayed(r) \in Succeeded \cup Refused \cup {"none", "lost"}
      /\ Replayed(r) # "revision_conflict" /\ Replayed(r) # "invalid_token"
  BY <1>1 DEF Succeeded, Refused
<1>. QED  BY <1>2, FinishMoves

\* An answer of its own that is no success and blames neither revision nor token.
LEMMA PlainAnswerMoves ==
  ASSUME TypeOK, NEW r \in Requests, RequestSound(request[r], token, revisions),
         request[r].phase # "idle",
         NEW answer \in {"limit", "concurrent", "key_conflict", "invalid", "error", "lost"},
         Answer(r, answer)
  PROVE  Moves(r)
<1>1. /\ answer \in Succeeded \cup Refused \cup {"none", "lost"} /\ answer \notin Succeeded
      /\ answer # "revision_conflict" /\ answer # "invalid_token"
  BY DEF Succeeded, Refused
<1>. QED  BY <1>1, FinishMoves DEF Answer

\* The answer revision_conflict names a revision that is bound otherwise.
LEMMA ConflictMoves ==
  ASSUME TypeOK, NEW r \in Requests, RequestSound(request[r], token, revisions),
         request[r].phase # "idle", Conflicts(TargetOf(r), DeclarationOf(r)),
         Answer(r, "revision_conflict")
  PROVE  Moves(r)
<1>1. "revision_conflict" \in Succeeded \cup Refused \cup {"none", "lost"}
        /\ "revision_conflict" \notin Succeeded
  BY DEF Succeeded, Refused
<1>. QED  BY <1>1, FinishMoves DEF Answer

\* Start: `fresh` tells that the token was active.
LEMMA StartMoves ==
  ASSUME TypeOK, NEW r \in Requests, RequestSound(request[r], token, revisions), Start(r)
  PROVE  Moves(r)
<1>1. request[r].phase = "authenticated" /\ request[r] \in Request
  BY ActiveRequest DEF Start
<1>2. CASE Answer(r, "invalid")
  BY <1>1, <1>2, PlainAnswerMoves
<1>3. CASE StoredFor(r).kept = "valid" /\ Finish(r, Replayed(r), FALSE)
  BY <1>1, <1>3, ReplayMoves
<1>4. CASE request' = [request EXCEPT ![r] = Admitted(r, token[request[r].token] = "active")]
  <2>. DEFINE fresh == token[request[r].token] = "active"
              q == Admitted(r, fresh)
  <2>1. fresh \in BOOLEAN
    OBVIOUS
  <2>2. /\ q \in Request /\ q.phase = "started" /\ q.fresh = fresh
        /\ q.token = request[r].token /\ q.body = request[r].body
    <3>. HIDE DEF fresh
    <3>. QED  BY <1>1, <2>1, AdmittedFields
  <2>3. Becomes(r, q)
    BY <1>4, <2>2 DEF Becomes
  <2>4. token[q.token] # "unissued" /\ (~q.fresh => token[q.token] # "active")
    <3>. HIDE DEF q
    <3>. QED  BY <1>1, <2>2 DEF RequestSound
  <2>. HIDE DEF q
  <2>5. RequestSound(q, token, revisions) /\ IsEarned(r, q)
    BY <2>2, <2>4 DEF RequestSound, IsEarned
  <2>. QED  BY <2>3, <2>5 DEF Moves
<1>. QED  BY <1>2, <1>3, <1>4 DEF Start, Admitted

\* ReadCurrent: what was current was bound, as it still is.
LEMMA ReadCurrentMoves ==
  ASSUME TypeOK, NEW r \in Requests, RequestSound(request[r], token, revisions), ReadCurrent(r)
  PROVE  Moves(r)
<1>. DEFINE phase == IF request[r].phase = "history" THEN "read" ELSE "current"
            q == Seen(r, registered[TargetOf(r)], Others(TargetOf(r)), phase)
<1>1. request[r].phase \in {"started", "history"}
  BY DEF ReadCurrent
<1>2. request[r] \in Request /\ TargetOf(r) \in Targets
  BY <1>1, ActiveRequest
<1>3. registered[TargetOf(r)] \in Declarations \cup {NoDeclaration} /\ Others(TargetOf(r)) \in Nat
  BY <1>2, OthersIsNatural DEF TypeOK
<1>4. phase \in {"read", "current"}
  OBVIOUS
<1>5. Becomes(r, q) /\ q.phase = phase /\ q.fresh = request[r].fresh
        /\ q.token = request[r].token /\ q.body = request[r].body
  <2>. HIDE DEF phase
  <2>1. /\ q \in Request /\ q.phase = phase /\ q.fresh = request[r].fresh
        /\ q.token = request[r].token /\ q.body = request[r].body
    BY <1>2, <1>3, <1>4, SeenFields
  <2>. QED  BY <2>1 DEF ReadCurrent, Becomes, Seen, phase
<1>. HIDE DEF q, phase
<1>6. RequestSound(q, token, revisions) /\ IsEarned(r, q)
  BY <1>1, <1>4, <1>5 DEF RequestSound, Fixed, IsEarned
<1>. QED  BY <1>5, <1>6 DEF Moves

\* ReadHistory blames only a revision in the history.
LEMMA ReadHistoryMoves ==
  ASSUME TypeOK, NEW r \in Requests, RequestSound(request[r], token, revisions), ReadHistory(r)
  PROVE  Moves(r)
<1>1. request[r].phase \in Fixed /\ request[r].phase # "idle"
  BY DEF ReadHistory, Fixed
<1>2. CASE Conflicts(TargetOf(r), DeclarationOf(r)) /\ Answer(r, "revision_conflict")
  BY <1>1, <1>2, ConflictMoves
<1>3. ASSUME NEW phase \in {"read", "history"}, Goto(r, phase) PROVE Moves(r)
  BY <1>1, <1>3, GotoMoves DEF Fixed
<1>. QED  BY <1>2, <1>3 DEF ReadHistory

\* CheckCapacity: a no-op is the declaration that was read.
LEMMA CheckCapacityMoves ==
  ASSUME TypeOK, NEW r \in Requests, RequestSound(request[r], token, revisions), CheckCapacity(r)
  PROVE  Moves(r)
<1>1. request[r].phase \in Fixed /\ request[r].phase # "idle"
  BY DEF CheckCapacity, Fixed
<1>2. CASE Answer(r, "limit")
  BY <1>1, <1>2, PlainAnswerMoves
<1>3. CASE request[r].current = DeclarationOf(r) /\ Goto(r, "noop")
  BY <1>1, <1>3, GotoMoves DEF Fixed
<1>4. CASE Goto(r, "apply")
  BY <1>1, <1>4, GotoMoves DEF Fixed
<1>. QED  BY <1>2, <1>3, <1>4 DEF CheckCapacity

\* Commit: success, or a failure after the batch.
LEMMA CommitMoves ==
  ASSUME TypeOK, NEW r \in Requests, RequestSound(request[r], token, revisions), Commit(r)
  PROVE  Moves(r)
<1>1. request[r].phase \in Fixed /\ request[r].phase # "idle"
  BY DEF Commit, Fixed
<1>2. \/ \E answer \in Succeeded : Answer(r, answer)
      \/ Fail(r, "other")
  BY DEF Commit, Succeeded
<1>3. ASSUME NEW answer \in Succeeded, Answer(r, answer) PROVE Moves(r)
  <2>1. answer \in Succeeded \cup Refused \cup {"none", "lost"}
          /\ answer # "revision_conflict" /\ answer # "invalid_token"
    BY DEF Succeeded
  <2>. QED  BY <1>1, <1>3, <2>1, FinishMoves DEF Answer
<1>. QED  BY <1>1, <1>2, <1>3, FailMoves

\* CommitFails: the cause is one of the failures.
LEMMA CommitFailsMoves ==
  ASSUME TypeOK, NEW r \in Requests, RequestSound(request[r], token, revisions), CommitFails(r)
  PROVE  Moves(r)
<1>1. request[r].phase \in Fixed
  BY DEF CommitFails, Fixed
<1>2. PICK cause \in {"none", "key", "malformed", "limit", "other"} : Fail(r, cause)
  BY DEF CommitFails, BatchFailures
<1>. QED  BY <1>1, <1>2, FailMoves

\* FindRaced: a replay, a plain answer, or the first question.
LEMMA FindRacedMoves ==
  ASSUME TypeOK, NEW r \in Requests, RequestSound(request[r], token, revisions), FindRaced(r)
  PROVE  Moves(r)
<1>1. request[r].phase \in Fixed /\ request[r].phase # "idle"
  BY DEF FindRaced, Fixed
<1>2. CASE StoredFor(r).kept = "valid" /\ Finish(r, Replayed(r), FALSE)
  BY <1>1, <1>2, ReplayMoves
<1>3. CASE Answer(r, "limit") \/ Answer(r, "error")
  BY <1>1, <1>3, PlainAnswerMoves
<1>4. CASE Goto(r, "blame revision")
  BY <1>1, <1>4, GotoMoves DEF Fixed
<1>. QED  BY <1>2, <1>3, <1>4 DEF FindRaced

\* The three questions of rethrowRegistrationError.
LEMMA BlameMoves ==
  ASSUME TypeOK, NEW r \in Requests, RequestSound(request[r], token, revisions),
         BlameRevision(r) \/ BlameToken(r) \/ BlameCapacity(r)
  PROVE  Moves(r)
<1>1. request[r].phase \in Fixed /\ request[r].phase # "idle"
  BY DEF BlameRevision, BlameToken, BlameCapacity, Fixed
<1>2. CASE Conflicts(TargetOf(r), DeclarationOf(r)) /\ Answer(r, "revision_conflict")
  BY <1>1, <1>2, ConflictMoves
<1>3. CASE Goto(r, "blame token") \/ Goto(r, "blame capacity")
  BY <1>1, <1>3, GotoMoves DEF Fixed
<1>4. CASE ~TokenIsActive(r) /\ Answer(r, "invalid_token")
  <2>1. token[request[r].token] # "active"
    BY <1>1, <1>4 DEF TokenIsActive, RequestSound
  <2>2. "invalid_token" \in Succeeded \cup Refused \cup {"none", "lost"}
          /\ "invalid_token" \notin Succeeded
    BY DEF Succeeded, Refused
  <2>. QED  BY <1>1, <1>4, <2>1, <2>2, FinishMoves DEF Answer
<1>5. CASE Answer(r, "limit") \/ Answer(r, "concurrent")
  BY <1>1, <1>5, PlainAnswerMoves
<1>. QED  BY <1>2, <1>3, <1>4, <1>5 DEF BlameRevision, BlameToken, BlameCapacity

\* A request whose answer is lost claims nothing.
LEMMA AbandonMoves ==
  ASSUME TypeOK, NEW r \in Requests, RequestSound(request[r], token, revisions), Abandon(r)
  PROVE  Moves(r)
BY PlainAnswerMoves DEF Abandon

RequestStep(r) ==
  \/ Authenticate(r) \/ Start(r) \/ ReadCurrent(r) \/ ReadHistory(r) \/ CheckCapacity(r)
  \/ Commit(r) \/ CommitFails(r) \/ FindRaced(r)
  \/ BlameRevision(r) \/ BlameToken(r) \/ BlameCapacity(r) \/ Abandon(r)

\* Each step of a request keeps what is true of it.
LEMMA StepMoves ==
  ASSUME TypeOK, NEW r \in Requests, RequestSound(request[r], token, revisions), RequestStep(r)
  PROVE  Moves(r)
BY AuthenticateMoves, StartMoves, ReadCurrentMoves, ReadHistoryMoves, CheckCapacityMoves,
   CommitMoves, CommitFailsMoves, FindRacedMoves, BlameMoves, AbandonMoves DEF RequestStep

-----------------------------------------------------------------------------
(* The inductive invariant *)

CurrentIsBound == \A t \in Targets : registered[t] # NoDeclaration => registered[t] \in revisions[t]

RegistrationInv == TypeOK /\ RequestsAreSound /\ CurrentIsBound

\* What is never undone: a token leaves "unissued" for good and is active only
\* once, and a revision stays bound.
WorldMoves ==
  /\ \A k \in Tokens : /\ token[k] # "unissued" => token'[k] # "unissued"
                       /\ token[k] \notin {"unissued", "active"} => token'[k] # "active"
  /\ \A t \in Targets : revisions[t] \subseteq revisions'[t]

\* What is true of a request stays true whatever the tables do.
LEMMA SoundStays ==
  ASSUME WorldMoves, NEW q \in Request \cup {Idle}, RequestSound(q, token, revisions)
  PROVE  RequestSound(q, token', revisions')
<1>1. CASE q = Idle
  BY <1>1 DEF RequestSound, Idle, Fixed
<1>2. CASE q \in Request
  <2>1. q.token \in Tokens /\ TokenTarget[q.token] \in Targets
    BY <1>2, TokensHaveTargets DEF Request
  <2>2. /\ token[q.token] # "unissued" => token'[q.token] # "unissued"
        /\ token[q.token] \notin {"unissued", "active"} => token'[q.token] # "active"
        /\ revisions[TokenTarget[q.token]] \subseteq revisions'[TokenTarget[q.token]]
    BY <2>1 DEF WorldMoves
  <2>3. Clash(revisions[TokenTarget[q.token]], Canonical(q.body))
          => Clash(revisions'[TokenTarget[q.token]], Canonical(q.body))
    BY <2>2 DEF Clash
  <2>4. q.phase \in Fixed => q.phase # "idle"
    BY DEF Fixed
  <2>5. q.phase = "done" => q.phase # "idle"
    OBVIOUS
  <2>. QED  BY <2>2, <2>3, <2>4, <2>5 DEF RequestSound
<1>. QED  BY <1>1, <1>2

\* The invariant holds when nothing is registered.
LEMMA InitInv == Init => RegistrationInv
<1>. SUFFICES ASSUME Init PROVE RegistrationInv
  OBVIOUS
<1>1. TypeOK
  BY DEF Init, InitCredentials, TypeOK, Statuses, Answers
<1>2. RequestsAreSound
  BY DEF Init, RequestsAreSound, RequestSound, Idle, Fixed
<1>3. CurrentIsBound
  BY DEF Init, CurrentIsBound
<1>. QED  BY <1>1, <1>2, <1>3 DEF RegistrationInv

TablesOK ==
  /\ token \in [Tokens -> Statuses]
  /\ heir \in [Tokens -> Tokens \cup {NoToken}]
  /\ capacity \in Capacities
  /\ registered \in [Targets -> Declarations \cup {NoDeclaration}]
  /\ revisions \in [Targets -> SUBSET Declarations]
  /\ stored \in [Tokens -> [Keys -> Answers]]

RequestsOK == request \in [Requests -> Request \cup {Idle}]

TokensMove ==
  /\ token' \in [Tokens -> Statuses] /\ heir' \in [Tokens -> Tokens \cup {NoToken}]
  /\ \A k \in Tokens : /\ token[k] # "unissued" => token'[k] # "unissued"
                       /\ token[k] \notin {"unissued", "active"} => token'[k] # "active"

\* A step of the tokens undoes no revocation.
LEMMA ManageMovesTokens ==
  ASSUME TypeOK, Manage PROVE TokensMove
<1>1. /\ token \in [Tokens -> Statuses] /\ heir \in [Tokens -> Tokens \cup {NoToken}]
  BY DEF TypeOK
<1>2. ASSUME NEW k \in Tokens, Issue(k) \/ Revoke(k) PROVE TokensMove
  BY <1>1, <1>2 DEF Issue, Revoke, Statuses, TokensMove
<1>3. ASSUME NEW some \in SUBSET Tokens, Expire(some) PROVE TokensMove
  BY <1>1, <1>3 DEF Expire, Statuses, TokensMove
<1>4. ASSUME NEW old \in Tokens, NEW new \in Tokens, Rotate(old, new) PROVE TokensMove
  BY <1>1, <1>4 DEF Rotate, Statuses, TokensMove
<1>. QED  BY <1>2, <1>3, <1>4 DEF Manage

\* The administration of tokens leaves the declarations alone.
LEMMA ManageWorld ==
  ASSUME RegistrationInv, ManageTokens PROVE TablesOK' /\ WorldMoves /\ CurrentIsBound'
<1>1. UNCHANGED <<capacity, registered, revisions, stored>> /\ TokensMove
  BY ManageMovesTokens DEF RegistrationInv, ManageTokens, tables
<1>2. TablesOK'
  BY <1>1 DEF RegistrationInv, TypeOK, TablesOK, TokensMove
<1>. QED  BY <1>1, <1>2 DEF RegistrationInv, WorldMoves, TokensMove, CurrentIsBound

\* A step that changes stored answers only.
LEMMA SameWorld ==
  ASSUME RegistrationInv, UNCHANGED <<credentials, capacity, registered, revisions>>,
         stored' \in [Tokens -> [Keys -> Answers]]
  PROVE  TablesOK' /\ WorldMoves /\ CurrentIsBound'
<1>1. UNCHANGED <<token, heir, capacity, registered, revisions>>
  BY DEF credentials
<1>2. TablesOK'
  BY <1>1 DEF RegistrationInv, TypeOK, TablesOK
<1>. QED  BY <1>1, <1>2 DEF RegistrationInv, WorldMoves, CurrentIsBound

\* A stored answer expires or is removed.
LEMMA AnswerWorld ==
  ASSUME RegistrationInv, NEW k \in Tokens, NEW i \in Keys,
         AnswerExpires(k, i) \/ CleanupAnswer(k, i)
  PROVE  TablesOK' /\ WorldMoves /\ CurrentIsBound'
<1>1. stored \in [Tokens -> [Keys -> Answers]] /\ stored[k] \in [Keys -> Answers]
  BY DEF RegistrationInv, TypeOK
<1>2. CASE AnswerExpires(k, i)
  <2>. DEFINE a == [stored[k][i] EXCEPT !.kept = "expired"]
  <2>1. stored[k][i] \in [kept: {"valid", "expired"}, body: Bodies, answer: Succeeded]
    BY <1>1, <1>2 DEF AnswerExpires, Answers, NoAnswer
  <2>2. a \in Answers
    BY <2>1 DEF Answers
  <2>3. stored' = [stored EXCEPT ![k] = [stored[k] EXCEPT ![i] = a]]
    BY <1>2 DEF AnswerExpires
  <2>. HIDE DEF a
  <2>4. stored' \in [Tokens -> [Keys -> Answers]]
    BY <1>1, <2>2, <2>3
  <2>. QED  BY <1>2, <2>4, SameWorld DEF AnswerExpires
<1>3. CASE CleanupAnswer(k, i)
  <2>1. NoAnswer \in Answers
    BY DEF Answers
  <2>2. stored' \in [Tokens -> [Keys -> Answers]]
    BY <1>1, <1>3, <2>1 DEF CleanupAnswer
  <2>. QED  BY <1>3, <2>2, SameWorld DEF CleanupAnswer
<1>. QED  BY <1>2, <1>3

\* A new capacity changes no declaration.
LEMMA CapacityWorld ==
  ASSUME RegistrationInv, SetCapacity PROVE TablesOK' /\ WorldMoves /\ CurrentIsBound'
<1>1. UNCHANGED <<token, heir, registered, revisions, stored>> /\ capacity' \in Capacities
  BY DEF SetCapacity, credentials
<1>. QED  BY <1>1 DEF RegistrationInv, TypeOK, TablesOK, WorldMoves, CurrentIsBound

\* What a batch leaves in the tables.
LEMMA CommitTables ==
  ASSUME TypeOK, NEW r \in Requests, Commit(r)
  PROVE  LET t == TargetOf(r)
             d == DeclarationOf(r)
         IN /\ t \in Targets /\ d \in Declarations
            /\ registered' = [registered EXCEPT ![t] = d]
            /\ revisions' = [revisions EXCEPT ![t] = revisions[t] \cup {d}]
            /\ registered[t] = request[r].current
            /\ ~Conflicts(t, d)
            /\ token[request[r].token] # "revoked"
            /\ StoredFor(r).kept = "none"
            /\ request[r].phase = "noop" \/ (request[r].phase = "apply" /\ ~Exceeds(t, d))
            /\ UNCHANGED <<token, heir, capacity>>
            /\ stored' \in [Tokens -> [Keys -> Answers]]
<1>1. request[r].phase \in {"noop", "apply"} /\ BatchFailures(r) = {}
  BY DEF Commit
<1>2. /\ request[r].token \in Tokens /\ request[r].key \in Keys /\ request[r].body \in Bodies
      /\ TargetOf(r) \in Targets /\ DeclarationOf(r) \in Declarations
  BY <1>1, ActiveRequest
<1>3. /\ KeyIsFree(r) /\ TokenIsActive(r) /\ RevisionIsBound(TargetOf(r), DeclarationOf(r))
      /\ CurrentIsUnchanged(r)
      /\ request[r].phase = "apply" => Fits(TargetOf(r), DeclarationOf(r))
  BY <1>1 DEF BatchFailures
<1>4. PICK answer \in Succeeded :
        stored' = [stored EXCEPT ![request[r].token] = [stored[request[r].token] EXCEPT
          ![request[r].key] = [kept |-> "valid", body |-> request[r].body, answer |-> answer]]]
  BY DEF Commit, Succeeded
<1>. DEFINE a == [kept |-> "valid", body |-> request[r].body, answer |-> answer]
<1>5. a \in Answers
  BY <1>2 DEF Answers
<1>. HIDE DEF a
<1>6. stored' \in [Tokens -> [Keys -> Answers]]
  BY <1>2, <1>4, <1>5 DEF TypeOK, a
<1>7. /\ registered' = [registered EXCEPT ![TargetOf(r)] = DeclarationOf(r)]
      /\ revisions' = [revisions EXCEPT
           ![TargetOf(r)] = revisions[TargetOf(r)] \cup {DeclarationOf(r)}]
      /\ UNCHANGED <<token, heir, capacity>>
  BY DEF Commit, credentials
<1>. QED
  BY <1>1, <1>2, <1>3, <1>6, <1>7
    DEF KeyIsFree, TokenIsActive, RevisionIsBound, CurrentIsUnchanged, Fits

\* A batch binds what it makes current.
LEMMA CommitWorld ==
  ASSUME RegistrationInv, NEW r \in Requests, Commit(r)
  PROVE  TablesOK' /\ WorldMoves /\ CurrentIsBound'
<1>. DEFINE t == TargetOf(r)
            d == DeclarationOf(r)
<1>1. /\ t \in Targets /\ d \in Declarations
      /\ registered' = [registered EXCEPT ![t] = d]
      /\ revisions' = [revisions EXCEPT ![t] = revisions[t] \cup {d}]
      /\ UNCHANGED <<token, heir, capacity>>
      /\ stored' \in [Tokens -> [Keys -> Answers]]
  BY CommitTables DEF RegistrationInv
<1>. HIDE DEF t, d
<1>2. TablesOK'
  BY <1>1 DEF RegistrationInv, TypeOK, TablesOK
<1>3. WorldMoves
  BY <1>1 DEF RegistrationInv, TypeOK, WorldMoves
<1>4. CurrentIsBound'
  BY <1>1 DEF RegistrationInv, TypeOK, CurrentIsBound
<1>. QED  BY <1>2, <1>3, <1>4

\* A step of a request, a batch or not.
LEMMA RequestWorld ==
  ASSUME RegistrationInv, NEW r \in Requests, RequestStep(r)
  PROVE  TablesOK' /\ WorldMoves /\ CurrentIsBound'
<1>1. CASE UNCHANGED <<credentials, tables>>
  BY <1>1, SameWorld DEF tables, RegistrationInv, TypeOK
<1>. QED
  BY <1>1, CommitWorld DEF RequestStep, Authenticate, Start, ReadCurrent, ReadHistory,
     CheckCapacity, CommitFails, FindRaced, BlameRevision, BlameToken, BlameCapacity, Abandon

\* One step: either one request moves, or none does.
LEMMA OneStep ==
  ASSUME [Next]_vars
  PROVE  \/ \E r \in Requests : RequestStep(r)
         \/ UNCHANGED request /\
              \/ \E k \in Tokens, i \in Keys : AnswerExpires(k, i) \/ CleanupAnswer(k, i)
              \/ ManageTokens \/ SetCapacity \/ UNCHANGED vars
<1>1. \A k \in Tokens, i \in Keys : AnswerExpires(k, i) \/ CleanupAnswer(k, i) => UNCHANGED request
  BY DEF AnswerExpires, CleanupAnswer
<1>2. ManageTokens \/ SetCapacity \/ UNCHANGED vars => UNCHANGED request
  BY DEF ManageTokens, SetCapacity, vars
<1>. QED  BY <1>1, <1>2 DEF Next, RequestStep

\* Every step keeps the tables typed and moves them forward only.
LEMMA WorldStep ==
  ASSUME RegistrationInv, [Next]_vars PROVE TablesOK' /\ WorldMoves /\ CurrentIsBound'
<1>1. CASE UNCHANGED vars
  <2>1. UNCHANGED <<credentials, capacity, registered, revisions, stored>>
    BY <1>1 DEF vars
  <2>. QED  BY <2>1, SameWorld DEF RegistrationInv, TypeOK
<1>. QED  BY <1>1, OneStep, RequestWorld, AnswerWorld, ManageWorld, CapacityWorld

\* Every step keeps what is true of every request.
LEMMA RequestsStep ==
  ASSUME RegistrationInv, [Next]_vars
  PROVE  /\ RequestsOK'
         /\ \A o \in Requests :
              /\ RequestSound(request'[o], token, revisions)
              /\ request'[o] = request[o] \/ IsEarned(o, request'[o])
<1>1. TypeOK /\ \A o \in Requests : RequestSound(request[o], token, revisions)
  BY DEF RegistrationInv, RequestsAreSound
<1>2. CASE UNCHANGED request
  BY <1>1, <1>2 DEF RequestsOK, TypeOK
<1>3. ASSUME NEW r \in Requests, RequestStep(r)
      PROVE  /\ RequestsOK'
             /\ \A o \in Requests :
                  /\ RequestSound(request'[o], token, revisions)
                  /\ request'[o] = request[o] \/ IsEarned(o, request'[o])
  <2>1. Moves(r)
    BY <1>1, <1>3, StepMoves
  <2>2. PICK q : Becomes(r, q) /\ RequestSound(q, token, revisions) /\ IsEarned(r, q)
    BY <2>1 DEF Moves
  <2>3. /\ request' \in [Requests -> Request \cup {Idle}] /\ request'[r] = q
        /\ \A o \in Requests \ {r} : request'[o] = request[o]
    BY <1>1, <2>2, BecomesTyped
  <2>. QED  BY <1>1, <2>2, <2>3 DEF RequestsOK
<1>. QED  BY <1>2, <1>3, OneStep

\* The invariant is inductive.
LEMMA NextInv == RegistrationInv /\ [Next]_vars => RegistrationInv'
<1>. SUFFICES ASSUME RegistrationInv, [Next]_vars PROVE RegistrationInv'
  OBVIOUS
<1>1. TablesOK' /\ WorldMoves /\ CurrentIsBound'
  BY WorldStep
<1>2. RequestsOK' /\ \A o \in Requests : RequestSound(request'[o], token, revisions)
  BY RequestsStep
<1>3. RequestsAreSound'
  <2>. SUFFICES ASSUME NEW o \in Requests PROVE RequestSound(request'[o], token', revisions')
    BY DEF RequestsAreSound, RequestSound
  <2>1. request'[o] \in Request \cup {Idle}
    BY <1>2 DEF RequestsOK
  <2>. QED  BY <1>1, <1>2, <2>1, SoundStays
<1>4. TypeOK'
  BY <1>1, <1>2 DEF TypeOK, TablesOK, RequestsOK
<1>. QED  BY <1>1, <1>3, <1>4 DEF RegistrationInv

\* The inductive invariant holds in every reachable state.
THEOREM RegistrationInvariant == RegistrationSpec => []RegistrationInv
BY InitInv, NextInv, PTL DEF RegistrationSpec

\* Tables and requests keep the shape that the schema and the code give them.
THEOREM RegistrationTypeCorrect == RegistrationSpec => []TypeOK
<1>1. RegistrationInv => TypeOK
  BY DEF RegistrationInv
<1>. QED  BY <1>1, RegistrationInvariant, PTL

-----------------------------------------------------------------------------
(* What a request is told *)

\* A success that is not a replay is told by the step that commits.
LEMMA SuccessIsCommitted ==
  ASSUME RegistrationInv, [Next]_vars, NEW r \in Requests, FirstHandSuccess(r)
  PROVE  Commit(r)
<1>1. request'[r] # request[r]
  BY DEF FirstHandSuccess
<1>. QED  BY <1>1, RequestsStep DEF FirstHandSuccess, IsEarned

\* A request that is told "applied" or "unchanged" has replaced just what it had
\* read, under a token not revoked and a key without an answer; and a refusal
\* blames the revision or the token only when they are to blame.
THEOREM RegistrationTellsTheTruth == RegistrationSpec => OutcomesAreTrue
<1>1. RegistrationInv => RefusalIsTrue
  BY DEF RegistrationInv, RequestsAreSound, RequestSound, RefusalIsTrue, Conflicts, Clash,
         TargetOf, DeclarationOf
<1>2. RegistrationInv /\ [Next]_vars =>
        [\A r \in Requests : FirstHandSuccess(r) =>
           /\ registered'[TargetOf(r)] = DeclarationOf(r)
           /\ registered[TargetOf(r)] = request[r].current]_vars
  <2>. SUFFICES ASSUME RegistrationInv, [Next]_vars, NEW r \in Requests, FirstHandSuccess(r)
                PROVE  /\ registered'[TargetOf(r)] = DeclarationOf(r)
                       /\ registered[TargetOf(r)] = request[r].current
    OBVIOUS
  <2>1. Commit(r) /\ TypeOK
    BY SuccessIsCommitted DEF RegistrationInv
  <2>. QED  BY <2>1, CommitTables DEF TypeOK
<1>3. RegistrationInv /\ [Next]_vars =>
        [\A r \in Requests : FirstHandSuccess(r) => token[request[r].token] # "revoked"]_vars
  BY SuccessIsCommitted, CommitTables DEF RegistrationInv
<1>4. RegistrationInv /\ [Next]_vars =>
        [\A r \in Requests : FirstHandSuccess(r) => StoredFor(r).kept # "valid"]_vars
  BY SuccessIsCommitted, CommitTables DEF RegistrationInv
<1>. QED
  BY <1>1, <1>2, <1>3, <1>4, RegistrationInvariant, PTL
    DEF RegistrationSpec, OutcomesAreTrue, SuccessIsCurrent, RevokedTokenPublishesNothing,
        OncePerKey

-----------------------------------------------------------------------------
(* The refinement of DeclaredState *)

\* The sum of DeclaredState, taken over the same numbers.
LEMMA TotalIsSum ==
  ASSUME NEW state \in [Targets -> Declarations \cup {NoDeclaration}]
  PROVE  \E g : IsSum(g, Counts(state), Targets) /\ Declared!Total(state) = g[Targets]
<1>. DEFINE S == Targets
            Size(x) == IF state[x] = NoDeclaration THEN 0 ELSE SizeOfDeclaration(state[x])
            Body(g) == [s \in SUBSET S |-> IF s = {} THEN 0
                          ELSE Size(Some(s)) + g[s \ {Some(s)}]]
            h == CHOOSE g : g = Body(g)
<1>1. Counts(state) \in [S -> Nat] /\ IsFiniteSet(S)
  BY CountsTyped, TargetsAreFinite
<1>2. PICK g : IsSum(g, Counts(state), S)
  BY <1>1, SumExists
<1>3. \A s \in SUBSET S : s # {} => Counts(state)[Some(s)] = Size(Some(s))
  <2>1. \A s \in SUBSET S : s # {} => Some(s) \in S
    BY SomeIsMember
  <2>. QED  BY <2>1 DEF Counts, SizeOfDeclaration
<1>4. g = Body(g)
  <2>1. g = [s \in SUBSET S |-> IF s = {} THEN 0 ELSE Counts(state)[Some(s)] + g[s \ {Some(s)}]]
    BY <1>2 DEF IsSum
  <2>. HIDE DEF S, Size
  <2>2. \A s \in SUBSET S : (IF s = {} THEN 0 ELSE Counts(state)[Some(s)] + g[s \ {Some(s)}])
          = (IF s = {} THEN 0 ELSE Size(Some(s)) + g[s \ {Some(s)}])
    BY <1>3
  <2>. QED  BY <2>1, <2>2
<1>5. h = Body(h)
  <2>. HIDE DEF Body
  <2>. QED  BY <1>4
<1>6. Declared!Total(state) = h[S]
  BY DEF Declared!Total, Declared!MapThenSumSet, Declared!MapThenFoldSet, Some
<1>. HIDE DEF h
<1>7. IsSum(h, Counts(state), S)
  <2>. HIDE DEF S, Size
  <2>1. \A s \in SUBSET S :
          (IF s = {} THEN 0 ELSE Counts(state)[Some(s)] + h[s \ {Some(s)}])
          = (IF s = {} THEN 0 ELSE Size(Some(s)) + h[s \ {Some(s)}])
    BY <1>3
  <2>. QED  BY <1>5, <2>1 DEF IsSum
<1>. QED  BY <1>6, <1>7

\* The sum after one declaration is replaced, from the sum of the others.
LEMMA TotalSplits ==
  ASSUME NEW before \in [Targets -> Declarations \cup {NoDeclaration}],
         NEW after \in [Targets -> Declarations \cup {NoDeclaration}],
         NEW t \in Targets, NEW R, NEW h,
         R = Targets \ {t}, \A u \in R : after[u] = before[u],
         IsSum(h, Counts(before), R)
  PROVE  Declared!Total(after) = SizeOfDeclaration(after[t]) + h[R]
<1>. DEFINE F == Counts(after)
            E == Counts(before)
<1>1. PICK g : IsSum(g, F, Targets) /\ Declared!Total(after) = g[Targets]
  BY TotalIsSum
<1>2. F \in [Targets -> Nat] /\ F[t] = SizeOfDeclaration(after[t]) /\ \A u \in R : F[u] = E[u]
  BY CountsTyped DEF Counts
<1>3. IsSum(h, E, R) /\ R \in SUBSET Targets
  OBVIOUS
<1>. HIDE DEF F, E
<1>4. g[Targets] = F[t] + g[R]
  BY <1>1, <1>2, TargetsAreFinite, SumOfMember
<1>5. \A s \in SUBSET R : g[s] = h[s]
  BY <1>1, <1>2, <1>3, TargetsAreFinite, SumsAgree
<1>. QED  BY <1>1, <1>2, <1>4, <1>5

\* What is published fits, whatever the other targets have published since.
LEMMA TotalAfter ==
  ASSUME TypeOK, NEW t \in Targets, NEW d \in Declarations,
         registered' = [registered EXCEPT ![t] = d]
  PROVE  Declared!Total(registered') = Others(t) + SizeOfDeclaration(d)
<1>1. /\ registered \in [Targets -> Declarations \cup {NoDeclaration}]
      /\ registered' \in [Targets -> Declarations \cup {NoDeclaration}]
      /\ registered'[t] = d
      /\ \A u \in Targets \ {t} : registered'[u] = registered[u]
  BY DEF TypeOK
<1>. DEFINE R == Targets \ {t}
<1>2. PICK h : IsSum(h, Counts(registered), R) /\ Others(t) = h[R]
  BY <1>1, OthersIsSum
<1>3. Declared!Total(registered') = SizeOfDeclaration(registered'[t]) + h[R]
  <2>1. R = Targets \ {t} /\ \A u \in R : registered'[u] = registered[u]
    BY <1>1
  <2>2. PICK before, after : before = registered /\ after = registered'
    OBVIOUS
  <2>. HIDE DEF R
  <2>3. /\ before \in [Targets -> Declarations \cup {NoDeclaration}]
        /\ after \in [Targets -> Declarations \cup {NoDeclaration}]
        /\ \A u \in R : after[u] = before[u]
        /\ IsSum(h, Counts(before), R)
    BY <1>1, <1>2, <2>1, <2>2
  <2>4. Declared!Total(after) = SizeOfDeclaration(after[t]) + h[R]
    BY <2>1, <2>3, TotalSplits
  <2>. QED  BY <2>2, <2>4
<1>4. SizeOfDeclaration(d) \in Nat /\ Others(t) \in Nat
  BY <1>1, SizeIsNatural, OthersIsNatural
<1>. QED  BY <1>1, <1>2, <1>3, <1>4

\* The initial states are initial states of DeclaredState.
LEMMA InitDeclares == Init => Declared!Init
BY CapacitiesAreNumbers DEF Init, Declared!Init

\* A batch publishes, or repeats what is published.
LEMMA CommitPublishes ==
  ASSUME RegistrationInv, NEW r \in Requests, Commit(r)
  PROVE  [Declared!Next]_(Declared!vars)
<1>. DEFINE t == TargetOf(r)
            d == DeclarationOf(r)
<1>1. TypeOK /\ RequestSound(request[r], token, revisions) /\ CurrentIsBound
  BY DEF RegistrationInv, RequestsAreSound
<1>2. /\ t \in Targets /\ d \in Declarations
      /\ registered' = [registered EXCEPT ![t] = d]
      /\ revisions' = [revisions EXCEPT ![t] = revisions[t] \cup {d}]
      /\ registered[t] = request[r].current
      /\ ~Conflicts(t, d)
      /\ request[r].phase = "noop" \/ (request[r].phase = "apply" /\ ~Exceeds(t, d))
      /\ UNCHANGED capacity
  BY <1>1, CommitTables
<1>3. CASE request[r].phase = "noop"
  <2>1. registered[t] = d
    BY <1>1, <1>2, <1>3 DEF RequestSound, DeclarationOf
  <2>2. d \in revisions[t]
    BY <1>1, <1>2, <2>1, NoDeclarationIsNone DEF CurrentIsBound
  <2>. HIDE DEF t, d
  <2>3. registered' = registered /\ revisions' = revisions
    BY <1>1, <1>2, <2>1, <2>2 DEF TypeOK
  <2>. QED  BY <1>2, <2>3 DEF Declared!vars
<1>4. CASE request[r].phase = "apply" /\ ~Exceeds(t, d)
  <2>. HIDE DEF t, d
  <2>1. Declared!Total(registered') = Others(t) + SizeOfDeclaration(d)
    BY <1>1, <1>2, TotalAfter
  <2>2. Others(t) + SizeOfDeclaration(d) =< capacity
    <3>1. Others(t) \in Nat /\ SizeOfDeclaration(d) \in Nat /\ capacity \in Nat
      BY <1>1, <1>2, OthersIsNatural, SizeIsNatural, CapacitiesAreNumbers DEF TypeOK
    <3>. QED  BY <1>4, <3>1 DEF Exceeds
  <2>3. \A e \in revisions[t] : e.revision = d.revision => e = d
    BY <1>2 DEF Conflicts
  <2>4. Declared!Publish(t, d)
    BY <1>2, <2>1, <2>2, <2>3 DEF Declared!Publish
  <2>. QED  BY <1>2, <2>4 DEF Declared!Next
<1>. QED  BY <1>2, <1>3, <1>4

\* Every step is a step of DeclaredState or changes nothing of it.
LEMMA StepDeclares ==
  RegistrationInv /\ [Next]_vars => [Declared!Next]_(Declared!vars)
<1>. SUFFICES ASSUME RegistrationInv, [Next]_vars PROVE [Declared!Next]_(Declared!vars)
  OBVIOUS
<1>1. CASE UNCHANGED <<registered, revisions, capacity>>
  BY <1>1 DEF Declared!vars
<1>2. ASSUME NEW r \in Requests, RequestStep(r) PROVE [Declared!Next]_(Declared!vars)
  BY <1>1, <1>2, CommitPublishes
    DEF RequestStep, Authenticate, Start, ReadCurrent, ReadHistory, CheckCapacity, CommitFails,
        FindRaced, BlameRevision, BlameToken, BlameCapacity, Abandon, tables
<1>3. CASE SetCapacity
  BY <1>3, CapacitiesAreNumbers DEF SetCapacity, Declared!Next, Declared!SetCapacity
<1>4. CASE ManageTokens \/ UNCHANGED vars
  BY <1>1, <1>4 DEF ManageTokens, tables, vars
<1>5. \A k \in Tokens, i \in Keys : AnswerExpires(k, i) \/ CleanupAnswer(k, i)
        => UNCHANGED <<registered, revisions, capacity>>
  BY DEF AnswerExpires, CleanupAnswer
<1>. QED  BY <1>1, <1>2, <1>3, <1>4, <1>5, OneStep

\* Every batch publishes one whole declaration, under a revision bound to no
\* other and within the capacity, or changes nothing the contract speaks of.
THEOREM RegistrationImplementsDeclaredState == RegistrationSpec => ImplementsDeclaredState
BY InitDeclares, StepDeclares, RegistrationInvariant, PTL
  DEF RegistrationSpec, ImplementsDeclaredState, Declared!Spec
=============================================================================
