---------------------------- MODULE DeclaredState ----------------------------
(***************************************************************************)
(* What registration promises: each Target has one current declaration,    *)
(* replaced as a whole; a revision is bound for ever to the declaration    *)
(* first seen under it; what is published fits the platform's capacity.    *)
(***************************************************************************)
EXTENDS Integers, FiniteSetsExt

CONSTANTS Targets, Declarations, NoDeclaration, ScheduleCount(_), Revision(_)

VARIABLES current, bound, capacity

vars == <<current, bound, capacity>>

Init ==
  /\ current = [t \in Targets |-> NoDeclaration]
  /\ bound = [t \in Targets |-> {}]
  /\ capacity \in Nat

Total(state) ==
  MapThenSumSet(LAMBDA t : IF state[t] = NoDeclaration THEN 0 ELSE ScheduleCount(state[t]), Targets)

Publish(t, d) ==
  /\ \A e \in bound[t] : Revision(e) = Revision(d) => e = d
  /\ bound' = [bound EXCEPT ![t] = @ \cup {d}]
  /\ current' = [current EXCEPT ![t] = d]
  /\ Total(current') =< capacity
  /\ UNCHANGED capacity

\* Lowering the capacity retires nothing.
SetCapacity == capacity' \in Nat /\ UNCHANGED <<current, bound>>

Next == SetCapacity \/ \E t \in Targets, d \in Declarations : Publish(t, d)

Spec == Init /\ [][Next]_vars
=============================================================================
