-------------------------- MODULE MCScheduleTable --------------------------
(* Instances of ScheduleTable for TLC. *)
EXTENDS ScheduleTable, TLC

CONSTANTS t1, t2, r1, r2, o1, d1, d2, d3, d4

\* Two configurations with the same occurrences (another payload), one with
\* others, and one declared disabled.
Hourly == [period |-> 2, enabled |-> TRUE, payload |-> 1]
HourlyEdited == [period |-> 2, enabled |-> TRUE, payload |-> 2]
Often == [period |-> 1, enabled |-> TRUE, payload |-> 1]
Disabled == [period |-> 2, enabled |-> FALSE, payload |-> 1]
MCConfigs == {Hourly, HourlyEdited, Often, Disabled}

\* d4 differs from d1 in another schedule only.
MCDeclares ==
  d1 :> Hourly @@ d2 :> HourlyEdited @@ d3 :> Omitted @@ d4 :> Hourly
EditDeclares ==
  d1 :> Often @@ d2 :> Disabled @@ d3 :> Omitted @@ d4 :> Hourly
Symmetry == Permutations(Ticks)
=============================================================================
