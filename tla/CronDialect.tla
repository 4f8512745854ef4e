----------------------------- MODULE CronDialect -----------------------------
(***************************************************************************)
(* The way of a weekday field from a website's declaration to the stored   *)
(* rule.                                                                   *)
(*                                                                         *)
(* Cloudflare counts the days 1 (Sunday) .. 7 (Saturday), the platform 0   *)
(* (Sunday) .. 6.  A declaration may name its dialect; normalizeCronDialect *)
(* converts it, inside the schema that the SDK's client and the platform   *)
(* both parse the declaration with: the SDK's way parses it twice.  Then   *)
(* CronCalculator validates the rule.  Of the five fields only the two day *)
(* fields matter here, and names of days stand for their numbers.          *)
(***************************************************************************)
EXTENDS Integers, Sequences

CONSTANTS Numbers,   \* numbers written in a field
          Steps,     \* steps written in a field
          MaxAtoms   \* bound: entries of a list

DialectAssumption ==
    /\ Numbers \subseteq Nat /\ Steps \subseteq Nat
    /\ MaxAtoms \in Nat \ {0}

NoStep == -1

(* One entry of the list: *, n or n-m, with a step or without. *)
Atoms ==
    [kind : {"star"}, lo : {0}, hi : {0}, step : Steps \cup {NoStep}]
      \cup [kind : {"number"}, lo : Numbers, hi : {0}, step : Steps \cup {NoStep}]
      \cup [kind : {"range"}, lo : Numbers, hi : Numbers, step : Steps \cup {NoStep}]
Number(n) == [kind |-> "number", lo |-> n, hi |-> 0, step |-> NoStep]
Star == [kind |-> "star", lo |-> 0, hi |-> 0, step |-> NoStep]

Fields == UNION {[1..n -> Atoms] : n \in 1..MaxAtoms}
Rules == [anyDate : BOOLEAN, week : Fields]   \* anyDate: day-of-month is *

VARIABLES declared,  \* what the website wrote: rule, dialect, route
          rule,      \* the rule as it travels
          dialect,   \* the dialect written next to it, or "absent"
          stage      \* "site", "wire", "platform", "stored", "refused"

vars == <<declared, rule, dialect, stage>>

----------------------------------------------------------------------------
(* normalizeCronDialect                                                    *)

StepOf(a) == IF a.step = NoStep THEN 1 ELSE a.step
StartOf(a) == IF a.kind = "star" THEN 1 ELSE a.lo

(* n/s runs to the end of the week. *)
EndOf(a) ==
    CASE a.kind = "star" -> 7
      [] a.kind = "range" -> a.hi
      [] a.kind = "number" -> IF a.step = NoStep THEN a.lo ELSE 7

Convertible(a) == /\ StepOf(a) >= 1 /\ StartOf(a) >= 1 /\ EndOf(a) <= 7
                  /\ StartOf(a) <= EndOf(a)

(* The loop over one entry, day by day, counted from 0. *)
ConvertedDays(a) ==
    {StartOf(a) + k * StepOf(a) - 1 : k \in
        {k \in 0..6 : StartOf(a) + k * StepOf(a) <= EndOf(a)}}

(* The days as a list of numbers, sorted and each once. *)
ConvertedWeek(week) ==
    LET days == UNION {ConvertedDays(week[i]) : i \in DOMAIN week}
        Day(d) == IF d \in days THEN <<Number(d)>> ELSE << >>
    IN  Day(0) \o Day(1) \o Day(2) \o Day(3) \o Day(4) \o Day(5) \o Day(6)

(* What one parse of the schema makes of a rule; Refused when it throws. *)
Refused == "refused"
Normalized(r, d) ==
    IF d # "cloudflare" THEN [ok |-> TRUE, rule |-> r]
    ELSE IF r.week = <<Star>> THEN [ok |-> TRUE, rule |-> r]
    ELSE [ok |-> r.anyDate /\ \A i \in DOMAIN r.week : Convertible(r.week[i]),
          rule |-> [r EXCEPT !.week = ConvertedWeek(r.week)]]

----------------------------------------------------------------------------
(* The route                                                               *)

(* Mutant: the parsed declaration still names the dialect. *)
DialectKept(d) == d

(* The schema's transform drops cronDialect from what it returns. *)
DialectAfter(d) == "absent"

Parse(from, to) ==
    /\ stage = from
    /\ LET n == Normalized(rule, dialect)
       IN  IF n.ok THEN /\ stage' = to /\ rule' = n.rule
                        /\ dialect' = DialectAfter(dialect)
                   ELSE stage' = Refused /\ UNCHANGED <<rule, dialect>>
    /\ UNCHANGED declared

(* RegistrationClient.register: the client sends what the schema returned. *)
ParseAtSdk == declared.route = "sdk" /\ Parse("site", "wire")

(* A website without the SDK sends what it wrote. *)
SendAsWritten ==
    /\ stage = "site" /\ declared.route = "http"
    /\ stage' = "wire"
    /\ UNCHANGED <<declared, rule, dialect>>

(* PUT /registration *)
ParseAtPlatform == Parse("wire", "platform")

(* validateCronExpression: one of the day fields is the literal *. *)
Validate ==
    /\ stage = "platform"
    /\ stage' = IF rule.anyDate \/ rule.week = <<Star>>
                THEN "stored" ELSE Refused
    /\ UNCHANGED <<declared, rule, dialect>>

Init ==
    /\ declared \in [rule : Rules, dialect : {"absent", "unix", "cloudflare"},
                     route : {"sdk", "http"}]
    /\ rule = declared.rule /\ dialect = declared.dialect
    /\ stage = "site"

Next == ParseAtSdk \/ SendAsWritten \/ ParseAtPlatform \/ Validate

Spec == Init /\ [][Next]_vars

----------------------------------------------------------------------------
(* Properties                                                              *)

(* The types; the rule that travels may hold converted numbers. *)
TypeOK ==
    /\ stage \in {"site", "wire", "platform", "stored", Refused}
    /\ dialect \in {"absent", "unix", "cloudflare"}
    /\ rule.anyDate = declared.rule.anyDate
    /\ \A i \in DOMAIN rule.week :
         \/ rule = declared.rule
         \/ rule.week[i].kind = "number" /\ rule.week[i].lo \in 0..6

(* The days Cloudflare means by a field, 1 = Sunday: the reference. *)
MeantBy(a) ==
    LET last == IF a.kind = "range" THEN a.hi
                ELSE IF a.kind = "star" \/ a.step # NoStep THEN 7 ELSE a.lo
        first == IF a.kind = "star" THEN 1 ELSE a.lo
    IN  {d \in 1..7 : d >= first /\ d <= last /\ (d - first) % StepOf(a) = 0}
CloudflareDays(week) == UNION {MeantBy(week[i]) : i \in DOMAIN week}

(* The days of a stored field, 0 = Sunday: * or a list of numbers. *)
StoredDays(week) ==
    IF week = <<Star>> THEN 0..6 ELSE {week[i].lo : i \in DOMAIN week}

(* A rule in Cloudflare's dialect runs on the days Cloudflare meant, by    *)
(* whichever route it was registered (normalizeCronDialect;                *)
(* docs/cron-semantics.md).                                                *)
RunsOnTheDaysMeant ==
    stage = "stored" /\ declared.dialect = "cloudflare" =>
        StoredDays(rule.week) = {d - 1 : d \in CloudflareDays(declared.rule.week)}

(* The SDK's second parse changes nothing and refuses nothing that one     *)
(* parse accepts: both routes store the same rule (the schema's transform  *)
(* in registrationScheduleSchema).                                         *)
OneParseDecides ==
    LET once == Normalized(declared.rule, declared.dialect)
    IN  /\ stage = "stored" => once.ok /\ rule = once.rule
        /\ stage = Refused => \/ ~once.ok
                              \/ ~once.rule.anyDate /\ once.rule.week # <<Star>>
============================================================================
