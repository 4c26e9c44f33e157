------------------------------- MODULE Schedule -------------------------------
(***************************************************************************)
(* When a routine fires: crates/botroster-bots/src/schedule.rs.              *)
(*                                                                         *)
(* An expression is a record of five fields; a field is a set of parts        *)
(* [lo, hi, step], with hi = None for a bare value and "*" for any value.     *)
(* Time is counted in minutes from some instant; Wall gives the wall-clock     *)
(* reading of each minute in each zone, so a change of the clocks is a reading *)
(* that is skipped or that comes twice.                                      *)
(***************************************************************************)
EXTENDS Integers, FiniteSets

CONSTANTS Zones,     \* the time zones there are
          Wall,      \* minute -> what the clock shows, by zone
          Horizon,   \* the last minute there is
           Every,     \* "*"
          None

Times == 0 .. Horizon

Limits == [minute |-> <<0, 59>>, hour |-> <<0, 23>>, dom |-> <<1, 31>>,
           month |-> <<1, 12>>, dow |-> <<0, 7>>]
FieldNames == DOMAIN Limits

\* One part of a field. A bare value with a step runs on to the end.
Lo(part, limit) == IF part.lo = Every THEN limit[1] ELSE part.lo
Hi(part, limit) ==
    IF part.lo = Every \/ (part.hi = None /\ part.step > 1) THEN limit[2]
    ELSE IF part.hi = None THEN part.lo ELSE part.hi

GoodPart(part, limit) ==
    /\ part.step >= 1
    /\ part.hi # None => part.lo <= part.hi
    /\ Lo(part, limit) >= limit[1] /\ Hi(part, limit) <= limit[2]

\* field, and dow_field's Sunday, which is 0 and 7.
Values(parts, limit) ==
    UNION {{v \in Lo(p, limit) .. Hi(p, limit) : (v - Lo(p, limit)) % p.step = 0} : p \in parts}
Sunday(values) == {IF v = 7 THEN 0 ELSE v : v \in values}

Parses(cron) == \A f \in FieldNames :
    cron[f] # {} /\ \A part \in cron[f] : GoodPart(part, Limits[f])

Star == [lo |-> Every, hi |-> None, step |-> 1]
Restricted(cron, f) == cron[f] # {Star}

Hit(cron, f, clock) ==
    clock[f] \in IF f = "dow" THEN Sunday(Values(cron[f], Limits[f]))
                 ELSE Values(cron[f], Limits[f])

\* Fields::matches, with its rule for the two day fields.
Day(cron, clock) ==
    IF Restricted(cron, "dom") /\ Restricted(cron, "dow")
    THEN Hit(cron, "dom", clock) \/ Hit(cron, "dow", clock)
    ELSE /\ Restricted(cron, "dom") => Hit(cron, "dom", clock)
         /\ Restricted(cron, "dow") => Hit(cron, "dow", clock)

Matches(cron, clock) ==
    Hit(cron, "minute", clock) /\ Hit(cron, "hour", clock)
    /\ Hit(cron, "month", clock) /\ Day(cron, clock)

Firings(cron, zone) == {t \in Times : Matches(cron, Wall[zone][t])}

\* next_after: the first firing strictly after a minute, looking no further than
\* four years (here: the horizon).
NextAfter(firings, after) ==
    LET later == {t \in firings : t > after} IN
    IF later = {} THEN None ELSE CHOOSE t \in later : \A u \in later : t <= u

\* Firings from one minute, not counted, to another.
Between(firings, after, upTo) == {t \in firings : after < t /\ t <= upTo}
=============================================================================
