-------------------------- MODULE HotZoneScheduler --------------------------
(***************************************************************************)
(* src/engine/scheduler.py: the windows of the day in which entries are    *)
(* allowed.  Times are minutes on one clock; a zone's start and end are    *)
(* minutes of the day of its own time zone, which is a fixed offset from   *)
(* that clock: the change of a zone's offset in its year (pytz) is not     *)
(* modelled.  The count of the times seen in a zone is left out: no        *)
(* decision reads it.                                                      *)
(***************************************************************************)
EXTENDS Integers, Sequences

CONSTANTS
  Day,            \* minutes of a day
  Zones,          \* hot_zones, in the order of the configuration
  LastBarMinutes  \* minutes before the end that count as the last bars

ASSUME SchedulerConfig ==
  /\ Day \in Nat \ {0} /\ LastBarMinutes \in Nat
  /\ Zones \in Seq([name : STRING, start : 0..(Day - 1), end : 0..(Day - 1),
                    offset : Int, flatten_only : BOOLEAN, enabled : BOOLEAN])

ZoneTime(z, t) == (t + z.offset) % Day

\* A mutation: a window that ends where it starts, or past midnight, is read
\* as one within the day.
WithinDay(z, t) == z.start <= ZoneTime(z, t) /\ ZoneTime(z, t) < z.end

\* start_dt <= zone_time < end_dt: a window past midnight ends on the next day
\* or started on the day before.
in_zone(z, t) ==
  IF z.start <= z.end
  THEN z.start <= ZoneTime(z, t) /\ ZoneTime(z, t) < z.end
  ELSE ZoneTime(z, t) >= z.start \/ ZoneTime(z, t) < z.end

start_dt(z, t) ==
  IF z.start <= z.end \/ ZoneTime(z, t) >= z.start
  THEN t - ZoneTime(z, t) + z.start
  ELSE t - ZoneTime(z, t) - Day + z.start
end_dt(z, t) ==
  IF z.start > z.end /\ ZoneTime(z, t) >= z.start
  THEN t - ZoneTime(z, t) + Day + z.end
  ELSE t - ZoneTime(z, t) + z.end

matching_zones(t) ==
  {i \in 1..Len(Zones) : Zones[i].enabled /\ in_zone(Zones[i], t)}

\* A mutation: the first in the configuration.
FirstMatch(t) ==
  CHOOSE i \in matching_zones(t) : \A j \in matching_zones(t) : i <= j

\* Of those that overlap, the one that started last; the first in the
\* configuration of those that started together.
LatestStart(t) ==
  CHOOSE i \in matching_zones(t) :
    \A j \in matching_zones(t) \ {i} :
      \/ start_dt(Zones[i], t) > start_dt(Zones[j], t)
      \/ start_dt(Zones[i], t) = start_dt(Zones[j], t) /\ i < j

NoZone == [name |-> "none", state |-> "inactive", minutes_remaining |-> 0,
           is_last_bar |-> FALSE]

ZoneInfo(i, t) ==
  LET remaining == end_dt(Zones[i], t) - t
  IN  [name |-> Zones[i].name,
       state |-> IF Zones[i].flatten_only THEN "flatten_only" ELSE "active",
       minutes_remaining |-> remaining,
       is_last_bar |-> remaining <= LastBarMinutes]

get_current_zone(t) ==
  IF matching_zones(t) = {} THEN NoZone ELSE ZoneInfo(LatestStart(t), t)
-----------------------------------------------------------------------------
\* The minutes of a window, counted from its start round the day.
SinceStart(z, t) == (ZoneTime(z, t) - z.start) % Day
ReferenceInZone(z, t) == SinceStart(z, t) < (z.end - z.start) % Day
ReferenceRemaining(z, t) == ((z.end - z.start) % Day) - SinceStart(z, t)
=============================================================================
