-------------------------- MODULE MCDecisionCycle --------------------------
\* A small day with the zones of config/default.yaml and one past midnight.
EXTENDS DecisionCycle

HotZone(name, from, to, offset, flatten_only) ==
  [name |-> name, start |-> from, end |-> to, offset |-> offset,
   flatten_only |-> flatten_only, enabled |-> TRUE]
MCZones == << HotZone("Pre-Open", 2, 6, 0, FALSE),
              HotZone("Post-Open", 6, 9, 0, FALSE),
              HotZone("Midday", 9, 12, 0, FALSE),
              HotZone("Close-Scalp", 10, 12, 0, TRUE),
              HotZone("Overnight", 13, 1, 1, FALSE) >>

\* The sides are weighed differently, as in config/default.yaml.
Sides(long, short, flat) == [long |-> long, short |-> short, flat |-> flat]
Flat == [NoWeight EXCEPT !.event = 1, !.execution = 1, !.regime = 1]
MCZoneWeights ==
  [zone \in {"Pre-Open", "Post-Open", "Midday"} |->
     CASE zone = "Pre-Open" ->
            Sides([NoWeight EXCEPT !.drive = 2, !.breakout = 1, !.execution = 1],
                  [NoWeight EXCEPT !.drive = 1, !.breakout = 2, !.execution = 1], Flat)
       [] zone = "Post-Open" ->
            Sides([NoWeight EXCEPT !.breakout = 1, !.trend = 2, !.execution = 1],
                  [NoWeight EXCEPT !.drive = 1, !.trend = 2, !.execution = 1], Flat)
       [] OTHER ->
            Sides([NoWeight EXCEPT !.stretch = 2, !.execution = 1, !.atr = 1],
                  [NoWeight EXCEPT !.stretch = 3, !.atr = 1],
                  [Flat EXCEPT !.trend = 1])]
MCZoneVetoes ==
  [zone \in {"Pre-Open", "Post-Open", "Midday", "Close-Scalp"} |->
     CASE zone = "Pre-Open" -> {"max_atr_accel", "max_spread_ticks",
            "reject_orb_middle", "require_execution_tradeable"}
       [] zone = "Post-Open" -> {"flat_vwap_threshold", "max_spread_ticks",
            "require_execution_tradeable"}
       [] zone = "Midday" -> {"max_ema_slope", "max_atr_percentile",
            "min_minutes_remaining", "require_mean_reversion_confirmation",
            "require_execution_tradeable", "orb_break"}
       [] OTHER -> {"flatten_only"}]
MCBlockedRegimes ==
  [zone \in {"Post-Open", "Midday"} |->
     IF zone = "Post-Open" THEN {"RANGE", "STRESS"} ELSE {"TREND", "STRESS"}]
MCMaxHold == [zone \in {"Pre-Open", "Midday"} |-> IF zone = "Pre-Open" THEN 2 ELSE 1]

Seen(drive, slope, structure, lower, upper, spread, volatility) ==
  [drive |-> drive, slope |-> slope, structure |-> structure, lower |-> lower,
   upper |-> upper, spread |-> spread, volatility |-> volatility]
MCMarkets ==
  { Seen(2, 1, 1, -2, 0, 1, "calm"), Seen(2, 1, 1, -2, 0, 4, "spike"),
    Seen(2, 1, 1, -2, 0, 1, "stress"), Seen(-2, -2, -1, 0, -2, 1, "calm"),
    Seen(0, 0, 0, -1, -1, 1, "calm"), Seen(0, 0, -1, 2, -2, 1, "calm"),
    Seen(0, -1, 1, -2, 2, 1, "high"), Seen(1, 1, -1, 0, 0, 1, "calm") }

Event(at, impact) == [at |-> at, impact |-> impact]
MCCalendars == { {Event(3, "high")}, {Event(5, "medium"), Event(9, "low")} }
MCImpactWindows ==
  [impact \in {"low", "medium", "high"} |->
     CASE impact = "low" -> [pre |-> 0, post |-> 1]
       [] impact = "medium" -> [pre |-> 1, post |-> 1]
       [] OTHER -> [pre |-> 1, post |-> 1]]

ASSUME OrdinaryConfiguration ==
  /\ HoldLimitsArePositive /\ OutsideHoldsNothing
  /\ OnlyZonesGoLive /\ FlattenOnlyPrevails
=============================================================================
