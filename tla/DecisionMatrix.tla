--------------------------- MODULE DecisionMatrix ---------------------------
(***************************************************************************)
(* src/engine/decision_matrix.py and regime.py: the weighted scores of a   *)
(* zone and the decision they lead to.                                     *)
(*                                                                         *)
(* A market stands for what is measured from the bars and the quote: drive *)
(* for the price against the opening, the opening range, the VWAP and the  *)
(* order flow; slope for that of the averages and the VWAP; structure for  *)
(* the price against the average and the highs and lows; lower and upper   *)
(* for the way beyond either band; spread in ticks; volatility.  A feature *)
(* of the model stands for the features of the code that are computed      *)
(* alike.  Scores are integers.                                            *)
(***************************************************************************)
EXTENDS Integers

CONSTANTS
  ZoneWeights,     \* alpha.zone_weights: of each zone, [long, short, flat]
  ZoneVetoes,      \* alpha.zone_vetoes: of each zone, the rules that apply
  BlockedRegimes,  \* blocked_regimes of each zone
  MinEntryScore, MinScoreGap, ExitDecayScore, ReverseScoreGap,
  FullSizeScore, FlatBiasBuffer,
  MaxSpread,         \* ticks: max_slippage_ticks
  StressSpread,      \* ticks: stress_spread_ticks
  MaxHold,           \* max_hold_minutes of the zones that have one
  DefaultHold,       \* of any other zone
  MinRemaining,      \* min_minutes_remaining
  TradeOutside       \* trade_outside_hotzones

\* The features of a market, or their weights.
Weighing == [drive : Int, breakout : Int, trend : Int, stretch : Int,
             execution : Int, event : Int, atr : Int, regime : Int]
ASSUME MatrixConfig ==
  /\ DOMAIN ZoneWeights \cup DOMAIN MaxHold \subseteq STRING
  /\ ZoneWeights \in [DOMAIN ZoneWeights ->
                       [long : Weighing, short : Weighing, flat : Weighing]]
  /\ MinEntryScore \in Int /\ FullSizeScore \in Int /\ FlatBiasBuffer \in Int
  /\ MinScoreGap \in Nat \ {0} /\ ReverseScoreGap \in Nat \ {0}
  /\ ExitDecayScore \in Int /\ ExitDecayScore < MinEntryScore
  /\ MaxSpread \in Int /\ StressSpread \in Int
  /\ MaxHold \in [DOMAIN MaxHold -> Nat] /\ DefaultHold \in Nat
  /\ MinRemaining \in Nat /\ TradeOutside \in BOOLEAN

Market == [drive : -2..2, slope : -2..2, structure : -2..2, lower : -2..2,
           upper : -2..2, spread : Nat,
           volatility : {"calm", "high", "spike", "stress"}]
Abs(n) == IF n < 0 THEN -n ELSE n
Positive(n) == IF n > 0 THEN n ELSE 0
_clip(n) == IF n > 2 THEN 2 ELSE IF n < -2 THEN -2 ELSE n
-----------------------------------------------------------------------------
(* Features, regime, scores *)

execution_tradeable(m) == m.spread <= MaxSpread
execution_state(m) == IF execution_tradeable(m) THEN 1 ELSE -1
event_state(context) ==
  IF context.blackout_active THEN -2
  ELSE IF context.post_event_cooling THEN 0 ELSE 1
atr_state(m) == IF m.volatility = "calm" THEN 1 ELSE -1

\* classify: TREND needs the slope and the order flow.
classify(m, context) ==
  IF \/ context.blackout_active \/ context.post_event_cooling
     \/ m.spread >= StressSpread \/ m.volatility = "stress"
  THEN "STRESS"
  ELSE IF Abs(m.slope) = 2 /\ m.drive # 0 THEN "TREND" ELSE "RANGE"

\* drive: opening_drive and the others that change their sign; breakout:
\* vwap_state and the others that count what is on their side only; trend:
\* trend_state; stretch: extension_state and wick_rejection, of the lower band
\* for a long position and of the upper one for a short one.
long_features(m, context) ==
  [drive |-> _clip(m.drive),
   breakout |-> _clip(Positive(m.drive) + Positive(m.slope)),
   trend |-> _clip(m.structure + m.slope), stretch |-> m.lower,
   execution |-> execution_state(m), event |-> event_state(context),
   atr |-> atr_state(m), regime |-> 0]
short_features(m, context) ==
  [drive |-> _clip(-m.drive),
   breakout |-> _clip(Positive(-m.drive) + Positive(-m.slope)),
   trend |-> _clip((-m.structure) + (-m.slope)), stretch |-> m.upper,
   execution |-> execution_state(m), event |-> event_state(context),
   atr |-> atr_state(m), regime |-> 0]
flat_features(m, context) ==
  LET long == long_features(m, context).trend
      short == short_features(m, context).trend
  IN  [drive |-> 0, breakout |-> 0,
       trend |-> _clip(2 - (IF long > short THEN long ELSE short)), stretch |-> 0,
       execution |-> -execution_state(m), event |-> -event_state(context),
       atr |-> -atr_state(m),
       regime |-> IF classify(m, context) = "STRESS" THEN 2 ELSE 0]

\* A weight of zero stands for a feature the zone does not weigh.
Weighted(features, weights) ==
  features.drive * weights.drive + features.breakout * weights.breakout
  + features.trend * weights.trend + features.stretch * weights.stretch
  + features.execution * weights.execution + features.event * weights.event
  + features.atr * weights.atr + features.regime * weights.regime
NoWeight == [drive |-> 0, breakout |-> 0, trend |-> 0, stretch |-> 0,
             execution |-> 0, event |-> 0, atr |-> 0, regime |-> 0]
Weights(zone) ==
  IF zone \in DOMAIN ZoneWeights THEN ZoneWeights[zone]
  ELSE [long |-> NoWeight, short |-> NoWeight, flat |-> NoWeight]
Scores(zone, m, context) ==
  [long  |-> Weighted(long_features(m, context), Weights(zone).long),
   short |-> Weighted(short_features(m, context), Weights(zone).short),
   flat  |-> Weighted(flat_features(m, context), Weights(zone).flat)]
-----------------------------------------------------------------------------
(* Decisions.  zone is what the scheduler says, or NoZone *)

Rules(zone) == IF zone \in DOMAIN ZoneVetoes THEN ZoneVetoes[zone] ELSE {}
Blocked(zone) ==
  IF zone \in DOMAIN BlockedRegimes THEN BlockedRegimes[zone] ELSE {}
_zone_hold_limit(zone) == IF zone \in DOMAIN MaxHold THEN MaxHold[zone] ELSE DefaultHold

\* Outside of every zone trades go on, or not, as one more zone.
_effective_zone(zone) ==
  IF zone.state = "inactive" /\ TradeOutside
  THEN [name |-> "Outside", state |-> "active",
        minutes_remaining |-> _zone_hold_limit("Outside"), is_last_bar |-> FALSE]
  ELSE zone

\* Some veto of the zone holds; those that the code keeps for a zone by its
\* name are rules of that zone.
_evaluate_vetoes(zone, m, context) ==
  LET rule(name) == name \in Rules(zone.name)
  IN  \/ context.blackout_active
      \/ rule("require_execution_tradeable") /\ ~execution_tradeable(m)
      \/ rule("max_spread_ticks") /\ m.spread > MaxSpread + 1
      \/ rule("max_atr_percentile") /\ m.volatility = "high"
      \/ rule("max_atr_accel") /\ m.volatility = "spike"
      \/ classify(m, context) \in Blocked(zone.name)
      \/ rule("reject_orb_middle") /\ m.drive = 0
      \/ rule("flat_vwap_threshold") /\ m.slope = 0
      \/ rule("max_ema_slope") /\ Abs(m.slope) = 2
      \/ rule("min_minutes_remaining") /\ zone.minutes_remaining < MinRemaining
      \/ /\ rule("orb_break")
         /\ \/ long_features(m, context).breakout > 1
            \/ short_features(m, context).breakout > 1
      \/ rule("require_mean_reversion_confirmation") /\ m.lower < 2 /\ m.upper < 2

\* A mutation: a position has to stay as good as a full entry.
LeavesBelowFull(own, against, zone, m, context, held, risk) ==
  \/ classify(m, context) = "STRESS"
  \/ against - own >= ReverseScoreGap
  \/ own < FullSizeScore
  \/ held >= _zone_hold_limit(zone.name)
  \/ zone.is_last_bar \/ context.blackout_active \/ risk = "circuit_breaker"

\* A mutation: the last bars of a zone are like the others.
LeavesAfterZone(own, against, zone, m, context, held, risk) ==
  \/ classify(m, context) = "STRESS"
  \/ against - own >= ReverseScoreGap
  \/ own < ExitDecayScore
  \/ held >= _zone_hold_limit(zone.name)
  \/ context.blackout_active \/ risk = "circuit_breaker"

\* A position leaves that its own score no longer carries against the score of
\* the other side.  held is the time since its entry.
Leaves(own, against, zone, m, context, held, risk) ==
  \/ classify(m, context) = "STRESS"
  \/ against - own >= ReverseScoreGap
  \/ own < ExitDecayScore
  \/ held >= _zone_hold_limit(zone.name)
  \/ zone.is_last_bar \/ context.blackout_active \/ risk = "circuit_breaker"

\* No new position, and none that stays.
FlattenOnly(zone) ==
  zone.state = "flatten_only" \/ "flatten_only" \in Rules(zone.name)

Enters(own, against, flat_bias, zone, m, context) ==
  /\ own >= MinEntryScore
  /\ own - against >= MinScoreGap
  /\ own >= flat_bias + FlatBiasBuffer
  /\ ~_evaluate_vetoes(zone, m, context)

\* What to do with a position (its sign) held for held minutes.
evaluate(position, at, m, context, held, risk, allow_entries) ==
  LET zone == _effective_zone(at)
      score == Scores(zone.name, m, context)
      flat == IF position # 0 THEN "FLAT" ELSE "NO_TRADE"
  IN  IF zone.state = "inactive" \/ FlattenOnly(zone) THEN flat
      ELSE IF position > 0
      THEN IF Leaves(score.long, score.short, zone, m, context, held, risk)
           THEN "FLAT" ELSE "HOLD"
      ELSE IF position < 0
      THEN IF Leaves(score.short, score.long, zone, m, context, held, risk)
           THEN "FLAT" ELSE "HOLD"
      ELSE IF ~allow_entries \/ risk = "circuit_breaker" THEN "NO_TRADE"
      ELSE IF Enters(score.long, score.short, score.flat, zone, m, context) THEN "LONG"
      ELSE IF Enters(score.short, score.long, score.flat, zone, m, context) THEN "SHORT"
      ELSE "NO_TRADE"

\* Half a position unless the score is high and the risk state normal.
size_halves(action, at, m, context, risk) ==
  LET zone == _effective_zone(at)
      score == Scores(zone.name, m, context)
      own == IF action = "LONG" THEN score.long ELSE score.short
  IN  IF own > FullSizeScore /\ risk = "normal" THEN 2 ELSE 1
=============================================================================
