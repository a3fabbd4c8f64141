---------------------------- MODULE RiskManager ----------------------------
(***************************************************************************)
(* src/engine/risk_manager.py: the risk state machine and the ledger the   *)
(* trading engine consults before an entry and feeds with every change of  *)
(* the broker's position.                                                  *)
(*                                                                         *)
(* The engine calls the manager under its own lock, so each public method  *)
(* is one action.  Money is counted in points (the factor of 50 dollars a  *)
(* point is left out) and time in ticks.  The broker fills an entry before *)
(* a sync tells the engine: in between the engine still takes itself to be *)
(* flat.  Two variables are ghosts: cash, the money the account has        *)
(* received for its fills, and entries, the entries filled since the last  *)
(* daily reset, but for those sent beside a fill no sync had seen.         *)
(***************************************************************************)
EXTENDS Integers, Sequences, SequencesExt

CONSTANTS
  MaxDailyLoss,          \* risk.max_daily_loss
  MaxPositionLoss,       \* risk.max_position_loss
  MaxConsecutiveLosses,  \* risk.max_consecutive_losses
  MaxTradesPerHour,      \* risk.max_trades_per_hour
  MaxTradesPerZone,      \* risk.max_trades_per_zone
  MaxDailyTrades,        \* risk.max_daily_trades
  MaxContracts,          \* account.max_contracts
  Zones,                 \* the trading zones of the session
  Prices,                \* the prices a fill or a quote may have
  SessionLength,         \* ticks from one session boundary to the next
  HourLength,            \* ticks in the sliding window of the hourly limit
  MaxTime,               \* bound of the model: the clock stops here
  MaxTrades,             \* bound of the model: trades recorded per process
  MaxBefore              \* bound of the model: those of them before an entry
                         \* that is sent beside a fill no sync had seen

ASSUME LimitsAreNatural ==
  /\ MaxDailyLoss \in Nat \ {0}
  /\ MaxPositionLoss \in Nat \ {0}
  /\ MaxConsecutiveLosses \in Nat \ {0}
  /\ MaxTradesPerHour \in Nat \ {0}
  /\ MaxTradesPerZone \in Nat \ {0}
  /\ MaxDailyTrades \in Nat \ {0}
  /\ MaxContracts \in Nat \ {0}
ASSUME PricesAreNatural == Prices \subseteq Nat \ {0}
ASSUME TimesAreNatural ==
  /\ SessionLength \in Nat \ {0}
  /\ HourLength \in Nat
  /\ MaxTime \in Nat

VARIABLES
  risk_state, daily_pnl, daily_trades, consecutive_losses, trades_this_hour,
  trades_this_zone, current_zone_name, blackout_active,
  volatility_circuit_active, daily_date, current_position,
  position_entry_price, trade_history,
  clock,      \* the market time of the last call (_clock_time)
  entry,      \* the engine's entry order: "none", "submitted", or "beside" when
              \* it was sent beside a fill no sync had seen
  filled,     \* the broker filled an entry and no sync has seen it yet
  cash,       \* ghost: money received for all fills of this process
  entries,    \* ghost: entries sent while flat and filled since the reset
  reset_mark  \* ghost: length of trade_history at the last daily reset

counters == <<daily_pnl, daily_trades, consecutive_losses, trades_this_hour,
              trades_this_zone, trade_history>>
holding  == <<current_position, position_entry_price, cash>>
session  == <<daily_date, entries, reset_mark>>
orders   == <<entry, filled>>
vars == <<counters, holding, session, risk_state, current_zone_name,
          blackout_active, volatility_circuit_active, clock, orders>>

NoDate == -1
NoZone == "no_zone"
RiskState == {"normal", "reduced", "circuit_breaker"}
Trade == [pnl : Int, exit_time : Nat, session : Nat]

Abs(n) == IF n < 0 THEN -n ELSE n
Sign(n) == IF n > 0 THEN 1 ELSE IF n < 0 THEN -1 ELSE 0
\* A mutation: every session belongs to the day before.
DayBefore(t) == (t \div SessionLength) - 1
_session_date(t) == t \div SessionLength

TypeOK ==
  /\ risk_state \in RiskState
  /\ daily_pnl \in Int /\ daily_trades \in Nat /\ consecutive_losses \in Nat
  /\ trades_this_hour \in Seq(Nat) /\ trades_this_zone \in Nat
  /\ current_zone_name \in Zones \cup {NoZone}
  /\ blackout_active \in BOOLEAN /\ volatility_circuit_active \in BOOLEAN
  /\ daily_date \in Nat \cup {NoDate}
  /\ current_position \in Int /\ position_entry_price \in Nat
  /\ trade_history \in Seq(Trade)
  /\ clock \in Nat
  /\ entry \in {"none", "submitted", "beside"} /\ filled \in BOOLEAN
  /\ cash \in Int /\ entries \in Nat /\ reset_mark \in Nat

Init ==
  /\ risk_state = "normal"
  /\ daily_pnl = 0 /\ daily_trades = 0 /\ consecutive_losses = 0
  /\ trades_this_hour = <<>> /\ trades_this_zone = 0
  /\ current_zone_name = NoZone
  /\ blackout_active = FALSE /\ volatility_circuit_active = FALSE
  /\ daily_date = NoDate
  /\ current_position = 0 /\ position_entry_price = 0
  /\ trade_history = <<>>
  /\ clock = 0 /\ entry = "none" /\ filled = FALSE
  /\ cash = 0 /\ entries = 0 /\ reset_mark = 0
-----------------------------------------------------------------------------
(* Calls that carry time, events and volatility *)

\* observe_time: market data moves the clock.
observe_time ==
  /\ clock < MaxTime
  /\ clock' = clock + 1
  /\ UNCHANGED <<counters, holding, session, risk_state, current_zone_name,
                 blackout_active, volatility_circuit_active, orders>>

set_blackout(active) ==
  /\ blackout_active # active
  /\ blackout_active' = active
  /\ UNCHANGED <<counters, holding, session, risk_state, current_zone_name,
                 volatility_circuit_active, clock, orders>>

\* The ATR reading is at or above the spike threshold of its baseline.
VolatilitySpike ==
  /\ volatility_circuit_active' = TRUE
  /\ risk_state' = "circuit_breaker"
  /\ UNCHANGED <<counters, holding, session, current_zone_name,
                 blackout_active, clock, orders>>

\* The ATR reading fell below nine tenths of its baseline.
VolatilityNormalised ==
  /\ volatility_circuit_active
  /\ volatility_circuit_active' = FALSE
  /\ risk_state' = IF /\ risk_state = "circuit_breaker"
                      /\ daily_pnl > -MaxDailyLoss
                   THEN "reduced" ELSE risk_state
  /\ UNCHANGED <<counters, holding, session, current_zone_name,
                 blackout_active, clock, orders>>

update_volatility == VolatilitySpike \/ VolatilityNormalised
-----------------------------------------------------------------------------
(* can_trade: the question asked before an entry *)

\* _reset_daily, when the session date changed.
_reset_daily(today) ==
  /\ daily_pnl' = 0 /\ daily_trades' = 0 /\ consecutive_losses' = 0
  /\ trades_this_hour' = <<>>
  /\ daily_date' = today
  /\ entries' = 0 /\ reset_mark' = Len(trade_history)

\* A mutation: exits that are just an hour old are popped as well.
RecentTradesStrict(s) ==
  LET old == {i \in DOMAIN s : \A j \in 1..i : clock - s[j] >= HourLength}
  IN  SubSeq(s, 1 + Cardinality(old), Len(s))

\* _clean_hourly_trades pops the exits older than an hour off the front.
RecentTrades(s) ==
  LET old == {i \in DOMAIN s : \A j \in 1..i : clock - s[j] > HourLength}
  IN  SubSeq(s, 1 + Cardinality(old), Len(s))

\* The daily reset and the hourly clean-up that every answer starts with.
PrepareAnswer ==
  IF daily_date # _session_date(clock)
  THEN _reset_daily(_session_date(clock))
  ELSE /\ trades_this_hour' = RecentTrades(trades_this_hour)
       /\ UNCHANGED <<daily_pnl, daily_trades, consecutive_losses, session>>

\* A mutation: the loss has to exceed the limit.
LossLimitExceeded ==
  \/ daily_pnl' < -MaxDailyLoss
  \/ consecutive_losses' >= MaxConsecutiveLosses

\* The limits whose breach sets the circuit breaker, after the daily reset.
LossLimitHit ==
  \/ daily_pnl' <= -MaxDailyLoss
  \/ consecutive_losses' >= MaxConsecutiveLosses

\* can_trade for an entry in zone.  The engine asks only while it takes itself
\* to be flat and knows of no working entry, and submits the entry when allowed
\* (or does not, when the sizing, the guard or the broker refuses).
can_trade(zone) ==
  LET base    == IF daily_date # _session_date(clock)
                 THEN "normal" ELSE risk_state
      zoneNow == IF daily_date # _session_date(clock)
                 THEN 0 ELSE trades_this_zone
      newZone == zone # current_zone_name
      inZone  == IF newZone THEN 0 ELSE zoneNow
      early   == \/ base = "circuit_breaker" \/ blackout_active
                 \/ LossLimitHit
                 \/ Len(trades_this_hour') >= MaxTradesPerHour
      allowed == /\ ~early
                 /\ inZone < MaxTradesPerZone
                 /\ daily_trades' < MaxDailyTrades
  IN  /\ current_position = 0 /\ entry = "none"
      /\ PrepareAnswer
      /\ risk_state' = IF /\ base # "circuit_breaker" /\ ~blackout_active
                          /\ LossLimitHit
                       THEN "circuit_breaker" ELSE base
      /\ trades_this_zone' = IF early THEN zoneNow ELSE inZone
      /\ current_zone_name' = IF early THEN current_zone_name ELSE zone
      /\ \/ entry' = "none"
         \/ allowed /\ ~filled /\ entry' = "submitted"
         \/ /\ allowed /\ filled /\ Len(trade_history) <= MaxBefore
            /\ entry' = "beside"
      /\ UNCHANGED <<trade_history, holding, blackout_active,
                     volatility_circuit_active, clock, filled>>

\* The entry order leaves the executor's books: the broker filled it, possibly
\* in part.  Beside an open position its fill is one of those a sync sees.
EntryFilled ==
  /\ entry # "none" /\ current_position = 0 /\ ~filled
  /\ entry' = "none" /\ filled' = TRUE
  /\ entries' = IF entry = "submitted" THEN entries + 1 ELSE entries
  /\ UNCHANGED <<counters, holding, risk_state, current_zone_name, daily_date,
                 reset_mark, blackout_active, volatility_circuit_active, clock>>

\* It was cancelled or rejected, or its fill is left to the syncs.
EntryGone ==
  /\ entry # "none" /\ entry' = "none"
  /\ UNCHANGED <<counters, holding, session, risk_state, current_zone_name,
                 blackout_active, volatility_circuit_active, clock, filled>>

EntryDone == EntryFilled \/ EntryGone
-----------------------------------------------------------------------------
(* sync_position: the broker's position changed *)

\* What record_trade books but for the count and the losing streak.
BookTrade(pnl) ==
  /\ Len(trade_history) < MaxTrades
  /\ trade_history' = Append(trade_history,
        [pnl |-> pnl, exit_time |-> clock, session |-> _session_date(clock)])
  /\ trades_this_hour' = Append(trades_this_hour, clock)
  /\ trades_this_zone' = trades_this_zone + 1
  /\ daily_pnl' = daily_pnl + pnl

\* Mutations: a trade without profit continues a losing streak; a losing trade
\* is not counted.
StreakOfNoProfit(pnl) ==
  /\ BookTrade(pnl)
  /\ daily_trades' = daily_trades + 1
  /\ consecutive_losses' = IF pnl <= 0 THEN consecutive_losses + 1 ELSE 0
CountWins(pnl) ==
  /\ BookTrade(pnl)
  /\ daily_trades' = daily_trades + (IF pnl < 0 THEN 0 ELSE 1)
  /\ consecutive_losses' = IF pnl < 0 THEN consecutive_losses + 1 ELSE 0

\* record_trade of a trade with this profit.
record_trade(pnl) ==
  /\ BookTrade(pnl)
  /\ daily_trades' = daily_trades + 1
  /\ consecutive_losses' = IF pnl < 0 THEN consecutive_losses + 1 ELSE 0

\* A mutation: a short position is booked like a long one.
UnsignedPnl(contracts, exit_price) ==
  (exit_price - position_entry_price) * contracts

\* The profit _build_trade_record computes for a number of contracts.
TradePnl(contracts, exit_price) ==
  (exit_price - position_entry_price) * contracts * Sign(current_position)

\* The average entry price the broker reports after one fill at price p
\* takes the position from current_position to signed.
BrokerEntryPrice(signed, p) ==
  IF Sign(signed) # Sign(current_position)
  THEN IF signed = 0 THEN {0} ELSE {p}
  ELSE IF Abs(signed) <= Abs(current_position) THEN {position_entry_price}
  ELSE {e \in Nat \cap Prices :
          e * signed = position_entry_price * current_position
                       + p * (signed - current_position)}

CashFlow(signed, p) == cash' = cash - p * (signed - current_position)

\* From flat: an entry was filled.  Its zone is the one can_trade was asked
\* for.
OpenPosition(signed, p) ==
  /\ current_position = 0 /\ signed # 0 /\ filled
  /\ current_position' = signed /\ position_entry_price' = p
  /\ filled' = FALSE
  /\ CashFlow(signed, p)
  /\ UNCHANGED <<counters, current_zone_name>>

\* To flat: the whole position becomes one trade.
ClosePosition(signed, p) ==
  /\ current_position # 0 /\ signed = 0
  /\ record_trade(TradePnl(Abs(current_position), p))
  /\ current_position' = 0 /\ position_entry_price' = 0
  /\ CashFlow(signed, p)
  /\ UNCHANGED <<filled, current_zone_name>>

\* Through flat: the old position becomes a trade, the rest a new position of
\* the zone that is active by now, whose count of trades is not begun anew.
ReversePosition(signed, p) ==
  /\ current_position # 0 /\ signed # 0
  /\ Sign(signed) # Sign(current_position)
  /\ record_trade(TradePnl(Abs(current_position), p))
  /\ current_position' = signed /\ position_entry_price' = p
  /\ current_zone_name' \in Zones
  /\ CashFlow(signed, p)
  /\ UNCHANGED filled

\* Towards flat: the contracts taken off become a trade.
ReducePosition(signed, p) ==
  /\ Sign(signed) = Sign(current_position)
  /\ Abs(signed) < Abs(current_position)
  /\ record_trade(TradePnl(Abs(current_position) - Abs(signed), p))
  /\ current_position' = signed
  /\ position_entry_price' \in BrokerEntryPrice(signed, p)
  /\ CashFlow(signed, p)
  /\ UNCHANGED <<filled, current_zone_name>>

\* Away from flat: only the average price moves.
IncreasePosition(signed, p) ==
  /\ Sign(signed) = Sign(current_position)
  /\ Abs(signed) > Abs(current_position)
  /\ current_position' = signed
  /\ position_entry_price' \in BrokerEntryPrice(signed, p)
  /\ CashFlow(signed, p)
  /\ UNCHANGED <<counters, filled, current_zone_name>>

\* A sync reports the position after one fill at price p, of an entry or not.
sync_position(signed, p) ==
  /\ \/ OpenPosition(signed, p)
     \/ ClosePosition(signed, p)
     \/ ReversePosition(signed, p)
     \/ ReducePosition(signed, p)
     \/ IncreasePosition(signed, p)
  /\ UNCHANGED <<session, risk_state, blackout_active,
                 volatility_circuit_active, clock, entry>>
-----------------------------------------------------------------------------
\* should_flatten_position at a quote: only the loss limit of the position
\* changes state; blackout and circuit breaker merely ask for the exit.
PositionLoss(price) == TradePnl(Abs(current_position), price)

should_flatten_position(price) ==
  /\ current_position # 0
  /\ PositionLoss(price) <= -MaxPositionLoss
  /\ risk_state' = "reduced"
  /\ UNCHANGED <<counters, holding, session, current_zone_name,
                 blackout_active, volatility_circuit_active, clock, orders>>

\* The process ends and is started again, here between two trades: nothing of
\* the manager's state is read back.
Restart ==
  /\ current_position = 0 /\ entry = "none" /\ ~filled
  /\ risk_state' = "normal"
  /\ daily_pnl' = 0 /\ daily_trades' = 0 /\ consecutive_losses' = 0
  /\ trades_this_hour' = <<>> /\ trades_this_zone' = 0
  /\ current_zone_name' = NoZone
  /\ blackout_active' = FALSE /\ volatility_circuit_active' = FALSE
  /\ daily_date' = NoDate /\ trade_history' = <<>>
  /\ cash' = 0 /\ entries' = 0 /\ reset_mark' = 0
  /\ UNCHANGED <<current_position, position_entry_price, clock, entry, filled>>

Next ==
  \/ observe_time
  \/ \E active \in BOOLEAN : set_blackout(active)
  \/ update_volatility
  \/ \E zone \in Zones : can_trade(zone)
  \/ EntryDone
  \/ \E signed \in -MaxContracts..MaxContracts, p \in Prices :
        sync_position(signed, p)
  \/ \E p \in Prices : should_flatten_position(p)
  \/ Restart

Spec == Init /\ [][Next]_vars
-----------------------------------------------------------------------------
(* Properties *)

SumPnl(trades) == FoldLeft(LAMBDA sum, t : sum + t.pnl, 0, trades)

\* The run of losing trades at the end of a history.
LosingStreak(trades) ==
  Cardinality({i \in DOMAIN trades :
                 \A j \in i..Len(trades) : trades[j].pnl < 0})

SinceReset == SubSeq(trade_history, reset_mark + 1, Len(trade_history))

\* The counters can_trade compares with the limits are those of the trades
\* recorded since the last daily reset, whatever mixture of closes, partial
\* closes, reversals and resets came before (record_trade, _reset_daily).
LedgerMatchesHistory ==
  /\ daily_pnl = SumPnl(SinceReset)
  /\ daily_trades = Len(SinceReset)
  /\ consecutive_losses = LosingStreak(SinceReset)

\* The hourly limit sees every exit of the last hour that the daily reset has
\* not dropped: popping from the front of the queue loses none that is recent.
HourWindowComplete ==
  /\ IsSuffix(trades_this_hour,
              [i \in DOMAIN SinceReset |-> SinceReset[i].exit_time])
  /\ \A i \in DOMAIN SinceReset :
       clock - SinceReset[i].exit_time <= HourLength =>
         i > Len(SinceReset) - Len(trades_this_hour)

\* max_daily_trades counts exits, yet it bounds the entries too: those filled
\* since the reset, and the one still working, never exceed it.  Not counted
\* are the entries sent beside a fill no sync had seen, which come on top of the
\* limit: _evaluate_current_state looks at the engine's own position and orders
\* only, so they are let out.
EntriesPerDay ==
  entries + (IF entry = "submitted" THEN 1 ELSE 0) <= MaxDailyTrades

\* The profit recorded in trades is the money the fills brought, marked at the
\* broker's average price: no contract is booked twice, left out or booked
\* with the wrong sign by the cases of sync_position.
RealisedPnlMatchesCash ==
  SumPnl(trade_history) = cash + current_position * position_entry_price

\* Once a loss limit is reached no entry follows before the next daily reset,
\* although a losing position or calmer volatility may have replaced the
\* circuit breaker by the reduced state in between.
NoEntryPastLimits ==
  [][ entry = "none" /\ entry' # "none" =>
        /\ SumPnl(SinceReset') > -MaxDailyLoss
        /\ LosingStreak(SinceReset') < MaxConsecutiveLosses ]_vars
=============================================================================
