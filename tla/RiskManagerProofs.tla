------------------------- MODULE RiskManagerProofs -------------------------
(***************************************************************************)
(* Theorems about RiskManager and EntrySizing, for every value of their    *)
(* constants: the types, the bound that max_daily_trades sets on the       *)
(* entries of a day, the agreement of the ledger and of the hourly queue   *)
(* with the history of trades and of the history with the money, the loss  *)
(* limits, and the size and the limit of an entry.                         *)
(***************************************************************************)
EXTENDS EntrySizing, FiniteSetTheorems, SequenceTheorems, TLAPS

USE LimitsAreNatural, PricesAreNatural, TimesAreNatural
    DEF LimitsAreNatural, PricesAreNatural, TimesAreNatural

\* Popping exits off the front of the hourly queue leaves a queue of times.
LEMMA RecentTradesType ==
  ASSUME TypeOK
  PROVE  RecentTrades(trades_this_hour) \in Seq(Nat)
<1> DEFINE old == {i \in DOMAIN trades_this_hour :
                     \A j \in 1..i : clock - trades_this_hour[j] > HourLength}
<1>1. trades_this_hour \in Seq(Nat)
  BY DEF TypeOK
<1>2. IsFiniteSet(1..Len(trades_this_hour))
  BY <1>1, FS_Interval
<1>3. Cardinality(old) \in Nat
  <2>1. old \subseteq 1..Len(trades_this_hour)
    BY <1>1
  <2>2. QED
    BY <2>1, <1>2, FS_Subset, FS_CardinalityType
<1>4. SubSeq(trades_this_hour, 1 + Cardinality(old), Len(trades_this_hour))
        \in Seq(Nat)
  <2> HIDE DEF old
  <2>1. QED
    BY <1>1, <1>3
<1>5. QED
  BY <1>4 DEF RecentTrades

\* A trade's profit is a number of points.
LEMMA TradePnlType ==
  ASSUME TypeOK, NEW contracts \in Int, NEW p \in Prices
  PROVE  TradePnl(contracts, p) \in Int
<1>1. /\ p \in Int /\ position_entry_price \in Int /\ current_position \in Int
  BY DEF TypeOK
<1>2. Sign(current_position) \in Int
  BY DEF Sign
<1>3. (p - position_entry_price) * contracts \in Int
  BY <1>1
<1>4. QED
  BY <1>2, <1>3 DEF TradePnl

\* The money of one fill.
LEMMA CashType ==
  ASSUME TypeOK, NEW signed \in Int, NEW p \in Prices, CashFlow(signed, p)
  PROVE  cash' \in Int
<1>1. /\ p \in Int /\ current_position \in Int /\ cash \in Int
  BY DEF TypeOK
<1>2. p * (signed - current_position) \in Int
  BY <1>1
<1>3. QED
  BY <1>1, <1>2 DEF CashFlow

\* The average price the broker reports is a price or zero.
LEMMA BrokerEntryPriceType ==
  ASSUME TypeOK, NEW signed \in Int, NEW p \in Prices
  PROVE  BrokerEntryPrice(signed, p) \subseteq Nat
BY DEF BrokerEntryPrice, TypeOK

\* record_trade keeps the counters well typed.
LEMMA RecordTradeType ==
  ASSUME TypeOK, NEW pnl \in Int, record_trade(pnl)
  PROVE  /\ daily_pnl' \in Int /\ daily_trades' \in Nat
         /\ consecutive_losses' \in Nat /\ trades_this_hour' \in Seq(Nat)
         /\ trades_this_zone' \in Nat /\ trade_history' \in Seq(Trade)
<1>1. _session_date(clock) \in Nat
  BY DEF TypeOK, _session_date
<1>2. [pnl |-> pnl, exit_time |-> clock, session |-> _session_date(clock)]
        \in Trade
  BY <1>1 DEF Trade, TypeOK
<1>3. QED
  BY <1>2 DEF record_trade, BookTrade, TypeOK

\* Every step of the manager keeps every variable in its type.
THEOREM TypeCorrect == Spec => []TypeOK
<1>1. ASSUME Init PROVE TypeOK
  <2>1. <<>> \in Seq(Trade) /\ <<>> \in Seq(Nat)
    OBVIOUS
  <2>2. /\ blackout_active \in BOOLEAN /\ volatility_circuit_active \in BOOLEAN
        /\ risk_state \in RiskState /\ filled \in BOOLEAN
        /\ entry \in {"none", "submitted", "beside"}
    BY <1>1 DEF Init, RiskState
  <2>3. QED
    BY <1>1, <2>1, <2>2 DEF Init, TypeOK
<1>2. TypeOK /\ [Next]_vars => TypeOK'
  <2> SUFFICES ASSUME TypeOK, [Next]_vars PROVE TypeOK'
    OBVIOUS
  <2>1. CASE observe_time
    BY <2>1 DEF observe_time, TypeOK, counters, holding, session, orders
  <2>2. ASSUME NEW active \in BOOLEAN, set_blackout(active) PROVE TypeOK'
    BY <2>2 DEF set_blackout, TypeOK, counters, holding, session, orders
  <2>3. CASE update_volatility
    BY <2>3 DEF update_volatility, VolatilitySpike, VolatilityNormalised,
                TypeOK, RiskState, counters, holding, session, orders
  <2>4. ASSUME NEW zone \in Zones, can_trade(zone) PROVE TypeOK'
    <3>1. /\ daily_pnl' \in Int /\ daily_trades' \in Nat
          /\ consecutive_losses' \in Nat /\ trades_this_hour' \in Seq(Nat)
          /\ daily_date' \in Nat \cup {NoDate}
          /\ entries' \in Nat /\ reset_mark' \in Nat
      <4>1. PrepareAnswer
        BY <2>4 DEF can_trade
      <4>2. _session_date(clock) \in Nat
        BY DEF TypeOK, _session_date
      <4>3. CASE daily_date # _session_date(clock)
        BY <4>1, <4>2, <4>3 DEF PrepareAnswer, _reset_daily, TypeOK
      <4>4. CASE daily_date = _session_date(clock)
        BY <4>1, <4>4, RecentTradesType DEF PrepareAnswer, TypeOK, session
      <4>5. QED
        BY <4>3, <4>4
    <3>2. risk_state' \in RiskState /\ trades_this_zone' \in Nat
      BY <2>4 DEF can_trade, TypeOK, RiskState
    <3>3. /\ current_zone_name' \in Zones \cup {NoZone}
          /\ entry' \in {"none", "submitted", "beside"} /\ filled' \in BOOLEAN
      BY <2>4 DEF can_trade, TypeOK
    <3>4. UNCHANGED <<trade_history, holding, blackout_active,
                      volatility_circuit_active, clock>>
      BY <2>4 DEF can_trade
    <3>5. QED
      BY <3>1, <3>2, <3>3, <3>4 DEF TypeOK, holding
  <2>5. CASE EntryDone
    <3>1. entries' \in Nat /\ entry' = "none" /\ filled' \in BOOLEAN
      <4>1. entries \in Nat /\ filled \in BOOLEAN
        BY DEF TypeOK
      <4>2. CASE EntryFilled
        BY <4>1, <4>2 DEF EntryFilled
      <4>3. CASE EntryGone
        BY <4>1, <4>3 DEF EntryGone, session
      <4>4. QED
        BY <2>5, <4>2, <4>3 DEF EntryDone
    <3>2. UNCHANGED <<counters, holding, risk_state, current_zone_name,
                      daily_date, reset_mark, blackout_active,
                      volatility_circuit_active, clock>>
      BY <2>5 DEF EntryDone, EntryFilled, EntryGone, session
    <3>3. QED
      BY <3>1, <3>2 DEF TypeOK, counters, holding
  <2>6. ASSUME NEW signed \in -MaxContracts..MaxContracts, NEW p \in Prices,
               sync_position(signed, p)
        PROVE  TypeOK'
    <3>1. signed \in Int /\ p \in Nat
      OBVIOUS
    <3>2. /\ risk_state' \in RiskState /\ clock' \in Nat
          /\ blackout_active' \in BOOLEAN
          /\ volatility_circuit_active' \in BOOLEAN
          /\ daily_date' = daily_date /\ entries' = entries
          /\ reset_mark' = reset_mark /\ entry' = entry
      BY <2>6 DEF sync_position, TypeOK, session
    <3>3. CASE OpenPosition(signed, p)
      BY <3>1, <3>2, <3>3, CashType DEF OpenPosition, TypeOK, counters
    <3>4. CASE ClosePosition(signed, p)
      <4>1. TradePnl(Abs(current_position), p) \in Int
        BY TradePnlType DEF Abs, TypeOK
      <4>2. QED
        BY <3>1, <3>2, <3>4, <4>1, CashType, RecordTradeType
           DEF ClosePosition, TypeOK, session
    <3>5. CASE ReversePosition(signed, p)
      <4>1. TradePnl(Abs(current_position), p) \in Int
        BY TradePnlType DEF Abs, TypeOK
      <4>2. QED
        BY <3>1, <3>2, <3>5, <4>1, CashType, RecordTradeType
           DEF ReversePosition, TypeOK, session
    <3>6. CASE ReducePosition(signed, p)
      <4>1. TradePnl(Abs(current_position) - Abs(signed), p) \in Int
        BY <3>1, TradePnlType DEF Abs, TypeOK
      <4>2. position_entry_price' \in Nat
        BY <3>1, <3>6, BrokerEntryPriceType DEF ReducePosition
      <4>3. QED
        BY <3>1, <3>2, <3>6, <4>1, <4>2, CashType, RecordTradeType
           DEF ReducePosition, TypeOK, session
    <3>7. CASE IncreasePosition(signed, p)
      <4>1. position_entry_price' \in Nat
        BY <3>1, <3>7, BrokerEntryPriceType DEF IncreasePosition
      <4>2. QED
        BY <3>1, <3>2, <3>7, <4>1, CashType
           DEF IncreasePosition, TypeOK, counters, session
    <3>8. QED
      BY <2>6, <3>3, <3>4, <3>5, <3>6, <3>7 DEF sync_position
  <2>7. ASSUME NEW p \in Prices, should_flatten_position(p) PROVE TypeOK'
    BY <2>7 DEF should_flatten_position, TypeOK, RiskState, counters, holding,
                session, orders
  <2>8. CASE Restart
    <3>1. <<>> \in Seq(Trade) /\ <<>> \in Seq(Nat)
      OBVIOUS
    <3>2. QED
      BY <2>8, <3>1 DEF Restart, TypeOK, RiskState
  <2>9. CASE UNCHANGED vars
    BY <2>9 DEF vars, TypeOK, counters, holding, session, orders
  <2>10. QED
    BY <2>1, <2>2, <2>3, <2>4, <2>5, <2>6, <2>7, <2>8, <2>9 DEF Next
<1>3. QED
  BY <1>1, <1>2, PTL DEF Spec
-----------------------------------------------------------------------------
(***************************************************************************)
(* EntriesPerDay is not inductive: nothing in it ties the entries to the   *)
(* exits that can_trade counts.  An entry is asked for only while flat, so *)
(* every earlier entry of the day has been booked as at least one trade.   *)
(***************************************************************************)
EntriesAreBooked ==
  /\ entry = "submitted" => /\ current_position = 0 /\ ~filled
                            /\ entries < MaxDailyTrades
                            /\ entries <= daily_trades
  /\ entries <= MaxDailyTrades
  /\ \/ entries <= daily_trades
     \/ (current_position # 0 \/ filled) /\ entries <= daily_trades + 1

\* No day sees more entries than max_daily_trades, although the limit only
\* counts completed trades; the entries sent beside a fill that no sync had
\* seen, which the engine lets out, are not counted.
THEOREM EntriesBounded == Spec => []EntriesPerDay
<1>1. Init => EntriesAreBooked
  BY DEF Init, EntriesAreBooked
<1>2. TypeOK /\ TypeOK' /\ EntriesAreBooked /\ [Next]_vars
        => EntriesAreBooked'
  <2> SUFFICES ASSUME TypeOK, TypeOK', EntriesAreBooked, [Next]_vars
               PROVE  EntriesAreBooked'
    OBVIOUS
  <2> USE DEF EntriesAreBooked
  <2>1. CASE observe_time
    BY <2>1 DEF observe_time, counters, holding, session, orders
  <2>2. ASSUME NEW active \in BOOLEAN, set_blackout(active)
        PROVE  EntriesAreBooked'
    BY <2>2 DEF set_blackout, counters, holding, session, orders
  <2>3. CASE update_volatility
    BY <2>3 DEF update_volatility, VolatilitySpike, VolatilityNormalised,
                counters, holding, session, orders
  <2>4. ASSUME NEW zone \in Zones, can_trade(zone) PROVE EntriesAreBooked'
    <3>1. /\ current_position = 0 /\ entry = "none"
          /\ current_position' = current_position
          /\ entry' = "submitted" => daily_trades' < MaxDailyTrades /\ ~filled
          /\ filled' = filled
      BY <2>4 DEF can_trade, holding
    <3>2. \/ entries' = 0
          \/ entries' = entries /\ daily_trades' = daily_trades
      BY <2>4 DEF can_trade, PrepareAnswer, _reset_daily, session
    <3>3. /\ entries \in Nat /\ daily_trades \in Nat
          /\ entries' \in Nat /\ daily_trades' \in Nat
          /\ MaxDailyTrades \in Nat \ {0}
      BY LimitsAreNatural DEF TypeOK, LimitsAreNatural
    <3>4. CASE entries' = 0
      <4>1. /\ entries' < MaxDailyTrades /\ entries' <= daily_trades'
            /\ entries' <= MaxDailyTrades
        BY <3>3, <3>4
      <4>2. entry' = "submitted" => current_position' = 0 /\ ~(filled')
        BY <3>1
      <4>3. QED
        BY <4>1, <4>2
    <3>5. CASE entries' = entries /\ daily_trades' = daily_trades
      BY <3>1, <3>3, <3>5
    <3>6. QED
      BY <3>2, <3>4, <3>5
  <2>5. CASE EntryDone
    <3>1. entry' = "none" /\ UNCHANGED <<daily_trades, current_position>>
      BY <2>5 DEF EntryDone, EntryFilled, EntryGone, counters, holding
    <3>2. /\ entries \in Nat /\ daily_trades \in Nat
          /\ MaxDailyTrades \in Nat
      BY LimitsAreNatural DEF TypeOK, LimitsAreNatural
    <3>3. CASE EntryGone
      BY <3>1, <3>3 DEF EntryGone, session
    <3>4. CASE EntryFilled
      <4>1. /\ filled' = TRUE /\ ~filled /\ current_position = 0
            /\ entries' = IF entry = "submitted" THEN entries + 1 ELSE entries
        BY <3>4 DEF EntryFilled
      <4>2. CASE entry = "submitted"
        BY <3>1, <3>2, <4>1, <4>2
      <4>3. CASE entry # "submitted"
        BY <3>1, <3>2, <4>1, <4>3
      <4>4. QED
        BY <4>2, <4>3
    <3>5. QED
      BY <2>5, <3>3, <3>4 DEF EntryDone
  <2>6. ASSUME NEW signed \in -MaxContracts..MaxContracts, NEW p \in Prices,
               sync_position(signed, p)
        PROVE  EntriesAreBooked'
    <3>0. entry' = entry /\ entries' = entries
      BY <2>6 DEF sync_position, session
    <3>1. CASE OpenPosition(signed, p)
      BY <3>0, <3>1 DEF OpenPosition, TypeOK, counters
    <3>2. CASE ClosePosition(signed, p)
      BY <3>0, <3>2 DEF ClosePosition, record_trade, BookTrade, TypeOK, session
    <3>3. CASE ReversePosition(signed, p)
      BY <3>0, <3>3 DEF ReversePosition, record_trade, BookTrade, TypeOK, session
    <3>4. CASE ReducePosition(signed, p)
      <4>1. current_position # 0
        BY <3>4 DEF ReducePosition, Sign, Abs
      <4>2. /\ filled' = filled /\ daily_trades' = daily_trades + 1
        BY <3>4 DEF ReducePosition, record_trade, BookTrade, session
      <4>3. QED
        BY <3>0, <3>4, <4>1, <4>2 DEF ReducePosition, TypeOK
    <3>5. CASE IncreasePosition(signed, p)
      BY <3>0, <3>5 DEF IncreasePosition, TypeOK, counters, session, Sign, Abs
    <3>6. QED
      BY <2>6, <3>1, <3>2, <3>3, <3>4, <3>5 DEF sync_position
  <2>7. ASSUME NEW p \in Prices, should_flatten_position(p)
        PROVE  EntriesAreBooked'
    BY <2>7 DEF should_flatten_position, counters, holding, session, orders
  <2>8. CASE Restart
    BY <2>8 DEF Restart, TypeOK
  <2>9. CASE UNCHANGED vars
    BY <2>9 DEF vars, counters, holding, session, orders
  <2>10. QED
    BY <2>1, <2>2, <2>3, <2>4, <2>5, <2>6, <2>7, <2>8, <2>9 DEF Next
<1>3. TypeOK /\ EntriesAreBooked => EntriesPerDay
  BY DEF EntriesAreBooked, EntriesPerDay, TypeOK
<1>4. QED
  BY <1>1, <1>2, <1>3, TypeCorrect, PTL DEF Spec
-----------------------------------------------------------------------------
(* Numbers and positions *)

\* A set with 0 that has n + 1 with each n has all natural numbers.  The
\* library states induction for an operator; this is its form for a set.
LEMMA InductionOverNat ==
  ASSUME NEW Q, 0 \in Q, \A n \in Nat : n \in Q => n + 1 \in Q
  PROVE  \A n \in Nat : n \in Q
<1> SUFFICES ASSUME Nat \ Q # {} PROVE FALSE
  OBVIOUS
<1>1. PICK x \in Nat \ Q : \A y \in Nat \ Q : ~(<<y, x>> \in OpToRel(<, Nat))
  <2>1. Nat \ Q \subseteq Nat
    OBVIOUS
  <2>2. QED
    BY <2>1, NatLessThanWellFounded, WFMin
<1>2. x # 0 /\ x - 1 \in Nat /\ (x - 1) + 1 = x
  OBVIOUS
<1>3. x - 1 \in Nat \ Q
  BY <1>2
<1>4. <<x - 1, x>> \in OpToRel(<, Nat)
  BY <1>2 DEF OpToRel
<1>5. QED
  BY <1>1, <1>3, <1>4

\* The maximum of a set of positions.
LEMMA MaxOfPositions ==
  ASSUME NEW n \in Nat, NEW S \in SUBSET (1..n), S # {}
  PROVE  Max(S) \in S /\ \A y \in S : y <= Max(S)
<1> DEFINE Q == {m \in Nat : \A T \in SUBSET (1..m) :
                   T # {} => \E x \in T : \A y \in T : y <= x}
<1>1. 0 \in Q
  <2>1. \A T \in SUBSET (1..0) : T = {}
    OBVIOUS
  <2>2. QED
    BY <2>1
<1>2. ASSUME NEW m \in Nat, m \in Q PROVE m + 1 \in Q
  <2> SUFFICES ASSUME NEW T \in SUBSET (1..(m + 1)), T # {}
               PROVE  \E x \in T : \A y \in T : y <= x
    OBVIOUS
  <2>1. CASE m + 1 \in T
    BY <2>1
  <2>2. CASE m + 1 \notin T
    <3>1. T \in SUBSET (1..m)
      BY <2>2
    <3>2. QED
      BY <1>2, <3>1
  <2>3. QED
    BY <2>1, <2>2
<1>3. n \in Q
  <2> HIDE DEF Q
  <2>1. QED
    BY <1>1, <1>2, InductionOverNat
<1>4. \E x \in S : \A y \in S : x >= y
  BY <1>3
<1>5. QED
  BY <1>4 DEF Max

-----------------------------------------------------------------------------
(***************************************************************************)
(* SumPnl is a fold over a sequence, and a fold is the value of a function *)
(* that is chosen by an equation on sets of positions.  That a function    *)
(* meets the equation is shown by induction on the length; then the sum of *)
(* a longer history is the sum of the shorter one and one profit more.     *)
(***************************************************************************)
\* The equation of the function that the fold of SumPnl is an application of.
SumsOf(iter, s) ==
  iter = [S \in SUBSET DOMAIN s |->
            IF S = {} THEN 0 ELSE iter[S \ {Max(S)}] + s[Max(S)].pnl]

\* A function that meets it for the sets of the first n positions.
SumsUpTo(h, s, n) ==
  /\ h \in [SUBSET (1..n) -> Int]
  /\ \A S \in SUBSET (1..n) :
       h[S] = IF S = {} THEN 0 ELSE h[S \ {Max(S)}] + s[Max(S)].pnl

\* One position more.
LEMMA SumsExtend ==
  ASSUME NEW s \in Seq(Trade), NEW n \in Nat, n + 1 <= Len(s),
         NEW h, SumsUpTo(h, s, n)
  PROVE  \E g : SumsUpTo(g, s, n + 1)
<1>1. s[n + 1].pnl \in Int
  <2>1. s[n + 1] \in Trade
    BY ElementOfSeq
  <2>2. QED
    BY <2>1 DEF Trade
<1> DEFINE last == s[n + 1].pnl
<1> DEFINE g == [S \in SUBSET (1..(n + 1)) |->
                   IF n + 1 \in S THEN h[S \ {n + 1}] + last ELSE h[S]]
<1>2. h \in [SUBSET (1..n) -> Int]
  BY DEF SumsUpTo
<1>3. g \in [SUBSET (1..(n + 1)) -> Int]
  <2> SUFFICES ASSUME NEW S \in SUBSET (1..(n + 1))
               PROVE  (IF n + 1 \in S THEN h[S \ {n + 1}] + last ELSE h[S]) \in Int
    OBVIOUS
  <2>1. S \ {n + 1} \in SUBSET (1..n)
    OBVIOUS
  <2>2. h[S \ {n + 1}] \in Int
    BY <2>1, <1>2
  <2>3. n + 1 \notin S => S \in SUBSET (1..n)
    OBVIOUS
  <2>4. n + 1 \notin S => h[S] \in Int
    BY <2>3, <1>2
  <2>5. QED
    BY <2>2, <2>4, <1>1
<1>4. ASSUME NEW S \in SUBSET (1..(n + 1)), S # {}, n + 1 \in S
      PROVE  g[S] = g[S \ {Max(S)}] + s[Max(S)].pnl
  <2>1. Max(S) \in S /\ n + 1 <= Max(S)
    <3>1. n + 1 \in Nat
      OBVIOUS
    <3>2. QED
      BY <1>4, <3>1, MaxOfPositions
  <2>2. Max(S) = n + 1
    <3>1. Max(S) \in 1..(n + 1)
      BY <2>1
    <3>2. QED
      BY <2>1, <3>1
  <2>3. S \ {n + 1} \in SUBSET (1..(n + 1)) /\ n + 1 \notin S \ {n + 1}
    OBVIOUS
  <2>4. g[S \ {n + 1}] = h[S \ {n + 1}]
    BY <2>3
  <2>5. QED
    BY <1>4, <2>2, <2>4
<1>5. ASSUME NEW S \in SUBSET (1..(n + 1)), S # {}, n + 1 \notin S
      PROVE  g[S] = g[S \ {Max(S)}] + s[Max(S)].pnl
  <2>1. S \in SUBSET (1..n) /\ g[S] = h[S]
    BY <1>5
  <2>2. S \ {Max(S)} \in SUBSET (1..(n + 1)) /\ n + 1 \notin S \ {Max(S)}
    BY <1>5
  <2>3. g[S \ {Max(S)}] = h[S \ {Max(S)}]
    BY <2>2
  <2>4. h[S] = h[S \ {Max(S)}] + s[Max(S)].pnl
    BY <1>5, <2>1 DEF SumsUpTo
  <2>5. QED
    BY <2>1, <2>3, <2>4
<1>6. g[{}] = 0
  BY DEF SumsUpTo
<1>7. SumsUpTo(g, s, n + 1)
  <2> HIDE DEF g
  <2>1. QED
    BY <1>3, <1>4, <1>5, <1>6 DEF SumsUpTo
<1>8. QED
  BY <1>7

\* There is such a function.
LEMMA SumsExist ==
  ASSUME NEW s \in Seq(Trade)
  PROVE  \E iter : SumsOf(iter, s)
<1> DEFINE Q == {n \in Nat : n <= Len(s) => \E h : SumsUpTo(h, s, n)}
<1>1. 0 \in Q
  <2>1. SumsUpTo([S \in SUBSET (1..0) |-> 0], s, 0)
    BY DEF SumsUpTo
  <2>2. QED
    BY <2>1
<1>2. ASSUME NEW n \in Nat, n \in Q PROVE n + 1 \in Q
  <2>1. CASE n + 1 <= Len(s)
    <3>1. \E h : SumsUpTo(h, s, n)
      BY <1>2, <2>1
    <3>2. \E h : SumsUpTo(h, s, n + 1)
      BY <3>1, <2>1, SumsExtend
    <3>3. QED
      BY <3>2
  <2>2. QED
    BY <2>1
<1>3. Len(s) \in Q
  <2> HIDE DEF Q
  <2>1. Len(s) \in Nat
    OBVIOUS
  <2>2. QED
    BY <1>1, <1>2, <2>1, InductionOverNat
<1>4. PICK h : SumsUpTo(h, s, Len(s))
  BY <1>3
<1>5. h \in [SUBSET (1..Len(s)) -> Int] /\ DOMAIN s = 1..Len(s)
  BY <1>4 DEF SumsUpTo
<1>6. h = [S \in SUBSET DOMAIN s |->
             IF S = {} THEN 0 ELSE h[S \ {Max(S)}] + s[Max(S)].pnl]
  BY <1>4, <1>5 DEF SumsUpTo
<1>7. QED
  BY <1>4, <1>6 DEF SumsOf

\* The sums of the first positions, one after the other.
RunningSum(iter, s) ==
  /\ iter[1..0] = 0
  /\ \A k \in 0..(Len(s) - 1) : iter[1..(k + 1)] = iter[1..k] + s[k + 1].pnl

\* Every history has its running sums, and SumPnl is the last of them.
LEMMA SumPnlRuns ==
  ASSUME NEW s \in Seq(Trade)
  PROVE  \E iter : RunningSum(iter, s) /\ SumPnl(s) = iter[1..Len(s)]
<1> DEFINE sums == CHOOSE iter : SumsOf(iter, s)
<1>1. SumPnl(s) = (CHOOSE iter : iter = [S \in SUBSET DOMAIN s |->
         IF S = {} THEN 0 ELSE iter[S \ {Max(S)}] + s[Max(S)].pnl])[DOMAIN s]
  BY DEF SumPnl, FoldLeft, MapThenFoldSet
<1>2. SumPnl(s) = sums[DOMAIN s]
  BY <1>1 DEF SumsOf
<1>3. SumsOf(sums, s)
  BY SumsExist
<1>4. DOMAIN s = 1..Len(s) /\ Len(s) \in Nat
  OBVIOUS
<1> HIDE DEF sums
<1>5. \A S \in SUBSET (1..Len(s)) :
        sums[S] = IF S = {} THEN 0 ELSE sums[S \ {Max(S)}] + s[Max(S)].pnl
  BY <1>3, <1>4 DEF SumsOf
<1>6. sums[1..0] = 0
  <2>1. 1..0 = {} /\ {} \in SUBSET (1..Len(s))
    OBVIOUS
  <2>2. QED
    BY <1>5, <2>1
<1>7. ASSUME NEW k \in 0..(Len(s) - 1)
      PROVE  sums[1..(k + 1)] = sums[1..k] + s[k + 1].pnl
  <2> DEFINE S == 1..(k + 1)
  <2>1. /\ S \in SUBSET (1..Len(s)) /\ S \in SUBSET (1..(k + 1))
        /\ k + 1 \in S /\ k + 1 \in Nat
    BY <1>4
  <2>2. Max(S) \in 1..(k + 1) /\ k + 1 <= Max(S)
    <3> HIDE DEF S
    <3>1. QED
      BY <2>1, MaxOfPositions
  <2>3. Max(1..(k + 1)) = k + 1
    BY <2>2
  <2>4. (1..(k + 1)) \ {k + 1} = 1..k
    OBVIOUS
  <2>5. QED
    BY <1>5, <2>1, <2>3, <2>4
<1>8. QED
  BY <1>2, <1>4, <1>6, <1>7 DEF RunningSum

\* Two histories with the same beginning have the same sums so far.
LEMMA RunningSumsAgree ==
  ASSUME NEW s \in Seq(Trade), NEW t \in Seq(Trade),
         NEW a, RunningSum(a, s), NEW b, RunningSum(b, t),
         NEW n \in Nat, n <= Len(s), n <= Len(t),
         \A i \in 1..n : s[i] = t[i]
  PROVE  a[1..n] = b[1..n] /\ a[1..n] \in Int
<1> DEFINE Q == {k \in Nat : k <= n => a[1..k] = b[1..k] /\ a[1..k] \in Int}
<1>1. 0 \in Q
  BY DEF RunningSum
<1>2. ASSUME NEW k \in Nat, k \in Q PROVE k + 1 \in Q
  <2> SUFFICES ASSUME k + 1 <= n
               PROVE  a[1..(k + 1)] = b[1..(k + 1)] /\ a[1..(k + 1)] \in Int
    OBVIOUS
  <2>1. a[1..k] = b[1..k] /\ a[1..k] \in Int
    BY <1>2
  <2>2. k \in 0..(Len(s) - 1) /\ k \in 0..(Len(t) - 1) /\ k + 1 \in 1..Len(s)
    OBVIOUS
  <2>3. s[k + 1] = t[k + 1]
    OBVIOUS
  <2>4. s[k + 1].pnl \in Int
    <3>1. s[k + 1] \in Trade
      BY <2>2, ElementOfSeq
    <3>2. QED
      BY <3>1 DEF Trade
  <2>5. /\ a[1..(k + 1)] = a[1..k] + s[k + 1].pnl
        /\ b[1..(k + 1)] = b[1..k] + t[k + 1].pnl
    BY <2>2 DEF RunningSum
  <2>6. QED
    BY <2>1, <2>3, <2>4, <2>5
<1>3. QED
  <2> HIDE DEF Q
  <2>1. n \in Q
    BY <1>1, <1>2, InductionOverNat
  <2> USE DEF Q
  <2>2. QED
    BY <2>1

\* No trades, no profit.
LEMMA SumPnlEmpty == SumPnl(<<>>) = 0
<1>1. <<>> \in Seq(Trade) /\ Len(<<>>) = 0
  BY EmptySeq
<1>2. PICK a : RunningSum(a, <<>>) /\ SumPnl(<<>>) = a[1..Len(<<>>)]
  BY <1>1, SumPnlRuns
<1>3. QED
  BY <1>1, <1>2 DEF RunningSum

\* A trade more adds its profit, to whatever history.
LEMMA SumPnlAppend ==
  ASSUME NEW s \in Seq(Trade), NEW t \in Trade
  PROVE  SumPnl(s) \in Int /\ SumPnl(Append(s, t)) = SumPnl(s) + t.pnl
<1> DEFINE more == Append(s, t)
<1>1. /\ more \in Seq(Trade) /\ Len(more) = Len(s) + 1 /\ Len(s) \in Nat
      /\ \A i \in 1..Len(s) : more[i] = s[i]
      /\ more[Len(s) + 1] = t
  BY AppendProperties
<1> HIDE DEF more
<1>2. PICK a : RunningSum(a, s) /\ SumPnl(s) = a[1..Len(s)]
  BY SumPnlRuns
<1>3. PICK b : RunningSum(b, more) /\ SumPnl(more) = b[1..Len(more)]
  BY <1>1, SumPnlRuns
<1>4. a[1..Len(s)] = b[1..Len(s)] /\ a[1..Len(s)] \in Int
  BY <1>1, <1>2, <1>3, RunningSumsAgree
<1>5. b[1..Len(more)] = b[1..Len(s)] + more[Len(s) + 1].pnl
  <2>1. Len(s) \in 0..(Len(more) - 1)
    BY <1>1
  <2>2. QED
    BY <1>1, <1>3, <2>1 DEF RunningSum
<1>6. QED
  BY <1>1, <1>2, <1>3, <1>4, <1>5 DEF more

-----------------------------------------------------------------------------
(* The losing streak and the hourly queue *)

\* The streak of a history and a trade more: a loss is one more, any other
\* trade ends it.
LEMMA LosingStreakAppend ==
  ASSUME NEW s \in Seq(Trade), NEW t \in Trade
  PROVE  /\ LosingStreak(s) \in Nat
         /\ LosingStreak(Append(s, t)) = IF t.pnl < 0 THEN LosingStreak(s) + 1 ELSE 0
<1> DEFINE more == Append(s, t)
           old  == {i \in DOMAIN s : \A j \in i..Len(s) : s[j].pnl < 0}
           new  == {i \in DOMAIN more : \A j \in i..Len(more) : more[j].pnl < 0}
<1>1. /\ DOMAIN more = 1..(Len(s) + 1) /\ Len(more) = Len(s) + 1
      /\ DOMAIN s = 1..Len(s) /\ Len(s) \in Nat
      /\ \A i \in 1..Len(s) : more[i] = s[i]
      /\ more[Len(s) + 1] = t
  <2>1. more \in Seq(Trade)
    BY AppendProperties
  <2>2. QED
    BY <2>1, AppendProperties
<1>2. IsFiniteSet(old) /\ Cardinality(old) \in Nat
  <2>1. old \subseteq DOMAIN s
    OBVIOUS
  <2>2. IsFiniteSet(1..Len(s))
    BY <1>1, FS_Interval
  <2> HIDE DEF old
  <2>3. QED
    BY <1>1, <2>1, <2>2, FS_Subset, FS_CardinalityType
<1>3. CASE t.pnl < 0
  <2>1. new = old \cup {Len(s) + 1} /\ Len(s) + 1 \notin old
    <3> HIDE DEF more
    <3>1. QED
      BY <1>1, <1>3
  <2>2. Cardinality(new) = Cardinality(old) + 1
    <3> HIDE DEF old, new
    <3>1. QED
      BY <1>2, <2>1, FS_AddElement
  <2>3. QED
    BY <1>2, <1>3, <2>2 DEF LosingStreak
<1>4. CASE ~(t.pnl < 0)
  <2>1. new = {}
    <3> HIDE DEF more
    <3>1. QED
      BY <1>1, <1>4
  <2>2. QED
    BY <1>2, <1>4, <2>1, FS_EmptySet DEF LosingStreak
<1>5. QED
  BY <1>3, <1>4

\* No trades, no losses.
LEMMA LosingStreakEmpty == LosingStreak(<<>>) = 0
<1>1. {i \in DOMAIN <<>> : \A j \in i..Len(<<>>) : <<>>[j].pnl < 0} = {}
  OBVIOUS
<1>2. QED
  BY <1>1, FS_EmptySet DEF LosingStreak

\* A set of positions without gaps is those up to its size.
LEMMA NoGaps ==
  ASSUME NEW n \in Nat, NEW D \in SUBSET (1..n),
         \A i \in D : \A j \in 1..i : j \in D
  PROVE  Cardinality(D) \in 0..n /\ D = 1..Cardinality(D)
<1>1. \E m \in 0..n : D = 1..m
  <2>1. CASE D = {}
    <3>1. D = 1..0
      BY <2>1
    <3>2. QED
      BY <3>1
  <2>2. CASE D # {}
    <3> DEFINE m == Max(D)
    <3>1. m \in D /\ \A y \in D : y <= m
      BY <2>2, MaxOfPositions
    <3> HIDE DEF m
    <3>2. m \in 0..n /\ \A j \in 1..m : j \in D
      BY <3>1
    <3>3. \A y \in D : y \in 1..m
      BY <3>1
    <3>4. D = 1..m
      BY <3>2, <3>3
    <3>5. QED
      BY <3>2, <3>4
  <2>3. QED
    BY <2>1, <2>2
<1>2. PICK m \in 0..n : D = 1..m
  BY <1>1
<1>3. Cardinality(1..m) = m
  BY FS_Interval
<1>4. QED
  BY <1>2, <1>3

\* What popping leaves of the queue: a suffix, and every exit popped is older
\* than an hour.
LEMMA RecentTradesSuffix ==
  ASSUME NEW s \in Seq(Nat), clock \in Nat
  PROVE  \E k \in 0..Len(s) :
           /\ RecentTrades(s) \in Seq(Nat)
           /\ Len(RecentTrades(s)) = Len(s) - k
           /\ \A i \in 1..(Len(s) - k) : RecentTrades(s)[i] = s[k + i]
           /\ \A i \in 1..k : clock - s[i] > HourLength
<1> DEFINE old == {i \in DOMAIN s : \A j \in 1..i : clock - s[j] > HourLength}
           k   == Cardinality(old)
<1>1. Len(s) \in Nat /\ DOMAIN s = 1..Len(s)
  OBVIOUS
<1>2. old \in SUBSET (1..Len(s)) /\ \A i \in old : \A j \in 1..i : j \in old
  BY <1>1
<1>3. k \in 0..Len(s) /\ old = 1..k
  <2> HIDE DEF old
  <2>1. QED
    BY <1>1, <1>2, NoGaps
<1>4. \A i \in 1..k : clock - s[i] > HourLength
  <2>1. \A i \in old : i \in 1..i /\ clock - s[i] > HourLength
    BY <1>2
  <2> HIDE DEF old
  <2>2. QED
    BY <1>3, <2>1
<1> DEFINE rest == SubSeq(s, 1 + k, Len(s))
<1>5. RecentTrades(s) = rest
  BY DEF RecentTrades
<1> HIDE DEF k
<1>6. /\ rest \in Seq(Nat)
      /\ Len(rest) = IF 1 + k <= Len(s) THEN Len(s) - (1 + k) + 1 ELSE 0
      /\ \A i \in 1..(Len(s) - (1 + k) + 1) : rest[i] = s[1 + k + i - 1]
  <2>1. 1 + k \in Int /\ Len(s) \in Int /\ \A i \in (1 + k)..Len(s) : s[i] \in Nat
    BY <1>1, <1>3, ElementOfSeq
  <2>2. QED
    BY <2>1, SubSeqProperties
<1> HIDE DEF rest
<1>7. Len(rest) = Len(s) - k
  <2>1. k \in Nat /\ k <= Len(s) /\ Len(s) \in Nat
    BY <1>1, <1>3
  <2>2. CASE 1 + k <= Len(s)
    BY <1>6, <2>1, <2>2
  <2>3. CASE ~(1 + k <= Len(s))
    BY <1>6, <2>1, <2>3
  <2>4. QED
    BY <2>2, <2>3
<1>8. ASSUME NEW i \in 1..(Len(s) - k) PROVE rest[i] = s[k + i]
  <2>1. i \in 1..(Len(s) - (1 + k) + 1) /\ 1 + k + i - 1 = k + i
    BY <1>1, <1>3
  <2>2. QED
    BY <1>6, <2>1
<1>9. QED
  BY <1>3, <1>4, <1>5, <1>6, <1>7, <1>8

-----------------------------------------------------------------------------
(***************************************************************************)
(* The ledger.  Its counters are never read back from the history, so that *)
(* they agree with it rests on every step doing to both the same.          *)
(***************************************************************************)
\* What a step does to the ledger: it leaves it, but for exits older than an
\* hour; it empties it; or it books one trade.
LedgerKept ==
  /\ UNCHANGED <<daily_pnl, daily_trades, consecutive_losses, trade_history,
                 reset_mark>>
  /\ \/ trades_this_hour' = trades_this_hour /\ clock' >= clock
     \/ trades_this_hour' = RecentTrades(trades_this_hour) /\ clock' = clock
LedgerEmptied ==
  /\ daily_pnl' = 0 /\ daily_trades' = 0 /\ consecutive_losses' = 0
  /\ trades_this_hour' = <<>> /\ reset_mark' = Len(trade_history')
  /\ trade_history' \in {trade_history, <<>>}
LedgerBooks ==
  /\ \E pnl \in Int : record_trade(pnl)
  /\ UNCHANGED <<clock, reset_mark>>

\* Every step of the manager is one of these three.
LEMMA LedgerSteps ==
  ASSUME TypeOK, [Next]_vars
  PROVE  LedgerKept \/ LedgerEmptied \/ LedgerBooks
<1> USE DEF LedgerKept, LedgerEmptied, LedgerBooks
<1>1. CASE observe_time
  BY <1>1 DEF observe_time, TypeOK, counters, session
<1>2. ASSUME NEW active \in BOOLEAN, set_blackout(active) PROVE LedgerKept
  BY <1>2 DEF set_blackout, TypeOK, counters, session
<1>3. CASE update_volatility
  BY <1>3 DEF update_volatility, VolatilitySpike, VolatilityNormalised, TypeOK,
              counters, session
<1>4. ASSUME NEW zone \in Zones, can_trade(zone)
      PROVE  LedgerKept \/ LedgerEmptied
  <2>1. PrepareAnswer /\ UNCHANGED <<trade_history, clock>>
    BY <1>4 DEF can_trade
  <2>2. CASE daily_date # _session_date(clock)
    BY <2>1, <2>2 DEF PrepareAnswer, _reset_daily
  <2>3. CASE daily_date = _session_date(clock)
    BY <2>1, <2>3 DEF PrepareAnswer, session
  <2>4. QED
    BY <2>2, <2>3
<1>5. CASE EntryDone
  BY <1>5 DEF EntryDone, EntryFilled, EntryGone, TypeOK, counters, session
<1>6. ASSUME NEW signed \in -MaxContracts..MaxContracts, NEW p \in Prices,
             sync_position(signed, p)
      PROVE  LedgerKept \/ LedgerBooks
  <2>1. /\ signed \in Int /\ clock' = clock /\ clock \in Nat
        /\ reset_mark' = reset_mark
    BY <1>6 DEF sync_position, TypeOK, session
  <2>2. CASE OpenPosition(signed, p)
    BY <2>1, <2>2 DEF OpenPosition, counters
  <2>3. CASE ClosePosition(signed, p)
    <3>1. TradePnl(Abs(current_position), p) \in Int
      BY TradePnlType DEF Abs, TypeOK
    <3>2. QED
      BY <2>1, <2>3, <3>1 DEF ClosePosition, session
  <2>4. CASE ReversePosition(signed, p)
    <3>1. TradePnl(Abs(current_position), p) \in Int
      BY TradePnlType DEF Abs, TypeOK
    <3>2. QED
      BY <2>1, <2>4, <3>1 DEF ReversePosition, session
  <2>5. CASE ReducePosition(signed, p)
    <3>1. TradePnl(Abs(current_position) - Abs(signed), p) \in Int
      BY <2>1, TradePnlType DEF Abs, TypeOK
    <3>2. QED
      BY <2>1, <2>5, <3>1 DEF ReducePosition, session
  <2>6. CASE IncreasePosition(signed, p)
    BY <2>1, <2>6 DEF IncreasePosition, counters, session
  <2>7. QED
    BY <1>6, <2>2, <2>3, <2>4, <2>5, <2>6 DEF sync_position
<1>7. ASSUME NEW p \in Prices, should_flatten_position(p) PROVE LedgerKept
  BY <1>7 DEF should_flatten_position, TypeOK, counters, session
<1>8. CASE Restart
  BY <1>8 DEF Restart
<1>9. CASE UNCHANGED vars
  BY <1>9 DEF vars, TypeOK, counters, session
<1>10. QED
  BY <1>1, <1>2, <1>3, <1>4, <1>5, <1>6, <1>7, <1>8, <1>9 DEF Next

\* The trades since the reset are the last of the history.
LEMMA SinceResetProperties ==
  ASSUME NEW h \in Seq(Trade), NEW mark \in 0..Len(h)
  PROVE  /\ SubSeq(h, mark + 1, Len(h)) \in Seq(Trade)
         /\ Len(SubSeq(h, mark + 1, Len(h))) = Len(h) - mark
         /\ \A i \in 1..(Len(h) - mark) :
              SubSeq(h, mark + 1, Len(h))[i] = h[mark + i]
<1> DEFINE rest == SubSeq(h, mark + 1, Len(h))
<1>1. Len(h) \in Nat /\ mark \in Nat /\ mark <= Len(h)
  OBVIOUS
<1>2. /\ rest \in Seq(Trade)
      /\ Len(rest) = IF mark + 1 <= Len(h) THEN Len(h) - (mark + 1) + 1 ELSE 0
      /\ \A i \in 1..(Len(h) - (mark + 1) + 1) : rest[i] = h[mark + 1 + i - 1]
  <2>1. \A i \in (mark + 1)..Len(h) : h[i] \in Trade
    BY <1>1, ElementOfSeq
  <2>2. QED
    BY <1>1, <2>1, SubSeqProperties
<1> HIDE DEF rest
<1>3. Len(rest) = Len(h) - mark
  <2>1. CASE mark + 1 <= Len(h)
    BY <1>1, <1>2, <2>1
  <2>2. CASE ~(mark + 1 <= Len(h))
    BY <1>1, <1>2, <2>2
  <2>3. QED
    BY <2>1, <2>2
<1>4. ASSUME NEW i \in 1..(Len(h) - mark) PROVE rest[i] = h[mark + i]
  <2>1. i \in 1..(Len(h) - (mark + 1) + 1) /\ mark + 1 + i - 1 = mark + i
    BY <1>1
  <2>2. QED
    BY <1>2, <2>1
<1>5. QED
  BY <1>2, <1>3, <1>4 DEF rest

\* A trade more of the history is one more since the reset.
LEMMA SinceResetAppend ==
  ASSUME NEW h \in Seq(Trade), NEW mark \in 0..Len(h), NEW t \in Trade
  PROVE  SubSeq(Append(h, t), mark + 1, Len(h) + 1) =
           Append(SubSeq(h, mark + 1, Len(h)), t)
<1> DEFINE more == Append(h, t)
           rest == SubSeq(h, mark + 1, Len(h))
           now  == SubSeq(more, mark + 1, Len(more))
<1>1. /\ more \in Seq(Trade) /\ Len(more) = Len(h) + 1 /\ Len(h) \in Nat
      /\ \A i \in 1..Len(h) : more[i] = h[i]
      /\ more[Len(h) + 1] = t
  BY AppendProperties
<1>2. /\ rest \in Seq(Trade) /\ Len(rest) = Len(h) - mark
      /\ \A i \in 1..(Len(h) - mark) : rest[i] = h[mark + i]
  BY SinceResetProperties
<1>3. /\ now \in Seq(Trade) /\ Len(now) = Len(more) - mark
      /\ \A i \in 1..(Len(more) - mark) : now[i] = more[mark + i]
  <2> HIDE DEF more
  <2>1. mark \in 0..Len(more)
    BY <1>1
  <2>2. QED
    BY <1>1, <2>1, SinceResetProperties
<1> DEFINE last == Append(rest, t)
<1> HIDE DEF more, rest, now
<1>4. /\ last \in Seq(Trade) /\ Len(last) = Len(rest) + 1
      /\ \A i \in 1..Len(rest) : last[i] = rest[i]
      /\ last[Len(rest) + 1] = t
  BY <1>2, AppendProperties
<1> HIDE DEF last
<1>5. Len(now) = Len(last)
  BY <1>1, <1>2, <1>3, <1>4
<1>6. ASSUME NEW i \in 1..Len(now) PROVE now[i] = last[i]
  <2>1. CASE i = Len(h) - mark + 1
    BY <1>1, <1>2, <1>3, <1>4, <2>1
  <2>2. CASE i # Len(h) - mark + 1
    <3>1. i \in 1..(Len(h) - mark) /\ mark + i \in 1..Len(h)
      <4>1. /\ Len(now) = Len(h) + 1 - mark /\ Len(h) \in Nat
            /\ mark \in Nat /\ mark <= Len(h)
        BY <1>1, <1>3
      <4>2. i \in Nat /\ 1 <= i /\ i <= Len(h) + 1 - mark
        BY <4>1
      <4>3. QED
        BY <4>1, <4>2, <2>2
    <3>2. now[i] = more[mark + i] /\ more[mark + i] = h[mark + i]
      BY <1>1, <1>3, <3>1
    <3>3. last[i] = rest[i] /\ rest[i] = h[mark + i]
      BY <1>2, <1>4, <3>1
    <3>4. QED
      BY <3>2, <3>3
  <2>3. QED
    BY <2>1, <2>2
<1>7. now = last
  BY <1>3, <1>4, <1>5, <1>6, SeqEqual
<1>8. QED
  BY <1>1, <1>7 DEF now, last, more, rest

\* The counters agree with the history, and the mark lies in it.
LedgerInv == reset_mark <= Len(trade_history) /\ LedgerMatchesHistory

\* The trades since the reset are trades.
LEMMA SinceResetType ==
  ASSUME TypeOK, reset_mark <= Len(trade_history)
  PROVE  SinceReset \in Seq(Trade)
BY SinceResetProperties DEF SinceReset, TypeOK

\* A trade booked is one more since the reset.
LEMMA SinceResetBooks ==
  ASSUME TypeOK, reset_mark <= Len(trade_history),
         NEW pnl \in Int, record_trade(pnl), UNCHANGED <<clock, reset_mark>>
  PROVE  /\ reset_mark' <= Len(trade_history')
         /\ \E t \in Trade : /\ t.pnl = pnl /\ t.exit_time = clock
                             /\ SinceReset' = Append(SinceReset, t)
                             /\ trade_history' = Append(trade_history, t)
<1> DEFINE t == [pnl |-> pnl, exit_time |-> clock,
                 session |-> _session_date(clock)]
<1>1. trade_history \in Seq(Trade) /\ reset_mark \in 0..Len(trade_history)
  BY DEF TypeOK
<1>2. t \in Trade
  <2>1. _session_date(clock) \in Nat
    BY DEF TypeOK, _session_date
  <2>2. QED
    BY <2>1 DEF Trade, TypeOK
<1>3. trade_history' = Append(trade_history, t) /\ reset_mark' = reset_mark
  BY DEF record_trade, BookTrade
<1>4. t.pnl = pnl /\ t.exit_time = clock
  OBVIOUS
<1> HIDE DEF t
<1>5. Len(trade_history') = Len(trade_history) + 1
  BY <1>1, <1>2, <1>3, AppendProperties
<1>6. SinceReset' = Append(SinceReset, t)
  BY <1>1, <1>2, <1>3, <1>5, SinceResetAppend DEF SinceReset
<1>7. QED
  BY <1>1, <1>2, <1>3, <1>4, <1>5, <1>6

\* A history that was reset just now has no trades since.
LEMMA SinceResetEmptied ==
  ASSUME TypeOK', LedgerEmptied
  PROVE  reset_mark' <= Len(trade_history') /\ SinceReset' = <<>>
<1>1. trade_history' \in Seq(Trade) /\ reset_mark' = Len(trade_history')
  BY DEF TypeOK, LedgerEmptied
<1>2. Len(trade_history') \in Nat
  BY <1>1
<1>3. /\ SinceReset' \in Seq(Trade)
      /\ Len(SinceReset') = Len(trade_history') - Len(trade_history')
  <2>1. Len(trade_history') \in 0..Len(trade_history')
    BY <1>2
  <2>2. QED
    BY <1>1, <2>1, SinceResetProperties DEF SinceReset
<1>4. SinceReset' = <<>>
  BY <1>2, <1>3, EmptySeq
<1>5. QED
  BY <1>1, <1>2, <1>4

\* What makes the ledger's agreement inductive: no reset marks a trade that
\* is not there.
THEOREM LedgerInvariant == Spec => []LedgerInv
<1>1. Init => LedgerInv
  <2> SUFFICES ASSUME Init PROVE LedgerInv
    OBVIOUS
  <2>1. trade_history = <<>> /\ reset_mark = 0 /\ Len(<<>>) = 0 /\ SubSeq(<<>>, 1, 0) = <<>>
    BY EmptySeq DEF Init
  <2>2. SinceReset = <<>>
    BY <2>1 DEF SinceReset
  <2>3. QED
    BY <2>1, <2>2, SumPnlEmpty, LosingStreakEmpty
       DEF Init, LedgerInv, LedgerMatchesHistory
<1>2. TypeOK /\ TypeOK' /\ LedgerInv /\ [Next]_vars => LedgerInv'
  <2> SUFFICES ASSUME TypeOK, TypeOK', LedgerInv, [Next]_vars PROVE LedgerInv'
    OBVIOUS
  <2>1. CASE LedgerKept
    BY <2>1 DEF LedgerKept, LedgerInv, LedgerMatchesHistory, SinceReset
  <2>2. CASE LedgerEmptied
    <3>1. reset_mark' <= Len(trade_history') /\ SinceReset' = <<>>
      BY <2>2, SinceResetEmptied
    <3>2. Len(<<>>) = 0
      BY EmptySeq
    <3>3. QED
      BY <2>2, <3>1, <3>2, SumPnlEmpty, LosingStreakEmpty
         DEF LedgerEmptied, LedgerInv, LedgerMatchesHistory
  <2>3. ASSUME NEW pnl \in Int, record_trade(pnl), UNCHANGED <<clock, reset_mark>>
        PROVE  LedgerInv'
    <3>1. PICK t \in Trade : t.pnl = pnl /\ SinceReset' = Append(SinceReset, t)
      BY <2>3, SinceResetBooks DEF LedgerInv
    <3>2. SinceReset \in Seq(Trade)
      BY SinceResetType DEF LedgerInv
    <3>3. /\ SumPnl(SinceReset') = SumPnl(SinceReset) + pnl
          /\ Len(SinceReset') = Len(SinceReset) + 1
          /\ LosingStreak(SinceReset') =
               IF pnl < 0 THEN LosingStreak(SinceReset) + 1 ELSE 0
      BY <3>1, <3>2, SumPnlAppend, LosingStreakAppend, AppendProperties
    <3>4. /\ daily_pnl' = daily_pnl + pnl /\ daily_trades' = daily_trades + 1
          /\ consecutive_losses' = IF pnl < 0 THEN consecutive_losses + 1 ELSE 0
      BY <2>3 DEF record_trade, BookTrade
    <3>5. reset_mark' <= Len(trade_history')
      BY <2>3, SinceResetBooks DEF LedgerInv
    <3>6. QED
      BY <3>3, <3>4, <3>5 DEF LedgerInv, LedgerMatchesHistory
  <2>4. QED
    BY <2>1, <2>2, <2>3, LedgerSteps DEF LedgerBooks
<1>3. QED
  BY <1>1, <1>2, TypeCorrect, PTL DEF Spec

\* The counters compared with the limits are those of the trades since the
\* last daily reset, after any sequence of closes, reversals and resets.
THEOREM LedgerSound == Spec => []LedgerMatchesHistory
<1>1. LedgerInv => LedgerMatchesHistory
  BY DEF LedgerInv
<1>2. QED
  BY <1>1, LedgerInvariant, PTL

-----------------------------------------------------------------------------
(***************************************************************************)
(* The hourly queue.  HourWindowComplete does not say which exits are gone *)
(* from the queue: the invariant does.  They are the first ones, and every *)
(* one of them is older than an hour, now and, as time only advances, ever *)
(* after.                                                                  *)
(***************************************************************************)
QueueIsRest(queue, trades, now, gone) ==
  /\ Len(queue) = Len(trades) - gone
  /\ \A i \in 1..(Len(trades) - gone) : queue[i] = trades[gone + i].exit_time
  /\ \A i \in 1..gone : now - trades[i].exit_time > HourLength

HourInv ==
  \E gone \in 0..Len(SinceReset) :
    QueueIsRest(trades_this_hour, SinceReset, clock, gone)

\* An exit more, at the end of the queue and of the history.
LEMMA QueueGrows ==
  ASSUME NEW q \in Seq(Nat), NEW s \in Seq(Trade), NEW now \in Nat,
         NEW gone \in 0..Len(s), QueueIsRest(q, s, now, gone), NEW t \in Trade
  PROVE  /\ gone \in 0..Len(Append(s, t))
         /\ QueueIsRest(Append(q, t.exit_time), Append(s, t), now, gone)
<1> DEFINE more == Append(s, t)
           longer == Append(q, t.exit_time)
<1>1. /\ Len(more) = Len(s) + 1 /\ Len(s) \in Nat
      /\ \A i \in 1..Len(s) : more[i] = s[i]
      /\ more[Len(s) + 1] = t
  BY AppendProperties
<1>2. /\ Len(longer) = Len(q) + 1 /\ Len(q) \in Nat
      /\ \A i \in 1..Len(q) : longer[i] = q[i]
      /\ longer[Len(q) + 1] = t.exit_time
  <2>1. t.exit_time \in Nat
    BY DEF Trade
  <2>2. QED
    BY <2>1, AppendProperties
<1> HIDE DEF more, longer
<1> USE DEF QueueIsRest
<1>3. ASSUME NEW i \in 1..(Len(more) - gone)
      PROVE  longer[i] = more[gone + i].exit_time
  <2>1. CASE i = Len(q) + 1
    <3>1. gone + i = Len(s) + 1
      BY <2>1
    <3>2. QED
      BY <1>1, <1>2, <2>1, <3>1
  <2>2. CASE i # Len(q) + 1
    <3>0. /\ Len(q) = Len(s) - gone /\ gone \in Nat /\ gone <= Len(s)
          /\ i \in Nat /\ 1 <= i /\ i <= Len(s) + 1 - gone
      BY <1>1
    <3>1. i \in 1..Len(q) /\ i \in 1..(Len(s) - gone) /\ gone + i \in 1..Len(s)
      <4> HIDE DEF QueueIsRest
      <4>1. QED
        BY <2>2, <3>0
    <3>2. longer[i] = q[i] /\ more[gone + i] = s[gone + i]
      BY <1>1, <1>2, <3>1
    <3>3. QED
      BY <3>1, <3>2
  <2>3. QED
    BY <2>1, <2>2
<1>4. ASSUME NEW i \in 1..gone PROVE now - more[i].exit_time > HourLength
  <2>1. i \in 1..Len(s)
    OBVIOUS
  <2>2. QED
    BY <1>1, <2>1
<1>5. Len(longer) = Len(more) - gone
  BY <1>1, <1>2
<1>6. gone \in 0..Len(more)
  BY <1>1
<1>7. QueueIsRest(longer, more, now, gone)
  BY <1>3, <1>4, <1>5
<1>8. QED
  BY <1>6, <1>7 DEF more, longer

\* Exits popped off the front: more are gone, and they are old.
LEMMA QueuePopped ==
  ASSUME TypeOK, NEW s \in Seq(Trade), NEW gone \in 0..Len(s),
         QueueIsRest(trades_this_hour, s, clock, gone)
  PROVE  \E g \in 0..Len(s) :
           QueueIsRest(RecentTrades(trades_this_hour), s, clock, g)
<1> DEFINE q == trades_this_hour
           r == RecentTrades(q)
<1>1. q \in Seq(Nat) /\ clock \in Nat /\ Len(q) = Len(s) - gone /\ Len(s) \in Nat
  BY DEF TypeOK, QueueIsRest
<1>2. PICK k \in 0..Len(q) :
        /\ Len(r) = Len(q) - k
        /\ \A i \in 1..(Len(q) - k) : r[i] = q[k + i]
        /\ \A i \in 1..k : clock - q[i] > HourLength
  BY <1>1, RecentTradesSuffix
<1> HIDE DEF r
<1>3. gone + k \in 0..Len(s) /\ Len(r) = Len(s) - (gone + k)
  BY <1>1, <1>2
<1>4. ASSUME NEW i \in 1..(Len(s) - (gone + k))
      PROVE  r[i] = s[gone + k + i].exit_time
  <2>1. i \in 1..(Len(q) - k) /\ k + i \in 1..(Len(s) - gone)
    BY <1>1, <1>2
  <2>2. r[i] = q[k + i] /\ q[k + i] = s[gone + (k + i)].exit_time
    BY <1>2, <2>1 DEF QueueIsRest
  <2>3. gone + (k + i) = gone + k + i
    BY <1>2, <2>1
  <2>4. QED
    BY <2>2, <2>3
<1>5. ASSUME NEW i \in 1..(gone + k)
      PROVE  clock - s[i].exit_time > HourLength
  <2>1. CASE i \in 1..gone
    BY <2>1 DEF QueueIsRest
  <2>2. CASE i \notin 1..gone
    <3>1. /\ i - gone \in 1..k /\ i - gone \in 1..(Len(s) - gone)
          /\ gone + (i - gone) = i
      BY <1>1, <1>2, <2>2
    <3>2. q[i - gone] = s[i].exit_time
      BY <3>1 DEF QueueIsRest
    <3>3. QED
      BY <1>2, <3>1, <3>2
  <2>3. QED
    BY <2>1, <2>2
<1>6. QueueIsRest(r, s, clock, gone + k)
  BY <1>3, <1>4, <1>5 DEF QueueIsRest
<1>7. QED
  BY <1>3, <1>6 DEF r

\* At any time the exits missing from the queue are the oldest of the day.
THEOREM HourInvariant == Spec => []HourInv
<1>1. Init => HourInv
  <2> SUFFICES ASSUME Init PROVE HourInv
    OBVIOUS
  <2>1. SinceReset = <<>> /\ trades_this_hour = <<>> /\ Len(<<>>) = 0
    BY EmptySeq DEF Init, SinceReset
  <2>2. QueueIsRest(<<>>, <<>>, clock, 0)
    BY <2>1 DEF QueueIsRest
  <2>3. QED
    BY <2>1, <2>2 DEF HourInv
<1>2. TypeOK /\ TypeOK' /\ LedgerInv /\ HourInv /\ [Next]_vars => HourInv'
  <2> SUFFICES ASSUME TypeOK, TypeOK', LedgerInv, HourInv, [Next]_vars
               PROVE  HourInv'
    OBVIOUS
  <2>1. /\ SinceReset \in Seq(Trade) /\ Len(SinceReset) \in Nat
        /\ trades_this_hour \in Seq(Nat) /\ clock \in Nat /\ clock' \in Nat
    BY SinceResetType DEF LedgerInv, TypeOK
  <2>2. PICK gone \in 0..Len(SinceReset) :
          QueueIsRest(trades_this_hour, SinceReset, clock, gone)
    BY DEF HourInv
  <2>3. CASE LedgerKept
    <3>1. SinceReset' = SinceReset
      BY <2>3 DEF LedgerKept, SinceReset
    <3>2. CASE trades_this_hour' = trades_this_hour /\ clock' >= clock
      <4>1. ASSUME NEW i \in 1..gone
            PROVE  clock' - SinceReset[i].exit_time > HourLength
        <5>1. clock - SinceReset[i].exit_time > HourLength
          BY <2>2 DEF QueueIsRest
        <5>2. SinceReset[i].exit_time \in Nat
          <6>1. i \in 1..Len(SinceReset)
            BY <2>1
          <6>2. SinceReset[i] \in Trade
            BY <2>1, <6>1, ElementOfSeq
          <6>3. QED
            BY <6>2 DEF Trade
        <5>3. QED
          BY <2>1, <3>2, <5>1, <5>2
      <4>2. QueueIsRest(trades_this_hour, SinceReset, clock', gone)
        BY <2>2, <4>1 DEF QueueIsRest
      <4>3. QED
        BY <3>1, <3>2, <4>2 DEF HourInv
    <3>3. CASE trades_this_hour' = RecentTrades(trades_this_hour) /\ clock' = clock
      <4>1. PICK g \in 0..Len(SinceReset) :
              QueueIsRest(RecentTrades(trades_this_hour), SinceReset, clock, g)
        BY <2>1, <2>2, QueuePopped
      <4>2. QED
        BY <3>1, <3>3, <4>1 DEF HourInv
    <3>4. QED
      BY <2>3, <3>2, <3>3 DEF LedgerKept
  <2>4. CASE LedgerEmptied
    <3>1. SinceReset' = <<>> /\ trades_this_hour' = <<>> /\ Len(<<>>) = 0
      BY <2>4, SinceResetEmptied, EmptySeq DEF LedgerEmptied
    <3>2. QueueIsRest(<<>>, <<>>, clock', 0)
      BY <3>1 DEF QueueIsRest
    <3>3. QED
      BY <3>1, <3>2 DEF HourInv
  <2>5. ASSUME NEW pnl \in Int, record_trade(pnl), UNCHANGED <<clock, reset_mark>>
        PROVE  HourInv'
    <3>1. PICK t \in Trade :
            t.exit_time = clock /\ SinceReset' = Append(SinceReset, t)
      BY <2>5, SinceResetBooks DEF LedgerInv
    <3>2. trades_this_hour' = Append(trades_this_hour, t.exit_time)
      BY <2>5, <3>1 DEF record_trade, BookTrade
    <3>3. /\ gone \in 0..Len(Append(SinceReset, t))
          /\ QueueIsRest(Append(trades_this_hour, t.exit_time),
                         Append(SinceReset, t), clock, gone)
      BY <2>1, <2>2, QueueGrows
    <3>4. QED
      BY <2>5, <3>1, <3>2, <3>3 DEF HourInv
  <2>6. QED
    BY <2>3, <2>4, <2>5, LedgerSteps DEF LedgerBooks
<1>3. QED
  BY <1>1, <1>2, TypeCorrect, LedgerInvariant, PTL DEF Spec

\* The library's IsSuffix compares the reversed sequences.
LEMMA SuffixByPosition ==
  ASSUME NEW T, NEW s \in Seq(T), NEW t \in Seq(T), NEW k \in 0..Len(t),
         Len(s) = Len(t) - k, \A i \in 1..Len(s) : s[i] = t[k + i]
  PROVE  IsSuffix(s, t)
<1> DEFINE m == Len(s)
           n == Len(t)
           rs == Reverse(s)
           rt == Reverse(t)
<1>1. m \in Nat /\ n \in Nat /\ m <= n /\ k \in Nat /\ m = n - k
  OBVIOUS
<1>2. /\ rs = [i \in 1..m |-> s[(m - i) + 1]]
      /\ rt = [i \in 1..n |-> t[(n - i) + 1]]
  BY DEF Reverse
<1> HIDE DEF m, n
<1>3. \A i \in 1..m : s[(m - i) + 1] \in T
  <2>1. \A i \in 1..m : (m - i) + 1 \in 1..Len(s)
    BY <1>1 DEF m
  <2>2. QED
    BY <2>1, ElementOfSeq
<1>4. \A i \in 1..n : t[(n - i) + 1] \in T
  <2>1. \A i \in 1..n : (n - i) + 1 \in 1..Len(t)
    BY <1>1 DEF n
  <2>2. QED
    BY <2>1, ElementOfSeq
<1>5. rs \in Seq(T) /\ Len(rs) = m
  BY <1>1, <1>2, <1>3
<1>6. rt \in Seq(T) /\ Len(rt) = n
  BY <1>1, <1>2, <1>4
<1>7. ASSUME NEW i \in 1..m PROVE rs[i] = rt[i]
  <2>1. rs[i] = s[(m - i) + 1] /\ rt[i] = t[(n - i) + 1]
    BY <1>1, <1>2
  <2>2. (m - i) + 1 \in 1..m /\ k + ((m - i) + 1) = (n - i) + 1
    BY <1>1
  <2>3. s[(m - i) + 1] = t[k + ((m - i) + 1)]
    BY <2>2 DEF m
  <2>4. QED
    BY <2>1, <2>2, <2>3
<1> DEFINE ps == SubSeq(rs, 1, m)
           pt == SubSeq(rt, 1, m)
<1> HIDE DEF rs, rt
<1>8. /\ ps \in Seq(T) /\ Len(ps) = m
      /\ pt \in Seq(T) /\ Len(pt) = m
      /\ \A i \in 1..m : ps[i] = rs[i] /\ pt[i] = rt[i]
  <2>1. /\ \A i \in 1..m : rs[i] \in T
        /\ \A i \in 1..m : rt[i] \in T
    BY <1>1, <1>5, <1>6, ElementOfSeq
  <2>2. /\ ps \in Seq(T) /\ Len(ps) = (IF 1 <= m THEN m - 1 + 1 ELSE 0)
        /\ \A i \in 1..(m - 1 + 1) : ps[i] = rs[1 + i - 1]
    BY <1>1, <2>1, SubSeqProperties
  <2>3. /\ pt \in Seq(T) /\ Len(pt) = (IF 1 <= m THEN m - 1 + 1 ELSE 0)
        /\ \A i \in 1..(m - 1 + 1) : pt[i] = rt[1 + i - 1]
    BY <1>1, <2>1, SubSeqProperties
  <2> HIDE DEF ps, pt
  <2>4. Len(ps) = m /\ Len(pt) = m
    BY <1>1, <2>2, <2>3
  <2>5. \A i \in 1..m : i \in 1..(m - 1 + 1) /\ 1 + i - 1 = i
    BY <1>1
  <2>6. QED
    BY <2>2, <2>3, <2>4, <2>5
<1> HIDE DEF ps, pt
<1>9. ps = pt
  BY <1>7, <1>8, SeqEqual
<1>10. IsPrefix(rs, rt)
  BY <1>1, <1>5, <1>6, <1>9 DEF IsPrefix, ps, pt
<1>11. QED
  BY <1>10 DEF IsSuffix, rs, rt

\* No exit of the last hour is missing from the queue max_trades_per_hour is
\* compared with.
THEOREM HourWindow == Spec => []HourWindowComplete
<1>1. TypeOK /\ LedgerInv /\ HourInv => HourWindowComplete
  <2> SUFFICES ASSUME TypeOK, LedgerInv, HourInv PROVE HourWindowComplete
    OBVIOUS
  <2> DEFINE n == Len(SinceReset)
             times == [i \in DOMAIN SinceReset |-> SinceReset[i].exit_time]
  <2>1. /\ SinceReset \in Seq(Trade) /\ n \in Nat /\ DOMAIN SinceReset = 1..n
        /\ trades_this_hour \in Seq(Nat)
    BY SinceResetType DEF LedgerInv, TypeOK
  <2>2. PICK gone \in 0..n :
          QueueIsRest(trades_this_hour, SinceReset, clock, gone)
    BY DEF HourInv
  <2>3. \A i \in 1..n : SinceReset[i].exit_time \in Nat
    <3>1. \A i \in 1..n : SinceReset[i] \in Trade
      BY <2>1, ElementOfSeq
    <3>2. QED
      BY <3>1 DEF Trade
  <2>4. Len(trades_this_hour) = n - gone
    BY <2>2 DEF QueueIsRest
  <2> HIDE DEF n
  <2>5. times \in Seq(Nat) /\ Len(times) = n
    BY <2>1, <2>3
  <2>6. \A i \in 1..Len(trades_this_hour) : trades_this_hour[i] = times[gone + i]
    <3>1. \A i \in 1..(n - gone) : gone + i \in 1..n
      BY <2>1
    <3>2. \A i \in 1..(n - gone) :
            trades_this_hour[i] = SinceReset[gone + i].exit_time
      BY <2>2 DEF QueueIsRest, n
    <3>3. QED
      BY <2>1, <2>4, <3>1, <3>2
  <2> HIDE DEF times
  <2>7. IsSuffix(trades_this_hour, times)
    BY <2>1, <2>2, <2>4, <2>5, <2>6, SuffixByPosition
  <2>8. ASSUME NEW i \in 1..n, clock - SinceReset[i].exit_time <= HourLength
        PROVE  i > n - Len(trades_this_hour)
    <3>1. \A j \in 1..gone : clock - SinceReset[j].exit_time > HourLength
      BY <2>2 DEF QueueIsRest
    <3>2. i \notin 1..gone
      BY <2>3, <2>8, <3>1 DEF TypeOK
    <3>3. QED
      BY <2>1, <2>4, <3>2
  <2>9. QED
    BY <2>1, <2>7, <2>8 DEF HourWindowComplete, times, n
<1>2. QED
  BY <1>1, TypeCorrect, LedgerInvariant, HourInvariant, PTL

-----------------------------------------------------------------------------
(***************************************************************************)
(* The money.  RealisedPnlMatchesCash is inductive as it stands; each case *)
(* of sync_position is an identity of products, proved from Distribute.    *)
(***************************************************************************)
\* Multiplication of integers, as far as the books need it.
LEMMA Distribute ==
  ASSUME NEW a \in Int, NEW b \in Int, NEW c \in Int
  PROVE  /\ a * (b - c) = a * b - a * c /\ (b - c) * a = b * a - c * a
         /\ a * b = b * a /\ a * b \in Int /\ 0 * a = 0 /\ a * 0 = 0
         /\ a * 1 = a /\ a * (-b) = -(a * b)
OBVIOUS

\* What a sync books for the contracts taken off.
LEMMA SignedContracts ==
  ASSUME NEW a \in Int, NEW b \in Int, Sign(a) = Sign(b) \/ b = 0
  PROVE  (Abs(a) - Abs(b)) * Sign(a) = a - b
<1>1. CASE a > 0
  <2>1. Sign(a) = 1 /\ Abs(a) = a /\ Abs(b) = b
    BY <1>1 DEF Sign, Abs
  <2>2. QED
    BY <2>1, Distribute
<1>2. CASE a < 0
  <2>1. Sign(a) = -1 /\ Abs(a) = -a /\ Abs(b) = -b
    BY <1>2 DEF Sign, Abs
  <2>2. QED
    BY <2>1, Distribute
<1>3. CASE a = 0
  <2>1. Sign(a) = 0 /\ Abs(a) = 0 /\ Abs(b) = 0 /\ b = 0
    BY <1>3 DEF Sign, Abs
  <2>2. QED
    BY <2>1, <1>3
<1>4. QED
  BY <1>1, <1>2, <1>3

\* The profit of the contracts taken off, multiplied out.
LEMMA PnlOfContracts ==
  ASSUME TypeOK, NEW b \in Int, Sign(current_position) = Sign(b) \/ b = 0,
         NEW p \in Int
  PROVE  TradePnl(Abs(current_position) - Abs(b), p) =
           p * current_position - p * b
             - position_entry_price * current_position + position_entry_price * b
<1> DEFINE c == Abs(current_position) - Abs(b)
           s == Sign(current_position)
           d == p - position_entry_price
<1>1. /\ current_position \in Int /\ position_entry_price \in Int
      /\ c \in Int /\ s \in Int /\ d \in Int
  BY DEF TypeOK, Abs, Sign
<1>2. c * s = current_position - b
  BY <1>1, SignedContracts
<1>3. (d * c) * s = d * (c * s)
  <2> HIDE DEF c, s, d
  <2>1. QED
    BY <1>1
<1>4. d * (current_position - b) = d * current_position - d * b
  <2> HIDE DEF c, s, d
  <2>1. QED
    BY <1>1, Distribute
<1>5. /\ d * current_position =
           p * current_position - position_entry_price * current_position
      /\ d * b = p * b - position_entry_price * b
  BY <1>1, Distribute
<1>6. /\ p * current_position \in Int /\ p * b \in Int
      /\ position_entry_price * current_position \in Int
      /\ position_entry_price * b \in Int
  BY <1>1, Distribute
<1>7. TradePnl(c, p) = (d * c) * s
  BY DEF TradePnl
<1> HIDE DEF c, s, d
<1>8. TradePnl(c, p) = d * current_position - d * b
  BY <1>2, <1>3, <1>4, <1>7
<1>9. TradePnl(c, p) =
        p * current_position - p * b
          - position_entry_price * current_position + position_entry_price * b
  BY <1>5, <1>6, <1>8
<1>10. QED
  BY <1>9 DEF c

\* A trade booked adds its profit to the sum.
LEMMA BookedProfit ==
  ASSUME TypeOK, NEW pnl \in Int, record_trade(pnl)
  PROVE  /\ SumPnl(trade_history) \in Int
         /\ SumPnl(trade_history') = SumPnl(trade_history) + pnl
<1> DEFINE t == [pnl |-> pnl, exit_time |-> clock,
                 session |-> _session_date(clock)]
<1>1. t \in Trade /\ t.pnl = pnl
  <2>1. _session_date(clock) \in Nat
    BY DEF TypeOK, _session_date
  <2>2. QED
    BY <2>1 DEF Trade, TypeOK
<1>2. trade_history' = Append(trade_history, t) /\ trade_history \in Seq(Trade)
  BY DEF record_trade, BookTrade, TypeOK
<1> HIDE DEF t
<1>3. QED
  BY <1>1, <1>2, SumPnlAppend

\* The sum of the history is a number.
LEMMA SumPnlType == ASSUME TypeOK PROVE SumPnl(trade_history) \in Int
<1>1. [pnl |-> 0, exit_time |-> 0, session |-> 0] \in Trade
  BY DEF Trade
<1>2. QED
  BY <1>1, SumPnlAppend DEF TypeOK

\* The profit of the recorded trades is the money the fills brought, for every
\* price, size and sequence of fills.
THEOREM CashMatches == Spec => []RealisedPnlMatchesCash
<1>1. Init => RealisedPnlMatchesCash
  BY SumPnlEmpty DEF Init, RealisedPnlMatchesCash
<1>2. TypeOK /\ RealisedPnlMatchesCash /\ [Next]_vars => RealisedPnlMatchesCash'
  <2> SUFFICES ASSUME TypeOK, RealisedPnlMatchesCash, [Next]_vars
               PROVE  RealisedPnlMatchesCash'
    OBVIOUS
  <2> DEFINE kept == UNCHANGED <<trade_history, holding>>
  <2>0. ASSUME kept PROVE RealisedPnlMatchesCash'
    BY <2>0 DEF RealisedPnlMatchesCash, holding
  <2>1. CASE observe_time
    BY <2>0, <2>1 DEF observe_time, counters
  <2>2. ASSUME NEW active \in BOOLEAN, set_blackout(active) PROVE kept
    BY <2>2 DEF set_blackout, counters
  <2>3. CASE update_volatility
    BY <2>0, <2>3 DEF update_volatility, VolatilitySpike, VolatilityNormalised,
                      counters
  <2>4. ASSUME NEW zone \in Zones, can_trade(zone) PROVE kept
    BY <2>4 DEF can_trade
  <2>5. CASE EntryDone
    BY <2>0, <2>5 DEF EntryDone, EntryFilled, EntryGone, counters
  <2>6. ASSUME NEW signed \in -MaxContracts..MaxContracts, NEW p \in Prices,
               sync_position(signed, p)
        PROVE  RealisedPnlMatchesCash'
    <3> DEFINE cp == current_position
               pep == position_entry_price
               sum == SumPnl(trade_history)
    <3>1. /\ signed \in Int /\ p \in Int /\ cp \in Int /\ pep \in Int
          /\ cash \in Int /\ sum \in Int
      BY SumPnlType DEF TypeOK
    <3>2. sum = cash + pep * cp
      BY <3>1, Distribute DEF RealisedPnlMatchesCash
    <3>3. /\ p * signed \in Int /\ p * cp \in Int /\ pep * cp \in Int
          /\ pep * signed \in Int /\ signed * p = p * signed
          /\ signed * pep = pep * signed
      BY <3>1, Distribute
    <3>4. CashFlow(signed, p) => cash' = cash - p * signed + p * cp
      <4>1. p * (signed - cp) = p * signed - p * cp
        BY <3>1, Distribute
      <4>2. QED
        BY <3>1, <3>3, <4>1 DEF CashFlow
    <3>5. CASE OpenPosition(signed, p)
      <4>1. /\ p * cp = 0 /\ pep * cp = 0
        BY <3>1, <3>5, Distribute DEF OpenPosition
      <4>2. /\ trade_history' = trade_history /\ current_position' = signed
            /\ position_entry_price' = p /\ CashFlow(signed, p)
        BY <3>5 DEF OpenPosition, counters
      <4> HIDE DEF cp, pep
      <4>3. QED
        BY <3>1, <3>2, <3>3, <3>4, <4>1, <4>2 DEF RealisedPnlMatchesCash
    <3>6. CASE ClosePosition(signed, p)
      <4>1. /\ p * 0 = 0 /\ pep * 0 = 0
        BY <3>1, Distribute
      <4>2. TradePnl(Abs(cp), p) = p * cp - pep * cp
        <5>1. Abs(0) = 0 /\ Abs(cp) - 0 = Abs(cp)
          BY <3>1 DEF Abs
        <5>2. TradePnl(Abs(cp) - Abs(0), p) = p * cp - p * 0 - pep * cp + pep * 0
          BY <3>1, PnlOfContracts
        <5>3. QED
          BY <3>1, <3>3, <4>1, <5>1, <5>2
      <4>3. SumPnl(trade_history') = sum + TradePnl(Abs(cp), p)
        BY <3>1, <3>3, <3>6, <4>2, BookedProfit DEF ClosePosition
      <4>4. /\ signed = 0 /\ current_position' = 0 /\ position_entry_price' = 0
            /\ CashFlow(signed, p)
        BY <3>6 DEF ClosePosition
      <4> HIDE DEF cp, pep, sum
      <4>5. QED
        BY <3>1, <3>2, <3>3, <3>4, <4>1, <4>2, <4>3, <4>4
           DEF RealisedPnlMatchesCash
    <3>7. CASE ReversePosition(signed, p)
      <4>1. /\ p * 0 = 0 /\ pep * 0 = 0
        BY <3>1, Distribute
      <4>2. TradePnl(Abs(cp), p) = p * cp - pep * cp
        <5>1. Abs(0) = 0 /\ Abs(cp) - 0 = Abs(cp)
          BY <3>1 DEF Abs
        <5>2. TradePnl(Abs(cp) - Abs(0), p) = p * cp - p * 0 - pep * cp + pep * 0
          BY <3>1, PnlOfContracts
        <5>3. QED
          BY <3>1, <3>3, <4>1, <5>1, <5>2
      <4>3. SumPnl(trade_history') = sum + TradePnl(Abs(cp), p)
        BY <3>1, <3>3, <3>7, <4>2, BookedProfit DEF ReversePosition
      <4>4. /\ current_position' = signed /\ position_entry_price' = p
            /\ CashFlow(signed, p)
        BY <3>7 DEF ReversePosition
      <4> HIDE DEF cp, pep, sum
      <4>5. QED
        BY <3>1, <3>2, <3>3, <3>4, <4>1, <4>2, <4>3, <4>4
           DEF RealisedPnlMatchesCash
    <3>8. CASE ReducePosition(signed, p)
      <4>1. TradePnl(Abs(cp) - Abs(signed), p) =
              p * cp - p * signed - pep * cp + pep * signed
        BY <3>1, <3>8, PnlOfContracts DEF ReducePosition
      <4>2. SumPnl(trade_history') = sum + TradePnl(Abs(cp) - Abs(signed), p)
        BY <3>1, <3>3, <3>8, <4>1, BookedProfit DEF ReducePosition
      <4>3. /\ current_position' = signed /\ CashFlow(signed, p)
            /\ position_entry_price' = pep
        <5>1. Abs(signed) <= Abs(current_position)
          BY <3>1, <3>8 DEF ReducePosition, Abs
        <5>2. QED
          BY <3>8, <5>1 DEF ReducePosition, BrokerEntryPrice
      <4> HIDE DEF cp, pep, sum
      <4>4. QED
        BY <3>1, <3>2, <3>3, <3>4, <4>1, <4>2, <4>3
           DEF RealisedPnlMatchesCash
    <3>9. CASE IncreasePosition(signed, p)
      <4>1. /\ trade_history' = trade_history /\ current_position' = signed
            /\ CashFlow(signed, p)
        BY <3>9 DEF IncreasePosition, counters
      <4>2. ~(Abs(signed) <= Abs(cp))
        BY <3>1, <3>9 DEF IncreasePosition, Abs
      <4>3. /\ position_entry_price' \in Int
            /\ position_entry_price' * signed = pep * cp + p * (signed - cp)
        BY <3>9, <4>2 DEF IncreasePosition, BrokerEntryPrice
      <4>4. /\ p * (signed - cp) = p * signed - p * cp
            /\ signed * position_entry_price' = position_entry_price' * signed
        BY <3>1, <4>3, Distribute
      <4>5. SumPnl(trade_history') = sum
        BY <4>1
      <4> HIDE DEF cp, pep, sum
      <4>6. signed * position_entry_price' = pep * cp + p * signed - p * cp
        BY <3>1, <3>3, <4>3, <4>4
      <4>7. cash' + signed * position_entry_price' = sum
        BY <3>1, <3>2, <3>3, <3>4, <4>1, <4>6
      <4>8. QED
        BY <4>1, <4>5, <4>7 DEF RealisedPnlMatchesCash
    <3>10. QED
      BY <2>6, <3>5, <3>6, <3>7, <3>8, <3>9 DEF sync_position
  <2>7. ASSUME NEW p \in Prices, should_flatten_position(p) PROVE kept
    BY <2>7 DEF should_flatten_position, counters
  <2>8. CASE Restart
    <3>1. /\ trade_history' = <<>> /\ cash' = 0 /\ current_position' = 0
          /\ position_entry_price' \in Int
      BY <2>8 DEF Restart, TypeOK
    <3>2. 0 * position_entry_price' = 0
      BY <3>1, Distribute
    <3>3. QED
      BY <3>1, <3>2, SumPnlEmpty DEF RealisedPnlMatchesCash
  <2>9. CASE UNCHANGED vars
    BY <2>0, <2>9 DEF vars, counters
  <2>10. QED
    BY <2>0, <2>1, <2>2, <2>3, <2>4, <2>5, <2>6, <2>7, <2>8, <2>9 DEF Next
<1>3. QED
  BY <1>1, <1>2, TypeCorrect, PTL DEF Spec

\* Only can_trade lets an entry out, and it compares counters that are those
\* of the history: no entry is sent past a loss limit of the day.
THEOREM NoEntryAfterLoss == Spec => NoEntryPastLimits
<1> DEFINE Allowed == entry = "none" /\ entry' # "none" =>
                        /\ SumPnl(SinceReset') > -MaxDailyLoss
                        /\ LosingStreak(SinceReset') < MaxConsecutiveLosses
<1>1. TypeOK' /\ LedgerMatchesHistory' /\ [Next]_vars => [Allowed]_vars
  <2> SUFFICES ASSUME TypeOK', LedgerMatchesHistory', [Next]_vars,
                      entry = "none", entry' # "none"
               PROVE  /\ SumPnl(SinceReset') > -MaxDailyLoss
                      /\ LosingStreak(SinceReset') < MaxConsecutiveLosses
    OBVIOUS
  <2>1. \E zone \in Zones : can_trade(zone)
    BY DEF Next, observe_time, set_blackout, update_volatility,
           VolatilitySpike, VolatilityNormalised, EntryDone, EntryFilled,
           EntryGone, sync_position,
           OpenPosition, ClosePosition, ReversePosition, ReducePosition,
           IncreasePosition, should_flatten_position, Restart, vars, orders
  <2>2. ~LossLimitHit
    BY <2>1 DEF can_trade
  <2>3. daily_pnl' \in Int /\ consecutive_losses' \in Nat
    BY DEF TypeOK
  <2>4. QED
    BY <2>2, <2>3 DEF LossLimitHit, LedgerMatchesHistory
<1>2. QED
  BY <1>1, TypeCorrect, LedgerSound, PTL DEF Spec, NoEntryPastLimits

-----------------------------------------------------------------------------
(***************************************************************************)
(* The size and the limit of an entry: arithmetic over every account, ATR  *)
(* and quote, in every risk state.                                         *)
(***************************************************************************)
\* The whole quotient, and what it leaves.
LEMMA DivisionBounds ==
  ASSUME NEW n \in Nat, NEW d \in Nat \ {0}
  PROVE  /\ n \div d \in Nat
         /\ (n \div d) * d <= n
         /\ n < (n \div d + 1) * d
OBVIOUS

\* Rounding half of a number moves it by half a unit at most.
LEMMA RoundedHalfBounds ==
  ASSUME NEW n \in Int
  PROVE  /\ RoundedHalf(n) \in Int
         /\ 2 * RoundedHalf(n) - n \in {-1, 0, 1}
         /\ n % 2 = 0 => 2 * RoundedHalf(n) = n
BY DEF RoundedHalf

\* Half of a size, at least one contract.
LEMMA HalfOfSize ==
  ASSUME NEW base \in Nat \ {0}
  PROVE  /\ Greater(1, RoundedHalf(base)) \in 1..base
         /\ 2 * Greater(1, RoundedHalf(base)) - base \in {-1, 0, 1}
<1>1. RoundedHalf(base) \in Int /\ 2 * RoundedHalf(base) - base \in {-1, 0, 1}
  BY RoundedHalfBounds
<1>2. base = 1 \/ base >= 2
  OBVIOUS
<1> DEFINE h == RoundedHalf(base)
<1> HIDE DEF h
<1>3. h \in Int /\ 2 * h - base \in {-1, 0, 1}
  BY <1>1 DEF h
<1>4. Greater(1, h) \in 1..base /\ 2 * Greater(1, h) - base \in {-1, 0, 1}
  BY <1>2, <1>3 DEF Greater
<1>5. QED
  BY <1>4 DEF h

\* What the risk of a contract buys.
LEMMA RiskBudgetBounds ==
  ASSUME NEW account \in Accounts, NEW atr \in Nat \ {0}
  PROVE  LET b == RiskBudget(account, atr)
         IN  /\ b \in 1..account.max_contracts
             /\ b > 1 => b * atr <= account.risk_per_contract
             /\ b < account.max_contracts =>
                  (b + 1) * atr > account.risk_per_contract
<1> DEFINE r == account.risk_per_contract
           m == account.max_contracts
           q == r \div atr
           b == RiskBudget(account, atr)
<1>1. r \in Nat /\ m \in Nat \ {0}
  BY AccountsTrade DEF AccountsTrade
<1>2. q \in Nat /\ q * atr <= r /\ r < (q + 1) * atr
  BY <1>1, DivisionBounds
<1>3. b = Greater(1, Lesser(q, m))
  BY DEF RiskBudget
<1> HIDE DEF r, m, q, b
<1>4. b \in 1..m
  BY <1>1, <1>2, <1>3 DEF Greater, Lesser
<1>5. ASSUME b > 1 PROVE b * atr <= r
  <2>1. b <= q /\ b \in Nat
    BY <1>1, <1>2, <1>3, <1>5 DEF Greater, Lesser
  <2>2. b * atr <= q * atr
    BY <1>2, <2>1
  <2>3. b * atr \in Int /\ q * atr \in Int
    BY <1>2, <2>1
  <2>4. QED
    BY <1>1, <1>2, <2>2, <2>3
<1>6. ASSUME b < m PROVE (b + 1) * atr > r
  <2>1. q <= b /\ b \in Nat
    BY <1>1, <1>2, <1>3, <1>6 DEF Greater, Lesser
  <2>2. (q + 1) * atr <= (b + 1) * atr
    BY <1>2, <2>1
  <2>3. (q + 1) * atr \in Int /\ (b + 1) * atr \in Int
    BY <1>2, <2>1
  <2>4. QED
    BY <1>1, <1>2, <2>2, <2>3
<1>7. QED
  BY <1>4, <1>5, <1>6 DEF b, r, m

\* The size of an entry is within the account's risk in every risk state.
LEMMA SizesHold == ASSUME TypeOK PROVE SizeWithinRisk
<1> SUFFICES ASSUME NEW account \in Accounts, NEW atr \in Volatilities
             PROVE
    LET full == _determine_contracts(account, atr, TRUE)
        half == _determine_contracts(account, atr, FALSE)
    IN  /\ {full, half} \subseteq 0..account.max_contracts
        /\ half <= full
        /\ atr > 0 \/ account.default_contracts <= account.max_contracts =>
             2 * half - full \in {-1, 0, 1}
        /\ full > 1 => full * atr <= account.risk_per_contract
        /\ risk_state = "normal" /\ atr > 0 /\ full < account.max_contracts =>
             (full + 1) * atr > account.risk_per_contract
        /\ risk_state = "reduced" => full = 1
        /\ risk_state = "circuit_breaker" /\ atr > 0 => full = 0
  BY DEF SizeWithinRisk
<1> DEFINE full == _determine_contracts(account, atr, TRUE)
           half == _determine_contracts(account, atr, FALSE)
           m    == account.max_contracts
           r    == account.risk_per_contract
           d    == account.default_contracts
           base == calculate_position_size(account, atr)
           part == Greater(1, RoundedHalf(base))
<1> SUFFICES /\ {full, half} \subseteq 0..m
             /\ half <= full
             /\ atr > 0 \/ d <= m => 2 * half - full \in {-1, 0, 1}
             /\ full > 1 => full * atr <= r
             /\ risk_state = "normal" /\ atr > 0 /\ full < m =>
                  (full + 1) * atr > r
             /\ risk_state = "reduced" => full = 1
             /\ risk_state = "circuit_breaker" /\ atr > 0 => full = 0
  BY Zenon
<1>1. /\ m \in Nat \ {0} /\ d \in Nat \ {0} /\ r \in Nat /\ atr \in Nat
  BY AccountsTrade, VolatilitiesAreNatural DEF AccountsTrade, VolatilitiesAreNatural
<1>2. risk_state \in {"normal", "reduced", "circuit_breaker"}
  BY DEF TypeOK, RiskState
<1>3. /\ full = IF base <= 0 THEN 0
                ELSE Greater(1, Lesser(IF risk_state = "reduced"
                                       THEN Lesser(base, 1) ELSE base, m))
      /\ half = IF base <= 0 THEN 0
                ELSE Greater(1, Lesser(IF risk_state = "reduced"
                                       THEN Lesser(part, 1) ELSE part, m))
  BY DEF _determine_contracts
<1>4. CASE atr = 0
  <2>1. base = d
    BY <1>4 DEF calculate_position_size
  <2>2. part \in 1..d /\ 2 * part - d \in {-1, 0, 1}
    BY <1>1, <2>1, HalfOfSize
  <2> HIDE DEF part, base, m, r, d, full, half
  <2>3. CASE risk_state = "reduced"
    <3>1. full = 1 /\ half = 1
      BY <1>1, <1>3, <2>1, <2>2, <2>3 DEF Greater, Lesser
    <3>2. QED
      BY <1>1, <1>4, <2>3, <3>1
  <2>4. CASE risk_state # "reduced"
    <3>1. /\ full = Lesser(d, m) /\ half = Lesser(part, m)
      BY <1>1, <1>3, <2>1, <2>2, <2>4 DEF Greater, Lesser
    <3>2. /\ full \in 1..m /\ half \in 1..m /\ half <= full
          /\ d <= m => 2 * half - full \in {-1, 0, 1}
      BY <1>1, <2>2, <3>1 DEF Lesser
    <3>3. full * atr = 0
      BY <1>4, <3>2
    <3>4. QED
      BY <1>1, <1>4, <2>4, <3>2, <3>3
  <2>5. QED
    BY <2>3, <2>4
<1>5. CASE atr # 0
  <2> DEFINE b == RiskBudget(account, atr)
  <2>1. /\ b \in 1..m
        /\ b > 1 => b * atr <= r
        /\ b < m => (b + 1) * atr > r
    BY <1>1, <1>5, RiskBudgetBounds
  <2>2. ~(atr <= 0)
    BY <1>1, <1>5
  <2> HIDE DEF m, r, d, full, half, b
  <2>3. CASE risk_state = "normal"
    <3>1. base = b
      BY <2>2, <2>3 DEF calculate_position_size, b
    <3>2. part \in 1..b /\ 2 * part - b \in {-1, 0, 1}
      BY <1>1, <2>1, <3>1, HalfOfSize
    <3> HIDE DEF part, base
    <3>3. full = b /\ half = part
      BY <1>1, <1>3, <2>1, <2>3, <3>1, <3>2 DEF Greater, Lesser
    <3>4. /\ full \in 1..m /\ half \in 1..m /\ half <= full
          /\ 2 * half - full \in {-1, 0, 1}
      BY <1>1, <2>1, <3>2, <3>3
    <3>5. /\ full > 1 => full * atr <= r
          /\ full < m => (full + 1) * atr > r
      BY <2>1, <3>3
    <3>6. QED
      BY <1>1, <2>3, <3>4, <3>5
  <2>4. CASE risk_state = "reduced"
    <3>1. base = Lesser(b, 2)
      BY <2>2, <2>4 DEF calculate_position_size, b
    <3>2. base \in Nat \ {0}
      <4> HIDE DEF base
      <4>1. QED
        BY <1>1, <2>1, <3>1 DEF Lesser
    <3>3. part \in 1..base
      <4> DEFINE x == base
      <4>1. x \in Nat \ {0}
        BY <3>2
      <4> HIDE DEF x
      <4>2. Greater(1, RoundedHalf(x)) \in 1..x
        BY <4>1, HalfOfSize
      <4>3. QED
        BY <4>2 DEF x
    <3> HIDE DEF part, base
    <3>4. full = 1 /\ half = 1
      BY <1>1, <1>3, <2>4, <3>2, <3>3 DEF Greater, Lesser
    <3>5. full * atr \in Int
      BY <1>1, <3>4
    <3>6. QED
      BY <1>1, <2>4, <3>4
  <2>5. CASE risk_state = "circuit_breaker"
    <3>1. base = 0
      BY <2>2, <2>5 DEF calculate_position_size
    <3>2. full = 0 /\ half = 0
      <4> HIDE DEF part, base
      <4>1. QED
        BY <1>3, <3>1
    <3>3. QED
      BY <1>1, <2>5, <3>2
  <2>6. QED
    BY <1>2, <2>3, <2>4, <2>5
<1>6. QED
  BY <1>4, <1>5

\* Rounding to a tick passes no price that is on a tick.
LEMMA TickBounds ==
  ASSUME NEW x \in Int
  PROVE  /\ RoundToTick(x) \in Int
         /\ RoundToTick(x) <= x + 1 /\ RoundToTick(x) >= x - 1
         /\ \A a \in Nat : a % 2 = 0 /\ a <= x => a <= RoundToTick(x)
         /\ \A a \in Nat : a % 2 = 0 /\ a >= x => a >= RoundToTick(x)
<1>1. /\ RoundedHalf(x) \in Int /\ 2 * RoundedHalf(x) - x \in {-1, 0, 1}
      /\ x % 2 = 0 => 2 * RoundedHalf(x) = x
  BY RoundedHalfBounds
<1> DEFINE h == RoundedHalf(x)
<1>2. RoundToTick(x) = 2 * h
  BY DEF RoundToTick
<1> HIDE DEF h
<1>3. h \in Int /\ 2 * h - x \in {-1, 0, 1}
  BY <1>1 DEF h
<1>4. ASSUME NEW a \in Nat, a % 2 = 0, a <= x PROVE a <= 2 * h
  BY <1>3, <1>4
<1>5. ASSUME NEW a \in Nat, a % 2 = 0, a >= x PROVE a >= 2 * h
  BY <1>3, <1>5
<1>6. QED
  BY <1>2, <1>3, <1>4, <1>5

\* The limit of an entry is within the slippage, whatever the feed left out.
LEMMA LimitsHold == SlippageBounded
<1> SUFFICES ASSUME NEW bid \in Quotes, NEW ask \in Quotes, NEW last \in Quotes,
                    NEW last_price \in Quotes \ {0}
             PROVE
    LET q     == [bid |-> bid, ask |-> ask, last |-> last]
        price == AnchorPrice(q, last_price)
        buy   == _choose_entry_order("buy", q, last_price)
        sell  == _choose_entry_order("sell", q, last_price)
    IN  /\ buy <= price + MaxSlippage + 1 /\ sell >= price - MaxSlippage - 1
        /\ ask # 0 /\ ask <= price + MaxSlippage => buy >= ask
        /\ bid # 0 /\ bid >= price - MaxSlippage => sell <= bid
  BY DEF SlippageBounded
<1> DEFINE q     == [bid |-> bid, ask |-> ask, last |-> last]
           price == AnchorPrice(q, last_price)
           buy   == _choose_entry_order("buy", q, last_price)
           sell  == _choose_entry_order("sell", q, last_price)
           most  == Lesser(FirstPrice(ask, price) + Offset, price + MaxSlippage)
           least == Greater(FirstPrice(bid, price) - Offset, price - MaxSlippage)
<1>1. /\ bid \in Nat /\ ask \in Nat /\ last \in Nat /\ last_price \in Nat
      /\ bid % 2 = 0 /\ ask % 2 = 0 /\ Offset \in Nat /\ MaxSlippage \in Nat
  BY QuotesAreOnTick, TicksAreWhole DEF QuotesAreOnTick, TicksAreWhole
<1>2. price \in Nat
  <2>1. (bid + ask) \div 2 \in Nat
    BY <1>1
  <2>2. QED
    BY <1>1, <2>1 DEF AnchorPrice, FirstPrice, mid
<1>3. buy = RoundToTick(most) /\ sell = RoundToTick(least)
  BY DEF _choose_entry_order
<1> HIDE DEF price, buy, sell
<1>4. /\ most \in Int /\ most <= price + MaxSlippage
      /\ ask # 0 /\ ask <= price + MaxSlippage => ask <= most
  BY <1>1, <1>2 DEF Lesser, FirstPrice
<1>5. /\ least \in Int /\ least >= price - MaxSlippage
      /\ bid # 0 /\ bid >= price - MaxSlippage => bid >= least
  BY <1>1, <1>2 DEF Greater, FirstPrice
<1> HIDE DEF most, least
<1>6. /\ buy \in Int /\ buy <= most + 1
      /\ ask <= most => ask <= buy
  <2>1. /\ RoundToTick(most) \in Int /\ RoundToTick(most) <= most + 1
        /\ \A a \in Nat : a % 2 = 0 /\ a <= most => a <= RoundToTick(most)
    BY <1>4, TickBounds
  <2>2. QED
    BY <1>1, <1>3, <2>1
<1>7. /\ sell \in Int /\ sell >= least - 1
      /\ bid >= least => bid >= sell
  <2>1. /\ RoundToTick(least) \in Int /\ RoundToTick(least) >= least - 1
        /\ \A a \in Nat : a % 2 = 0 /\ a >= least => a >= RoundToTick(least)
    BY <1>5, TickBounds
  <2>2. QED
    BY <1>1, <1>3, <2>1
<1>8. /\ buy <= price + MaxSlippage + 1 /\ sell >= price - MaxSlippage - 1
      /\ ask # 0 /\ ask <= price + MaxSlippage => buy >= ask
      /\ bid # 0 /\ bid >= price - MaxSlippage => sell <= bid
  BY <1>1, <1>2, <1>4, <1>5, <1>6, <1>7
<1>9. QED
  BY <1>8 DEF price, buy, sell

\* Whatever state the ledger leads to, an entry's size and limit bound what it
\* can cost.
THEOREM EntriesWithinLimits == Spec => []EntryWithinLimits
<1>1. TypeOK => EntryWithinLimits
  BY SizesHold, LimitsHold DEF EntryWithinLimits
<1>2. QED
  BY <1>1, TypeCorrect, PTL
=============================================================================
