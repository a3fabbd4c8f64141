---------------------------- MODULE EntrySizing ----------------------------
(***************************************************************************)
(* How many contracts an entry buys and at which limit: the sizes of       *)
(* src/engine/risk_manager.py with the fraction and the caps               *)
(* src/engine/trading_engine.py puts on them, and the price of the entry.  *)
(*                                                                         *)
(* The size follows the risk state of the manager at the moment of the     *)
(* entry.  Risk is counted in points like the money of RiskManager, prices *)
(* in half ticks: the middle of two quotes may lie between two ticks.      *)
(***************************************************************************)
EXTENDS RiskManager

CONSTANTS
  Accounts,     \* account settings: max_contracts, default_contracts, risk_per_contract
  Volatilities, \* readings of the ATR, 0 where there is none
  Quotes,       \* prices a quote may carry, 0 where the feed left it out
  Offset,       \* order_execution.limit_offset_ticks, in half ticks
  MaxSlippage   \* order_execution.max_slippage_ticks, in half ticks

ASSUME AccountsTrade ==
  Accounts \subseteq [max_contracts : Nat \ {0}, default_contracts : Nat \ {0},
                      risk_per_contract : Nat]
ASSUME QuotesAreOnTick == \A q \in Quotes : q \in Nat /\ q % 2 = 0
ASSUME VolatilitiesAreNatural == Volatilities \subseteq Nat
ASSUME TicksAreWhole ==
  /\ Offset \in Nat /\ Offset % 2 = 0
  /\ MaxSlippage \in Nat /\ MaxSlippage % 2 = 0

Lesser(a, b) == IF a < b THEN a ELSE b
Greater(a, b) == IF a > b THEN a ELSE b

\* n / 2 to the nearest whole number, and to the even one of two.
RoundedHalf(n) ==
  LET k == n \div 2 IN IF n % 2 = 0 \/ k % 2 = 0 THEN k ELSE k + 1

\* What the risk of one contract buys, at least one and at most the limit.
RiskBudget(account, atr) ==
  Greater(1, Lesser(account.risk_per_contract \div atr, account.max_contracts))

\* A missing ATR is answered before the risk state is looked at.
calculate_position_size(account, atr) ==
  IF atr <= 0 THEN account.default_contracts
  ELSE CASE risk_state = "normal" -> RiskBudget(account, atr)
         [] risk_state = "reduced" -> Lesser(RiskBudget(account, atr), 2)
         [] risk_state = "circuit_breaker" -> 0

\* A mutation: the cap of the reduced state is left to the manager.
DetermineByFraction(account, atr, full_size) ==
  LET base     == calculate_position_size(account, atr)
      fraction == IF full_size THEN base ELSE Greater(1, RoundedHalf(base))
  IN  IF base <= 0 THEN 0
      ELSE Greater(1, Lesser(fraction, account.max_contracts))

\* The contracts of an entry whose decision asks for the full size or half.
_determine_contracts(account, atr, full_size) ==
  LET base     == calculate_position_size(account, atr)
      fraction == IF full_size THEN base ELSE Greater(1, RoundedHalf(base))
      capped   == IF risk_state = "reduced" THEN Lesser(fraction, 1) ELSE fraction
  IN  IF base <= 0 THEN 0
      ELSE Greater(1, Lesser(capped, account.max_contracts))
-----------------------------------------------------------------------------
(* The limit of the entry order *)

\* The first price of the feed that is not left out.
FirstPrice(p, otherwise) == IF p # 0 THEN p ELSE otherwise

mid(q) == IF q.bid # 0 /\ q.ask # 0 THEN (q.bid + q.ask) \div 2 ELSE q.last

RoundToTick(p) == 2 * RoundedHalf(p)

\* The price the slippage is counted from: the last trade, the middle of the
\* quotes, or the last price the engine has seen.
AnchorPrice(q, last_price) == FirstPrice(q.last, FirstPrice(mid(q), last_price))

_choose_entry_order(side, q, last_price) ==
  LET price == AnchorPrice(q, last_price)
  IN  RoundToTick(
        IF side = "buy"
        THEN Lesser(FirstPrice(q.ask, price) + Offset, price + MaxSlippage)
        ELSE Greater(FirstPrice(q.bid, price) - Offset, price - MaxSlippage))
-----------------------------------------------------------------------------
(* Properties *)

\* The risk of the entry: more than one contract is
\* never more than the account risks; one contract less than the limit is as
\* much as it risks; half the size is half to within a contract's rounding,
\* but for a default size above the limit, which is halved before it is cut;
\* and the reduced state keeps every entry at one contract, whatever the size
\* asked for and whether there is an ATR or not.
SizeWithinRisk ==
  \A account \in Accounts, atr \in Volatilities :
    LET full == _determine_contracts(account, atr, TRUE)
        half == _determine_contracts(account, atr, FALSE)
    IN  /\ {full, half} \subseteq 0..account.max_contracts
        /\ half <= full
        /\ atr > 0 \/ account.default_contracts <= account.max_contracts =>
             2 * half - full \in {-1, 0, 1}
        /\ full > 1 => full * atr <= account.risk_per_contract
        /\ risk_state = "normal" /\ atr > 0 /\ full < account.max_contracts =>
             (full + 1) * atr > account.risk_per_contract
        /\ risk_state = "reduced" => full = 1
        /\ risk_state = "circuit_breaker" /\ atr > 0 => full = 0

\* Whatever the feed left out, a buy never goes further above the price of the
\* market than the slippage allows, but for the rounding to a tick, and it meets
\* the ask whenever the slippage reaches that far; a sell is its mirror image.
SlippageBounded ==
  \A bid, ask, last \in Quotes, last_price \in Quotes \ {0} :
    LET q     == [bid |-> bid, ask |-> ask, last |-> last]
        price == AnchorPrice(q, last_price)
        buy   == _choose_entry_order("buy", q, last_price)
        sell  == _choose_entry_order("sell", q, last_price)
    IN  bid <= ask \/ ask = 0 =>
        /\ buy <= price + MaxSlippage + 1 /\ sell >= price - MaxSlippage - 1
        /\ ask # 0 /\ ask <= price + MaxSlippage => buy >= ask
        /\ bid # 0 /\ bid >= price - MaxSlippage => sell <= bid

\* What an entry may commit at the moment it may be sent: its size
\* (_determine_contracts) and its limit (_choose_entry_order) together bound
\* what it can cost, in every risk state the ledger leads to.
EntryWithinLimits ==
  current_position = 0 /\ entry = "none" => SizeWithinRisk /\ SlippageBounded
=============================================================================
