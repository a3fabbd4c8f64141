-------------------------- MODULE ReplayExecution --------------------------
(***************************************************************************)
(* A replay: src/engine/replay_runner.py feeds recorded quotes to the      *)
(* engine of src/engine/trading_engine.py, whose orders are filled by the  *)
(* paper account inside src/execution/executor.py.                         *)
(*                                                                         *)
(* All of it runs in one thread, so each quote is one step: the orders     *)
(* that are pending are tried, the engine follows the paper position, and  *)
(* a decision may flatten or enter.  An order is also tried, with all      *)
(* others, at the moment it is placed, against the quote the client keeps. *)
(* Of the price of a transition only the fills that make it up are here:   *)
(* how many of which side.  The average price and the ledger are left out, *)
(* see RiskManager.  A decision is any that the evaluation lets through.   *)
(***************************************************************************)
EXTENDS Integers, Sequences, SequencesExt

CONSTANTS
  Quotes,            \* the quotes of the recording
  ClientQuote,       \* the quote enable_mock_mode leaves in the client
  AllowPartialFills, \* replay_execution.allow_partial_fills
  MaxContracts,      \* account.max_contracts
  UseLimitOrders,    \* order_execution.use_limit_orders
  LimitOffset,       \* order_execution.limit_offset_ticks
  MaxSlippage,       \* order_execution.max_slippage_ticks
  StopDistance,      \* from the close of the last bar to the stop of an entry
  TargetDistance,    \* from that close to the target
  MaxPlaced          \* bound of the model: no quote comes after so many orders

Quote == [bid : Nat, ask : Nat, last : Nat, size : Nat]
ASSUME QuotesAreQuotes ==
  Quotes \cup {ClientQuote} \subseteq Quote
ASSUME DistancesAreNatural ==
  /\ AllowPartialFills \in BOOLEAN /\ MaxContracts \in Nat \ {0}
  /\ UseLimitOrders \in BOOLEAN /\ LimitOffset \in Nat /\ MaxSlippage \in Nat
  /\ StopDistance \in Nat /\ TargetDistance \in Nat /\ MaxPlaced \in Nat

VARIABLES
  quote,         \* the quote of the recording that came last
  paper,         \* the executor, a record of
                 \*   pending, position: _pending_orders, _mock_position
                 \*   record: _protective_orders
                 \*   fills: _recent_fills, as the sizes bought and sold
                 \*   filled: the number of _filled_orders
                 \*   placed, cancelled, tried, priced: ghosts, see Executor
  last_position, \* the position the engine believes in
  exits          \* its stop and target: _stop_loss, _take_profit
replay_vars == <<quote, paper, last_position, exits>>

NoExits == [stop |-> 0, target |-> 0]
NoRecord == [orders |-> {}, direction |-> 0, exits |-> NoExits]
Roles == {"entry", "flatten", "stop_loss", "take_profit"}
Protective(o) == o.role \in {"stop_loss", "take_profit"}
NoFills == [buy |-> 0, sell |-> 0]

\* The executor after enable_mock_mode.  The ghosts count the orders placed and
\* cancelled, and collect of this step the quotes that filled an order, and by
\* how much the engine's position moved, with how many fills to price that.
Executor ==
  [pending |-> <<>>, position |-> 0, record |-> NoRecord, fills |-> NoFills,
   filled |-> 0, placed |-> 0, cancelled |-> 0, tried |-> {}, priced |-> {}]

ReplayInit ==
  /\ quote \in Quotes
  /\ paper = Executor
  /\ last_position = 0 /\ exits = NoExits
-----------------------------------------------------------------------------
(* The paper account *)

PendingIds(x) == {x.pending[i].id : i \in DOMAIN x.pending}
Without(orders, ids) ==
  FoldLeft(LAMBDA kept, o : IF o.id \in ids THEN kept ELSE Append(kept, o),
           <<>>, orders)
PendingOrder(x, id) == x.pending[CHOOSE i \in DOMAIN x.pending : x.pending[i].id = id]

\* cancel_order for each of the ids: one that is not pending is passed over.
CancelAll(x, ids) ==
  [x EXCEPT !.pending = Without(@, ids),
            !.cancelled = @ + Cardinality(ids \cap PendingIds(x))]

\* The exits beside the one that filled.  One that cannot be cancelled, as it
\* is filled already, stays in the record.
_cancel_sibling_protection(x, id) ==
  LET siblings   == x.record.orders \ {id}
      unresolved == siblings \ PendingIds(x)
  IN  [CancelAll(x, siblings) EXCEPT !.record =
         IF unresolved = {} THEN NoRecord ELSE [@ EXCEPT !.orders = unresolved]]

clear_protection(x) ==
  [CancelAll(x, x.record.orders) EXCEPT !.record = NoRecord]

Fillable(o, q) ==
  CASE o.type = "market" -> TRUE
    [] o.type = "limit"  -> IF o.side = 1 THEN q.ask <= o.price ELSE q.bid >= o.price
    [] o.type = "stop"   -> IF o.side = 1 THEN q.ask >= o.price ELSE q.bid <= o.price

\* The size beside the quote limits what a limit order gets, if there is one.
FillQuantity(o, q) ==
  IF o.type = "limit" /\ AllowPartialFills /\ q.size \in 1..o.left
  THEN q.size ELSE o.left

Filled(fills, side, quantity) ==
  IF side = 1 THEN [fills EXCEPT !.buy = @ + quantity]
  ELSE [fills EXCEPT !.sell = @ + quantity]

\* The fill itself, before anything is made of it; its price is left out.
_apply_mock_fill(x, o, q) ==
  LET quantity == FillQuantity(o, q)
      whole    == quantity = o.left
  IN  [x EXCEPT
        !.position = @ + o.side * quantity,
        !.fills    = Filled(@, o.side, quantity),
        !.tried    = @ \cup {q},
        !.filled   = IF whole THEN @ + 1 ELSE @,
        !.pending  = IF whole THEN Without(@, {o.id})
                     ELSE [i \in DOMAIN @ |-> IF @[i].id = o.id
                             THEN [@[i] EXCEPT !.left = o.left - quantity] ELSE @[i]]]

_try_fill_mock_order(x, o, q) ==
  LET done == _apply_mock_fill(x, o, q)
  IN  IF FillQuantity(o, q) = o.left /\ Protective(o)
      THEN _cancel_sibling_protection(done, o.id) ELSE done

TryPending(x, id, q) ==
  IF id \in PendingIds(x) /\ Fillable(PendingOrder(x, id), q)
  THEN _try_fill_mock_order(x, PendingOrder(x, id), q) ELSE x

\* The orders that are pending when it begins, in their order; one that a fill
\* before it has cancelled is passed over.
process_market_data(x, q) ==
  FoldLeft(LAMBDA y, id : TryPending(y, id, q),
           x, [i \in DOMAIN x.pending |-> x.pending[i].id])

\* A mutation: the orders that are pending are not counted.
NumberOfFilled(x) == x.filled

\* The number in the name of a new order.  The time before it is always that of
\* the client's quote.
OrderNumber(x) == Len(x.pending) + x.filled

\* An order with the name of a pending one takes its place.
Register(x, o) ==
  IF o.id \in PendingIds(x)
  THEN [i \in DOMAIN x.pending |->
          IF x.pending[i].id = o.id THEN o ELSE x.pending[i]]
  ELSE Append(x.pending, o)

_place_mock_order(x, role, side, type, price, quantity) ==
  LET o == [id |-> OrderNumber(x), role |-> role, side |-> side, type |-> type,
            price |-> price, left |-> quantity]
  IN  process_market_data(
        [x EXCEPT !.pending = Register(x, o), !.placed = @ + 1], ClientQuote)

\* The record names both exits whether or not they are still pending, and is
\* compared by direction and prices only.
ensure_protection(x, quantity, direction, e) ==
  IF e = NoExits \/ (x.record.direction = direction /\ x.record.exits = e)
  THEN x
  ELSE LET clear  == clear_protection(x)
           stop   == _place_mock_order(clear, "stop_loss", -direction, "stop",
                                       e.stop, quantity)
           target == _place_mock_order(stop, "take_profit", -direction, "limit",
                                       e.target, quantity)
       IN  [target EXCEPT !.record =
              [orders |-> {OrderNumber(clear), OrderNumber(stop)},
               direction |-> direction, exits |-> e]]
-----------------------------------------------------------------------------
(* The engine: operators from one state of the replay to the next *)

Replay(x, last, e) == [paper |-> x, last_position |-> last, exits |-> e]

Abs(n) == IF n < 0 THEN -n ELSE n
Sign(n) == IF n > 0 THEN 1 ELSE IF n < 0 THEN -1 ELSE 0

\* A mutation: the side is that of the position, not of its change.
PricedByPosition(fills, from, to) == IF to > 0 THEN fills.buy ELSE fills.sell

\* The fills whose average is the price of a transition: those of its own side,
\* whatever they were for.  Those of the other side are consumed and passed over.
PricedWith(fills, from, to) == IF to > from THEN fills.buy ELSE fills.sell

\* The engine takes the paper position as it was before the exits were placed,
\* and consumes the fills, if it differs from its own.
_sync_position_state(s) ==
  LET signed == s.paper.position
      taken  == [by   |-> signed - s.last_position,
                 with |-> PricedWith(s.paper.fills, s.last_position, signed)]
      x      == [s.paper EXCEPT !.fills = NoFills, !.priced = @ \cup {taken}]
  IN  CASE signed = s.last_position -> s
        [] signed # s.last_position /\ signed = 0 ->
             Replay(clear_protection(x), 0, NoExits)
        [] OTHER ->
             Replay(ensure_protection(x, Abs(signed), Sign(signed), s.exits),
                    signed, s.exits)

_flatten_position(s) ==
  LET clear == clear_protection(s.paper)
      x     == CancelAll(clear, PendingIds(clear))
      sold  == IF x.position = 0 THEN x
               ELSE _place_mock_order(x, "flatten", -Sign(x.position), "market",
                                      0, Abs(x.position))
  IN  _sync_position_state([s EXCEPT !.paper = sold])

\* Without a record of exits the engine watches the prices of the last trade.
TickLevelExit(s, q) ==
  /\ s.last_position # 0 /\ s.paper.record.orders = {} /\ s.exits # NoExits
  /\ \/ (q.last - s.exits.stop) * Sign(s.last_position) <= 0
     \/ (q.last - s.exits.target) * Sign(s.last_position) >= 0

\* A tick beyond the quote of the other side, if that is not too far from the
\* last trade.
_choose_entry_order(q, side) ==
  LET quoted == (IF side = 1 THEN q.ask ELSE q.bid) + side * LimitOffset
      worst  == q.last + side * MaxSlippage
  IN  IF (worst - quoted) * side > 0 THEN quoted ELSE worst

\* The decision to enter, made of the bar that q has completed: its close is the
\* last trade before q.
EnterPosition(s, q, side, quantity) ==
  LET type  == IF UseLimitOrders THEN "limit" ELSE "market"
      limit == IF UseLimitOrders THEN _choose_entry_order(q, side) ELSE 0
  IN  _sync_position_state(
        Replay(_place_mock_order(s.paper, "entry", side, type, limit, quantity),
               s.last_position,
               [stop   |-> quote.last - side * StopDistance,
                target |-> quote.last + side * TargetDistance]))

EntryPending(x) == \E i \in DOMAIN x.pending : ~Protective(x.pending[i])

\* What the evaluation of a bar may lead to.
_evaluate_current_state(s, q) ==
  {s} \cup
  (IF s.last_position # 0 THEN {_flatten_position(s)}
   ELSE IF EntryPending(s.paper) THEN {}
   ELSE {EnterPosition(s, q, side, quantity) :
           side \in {1, -1}, quantity \in 1..MaxContracts})

AfterFills(q) ==
  LET x == process_market_data([paper EXCEPT !.tried = {}, !.priced = {}], q)
      s == Replay(x, last_position, exits)
  IN  IF x.fills # paper.fills THEN _sync_position_state(s) ELSE s

on_market_data(q) ==
  /\ paper.placed < MaxPlaced
  /\ quote' = q
  /\ \E s \in LET synced == AfterFills(q)
              IN  IF TickLevelExit(synced, q) THEN {_flatten_position(synced)}
                  ELSE _evaluate_current_state(synced, q) :
       /\ paper' = s.paper
       /\ last_position' = s.last_position /\ exits' = s.exits

ReplayNext == \E q \in Quotes : on_market_data(q)
ReplaySpec == ReplayInit /\ [][ReplayNext]_replay_vars
-----------------------------------------------------------------------------
(* Properties *)

\* Whenever the engine's position moves, it has fills of that side for at least
\* as many contracts to price the move with, and never the average or the last
\* price instead: although fills that came while exits were being placed wait
\* for a later move, and each sync takes all fills and passes over those of the
\* other side (_sync_position_state, consume_fills).  It may have more than it
\* moved by: the rest are fills that the other side's made up for.
TransitionsArePriced ==
  \A t \in paper.priced : t.with >= Abs(t.by)

\* Every exit that is still pending is named by the record and opposes its
\* direction, so that a flatten, a close and the other exit's fill reach it,
\* although the record outlives exits that filled and names are counted anew
\* when orders were cancelled: none takes the name, and with it the place, of
\* one that is pending.  Beside no position of the engine there is no exit.
ExitsAreRecorded ==
  /\ \A i \in DOMAIN paper.pending :
       Protective(paper.pending[i]) =>
         /\ paper.pending[i].id \in paper.record.orders
         /\ paper.pending[i].side = -paper.record.direction
         /\ last_position # 0
  /\ paper.placed = Len(paper.pending) + paper.filled + paper.cancelled

\* An order is only ever filled by the latest quote of the recording.
FilledByLatestQuote == paper.tried \subseteq {quote}
=============================================================================
