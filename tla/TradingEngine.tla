--------------------------- MODULE TradingEngine ---------------------------
(***************************************************************************)
(* src/engine/trading_engine.py: the live loop that keeps the engine's     *)
(* position, the executor's orders and the broker's account together.      *)
(*                                                                         *)
(* Three threads run it.  The worker (_run) polls the broker, protects the *)
(* position and watches for failures; the stream (on_market_data) enters   *)
(* and flattens; the user hub (on_order_update, on_position_update) brings *)
(* the broker's messages.  The engine's lock is held by the stream for a   *)
(* whole evaluation and by the worker only while it applies what it read;  *)
(* the hub never takes it.                                                 *)
(*                                                                         *)
(* A process may end at any step, and the next one finds the broker as it  *)
(* was left.  Its start adopts what it finds before the worker begins,     *)
(* while the streams run already; "worker" stands for that thread too.     *)
(*                                                                         *)
(* Prices are left out but for the level of the stop, and so is time: an   *)
(* order may be stale, and a request for protection overdue, whenever it   *)
(* is looked at.  There are two clocks: what is stale is measured on the   *)
(* wall, and what is overdue on the time of the latest market data, which  *)
(* stands still when they stop.                                            *)
(***************************************************************************)
EXTENDS OrderExecutor

CONSTANTS
  MaxQuantity,  \* account.max_contracts
  StopLevels,   \* stop levels the dynamic exit can move through
  MaxEntries,   \* bound of the model: entry orders submitted
  MaxFlattens,  \* bound of the model: flattens the stream starts
  EntrySides    \* sides the strategy may choose

ASSUME EngineBounds ==
  /\ MaxQuantity \in Nat \ {0}
  /\ StopLevels \in Nat \ {0}
  /\ MaxEntries \in Nat /\ MaxFlattens \in Nat
  /\ EntrySides \subseteq Sides

VARIABLES
  lock,                    \* _lock: its holder, or "free"
  last_position,           \* _last_position
  risk_position,           \* risk_manager.current_position
  position_sync_requested, \* _position_sync_requested
  unresolved_entry,        \* side of the unresolved entry, 0 if none
  fail_safe_lockout,       \* _watchdog_state.fail_safe_lockout
  stop_loss,               \* level of _stop_loss, 0 for None
  client_position,         \* the client's _positions: its last answer
  seen_position,           \* the position each thread last read
  broker_orders,           \* the worker's snapshot of open orders
  order_error,             \* that lookup failed
  intent,                  \* side and quantity of the entry being placed
  resume,                  \* where ensure_protection returns to
  feed_live,               \* market data come, and _current_event_time moves
  entries,                 \* ghost: entry orders submitted
  flattens                 \* ghost: flattens the stream has started

engine == <<last_position, risk_position, unresolved_entry,
            fail_safe_lockout, stop_loss>>
reads == <<client_position, seen_position, broker_orders, order_error>>
market == <<feed_live, entries, flattens>>
vars == <<broker, faults, executor, calls, at, lock, engine, reads,
          position_sync_requested, intent, resume, market>>

StartPoints == {"adopt", "adopt_orders", "adopted"}
WorkerPoints == {"stale", "sync", "orders", "apply", "close",
                 "exits", "watchdog"}
ExitPoints == {"stop", "stop_sent", "target", "target_sent", "store"}
FlattenPoints == {"clear", "cancel_all", "clear_again", "lookup", "market"}
EntryPoints == {"guard", "submit", "fallback", "submitted"}
WorkerAt == StartPoints \cup WorkerPoints \cup ExitPoints \cup FlattenPoints
StreamAt == {"idle"} \cup EntryPoints \cup FlattenPoints
HubAt == {"idle", "siblings"}
Idle(point) == [th \in Threads |-> IF th = "worker" THEN point ELSE "idle"]

Entry == [side : Sides, quantity : Nat \ {0}]
NoEntry == [side |-> 0, quantity |-> 0]

Abs(n) == IF n < 0 THEN -n ELSE n
Sign(n) == IF n > 0 THEN 1 ELSE IF n < 0 THEN -1 ELSE 0

ThreadsTypeOK ==
  /\ at \in [Threads -> WorkerAt \cup StreamAt \cup HubAt]
  /\ at["worker"] \in WorkerAt /\ at["stream"] \in StreamAt
  /\ at["hub"] \in HubAt

EngineTypeOK ==
  /\ lock \in {"free", "worker", "stream"}
  /\ last_position \in Int /\ risk_position \in Int
  /\ position_sync_requested \in BOOLEAN
  /\ unresolved_entry \in Sides \cup {0}
  /\ fail_safe_lockout \in BOOLEAN
  /\ stop_loss \in 0..StopLevels
  /\ client_position \in Int
  /\ seen_position \in [Threads -> Int]
  /\ broker_orders \in SUBSET OrderIds /\ order_error \in BOOLEAN
  /\ intent \in Entry \cup {NoEntry}
  /\ feed_live \in BOOLEAN
  /\ resume \in {"exits", "watchdog", "stale"}
  /\ entries \in Nat /\ flattens \in Nat

TypeOK == BrokerTypeOK /\ ExecutorTypeOK /\ ThreadsTypeOK /\ EngineTypeOK

Init ==
  /\ BrokerInit /\ ExecutorInit
  /\ at = Idle("adopt")
  /\ lock = "free"
  /\ last_position = 0 /\ risk_position = 0
  /\ position_sync_requested = FALSE
  /\ unresolved_entry = 0 /\ fail_safe_lockout = FALSE /\ stop_loss = 0
  /\ client_position = 0
  /\ seen_position = [th \in Threads |-> 0]
  /\ broker_orders = {} /\ order_error = FALSE
  /\ intent = NoEntry /\ resume = "exits"
  /\ feed_live = TRUE /\ entries = 0 /\ flattens = 0

\* A mutation: the lock is ignored.
LockIgnored == TRUE

\* Neither the stream nor the worker holds the engine's lock.
LockFree == lock = "free"

\* The id of the next order, unless all are in use.  Ids only tell orders
\* apart, so it does not matter which one it is.
Fresh == LET free == Unreferenced \ broker_orders
         IN  {id \in free : id = CHOOSE other \in free : TRUE}
-----------------------------------------------------------------------------
(* The exchange *)

Exchange ==
  /\ \E id \in OrderIds : BrokerFill(id) \/ BrokerCancel(id)
  /\ UNCHANGED <<executor, calls, at, lock, engine, reads,
                 position_sync_requested, intent, resume, market>>

\* The market data stop: the market is silent, which may end, or their stream
\* is down.
FeedStops == feed_live /\ Fault /\ feed_live' = FALSE
FeedResumes == ~feed_live /\ feed_live' = TRUE /\ UNCHANGED faults

Feed ==
  /\ FeedStops \/ FeedResumes
  /\ UNCHANGED <<broker, executor, calls, at, lock, engine, reads,
                 position_sync_requested, intent, resume, entries, flattens>>
-----------------------------------------------------------------------------
(* Steps of the executor's methods, in whichever thread runs them *)

CancelStep(th) ==
  /\ cancel_order(th)
  /\ UNCHANGED <<lock, engine, reads, position_sync_requested, intent,
                 resume, market>>

\* _flatten_position, up to its first cancel loop.
_flatten_position(th) == clear_protection(th) /\ Go(th, "clear")

\* cancel_all_orders
FlattenCancelAll(th) ==
  /\ at[th] = "clear" /\ CancelsDone(th)
  /\ CancelNext(th, PendingIds)
  /\ Go(th, "cancel_all")
  /\ UNCHANGED <<broker, faults, executor, acked, placed, held, lock, engine,
                 reads, position_sync_requested, intent, resume, market>>

\* A mutation: the worker returns to where only the stream belongs.
FlattenReturnsIdle(th) ==
  /\ Go(th, "idle") /\ lock' = "free"
  /\ seen_position' = [seen_position EXCEPT ![th] = 0]

\* The thread is done with the flatten: the worker begins its next loop, the
\* stream returns from on_market_data and releases the lock.
FlattenReturns(th) ==
  /\ Go(th, IF th = "worker" THEN "stale" ELSE "idle")
  /\ lock' = IF th = "stream" THEN "free" ELSE lock
  /\ seen_position' = [seen_position EXCEPT ![th] = 0]

\* Without a position only the orders are cancelled; otherwise
\* executor.flatten clears the protection once more.
FlattenPosition(th) ==
  /\ at[th] = "cancel_all" /\ CancelsDone(th)
  /\ \/ /\ last_position = 0
        /\ FlattenReturns(th)
        /\ UNCHANGED <<protection, protection_requested, cancelling>>
     \/ /\ last_position # 0
        /\ clear_protection(th) /\ Go(th, "clear_again")
        /\ UNCHANGED <<lock, seen_position>>
  /\ UNCHANGED <<broker, faults, pending, acknowledged, acked, placed, held,
                 engine, client_position, broker_orders, order_error,
                 position_sync_requested, intent, resume, market>>

\* The position is looked up for the record of the event, which refreshes the
\* client's cache or fails.
FlattenReport(th) ==
  /\ at[th] = "clear_again" /\ CancelsDone(th)
  /\ client_position' \in {client_position, position}
  /\ Go(th, "lookup")
  /\ UNCHANGED <<broker, faults, executor, calls, lock, engine, seen_position,
                 broker_orders, order_error, position_sync_requested, intent,
                 resume, market>>

\* flatten_all looks the position up; when that fails it takes the answer of
\* an earlier lookup, and flat for an answer if there is none.
FlattenLookup(th) ==
  /\ at[th] = "lookup"
  /\ \/ client_position' = position /\ UNCHANGED faults
     \/ Fault /\ UNCHANGED client_position
  /\ IF client_position' = 0
     THEN /\ FlattenReturns(th)
          /\ position_sync_requested' = TRUE /\ acknowledged' = TRUE
     ELSE /\ Go(th, "market")
          /\ seen_position' = [seen_position EXCEPT ![th] = client_position']
          /\ UNCHANGED <<lock, position_sync_requested, acknowledged>>
  /\ UNCHANGED <<broker, pending, protection, protection_requested, calls,
                 engine, broker_orders, order_error, intent, resume, market>>

\* The closing market order.  Its id is not kept, and only its success
\* requests a sync.  As for any order a request may fail, or be carried out
\* unanswered and be tried again.
FlattenMarket(th) ==
  LET Close == LET q == seen_position[th]
               IN  \E id \in Fresh : Accept(id, Sign(-q), Abs(q))
  IN  /\ at[th] = "market"
      /\ \/ /\ Close /\ FlattenReturns(th)
            /\ position_sync_requested' = TRUE /\ acknowledged' = TRUE
            /\ UNCHANGED faults
         \/ /\ Refuse(Fresh) /\ FlattenReturns(th)
            /\ UNCHANGED <<working, position_sync_requested, acknowledged>>
         \/ /\ Fault /\ Close
            /\ FlattenReturns(th) \/ UNCHANGED <<at, lock, seen_position>>
            /\ UNCHANGED <<position_sync_requested, acknowledged>>
      /\ UNCHANGED <<position, updates, fills, pending, protection,
                     protection_requested, calls, engine, client_position,
                     broker_orders, order_error, intent, resume, market>>

Flatten(th) == \/ FlattenCancelAll(th) \/ FlattenPosition(th)
               \/ FlattenReport(th) \/ FlattenLookup(th)
               \/ FlattenMarket(th)
-----------------------------------------------------------------------------
(* The stream: entries and exits *)

\* _evaluate_current_state decides to enter, and the guard reads the broker's
\* position; unless it is flat the entry is blocked.
GuardPosition ==
  /\ at["stream"] = "idle" /\ LockFree /\ feed_live
  /\ last_position = 0 /\ ~fail_safe_lockout /\ ~has_active_entry_order
  /\ entries < MaxEntries
  /\ client_position' = position
  /\ \/ /\ position = 0
        /\ lock' = "stream" /\ Go("stream", "guard")
        /\ intent' \in [side : EntrySides, quantity : 1..MaxQuantity]
     \/ position # 0 /\ UNCHANGED <<lock, at, intent>>
  /\ UNCHANGED <<broker, faults, executor, calls, engine, seen_position,
                 broker_orders, order_error, position_sync_requested, resume,
                 market>>

\* The guard reads the open orders and the unresolved entry.  A second entry
\* on the side of an unresolved one locks the engine out.
GuardOrders ==
  LET blocked == WorkingIds # {} \/ unresolved_entry # 0
  IN  /\ at["stream"] = "guard"
      /\ IF blocked
         THEN Go("stream", "idle") /\ lock' = "free" /\ intent' = NoEntry
         ELSE Go("stream", "submit") /\ UNCHANGED <<lock, intent>>
      /\ fail_safe_lockout' =
           \/ fail_safe_lockout
           \/ WorkingIds = {} /\ unresolved_entry = intent.side
      /\ UNCHANGED <<broker, faults, executor, calls, reads, last_position,
                     risk_position, unresolved_entry, stop_loss,
                     position_sync_requested, resume, market>>

\* place_order of the entry; a limit order that fails is tried once more as a
\* market order, then the entry is given up.
SubmitEntry ==
  /\ \/ /\ at["stream"] = "submit"
        /\ SubmitOrder("stream", Fresh, intent.side, intent.quantity,
                       "submitted", "fallback")
        /\ UNCHANGED <<lock, intent>>
     \/ /\ at["stream"] = "fallback"
        /\ SubmitOrder("stream", Fresh, intent.side, intent.quantity,
                       "submitted", "idle")
        /\ IF at["stream"]' = "idle"
           THEN lock' = "free" /\ intent' = NoEntry
           ELSE UNCHANGED <<lock, intent>>
  /\ UNCHANGED <<position, updates, fills, executor, cancelling, placed, held,
                 engine, reads, position_sync_requested, resume, market>>

\* The acknowledged entry is registered and tracked, and a sync requested.
EntrySubmitted ==
  /\ at["stream"] = "submitted"
  /\ RegisterOrder("stream", "entry")
  /\ stop_loss' = 1 /\ unresolved_entry' = intent.side
  /\ position_sync_requested' = TRUE
  /\ Go("stream", "idle") /\ lock' = "free" /\ intent' = NoEntry
  /\ entries' = entries + 1
  /\ UNCHANGED <<broker, faults, protection, protection_requested, cancelling,
                 placed, held, last_position, risk_position,
                 fail_safe_lockout, reads, resume, feed_live, flattens>>

\* Risk, session policy, the decision matrix or, without protection, the
\* price itself asks for the exit.
StreamFlatten ==
  /\ at["stream"] = "idle" /\ LockFree /\ feed_live
  /\ last_position # 0
  /\ flattens < MaxFlattens /\ flattens' = flattens + 1
  /\ lock' = "stream"
  /\ _flatten_position("stream")
  /\ UNCHANGED <<broker, faults, pending, acknowledged, acked, placed, held,
                 engine, reads, position_sync_requested, intent, resume,
                 feed_live, entries>>

Stream == \/ GuardPosition \/ GuardOrders \/ SubmitEntry \/ EntrySubmitted
          \/ StreamFlatten \/ Flatten("stream") \/ CancelStep("stream")
-----------------------------------------------------------------------------
(* The user hub *)

\* on_order_update and on_position_update.  A filled exit leads to requests
\* for its siblings; everything else is done with when it is read.
on_update ==
  LET m == Head(updates)
      entryGone == /\ m.status = "cancelled" /\ last_position = 0
                   /\ \A id \in OrderIds : pending'[id] # "entry"
      exitFilled == m.status = "filled" /\ pending[m.id] \in Exits
  IN  /\ at["hub"] = "idle" /\ updates # <<>>
      /\ updates' = Tail(updates)
      /\ update_order_status(m.id, m.status)
      /\ unresolved_entry' = IF entryGone THEN 0 ELSE unresolved_entry
      /\ IF exitFilled
         THEN Go("hub", "siblings") /\ UNCHANGED position_sync_requested
         ELSE UNCHANGED at /\ position_sync_requested' = TRUE
      /\ UNCHANGED <<working, position, fills, faults, lock, last_position,
                     risk_position, fail_safe_lockout, stop_loss, reads,
                     intent, resume, market>>

HubReturns ==
  /\ at["hub"] = "siblings"
  /\ SiblingsCancelled
  /\ Go("hub", "idle")
  /\ position_sync_requested' = TRUE
  /\ UNCHANGED <<broker, faults, lock, engine, reads, intent, resume, market>>

Hub == on_update \/ HubReturns \/ CancelStep("hub")
-----------------------------------------------------------------------------
\* The executor is asked to protect a position of the engine: nothing to do
\* without a stop or when the record matches, else the replaced orders are
\* cancelled and new ones placed, and the call returns to back.
Protect(signed, back) ==
  /\ ensure_protection("worker")
  /\ seen_position' = [seen_position EXCEPT !["worker"] = signed]
  /\ Go("worker", "stop") /\ lock' = "worker" /\ resume' = back
NothingToProtect(signed, stop) ==
  stop = 0 \/ Unchanged(Sign(signed), stop)
-----------------------------------------------------------------------------
(* The start of a process and its end *)

\* The process ends, wherever its threads are, and another one is started.
\* The broker keeps its orders and its position; what the hub has not
\* delivered is not delivered to the new process.
Restart ==
  /\ Fault /\ ExecutorRestarts
  /\ at' = Idle("adopt") /\ lock' = "free" /\ updates' = <<>>
  /\ last_position' = 0 /\ risk_position' = 0
  /\ position_sync_requested' = FALSE
  /\ unresolved_entry' = 0 /\ fail_safe_lockout' = FALSE /\ stop_loss' = 0
  /\ client_position' = 0
  /\ seen_position' = [th \in Threads |-> 0]
  /\ broker_orders' = {} /\ order_error' = FALSE
  /\ intent' = NoEntry /\ resume' = "exits" /\ feed_live' = TRUE
  /\ UNCHANGED <<working, position, fills, entries, flattens>>

\* start() is done with the adoption: the loop begins and is to sync.
Started ==
  /\ Go("worker", "stale") /\ position_sync_requested' = TRUE
  /\ seen_position' = [seen_position EXCEPT !["worker"] = 0]

\* _adopt_broker_state_at_startup looks the position up, and then the orders.
\* Without the position it adopts nothing, once it has the lock; an error of
\* the orders is not looked at.
AdoptPosition ==
  /\ at["worker"] = "adopt"
  /\ \/ /\ client_position' = position
        /\ seen_position' = [seen_position EXCEPT !["worker"] = position]
        /\ Go("worker", "adopt_orders")
        /\ UNCHANGED <<faults, position_sync_requested>>
     \/ /\ LockFree /\ Fault /\ Started
        /\ UNCHANGED client_position
  /\ UNCHANGED <<broker, executor, calls, lock, engine, broker_orders,
                 order_error, intent, resume, market>>

AdoptOrders ==
  /\ at["worker"] = "adopt_orders"
  /\ \/ broker_orders' = WorkingIds /\ UNCHANGED faults
     \/ broker_orders' = {} /\ Fault
  /\ Go("worker", "adopted")
  /\ UNCHANGED <<broker, executor, calls, lock, engine, client_position,
                 seen_position, order_error, position_sync_requested, intent,
                 resume, market>>

\* A position is given a stop and is protected, beside the exits that the
\* process before may have left; this process has no record yet.
AdoptOpen(signed) ==
  /\ signed # 0 /\ last_position' = signed /\ risk_position' = signed
  /\ stop_loss' = 1 /\ Protect(signed, "stale")
  /\ UNCHANGED <<pending, acknowledged, unresolved_entry,
                 position_sync_requested>>

\* Beside no position all orders count as entries.
AdoptFlat(signed) ==
  /\ signed = 0 /\ Started
  /\ IF broker_orders = {} THEN UNCHANGED <<pending, acknowledged, unresolved_entry>>
     ELSE /\ reconcile_broker_open_orders(broker_orders, signed)
          /\ unresolved_entry' \in Sides
  /\ UNCHANGED <<protection, protection_requested, cancelling, lock,
                 last_position, risk_position, stop_loss, resume>>

Adopt ==
  /\ at["worker"] = "adopted" /\ LockFree
  /\ \/ AdoptOpen(seen_position["worker"])
     \/ AdoptFlat(seen_position["worker"])
  /\ broker_orders' = {}
  /\ UNCHANGED <<broker, faults, acked, placed, held, fail_safe_lockout,
                 client_position, order_error, intent, market>>
-----------------------------------------------------------------------------
(* The worker: one loop of _run *)

\* The loop begins with the request of an operator, if there is one: to sync,
\* or, while flat, to forget the unresolved entry.
_process_operator_request ==
  /\ at["worker"] = "stale"
  /\ \/ position_sync_requested' = TRUE /\ UNCHANGED unresolved_entry
     \/ /\ last_position = 0 /\ unresolved_entry' = 0
        /\ UNCHANGED position_sync_requested
  /\ UNCHANGED <<broker, faults, executor, calls, at, lock, last_position,
                 risk_position, fail_safe_lockout, stop_loss, reads, intent,
                 resume, market>>

\* A mutation: only entries can be stale.
reconcile_pending_entries ==
  /\ at["worker"] = "stale" /\ CancelsDone("worker")
  /\ \E old \in SUBSET {id \in PendingIds : pending[id] = "entry"} :
       CancelNext("worker", old)
  /\ Go("worker", "sync")
  /\ UNCHANGED <<broker, faults, executor, acked, placed, held, lock, engine,
                 reads, position_sync_requested, intent, resume, market>>

\* reconcile_pending_orders: orders older than the timeout, of any role.
reconcile_pending_orders ==
  /\ at["worker"] = "stale" /\ CancelsDone("worker")
  /\ \E old \in SUBSET PendingIds : CancelNext("worker", old)
  /\ Go("worker", "sync")
  /\ UNCHANGED <<broker, faults, executor, acked, placed, held, lock, engine,
                 reads, position_sync_requested, intent, resume, market>>

\* A mutation: only a request leads to a sync.
SyncWhenAsked == position_sync_requested

\* The loop syncs when asked to and while it believes in a position; a pending
\* entry is polled for when the interval has passed.
SyncDue == position_sync_requested \/ last_position # 0
PollEntry == /\ last_position = 0
             /\ unresolved_entry # 0 \/ has_active_entry_order

\* _sync_position_state starts with the position.  After a failed lookup the
\* request is dropped, once the lock is free.
ReadPosition ==
  /\ at["worker"] = "sync" /\ CancelsDone("worker")
  /\ \/ /\ ~SyncDue
        /\ Go("worker", "exits")
        /\ UNCHANGED <<faults, client_position, seen_position,
                       position_sync_requested>>
     \/ /\ SyncDue \/ PollEntry
        /\ Go("worker", "orders")
        /\ seen_position' = [seen_position EXCEPT !["worker"] = position]
        /\ client_position' = position
        /\ position_sync_requested' = (position_sync_requested \/ PollEntry)
        /\ UNCHANGED faults
     \/ /\ SyncDue \/ PollEntry
        /\ LockFree /\ Fault
        /\ Go("worker", "exits")
        /\ position_sync_requested' = FALSE
        /\ UNCHANGED <<client_position, seen_position>>
  /\ UNCHANGED <<broker, executor, calls, lock, engine, broker_orders,
                 order_error, intent, resume, market>>

ReadOrders ==
  /\ at["worker"] = "orders"
  /\ \/ /\ broker_orders' = WorkingIds /\ order_error' = FALSE
        /\ UNCHANGED faults
     \/ /\ Fault
        /\ broker_orders' = {} /\ order_error' = TRUE
  /\ Go("worker", "apply")
  /\ UNCHANGED <<broker, executor, calls, lock, engine, client_position,
                 seen_position, position_sync_requested, intent, resume,
                 market>>

\* The position the worker read becomes the engine's; the lock is released.
PositionApplied ==
  /\ last_position' = seen_position["worker"]
  /\ position_sync_requested' = FALSE
  /\ seen_position' = [seen_position EXCEPT !["worker"] = 0]
  /\ Go("worker", "exits") /\ lock' = "free"

\* _adopt_broker_open_orders: orders of a flat account count as an unresolved
\* entry, on the side of the first.
AdoptedEntry(signed) ==
  IF signed = 0 /\ broker_orders # {} THEN Sides ELSE {unresolved_entry}

\* Flat, no orders, and an entry that was unresolved or dropped: the sync ends
\* here, without the risk manager or the protection.
BrokerFlatNoOrders(signed) ==
  /\ signed = 0 /\ ~order_error /\ broker_orders = {}
  /\ unresolved_entry # 0 \/ ClearedEntries(broker_orders) # {}

\* The part of _sync_position_state under the lock, up to the next request.
ApplySync ==
  LET signed == seen_position["worker"]
  IN  /\ at["worker"] = "apply" /\ LockFree
      /\ IF order_error THEN UNCHANGED <<pending, acknowledged>>
         ELSE reconcile_broker_open_orders(broker_orders, signed)
      /\ broker_orders' = {} /\ order_error' = FALSE
      /\ \/ /\ BrokerFlatNoOrders(signed)
            /\ PositionApplied
            /\ unresolved_entry' = 0
            /\ UNCHANGED <<risk_position, protection, protection_requested,
                           cancelling, resume>>
         \/ /\ ~BrokerFlatNoOrders(signed) /\ signed = last_position
            /\ PositionApplied
            /\ unresolved_entry' \in AdoptedEntry(signed)
            /\ UNCHANGED <<risk_position, protection, protection_requested,
                           cancelling, resume>>
         \/ /\ ~BrokerFlatNoOrders(signed) /\ signed # last_position
            /\ risk_position' = signed /\ unresolved_entry' = 0
            /\ \/ /\ signed = 0
                  /\ clear_protection("worker")
                  /\ Go("worker", "close") /\ lock' = "worker"
                  /\ UNCHANGED <<last_position, position_sync_requested,
                                 seen_position, resume>>
               \/ /\ signed # 0 /\ ~NothingToProtect(signed, stop_loss)
                  /\ Protect(signed, "exits")
                  /\ UNCHANGED <<last_position, position_sync_requested>>
               \/ /\ signed # 0 /\ NothingToProtect(signed, stop_loss)
                  /\ PositionApplied
                  /\ UNCHANGED <<protection, protection_requested, cancelling,
                                 resume>>
      /\ UNCHANGED <<broker, faults, acked, placed, held, fail_safe_lockout,
                     stop_loss, client_position, intent, market>>

\* A mutation: the exits go the way of the position.
PlaceSameSide ==
  /\ PlaceExit("worker", Fresh, Sign(seen_position["worker"]),
               Abs(seen_position["worker"]))
  /\ UNCHANGED <<lock, engine, reads, position_sync_requested, intent, resume,
                 market>>

PlaceExits ==
  /\ PlaceExit("worker", Fresh, Sign(-seen_position["worker"]),
               Abs(seen_position["worker"]))
  /\ UNCHANGED <<lock, engine, reads, position_sync_requested, intent, resume,
                 market>>

RegisterExits ==
  /\ RegisterExit("worker")
  /\ UNCHANGED <<lock, engine, reads, position_sync_requested, intent, resume,
                 market>>

\* ensure_protection returns, to the sync, the dynamic exit or the start.
ExitsPlaced ==
  /\ at["worker"] = "store"
  /\ StoreProtection(Sign(seen_position["worker"]), stop_loss)
  /\ \/ resume = "exits" /\ PositionApplied
     \/ /\ resume = "watchdog"
        /\ Go("worker", "watchdog") /\ lock' = "free"
        /\ seen_position' = [seen_position EXCEPT !["worker"] = 0]
        /\ UNCHANGED <<last_position, position_sync_requested>>
     \/ /\ resume = "stale" /\ Started /\ lock' = "free"
        /\ UNCHANGED last_position
  /\ resume' = "exits"
  /\ UNCHANGED <<broker, faults, pending, protection_requested, acknowledged,
                 cancelling, acked, held, risk_position, unresolved_entry,
                 fail_safe_lockout, stop_loss, client_position, broker_orders,
                 order_error, intent, market>>

\* The position is closed: its protection is cleared.
PositionClosed ==
  /\ at["worker"] = "close" /\ CancelsDone("worker")
  /\ PositionApplied /\ stop_loss' = 0
  /\ UNCHANGED <<broker, faults, executor, calls, risk_position,
                 unresolved_entry, fail_safe_lockout, client_position,
                 broker_orders, order_error, intent, resume, market>>

\* _refresh_dynamic_exit moves the stop, or the cadence has not come.  Before
\* it, when that is due, _refresh_broker_truth_snapshot looks the position up.
_refresh_dynamic_exit ==
  /\ at["worker"] = "exits"
  /\ client_position' \in {client_position, position}
  /\ \/ /\ Go("worker", "watchdog")
        /\ UNCHANGED <<protection, protection_requested, cancelling, lock,
                       stop_loss, seen_position, resume>>
     \/ /\ LockFree
        /\ last_position # 0 /\ stop_loss \in 1..(StopLevels - 1)
        /\ stop_loss' = stop_loss + 1
        /\ IF NothingToProtect(last_position, stop_loss + 1)
           THEN /\ Go("worker", "watchdog")
                /\ UNCHANGED <<protection, protection_requested, cancelling,
                               lock, seen_position, resume>>
           ELSE Protect(last_position, "watchdog")
  /\ UNCHANGED <<broker, faults, pending, acknowledged, acked, placed, held,
                 last_position, risk_position, unresolved_entry,
                 fail_safe_lockout, broker_orders, order_error,
                 position_sync_requested, intent, market>>

\* A mutation: without a request for protection nothing is overdue.
StaleOnlyWhenRequested ==
  /\ acknowledged /\ last_position # 0 /\ ~is_protected
  /\ protection_requested

protection_pending_too_long == protection_requested /\ ~is_protected
broker_ack_stale == acknowledged /\ last_position # 0 /\ ~is_protected

\* _trigger_fail_safe: once, and with a flatten only of a known position.
_trigger_fail_safe ==
  /\ fail_safe_lockout' = TRUE
  /\ IF ~fail_safe_lockout /\ last_position # 0
     THEN _flatten_position("worker")
     ELSE /\ Go("worker", "stale")
          /\ UNCHANGED <<protection, protection_requested, cancelling>>

\* _handle_watchdogs, without the lock.
_handle_watchdogs ==
  /\ at["worker"] = "watchdog"
  /\ \/ /\ protection_pending_too_long \/ broker_ack_stale
        /\ _trigger_fail_safe
     \/ /\ Go("worker", "stale")
        /\ UNCHANGED <<protection, protection_requested, cancelling,
                       fail_safe_lockout>>
  /\ UNCHANGED <<broker, faults, pending, acknowledged, acked, placed, held,
                 lock, last_position, risk_position, unresolved_entry,
                 stop_loss, reads, position_sync_requested, intent, resume,
                 market>>

Start == AdoptPosition \/ AdoptOrders \/ Adopt

Worker == \/ Start \/ _process_operator_request
          \/ reconcile_pending_orders \/ ReadPosition \/ ReadOrders
          \/ ApplySync \/ PlaceExits \/ RegisterExits \/ ExitsPlaced
          \/ PositionClosed \/ _refresh_dynamic_exit \/ _handle_watchdogs
          \/ Flatten("worker") \/ CancelStep("worker")

Next == Exchange \/ Feed \/ Stream \/ Hub \/ Worker \/ Restart

Spec == Init /\ [][Next]_vars

\* Threads that have something to do get on with it.  The loop comes round
\* every second, so an order that stays pending is in the end older than the
\* timeout, and a watchdog that stays triggered while the market data go on
\* coming is in the end overdue.  The stream need not start anything, and the
\* exchange need not fill.
Fairness ==
  /\ WF_vars(Worker) /\ WF_vars(Hub)
  /\ WF_vars(Stream /\ at["stream"] # "idle")
  /\ \A id \in OrderIds :
       SF_vars(reconcile_pending_orders /\ id \in cancelling["worker"]')
  /\ SF_vars(_handle_watchdogs /\ fail_safe_lockout' /\ feed_live)

FairSpec == Spec /\ Fairness
-----------------------------------------------------------------------------
(* Properties *)

\* A working exit of the record takes the recorded position down, never up,
\* although the hub takes records out and puts them back while the worker
\* replaces them.
ExitsOpposeRecord ==
  \A id \in protection.orders :
    working[id] # NoOrder => working[id].side = -protection.direction

\* An exit of the record that works at the broker is a pending protective
\* order: cancel_all_orders before a flatten reaches it, and its fill is
\* recognised as an exit.  Not so one that the broker has refused to cancel:
\* the engine forgot it, and the hub may yet put it back into the record.
RecordedExitsPending ==
  \A id \in protection.orders :
    working[id] # NoOrder /\ ~working[id].refused => pending[id] \in Exits

\* An entry goes out only while the engine is flat, although the position was
\* compared two requests earlier and the worker syncs in its own thread.
EntryWhileFlat ==
  at["stream"] \in EntryPoints => last_position = 0

\* A closed position leaves no unresolved entry, so that the next entry on its
\* side is not taken for a duplicate, which would lock the engine out: the
\* entry is resolved by the sync that opens the position, or, when the start
\* adopted a position the stream had just opened, by the one that closes it.
ClosedIsResolved ==
  [][last_position # 0 /\ last_position' = 0 => unresolved_entry' = 0]_vars

\* A position that closed at the broker is noticed: while the engine believes
\* in an open position the worker polls, whatever message was lost.
CloseIsNoticed ==
  last_position # 0 /\ position = 0 ~> last_position = 0 \/ position # 0

\* An exit that the executor knows does not outlive the position: while the
\* engine is flat, an exit that works at the exchange stops working, although
\* its cancellation failed or its record was lost.  Left alone it would open a
\* position again.  The exceptions are an exit that the broker refuses to
\* cancel, whose answer is taken for success, and a process that ends.
OrphansEnd ==
  \A id \in OrderIds :
    pending[id] \in Exits /\ working[id] # NoOrder /\ last_position = 0 ~>
      \/ working[id] = NoOrder \/ working[id].refused
      \/ last_position # 0 \/ at["worker"] = "adopt"

\* An open position without protection gets it, or the watchdog locks the
\* engine out, or the position is gone; so for every position with a stop,
\* those adopted at the start among them, as long as market data come.
\* Without a stop the watchdog measures from the last acknowledgement, so
\* there has to be one.
UnprotectedIsCaught ==
  last_position # 0 /\ ~is_protected /\ (acknowledged \/ stop_loss # 0) ~>
    is_protected \/ fail_safe_lockout \/ last_position = 0 \/ ~feed_live

\* No call is under way and no message on its way.
Settled ==
  /\ at = Idle("stale")
  /\ updates = <<>>
  /\ \A th \in Threads : CancelsDone(th)

\* on_position_update: "Request a position sync after any broker-side position
\* event."  So, with no message lost, a difference the engine could not know
\* of yet leaves a sync requested or a reason to poll.
PositionEventRequestsSync ==
  Settled /\ faults = 0 /\ position # last_position =>
    position_sync_requested \/ last_position # 0 \/ PollEntry

\* is_protected: "Return whether protective orders are active for a symbol."
ActiveExitsProtect ==
  Settled /\ (LiveExits \cap WorkingIds # {}) => is_protected

\* protection_pending_too_long: "Return True when protection should exist but
\* is still not active."  A closed position should have none.
TimeoutMeansUnprotected ==
  at["worker"] = "watchdog" /\ protection_pending_too_long => position # 0

\* test_live_entry_skipped_when_broker_position_not_flat: no entry is sent
\* while the broker holds a position.
NoEntryBesidePosition ==
  [][ acked'["stream"] # NoId /\ acked["stream"] = NoId => position = 0 ]_vars
=============================================================================
