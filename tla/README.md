# G-Trade: specifications, model checking and proofs

G-Trade is a Python trading bot for one future (ES): it streams quotes from
TopstepX, decides on entries and exits, sends orders, keeps a protective stop
and target at the broker, and limits its losses. This directory holds TLA+
modules translated from `src/src/`, the TLC configurations that check them on
small instances, and TLAPS proofs about them. Paths below are relative to
`src/src/`.

## Contents

| Part of the system | Source | Modules |
|---|---|---|
| Risk manager, size and price of an entry | `engine/risk_manager.py`, `engine/trading_engine.py` | `RiskManager`, `EntrySizing`, `MCRiskManager`, `RiskManagerProofs` |
| Trading engine | `engine/trading_engine.py` | `TradingEngine`, `MCTradingEngine`, `TradingEngineProofs` |
| Order executor | `execution/executor.py` | `OrderExecutor` |
| Broker, as the client sees it | `market/topstep_client.py` | `Broker` (environment) |
| Session with the broker | `market/topstep_client.py`, start and stop of the engine | `MarketSession`, `MCMarketSession`, `SessionProofs` |
| Decision over a day | `engine/scheduler.py`, `engine/event_provider.py`, `engine/decision_matrix.py`, `engine/regime.py`, bars and evaluation of the engine | `HotZoneScheduler`, `EventProvider`, `DecisionMatrix`, composed by `DecisionCycle`, `MCDecisionCycle`, `DecisionCycleProofs` |
| Replays | `engine/replay_runner.py`, the paper account of the executor | `ReplayExecution`, `MCReplayExecution`, `SessionProofs` |
| Runtime control | `cli/commands.py`, `cli/runtime_controller.py`, `cli/launchd.py` | `RuntimeControl`, `MCRuntimeControl`, `RuntimeControlProofs`, implementing `SingleRuntime` |
| Bridge and outbox | `bridge/railway_bridge.py`, `bridge/outbox.py` | `Bridge`, `MCBridge`, `BridgeProofs` |
| Observability store, its queue | `observability/store.py` | `ObservabilityStore`, `MCObservabilityStore`, `ObservabilityStoreProofs`, implementing `DurableLog` |
| Observability store, completed trades | `observability/store.py`, `cli/commands.py`, `engine/risk_manager.py` | `TradeLedger`, `MCTradeLedger`, `TradeLedgerProofs` |

`PROJECT.json` lists the runs, which definition stands for which lines, the
hazards with the properties that cover them, and the theorems.

To repeat a run: `tlc -config MCEngineSafety.cfg MCTradingEngine`. To repeat
the proofs: `tlapm TradingEngineProofs.tla`.

## Inventory

### Threads and processes

Three threads share the engine's objects:

* the **worker** (`TradingEngine._run`): once a second it serves an operator's
  request, reconciles stale orders, syncs the position when asked or due,
  refreshes the broker snapshot, moves the dynamic stop and runs the watchdogs;
* the **stream** (the client's market hub, `on_market_data`): builds bars,
  evaluates the state, enters and flattens. It holds `_lock` for all of it,
  the broker requests included;
* the **hub** (the client's user hub, `on_order_update`,
  `on_position_update`): applies the broker's messages to the executor and
  requests syncs. It never takes `_lock`.

A fourth, the one that calls `start` and `stop`, starts the two streams, adopts
what the broker holds, and starts the worker. The worker takes `_lock` only
while it applies what it read, and while it moves the stop; its watchdogs run
without it. The executor and the risk manager have no lock of their own. All of
them record what they do in the observability store, whose own thread writes it
to SQLite. A further thread, the bridge, copies stored rows to a remote service.
The command line and the runtime controller are processes of their own, which
act on the runtime through a pid file, a request file, a status file and
signals.

### Components

| Component | State | Operations | Hard behaviour | What makes it correct |
|---|---|---|---|---|
| Risk manager | counters of the day, hour and zone, circuit breaker, blackout, position, trades | `can_trade`, `sync_position`, `record_trade`, `should_flatten_position`, `update_volatility`, `set_blackout`, `calculate_position_size` | daily reset only when asked, states that replace each other, partial closes and reversals at a moving average price | the counters are those of the trades; no entry past a limit; the booked profit is the money; size and limit keep to the account's risk |
| Trading engine | believed position, sync request, unresolved entry, stop and target, watchdog state, pending ids | loop, evaluation, entry guard, sync, dynamic exit, watchdogs, startup adoption, operator requests | three threads, two-request snapshots, lost wake-ups, lost messages, restarts | entries only while flat, closes noticed, an unprotected position caught |
| Order executor | pending orders, protection record, time of the request for protection, fills, lifecycle state | place, cancel, reconcile, ensure and clear protection, status updates, flatten | no lock; loops of requests between which other threads act; partial failure | the record's exits take the position down and are known; no exit that it knows of outlives the position |
| Broker client | token, account, cached positions and orders, two streams | requests with retry, snapshots, flatten, hub messages, connect, reconnect, close | an answer lost after the request was carried out; flags set by one thread and polled by another; joins with timeouts | only a practice account trades; a started engine runs on a quote; the hub comes back |
| Decision matrix, regime | last evaluation | `evaluate` | scores and vetoes; conditions stated once per side | an entry survives its own market; a veto always wins; nothing is held outside the zones or past the session |
| Scheduler, event provider | configuration, calendar and its cache | `get_current_zone`, `get_context` | midnight, overlaps, time zones; a file edited while it is cached | one zone at a time, no entry in a blackout |
| Replay runner, paper account | pending orders, paper position | `run`, `process_market_data` | fills inside the placing of orders; names counted anew | exits stay on record; a transition is priced with fills of its own side |
| Bridge and outbox | cursors in memory, SQLite queue, delivery cursors | collect, enqueue, drain, rebuild | crash between two of its steps, permanent errors, cursors that regress | a row is delivered at least once |
| Observability store | queue, worker and its batch, connection, lock, SQLite tables, manifests | record, flush, query, start, stop, backfill, prune | full queue, flushes that fail beside the worker, start racing stop; two records of one trade | no accepted record is lost or written twice; each live trade is counted once |
| Runtime control | pid, request and status files | start, stop, restart, replay, service | stale pid, several controllers, death between file and signal | one runtime at a time; stop tells the truth; stop and restart signal only a trader |
| Indicators, single strategies, regime packet | none across calls | pure computation | rounding | not modelled |
| Console, MCP server, configuration | none of their own | views and wrappers | - | not modelled |

## The models

### RiskManager and EntrySizing

The engine calls the manager under its own lock, so every public method is one
action. Money is counted in points (the factor 50 of a contract is left out),
time in ticks of the market clock. `_session_date` maps a tick to its session;
`HourLength` is the sliding window of the hourly limit.

`can_trade` is the method in full: daily reset, hourly clean-up, circuit
breaker, blackout, the two loss limits that set the breaker, the hourly, zone
and daily counts. What the engine does with the answer belongs to the action:
it asks while its *own* position is flat and no entry is pending, and submits the
entry or does not. The broker's position may be another one: an entry leaves
the pending orders when its fill is told (`EntryFilled`), and `filled` holds
until a sync has seen it; an entry that is sent meanwhile is `"beside"`.
`EntryGone` is an order that was rejected, cancelled or never accepted.
`sync_position` is fed what the broker reports after one fill,
with its average entry price, and has the five cases of the code (open, close,
reverse, reduce, increase). `Restart` is a new process: nothing is read back.

`cash`, `entries`, `filled` and `reset_mark` are ghosts: they record what
happened so that the properties can compare it with what the manager believes.

`EntrySizing` adds, as operators of the risk state, the size of an entry
(`calculate_position_size`, `_determine_contracts`, with Python's rounding to
even) and its limit price (`_choose_entry_order`, `MarketData.mid`), in half
ticks, since the middle of two quotes may lie between two ticks.

### Broker, OrderExecutor and TradingEngine

`Broker` is the environment: working orders, net position, and one queue of hub
messages. `BrokerFill` trades any part of a working order, `BrokerCancel`
rejects or expires one. Every request of the client may be *refused*, may be
*carried out although the answer is lost*, and every lookup may *fail*; a
message may be *lost* while the hub reconnects. A cancellation that is answered
may also have been *refused* (`RefuseCancel`): `cancel_order` of the client does
not read `success` in the answer (`market/topstep_client.py:1851-1874`), and the
executor forgets the order all the same. The field `refused` of an order is a
ghost. Each of these spends one of `MaxFaults` faults. Order ids are used again
when nothing refers to them, so that few are enough; a request finds no free id
only within the bound of the model, and is refused then.

In `OrderExecutor` a method that makes several requests is several steps, one
from each request to the next, because other threads act in between:
`ensure_protection` is the cancel loop, the stop, its registration, the target,
its registration, and the store of the record; `_cancel_sibling_protection` is
the read of the record (`FilledExit`), its cancel requests, and its end
(`SiblingsCancelled`). `cancelling[th]` is the loop a thread is in, `acked[th]`
an order the broker acknowledged that is not registered yet.

In `TradingEngine` `at[th]` is the request a thread will make next; the steps
of a loop of `_run` are `_process_operator_request`, `reconcile_pending_orders`,
`ReadPosition`, `ReadOrders`, `ApplySync`, the exits, `_refresh_dynamic_exit`,
`_handle_watchdogs`, and `Flatten` when a watchdog fires. `lock` is held exactly
where the code holds it. `Protect` and `NothingToProtect` are the two ways
`ensure_protection` goes from any of its callers.

`Restart` ends the process wherever its threads are and starts another: the
broker keeps orders and position, the new process knows of neither, of no
record of exits, and of no lockout. Its start looks the position up
(`AdoptPosition`), then the orders (`AdoptOrders`), and takes both over
(`AdoptOpen`, `AdoptFlat`); the streams run already, so that the stream may
enter and the hub may bring messages in between. The worker of the model stands
for the starting thread too, since the real worker begins when the start is
done. A restart spends a fault.

Abstractions: a price is left out but for the level of the stop, which the
dynamic exit can raise; time is left out, so an order may be stale and a
request overdue whenever it is looked at (overdue only while `feed_live`, see
below); the decision to enter or leave is
nondeterministic here (it is `DecisionCycle`'s subject); the quantity is bounded
by the account's `max_contracts`.

### MarketSession

The three threads that a start involves: the caller (authenticate, choose an
account, start the streams, wait for a quote, adopt, later stop), the market
stream and the user hub. Sockets are `none`, `open` or `closed`; `_ws` and
`_user_hub_ws` are what the caller closes them through. The worker takes part
with one request: its refresh of the broker's truth (`get_broker_truth_bundle`)
authenticates again when the token has expired, which is what lets the hub
connect again. `faults` counts failed requests and connections; a request that
is retried has failed as often as it has tries. `_select_account` is an operator
on the list the service returns.

Left out: the contract, the resubscription, the messages (they are the
`Broker`'s), and the seconds of each timeout: a wait may end at any time.

### DecisionCycle

`HotZoneScheduler` translates `get_current_zone` (the windows of the day and the
choice among overlapping ones), `EventProvider` the calendar with its cache, the
configured times and the emergency flag, `DecisionMatrix` the scores, vetoes,
regime and the choice of the action. A market is what the bars show, in integer
levels: the direction of the session (`drive`), the slope of the average, the
swing structure, the rejection at either band, the spread and the volatility.
`long_features` and `short_features` are formulas of their own over it, as in
the code, clipped alike; but a feature of the model stands for several of the
code that have the same form (`drive` for all that change their sign with the
side, `breakout` for those that count only what is on their side, and so on),
and further terms of `orb_break` and the pullbacks are left out. A score is an
integer weight times a feature. `DecisionCycle` composes them as
`on_market_data` does: the first tick of a minute completes an earlier bar, and
what is decided is decided for the minute of that bar, which after a silent feed
is long past. Fills, refusals and failed flattens are one step each here. A zone
keeps one offset from UTC all year: `pytz` localises each date, so that on the
two nights a year on which a zone changes its clock its windows move by an hour,
which is not modelled.

### ReplayExecution

In a replay the executor fills orders itself, and all happens in one thread, so
a quote is one step, and the methods are operators from one state of the paper
account to the next. Its definitions are prefixed (`ReplayInit`, `ReplaySpec`),
since `SessionProofs` extends it beside `MarketSession`. Orders are named by how
many there are (`OrderNumber`), tried when they are placed and at each quote,
fill in parts if a size is beside the quote, and a protective fill cancels its
sibling. Entries have the limit of `_choose_entry_order` (`UseLimitOrders`) or
are market orders. The price of a fill is left out, but not which fills a sync
prices a transition with: `PricedWith` is the loop over the consumed fills, and
the ghost `priced` holds how many contracts each transition moved by and how
many it was priced with.

### RuntimeControl

Every write to one of the three files and every signal is a step of a process;
any process may be killed between two of them, and its pid given to a later one
or to an unrelated program. `Starters` become the runtime in their own process,
`Requesters` (es-trade stop, restart) and `Controllers`
(`runtime_controller.py`) ask one to end. `Recognised` are the programs whose
command line holds a token of `_pid_is_trader_process`. There is no lock in the
code, and commands begin at any time, also between another one's look at the pid
file and its write: `launch_start_process` returns before its child has written
the file. The ghost `raced` says that a runtime has begun beside a command at
such a place (`Looked`), the ghost `left` that a runtime died without removing
its pid.

Left out: a pid written in part, which would be read as none; a pid that is
given again while a command still waits for the old process; the daemon threads
that a start that fails half-way leaves in its process, which ends next.

`SingleRuntime` is what the pid file promises: one runtime after the other.

### Bridge

`Bridge` shares nothing with the engine but the rows the engine records, which
are numbered from 1 per kind. `docs/Current-State.md:18` calls the bridge
legacy; the code is complete and is started whenever an ingest URL and a token
are configured.

| In the code | In the model |
| --- | --- |
| the tables of the store | `stored`: how many rows each kind has |
| table `outbox` | `outbox`: a set of batches, each the interval of its rows, with its row id, whether its payload has a `_cursor` and whether it failed for good |
| table `delivery_state` | `delivery`: a cursor per kind |
| `last_*_id_sent`, locals of the loop | `cursor`, lost by `Restart` |
| the statement the loop is at, `batches` | `at`, `turn`, `batches` |
| a `replay-missing` command | `sent_state`, `todo` |
| the remote service | the ghosts `received` and `refused` |

Every statement of the outbox is a step, and so is every request together with
its retries; each may fail (`Fault`), as the code swallows errors of the database
one by one. `Restart` may come between any two steps and forgets what is in
memory. `replay-missing` runs in another process and interleaves with the loop.

### ObservabilityStore

Every thread that uses the store (`Callers`) and the store's own workers. A
caller records, forces a flush (which is also how every query and the bridge's
collecting begin), writes to one of the tables that bypass the queue, or stops
the store; each of these first calls `start()`.

| In the code | In the model |
| --- | --- |
| `_running`, `_conn`, `_failed`, `_queue` | `running`, `conn` (is there one), `failed`, `queue` |
| `_lock`, held over a whole flush | `lock`, with the caller that drains, writes or puts back |
| `drained` in `_flush_locked`, `pending` in `_worker_loop` | `hand[t]`, per thread |
| the second half of `stop()` | `stopping`: the flush of such a caller closes the connection |
| the tables | `rows`: the order in which records were written |

Records leave and enter the queue one at a time, since `queue.Queue` has a lock
of its own and other threads act between two calls; the transaction of a batch
is one step, as it is under the lock and rolled back as a whole. `stop()` waits
at most five seconds for the worker, so its flush may come at any time after;
the old worker lives on, and a later `start()` adds another. The kinds of record
are one, and the tables one; a failed start and its clean-up are one step; the
back-off of the worker takes no time; a record that cannot be serialised is left
out.

`DurableLog` is what the store promises while the process lives: a record is
accepted once, records that wait are appended once each, and what is in the
table stays. It does not promise the order, since a worker may hold a batch
while a flush writes younger records, nor that a record is accepted: a full
queue drops it.

### TradeLedger

The same store over many runs, as far as it counts trades. `record_trade` leaves
an event, which waits in memory (`queue`) before it is in the table `events`, and
a row in `completed_trades`. Each run starts by inserting the rows that the
events of *all* runs call for; rows that are there already are ignored, because
the table is unique by the trade's texts, and for that reason the time has to be
made canonical: the event tells it by the clock of the session, the row by that
of UTC. Runs that replay leave events too, and their manifest tells them apart;
the manifest of a live run is recorded a second time, with the account and
without its mode. Any error sets `_failed`, which silences the store for the
rest of the run; the start prunes events; the process may end at any step.

A time is a clock and its offset; `Details` stand for all else that tells two
trades apart. Two trades with equal texts are one row in the code and one trade
in the model. A zone or strategy that is missing would escape the uniqueness
(SQLite holds NULLs distinct); the engine always sets both.

### Definitions called mutations

A few operators next to a definition are marked "a mutation": `LockIgnored`,
`CancelForgets`, and so on. No specification uses them. Each is a plausible
mistake in that definition; substituting it makes the property named in
`PROJECT.json` fail, which shows that the property depends on the code.

## Properties and runs

The statement of each property is the comment above its definition. This part
says which question a run asks, with which bounds, and what it shows. Counts are
of distinct states.

### Risk manager and size of an entry

`risk_pass` (1 250 890 states): `LedgerMatchesHistory`, `HourWindowComplete`,
`EntriesPerDay`, `RealisedPnlMatchesCash`, `EntryWithinLimits`,
`NoEntryPastLimits`. The counters that `can_trade` consults are those of the
trades; the booked profit is the money of the fills; no entry is made once a
loss limit is reached, although other events replace the circuit breaker by the
reduced state; size and limit of an entry keep to what the account risks.

Bounds: a session and the first tick of the next (`SessionLength` 2,
`MaxTime` 2), three trades per process, two zones, positions up to two
contracts either way, two prices a point apart, all limits 2, so that each
limit is reached and passed. `HourLength` is 0: a tick is longer than the
window, exits of the running tick are on its boundary and older ones outside; a
longer window would let the hourly limit mask the daily one with so few trades.
Quotes are missing, a tick beyond the offset apart, or far enough apart for the
slippage to cut in. Default sizes are between and above the limits of the
accounts. Zones are symmetric.

`EntriesPerDay` counts the entries that the limit can see. The engine asks
`can_trade` while *it* is flat (`_evaluate_current_state`); an entry whose fill
no sync has seen yet is not a position for it (see `NoEntryBesidePosition`
below), and a second one sent beside it comes on top of the limit. In the run
such an entry is sent before the first trade of a process only (`MaxBefore` 0)
and may work beside all that follows; the theorems hold for any such bound. For
the same reason `EntryWithinLimits` speaks of an entry for a flat position.

Half a size is half only where the full one was not cut: without an ATR
`_determine_contracts` halves `default_contracts` before it applies
`max_contracts`, so that a default of 12 and a limit of 5 give 5 at full and 5
at half size. `SizeWithinRisk` excepts that case, which the proof brought up;
`config/default.yaml` has no default above its limit.

The counters are those since the daily reset, which happens at the first
`can_trade` of a session and not at its boundary: a position carried over the
boundary and closed at a loss before that call leaves no trace in them, and
the limits of the properties are about the counters for that reason.

### Engine

| Run | Properties | Bounds |
|---|---|---|
| `engine_safety` | `TypeOK`, `ExitsOpposeRecord`, `RecordedExitsPending`, `EntryWhileFlat`, `ClosedIsResolved` | 3 fills, 1 entry, 1 fault, 2 stop levels; 3 203 779 states |
| `engine_closing` | `CloseIsNoticed`, `OrphansEnd` | 2 fills, 1 entry, 1 fault; fair; 84 296 states |
| `engine_unprotected` | `UnprotectedIsCaught` | 1 fill, 1 entry, 1 flatten, 1 fault, 2 stop levels, 4 order ids; fair; 191 184 states |

Three fills are an entry, its exit, and the orphaned sibling that reverses the
position; two stop levels make the worker replace the exits while the hub
cancels them; one fault is any single refusal (of an order or of its
cancellation), lost answer, failed lookup, lost message, silence of the market
data or restart of the process, at every place it can occur. One entry is
enough for the safety run since the second entry of the interesting case is the
orphan's fill. Operator requests come at every turn of the loop, for nothing.

One run refutes what the repository says of itself, with no fault at all:
`engine_lost_sync` (`PositionEventRequestsSync`, "Request a position sync after
any broker-side position event"). The worker reads a flat position; the entry
fills; the hub sets the request; the worker reads no open orders, finds "broker
flat, no orders", clears the request and the entry. The engine stays flat beside
an open position without a stop and has no reason to poll.

**Fairness.** `FairSpec` assumes weak fairness of the worker and of the hub
(both threads loop for ever: one sleeps a second, the other blocks on its
queue), and of the stream only while it is inside `on_market_data`. It need not
start anything and the exchange need not fill. Two strong fairness conditions
stand for time, at looks that recur every second. An order that stays pending is
in the end older than the timeout when `reconcile_pending_orders` looks: both
its time and that of the look are the wall's (`execution/executor.py:820-826`).
A watchdog that stays triggered is in the end overdue when `_handle_watchdogs`
looks, *while market data come*: the time of that look is `_current_event_time`,
which is the time stamp of the latest market data
(`engine/trading_engine.py:2113`, `2270-2277`), and it is compared with a time
of the wall. It moves on as long as `feed_live`, so an endless run with market
data in which it is always too early is not a run of the program; without them
it stands still, and nothing is assumed.

What the properties leave out, because the code does not do it:

* a start whose lookup of the position failed adopts nothing; the first sync
  takes the position over, without a stop. Such a position is never protected,
  and no watchdog fires until the broker acknowledges an order of this process.
  `UnprotectedIsCaught` speaks of positions with a stop, or of processes that
  have had an acknowledgement;
* once the market data stop, the clock of both watchdogs stands still, and an
  unprotected position is not caught; the market stream is not restarted.
  `UnprotectedIsCaught` ends with `~feed_live` for that reason;
* an exit that the broker refuses to cancel is forgotten and works on: the
  record may name it again (the hub puts back what *it* failed to cancel), it
  outlives the position, and its fill opens another. `RecordedExitsPending` and
  `OrphansEnd` except it;
* a sync whose snapshot of orders is older than an entry may drop the entry from
  the pending ones;
* a restart forgets `fail_safe_lockout`;
* the stream may enter while the start adopts: the entry stays unresolved beside
  the position until that closes. That it goes then is `ClosedIsResolved`;
* `feed_stale` compares the time of the latest market data with itself, so the
  watchdog of a silent feed is never true; it is not modelled.

### Session with the broker

`session_pass` (32 378 states): `PracticeOnly`, `StartedOnQuote`,
`ConnectedMeansListening`, and under fairness `HubReconnects`, `EngineSettles`.
Account lists hold every mix of a wanted account (practice or not), a suspended
one, a funded one and a practice one; two tries a request and four failures, so
that a request fails for good and later connections fail too.

Fairness: each of caller, stream and hub takes its next step that does not fail.
A request has a timeout, a callback returns, a join ends after five seconds; no
message has to come, nothing has to fail. The market stream ends with its first
error and is not restarted by the code; `HubReconnects` is about the user hub: as
long as the engine runs, it listens again in the end, also after its token has
expired, since the worker's next refresh of the broker's truth authenticates.
`CHECK_DEADLOCK FALSE`: a stopped engine does nothing more.

### A day of decisions

`decision_pass` (76 749 states): `ZoneMatchesReference`, `EntrySurvives`,
`EntryInLiveZone`, `EntryObeysEvents`, `HeldOnlyInZone`, `FlatBySessionEnd`. A
day of 14 minutes has five zones: two that touch, two that overlap (one of them
only flattens), and one past midnight in another time zone; ticks are up to two
minutes apart, so that bars are missing and the clock leaves the zone of the bar
behind. Eight markets cover both sides, trend, range and stress, a wide spread
and each volatility; the two sides have weights of their own. One edit (calendar
written or removed, halt set, or a restart) comes at any time; a halt is removed
for nothing. `ZoneMatchesReference` compares the scheduler's dates with windows
counted round the day; `EntrySurvives` compares two evaluations of the same
state. `HeldOnlyInZone` includes the halt and the events of the calendar, and
`FlatBySessionEnd` the hard flat time, which holds for the zone a position was
*entered* for, through cancelled orders and earlier positions.

All of them speak of the minute of the last completed bar, which is what the
code decides by. After a silent feed the clock is past that minute, and there
they do not hold (`engine/trading_engine.py:1222`). What a start took over from
the broker has no entry zone and is not flattened by the session.

Some of the properties depend on the configuration, and nothing in the code sees
to it. `HoldLimitsArePositive`, `OutsideHoldsNothing`, `OnlyZonesGoLive` and
`FlattenOnlyPrevails` (at the end of `DecisionCycle`) say what they ask, and are
the hypotheses of the theorems; the configuration of the run
(`OrdinaryConfiguration`) and `config/default.yaml` meet them.

`CHECK_DEADLOCK FALSE`: the day ends.

### Replays

`replay_pass` (202 418 states): `TransitionsArePriced`, `ExitsAreRecorded`. Five
levels, with and without a size beside the quote (which has a wide spread then),
three contracts, limits a tick beyond the quote and at most two from the last
trade, exits three ticks away: entries fill at once, later, or in parts; exits
fill while they are being placed; a position reverses. `TransitionsArePriced`
says that each change of the engine's position finds at least as many contracts
filled on its own side as it moves by, so that the fall-back to the average or
the last price is never taken. It may find more: fills of the other side are
consumed and passed over, so that an exit that filled while exits were being
placed, and what is left of the entry that filled after it, are one transition
that is priced by all of the entry's fills (with `=` for `>=` the property
fails). `MaxPlaced` (17 orders) bounds the recording; the counts in the
properties are relations, and the state in which a replay has no order left
recurs well before. `CHECK_DEADLOCK FALSE` for that bound.

### Runtime control

`runtime_pass` (1 686 668 states): `PidFileNamesRuntime`, `StopSaysTrue`,
`SignalsOnlyTraders`, `OneRuntime`. Three pids, which are symmetric, three
commands (interrupts included), one kill and one unrelated process: a runtime,
its successor, and a process that got a pid that was free again. `OneRuntime` is
the specification of `SingleRuntime` under the mapping to the processes that
hold the pid file.

Commands interleave in every way. `PidFileNamesRuntime`, `StopSaysTrue` and
`OneRuntime` hold until the first race (`raced`): a runtime that begins, i.e.
writes the pid file, while another command stands between its look at that file
and what it does with it. From there on nothing is promised, and in the code two
runtimes may trade (see the deviations). What the run shows is that this is the
*only* way to two runtimes, or to a file that names none: not one that ends
beside one that starts, not a crash, a reused pid, a stop given up, or an
interrupt. `SignalsOnlyTraders` needs no such condition for stop and restart of
the command line, which check the command of the process again just before the
signal; the runtime controller checks only that the pid lives, and what it
signals is of the trader as long as no runtime died and left its pid (`left`).

`Recognised` is all programs: the check of the command line finds the token
`es-hotzone-trader` in the path of the installation. Installed elsewhere, only
`python -m src.cli start` is recognised (`Recognised <- MCModuleRecognised`), and
then `StopSaysTrue`, `PidFileNamesRuntime` and `OneRuntime` fail: es-trade start
does not see the runtime that es-trade start made.

`CHECK_DEADLOCK FALSE`: the commands are bounded.

### Bridge

`bridge_pass` has a kind whose payload names no cursor, with two rows, and one
that does, with one row; batches of one row, two batches a round, one fault, one
restart and one use of `replay-missing`. One row per batch makes the loop go on
after a full batch; more rows than a round sends leave batches behind; a fault
and a restart meet at every step. `RowsKept` says that a row behind the loop's
cursor is in the queue or was accepted; `EveryRowArrives` that each recorded row
is accepted in the end, or was refused for good. The only fairness is that the
bridge's thread takes its next step, which the loop does for as long as the
process runs; faults, restarts and new rows need not happen.

### Observability store

**`store_pass`**: two threads, one of which may stop the store once, two
workers, a queue of one, batches of two, two records and one failing statement.
With a queue of one and two records a flush can meet a full queue, the worker
can hold one record while the other is drained, and a start can come between the
halves of `stop()`; two workers live at once after that. `LogKept` is the
specification of `DurableLog`, under the mapping `waiting <- Waiting` (the queue
and what all threads have in hand). `EveryRecordWritten` says that an accepted
record is written in the end. It makes three exceptions, each a state the code
does not leave by itself: the store was stopped, it has no connection (a
`start()` came between the halves of `stop()`), or a failed flush is blocked
(see below). `FairSpec` assumes that a thread inside an operation, and each
worker, goes on: strong fairness, because both wait for the lock and for the
queue, which are free again and again but not always; Python hands a free lock
to some waiter, and an endless run in which one waiter never gets it is not
considered. Callers need not begin anything. `CHECK_DEADLOCK FALSE`: a store
that failed, was stopped or is blocked does nothing more.

**`ledger_pass`** (2 671 372 states): `CountedOnce`, `LiveTradesOnly`,
`EitherRecordSuffices`. Three runs, each live or a replay, three trades, two
errors or crashes, and a clock that is put back an hour so that both instants
read the same. Three runs are needed for a trade whose row failed in the first,
whose event the backfill of the second missed, and which the third may still
insert; two faults for one record to fail in one way and the other in another.
`Details` are symmetric. With `CaptureProvenance = FALSE`
(`capture_run_provenance`) no manifest tells a replay, the later backfills count
its trades, and `LiveTradesOnly` fails. `CHECK_DEADLOCK FALSE`: runs are bounded.

### Known deviations

Each of these definitions states what the code, a doc or a test says, and fails
at a small instance; naming it in the configuration in brackets shows the
behaviour. They are not runs, so that each run answers a question of its own.

* `NoEntryBesidePosition` [MCEngineLostSync]: a snapshot older than the entry
  drops it from the pending orders; the guard reads a flat position, the entry
  fills, the guard reads no open orders, and a second entry is sent.
  Such an entry is on top of the daily limit of entries.
* `ActiveExitsProtect` [MCEngineLostSync]: the hub, done with cancelling the
  siblings of a filled exit, pops the record that the worker stored meanwhile.
* `TimeoutMeansUnprotected` [MCEngineLostSync]: a protective fill removes the
  record but not the time of the request; a watchdog before the next sync locks
  the engine out although the position is closed.
* `MissingRowsReplayed` [MCBridge]: a batch is answered with a permanent error,
  `mark_failed` takes it out of the queue, and the next statement writes its
  last row as the delivery cursor. `replay-missing` starts after that row: the
  rows never arrived and are not enqueued again, although its test speaks of
  "unsent records" and `docs/OPERATOR.md:17` of rebuilding the work from the
  local store.
* `TelemetryRecovers` [MCStore with one worker and three records]:
  `docs/Tasks.md:9` says that "SQLite flush failures no longer permanently
  disable telemetry". A flush drains the queue, its write fails, another thread
  fills the queue, and `self._queue.put(record)` waits for room while the flush
  holds `_lock`. The worker has a batch and waits for that lock; nothing empties
  the queue, and every thread that records next stops in `start()`. The test of
  the recovery makes a single thread's write fail, with room in the queue.
* `RestartCarried` [MCRuntime]: a restart whose request is written between the
  last look of the ending runtime at it and the removal of the file at the
  runtime's end (or while another runtime starts, which clears the file too)
  arrives at its own start without the request it wrote.
* `StoppedListensNoMore` [MCSession]: `stop` closes the sockets that the
  attributes name; a thread that was dialling then, and outlives the join,
  connects afterwards and listens on, since the market stream has no flag that
  tells it to stop.
* `FilledByLatestQuote` [MCReplay]: `_place_mock_order` tries a new order, and
  every pending one, against `client.get_market_data`, which in a replay is the
  fixed quote 5900.00/5900.25 that `enable_mock_mode` leaves
  (`market/topstep_client.py:2276`): exits fill at once at a price the recording
  never had.

Further deviations are the exceptions in the properties above, each with its
lines in the code:

* *Two runtimes.* `start` looks at the pid file (`cli/commands.py:994`) and
  writes it (`1018`) without a lock; `launch_start_process`
  (`cli/runtime_controller.py:172-182`) returns before its child has written it,
  so that one operator who starts twice is enough. Each of the two removes the
  file at its end, whosever it is. `OneRuntime` without `raced` fails in
  MCRuntime.
* *A signal to another program.* `request_runtime_action`
  (`cli/runtime_controller.py:211`) signals the pid of the file if it lives
  (`96-100`); after a crash that may be any process that was given the number.
  `SignalsOnlyTraders` without `left` fails in MCRuntime.
* *Refused cancellations* (`market/topstep_client.py:1851-1874`,
  `execution/executor.py:629-648`): an order that works on is forgotten.
* *Watchdogs without a clock* (`engine/trading_engine.py:2113`): none fires after
  the market data have stopped, and `feed_stale`, which is to tell that, is never
  true.
* *Prices of replayed transitions* (`engine/trading_engine.py:1831-1846`): the
  other side's fills are consumed and passed over.

## Proofs

Assumptions are the named `ASSUME`s of the modules, which say what the
configuration allows (limits and bounds are natural numbers, sides are 1 and
-1, zones lie within the day), and TLC evaluates them in every run. Theorems
hold for all constants within them. The type invariants of `RiskManager`,
`MarketSession`, `RuntimeControl` and `TradeLedger` are proved rather than run.

`RiskManagerProofs`:

* `TypeCorrect`, and `EntriesBounded` (`EntriesPerDay`). The limit is compared
  with `daily_trades`, which counts exits; the invariant that closes the gap
  relates both: the entries since the reset exceed the exits by at most one, and
  only while there is a position, an entry that filled unseen, or an order that
  is still open. What is sent beside an unseen fill is not counted.
* `LedgerInvariant`, `LedgerSound` (`LedgerMatchesHistory`). `LedgerInv` adds
  that the mark of the last reset is within the history, so that the trades
  since the reset grow by one with each trade and become none with a reset. A
  sum over one trade more is the sum and that trade (`SumPnlAppend`), a losing
  streak over a losing trade more is one longer and over any other it is 0.
* `HourWindow` (`HourWindowComplete`) from `HourInv`: the queue is the exits
  since the reset without the first `gone` of them, and each of those is more
  than `HourLength` ago, now and, as time only advances, ever after. The
  property does not name the exits that are gone; the invariant does.
* `CashMatches` (`RealisedPnlMatchesCash`): each case of `sync_position` moves
  the sum of the trades as it moves the cash and the marked position.
* `NoEntryAfterLoss` (`NoEntryPastLimits`): `can_trade` compares the counters,
  and `LedgerInv` makes them those of the trades.
* `EntriesWithinLimits` (`EntryWithinLimits`): for every account, volatility and
  quote. It rests on lemmas about the rounding of Python (`RoundedHalf` is within
  half of what it rounds) and about the quotient of risk and ATR.

`TradingEngineProofs`:

* `TypeCorrect`, from `TypeInv`, which adds `OrdersInHand`: a thread at a point
  after an acknowledgement has the id in `acked`, a thread that places an order
  has a non-zero quantity to place. Without it the registered role of an order
  and the quantity of the next are not typed.
* `EntriesOnlyWhileFlat`, `LockHeldWhereCodeHoldsIt` and
  `ClosedPositionIsResolved`, from `EntryInv`, the conjunction of
  `LockDiscipline`, `EntryWhileFlat` and `ClosingIsResolved`. That an entry goes
  out only while the engine is flat rests on the stream holding the lock at
  every entry point and the worker at every point from `Protect` to
  `PositionApplied`, also when it is the start that adopts. That a closing
  position has no unresolved entry (`ClosingIsResolved`) rests on `ApplySync`
  having resolved it before its orders are cancelled, and on no entry being made
  meanwhile, which is the lock again.
* `RecordedExitsOppose` (`ExitsOpposeRecord`) and `RecordedExitsArePending`
  (`RecordedExitsPending`), from `RecordInv`. The hub takes a copy of the record
  (`held`), cancels what is in it, and writes back what it could not cancel,
  while the worker may replace the record or clear it. So the invariant speaks
  of every order that is in a record, in the hub's copy or on its way to a
  record (`RecordIds`): each that still works at the broker is pending with a
  protective role, unless the broker refused to cancel it, and goes against the
  direction of *its* record (`SafeRecords`); the hub cancels orders of its copy
  only, and no entry is any of them (`InFlight`); and a message that says that
  an order is over is true (`MessagesTrue`), since such a message takes the
  order out of the pending ones.

`DecisionCycleProofs`, on the types of the cycle's variables (`CycleTypesHold`):

* `ZonesMatch` (`ZoneMatchesReference`): for any table of zones and offsets. A
  window of the scheduler is a date from yesterday or today; the proof shows that
  one of the two holds the time exactly when the clock is in the zone, that its
  start is `SinceStart` minutes ago, and that of the open zones, as many as they
  are, the last to have opened is the one that is returned.
* `EntriesSurvive` (`EntrySurvives`), with `HoldLimitsArePositive`: what the
  vetoes let in they do not put out, and the score that made it is neither
  decayed nor that of a reversal. It holds in every state whatever, for any
  weights and thresholds with `ExitDecayScore` below `MinEntryScore`.
* `EntriesInLiveZones` (`EntryInLiveZone`), with `OnlyZonesGoLive` and
  `FlattenOnlyPrevails`; `PositionsStayInZones` (`HeldOnlyInZone`), with
  `OutsideHoldsNothing` and `FlattenOnlyPrevails`. The second needs that a
  position has the time of its entry (`EntryTimed`), or the time stop would
  count from nothing, and `ProviderInv` (below), since it speaks of the events.
* `SessionsEndFlat` (`FlatBySessionEnd`), with `OnlyZonesGoLive`: a position or
  an order that was not adopted has an entry zone that goes live, which every
  step keeps: the zone is kept by the fill, and forgotten only with both.
* `EntriesObeyEvents` (`EntryObeysEvents`), for every calendar, edit and clock.
  The property speaks of the file and the decision reads a cache, which is
  refreshed by time and loaded by modification time. `ProviderInv`
  (`ProviderFollows`) says when the cache is the file's: if it was read at the
  file's modification time, and if it was refreshed since the last edit.

`SessionProofs`, about `MarketSession`: `TypeCorrect`, `OnlyPracticeTrades`,
`StartSeesQuote`, `FlagIsTrue`. The first two rest on a lemma about
`_select_account` for every list of accounts (a minimal place exists because `<`
is well-founded on the naturals); a start sees a quote because a ready stream
without an error has had one, which every step of the stream's thread keeps; the
flag because every way the thread ends clears it.

`SessionProofs`, about `ReplayExecution`: `TransitionsPriced`
(`TransitionsArePriced`) and `PendingExitsRecorded` (`ExitsAreRecorded`), for all
quotes, sizes and distances, from `ReplayInvariant`. `ReplayInv` says three
things of the paper account. `Named`: the names of pending orders are distinct
and below the next name, `OrderNumber`; since cancelling makes the next name
smaller, this is kept only because all exits are cancelled together, and because
the name of an entry is also not above the number of orders filled (an entry is
placed when nothing is pending). `Beside`: the account's position is the engine's
with the fills not consumed. `OnRecord`: the pending exits are in the record and
oppose its direction. While exits are being placed there is no record, and they
are among the two names that will be recorded (`Accounts`): this is what a fill
during the placing must keep.

`RuntimeControlProofs`: `TypeCorrect`, `PidFileIsOfRuntime`, `NotRunningIsTrue`,
`OnlyTradersSignalled`, and the refinement `OneRuntimeAtATime`, where
`Runtimes \subseteq Recognised`. `ControlInvariant` says that, until the first
race, what a command has read of the pid file is true or the file is gone, and
that once it has found no runtime there is none; and, races or not, that a
target was a process of
the trader when it was checked, and that a file no dead runtime left names a
runtime. All steps are cases
of `StepOf`, what a step of one process may do to the files and to the others;
one lemma shows that such a step keeps the invariant.

`BridgeProofs`: `TypeCorrect` and `NoRowLost` for any kinds, limits and numbers
of rows, faults and restarts. `RowsKept` alone is not inductive: `mark_sent`
removes by row id the batch that was accepted, so it takes `BatchesKnown`: ids
below `next_id` name one interval of rows each, in the queue and among those in
hand, and at "sent" the rows of the batch in hand were accepted. That delivery
cursors never pass the store's last row is a part of `TypeOK`.

`ObservabilityStoreProofs`: `TypeCorrect` and that the store implements
`DurableLog` (`LogImplemented`, `Spec => LogKept`), for any threads, sizes and
numbers. The refinement rests on `StoreInvariant`: queue, table and what the
threads have in hand share no record and hold none twice (`Apart`), and every
record is numbered by the count of those recorded (`Numbered`), so that the next
is new. Every step moves the records in one of five ways (`Rests`, `Accepts`,
`Takes`, `PutsBack`, `WritesOut`); a lemma for each shows that it keeps the
invariant and is a step of the log or none, and the lemmas on steps cite these.
That only one thread is between draining and putting back (`Control`) comes from
the lock.

`TradeLedgerProofs`: `TypeCorrect`, `TradesCountedOnce`, `EitherRecordKept`, and
`OnlyLiveTrades` where manifests are recorded, for any offsets and numbers. Rows
are canonical (`RowsCanonical`), so that two rows of one trade are equal, since
an event's row and the row inserted at once are the same (`RecordsOfTrade`).
`TwoRecords` says that a trade has left each record or lost it, `Backfilled` that
the events a backfill has passed have their rows, `OfThisRun` that what is in
memory is of the run that goes on, so that an earlier trade's event is in the
table; `ModesKnown` that no live run is taken for a replay, and `ReplaysKnown`
that a run that replays has said so before it leaves an event.

Sums over trades and the loops over orders and fills work on data of any length.
Induction over them is done without the theorems of the library that take an
operator: a set of numbers that has 0 and with each number the next has all
(`InductionOverNat`, from `WFMin` and `NatLessThanWellFounded`); a fold is the
value of a function, which is shown to exist up to each length (`SumsExist`,
`FoldExists`), so that its equation may be used. `ReplayExecution` takes orders
out with a fold (`Without`) for that reason.

Every safety invariant and every action property of the passing runs is a
theorem. Only model-checked are the properties under fairness (`CloseIsNoticed`,
`OrphansEnd`, `UnprotectedIsCaught`, `HubReconnects`, `EngineSettles`,
`EveryRowArrives`, `EveryRecordWritten`), since liveness and `ENABLED` are out of
reach of the prover, and the violation `engine_lost_sync`. No module declares a
`RECURSIVE` operator.

## Plan

What is left, most important first:

1. An abstract specification of a protected position (flat, entering, open and
   protected, open and unprotected, closing, locked out), and the engine shown
   to implement it by a refinement mapping.
2. Fills and prices of the live engine (those of replays are modelled): partial
   fills of an update, and the composition of the engine with `RiskManager`: a
   position that opens and closes between two syncs, the price a transition is
   booked at.
3. The rest of the bridge: its health rows and manifest, a stop of the thread
   within the process, and retention, which may take rows away that were not
   sent yet.
4. Trades imported from the account (`record_account_trade`) beside the table of
   completed trades.

## Not modelled

* Indicators, bars' arithmetic and the features of the matrix: numeric series in
  floating point without state; the matrix is modelled over levels instead.
* Single strategies and the regime packet: benchmarks and reports that the live
  engine does not use.
* Debug console, MCP server: read-only views, and wrappers of the runtime
  controller, which is modelled.
* Configuration: parsing; its limits are the CONSTANTS.
* Of the modelled parts: texts, logging, event records and the decision log;
  contract discovery and the history of bars; queries and schema of the store;
  exceptions that end a round of the engine's loop (the next round begins a
  second later); `reset_risk`, `reduce_risk` and `reset_state`, which serve tests
  and replays; the executor's diagnostic lifecycle state.
