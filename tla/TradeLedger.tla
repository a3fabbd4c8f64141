---------------------------- MODULE TradeLedger ----------------------------
(***************************************************************************)
(* src/observability/store.py with src/cli/commands.py and the end of      *)
(* record_trade in src/engine/risk_manager.py: how the table of completed  *)
(* trades is kept over many runs.                                          *)
(*                                                                         *)
(* A trade leaves two records.  One is an event, which waits in memory     *)
(* until the store writes it; the other is a row, inserted at once.  Each  *)
(* run begins by inserting the rows that the events of all runs call for.  *)
(* Runs that only replay a recording leave events too, but no rows; the    *)
(* manifest of a run says which kind it is.  Any error of the database     *)
(* silences the store for the rest of the run, and the process may end at  *)
(* any step.                                                               *)
(***************************************************************************)
EXTENDS Integers, FiniteSets

CONSTANTS
  Instants,       \* the moments a trade may end at
  SessionOffset,  \* the offset of the session's time zone at each of them
  Details,        \* what else tells two trades apart: side, prices, zone
  NoTrade,        \* none is being recorded
  CaptureProvenance, \* capture_run_provenance
  MaxRuns,        \* bound of the model: runs
  MaxTrades,      \* bound of the model: trades
  MaxFaults       \* bound of the model: errors and crashes

Runs == 1..MaxRuns
Modes == {"live", "replay"}
Unknown == "unknown" \* no manifest, or one without data_mode

\* A trade ends at an instant; texts give it by a clock and its offset.
Trade == [run : Runs, exit : Instants, detail : Details]
Text == [clock : Int, offset : Int]
Record == [run : Runs, exit : Text, detail : Details]

\* The trade a record is of.
InstantOf(text) == text.clock - text.offset
TradeOf(record) == [record EXCEPT !.exit = InstantOf(@)]

ASSUME LedgerConfig ==
  /\ Instants \subseteq Int /\ SessionOffset \in [Instants -> Int]
  /\ CaptureProvenance \in BOOLEAN /\ NoTrade \notin Trade
  /\ MaxRuns \in Nat /\ MaxTrades \in Nat /\ MaxFaults \in Nat

VARIABLES
  run, at,    \* the run of the process, or of the last one, and its step
  mode,       \* what each run does
  manifest,   \* data_mode of each run in run_manifests
  failed,     \* _failed: the store is silent
  queue,      \* the events of trades in memory
  events,     \* those in the table events
  completed,  \* the table completed_trades
  todo,       \* the events the backfill has before it
  hand,       \* the trade being recorded
  booked,     \* ghost: all trades
  unsaved,    \* ghost: trades whose row could not be inserted
  lost,       \* ghost: trades whose event was dropped, lost or pruned
  faults      \* ghost: errors and crashes

process == <<run, at, mode>>
ghosts == <<booked, unsaved, lost>>
vars == <<process, manifest, failed, queue, events, completed, todo, hand,
          ghosts, faults>>

\* Types, and which step leaves what in hand.
TypeOK ==
  /\ run \in 0..MaxRuns
  /\ at \in {"off", "manifest", "backfill", "engine", "trading", "stop"}
  /\ at # "off" => run # 0
  /\ mode \in [Runs -> Modes] /\ manifest \in [Runs -> Modes \cup {Unknown}]
  /\ failed \in BOOLEAN
  /\ queue \subseteq Record /\ events \subseteq Record
  /\ completed \subseteq Record /\ todo \subseteq Record
  /\ \A e \in events \cup queue : InstantOf(e.exit) \in Instants
  /\ hand \in Trade \cup {NoTrade}
  /\ hand # NoTrade => at = "trading"
  /\ booked \subseteq Trade /\ unsaved \subseteq Trade /\ lost \subseteq Trade
  /\ faults \in 0..MaxFaults

Init ==
  /\ run = 0 /\ at = "off"
  /\ mode \in [Runs -> Modes] /\ manifest = [r \in Runs |-> Unknown]
  /\ failed = FALSE
  /\ queue = {} /\ events = {} /\ completed = {} /\ todo = {}
  /\ hand = NoTrade
  /\ booked = {} /\ unsaved = {} /\ lost = {} /\ faults = 0

Fault == faults < MaxFaults /\ faults' = faults + 1
-----------------------------------------------------------------------------
(* Rows *)

\* A mutation: the time is taken as it is written.
AsWritten(text) == text

\* _canonicalize_datetime_value: the same instant by the clock of UTC.
Canonical(text) == [clock |-> text.clock - text.offset, offset |-> 0]

\* The event tells the time of the session's zone; the row that is inserted
\* at once has been made canonical by _normalize_value before.
LocalText(t) == [clock |-> t + SessionOffset[t], offset |-> SessionOffset[t]]
EventOf(trade) == [trade EXCEPT !.exit = LocalText(@)]
RowOf(trade) == [trade EXCEPT !.exit = [clock |-> @, offset |-> 0]]
RowOfEvent(event) == [event EXCEPT !.exit = Canonical(@)]

\* A mutation: trades of every run are completed trades.
AnyRun(r) == TRUE

\* A mutation: the run has to be known as live.
KnownAsLive(r) == manifest[r] = "live"

\* _is_authoritative_completed_trade_locked
Authoritative(r) == manifest[r] \in {Unknown, "live"}

\* Rows that are there already are ignored: the table is a set.
_insert_completed_trade_locked(row) == completed' = completed \cup {row}

\* What query_completed_trades shows by default.
query_completed_trades == {row \in completed : manifest[row.run] \in {Unknown, "live"}}
-----------------------------------------------------------------------------
(* The start of a run *)

\* A process with an id of its own opens the store, which prunes the events
\* of too long ago.
StartRun ==
  /\ at = "off" /\ run < MaxRuns
  /\ run' = run + 1 /\ at' = "manifest"
  /\ \/ /\ failed' = FALSE /\ UNCHANGED faults
        /\ \E kept \in {{e \in events : InstantOf(e.exit) >= cutoff} : cutoff \in Instants} :
             /\ events' = kept
             /\ lost' = lost \cup {TradeOf(e) : e \in events \ kept}
     \/ Fault /\ failed' = TRUE /\ UNCHANGED <<events, lost>>
  /\ UNCHANGED <<mode, manifest, queue, completed, todo, hand, booked, unsaved>>

\* record_run_manifest, and the query of the backfill.
RecordManifest ==
  /\ at = "manifest" /\ at' = "backfill"
  /\ \/ /\ ~failed /\ CaptureProvenance
        /\ manifest' = [manifest EXCEPT ![run] = mode[run]]
        /\ UNCHANGED <<failed, faults>>
     \/ /\ ~failed /\ CaptureProvenance
        /\ Fault /\ failed' = TRUE /\ UNCHANGED manifest
     \/ /\ failed \/ ~CaptureProvenance
        /\ UNCHANGED <<manifest, failed, faults>>
  /\ todo' = IF failed' THEN {} ELSE events
  /\ UNCHANGED <<run, mode, queue, events, completed, hand, ghosts>>

\* Each row is committed by itself; an error ends the backfill.
BackfillRow ==
  /\ at = "backfill"
  /\ \E e \in todo :
       \/ /\ IF Authoritative(e.run)
             THEN _insert_completed_trade_locked(RowOfEvent(e))
             ELSE UNCHANGED completed
          /\ todo' = todo \ {e}
          /\ UNCHANGED <<failed, faults>>
       \/ /\ Fault /\ failed' = TRUE /\ todo' = {}
          /\ UNCHANGED completed
  /\ UNCHANGED <<process, manifest, queue, events, hand, ghosts>>

BackfillDone ==
  /\ at = "backfill" /\ todo = {}
  /\ at' = IF mode[run] = "live" THEN "engine" ELSE "trading"
  /\ UNCHANGED <<run, mode, manifest, failed, queue, events, completed, todo,
                 hand, ghosts, faults>>

\* The engine starts, and the manifest is recorded again with the account and
\* without data_mode; or it does not.
EngineStart ==
  /\ at = "engine"
  /\ \/ /\ at' = "trading"
        /\ manifest' \in {manifest} \cup
             (IF failed \/ ~CaptureProvenance THEN {}
              ELSE {[manifest EXCEPT ![run] = Unknown]})
        /\ UNCHANGED <<failed, faults>>
     \/ /\ at' = "trading" /\ ~failed /\ CaptureProvenance
        /\ Fault /\ failed' = TRUE /\ UNCHANGED manifest
     \/ at' = "stop" /\ UNCHANGED <<manifest, failed, faults>>
  /\ UNCHANGED <<run, mode, queue, events, completed, todo, hand, ghosts>>
-----------------------------------------------------------------------------
(* A trade is recorded *)

\* record_trade records the event first; a full queue drops it.
RecordEvent ==
  /\ at = "trading" /\ hand = NoTrade
  /\ Cardinality(booked) < MaxTrades
  /\ \E trade \in Trade :
       /\ trade.run = run /\ trade \notin booked
       /\ hand' = trade /\ booked' = booked \cup {trade}
       /\ \/ /\ ~failed
             /\ queue' = queue \cup {EventOf(trade)} /\ UNCHANGED lost
          \/ lost' = lost \cup {trade} /\ UNCHANGED queue
  /\ UNCHANGED <<process, manifest, failed, events, completed, todo, unsaved,
                 faults>>

record_completed_trade ==
  /\ at = "trading" /\ hand # NoTrade /\ hand' = NoTrade
  /\ \/ /\ ~failed /\ Authoritative(run)
        /\ _insert_completed_trade_locked(RowOf(hand))
        /\ UNCHANGED <<failed, unsaved, faults>>
     \/ /\ failed \/ ~Authoritative(run)
        /\ unsaved' = unsaved \cup {hand}
        /\ UNCHANGED <<failed, completed, faults>>
     \/ /\ ~failed /\ Fault /\ failed' = TRUE
        /\ unsaved' = unsaved \cup {hand} /\ UNCHANGED completed
  /\ UNCHANGED <<process, manifest, queue, events, todo, booked, lost>>

\* The worker writes what is queued; what fails it tries again.
WriteEvents ==
  /\ at \in {"trading", "stop"} /\ queue # {}
  /\ events' = events \cup queue /\ queue' = {}
  /\ UNCHANGED <<process, manifest, failed, completed, todo, hand, ghosts,
                 faults>>
-----------------------------------------------------------------------------
(* The end of a run *)

\* The runtime shuts down or the replay raises; a replay that comes to its
\* end calls for the rows of its own events before it stops.
Finish ==
  /\ at = "trading" /\ hand = NoTrade /\ at' = "stop"
  /\ \/ UNCHANGED <<events, queue, completed, failed, faults>>
     \/ /\ mode[run] = "replay" /\ ~failed
        /\ events' = events \cup queue /\ queue' = {}
        /\ LET own == {RowOfEvent(e) : e \in {e \in events' : e.run = run /\ Authoritative(run)}}
           IN \/ completed' = completed \cup own /\ UNCHANGED <<failed, faults>>
              \/ /\ Fault /\ failed' = TRUE
                 /\ completed' \in {completed \cup rows : rows \in SUBSET own}
  /\ UNCHANGED <<run, mode, manifest, todo, hand, ghosts>>

\* stop flushes the queue.
StopStore ==
  /\ at = "stop" /\ at' = "off" /\ queue' = {}
  /\ \/ events' = events \cup queue /\ UNCHANGED <<lost, faults>>
     \/ /\ Fault /\ UNCHANGED events
        /\ lost' = lost \cup {TradeOf(e) : e \in queue}
  /\ UNCHANGED <<run, mode, manifest, failed, completed, todo, hand, booked,
                 unsaved>>

\* The process ends wherever it is.
Crash ==
  /\ at # "off" /\ at' = "off" /\ Fault
  /\ queue' = {} /\ todo' = {} /\ hand' = NoTrade
  /\ lost' = lost \cup {TradeOf(e) : e \in queue}
  /\ unsaved' = unsaved \cup ({hand} \ {NoTrade})
  /\ UNCHANGED <<run, mode, manifest, failed, events, completed, booked>>

Next ==
  \/ StartRun \/ RecordManifest \/ BackfillRow \/ BackfillDone \/ EngineStart
  \/ RecordEvent \/ record_completed_trade \/ WriteEvents
  \/ Finish \/ StopStore \/ Crash

Spec == Init /\ [][Next]_vars
-----------------------------------------------------------------------------
(* Properties *)

\* A trade is counted once: that its event tells the time of another zone
\* than its row, which may be there already, leads to no second row.
CountedOnce ==
  \A a, b \in completed : TradeOf(a) = TradeOf(b) => a = b

\* No trade of a replay is ever among the completed ones, although its event
\* is among those that every later run looks through.
LiveTradesOnly ==
  \A row \in completed : mode[row.run] = "live"

\* Either record suffices: after the backfill of a later run a live trade is
\* shown, unless its row could not be inserted and its event is lost too.
EitherRecordSuffices ==
  at \in {"engine", "trading", "stop"} /\ ~failed =>
    \A trade \in booked :
      trade.run # run /\ mode[trade.run] = "live" =>
        \/ RowOf(trade) \in query_completed_trades
        \/ trade \in unsaved /\ trade \in lost
=============================================================================
