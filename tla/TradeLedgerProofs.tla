------------------------- MODULE TradeLedgerProofs -------------------------
(***************************************************************************)
(* The table of completed trades, for any numbers of runs, trades, errors  *)
(* and crashes, and any offsets of the session's time zone.                *)
(*                                                                         *)
(* Every row is canonical, so that two rows of one trade are one.  A run   *)
(* that replays has said so in its manifest before it leaves an event.     *)
(* Each trade has left two records or lost them, and the backfill turns    *)
(* the one into the other.                                                 *)
(***************************************************************************)
EXTENDS TradeLedger, TLAPS

RowsCanonical == \A row \in completed : row.exit.offset = 0

\* What the manifests tell of the runs.
ModesKnown ==
  /\ \A r \in Runs : mode[r] = "live" => manifest[r] \in {Unknown, "live"}
  /\ at = "engine" => mode[run] = "live"
ReplaysKnown ==
  /\ \A e \in events \cup queue : mode[e.run] = "replay" => manifest[e.run] = "replay"
  /\ at \notin {"off", "manifest"} /\ ~failed /\ mode[run] = "replay"
       => manifest[run] = "replay"

\* What is in memory is of the run that goes on.
OfThisRun ==
  /\ \A e \in queue : e.run = run
  /\ hand # NoTrade => hand.run = run
  /\ at \notin {"trading", "stop"} => queue = {}
  /\ \A e \in events : e.run <= run
  /\ todo \subseteq events
  /\ at # "backfill" => todo = {}

TwoRecords ==
  \A t \in booked :
    /\ RowOf(t) \in completed \/ t \in unsaved \/ t = hand
    /\ EventOf(t) \in events \cup queue \/ t \in lost

Backfilled ==
  at \in {"backfill", "engine", "trading", "stop"} /\ ~failed =>
    \A e \in events \ todo :
      mode[e.run] = "live" /\ e.run # run => RowOfEvent(e) \in completed
-----------------------------------------------------------------------------
(* Records *)

\* The two records of a trade.
LEMMA RecordsOfTrade ==
  ASSUME NEW t \in Trade
  PROVE  /\ RowOf(t) \in Record /\ RowOf(t).exit.offset = 0
         /\ RowOf(t).run = t.run
         /\ EventOf(t) \in Record /\ EventOf(t).run = t.run
         /\ InstantOf(EventOf(t).exit) \in Instants
         /\ TradeOf(EventOf(t)) = t /\ RowOfEvent(EventOf(t)) = RowOf(t)
<1>1. t.run \in Runs /\ t.exit \in Instants /\ t.detail \in Details
  BY DEF Trade
<1>2. t.exit \in Int /\ SessionOffset[t.exit] \in Int
  BY <1>1, LedgerConfig
<1>3. t = [run |-> t.run, exit |-> t.exit, detail |-> t.detail]
  BY DEF Trade
<1>4. RowOf(t) = [run |-> t.run, exit |-> [clock |-> t.exit, offset |-> 0],
                  detail |-> t.detail]
  BY <1>3 DEF RowOf
<1> DEFINE local == [clock  |-> t.exit + SessionOffset[t.exit],
                     offset |-> SessionOffset[t.exit]]
<1>5. EventOf(t) = [run |-> t.run, exit |-> local, detail |-> t.detail]
  BY <1>3 DEF EventOf, LocalText
<1>6. InstantOf(local) = t.exit /\ Canonical(local) = [clock |-> t.exit, offset |-> 0]
  BY <1>2 DEF InstantOf, Canonical
<1>7. local \in Text /\ [clock |-> t.exit, offset |-> 0] \in Text
  BY <1>2 DEF Text
<1> HIDE DEF local
<1>8. TradeOf(EventOf(t)) = [run |-> t.run, exit |-> t.exit, detail |-> t.detail]
  BY <1>5, <1>6 DEF TradeOf
<1>9. RowOfEvent(EventOf(t)) = RowOf(t)
  BY <1>4, <1>5, <1>6 DEF RowOfEvent
<1>10. QED
  BY <1>1, <1>3, <1>4, <1>5, <1>6, <1>7, <1>8, <1>9 DEF Record

\* What is made of an event.
LEMMA OfEvent ==
  ASSUME NEW e \in Record
  PROVE  /\ RowOfEvent(e) \in Record /\ RowOfEvent(e).exit.offset = 0
         /\ RowOfEvent(e).run = e.run
         /\ InstantOf(e.exit) \in Instants => TradeOf(e) \in Trade
<1>1. /\ e.run \in Runs /\ e.exit \in Text /\ e.detail \in Details
      /\ e = [run |-> e.run, exit |-> e.exit, detail |-> e.detail]
  BY DEF Record
<1>2. RowOfEvent(e) = [run |-> e.run, exit |-> Canonical(e.exit), detail |-> e.detail]
  BY <1>1 DEF RowOfEvent
<1>3. Canonical(e.exit) \in Text /\ Canonical(e.exit).offset = 0
  BY <1>1 DEF Canonical, Text
<1>4. TradeOf(e) = [run |-> e.run, exit |-> InstantOf(e.exit), detail |-> e.detail]
  BY <1>1 DEF TradeOf
<1>5. QED
  BY <1>1, <1>2, <1>3, <1>4 DEF Record, Trade

\* Canonical rows of one trade are one row.
LEMMA CanonicalRowsDiffer ==
  ASSUME NEW a \in Record, NEW b \in Record,
         a.exit.offset = 0, b.exit.offset = 0, TradeOf(a) = TradeOf(b)
  PROVE  a = b
<1>1. /\ a = [run |-> a.run, exit |-> a.exit, detail |-> a.detail]
      /\ b = [run |-> b.run, exit |-> b.exit, detail |-> b.detail]
      /\ a.exit \in Text /\ b.exit \in Text
  BY DEF Record
<1>2. ASSUME NEW e \in Record
      PROVE  /\ TradeOf(e).run = e.run /\ TradeOf(e).exit = InstantOf(e.exit)
             /\ TradeOf(e).detail = e.detail
  <2>1. e = [run |-> e.run, exit |-> e.exit, detail |-> e.detail]
    BY DEF Record
  <2>2. TradeOf(e) = [run |-> e.run, exit |-> InstantOf(e.exit), detail |-> e.detail]
    BY <2>1 DEF TradeOf
  <2>3. QED
    BY <2>2
<1>3. a.run = b.run /\ InstantOf(a.exit) = InstantOf(b.exit) /\ a.detail = b.detail
  BY <1>2
<1>4. /\ a.exit = [clock |-> a.exit.clock, offset |-> a.exit.offset]
      /\ b.exit = [clock |-> b.exit.clock, offset |-> b.exit.offset]
      /\ a.exit.clock \in Int /\ b.exit.clock \in Int
  BY <1>1 DEF Text
<1>5. a.exit.clock = b.exit.clock
  BY <1>3, <1>4 DEF InstantOf
<1>6. QED
  BY <1>1, <1>3, <1>4, <1>5
-----------------------------------------------------------------------------
(* Types *)

\* Whether the store is silent, and how many faults there were.
LEMMA StepFaults ==
  TypeOK /\ [Next]_vars => failed' \in BOOLEAN /\ faults' \in 0..MaxFaults
<1> SUFFICES ASSUME TypeOK, [Next]_vars
             PROVE  failed' \in BOOLEAN /\ faults' \in 0..MaxFaults
  OBVIOUS
<1>1. failed' \in BOOLEAN
  <2>1. failed' = FALSE \/ failed' = TRUE \/ failed' = failed
    BY Zenon DEF Next, StartRun, RecordManifest, BackfillRow, BackfillDone, EngineStart,
      RecordEvent, record_completed_trade, WriteEvents, Finish, StopStore, Crash, vars
  <2>2. QED
    BY <2>1, Zenon DEF TypeOK
<1>2. faults' = faults \/ Fault
  BY Zenon DEF Next, StartRun, RecordManifest, BackfillRow, BackfillDone, EngineStart,
    RecordEvent, record_completed_trade, WriteEvents, Finish, StopStore, Crash, vars
<1>3. faults \in 0..MaxFaults /\ MaxFaults \in Nat
  BY LedgerConfig DEF TypeOK
<1>4. QED
  BY <1>1, <1>2, <1>3 DEF Fault

LEMMA InitTypeOK == Init => TypeOK
<1> SUFFICES ASSUME Init PROVE TypeOK
  OBVIOUS
<1>1. failed \in BOOLEAN
  BY Zenon DEF Init
<1>2. run \in 0..MaxRuns /\ faults \in 0..MaxFaults
  BY LedgerConfig DEF Init
<1>3. manifest \in [Runs -> Modes \cup {Unknown}]
  BY DEF Init
<1>4. QED
  BY <1>1, <1>2, <1>3 DEF Init, TypeOK

LEMMA StepTypeOK == TypeOK /\ [Next]_vars => TypeOK'
<1> SUFFICES ASSUME TypeOK, [Next]_vars PROVE TypeOK'
  OBVIOUS
<1>0. failed' \in BOOLEAN /\ faults' \in 0..MaxFaults
  BY StepFaults
<1>1. CASE StartRun
  <2>1. /\ run' = run + 1 /\ run < MaxRuns /\ at' = "manifest"
        /\ UNCHANGED <<mode, manifest, queue, completed, todo, hand, booked, unsaved>>
        /\ events' \subseteq events
    BY <1>1 DEF StartRun
  <2>2. lost' \subseteq Trade
    <3>1. \A e \in events : TradeOf(e) \in Trade
      BY OfEvent DEF TypeOK
    <3>2. lost' = lost \/ \E kept \in SUBSET events :
            lost' = lost \cup {TradeOf(e) : e \in events \ kept}
      BY <1>1 DEF StartRun
    <3>3. QED
      BY <3>1, <3>2 DEF TypeOK
  <2>3. run' \in 0..MaxRuns /\ run' # 0
    BY <2>1, LedgerConfig DEF TypeOK
  <2>4. /\ events' \subseteq Record
        /\ \A e \in events' \cup queue' : InstantOf(e.exit) \in Instants
    BY <2>1 DEF TypeOK
  <2>5. hand' = NoTrade
    BY <1>1, <2>1 DEF StartRun, TypeOK
  <2>6. QED
    BY <2>1, <2>2, <2>3, <2>4, <2>5, <1>0 DEF TypeOK
<1>2. CASE RecordManifest
  BY <1>2, <1>0 DEF TypeOK, RecordManifest, ghosts, Runs, Modes
<1>3. CASE BackfillRow
  BY <1>3, <1>0, OfEvent DEF TypeOK, BackfillRow, _insert_completed_trade_locked,
    process, ghosts
<1>4. CASE BackfillDone
  BY <1>4, <1>0 DEF TypeOK, BackfillDone, ghosts
<1>5. CASE EngineStart
  BY <1>5, <1>0 DEF TypeOK, EngineStart, ghosts
<1>6. CASE RecordEvent
  BY <1>6, <1>0, RecordsOfTrade DEF TypeOK, RecordEvent, process
<1>7. CASE record_completed_trade
  BY <1>7, <1>0, RecordsOfTrade DEF TypeOK, record_completed_trade,
    _insert_completed_trade_locked, process
<1>8. CASE WriteEvents
  BY <1>8, <1>0 DEF TypeOK, WriteEvents, process, ghosts
<1>9. CASE Finish
  BY <1>9, <1>0, OfEvent DEF TypeOK, Finish, ghosts
<1>10. CASE StopStore
  BY <1>10, <1>0, OfEvent DEF TypeOK, StopStore
<1>11. CASE Crash
  BY <1>11, <1>0, OfEvent DEF TypeOK, Crash
<1>12. CASE UNCHANGED vars
  BY <1>12 DEF TypeOK, vars, process, ghosts
<1>13. QED
  BY <1>1, <1>2, <1>3, <1>4, <1>5, <1>6, <1>7, <1>8, <1>9, <1>10, <1>11, <1>12
    DEF Next

\* Everything the table is made of keeps its type, for any number of runs,
\* trades and faults, and every table of offsets.
THEOREM TypeCorrect == Spec => []TypeOK
BY InitTypeOK, StepTypeOK, PTL DEF Spec
-----------------------------------------------------------------------------
(* Rows *)

LEMMA StepRowsCanonical ==
  TypeOK /\ RowsCanonical /\ [Next]_vars => RowsCanonical'
<1> SUFFICES ASSUME TypeOK, RowsCanonical, [Next]_vars PROVE RowsCanonical'
  OBVIOUS
<1>1. CASE BackfillRow
  BY <1>1, OfEvent DEF TypeOK, RowsCanonical, BackfillRow, _insert_completed_trade_locked
<1>2. CASE record_completed_trade
  BY <1>2, RecordsOfTrade DEF TypeOK, RowsCanonical, record_completed_trade,
    _insert_completed_trade_locked
<1>3. CASE Finish
  BY <1>3, OfEvent DEF TypeOK, RowsCanonical, Finish
<1>4. CASE UNCHANGED completed
  BY <1>4 DEF RowsCanonical
<1>5. QED
  BY <1>1, <1>2, <1>3, <1>4 DEF Next, StartRun, RecordManifest, BackfillDone,
    EngineStart, RecordEvent, WriteEvents, StopStore, Crash, vars

\* A trade has one row, whichever of its records it was made of.
THEOREM TradesCountedOnce == Spec => []CountedOnce
<1>1. Init => RowsCanonical
  BY DEF Init, RowsCanonical
<1>2. TypeOK /\ RowsCanonical => CountedOnce
  BY CanonicalRowsDiffer DEF TypeOK, RowsCanonical, CountedOnce
<1>3. QED
  BY <1>1, <1>2, TypeCorrect, StepRowsCanonical, PTL DEF Spec
-----------------------------------------------------------------------------
(* Manifests *)

LEMMA StepModesKnown == TypeOK /\ ModesKnown /\ [Next]_vars => ModesKnown'
<1> SUFFICES ASSUME TypeOK, ModesKnown, [Next]_vars PROVE ModesKnown'
  OBVIOUS
<1>1. CASE RecordManifest
  BY <1>1 DEF TypeOK, ModesKnown, RecordManifest, Unknown
<1>2. CASE BackfillDone
  BY <1>2 DEF TypeOK, ModesKnown, BackfillDone
<1>3. CASE EngineStart
  BY <1>3 DEF TypeOK, ModesKnown, EngineStart, Unknown
<1>4. CASE mode' = mode /\ manifest' = manifest /\ at' # "engine"
  BY <1>4 DEF ModesKnown
<1>5. CASE UNCHANGED <<run, at, mode, manifest>>
  BY <1>5 DEF ModesKnown
<1>6. QED
  BY <1>1, <1>2, <1>3, <1>4, <1>5 DEF Next, StartRun, BackfillRow, RecordEvent,
    record_completed_trade, WriteEvents, Finish, StopStore, Crash, vars, process

LEMMA StepOfThisRun == TypeOK /\ OfThisRun /\ [Next]_vars => OfThisRun'
<1> SUFFICES ASSUME TypeOK, OfThisRun, [Next]_vars PROVE OfThisRun'
  OBVIOUS
<1>0. run \in Int /\ \A e \in events \cup queue : e.run \in Int
  BY LedgerConfig DEF TypeOK, Record, Runs
<1>1. CASE StartRun
  <2>1. /\ run' = run + 1 /\ at' = "manifest" /\ events' \subseteq events
        /\ UNCHANGED <<queue, todo, hand>> /\ queue = {} /\ todo = {} /\ hand = NoTrade
    BY <1>1 DEF StartRun, OfThisRun, TypeOK
  <2>2. QED
    BY <2>1, <1>0 DEF OfThisRun
<1>2. CASE RecordManifest
  BY <1>2 DEF OfThisRun, RecordManifest
<1>3. CASE BackfillRow
  BY <1>3 DEF OfThisRun, BackfillRow, process
<1>4. CASE BackfillDone
  BY <1>4 DEF OfThisRun, BackfillDone
<1>5. CASE EngineStart
  BY <1>5 DEF OfThisRun, EngineStart
<1>6. CASE RecordEvent
  <2>1. /\ UNCHANGED <<run, at, events, todo>> /\ at = "trading"
        /\ \E t \in Trade : /\ t.run = run /\ hand' = t
                            /\ queue' \subseteq queue \cup {EventOf(t)}
    BY <1>6 DEF RecordEvent, process
  <2>2. QED
    BY <2>1, RecordsOfTrade DEF OfThisRun
<1>7. CASE record_completed_trade
  BY <1>7 DEF OfThisRun, record_completed_trade, process
<1>8. CASE WriteEvents
  BY <1>8, <1>0 DEF OfThisRun, WriteEvents, process
<1>9. CASE Finish
  BY <1>9, <1>0 DEF OfThisRun, Finish
<1>10. CASE StopStore
  BY <1>10, <1>0 DEF OfThisRun, StopStore, TypeOK
<1>11. CASE Crash
  BY <1>11 DEF OfThisRun, Crash
<1>12. CASE UNCHANGED vars
  BY <1>12 DEF OfThisRun, vars, process
<1>13. QED
  BY <1>1, <1>2, <1>3, <1>4, <1>5, <1>6, <1>7, <1>8, <1>9, <1>10, <1>11, <1>12
    DEF Next
-----------------------------------------------------------------------------
(* Two records *)

LEMMA StepTwoRecords ==
  TypeOK /\ OfThisRun /\ TwoRecords /\ [Next]_vars => TwoRecords'
<1> SUFFICES ASSUME TypeOK, OfThisRun, TwoRecords, [Next]_vars PROVE TwoRecords'
  OBVIOUS
<1>0. \A t \in booked : t \in Trade /\ t # NoTrade /\ TradeOf(EventOf(t)) = t
  BY RecordsOfTrade, LedgerConfig DEF TypeOK
<1>1. CASE StartRun
  <2>1. /\ UNCHANGED <<queue, completed, hand, booked, unsaved>>
        /\ \/ UNCHANGED <<events, lost>>
           \/ lost' = lost \cup {TradeOf(e) : e \in events \ events'}
    BY <1>1 DEF StartRun
  <2>2. CASE UNCHANGED <<events, lost>>
    BY <2>1, <2>2 DEF TwoRecords
  <2>3. CASE lost' = lost \cup {TradeOf(e) : e \in events \ events'}
    BY <2>1, <2>3, <1>0 DEF TwoRecords
  <2>4. QED
    BY <2>1, <2>2, <2>3
<1>2. CASE RecordManifest
  BY <1>2 DEF TwoRecords, RecordManifest, ghosts
<1>3. CASE BackfillRow
  BY <1>3 DEF TwoRecords, BackfillRow, _insert_completed_trade_locked, ghosts
<1>4. CASE BackfillDone
  BY <1>4 DEF TwoRecords, BackfillDone, ghosts
<1>5. CASE EngineStart
  BY <1>5 DEF TwoRecords, EngineStart, ghosts
<1>6. CASE RecordEvent
  <2>1. PICK trade \in Trade :
          /\ hand' = trade /\ booked' = booked \cup {trade}
          /\ \/ queue' = queue \cup {EventOf(trade)} /\ UNCHANGED lost
             \/ lost' = lost \cup {trade} /\ UNCHANGED queue
    BY <1>6 DEF RecordEvent
  <2>2. /\ hand = NoTrade /\ UNCHANGED <<events, completed, unsaved>>
    BY <1>6 DEF RecordEvent
  <2>3. QED
    BY <2>1, <2>2, <1>0 DEF TwoRecords
<1>7. CASE record_completed_trade
  <2>1. /\ UNCHANGED <<queue, events, booked, lost>> /\ hand # NoTrade
        /\ \/ completed' = completed \cup {RowOf(hand)} /\ UNCHANGED unsaved
           \/ unsaved' = unsaved \cup {hand} /\ UNCHANGED completed
    BY <1>7 DEF record_completed_trade, _insert_completed_trade_locked
  <2>2. QED
    BY <2>1 DEF TwoRecords
<1>8. CASE WriteEvents
  BY <1>8 DEF TwoRecords, WriteEvents, ghosts
<1>9. CASE Finish
  <2>1. /\ UNCHANGED <<hand, booked, unsaved, lost>> /\ completed \subseteq completed'
        /\ events' \cup queue' = events \cup queue
    BY <1>9 DEF Finish, ghosts
  <2>2. QED
    BY <2>1 DEF TwoRecords
<1>10. CASE StopStore
  <2>1. /\ UNCHANGED <<hand, completed, booked, unsaved>> /\ queue' = {}
        /\ \/ events' = events \cup queue /\ UNCHANGED lost
           \/ UNCHANGED events /\ lost' = lost \cup {TradeOf(e) : e \in queue}
    BY <1>10 DEF StopStore
  <2>2. QED
    BY <2>1, <1>0 DEF TwoRecords
<1>11. CASE Crash
  <2>1. /\ UNCHANGED <<completed, booked, events>> /\ hand' = NoTrade
        /\ lost' = lost \cup {TradeOf(e) : e \in queue}
        /\ unsaved' = unsaved \cup ({hand} \ {NoTrade})
    BY <1>11 DEF Crash
  <2>2. QED
    BY <2>1, <1>0 DEF TwoRecords
<1>12. CASE UNCHANGED vars
  BY <1>12 DEF TwoRecords, vars, ghosts
<1>13. QED
  BY <1>1, <1>2, <1>3, <1>4, <1>5, <1>6, <1>7, <1>8, <1>9, <1>10, <1>11, <1>12
    DEF Next

LEMMA StepBackfilled ==
  TypeOK /\ ModesKnown /\ OfThisRun /\ Backfilled /\ [Next]_vars => Backfilled'
<1> SUFFICES ASSUME TypeOK, ModesKnown, OfThisRun, Backfilled, [Next]_vars
             PROVE  Backfilled'
  OBVIOUS
<1>1. CASE at' \in {"off", "manifest"}
  BY <1>1 DEF Backfilled
<1>2. CASE RecordManifest
  BY <1>2 DEF Backfilled, RecordManifest
<1>3. CASE BackfillRow
  <2>1. PICK e \in todo :
          \/ /\ IF Authoritative(e.run) THEN completed' = completed \cup {RowOfEvent(e)}
                ELSE UNCHANGED completed
             /\ todo' = todo \ {e} /\ UNCHANGED failed
          \/ failed' = TRUE
    BY <1>3 DEF BackfillRow, _insert_completed_trade_locked
  <2>2. mode[e.run] = "live" => Authoritative(e.run)
    BY DEF TypeOK, Record, ModesKnown, Authoritative
  <2>3. at = "backfill" /\ UNCHANGED <<run, mode, events>>
    BY <1>3 DEF BackfillRow, process
  <2>4. QED
    BY <2>1, <2>2, <2>3 DEF Backfilled
<1>4. CASE UNCHANGED <<run, mode, failed, events, completed, todo>>
           /\ (at \in {"off", "manifest"} => at' = at)
  BY <1>4 DEF Backfilled, TypeOK
<1>5. CASE EngineStart
  BY <1>5 DEF Backfilled, EngineStart
<1>6. CASE record_completed_trade
  <2>1. /\ UNCHANGED <<run, mode, at, events, todo>> /\ completed \subseteq completed'
        /\ (failed => failed')
    BY <1>6 DEF record_completed_trade, _insert_completed_trade_locked, process
  <2>2. QED
    BY <2>1 DEF Backfilled
<1>7. CASE WriteEvents \/ Finish
  <2>1. /\ UNCHANGED <<run, mode, todo>> /\ completed \subseteq completed'
        /\ (failed => failed')
        /\ events' \subseteq events \cup queue /\ at \in {"trading", "stop"}
    BY <1>7 DEF WriteEvents, Finish, process
  <2>2. \A e \in queue : e.run = run
    BY DEF OfThisRun
  <2>3. QED
    BY <2>1, <2>2 DEF Backfilled
<1>8. QED
  BY <1>1, <1>2, <1>3, <1>4, <1>5, <1>6, <1>7 DEF Next, StartRun, BackfillDone,
    RecordEvent, StopStore, Crash, vars, process

\* What the table shows after a backfill: the trades of earlier runs, but for
\* those both records of which are gone.
THEOREM EitherRecordKept == Spec => []EitherRecordSuffices
<1>1. Init => ModesKnown /\ OfThisRun /\ TwoRecords /\ Backfilled
  BY DEF Init, ModesKnown, OfThisRun, TwoRecords, Backfilled, Unknown
<1>2. TypeOK /\ ModesKnown /\ OfThisRun /\ TwoRecords /\ Backfilled
        => EitherRecordSuffices
  <2> SUFFICES ASSUME TypeOK, ModesKnown, OfThisRun, TwoRecords, Backfilled,
                      at \in {"engine", "trading", "stop"}, ~failed,
                      NEW t \in booked, t.run # run, mode[t.run] = "live",
                      ~(t \in unsaved /\ t \in lost)
               PROVE  RowOf(t) \in query_completed_trades
    BY DEF EitherRecordSuffices
  <2>1. t \in Trade /\ t.run \in Runs
    BY DEF TypeOK, Trade
  <2>2. t # hand
    BY <2>1, LedgerConfig DEF OfThisRun
  <2>3. RowOf(t) \in completed
    <3>1. CASE t \notin lost
      <4>1. EventOf(t) \in events /\ EventOf(t) \notin todo
        BY <3>1, <2>1, RecordsOfTrade DEF TwoRecords, OfThisRun
      <4>2. QED
        BY <4>1, <2>1, RecordsOfTrade DEF Backfilled
    <3>2. QED
      BY <3>1, <2>2 DEF TwoRecords
  <2>4. QED
    BY <2>3, <2>1, RecordsOfTrade DEF query_completed_trades, ModesKnown
<1>3. QED
  BY <1>1, <1>2, TypeCorrect, StepModesKnown, StepOfThisRun, StepTwoRecords,
    StepBackfilled, PTL DEF Spec
-----------------------------------------------------------------------------
(* Replays *)

LEMMA StepReplaysKnown ==
  ASSUME CaptureProvenance
  PROVE  TypeOK /\ ModesKnown /\ OfThisRun /\ ReplaysKnown /\ [Next]_vars
           => ReplaysKnown'
<1> SUFFICES ASSUME TypeOK, ModesKnown, OfThisRun, ReplaysKnown, [Next]_vars
             PROVE  ReplaysKnown'
  OBVIOUS
<1>0. at # "off" => run \in Runs
  BY LedgerConfig DEF TypeOK, Runs
<1>e. \A e \in events \cup queue : e.run \in Runs
  BY DEF TypeOK, Record
<1>1. CASE StartRun
  <2>1. /\ UNCHANGED <<mode, manifest, queue>> /\ events' \subseteq events
        /\ at' = "manifest"
    BY <1>1 DEF StartRun
  <2>2. QED
    BY <2>1 DEF ReplaysKnown
<1>2. CASE RecordManifest
  <2>1. /\ UNCHANGED <<run, mode, queue, events>> /\ at = "manifest" /\ run \in Runs
        /\ \/ manifest' = [manifest EXCEPT ![run] = mode[run]]
           \/ UNCHANGED manifest /\ failed'
    BY <1>2, <1>0 DEF RecordManifest
  <2>2. \A r \in Runs : manifest'[r] = manifest[r] \/ (r = run /\ manifest'[r] = mode[r])
    BY <2>1 DEF TypeOK
  <2>3. manifest'[run] = mode[run] \/ failed'
    BY <2>1 DEF TypeOK
  <2>4. QED
    BY <2>1, <2>2, <2>3, <1>e DEF ReplaysKnown
<1>3. CASE BackfillRow
  BY <1>3 DEF ReplaysKnown, BackfillRow, process
<1>4. CASE BackfillDone
  BY <1>4 DEF ReplaysKnown, BackfillDone
<1>5. CASE EngineStart
  <2>1. /\ UNCHANGED <<run, mode, queue, events>> /\ run \in Runs /\ mode[run] = "live"
        /\ manifest' \in {manifest, [manifest EXCEPT ![run] = Unknown]}
    BY <1>5, <1>0 DEF EngineStart, ModesKnown
  <2>2. \A r \in Runs : r # run => manifest'[r] = manifest[r]
    BY <2>1 DEF TypeOK
  <2>3. QED
    BY <2>1, <2>2, <1>e DEF ReplaysKnown
<1>6. CASE RecordEvent
  <2>1. /\ UNCHANGED <<process, manifest, failed, events>> /\ at = "trading"
        /\ \/ UNCHANGED queue
           \/ ~failed /\ \E t \in Trade : t.run = run /\ queue' = queue \cup {EventOf(t)}
    BY <1>6 DEF RecordEvent
  <2>2. QED
    BY <2>1, RecordsOfTrade DEF ReplaysKnown, process
<1>7. CASE record_completed_trade
  BY <1>7 DEF ReplaysKnown, record_completed_trade, process
<1>8. CASE WriteEvents
  BY <1>8 DEF ReplaysKnown, WriteEvents, process
<1>9. CASE Finish
  <2>1. /\ UNCHANGED <<run, mode, manifest>> /\ at = "trading" /\ (failed => failed')
        /\ events' \cup queue' = events \cup queue
    BY <1>9 DEF Finish
  <2>2. QED
    BY <2>1 DEF ReplaysKnown
<1>10. CASE StopStore
  BY <1>10 DEF ReplaysKnown, StopStore
<1>11. CASE Crash
  BY <1>11 DEF ReplaysKnown, Crash
<1>12. CASE UNCHANGED vars
  BY <1>12 DEF ReplaysKnown, vars, process
<1>13. QED
  BY <1>1, <1>2, <1>3, <1>4, <1>5, <1>6, <1>7, <1>8, <1>9, <1>10, <1>11, <1>12
    DEF Next

LEMMA StepLiveTrades ==
  TypeOK /\ OfThisRun /\ ReplaysKnown /\ LiveTradesOnly /\ [Next]_vars
    => LiveTradesOnly'
<1> SUFFICES ASSUME TypeOK, OfThisRun, ReplaysKnown, LiveTradesOnly, [Next]_vars
             PROVE  LiveTradesOnly'
  OBVIOUS
<1>0. /\ \A r \in Runs : mode[r] = "live" \/ mode[r] = "replay"
      /\ \A r \in Runs : manifest[r] = "replay" => ~Authoritative(r)
  BY DEF TypeOK, Modes, Authoritative, Unknown
<1>1. CASE BackfillRow
  <2>1. /\ UNCHANGED mode
        /\ \/ UNCHANGED completed
           \/ \E e \in todo : Authoritative(e.run)
                              /\ completed' = completed \cup {RowOfEvent(e)}
    BY <1>1 DEF BackfillRow, _insert_completed_trade_locked, process
  <2>2. \A e \in todo : e \in Record /\ e.run \in Runs /\ e \in events
    BY DEF TypeOK, OfThisRun, Record
  <2>3. QED
    BY <2>1, <2>2, <1>0, OfEvent DEF LiveTradesOnly, ReplaysKnown
<1>2. CASE record_completed_trade
  <2>1. /\ UNCHANGED mode
        /\ \/ UNCHANGED completed
           \/ /\ hand # NoTrade /\ ~failed /\ at = "trading" /\ Authoritative(run)
              /\ completed' = completed \cup {RowOf(hand)}
    BY <1>2 DEF record_completed_trade, _insert_completed_trade_locked, process
  <2>2. hand # NoTrade => hand \in Trade /\ hand.run = run /\ run \in Runs
    BY DEF TypeOK, OfThisRun, Trade
  <2>3. QED
    BY <2>1, <2>2, <1>0, RecordsOfTrade DEF LiveTradesOnly, ReplaysKnown
<1>3. CASE Finish
  <2>1. /\ UNCHANGED mode
        /\ \/ UNCHANGED completed
           \/ /\ mode[run] = "replay" /\ ~failed /\ at = "trading"
              /\ completed' \subseteq completed \cup
                   {RowOfEvent(e) : e \in {e \in events' : Authoritative(run)}}
    BY <1>3 DEF Finish
  <2>2. run \in Runs \/ at = "off"
    BY LedgerConfig DEF TypeOK, Runs
  <2>3. QED
    BY <2>1, <2>2, <1>0 DEF LiveTradesOnly, ReplaysKnown
<1>4. CASE UNCHANGED <<mode, completed>>
  BY <1>4 DEF LiveTradesOnly
<1>5. QED
  BY <1>1, <1>2, <1>3, <1>4 DEF Next, StartRun, RecordManifest, BackfillDone,
    EngineStart, RecordEvent, WriteEvents, StopStore, Crash, vars, process

\* No replay is ever counted, where manifests are recorded.
THEOREM OnlyLiveTrades ==
  ASSUME CaptureProvenance
  PROVE  Spec => []LiveTradesOnly
<1>1. Init => ModesKnown /\ OfThisRun /\ ReplaysKnown /\ LiveTradesOnly
  BY DEF Init, ModesKnown, OfThisRun, ReplaysKnown, LiveTradesOnly, Unknown
<1>2. TypeOK /\ ModesKnown /\ OfThisRun /\ ReplaysKnown /\ [Next]_vars => ReplaysKnown'
  BY StepReplaysKnown
<1>3. QED
  BY <1>1, <1>2, TypeCorrect, StepModesKnown, StepOfThisRun, StepLiveTrades, PTL
    DEF Spec
=============================================================================
