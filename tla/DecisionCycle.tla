--------------------------- MODULE DecisionCycle ---------------------------
(***************************************************************************)
(* src/engine/trading_engine.py: on_market_data, BarAggregator and         *)
(* _evaluate_current_state, which bring together the bars, the hot zones,  *)
(* the calendar, the matrix and the position.                              *)
(*                                                                         *)
(* The first tick of a minute completes the bar of an earlier one, and the *)
(* decision is made for the minute of that bar.  A silent feed leaves many *)
(* minutes between the two.  Orders, broker and risk manager are modelled  *)
(* elsewhere: here an entry may fill, be cancelled or be refused, and a    *)
(* flatten may fail.                                                       *)
(***************************************************************************)
EXTENDS HotZoneScheduler, EventProvider, DecisionMatrix

CONSTANTS
  Markets,    \* the markets an evaluation may see
  Calendars,  \* the events the calendar file may hold
  LiveZones,  \* live_entry_zones
  GateEnabled, \* launch_gate_enabled
  HardFlat,   \* session_exit_hard_flat_time, and its time zone
  HardFlatOffset,
  SessionExitEnabled, \* session_exit_enabled
  MaxGap,     \* bound of the model: minutes between two ticks
  Horizon,    \* bound of the model: the last minute
  MaxEdits    \* bound of the model: edits of the calendar and the flag

ASSUME CycleConfig ==
  /\ Markets \subseteq Market /\ TradeOutside \in BOOLEAN
  /\ GateEnabled \in BOOLEAN /\ SessionExitEnabled \in BOOLEAN
  /\ HardFlat \in 0..(Day - 1) /\ HardFlatOffset \in Int
  /\ MaxGap \in Nat /\ Horizon \in Nat /\ MaxEdits \in Nat
  /\ \A events \in Calendars : \A e \in events : e.at \in Int /\ e.impact \in Impacts
\* Every zone has a name: "" is that of no entry.
ASSUME LiveZonesAreNamed == "" \notin LiveZones

None == -1

VARIABLES
  now,         \* the clock, in minutes
  bucket,      \* _bucket_start: the minute of the bar in progress, or None
  bar,         \* the minute of the last bar in _bars, or None
  file,        \* the calendar file
  halt,        \* mtime of the emergency flag, or Never
  provider,    \* what the event provider remembers
  position,    \* sign of _last_position
  entry_at,    \* _position_entry_time
  entry_zone,  \* _position_entry_zone, or the zone of the pending entry
  order,       \* side of the entry order that works, 0 if none
  closing,     \* the position is being flattened
  adopted,     \* ghost: what there is was taken over from the broker at a start
  edits,       \* ghost: edits so far
  age          \* ghost: minutes since the last edit of the file, up to a refresh

outside == <<file, halt, edits>>
book == <<position, entry_at, entry_zone, order, closing, adopted>>
vars == <<now, bucket, bar, outside, age, provider, book>>

Init ==
  /\ now = 0 /\ bucket = None /\ bar = None
  /\ file \in {Missing} \cup [events : Calendars, mtime : {0}]
  /\ halt = Never /\ provider = NoProvider
  /\ position = 0 /\ entry_at = None /\ entry_zone = ""
  /\ order = 0 /\ closing = FALSE /\ adopted = FALSE
  /\ edits = 0 /\ age = RefreshMinutes
-----------------------------------------------------------------------------
(* Evaluation *)

\* Trading goes on outside of the zones under the name of a zone of its own.
ZoneName(zone) == _effective_zone(zone).name
_zone_live_entry_allowed(zone) == ~GateEnabled \/ ZoneName(zone) \in LiveZones

\* A position of a live zone is closed once its session is over.
_should_flatten_for_session_policy(t) ==
  /\ position # 0 /\ SessionExitEnabled
  /\ LiveZones = {} \/ entry_zone \in LiveZones
  /\ (t + HardFlatOffset) % Day >= HardFlat

Held(t) == IF entry_at = None THEN 0 ELSE t - entry_at

_flatten_position ==
  /\ closing' = (position # 0 \/ closing)
  /\ UNCHANGED <<position, entry_at, entry_zone, order, adopted>>

\* The entry order is placed, or refused: by the risk manager, the guard or
\* the broker.
PlaceEntry(side, zone, allow_entries) ==
  /\ order' \in IF /\ _zone_live_entry_allowed(zone) /\ allow_entries
                   /\ position = 0 /\ order = 0
                THEN {order, side} ELSE {order}
  /\ entry_zone' = IF order' # order THEN ZoneName(zone) ELSE entry_zone
  /\ adopted' = (adopted /\ order' = order)
  /\ UNCHANGED <<position, entry_at, closing>>

\* The state is evaluated for the minute t of the last bar.  The risk manager may
\* want the position flattened (should_flatten_position) whatever the matrix
\* says; its circuit breaker does nothing else, or refuses the entry.
_evaluate_current_state(t, allow_entries) ==
  /\ provider' = ProviderAfter(provider, file, halt, now', t)
  /\ \E zone \in {get_current_zone(t)}, context \in {get_context(provider', halt, t)},
        session_exit \in {_should_flatten_for_session_policy(t)} :
       \E action \in
         {evaluate(position, zone, m, context, Held(t), "normal", allow_entries) :
            m \in Markets} :
         \/ position # 0 /\ _flatten_position
         \/ session_exit /\ _flatten_position
         \/ /\ ~session_exit /\ action = "FLAT"
            /\ _flatten_position
         \/ /\ ~session_exit /\ action \in {"NO_TRADE", "HOLD"}
            /\ UNCHANGED book
         \/ /\ ~session_exit /\ action = "LONG"
            /\ PlaceEntry(1, zone, allow_entries)
         \/ /\ ~session_exit /\ action = "SHORT"
            /\ PlaceEntry(-1, zone, allow_entries)
-----------------------------------------------------------------------------
(* Ticks *)

\* BarAggregator.update: a tick of a later minute completes the bar of the
\* bucket.
Completes(t) == bucket # None /\ t > bucket
update(t) ==
  /\ bucket' = IF bucket = None \/ t > bucket THEN t ELSE bucket
  /\ bar' = IF Completes(t) THEN bucket ELSE bar

\* The quote crossed the stop or the target of a position that has no working
\* exits: it is flattened, and a bar that was completed is not evaluated.
TickRisk(t) ==
  /\ position # 0 /\ _flatten_position
  /\ UNCHANGED provider

\* Every tick of a position is evaluated for exits, for the last bar there is.
TickOnly(t) ==
  /\ ~Completes(t)
  /\ IF position # 0 /\ bar # None THEN _evaluate_current_state(bar, FALSE)
     ELSE UNCHANGED <<provider, book>>

\* locked_out: the fail safe of the watchdogs.
BarCompleted(t) ==
  /\ Completes(t)
  /\ \E locked_out \in BOOLEAN : _evaluate_current_state(bucket, ~locked_out)

\* A tick that is out of order is, to the bars and the decision, one of the
\* minute that goes on.
on_market_data ==
  \E t \in now..(now + MaxGap) :
    /\ t <= Horizon /\ now' = t
    /\ age' = IF age + t - now > RefreshMinutes THEN RefreshMinutes ELSE age + t - now
    /\ update(t)
    /\ TickRisk(t) \/ TickOnly(t) \/ BarCompleted(t)
    /\ UNCHANGED outside
-----------------------------------------------------------------------------
(* What else happens: the broker's answers, a restart, the operator *)

\* A mutation: the zone of the moment comes before the one of the entry.
FillsInZone ==
  /\ order # 0 /\ position = 0
  /\ position' = order /\ order' = 0 /\ entry_at' = now
  /\ entry_zone' = ZoneName(get_current_zone(IF bar = None THEN now ELSE bar))
  /\ UNCHANGED <<now, bucket, bar, outside, age, provider, closing, adopted>>
\* The position is of the zone its entry was decided in.  An entry order taken
\* over at a start has none: then of the zone of the last bar.
EntryFills ==
  /\ order # 0 /\ position = 0
  /\ position' = order /\ order' = 0 /\ entry_at' = now
  /\ entry_zone' = IF entry_zone # "" THEN entry_zone
                   ELSE ZoneName(get_current_zone(IF bar = None THEN now ELSE bar))
  /\ UNCHANGED <<now, bucket, bar, outside, age, provider, closing, adopted>>
EntryCancelled ==
  /\ order # 0 /\ order' = 0 /\ adopted' = FALSE
  /\ UNCHANGED <<now, bucket, bar, outside, age, provider, position, entry_at,
                 entry_zone, closing>>
\* The flatten, or an exit order of the position, filled.
PositionCloses ==
  /\ position # 0
  /\ position' = 0 /\ entry_at' = None /\ entry_zone' = ""
  /\ closing' = FALSE /\ adopted' = FALSE
  /\ UNCHANGED <<now, bucket, bar, outside, age, provider, order>>
FlattenFails ==
  /\ closing /\ closing' = FALSE
  /\ UNCHANGED <<now, bucket, bar, outside, age, provider, position, entry_at,
                 entry_zone, order, adopted>>

\* _adopt_broker_state_at_startup: the position is taken over from the broker,
\* or, without one, the entry order that works; the zone is not.
Restart ==
  /\ edits < MaxEdits /\ edits' = edits + 1
  /\ bucket' = None /\ bar' = None /\ provider' = NoProvider
  /\ entry_at' = IF position # 0 THEN now ELSE None
  /\ entry_zone' = "" /\ closing' = FALSE
  /\ adopted' = (position # 0 \/ order # 0)
  /\ UNCHANGED <<now, file, halt, age, position, order>>

Edit == edits < MaxEdits /\ edits' = edits + 1
WriteCalendar ==
  /\ Edit /\ age' = 0
  /\ \E events \in Calendars : file' = [events |-> events, mtime |-> edits']
  /\ UNCHANGED <<now, bucket, bar, halt, provider, book>>
RemoveCalendar ==
  /\ Edit /\ age' = 0 /\ file # Missing /\ file' = Missing
  /\ UNCHANGED <<now, bucket, bar, halt, provider, book>>
SetHalt ==
  /\ Edit /\ halt' = now
  /\ UNCHANGED <<now, bucket, bar, file, age, provider, book>>
RemoveHalt ==
  /\ halt # Never /\ halt' = Never
  /\ UNCHANGED <<now, bucket, bar, file, edits, age, provider, book>>

Operator == WriteCalendar \/ RemoveCalendar \/ SetHalt \/ RemoveHalt
Next == \/ on_market_data
        \/ EntryFills \/ EntryCancelled \/ PositionCloses \/ FlattenFails
        \/ Restart \/ Operator

Spec == Init /\ [][Next]_vars
-----------------------------------------------------------------------------
(* Properties *)

\* The scheduler's dates give the windows as one counts them round the day,
\* past midnight too; of those that overlap it is the last to have opened,
\* and the minutes left are those of its own window.
ZoneMatchesReference ==
  LET open == {i \in 1..Len(Zones) :
                 Zones[i].enabled /\ ReferenceInZone(Zones[i], now)}
      zone == get_current_zone(now)
  IN  IF open = {} THEN zone = NoZone
      ELSE \E i \in open :
             /\ zone.name = Zones[i].name
             /\ zone.minutes_remaining = ReferenceRemaining(Zones[i], now)
             /\ \A j \in open : SinceStart(Zones[i], now) <= SinceStart(Zones[j], now)

\* A market good enough to enter is good enough to stay: but for stress and
\* the last bars of a zone, which no veto keeps entries from, a position is
\* not left in the market it was entered in.
EntrySurvives ==
  bar # None =>
    \A zone \in {get_current_zone(bar)}, context \in {get_context(provider, halt, bar)} :
      \A m \in {m \in Markets : ~zone.is_last_bar /\ classify(m, context) # "STRESS"} :
        \A action \in {evaluate(0, zone, m, context, 0, "normal", TRUE)} :
          action # "NO_TRADE" =>
            evaluate(IF action = "LONG" THEN 1 ELSE -1, zone, m, context, 0,
                     "normal", FALSE) = "HOLD"

Entered == order = 0 /\ order' # 0

\* An entry is placed for a minute of a live zone in which no zone that only
\* flattens is open.
EntryInLiveZone ==
  [][Entered =>
       LET open == {i \in 1..Len(Zones) :
                      Zones[i].enabled /\ ReferenceInZone(Zones[i], bar')}
       IN  /\ \E i \in open : Zones[i].name \in LiveZones
           /\ \A i \in open : ~Zones[i].flatten_only]_vars

\* No entry is placed for a minute in the window of an event, once the file
\* that names it has been there for the time of a refresh, nor under a halt;
\* without a file the configured times count, unless one was read before.
EntryObeysEvents ==
  [][Entered =>
       /\ ~HaltActive(halt, bar')
       /\ age' >= RefreshMinutes /\ file # Missing /\ file.events # {}
          => \A e \in file.events : ~InWindow(e, bar')
       /\ file = Missing /\ provider.cache = {}
          => \A e \in _fallback_events(bar') : ~InWindow(e, bar')]_vars

\* A position that the evaluation of a bar leaves open is, in the minute of
\* that bar, in the window of a zone it may be held in, before its last bars
\* and its time stop, and neither under a halt nor in the window of an event
\* that an entry may not be placed in: outside of the zones too, whose score of
\* nothing carries no position.
HeldOnlyInZone ==
  [][bar' # bar /\ bar' # None /\ position' # 0 /\ ~closing' =>
       /\ \E i \in 1..Len(Zones) :
            /\ Zones[i].enabled /\ ReferenceInZone(Zones[i], bar')
            /\ ReferenceRemaining(Zones[i], bar') > LastBarMinutes
            /\ bar' - entry_at < _zone_hold_limit(Zones[i].name)
       /\ \A i \in 1..Len(Zones) :
            Zones[i].enabled /\ Zones[i].flatten_only
              => ~ReferenceInZone(Zones[i], bar')
       /\ ~HaltActive(halt, bar')
       /\ age' >= RefreshMinutes /\ file # Missing /\ file.events # {}
          => \A e \in file.events : ~InWindow(e, bar')
       /\ file = Missing /\ provider.cache = {}
          => \A e \in _fallback_events(bar') : ~InWindow(e, bar')]_vars

\* Nor is it after the hard flat time of that day, if this trader entered it:
\* in whatever zone it filled, and whatever was cancelled, refused or closed
\* before.  Of a position or an entry order that a start took over the zone is
\* not known, and the session does not end it.
FlatBySessionEnd ==
  [][bar' # bar /\ bar' # None /\ position' # 0 /\ ~closing' /\ SessionExitEnabled
       => adopted' \/ (bar' + HardFlatOffset) % Day < HardFlat]_vars
-----------------------------------------------------------------------------
(* What some of these properties ask of a configuration: nothing in the code *)
(* sees to it, and config/default.yaml meets them.                           *)

HoldLimitsArePositive ==
  DefaultHold > 0 /\ \A zone \in DOMAIN MaxHold : MaxHold[zone] > 0
\* A score of nothing is too low to stay, and the outside has no other.
OutsideHoldsNothing == ExitDecayScore > 0 /\ "Outside" \notin DOMAIN ZoneWeights
OnlyZonesGoLive == GateEnabled /\ "Outside" \notin LiveZones
\* A zone that only flattens opens after the others it overlaps.
FlattenOnlyPrevails ==
  \A t \in 0..(Day - 1), i, j \in 1..Len(Zones) :
    /\ Zones[i].enabled /\ ReferenceInZone(Zones[i], t) /\ Zones[i].flatten_only
    /\ Zones[j].enabled /\ ReferenceInZone(Zones[j], t) /\ ~Zones[j].flatten_only
    => \/ SinceStart(Zones[i], t) < SinceStart(Zones[j], t)
       \/ SinceStart(Zones[i], t) = SinceStart(Zones[j], t) /\ i < j
=============================================================================
