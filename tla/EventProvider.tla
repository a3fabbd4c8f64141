---------------------------- MODULE EventProvider ----------------------------
(***************************************************************************)
(* src/engine/event_provider.py: the events around which no trade is       *)
(* opened, read from a file that an operator edits while the engine runs,  *)
(* and the flag that halts it.  An event is [at, impact]; a file is        *)
(* [events, mtime], or Missing.                                            *)
(***************************************************************************)
EXTENDS Integers, Sequences

CONSTANTS
  Impacts,          \* the impacts of events
  ImpactWindows,    \* of each: [pre, post], in minutes
  NewsTimes,        \* the fallback: minutes of the day of the calendar's zone
  NewsImpact,       \* their impact
  NewsDay,          \* minutes of a day
  NewsOffset,       \* the calendar's time zone
  RefreshMinutes,   \* refresh_seconds
  MaxHaltAge        \* emergency_halt_max_age_minutes

ASSUME ProviderConfig ==
  /\ \A i \in Impacts : ImpactWindows[i].pre \in Nat /\ ImpactWindows[i].post \in Nat
  /\ NewsImpact \in Impacts /\ NewsDay \in Nat \ {0} /\ NewsOffset \in Int
  /\ RefreshMinutes \in Nat \ {0} /\ MaxHaltAge \in Nat \ {0}

Missing == [events |-> {}, mtime |-> -1]
Never == -1
NoProvider == [cache |-> {}, mtime |-> Never, refreshed |-> Never]

InWindow(event, t) ==
  /\ event.at - ImpactWindows[event.impact].pre <= t
  /\ t <= event.at + ImpactWindows[event.impact].post

\* The configured times, on the day t has in the calendar's zone.
_fallback_events(t) ==
  LET midnight == t - ((t + NewsOffset) % NewsDay)
  IN  {[at |-> midnight + n, impact |-> NewsImpact] : n \in NewsTimes}

\* A mutation: what was read once is kept while the file exists.
LoadOnce(provider, file) ==
  IF file = Missing \/ provider.cache # {} THEN provider
  ELSE [provider EXCEPT !.cache = file.events, !.mtime = file.mtime]

\* The cache follows the file when its mtime differs; a file that is gone
\* leaves the cache.
_load_calendar(provider, file) ==
  IF file = Missing \/ (provider.mtime = file.mtime /\ provider.cache # {})
  THEN provider
  ELSE [provider EXCEPT !.cache = file.events, !.mtime = file.mtime]

\* The provider after a call at now.
Asked(provider, file, now) ==
  IF provider.refreshed = Never \/ now - provider.refreshed >= RefreshMinutes
  THEN [_load_calendar(provider, file) EXCEPT !.refreshed = now]
  ELSE provider
\* The events it goes by.
_iter_events(asked, t) ==
  IF asked.cache # {} THEN asked.cache ELSE _fallback_events(t)

HaltActive(halt, t) == halt # Never /\ t - halt <= MaxHaltAge

\* asked is the provider after the call: a halt answers before any event.
get_context(asked, halt, t) ==
  LET within == {e \in _iter_events(asked, t) : InWindow(e, t)}
  IN  IF HaltActive(halt, t)
      THEN [blackout_active |-> TRUE, post_event_cooling |-> TRUE]
      ELSE [blackout_active |-> within # {},
            post_event_cooling |-> \E e \in within : t > e.at]
\* The halt returns before the calendar is looked at.
ProviderAfter(provider, file, halt, now, t) ==
  IF HaltActive(halt, t) THEN provider ELSE Asked(provider, file, now)
=============================================================================
