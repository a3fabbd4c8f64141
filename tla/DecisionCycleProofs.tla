----------------------- MODULE DecisionCycleProofs -----------------------
(***************************************************************************)
(* Theorems about DecisionCycle, for all zones, weights, calendars and gaps *)
(* between ticks: the zone that the scheduler gives, the consistency of the *)
(* matrix, and that entries and positions keep to the zones and the events. *)
(***************************************************************************)
EXTENDS DecisionCycle, SequenceTheorems, WellFoundedInduction, TLAPS

(* Arithmetic *)

\* A number has one quotient and one remainder.
LEMMA QuotientUnique ==
  ASSUME NEW d \in Nat \ {0}, NEW q \in Int, NEW r \in Int,
         NEW k \in Int, NEW s \in Int, d * q + r = d * k + s,
         0 <= r, r < d, 0 <= s, s < d
  PROVE  q = k /\ r = s
<1>1. d * (q - k) = s - r
  OBVIOUS
<1>2. CASE q - k >= 1
  <2>1. d * (q - k) >= d
    BY <1>2
  <2>2. QED
    BY <1>1, <2>1
<1>3. CASE q - k <= -1
  <2>1. d * (q - k) <= -d
    BY <1>3
  <2>2. QED
    BY <1>1, <2>1
<1>4. CASE q = k
  BY <1>4
<1>5. QED
  BY <1>2, <1>3, <1>4

\* The remainder and the quotient are what one takes them for.
LEMMA Remainder ==
  ASSUME NEW n \in Int, NEW d \in Nat \ {0}
  PROVE  /\ n \div d \in Int /\ n % d \in 0..(d - 1)
         /\ n = d * (n \div d) + (n % d)
OBVIOUS

\* A number is known by its remainder.
LEMMA RemainderIs ==
  ASSUME NEW d \in Nat \ {0}, NEW k \in Int, NEW s \in 0..(d - 1),
         NEW n \in Int, n = d * k + s
  PROVE  n % d = s
<1> DEFINE q == n \div d
           r == n % d
<1>1. q \in Int /\ r \in 0..(d - 1) /\ n = d * q + r
  BY Remainder
<1> HIDE DEF q, r
<1>2. r = s
  <2>1. r \in Int /\ s \in Int /\ 0 <= r /\ r < d /\ 0 <= s /\ s < d
    BY <1>1
  <2>2. d * q + r = d * k + s
    BY <1>1
  <2>3. QED
    BY <1>1, <2>1, <2>2, QuotientUnique
<1>3. QED
  BY <1>2 DEF r

\* The remainder of a number at most a turn below.
LEMMA RemainderNear ==
  ASSUME NEW d \in Nat \ {0}, NEW n \in Int
  PROVE  /\ 0 <= n /\ n < d => n % d = n
         /\ -d <= n /\ n < 0 => n % d = n + d
<1>1. ASSUME 0 <= n, n < d PROVE n % d = n
  <2>1. n = d * 0 + n /\ n \in 0..(d - 1)
    BY <1>1
  <2>2. QED
    BY <2>1, RemainderIs
<1>2. ASSUME -d <= n, n < 0 PROVE n % d = n + d
  <2>1. n = d * (-1) + (n + d) /\ n + d \in 0..(d - 1)
    BY <1>2
  <2>2. QED
    BY <2>1, RemainderIs
<1>3. QED
  BY <1>1, <1>2

\* A remainder may be taken before something is added.
LEMMA RemainderShift ==
  ASSUME NEW d \in Nat \ {0}, NEW n \in Int, NEW o \in Int
  PROVE  (n + o) % d = ((n % d) + o) % d
<1> DEFINE q == n \div d
           r == n % d
           p == (r + o) \div d
           s == (r + o) % d
<1>1. q \in Int /\ r \in Int /\ n = d * q + r
  BY Remainder
<1>2. p \in Int /\ s \in 0..(d - 1) /\ r + o = d * p + s
  <2> HIDE DEF q, r
  <2>1. r + o \in Int
    BY <1>1
  <2>2. QED
    BY <2>1, Remainder
<1> HIDE DEF q, r, p, s
<1>3. n + o = d * (q + p) + s
  BY <1>1, <1>2
<1>4. (n + o) % d = s
  <2> DEFINE k == q + p
             m == n + o
  <2>1. k \in Int /\ m \in Int /\ m = d * k + s
    BY <1>1, <1>2, <1>3
  <2> HIDE DEF k, m
  <2>2. m % d = s
    BY <1>2, <2>1, RemainderIs
  <2>3. QED
    BY <2>2 DEF m
<1>5. QED
  BY <1>4 DEF s, r

\* Some numbers have a least one, by well-founded induction.
LEMMA LeastElement ==
  ASSUME NEW S \in SUBSET Nat, S # {}
  PROVE  \E x \in S : \A y \in S : x <= y
<1>1. PICK x \in S : \A y \in S : ~(<<y, x>> \in OpToRel(<, Nat))
  BY NatLessThanWellFounded, WFMin
<1>2. ASSUME NEW y \in S PROVE x <= y
  <2>1. ~(y < x)
    BY <1>1 DEF OpToRel
  <2>2. QED
    BY <2>1
<1>3. QED
  BY <1>2

\* A time that is counted up to a bound.
LEMMA CountedTime ==
  ASSUME NEW a \in Nat, NEW n \in Nat, NEW m \in Nat, m >= n, NEW r \in Nat
  PROVE  (IF a + m - n > r THEN r ELSE a + m - n) \in Nat
OBVIOUS
-----------------------------------------------------------------------------
(***************************************************************************)
(* The zones.  The dates of a window and the choice among those that overlap *)
(* agree with a count round the day.                                       *)
(***************************************************************************)
USE SchedulerConfig DEF SchedulerConfig

\* The fields of a zone.
LEMMA ZoneType ==
  ASSUME NEW i \in 1..Len(Zones)
  PROVE  /\ Zones[i].start \in 0..(Day - 1) /\ Zones[i].end \in 0..(Day - 1)
         /\ Zones[i].offset \in Int /\ Zones[i].flatten_only \in BOOLEAN
         /\ Zones[i].enabled \in BOOLEAN /\ Zones[i].name \in STRING
         /\ Len(Zones) \in Nat
<1>1. Zones[i] \in [name : STRING, start : 0..(Day - 1), end : 0..(Day - 1),
                    offset : Int, flatten_only : BOOLEAN, enabled : BOOLEAN]
  BY ElementOfSeq
<1>2. Len(Zones) \in Nat
  OBVIOUS
<1>3. QED
  BY <1>1, <1>2

\* start_dt, end_dt and the reference on one day: the window goes past midnight
\* or it does not, and the minute is before or after its start.
LEMMA WindowArithmetic ==
  ASSUME NEW s \in 0..(Day - 1), NEW e \in 0..(Day - 1), NEW zt \in 0..(Day - 1)
  PROVE  LET since == (zt - s) % Day
             long  == (e - s) % Day
         IN  /\ since \in 0..(Day - 1)
             /\ (IF s <= e THEN s <= zt /\ zt < e ELSE zt >= s \/ zt < e)
                  <=> since < long
             /\ s <= e /\ s <= zt => since = zt - s
             /\ s > e /\ zt >= s => since = zt - s
             /\ s > e /\ zt < s => since = zt - s + Day
             /\ s <= e => long = e - s
             /\ s > e => long = e - s + Day
<1> DEFINE since == (zt - s) % Day
           long  == (e - s) % Day
<1>1. Day \in Nat \ {0}
  OBVIOUS
<1>2. /\ zt >= s => since = zt - s
      /\ zt < s => since = zt - s + Day
  <2> DEFINE n == zt - s
  <2>1. n \in Int /\ n < Day /\ -Day <= n /\ (zt >= s <=> 0 <= n)
    BY <1>1
  <2> HIDE DEF n
  <2>2. /\ 0 <= n /\ n < Day => n % Day = n
        /\ -Day <= n /\ n < 0 => n % Day = n + Day
    BY <1>1, <2>1, RemainderNear
  <2>3. /\ zt >= s => n % Day = n
        /\ zt < s => n % Day = n + Day
    BY <1>1, <2>1, <2>2
  <2>4. QED
    BY <2>3 DEF n
<1>3. /\ e >= s => long = e - s
      /\ e < s => long = e - s + Day
  <2> DEFINE n == e - s
  <2>1. n \in Int /\ n < Day /\ -Day <= n /\ (e >= s <=> 0 <= n)
    BY <1>1
  <2> HIDE DEF n
  <2>2. /\ 0 <= n /\ n < Day => n % Day = n
        /\ -Day <= n /\ n < 0 => n % Day = n + Day
    BY <1>1, <2>1, RemainderNear
  <2>3. /\ e >= s => n % Day = n
        /\ e < s => n % Day = n + Day
    BY <1>1, <2>1, <2>2
  <2>4. QED
    BY <2>3 DEF n
<1> HIDE DEF since, long
<1>4. since \in 0..(Day - 1)
  BY <1>1, <1>2
<1>5. (IF s <= e THEN s <= zt /\ zt < e ELSE zt >= s \/ zt < e) <=> since < long
  BY <1>1, <1>2, <1>3
<1>6. QED
  BY <1>2, <1>3, <1>4, <1>5 DEF since, long

\* The scheduler tells the windows and their dates as the reference counts them.
LEMMA WindowMatches ==
  ASSUME NEW i \in 1..Len(Zones), NEW t \in Int
  PROVE  /\ ZoneTime(Zones[i], t) \in 0..(Day - 1)
         /\ SinceStart(Zones[i], t) \in 0..(Day - 1)
         /\ in_zone(Zones[i], t) <=> ReferenceInZone(Zones[i], t)
         /\ in_zone(Zones[i], t) =>
              /\ start_dt(Zones[i], t) = t - SinceStart(Zones[i], t)
              /\ end_dt(Zones[i], t) - t = ReferenceRemaining(Zones[i], t)
<1> DEFINE z == Zones[i]
           s == z.start
           e == z.end
           zt == ZoneTime(z, t)
           since == (zt - s) % Day
           long == (e - s) % Day
<1>1. /\ s \in 0..(Day - 1) /\ e \in 0..(Day - 1) /\ z.offset \in Int
  BY ZoneType
<1>2. zt \in 0..(Day - 1)
  <2>1. t + z.offset \in Int
    BY <1>1
  <2>2. QED
    BY <2>1, Remainder DEF ZoneTime
<1>3. /\ since \in 0..(Day - 1)
      /\ (IF s <= e THEN s <= zt /\ zt < e ELSE zt >= s \/ zt < e) <=> since < long
      /\ s <= e /\ s <= zt => since = zt - s
      /\ s > e /\ zt >= s => since = zt - s
      /\ s > e /\ zt < s => since = zt - s + Day
      /\ s <= e => long = e - s
      /\ s > e => long = e - s + Day
  <2> HIDE DEF s, e, zt
  <2>1. QED
    BY <1>1, <1>2, WindowArithmetic
<1>4. /\ in_zone(z, t) <=> IF s <= e THEN s <= zt /\ zt < e
                                    ELSE zt >= s \/ zt < e
      /\ ReferenceInZone(z, t) <=> (since < long)
      /\ SinceStart(z, t) = since
      /\ ReferenceRemaining(z, t) = long - since
      /\ start_dt(z, t) = IF s <= e \/ zt >= s THEN t - zt + s ELSE t - zt - Day + s
      /\ end_dt(z, t) = IF s > e /\ zt >= s THEN t - zt + Day + e ELSE t - zt + e
  BY DEF in_zone, ReferenceInZone, ReferenceRemaining, start_dt, end_dt, SinceStart
<1> HIDE DEF z, zt, since, long, s, e
<1>5. ASSUME in_zone(z, t)
      PROVE  /\ start_dt(z, t) = t - since
             /\ end_dt(z, t) - t = long - since
  <2>1. CASE s <= e
    <3>1. s <= zt /\ ~(s > e)
      BY <1>1, <1>4, <1>5, <2>1
    <3>2. /\ start_dt(z, t) = t - zt + s /\ end_dt(z, t) = t - zt + e
          /\ since = zt - s /\ long = e - s
      BY <1>3, <1>4, <2>1, <3>1
    <3> HIDE DEF start_dt, end_dt
    <3>3. QED
      BY <1>1, <1>2, <3>2
  <2>2. CASE s > e /\ zt >= s
    BY <1>1, <1>2, <1>3, <1>4, <1>5, <2>2
  <2>3. CASE s > e /\ zt < s
    BY <1>1, <1>2, <1>3, <1>4, <1>5, <2>3
  <2>4. QED
    BY <1>1, <1>2, <2>1, <2>2, <2>3
<1>6. in_zone(z, t) <=> ReferenceInZone(z, t)
  BY <1>3, <1>4
<1>7. QED
  BY <1>2, <1>3, <1>4, <1>5, <1>6 DEF z, zt

\* The zones whose window holds the minute.
OpenZones(t) ==
  {i \in 1..Len(Zones) : Zones[i].enabled /\ ReferenceInZone(Zones[i], t)}
\* Of two, the one that opened last, or comes first of those that opened together.
Prevails(i, j, t) ==
  \/ SinceStart(Zones[i], t) < SinceStart(Zones[j], t)
  \/ SinceStart(Zones[i], t) = SinceStart(Zones[j], t) /\ i < j

\* Of the zones that are open one prevails: zones are as many as one likes.
LEMMA SomeZonePrevails ==
  ASSUME NEW t \in Int, OpenZones(t) # {}
  PROVE  \E i \in OpenZones(t) : \A j \in OpenZones(t) \ {i} : Prevails(i, j, t)
<1> DEFINE S == {SinceStart(Zones[i], t) : i \in OpenZones(t)}
<1>1. \A i \in OpenZones(t) : SinceStart(Zones[i], t) \in Nat
  <2>1. \A i \in OpenZones(t) : i \in 1..Len(Zones)
    BY DEF OpenZones
  <2>2. \A i \in 1..Len(Zones) : SinceStart(Zones[i], t) \in 0..(Day - 1)
    BY WindowMatches
  <2>3. \A n \in 0..(Day - 1) : n \in Nat
    OBVIOUS
  <2>4. QED
    BY <2>1, <2>2, <2>3
<1>2. S \in SUBSET Nat /\ S # {}
  BY <1>1
<1>3. PICK s \in S : \A y \in S : s <= y
  <2> HIDE DEF S
  <2>1. QED
    BY <1>2, LeastElement
<1> DEFINE T == {i \in OpenZones(t) : SinceStart(Zones[i], t) = s}
<1>4. T \in SUBSET Nat /\ T # {}
  <2>1. OpenZones(t) \in SUBSET Nat
    BY DEF OpenZones
  <2>2. QED
    BY <1>3, <2>1
<1>5. PICK i \in T : \A j \in T : i <= j
  <2> HIDE DEF T
  <2>1. QED
    BY <1>4, LeastElement
<1>6. ASSUME NEW j \in OpenZones(t) \ {i} PROVE Prevails(i, j, t)
  <2>1. /\ SinceStart(Zones[i], t) = s /\ s <= SinceStart(Zones[j], t)
        /\ s \in Nat /\ SinceStart(Zones[j], t) \in Nat
    BY <1>1, <1>2, <1>3, <1>5
  <2>2. CASE SinceStart(Zones[j], t) = s
    <3>1. i <= j /\ i # j /\ i \in Nat /\ j \in Nat
      BY <1>4, <1>5, <2>2
    <3>2. QED
      BY <2>1, <2>2, <3>1 DEF Prevails
  <2>3. CASE SinceStart(Zones[j], t) # s
    BY <2>1, <2>3 DEF Prevails
  <2>4. QED
    BY <2>2, <2>3
<1>7. QED
  BY <1>5, <1>6

\* What the scheduler says is that one, with the rest of its window.
LEMMA CurrentZone ==
  ASSUME NEW t \in Int
  PROVE  /\ OpenZones(t) = {} => get_current_zone(t) = NoZone
         /\ OpenZones(t) # {} =>
              \E i \in OpenZones(t) :
                /\ get_current_zone(t) =
                     [name |-> Zones[i].name,
                      state |-> IF Zones[i].flatten_only THEN "flatten_only"
                                ELSE "active",
                      minutes_remaining |-> ReferenceRemaining(Zones[i], t),
                      is_last_bar |->
                        ReferenceRemaining(Zones[i], t) <= LastBarMinutes]
                /\ \A j \in OpenZones(t) \ {i} : Prevails(i, j, t)
<1>1. matching_zones(t) = OpenZones(t)
  BY WindowMatches DEF matching_zones, OpenZones
<1>2. ASSUME NEW i \in OpenZones(t), NEW j \in OpenZones(t)
      PROVE  (\/ start_dt(Zones[i], t) > start_dt(Zones[j], t)
              \/ start_dt(Zones[i], t) = start_dt(Zones[j], t) /\ i < j)
               <=> Prevails(i, j, t)
  <2>1. i \in 1..Len(Zones) /\ j \in 1..Len(Zones)
    BY DEF OpenZones
  <2>2. in_zone(Zones[i], t) /\ in_zone(Zones[j], t)
    BY <1>1 DEF matching_zones
  <2>3. /\ start_dt(Zones[i], t) = t - SinceStart(Zones[i], t)
        /\ SinceStart(Zones[i], t) \in 0..(Day - 1)
    BY <2>1, <2>2, WindowMatches
  <2>4. /\ start_dt(Zones[j], t) = t - SinceStart(Zones[j], t)
        /\ SinceStart(Zones[j], t) \in 0..(Day - 1)
    BY <2>1, <2>2, WindowMatches
  <2> HIDE DEF start_dt, SinceStart
  <2>5. QED
    BY <2>3, <2>4 DEF Prevails
<1>3. ASSUME OpenZones(t) # {}
      PROVE  LatestStart(t) \in OpenZones(t) /\
             \A j \in OpenZones(t) \ {LatestStart(t)} : Prevails(LatestStart(t), j, t)
  <2>1. \E i \in matching_zones(t) :
          \A j \in matching_zones(t) \ {i} :
            \/ start_dt(Zones[i], t) > start_dt(Zones[j], t)
            \/ start_dt(Zones[i], t) = start_dt(Zones[j], t) /\ i < j
    BY <1>1, <1>2, <1>3, SomeZonePrevails
  <2>2. /\ LatestStart(t) \in matching_zones(t)
        /\ \A j \in matching_zones(t) \ {LatestStart(t)} :
            \/ start_dt(Zones[LatestStart(t)], t) > start_dt(Zones[j], t)
            \/ /\ start_dt(Zones[LatestStart(t)], t) = start_dt(Zones[j], t)
               /\ LatestStart(t) < j
    BY <2>1 DEF LatestStart
  <2>3. QED
    BY <1>1, <1>2, <2>2
<1>4. ASSUME OpenZones(t) # {}
      PROVE  end_dt(Zones[LatestStart(t)], t) - t
               = ReferenceRemaining(Zones[LatestStart(t)], t)
  <2>1. LatestStart(t) \in 1..Len(Zones) /\ in_zone(Zones[LatestStart(t)], t)
    BY <1>1, <1>3, <1>4 DEF matching_zones
  <2>2. QED
    BY <2>1, WindowMatches
<1>5. QED
  BY <1>1, <1>3, <1>4 DEF get_current_zone, ZoneInfo
-----------------------------------------------------------------------------
(* Types *)

USE ProviderConfig, CycleConfig DEF ProviderConfig, CycleConfig

\* The types, and that a file that is there was written by an edit.
CycleTypes ==
  /\ now \in Nat /\ bucket \in Nat \cup {None} /\ bar \in Nat \cup {None}
  /\ file \in {Missing} \cup [events : Calendars, mtime : 0..edits]
  /\ halt \in Nat \cup {Never}
  /\ provider \in [cache : SUBSET UNION Calendars, mtime : Int, refreshed : Int]
  /\ position \in {-1, 0, 1} /\ order \in {-1, 0, 1}
  /\ entry_at \in Nat \cup {None} /\ closing \in BOOLEAN
  /\ edits \in Nat /\ age \in 0..RefreshMinutes

\* What the provider is after a call.
LEMMA AskedType ==
  ASSUME CycleTypes, NEW n \in Int
  PROVE  Asked(provider, file, n)
           \in [cache : SUBSET UNION Calendars, mtime : Int, refreshed : Int]
<1>1. _load_calendar(provider, file)
        \in [cache : SUBSET UNION Calendars, mtime : Int, refreshed : Int]
  <2>1. CASE file = Missing
    BY <2>1 DEF _load_calendar, CycleTypes
  <2>2. CASE file # Missing
    <3>1. file.events \in SUBSET UNION Calendars /\ file.mtime \in Int
      BY <2>2 DEF CycleTypes
    <3>2. QED
      BY <3>1 DEF _load_calendar, CycleTypes
  <2>3. QED
    BY <2>1, <2>2
<1>2. QED
  BY <1>1 DEF Asked, CycleTypes

\* What an evaluation may change, and to what.
LEMMA EvaluationType ==
  ASSUME CycleTypes, now' \in Nat, NEW t \in Int, NEW allowed \in BOOLEAN,
         _evaluate_current_state(t, allowed)
  PROVE  /\ provider' \in [cache : SUBSET UNION Calendars, mtime : Int, refreshed : Int]
         /\ provider' \in {provider, Asked(provider, file, now')}
         /\ UNCHANGED <<position, entry_at>>
         /\ order' \in {-1, 0, 1} /\ closing' \in BOOLEAN
<1>1. /\ provider' = ProviderAfter(provider, file, halt, now', t)
      /\ \/ _flatten_position
         \/ UNCHANGED book
         \/ \E zone \in {get_current_zone(t)}, side \in {-1, 1} :
              PlaceEntry(side, zone, allowed)
  BY DEF _evaluate_current_state
<1>2. /\ provider' \in [cache : SUBSET UNION Calendars, mtime : Int, refreshed : Int]
      /\ provider' \in {provider, Asked(provider, file, now')}
  <2>1. now' \in Int
    OBVIOUS
  <2>2. Asked(provider, file, now')
          \in [cache : SUBSET UNION Calendars, mtime : Int, refreshed : Int]
    BY <2>1, AskedType
  <2>3. provider' \in {provider, Asked(provider, file, now')}
    BY <1>1 DEF ProviderAfter
  <2>4. QED
    BY <2>2, <2>3 DEF CycleTypes
<1>3. CASE _flatten_position
  BY <1>2, <1>3 DEF _flatten_position, CycleTypes
<1>4. CASE UNCHANGED book
  BY <1>2, <1>4 DEF book, CycleTypes
<1>5. ASSUME NEW zone, NEW side \in {-1, 1}, PlaceEntry(side, zone, allowed)
      PROVE  /\ UNCHANGED <<position, entry_at>>
             /\ order' \in {-1, 0, 1} /\ closing' \in BOOLEAN
  BY <1>5 DEF PlaceEntry, CycleTypes
<1>6. QED
  BY <1>1, <1>2, <1>3, <1>4, <1>5

\* What a tick may change, and to what.
LEMMA TickType ==
  ASSUME CycleTypes, on_market_data
  PROVE  /\ now' \in Nat /\ now' >= now /\ UNCHANGED outside
         /\ age' = IF age + now' - now > RefreshMinutes THEN RefreshMinutes
                   ELSE age + now' - now
         /\ bucket' \in Nat \cup {None} /\ bar' \in Nat \cup {None}
         /\ provider' \in [cache : SUBSET UNION Calendars, mtime : Int, refreshed : Int]
         /\ provider' \in {provider, Asked(provider, file, now')}
         /\ UNCHANGED <<position, entry_at>>
         /\ order' \in {-1, 0, 1} /\ closing' \in BOOLEAN
<1>1. PICK t \in now..(now + MaxGap) :
    /\ t <= Horizon /\ now' = t
    /\ age' = IF age + t - now > RefreshMinutes THEN RefreshMinutes ELSE age + t - now
    /\ update(t)
    /\ TickRisk(t) \/ TickOnly(t) \/ BarCompleted(t)
    /\ UNCHANGED outside
  BY DEF on_market_data
<1>2. t \in Nat /\ t >= now
  BY DEF CycleTypes
<1>3. bucket' \in Nat \cup {None} /\ bar' \in Nat \cup {None}
  BY <1>1, <1>2 DEF update, Completes, CycleTypes
<1>4. /\ provider' \in [cache : SUBSET UNION Calendars, mtime : Int, refreshed : Int]
      /\ provider' \in {provider, Asked(provider, file, now')}
      /\ UNCHANGED <<position, entry_at>>
      /\ order' \in {-1, 0, 1} /\ closing' \in BOOLEAN
  <2>1. CASE TickRisk(t)
    BY <2>1 DEF TickRisk, _flatten_position, CycleTypes
  <2>2. CASE TickOnly(t)
    <3>1. CASE position # 0 /\ bar # None
      <4>1. bar \in Int
        BY <3>1 DEF CycleTypes
      <4>2. _evaluate_current_state(bar, FALSE)
        BY <2>2, <3>1, Zenon DEF TickOnly
      <4>3. QED
        BY <1>1, <1>2, <4>1, <4>2, EvaluationType
    <3>2. CASE ~(position # 0 /\ bar # None)
      BY <2>2, <3>2 DEF TickOnly, CycleTypes, book
    <3>3. QED
      BY <3>1, <3>2
  <2>3. CASE BarCompleted(t)
    <3>1. bucket \in Int
      BY <2>3 DEF BarCompleted, Completes, CycleTypes
    <3>2. PICK locked_out \in BOOLEAN : _evaluate_current_state(bucket, ~locked_out)
      BY <2>3 DEF BarCompleted
    <3>3. (~locked_out) \in BOOLEAN
      OBVIOUS
    <3>4. QED
      BY <1>1, <1>2, <3>1, <3>2, <3>3, EvaluationType
  <2>4. QED
    BY <1>1, <2>1, <2>2, <2>3
<1>5. QED
  BY <1>1, <1>2, <1>3, <1>4

\* Every variable of the cycle has its type.
THEOREM CycleTypesHold == Spec => []CycleTypes
<1>1. Init => CycleTypes
  <2> SUFFICES ASSUME Init PROVE CycleTypes
    OBVIOUS
  <2>1. /\ now = 0 /\ bucket = None /\ bar = None
        /\ file \in {Missing} \cup [events : Calendars, mtime : {0}]
        /\ halt = Never /\ provider = NoProvider
        /\ position = 0 /\ entry_at = None /\ order = 0 /\ closing = FALSE
        /\ edits = 0 /\ age = RefreshMinutes
    BY Zenon DEF Init
  <2>2. NoProvider \in [cache : SUBSET UNION Calendars, mtime : Int, refreshed : Int]
    BY DEF NoProvider, Never
  <2>3. file \in {Missing} \cup [events : Calendars, mtime : 0..edits]
    BY <2>1
  <2>4. age \in 0..RefreshMinutes /\ edits \in Nat /\ now \in Nat
    BY <2>1
  <2>5. closing \in BOOLEAN /\ provider \in
          [cache : SUBSET UNION Calendars, mtime : Int, refreshed : Int]
    BY <2>1, <2>2, Zenon
  <2>6. /\ position \in {-1, 0, 1} /\ order \in {-1, 0, 1}
        /\ bucket \in Nat \cup {None} /\ bar \in Nat \cup {None}
        /\ entry_at \in Nat \cup {None} /\ halt \in Nat \cup {Never}
    BY <2>1
  <2>7. QED
    BY <2>3, <2>4, <2>5, <2>6, Zenon DEF CycleTypes
<1>2. CycleTypes /\ [Next]_vars => CycleTypes'
  <2> SUFFICES ASSUME CycleTypes, [Next]_vars PROVE CycleTypes'
    OBVIOUS
  <2>1. CASE on_market_data
    <3>1. age' \in 0..RefreshMinutes
      BY <2>1, TickType DEF CycleTypes
    <3>2. QED
      BY <2>1, <3>1, TickType DEF CycleTypes, outside
  <2>2. CASE EntryFills
    BY <2>2 DEF EntryFills, CycleTypes, outside
  <2>3. CASE EntryCancelled
    BY <2>3 DEF EntryCancelled, CycleTypes, outside
  <2>4. CASE PositionCloses
    BY <2>4 DEF PositionCloses, CycleTypes, outside
  <2>5. CASE FlattenFails
    BY <2>5 DEF FlattenFails, CycleTypes, outside
  <2>6. CASE Restart
    <3>1. file' \in {Missing} \cup [events : Calendars, mtime : 0..edits']
      <4>1. file \in {Missing} \cup [events : Calendars, mtime : 0..(edits + 1)]
        BY DEF CycleTypes
      <4>2. file' = file /\ edits' = edits + 1
        BY <2>6, Zenon DEF Restart
      <4>3. QED
        BY <4>1, <4>2
    <3>2. NoProvider \in [cache : SUBSET UNION Calendars, mtime : Int, refreshed : Int]
      BY DEF NoProvider, Never
    <3>3. /\ edits' = edits + 1 /\ bucket' = None /\ bar' = None
          /\ provider' = NoProvider /\ closing' = FALSE
          /\ entry_at' = (IF position # 0 THEN now ELSE None)
          /\ UNCHANGED <<now, file, halt, age, position, order>>
      BY <2>6, Zenon DEF Restart
    <3>4. /\ closing' \in BOOLEAN /\ provider' \in
               [cache : SUBSET UNION Calendars, mtime : Int, refreshed : Int]
      BY <3>2, <3>3, Zenon
    <3>5. /\ position' \in {-1, 0, 1} /\ order' \in {-1, 0, 1}
          /\ bucket' \in Nat \cup {None} /\ bar' \in Nat \cup {None}
          /\ entry_at' \in Nat \cup {None} /\ halt' \in Nat \cup {Never}
          /\ now' \in Nat /\ edits' \in Nat /\ age' \in 0..RefreshMinutes
      BY <3>3 DEF CycleTypes
    <3>6. QED
      BY <3>1, <3>4, <3>5, Zenon DEF CycleTypes
  <2>7. CASE WriteCalendar
    <3>1. file' \in [events : Calendars, mtime : 0..edits'] /\ edits' \in Nat
      BY <2>7 DEF WriteCalendar, Edit, CycleTypes
    <3>2. QED
      BY <2>7, <3>1 DEF WriteCalendar, Edit, CycleTypes, book
  <2>8. CASE RemoveCalendar
    BY <2>8 DEF RemoveCalendar, Edit, CycleTypes, book
  <2>9. CASE SetHalt
    <3>1. file \in {Missing} \cup [events : Calendars, mtime : 0..(edits + 1)]
      BY DEF CycleTypes
    <3>2. QED
      BY <2>9, <3>1 DEF SetHalt, Edit, CycleTypes, book
  <2>10. CASE RemoveHalt
    BY <2>10 DEF RemoveHalt, CycleTypes, book
  <2>11. CASE UNCHANGED vars
    BY <2>11 DEF vars, CycleTypes, book, outside
  <2>12. QED
    BY <2>1, <2>2, <2>3, <2>4, <2>5, <2>6, <2>7, <2>8, <2>9, <2>10, <2>11
       DEF Next, Operator
<1>3. QED
  BY <1>1, <1>2, PTL DEF Spec

\* The zone the scheduler gives is, at every minute, the last to have opened of
\* those whose window holds it, with the minutes its own window has left,
\* whatever zones are configured, past midnight and overlapping too.
THEOREM ZonesMatch == Spec => []ZoneMatchesReference
<1>1. CycleTypes => ZoneMatchesReference
  <2> SUFFICES ASSUME CycleTypes PROVE ZoneMatchesReference
    OBVIOUS
  <2>1. now \in Int
    BY DEF CycleTypes
  <2>2. CASE OpenZones(now) = {}
    BY <2>1, <2>2, CurrentZone DEF ZoneMatchesReference, OpenZones
  <2>3. CASE OpenZones(now) # {}
    <3>1. PICK i \in OpenZones(now) :
            /\ get_current_zone(now) =
                     [name |-> Zones[i].name,
                      state |-> IF Zones[i].flatten_only THEN "flatten_only"
                                ELSE "active",
                      minutes_remaining |-> ReferenceRemaining(Zones[i], now),
                      is_last_bar |->
                        ReferenceRemaining(Zones[i], now) <= LastBarMinutes]
            /\ \A j \in OpenZones(now) \ {i} : Prevails(i, j, now)
      BY <2>1, <2>3, CurrentZone
    <3>2. ASSUME NEW j \in OpenZones(now)
          PROVE  SinceStart(Zones[i], now) <= SinceStart(Zones[j], now)
      <4>1. /\ SinceStart(Zones[i], now) \in 0..(Day - 1)
            /\ SinceStart(Zones[j], now) \in 0..(Day - 1)
        BY <2>1, WindowMatches DEF OpenZones
      <4>2. CASE i = j
        BY <4>1, <4>2
      <4>3. CASE i # j
        <5>1. Prevails(i, j, now)
          BY <3>1, <4>3
        <5>2. QED
          BY <4>1, <5>1 DEF Prevails
      <4>4. QED
        BY <4>2, <4>3
    <3>3. /\ get_current_zone(now).name = Zones[i].name
          /\ get_current_zone(now).minutes_remaining = ReferenceRemaining(Zones[i], now)
      BY <3>1
    <3>4. QED
      BY <2>3, <3>2, <3>3 DEF ZoneMatchesReference, OpenZones
  <2>4. QED
    BY <2>2, <2>3
<1>2. QED
  BY <1>1, CycleTypesHold, PTL
-----------------------------------------------------------------------------
(* The matrix *)

\* The numbers of the configuration.
LEMMA MatrixNumbers ==
  /\ MinEntryScore \in Int /\ FullSizeScore \in Int /\ FlatBiasBuffer \in Int
  /\ MinScoreGap \in Nat /\ MinScoreGap # 0
  /\ ReverseScoreGap \in Nat /\ ReverseScoreGap # 0
  /\ ExitDecayScore \in Int /\ ExitDecayScore < MinEntryScore
  /\ DefaultHold \in Nat
  /\ \A zone \in DOMAIN MaxHold : MaxHold[zone] \in Nat
<1>1. \A zone \in DOMAIN MaxHold : MaxHold[zone] \in Nat
  BY MatrixConfig, Zenon DEF MatrixConfig
<1>2. /\ MinEntryScore \in Int /\ FullSizeScore \in Int /\ FlatBiasBuffer \in Int
      /\ MinScoreGap \in Nat \ {0} /\ ReverseScoreGap \in Nat \ {0}
      /\ ExitDecayScore \in Int /\ ExitDecayScore < MinEntryScore
      /\ DefaultHold \in Nat
  BY MatrixConfig, Zenon DEF MatrixConfig
<1>3. QED
  BY <1>1, <1>2

\* Numbers and their negatives.
LEMMA Negation ==
  ASSUME NEW n \in Int
  PROVE  -n \in Int /\ -n = 0 - n /\ -(-n) = n
OBVIOUS

\* Products of numbers.
LEMMA ProductType == ASSUME NEW a \in Int, NEW b \in Int PROVE a * b \in Int
OBVIOUS

\* A score is a number.
LEMMA WeightedType ==
  ASSUME NEW f \in Weighing, NEW w \in Weighing
  PROVE  Weighted(f, w) \in Int
<1>1. /\ f.drive * w.drive \in Int /\ f.breakout * w.breakout \in Int
      /\ f.trend * w.trend \in Int
      /\ f.stretch * w.stretch \in Int /\ f.execution * w.execution \in Int
      /\ f.event * w.event \in Int /\ f.atr * w.atr \in Int
      /\ f.regime * w.regime \in Int
  BY ProductType DEF Weighing
<1>2. QED
  BY <1>1 DEF Weighted

\* What bounds a feature keeps it a number.
LEMMA ClipType == ASSUME NEW n \in Int PROVE _clip(n) \in Int /\ Positive(n) \in Int
BY DEF _clip, Positive

\* The features are numbers.
LEMMA FeatureTypes ==
  ASSUME NEW m \in Market, NEW context
  PROVE  /\ long_features(m, context) \in Weighing
         /\ short_features(m, context) \in Weighing
         /\ flat_features(m, context) \in Weighing
<1>1. /\ m.drive \in Int /\ m.slope \in Int /\ m.structure \in Int
      /\ m.lower \in Int /\ m.upper \in Int
  BY DEF Market
<1>2. /\ execution_state(m) \in Int /\ event_state(context) \in Int
      /\ atr_state(m) \in Int
  BY DEF execution_state, event_state, atr_state
<1>3. /\ -m.drive \in Int /\ -m.slope \in Int /\ -m.structure \in Int
      /\ -execution_state(m) \in Int /\ -event_state(context) \in Int
      /\ -atr_state(m) \in Int
  BY <1>1, <1>2, Negation
<1>4. /\ m.structure + m.slope \in Int
      /\ Positive(m.drive) + Positive(m.slope) \in Int
  BY <1>1, ClipType
<1>5. /\ (-m.structure) + (-m.slope) \in Int
      /\ Positive(-m.drive) + Positive(-m.slope) \in Int
  <2> DEFINE d == -m.drive
             v == -m.slope
             w == -m.structure
  <2>1. d \in Int /\ v \in Int /\ w \in Int
    BY <1>3
  <2> HIDE DEF d, v, w
  <2>2. w + v \in Int /\ Positive(d) + Positive(v) \in Int
    BY <2>1, ClipType
  <2>3. QED
    BY <2>2 DEF d, v, w
<1>6. long_features(m, context) \in Weighing
  <2>1. /\ _clip(m.drive) \in Int /\ _clip(m.structure + m.slope) \in Int
        /\ _clip(Positive(m.drive) + Positive(m.slope)) \in Int
    BY <1>1, <1>4, ClipType
  <2>2. QED
    BY <1>1, <1>2, <2>1 DEF long_features, Weighing
<1>7. short_features(m, context) \in Weighing
  <2>1. /\ _clip(-m.drive) \in Int /\ _clip((-m.structure) + (-m.slope)) \in Int
        /\ _clip(Positive(-m.drive) + Positive(-m.slope)) \in Int
    BY <1>3, <1>5, ClipType
  <2>2. QED
    BY <1>1, <1>2, <2>1 DEF short_features, Weighing
<1>8. flat_features(m, context) \in Weighing
  <2> DEFINE long == long_features(m, context).trend
             short == short_features(m, context).trend
             trend == _clip(2 - (IF long > short THEN long ELSE short))
  <2>1. long \in Int /\ short \in Int
    BY <1>6, <1>7 DEF Weighing
  <2> HIDE DEF long, short
  <2>2. 2 - (IF long > short THEN long ELSE short) \in Int
    BY <2>1
  <2>3. trend \in Int
    BY <2>2, ClipType
  <2>4. flat_features(m, context) =
          [drive |-> 0, breakout |-> 0, trend |-> trend, stretch |-> 0,
           execution |-> -execution_state(m), event |-> -event_state(context),
           atr |-> -atr_state(m),
           regime |-> IF classify(m, context) = "STRESS" THEN 2 ELSE 0]
    BY DEF flat_features, long, short
  <2> HIDE DEF trend
  <2>5. QED
    BY <1>3, <2>3, <2>4 DEF Weighing
<1>9. QED
  BY <1>6, <1>7, <1>8

\* The weights are numbers, those of an unknown zone too.
LEMMA WeightTypes ==
  ASSUME NEW zone
  PROVE  /\ Weights(zone).long \in Weighing /\ Weights(zone).short \in Weighing
         /\ Weights(zone).flat \in Weighing
<1>1. NoWeight \in Weighing
  BY DEF NoWeight, Weighing
<1>2. CASE zone \in DOMAIN ZoneWeights
  <2>1. ZoneWeights[zone] \in [long : Weighing, short : Weighing, flat : Weighing]
    BY <1>2, MatrixConfig, Zenon DEF MatrixConfig
  <2>2. QED
    BY <1>2, <2>1 DEF Weights
<1>3. CASE zone \notin DOMAIN ZoneWeights
  BY <1>1, <1>3 DEF Weights
<1>4. QED
  BY <1>2, <1>3

\* The scores are numbers.
LEMMA ScoreTypes ==
  ASSUME NEW zone, NEW m \in Market, NEW context
  PROVE  /\ Scores(zone, m, context).long \in Int
         /\ Scores(zone, m, context).short \in Int
         /\ Scores(zone, m, context).flat \in Int
BY WeightedType, FeatureTypes, WeightTypes DEF Scores

\* The rules to enter imply the rules to stay, score by score.
LEMMA EnteringStays ==
  ASSUME HoldLimitsArePositive, NEW at, NEW m \in Market, NEW context,
         ~at.is_last_bar, classify(m, context) # "STRESS",
         evaluate(0, at, m, context, 0, "normal", TRUE) # "NO_TRADE"
  PROVE  LET action == evaluate(0, at, m, context, 0, "normal", TRUE)
         IN  evaluate(IF action = "LONG" THEN 1 ELSE -1, at, m, context, 0,
                      "normal", FALSE) = "HOLD"
<1> DEFINE zone == _effective_zone(at)
           score == Scores(zone.name, m, context)
           action == evaluate(0, at, m, context, 0, "normal", TRUE)
<1>1. /\ score.long \in Int /\ score.short \in Int /\ score.flat \in Int
  BY ScoreTypes
<1>2. ~zone.is_last_bar
  BY DEF _effective_zone
<1>3. _zone_hold_limit(zone.name) > 0
  BY DEF _zone_hold_limit, HoldLimitsArePositive
<1>4. _zone_hold_limit(zone.name) \in Nat
  BY MatrixNumbers DEF _zone_hold_limit
<1> HIDE DEF zone, score
<1>5. /\ ~(zone.state = "inactive" \/ FlattenOnly(zone))
      /\ \/ /\ action = "LONG"
            /\ Enters(score.long, score.short, score.flat, zone, m, context)
         \/ /\ action = "SHORT"
            /\ Enters(score.short, score.long, score.flat, zone, m, context)
  BY DEF evaluate, zone, score
<1>6. ASSUME NEW own \in Int, NEW against \in Int, NEW bias,
             Enters(own, against, bias, zone, m, context)
      PROVE  ~Leaves(own, against, zone, m, context, 0, "normal")
  <2>1. /\ own >= MinEntryScore /\ own - against >= MinScoreGap
        /\ ~_evaluate_vetoes(zone, m, context)
    BY <1>6 DEF Enters
  <2>2. ~context.blackout_active
    BY <2>1 DEF _evaluate_vetoes
  <2>3. ~(against - own >= ReverseScoreGap) /\ ~(own < ExitDecayScore)
    BY <2>1, MatrixNumbers
  <2>4. ~(0 >= _zone_hold_limit(zone.name))
    BY <1>3, <1>4
  <2>5. QED
    BY <1>2, <2>2, <2>3, <2>4 DEF Leaves
<1>7. CASE action = "LONG"
  <2>1. ~Leaves(score.long, score.short, zone, m, context, 0, "normal")
    BY <1>1, <1>5, <1>6, <1>7
  <2>2. evaluate(1, at, m, context, 0, "normal", FALSE) = "HOLD"
    BY <1>5, <2>1 DEF evaluate, zone, score
  <2>3. QED
    BY <1>7, <2>2
<1>8. CASE action = "SHORT"
  <2>1. ~Leaves(score.short, score.long, zone, m, context, 0, "normal")
    BY <1>1, <1>5, <1>6, <1>8
  <2>2. evaluate(-1, at, m, context, 0, "normal", FALSE) = "HOLD"
    BY <1>5, <2>1 DEF evaluate, zone, score
  <2>3. QED
    BY <1>8, <2>2
<1>9. QED
  BY <1>5, <1>7, <1>8

\* For any weights, vetoes and thresholds with ExitDecayScore < MinEntryScore,
\* a position is not left in the market that it was entered in: entering and
\* leaving do not take turns.
THEOREM EntriesSurvive == HoldLimitsArePositive => (Spec => []EntrySurvives)
<1> SUFFICES ASSUME HoldLimitsArePositive PROVE Spec => []EntrySurvives
  OBVIOUS
<1>1. EntrySurvives
  BY EnteringStays DEF EntrySurvives
<1>2. QED
  BY <1>1, PTL

-----------------------------------------------------------------------------
(* Entries and positions in their zones *)

\* What an evaluation that may enter has found.
LEMMA EntryDecision ==
  ASSUME NEW at, NEW m, NEW context, NEW held, NEW risk, NEW allowed,
         evaluate(0, at, m, context, held, risk, allowed) \in {"LONG", "SHORT"}
  PROVE  /\ ~context.blackout_active
         /\ _effective_zone(at).state # "inactive"
         /\ ~FlattenOnly(_effective_zone(at))
<1> DEFINE zone == _effective_zone(at)
           score == Scores(zone.name, m, context)
<1>1. evaluate(0, at, m, context, held, risk, allowed)
        = IF zone.state = "inactive" \/ FlattenOnly(zone) THEN "NO_TRADE"
          ELSE IF ~allowed \/ risk = "circuit_breaker" THEN "NO_TRADE"
          ELSE IF Enters(score.long, score.short, score.flat, zone, m, context)
          THEN "LONG"
          ELSE IF Enters(score.short, score.long, score.flat, zone, m, context)
          THEN "SHORT" ELSE "NO_TRADE"
  BY DEF evaluate
<1> HIDE DEF zone, score
<1>2. ~(zone.state = "inactive" \/ FlattenOnly(zone))
  BY <1>1
<1>3. \/ Enters(score.long, score.short, score.flat, zone, m, context)
      \/ Enters(score.short, score.long, score.flat, zone, m, context)
  BY <1>1
<1>4. ~context.blackout_active
  BY <1>3 DEF Enters, _evaluate_vetoes
<1>5. QED
  BY <1>2, <1>4 DEF zone

\* What an evaluation that keeps a position has found.
LEMMA HoldDecision ==
  ASSUME NEW p \in {-1, 1}, NEW at, NEW m \in Market, NEW context, NEW held,
         NEW risk, NEW allowed,
         evaluate(p, at, m, context, held, risk, allowed) # "FLAT"
  PROVE  LET zone == _effective_zone(at)
             score == Scores(zone.name, m, context)
             own == IF p = 1 THEN score.long ELSE score.short
         IN  /\ zone.state # "inactive" /\ ~FlattenOnly(zone)
             /\ ~(own < ExitDecayScore)
             /\ ~(held >= _zone_hold_limit(zone.name))
             /\ ~zone.is_last_bar /\ ~context.blackout_active
<1> DEFINE zone == _effective_zone(at)
           score == Scores(zone.name, m, context)
           own == IF p = 1 THEN score.long ELSE score.short
           against == IF p = 1 THEN score.short ELSE score.long
<1>1. evaluate(p, at, m, context, held, risk, allowed)
        = IF zone.state = "inactive" \/ FlattenOnly(zone) THEN "FLAT"
          ELSE IF Leaves(own, against, zone, m, context, held, risk)
          THEN "FLAT" ELSE "HOLD"
  <2>1. CASE p = 1
    BY <2>1 DEF evaluate
  <2>2. CASE p = -1
    BY <2>2 DEF evaluate
  <2>3. QED
    BY <2>1, <2>2
<1> HIDE DEF zone, score, own, against
<1>2. /\ ~(zone.state = "inactive" \/ FlattenOnly(zone))
      /\ ~Leaves(own, against, zone, m, context, held, risk)
  BY <1>1
<1>3. QED
  BY <1>2, Zenon DEF Leaves, zone, score, own

\* The evaluation of a minute: nothing is flattened, and what the order tells.
LEMMA EvaluationKeeps ==
  ASSUME NEW t, NEW allowed, _evaluate_current_state(t, allowed),
         \/ order' # order
         \/ position # 0 /\ ~closing'
  PROVE  /\ provider' = ProviderAfter(provider, file, halt, now', t)
         /\ \E m \in Markets :
              LET action == evaluate(position, get_current_zone(t), m,
                              get_context(provider', halt, t), Held(t), "normal",
                              allowed)
              IN  /\ action # "FLAT"
                  /\ order' # order =>
                       /\ action \in {"LONG", "SHORT"} /\ allowed /\ position = 0
                       /\ order = 0
                       /\ _zone_live_entry_allowed(get_current_zone(t))
         /\ position # 0 => ~_should_flatten_for_session_policy(t)
<1> DEFINE decision(m) == evaluate(position, get_current_zone(t), m,
                                   get_context(provider', halt, t), Held(t),
                                   "normal", allowed)
<1>1. provider' = ProviderAfter(provider, file, halt, now', t)
  BY DEF _evaluate_current_state
<1>2. \E m \in Markets :
        \/ _flatten_position
        \/ decision(m) \in {"NO_TRADE", "HOLD"} /\ UNCHANGED book
        \/ decision(m) \in {"LONG", "SHORT"}
           /\ \E side \in {-1, 1} : PlaceEntry(side, get_current_zone(t), allowed)
  BY DEF _evaluate_current_state
<1>3. PICK m \in Markets :
        \/ _flatten_position
        \/ decision(m) \in {"NO_TRADE", "HOLD"} /\ UNCHANGED book
        \/ decision(m) \in {"LONG", "SHORT"}
           /\ \E side \in {-1, 1} : PlaceEntry(side, get_current_zone(t), allowed)
  BY <1>2
<1> HIDE DEF decision
<1>4. ~_flatten_position
  BY DEF _flatten_position
<1>5. decision(m) # "FLAT"
  BY <1>3, <1>4
<1>6. ASSUME order' # order
      PROVE  /\ decision(m) \in {"LONG", "SHORT"} /\ allowed /\ position = 0
             /\ order = 0 /\ _zone_live_entry_allowed(get_current_zone(t))
  BY <1>3, <1>4, <1>6, Zenon DEF PlaceEntry, book
<1>7. ASSUME position # 0 PROVE ~_should_flatten_for_session_policy(t)
  <2>1. \/ _flatten_position
        \/ ~_should_flatten_for_session_policy(t)
        \/ position # 0 /\ _flatten_position
    BY DEF _evaluate_current_state
  <2>2. QED
    BY <1>4, <2>1
<1>8. QED
  BY <1>1, <1>5, <1>6, <1>7 DEF decision

\* Only a tick places an entry.
LEMMA EntryOnTick ==
  ASSUME Next, Entered
  PROVE  on_market_data
<1>1. ~EntryFills /\ ~EntryCancelled
  BY DEF EntryFills, EntryCancelled, Entered
<1>2. ~PositionCloses
  BY Zenon DEF PositionCloses, Entered
<1>3. ~FlattenFails
  BY DEF FlattenFails, Entered
<1>4. ~Restart
  BY Zenon DEF Restart, Entered
<1>5. ~Operator
  BY DEF Operator, WriteCalendar, RemoveCalendar, SetHalt, RemoveHalt, book, Entered
<1>6. QED
  BY <1>1, <1>2, <1>3, <1>4, <1>5 DEF Next

\* The step that places an entry: a completed bar is evaluated.
LEMMA EntrySteps ==
  ASSUME CycleTypes, Next, Entered
  PROVE  /\ bar' \in Nat /\ position = 0 /\ now' \in Nat /\ UNCHANGED outside
         /\ _zone_live_entry_allowed(get_current_zone(bar'))
         /\ provider' = ProviderAfter(provider, file, halt, now', bar')
         /\ \E m \in Markets, allowed \in BOOLEAN :
              evaluate(0, get_current_zone(bar'), m,
                       get_context(provider', halt, bar'), Held(bar'), "normal",
                       allowed) \in {"LONG", "SHORT"}
<1>1. on_market_data
  BY EntryOnTick
<1>2. PICK t \in now..(now + MaxGap) :
    /\ now' = t /\ update(t)
    /\ TickRisk(t) \/ TickOnly(t) \/ BarCompleted(t)
    /\ UNCHANGED outside
  BY <1>1 DEF on_market_data
<1>3. order' # order /\ order' # 0
  BY DEF Entered
<1>4. ~TickRisk(t)
  BY <1>3 DEF TickRisk, _flatten_position
<1>5. ~TickOnly(t)
  <2> SUFFICES ASSUME TickOnly(t) PROVE FALSE
    OBVIOUS
  <2>1. position # 0 /\ _evaluate_current_state(bar, FALSE)
    BY <1>3, Zenon DEF TickOnly, book
  <2>2. QED
    BY <1>3, <2>1, EvaluationKeeps
<1>6. PICK locked_out \in BOOLEAN : _evaluate_current_state(bucket, ~locked_out)
  BY <1>2, <1>4, <1>5 DEF BarCompleted
<1>7. bar' = bucket /\ bucket \in Nat
  BY <1>2, <1>4, <1>5 DEF BarCompleted, update, Completes, CycleTypes
<1>8. (~locked_out) \in BOOLEAN
  OBVIOUS
<1>9. now' \in Nat
  BY <1>2 DEF CycleTypes
<1> DEFINE free == ~locked_out
<1>10. _evaluate_current_state(bucket, free) /\ free \in BOOLEAN
  BY <1>6, <1>8
<1> HIDE DEF free
<1>11. /\ provider' = ProviderAfter(provider, file, halt, now', bucket)
       /\ \E m \in Markets :
            LET action == evaluate(position, get_current_zone(bucket), m,
                            get_context(provider', halt, bucket), Held(bucket),
                            "normal", free)
            IN  /\ action \in {"LONG", "SHORT"} /\ free /\ position = 0
                /\ order = 0
                /\ _zone_live_entry_allowed(get_current_zone(bucket))
  BY <1>3, <1>10, EvaluationKeeps
<1>12. PICK m \in Markets :
         /\ evaluate(position, get_current_zone(bucket), m,
                     get_context(provider', halt, bucket), Held(bucket),
                     "normal", free) \in {"LONG", "SHORT"}
         /\ position = 0
         /\ _zone_live_entry_allowed(get_current_zone(bucket))
  BY <1>11
<1>13. \E mm \in Markets, allowed \in BOOLEAN :
              evaluate(0, get_current_zone(bucket), mm,
                       get_context(provider', halt, bucket), Held(bucket), "normal",
                       allowed) \in {"LONG", "SHORT"}
  BY <1>10, <1>12
<1>14. QED
  BY <1>2, <1>7, <1>9, <1>11, <1>12, <1>13

\* A window is the same on every day.
LEMMA DayRepeats ==
  ASSUME NEW i \in 1..Len(Zones), NEW t \in Int
  PROVE  /\ t % Day \in 0..(Day - 1)
         /\ SinceStart(Zones[i], t % Day) = SinceStart(Zones[i], t)
         /\ ReferenceInZone(Zones[i], t % Day) <=> ReferenceInZone(Zones[i], t)
<1>1. Day \in Nat \ {0} /\ Zones[i].offset \in Int
  BY ZoneType
<1>2. t % Day \in 0..(Day - 1)
  BY <1>1, Remainder
<1>3. ZoneTime(Zones[i], t % Day) = ZoneTime(Zones[i], t)
  BY <1>1, RemainderShift DEF ZoneTime
<1>4. QED
  BY <1>2, <1>3 DEF SinceStart, ReferenceInZone

\* A zone that only flattens and is open is the one that prevails.
LEMMA FlattenOnlyShows ==
  ASSUME FlattenOnlyPrevails, NEW t \in Int, NEW i \in OpenZones(t),
         ~Zones[i].flatten_only,
         \A j \in OpenZones(t) \ {i} : Prevails(i, j, t)
  PROVE  \A j \in OpenZones(t) : ~Zones[j].flatten_only
<1> SUFFICES ASSUME NEW j \in OpenZones(t), Zones[j].flatten_only PROVE FALSE
  OBVIOUS
<1> DEFINE u == t % Day
<1>1. i \in 1..Len(Zones) /\ j \in 1..Len(Zones) /\ i # j
  BY DEF OpenZones
<1>2. /\ u \in 0..(Day - 1)
      /\ SinceStart(Zones[i], u) = SinceStart(Zones[i], t)
      /\ SinceStart(Zones[j], u) = SinceStart(Zones[j], t)
      /\ ReferenceInZone(Zones[i], u) /\ ReferenceInZone(Zones[j], u)
      /\ Zones[i].enabled /\ Zones[j].enabled
  BY <1>1, DayRepeats DEF OpenZones
<1>3. /\ SinceStart(Zones[i], t) \in Int /\ SinceStart(Zones[j], t) \in Int
      /\ i \in Int /\ j \in Int
  <2>1. \A n \in 0..(Day - 1) : n \in Int
    OBVIOUS
  <2>2. QED
    BY <1>1, <2>1, WindowMatches
<1>4. Prevails(i, j, t)
  BY <1>1
<1> HIDE DEF u
<1>5. \/ SinceStart(Zones[j], u) < SinceStart(Zones[i], u)
      \/ SinceStart(Zones[j], u) = SinceStart(Zones[i], u) /\ j < i
  BY <1>1, <1>2 DEF FlattenOnlyPrevails
<1>6. QED
  BY <1>2, <1>3, <1>4, <1>5 DEF Prevails

\* A zone of the configuration in which trading goes on, as the scheduler tells.
LEMMA TradingZone ==
  ASSUME FlattenOnlyPrevails, NEW t \in Int,
         _effective_zone(get_current_zone(t)).state # "inactive",
         _effective_zone(get_current_zone(t)).name # "Outside",
         ~FlattenOnly(_effective_zone(get_current_zone(t)))
  PROVE  \E i \in OpenZones(t) :
           /\ _effective_zone(get_current_zone(t)) =
                [name |-> Zones[i].name, state |-> "active",
                 minutes_remaining |-> ReferenceRemaining(Zones[i], t),
                 is_last_bar |-> ReferenceRemaining(Zones[i], t) <= LastBarMinutes]
           /\ \A j \in OpenZones(t) : ~Zones[j].flatten_only
<1> DEFINE zone == get_current_zone(t)
<1>1. zone.state # "inactive"
  BY DEF _effective_zone
<1>2. _effective_zone(zone) = zone
  BY <1>1 DEF _effective_zone
<1>3. OpenZones(t) # {}
  BY <1>1, CurrentZone DEF NoZone
<1>4. PICK i \in OpenZones(t) :
        /\ zone = [name |-> Zones[i].name,
                   state |-> IF Zones[i].flatten_only THEN "flatten_only"
                             ELSE "active",
                   minutes_remaining |-> ReferenceRemaining(Zones[i], t),
                   is_last_bar |->
                     ReferenceRemaining(Zones[i], t) <= LastBarMinutes]
        /\ \A j \in OpenZones(t) \ {i} : Prevails(i, j, t)
  BY <1>3, CurrentZone
<1>5. zone.state # "flatten_only"
  BY <1>2 DEF FlattenOnly
<1> HIDE DEF zone
<1>6. ~Zones[i].flatten_only
  BY <1>4, <1>5
<1>7. \A j \in OpenZones(t) : ~Zones[j].flatten_only
  BY <1>4, <1>6, FlattenOnlyShows
<1>8. zone = [name |-> Zones[i].name, state |-> "active",
              minutes_remaining |-> ReferenceRemaining(Zones[i], t),
              is_last_bar |-> ReferenceRemaining(Zones[i], t) <= LastBarMinutes]
  BY <1>4, <1>6
<1>9. QED
  BY <1>2, <1>7, <1>8 DEF zone

\* With the launch gate on for zones that do not name the outside, and zones that
\* only flatten that prevail, no entry is placed for a minute outside of a live
\* zone or in one that only flattens.
THEOREM EntriesInLiveZones ==
  OnlyZonesGoLive /\ FlattenOnlyPrevails => (Spec => EntryInLiveZone)
<1> SUFFICES ASSUME OnlyZonesGoLive, FlattenOnlyPrevails
             PROVE  Spec => EntryInLiveZone
  OBVIOUS
<1> DEFINE LiveZone ==
      LET open == {i \in 1..Len(Zones) :
                     Zones[i].enabled /\ ReferenceInZone(Zones[i], bar')}
      IN  /\ \E i \in open : Zones[i].name \in LiveZones
          /\ \A i \in open : ~Zones[i].flatten_only
<1>1. CycleTypes /\ [Next]_vars => [Entered => LiveZone]_vars
  <2> SUFFICES ASSUME CycleTypes, Next, Entered PROVE LiveZone
    OBVIOUS
  <2> DEFINE zone == get_current_zone(bar')
  <2>1. bar' \in Int /\ _zone_live_entry_allowed(zone)
    BY EntrySteps
  <2>2. PICK m \in Markets, allowed \in BOOLEAN :
          evaluate(0, zone, m, get_context(provider', halt, bar'), Held(bar'),
                   "normal", allowed) \in {"LONG", "SHORT"}
    BY EntrySteps
  <2>3. /\ _effective_zone(zone).state # "inactive"
        /\ ~FlattenOnly(_effective_zone(zone))
    BY <2>2, EntryDecision
  <2>4. /\ _effective_zone(zone).name \in LiveZones
        /\ _effective_zone(zone).name # "Outside"
    BY <2>1 DEF _zone_live_entry_allowed, ZoneName, OnlyZonesGoLive
  <2>5. PICK i \in OpenZones(bar') :
          /\ _effective_zone(zone).name = Zones[i].name
          /\ \A j \in OpenZones(bar') : ~Zones[j].flatten_only
    <3>1. \E i \in OpenZones(bar') :
            /\ _effective_zone(zone) =
                 [name |-> Zones[i].name, state |-> "active",
                  minutes_remaining |-> ReferenceRemaining(Zones[i], bar'),
                  is_last_bar |->
                    ReferenceRemaining(Zones[i], bar') <= LastBarMinutes]
            /\ \A j \in OpenZones(bar') : ~Zones[j].flatten_only
      BY <2>1, <2>3, <2>4, TradingZone
    <3>2. QED
      BY <3>1
  <2>6. OpenZones(bar') = {j \in 1..Len(Zones) :
                     Zones[j].enabled /\ ReferenceInZone(Zones[j], bar')}
    BY DEF OpenZones
  <2>7. QED
    BY <2>4, <2>5, <2>6
<1>2. QED
  BY <1>1, CycleTypesHold, PTL DEF Spec, EntryInLiveZone

\* A position has the time of its entry.
EntryTimed == position # 0 => entry_at # None

\* Fills and the adoption at a start both note the time.
LEMMA EntryTimedKept == CycleTypes /\ EntryTimed /\ [Next]_vars => EntryTimed'
<1> SUFFICES ASSUME CycleTypes, EntryTimed, [Next]_vars PROVE EntryTimed'
  OBVIOUS
<1>1. CASE on_market_data
  BY <1>1, TickType DEF EntryTimed
<1>2. CASE EntryFills
  <2>1. entry_at' = now
    BY <1>2, Zenon DEF EntryFills
  <2>2. QED
    BY <2>1 DEF EntryTimed, CycleTypes, None
<1>3. CASE EntryCancelled \/ FlattenFails
  BY <1>3 DEF EntryCancelled, FlattenFails, EntryTimed
<1>4. CASE PositionCloses
  <2>1. position' = 0
    BY <1>4, Zenon DEF PositionCloses
  <2>2. QED
    BY <2>1 DEF EntryTimed
<1>5. CASE Restart
  <2>1. position' = position /\ entry_at' = IF position # 0 THEN now ELSE None
    BY <1>5, Zenon DEF Restart
  <2>2. QED
    BY <2>1 DEF EntryTimed, CycleTypes, None
<1>6. CASE Operator
  BY <1>6 DEF Operator, WriteCalendar, RemoveCalendar, SetHalt, RemoveHalt, book,
              EntryTimed
<1>7. CASE UNCHANGED vars
  BY <1>7 DEF vars, book, EntryTimed
<1>8. QED
  BY <1>1, <1>2, <1>3, <1>4, <1>5, <1>6, <1>7 DEF Next

\* Nothing weighs nothing.
LEMMA NothingWeighs ==
  ASSUME "Outside" \notin DOMAIN ZoneWeights, NEW m \in Market, NEW context
  PROVE  /\ Scores("Outside", m, context).long = 0
         /\ Scores("Outside", m, context).short = 0
<1>1. ASSUME NEW f \in Weighing PROVE Weighted(f, NoWeight) = 0
  <2>1. \A n \in Int : n * 0 = 0
    OBVIOUS
  <2>2. QED
    BY <2>1 DEF Weighted, NoWeight, Weighing
<1>2. Weights("Outside").long = NoWeight /\ Weights("Outside").short = NoWeight
  BY DEF Weights
<1>3. QED
  BY <1>1, <1>2, FeatureTypes DEF Scores

\* The step that completes a bar and keeps the position.
LEMMA HoldSteps ==
  ASSUME CycleTypes, EntryTimed, Next, bar' # bar, bar' # None,
         position' # 0, ~closing'
  PROVE  /\ bar' \in Nat /\ position \in {-1, 1}
         /\ Held(bar') = bar' - entry_at
         /\ \E m \in Markets, allowed \in BOOLEAN :
              evaluate(position, get_current_zone(bar'), m,
                       get_context(provider', halt, bar'), Held(bar'), "normal",
                       allowed) # "FLAT"
         /\ on_market_data
         /\ provider' = ProviderAfter(provider, file, halt, now', bar')
         /\ ~_should_flatten_for_session_policy(bar')
<1>1. on_market_data
  <2>1. ~EntryFills /\ ~EntryCancelled /\ ~FlattenFails
    BY DEF EntryFills, EntryCancelled, FlattenFails
  <2>2. ~PositionCloses
    BY Zenon DEF PositionCloses
  <2>3. ~Restart
    BY Zenon DEF Restart
  <2>4. ~Operator
    BY DEF Operator, WriteCalendar, RemoveCalendar, SetHalt, RemoveHalt
  <2>5. QED
    BY <2>1, <2>2, <2>3, <2>4 DEF Next
<1>2. position' = position /\ entry_at' = entry_at
  BY <1>1, TickType
<1>3. PICK t \in now..(now + MaxGap) :
    /\ now' = t /\ update(t)
    /\ TickRisk(t) \/ TickOnly(t) \/ BarCompleted(t)
    /\ UNCHANGED outside
  BY <1>1 DEF on_market_data
<1>4. Completes(t) /\ bar' = bucket
  BY <1>3 DEF update
<1>5. ~TickRisk(t) /\ ~TickOnly(t)
  BY <1>4 DEF TickRisk, TickOnly, _flatten_position
<1>6. PICK locked_out \in BOOLEAN : _evaluate_current_state(bucket, ~locked_out)
  BY <1>3, <1>5 DEF BarCompleted
<1>7. (~locked_out) \in BOOLEAN
  OBVIOUS
<1> DEFINE free == ~locked_out
<1>8. _evaluate_current_state(bucket, free) /\ free \in BOOLEAN
  BY <1>6, <1>7
<1> HIDE DEF free
<1>9. /\ \E m \in Markets :
           evaluate(position, get_current_zone(bucket), m,
                    get_context(provider', halt, bucket), Held(bucket), "normal",
                    free) # "FLAT"
      /\ provider' = ProviderAfter(provider, file, halt, now', bucket)
      /\ ~_should_flatten_for_session_policy(bucket)
  BY <1>2, <1>8, EvaluationKeeps
<1>10. bar' \in Nat /\ position \in {-1, 1}
  BY <1>2, <1>4 DEF Completes, CycleTypes
<1>11. Held(bar') = bar' - entry_at
  BY <1>2 DEF Held, EntryTimed
<1>12. QED
  BY <1>1, <1>4, <1>8, <1>9, <1>10, <1>11

-----------------------------------------------------------------------------
(***************************************************************************)
(* The calendar.  The property speaks of the file, the decision reads a cache, *)
(* and the cache is refreshed by time and reloaded by mtime: the invariant says *)
(* when the cache is the file's.                                           *)
(***************************************************************************)
\* What the provider remembers is of the past.
ProviderIsPast ==
  /\ provider.mtime <= edits
  /\ provider.refreshed # Never => provider.refreshed <= now
\* What was read at the file's mtime, or since the last edit, is what it holds.
CacheFollowsFile ==
  file # Missing =>
    /\ provider.mtime = file.mtime => provider.cache = file.events
    /\ provider.refreshed # Never /\ now - provider.refreshed < age
         => provider.cache = file.events
ProviderInv == ProviderIsPast /\ CacheFollowsFile

\* The provider after it was asked.
LEMMA AskedFollows ==
  ASSUME CycleTypes, ProviderInv, NEW n \in Nat, n >= now,
         NEW old \in Nat,
         old = IF age + n - now > RefreshMinutes THEN RefreshMinutes ELSE age + n - now
  PROVE  LET asked == Asked(provider, file, n)
         IN  /\ asked.mtime <= edits
             /\ asked.refreshed # Never /\ asked.refreshed <= n
             /\ n - asked.refreshed < RefreshMinutes
             /\ file # Missing =>
                  /\ asked.mtime = file.mtime => asked.cache = file.events
                  /\ n - asked.refreshed < old => asked.cache = file.events
             /\ file = Missing => asked.cache = provider.cache
<1> DEFINE asked == Asked(provider, file, n)
           loaded == _load_calendar(provider, file)
<1>1. /\ provider.mtime \in Int /\ provider.refreshed \in Int
      /\ provider \in [cache : SUBSET UNION Calendars, mtime : Int, refreshed : Int]
      /\ edits \in Nat /\ age \in Nat /\ now \in Nat /\ RefreshMinutes \in Nat \ {0}
  BY DEF CycleTypes
<1>2. CASE provider.refreshed = Never \/ n - provider.refreshed >= RefreshMinutes
  <2>1. asked = [loaded EXCEPT !.refreshed = n]
    BY <1>2 DEF Asked
  <2>2. CASE file = Missing
    <3>1. loaded = provider
      BY <2>2 DEF _load_calendar
    <3>2. /\ asked.mtime = provider.mtime /\ asked.cache = provider.cache
          /\ asked.refreshed = n
      <4> HIDE DEF asked, loaded
      <4>1. QED
        BY <1>1, <2>1, <3>1
    <3> HIDE DEF asked, loaded
    <3>3. QED
      BY <1>1, <2>2, <3>2 DEF ProviderInv, ProviderIsPast, Never, asked
  <2>3. CASE file # Missing
    <3>1. file.mtime \in 0..edits
      BY <2>3 DEF CycleTypes
    <3>2. /\ asked.cache = file.events /\ asked.mtime = file.mtime
          /\ asked.refreshed = n
      <4>1. CASE provider.mtime = file.mtime /\ provider.cache # {}
        <5>1. loaded = provider
          BY <4>1 DEF _load_calendar
        <5>2. provider.cache = file.events
          BY <2>3, <4>1 DEF ProviderInv, CacheFollowsFile
        <5> HIDE DEF asked, loaded
        <5>3. QED
          BY <1>1, <2>1, <4>1, <5>1, <5>2
      <4>2. CASE ~(provider.mtime = file.mtime /\ provider.cache # {})
        <5>1. loaded = [provider EXCEPT !.cache = file.events, !.mtime = file.mtime]
          BY <2>3, <4>2 DEF _load_calendar
        <5> HIDE DEF asked, loaded
        <5>2. QED
          BY <1>1, <2>1, <5>1
      <4>3. QED
        BY <4>1, <4>2
    <3> HIDE DEF asked, loaded
    <3>3. QED
      BY <1>1, <2>3, <3>1, <3>2 DEF Never, asked
  <2>4. QED
    BY <2>2, <2>3
<1>3. CASE ~(provider.refreshed = Never \/ n - provider.refreshed >= RefreshMinutes)
  <2>1. asked = provider
    BY <1>3 DEF Asked
  <2>2. /\ provider.refreshed # Never /\ provider.refreshed <= now
        /\ provider.mtime <= edits /\ n - provider.refreshed < RefreshMinutes
    BY <1>1, <1>3 DEF ProviderInv, ProviderIsPast
  <2>3. n - provider.refreshed < old => now - provider.refreshed < age
    BY <1>1
  <2> HIDE DEF asked
  <2>4. QED
    BY <1>1, <2>1, <2>2, <2>3 DEF ProviderInv, CacheFollowsFile, asked
<1>4. QED
  BY <1>2, <1>3

\* Time that passes without a call takes nothing away.
LEMMA WaitingFollows ==
  ASSUME CycleTypes, ProviderInv, NEW n \in Nat, n >= now, NEW old \in Nat,
         old = IF age + n - now > RefreshMinutes THEN RefreshMinutes ELSE age + n - now
  PROVE  /\ provider.refreshed # Never => provider.refreshed <= n
         /\ file # Missing /\ provider.refreshed # Never /\ n - provider.refreshed < old
              => provider.cache = file.events
<1>1. /\ provider.refreshed \in Int /\ age \in Nat /\ now \in Nat
      /\ RefreshMinutes \in Nat
  BY DEF CycleTypes
<1>2. n - provider.refreshed < old => now - provider.refreshed < age
  BY <1>1
<1>3. provider.refreshed # Never => provider.refreshed <= n
  BY <1>1 DEF ProviderInv, ProviderIsPast
<1>4. QED
  BY <1>2, <1>3 DEF ProviderInv, CacheFollowsFile

\* The age of the file is a time.
LEMMA AgeType ==
  ASSUME CycleTypes, on_market_data
  PROVE  age' \in Nat
<1>1. /\ age \in Nat /\ now \in Nat /\ RefreshMinutes \in Nat
      /\ now' \in Nat /\ now' >= now
      /\ age' = IF age + now' - now > RefreshMinutes THEN RefreshMinutes
                ELSE age + now' - now
  BY TickType DEF CycleTypes
<1>2. QED
  BY <1>1, CountedTime

\* An edit gives the file a time of its own; a call reads it or keeps what is
\* new enough.
LEMMA ProviderInvKept == CycleTypes /\ ProviderInv /\ [Next]_vars => ProviderInv'
<1> SUFFICES ASSUME CycleTypes, ProviderInv, [Next]_vars PROVE ProviderInv'
  OBVIOUS
<1>0. /\ provider.mtime \in Int /\ provider.refreshed \in Int
      /\ now \in Nat /\ edits \in Nat
  BY DEF CycleTypes
<1>1. CASE on_market_data
  <2>1. /\ now' \in Nat /\ now' >= now /\ file' = file /\ edits' = edits
        /\ age' = IF age + now' - now > RefreshMinutes THEN RefreshMinutes
                  ELSE age + now' - now
        /\ provider' \in {provider, Asked(provider, file, now')}
    BY <1>1, TickType DEF outside
  <2>2. age' \in Nat
    BY <1>1, AgeType
  <2> DEFINE n == now'
             old == age'
             after == provider'
  <2>3. /\ n \in Nat /\ n >= now /\ old \in Nat
        /\ old = IF age + n - now > RefreshMinutes THEN RefreshMinutes
                 ELSE age + n - now
        /\ after \in {provider, Asked(provider, file, n)}
    BY <2>1, <2>2
  <2> HIDE DEF n, old, after
  <2>4. CASE after = provider
    <3>1. /\ provider.refreshed # Never => provider.refreshed <= n
          /\ file # Missing /\ provider.refreshed # Never
             /\ n - provider.refreshed < old => provider.cache = file.events
      BY <2>3, WaitingFollows
    <3>2. QED
      BY <2>1, <2>4, <3>1 DEF ProviderInv, ProviderIsPast, CacheFollowsFile, after, n, old
  <2>5. CASE after = Asked(provider, file, n)
    <3>1. /\ after.mtime <= edits
          /\ after.refreshed # Never /\ after.refreshed <= n
          /\ file # Missing =>
               /\ after.mtime = file.mtime => after.cache = file.events
               /\ n - after.refreshed < old => after.cache = file.events
      BY <2>3, <2>5, AskedFollows
    <3>2. QED
      BY <2>1, <3>1 DEF ProviderInv, ProviderIsPast, CacheFollowsFile, after, n, old
  <2>6. QED
    BY <2>3, <2>4, <2>5
<1>2. CASE EntryFills \/ EntryCancelled \/ FlattenFails
  BY <1>2 DEF EntryFills, EntryCancelled, FlattenFails, outside,
              ProviderInv, ProviderIsPast, CacheFollowsFile
<1>3. CASE PositionCloses
  <2>1. UNCHANGED <<now, file, edits, age, provider>>
    BY <1>3, Zenon DEF PositionCloses, outside
  <2>2. QED
    BY <2>1 DEF ProviderInv, ProviderIsPast, CacheFollowsFile
<1>4. CASE Restart
  <2>1. provider' = NoProvider /\ edits' = edits + 1 /\ file' = file
    BY <1>4, Zenon DEF Restart
  <2>2. provider'.mtime = -1 /\ provider'.refreshed = Never
    BY <2>1 DEF NoProvider, Never
  <2>3. file # Missing => file.mtime \in Nat
    BY DEF CycleTypes
  <2>4. QED
    BY <1>0, <2>1, <2>2, <2>3 DEF ProviderInv, ProviderIsPast, CacheFollowsFile
<1>5. CASE WriteCalendar
  <2>1. /\ edits' = edits + 1 /\ file'.mtime = edits + 1 /\ age' = 0
        /\ UNCHANGED <<now, provider>>
    BY <1>5 DEF WriteCalendar, Edit
  <2>2. provider.mtime <= edits
    BY DEF ProviderInv, ProviderIsPast
  <2>3. provider.refreshed # Never => provider.refreshed <= now
    BY DEF ProviderInv, ProviderIsPast
  <2>4. QED
    BY <1>0, <2>1, <2>2, <2>3 DEF ProviderInv, ProviderIsPast, CacheFollowsFile
<1>6. CASE RemoveCalendar
  <2>1. edits' = edits + 1 /\ file' = Missing /\ UNCHANGED <<now, provider>>
    BY <1>6 DEF RemoveCalendar, Edit
  <2>2. QED
    BY <1>0, <2>1 DEF ProviderInv, ProviderIsPast, CacheFollowsFile
<1>7. CASE SetHalt
  <2>1. edits' = edits + 1 /\ UNCHANGED <<now, file, age, provider>>
    BY <1>7 DEF SetHalt, Edit
  <2>2. QED
    BY <1>0, <2>1 DEF ProviderInv, ProviderIsPast, CacheFollowsFile
<1>8. CASE RemoveHalt
  BY <1>8 DEF RemoveHalt, ProviderInv, ProviderIsPast, CacheFollowsFile
<1>9. CASE UNCHANGED vars
  BY <1>9 DEF vars, outside, ProviderInv, ProviderIsPast, CacheFollowsFile
<1>10. QED
  BY <1>1, <1>2, <1>3, <1>4, <1>5, <1>6, <1>7, <1>8, <1>9 DEF Next, Operator

\* What makes EntryObeysEvents hold: the cache is the file's whenever its
\* mtime or the time of the refresh says so, after any edits and restarts.
THEOREM ProviderFollows == Spec => []ProviderInv
<1>1. Init => ProviderInv
  <2> SUFFICES ASSUME Init PROVE ProviderInv
    OBVIOUS
  <2>1. /\ provider = NoProvider /\ edits = 0
        /\ file \in {Missing} \cup [events : Calendars, mtime : {0}]
    BY Zenon DEF Init
  <2>2. provider.mtime = -1 /\ provider.refreshed = Never
    BY <2>1 DEF NoProvider, Never
  <2>3. file # Missing => file.mtime = 0
    BY <2>1
  <2>4. QED
    BY <2>1, <2>2, <2>3 DEF ProviderInv, ProviderIsPast, CacheFollowsFile
<1>2. QED
  BY <1>1, ProviderInvKept, CycleTypesHold, PTL DEF Spec

\* What an evaluation that a halt or an event did not stop may say of the
\* minute of its bar.
EventFree ==
  /\ ~HaltActive(halt, bar')
  /\ age' >= RefreshMinutes /\ file # Missing /\ file.events # {}
     => \A e \in file.events : ~InWindow(e, bar')
  /\ file = Missing /\ provider.cache = {}
     => \A e \in _fallback_events(bar') : ~InWindow(e, bar')

\* The context that the evaluation saw is that of the file.
LEMMA NoEventStands ==
  ASSUME CycleTypes, ProviderInv, on_market_data, bar' \in Nat,
         provider' = ProviderAfter(provider, file, halt, now', bar'),
         ~get_context(provider', halt, bar').blackout_active
  PROVE  EventFree
<1> DEFINE t == bar'
           n == now'
           after == provider'
<1>1. t \in Nat /\ n \in Nat /\ after = ProviderAfter(provider, file, halt, n, t)
  BY TickType
<1>2. ~get_context(after, halt, t).blackout_active
  OBVIOUS
<1> HIDE DEF t, n, after
<1>3. ~HaltActive(halt, t)
  BY <1>2 DEF get_context
<1>4. {e \in _iter_events(after, t) : InWindow(e, t)} = {}
  BY <1>2, <1>3 DEF get_context
<1>5. after = Asked(provider, file, n)
  BY <1>1, <1>3 DEF ProviderAfter
<1>6. /\ n >= now
      /\ age' = IF age + n - now > RefreshMinutes THEN RefreshMinutes
                ELSE age + n - now
  BY TickType DEF n
<1> DEFINE old == age'
<1>7. old \in Nat
  BY <1>1, <1>6 DEF CycleTypes
<1>8. old = IF age + n - now > RefreshMinutes THEN RefreshMinutes
            ELSE age + n - now
  BY <1>6
<1> HIDE DEF old
<1>9. /\ after.refreshed \in Int /\ n - after.refreshed < RefreshMinutes
      /\ file # Missing /\ n - after.refreshed < old => after.cache = file.events
      /\ file = Missing => after.cache = provider.cache
  <2>1. n \in Int
    BY <1>1
  <2>2. QED
    BY <1>1, <1>5, <1>6, <1>7, <1>8, <2>1, AskedFollows, AskedType
<1>10. ASSUME old >= RefreshMinutes, file # Missing, file.events # {}
       PROVE  \A e \in file.events : ~InWindow(e, t)
  <2>1. after.cache = file.events
    BY <1>1, <1>7, <1>9, <1>10
  <2>2. QED
    BY <1>4, <1>10, <2>1 DEF _iter_events
<1>11. ASSUME file = Missing, provider.cache = {}
       PROVE  \A e \in _fallback_events(t) : ~InWindow(e, t)
  BY <1>4, <1>9, <1>11 DEF _iter_events
<1>12. QED
  BY <1>3, <1>10, <1>11 DEF t, old, EventFree

\* Whatever the calendar, its edits and the calls that came before, no entry is
\* placed for a minute in the window of an event that the file has named for
\* the time of a refresh, nor under a halt.
THEOREM EntriesObeyEvents == Spec => EntryObeysEvents
<1>1. CycleTypes /\ ProviderInv /\ [Next]_vars => [Entered => EventFree]_vars
  <2> SUFFICES ASSUME CycleTypes, ProviderInv, Next, Entered PROVE EventFree
    OBVIOUS
  <2> DEFINE context == get_context(provider', halt, bar')
  <2>1. /\ bar' \in Nat
        /\ provider' = ProviderAfter(provider, file, halt, now', bar')
    BY EntrySteps
  <2>2. ~context.blackout_active
    <3>1. PICK m \in Markets, allowed \in BOOLEAN :
            evaluate(0, get_current_zone(bar'), m, context, Held(bar'), "normal",
                     allowed) \in {"LONG", "SHORT"}
      BY EntrySteps
    <3> HIDE DEF context
    <3>2. QED
      BY <3>1, EntryDecision
  <2>3. QED
    BY <2>1, <2>2, EntryOnTick, NoEventStands
<1>2. QED
  BY <1>1, CycleTypesHold, ProviderFollows, PTL DEF Spec, EntryObeysEvents, EventFree

\* With a positive ExitDecayScore and no weights for the outside, the evaluation
\* of a bar leaves no position open for a minute outside of the zones, in the
\* last bars of one, past its time stop, under a halt or in the window of an
\* event: EntryTimed sees to it that the time stop has a time to count from,
\* ProviderInv that the events are those of the file.
THEOREM PositionsStayInZones ==
  OutsideHoldsNothing /\ FlattenOnlyPrevails => (Spec => HeldOnlyInZone)
<1> SUFFICES ASSUME OutsideHoldsNothing, FlattenOnlyPrevails
             PROVE  Spec => HeldOnlyInZone
  OBVIOUS
<1> DEFINE Kept == bar' # bar /\ bar' # None /\ position' # 0 /\ ~closing'
           InZone ==
             /\ \E i \in 1..Len(Zones) :
                  /\ Zones[i].enabled /\ ReferenceInZone(Zones[i], bar')
                  /\ ReferenceRemaining(Zones[i], bar') > LastBarMinutes
                  /\ bar' - entry_at < _zone_hold_limit(Zones[i].name)
             /\ \A i \in 1..Len(Zones) :
                  Zones[i].enabled /\ Zones[i].flatten_only
                    => ~ReferenceInZone(Zones[i], bar')
<1>1. CycleTypes /\ EntryTimed /\ ProviderInv /\ [Next]_vars
        => [Kept => InZone /\ EventFree]_vars
  <2> SUFFICES ASSUME CycleTypes, EntryTimed, ProviderInv, Next, Kept
               PROVE  InZone /\ EventFree
    OBVIOUS
  <2> DEFINE zone == get_current_zone(bar')
             context == get_context(provider', halt, bar')
             held == bar' - entry_at
             hot == _effective_zone(zone)
  <2>1. /\ bar' \in Int /\ position \in {-1, 1}
        /\ \E m \in Markets, allowed \in BOOLEAN :
             evaluate(position, zone, m, context, held, "normal", allowed) # "FLAT"
    BY HoldSteps
  <2>2. PICK m \in Market, allowed \in BOOLEAN :
          evaluate(position, zone, m, context, held, "normal", allowed) # "FLAT"
    BY <2>1
  <2> DEFINE score == Scores(hot.name, m, context)
             own == IF position = 1 THEN score.long ELSE score.short
  <2>3. /\ hot.state # "inactive" /\ ~FlattenOnly(hot)
        /\ ~(own < ExitDecayScore)
        /\ ~(held >= _zone_hold_limit(hot.name))
        /\ ~hot.is_last_bar /\ ~context.blackout_active
    <3> HIDE DEF zone, context, held
    <3>1. position \in {-1, 1}
      BY <2>1
    <3>2. QED
      BY <2>2, <3>1, HoldDecision
  <2>4. hot.name # "Outside"
    <3> SUFFICES ASSUME hot.name = "Outside" PROVE FALSE
      OBVIOUS
    <3>1. own = 0
      BY NothingWeighs DEF OutsideHoldsNothing
    <3>2. 0 < ExitDecayScore
      BY MatrixNumbers DEF OutsideHoldsNothing
    <3>3. QED
      BY <2>3, <3>1, <3>2
  <2>5. PICK i \in OpenZones(bar') :
          /\ hot = [name |-> Zones[i].name, state |-> "active",
                    minutes_remaining |-> ReferenceRemaining(Zones[i], bar'),
                    is_last_bar |->
                      ReferenceRemaining(Zones[i], bar') <= LastBarMinutes]
          /\ \A j \in OpenZones(bar') : ~Zones[j].flatten_only
    BY <2>1, <2>3, <2>4, TradingZone
  <2>6. i \in 1..Len(Zones) /\ Zones[i].enabled /\ ReferenceInZone(Zones[i], bar')
    BY DEF OpenZones
  <2>7. ReferenceRemaining(Zones[i], bar') > LastBarMinutes
    <3>1. ReferenceRemaining(Zones[i], bar') \in Int
      <4>1. Zones[i].end - Zones[i].start \in Int /\ Day \in Nat \ {0}
        BY <2>6, ZoneType
      <4>2. /\ (Zones[i].end - Zones[i].start) % Day \in 0..(Day - 1)
            /\ SinceStart(Zones[i], bar') \in 0..(Day - 1)
        BY <2>1, <2>6, <4>1, Remainder, WindowMatches
      <4>3. QED
        BY <4>1, <4>2 DEF ReferenceRemaining
    <3>2. ~(ReferenceRemaining(Zones[i], bar') <= LastBarMinutes)
      <4>1. hot.is_last_bar = (ReferenceRemaining(Zones[i], bar') <= LastBarMinutes)
        BY <2>5
      <4> HIDE DEF hot
      <4>2. QED
        BY <2>3, <4>1, Zenon
    <3>3. QED
      BY <3>1, <3>2
  <2>8. held < _zone_hold_limit(Zones[i].name)
    <3>1. ~(held >= _zone_hold_limit(Zones[i].name))
      BY <2>3, <2>5
    <3>2. held \in Int
      BY <2>1 DEF CycleTypes, None
    <3>3. _zone_hold_limit(Zones[i].name) \in Int
      BY MatrixNumbers DEF _zone_hold_limit
    <3> HIDE DEF held
    <3>4. QED
      BY <3>1, <3>2, <3>3
  <2>9. EventFree
    <3>1. /\ bar' \in Nat /\ on_market_data
          /\ provider' = ProviderAfter(provider, file, halt, now', bar')
      BY HoldSteps
    <3> HIDE DEF zone, held, hot
    <3>2. QED
      BY <2>3, <3>1, NoEventStands
  <2>10. \A j \in 1..Len(Zones) :
           Zones[j].enabled /\ Zones[j].flatten_only
             => ~ReferenceInZone(Zones[j], bar')
    BY <2>5 DEF OpenZones
  <2>11. QED
    BY <2>6, <2>7, <2>8, <2>9, <2>10
<1>2. Init => EntryTimed
  <2>1. Init => position = 0
    BY Zenon DEF Init
  <2>2. QED
    BY <2>1 DEF EntryTimed
<1>3. QED
  BY <1>1, <1>2, EntryTimedKept, CycleTypesHold, ProviderFollows, PTL
     DEF Spec, HeldOnlyInZone, EventFree
-----------------------------------------------------------------------------
(* The end of the session.  The property speaks of who entered a position, the *)
(* policy reads the zone that the entry left behind: the invariant ties them.  *)

\* What this trader entered has the name of a live zone, from the order on.
ZoneKnown ==
  /\ order # 0 => position = 0
  /\ (position # 0 \/ order # 0) /\ ~adopted => entry_zone \in LiveZones

\* An evaluation places an entry for a live zone, or leaves the zone alone.
LEMMA EvaluationZone ==
  ASSUME GateEnabled, NEW t, NEW allowed, _evaluate_current_state(t, allowed)
  PROVE  /\ position' = position
         /\ \/ order = 0 /\ position = 0 /\ entry_zone' \in LiveZones
            \/ order' = order /\ entry_zone' = entry_zone /\ (adopted' <=> adopted)
<1>1. CASE _flatten_position
  BY <1>1, Zenon DEF _flatten_position
<1>2. CASE UNCHANGED book
  BY <1>2, Zenon DEF book
<1>3. ASSUME NEW side, PlaceEntry(side, get_current_zone(t), allowed)
      PROVE  /\ position' = position
             /\ \/ order = 0 /\ position = 0 /\ entry_zone' \in LiveZones
                \/ /\ order' = order /\ entry_zone' = entry_zone
                   /\ (adopted' <=> adopted)
  <2>1. position' = position /\ adopted' = (adopted /\ order' = order)
    BY <1>3, Zenon DEF PlaceEntry
  <2>2. CASE order' = order
    BY <1>3, <2>1, <2>2, Zenon DEF PlaceEntry
  <2>3. CASE order' # order
    <3>1. /\ _zone_live_entry_allowed(get_current_zone(t)) /\ position = 0 /\ order = 0
          /\ entry_zone' = ZoneName(get_current_zone(t))
      BY <1>3, <2>3 DEF PlaceEntry
    <3>2. QED
      BY <2>1, <3>1, Zenon DEF _zone_live_entry_allowed
  <2>4. QED
    BY <2>2, <2>3
<1>4. QED
  BY <1>1, <1>2, <1>3 DEF _evaluate_current_state

\* The same of a tick.
LEMMA TickZone ==
  ASSUME GateEnabled, on_market_data
  PROVE  /\ position' = position
         /\ \/ order = 0 /\ position = 0 /\ entry_zone' \in LiveZones
            \/ order' = order /\ entry_zone' = entry_zone /\ (adopted' <=> adopted)
<1>1. PICK t : TickRisk(t) \/ TickOnly(t) \/ BarCompleted(t)
  BY DEF on_market_data
<1>2. CASE TickRisk(t)
  BY <1>2, Zenon DEF TickRisk, _flatten_position
<1>3. CASE TickOnly(t)
  <2>1. \/ _evaluate_current_state(bar, FALSE)
        \/ UNCHANGED <<provider, book>>
    BY <1>3, Zenon DEF TickOnly
  <2>2. CASE UNCHANGED <<provider, book>>
    BY <2>2, Zenon DEF book
  <2>3. QED
    BY <2>1, <2>2, EvaluationZone
<1>4. CASE BarCompleted(t)
  <2>1. PICK locked_out \in BOOLEAN : _evaluate_current_state(bucket, ~locked_out)
    BY <1>4 DEF BarCompleted
  <2>2. QED
    BY <2>1, EvaluationZone
<1>5. QED
  BY <1>1, <1>2, <1>3, <1>4

\* A fill takes the zone of its entry, a close gives it up, and a start knows
\* none.
LEMMA ZoneKnownKept ==
  ASSUME OnlyZonesGoLive PROVE ZoneKnown /\ [Next]_vars => ZoneKnown'
<1> SUFFICES ASSUME ZoneKnown, [Next]_vars PROVE ZoneKnown'
  OBVIOUS
<1>1. CASE on_market_data
  <2>1. GateEnabled
    BY DEF OnlyZonesGoLive
  <2>2. QED
    BY <1>1, <2>1, TickZone, Zenon DEF ZoneKnown
<1>2. CASE EntryFills
  <2>1. /\ order' = 0 /\ (adopted' <=> adopted)
        /\ order # 0
        /\ entry_zone # "" => entry_zone' = entry_zone
    BY <1>2, Zenon DEF EntryFills
  <2>2. entry_zone \in LiveZones => entry_zone # ""
    BY LiveZonesAreNamed, Zenon DEF LiveZonesAreNamed
  <2>3. QED
    BY <2>1, <2>2, Zenon DEF ZoneKnown
<1>3. CASE EntryCancelled
  <2>1. order # 0 /\ order' = 0 /\ position' = position
    BY <1>3, Zenon DEF EntryCancelled
  <2>2. QED
    BY <2>1, Zenon DEF ZoneKnown
<1>4. CASE PositionCloses
  <2>1. position # 0 /\ position' = 0 /\ order' = order
    BY <1>4, Zenon DEF PositionCloses
  <2>2. QED
    BY <2>1, Zenon DEF ZoneKnown
<1>5. CASE Restart
  <2>1. /\ position' = position /\ order' = order
        /\ adopted' <=> (position # 0 \/ order # 0)
    BY <1>5, Zenon DEF Restart
  <2>2. QED
    BY <2>1, Zenon DEF ZoneKnown
<1>6. CASE FlattenFails \/ Operator \/ UNCHANGED vars
  <2>1. UNCHANGED <<position, order, entry_zone, adopted>>
    BY <1>6 DEF FlattenFails, Operator, WriteCalendar, RemoveCalendar, SetHalt,
                RemoveHalt, vars, book
  <2>2. QED
    BY <2>1, Zenon DEF ZoneKnown
<1>7. QED
  BY <1>1, <1>2, <1>3, <1>4, <1>5, <1>6 DEF Next

\* With the launch gate on, the evaluation of a bar leaves no position open past
\* the hard flat time of its day but one that was taken over at a start: the
\* zone it was entered in is kept through the order, the fill, cancelled orders
\* and earlier positions.
THEOREM SessionsEndFlat == OnlyZonesGoLive => (Spec => FlatBySessionEnd)
<1> SUFFICES ASSUME OnlyZonesGoLive PROVE Spec => FlatBySessionEnd
  OBVIOUS
<1> DEFINE Kept == /\ bar' # bar /\ bar' # None /\ position' # 0 /\ ~closing'
                   /\ SessionExitEnabled
           Early == (bar' + HardFlatOffset) % Day < HardFlat
<1>1. CycleTypes /\ EntryTimed /\ ZoneKnown /\ [Next]_vars
        => [Kept => adopted' \/ Early]_vars
  <2> SUFFICES ASSUME CycleTypes, EntryTimed, ZoneKnown, Next, Kept, ~adopted'
               PROVE  Early
    OBVIOUS
  <2>1. /\ bar' \in Nat /\ position \in {-1, 1} /\ on_market_data
        /\ ~_should_flatten_for_session_policy(bar')
    BY HoldSteps
  <2>2. ~adopted /\ position # 0
    <3>1. GateEnabled
      BY DEF OnlyZonesGoLive
    <3>2. position # 0
      BY <2>1
    <3>3. QED
      BY <2>1, <3>1, <3>2, TickZone, Zenon
  <2>3. entry_zone \in LiveZones
    BY <2>2, Zenon DEF ZoneKnown
  <2> DEFINE at == (bar' + HardFlatOffset) % Day
  <2>4. ~(at >= HardFlat)
    BY <2>1, <2>2, <2>3 DEF _should_flatten_for_session_policy
  <2>5. at \in Int /\ HardFlat \in Int
    <3>1. Day \in Nat \ {0} /\ bar' + HardFlatOffset \in Int
      BY <2>1, SchedulerConfig DEF SchedulerConfig
    <3>2. at \in 0..(Day - 1)
      BY <3>1, Remainder
    <3>3. QED
      BY <3>1, <3>2
  <2> HIDE DEF at
  <2>6. at < HardFlat
    BY <2>4, <2>5
  <2>7. QED
    BY <2>6 DEF at
<1>2. Init => EntryTimed /\ ZoneKnown
  <2>1. Init => position = 0 /\ order = 0
    BY Zenon DEF Init
  <2>2. QED
    BY <2>1 DEF EntryTimed, ZoneKnown
<1>3. ZoneKnown /\ [Next]_vars => ZoneKnown'
  BY ZoneKnownKept
<1>4. QED
  BY <1>1, <1>2, <1>3, EntryTimedKept, CycleTypesHold, PTL DEF Spec, FlatBySessionEnd
===========================================================================
