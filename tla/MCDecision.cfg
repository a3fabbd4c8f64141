SPECIFICATION Spec
CONSTANTS
  Day = 14
  Zones <- MCZones
  LastBarMinutes = 1
  Impacts = {"low", "medium", "high"}
  ImpactWindows <- MCImpactWindows
  NewsTimes = {4}
  NewsImpact = "medium"
  NewsDay = 14
  NewsOffset = 1
  RefreshMinutes = 1
  MaxHaltAge = 2
  ZoneWeights <- MCZoneWeights
  ZoneVetoes <- MCZoneVetoes
  BlockedRegimes <- MCBlockedRegimes
  MinEntryScore = 5
  MinScoreGap = 2
  ExitDecayScore = 2
  ReverseScoreGap = 3
  FullSizeScore = 6
  FlatBiasBuffer = 1
  MaxSpread = 3
  StressSpread = 5
  MaxHold <- MCMaxHold
  DefaultHold = 3
  MinRemaining = 2
  TradeOutside = TRUE
  Markets <- MCMarkets
  Calendars <- MCCalendars
  LiveZones = {"Pre-Open", "Midday"}
  GateEnabled = TRUE
  HardFlat = 12
  HardFlatOffset = 6
  SessionExitEnabled = TRUE
  MaxGap = 2
  Horizon = 13
  MaxEdits = 1
INVARIANTS ZoneMatchesReference EntrySurvives
PROPERTIES EntryInLiveZone EntryObeysEvents HeldOnlyInZone 
CHECK_DEADLOCK FALSE
