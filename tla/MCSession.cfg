SPECIFICATION FairSpec
CONSTANTS
  AccountLists <- MCAccountLists
  NoAccount = NoAccount
  PreferredId = 1
  RequirePractice = TRUE
  Attempts = 2
  MaxFaults = 4
INVARIANTS PracticeOnly StartedOnQuote ConnectedMeansListening
PROPERTIES HubReconnects EngineSettles
CHECK_DEADLOCK FALSE
