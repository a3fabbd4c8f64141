SPECIFICATION Spec
CONSTANTS
  MaxDailyLoss = 2
  MaxPositionLoss = 1
  MaxConsecutiveLosses = 2
  MaxTradesPerHour = 2
  MaxTradesPerZone = 2
  MaxDailyTrades = 2
  MaxContracts = 2
  Zones = {z1, z2}
  Prices <- MCPrices
  SessionLength = 2
  HourLength = 0
  MaxTime = 2
  MaxTrades = 3
  MaxBefore = 0
  Accounts <- MCAccounts
  Volatilities <- MCVolatilities
  Quotes <- MCQuotes
  Offset = 2
  MaxSlippage = 6
INVARIANTS
  LedgerMatchesHistory
  HourWindowComplete
  EntriesPerDay
  RealisedPnlMatchesCash
  EntryWithinLimits
PROPERTY NoEntryPastLimits
SYMMETRY MCSymmetry
