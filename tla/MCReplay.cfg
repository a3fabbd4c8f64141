\* Up to three contracts, partial fills, exits three ticks away.
SPECIFICATION ReplaySpec
CONSTANTS
  Quotes <- MCQuotes
  ClientQuote <- MCClientQuote
  AllowPartialFills = TRUE
  MaxContracts = 3
  UseLimitOrders = TRUE
  LimitOffset = 1
  MaxSlippage = 2
  StopDistance = 3
  TargetDistance = 3
  MaxPlaced = 17
INVARIANTS
  TransitionsArePriced
  ExitsAreRecorded
CHECK_DEADLOCK FALSE
