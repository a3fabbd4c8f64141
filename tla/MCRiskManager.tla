--------------------------- MODULE MCRiskManager ---------------------------
(* A small account for TLC: one or two contracts, two prices a point       *)
(* apart, sessions of two ticks; sizes for every account of up to five     *)
(* contracts, quotes within the slippage of each other or beyond it.       *)
EXTENDS EntrySizing

MCPrices == 1..2
MCSymmetry == Permutations(Zones)
MCAccounts ==
  [max_contracts : {1, 5}, default_contracts : {3, 12}, risk_per_contract : {12}]
MCVolatilities == {0, 4, 13}
MCQuotes == {0, 40, 50}
=============================================================================
