------------------------------ MODULE MCBridge ------------------------------
(***************************************************************************)
(* Bridge with finite constants for TLC: a kind of each sort.              *)
(***************************************************************************)
EXTENDS Bridge, TLC

CONSTANTS events, account_trades

MCKindOrder == <<events, account_trades>>
MCCursorKinds == {account_trades}
MCMaxRows == (events :> 2) @@ (account_trades :> 1)
=============================================================================
