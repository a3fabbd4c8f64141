-------------------------- MODULE MCTradingEngine --------------------------
(***************************************************************************)
(* TradingEngine with finite constants for TLC.  The engine treats the two *)
(* sides alike, so the strategy enters long only; positions of both signs  *)
(* still occur when exits fill one after the other.                        *)
(***************************************************************************)
EXTENDS TradingEngine

MCLong == {1}
=============================================================================
