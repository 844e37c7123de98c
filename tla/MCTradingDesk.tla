---------------------------- MODULE MCTradingDesk ----------------------------
(* One ticker, whose entry lies two levels over the minimum stop. *)
EXTENDS TradingDesk
=============================================================================
