--------------------------- MODULE MCPaperTrading ---------------------------
(* Tickers are interchangeable. *)
EXTENDS PaperTrading, TLC

Symmetry == Permutations(Tickers)
=============================================================================
