-------------------------- MODULE MCBacktestEngine --------------------------
(* Two strategies share one portfolio; a second symbol has fewer bars. *)
EXTENDS BacktestEngine

MCMarkets == [close : {1, 2}, volume : {1}] \cup {[close |-> 2, volume |-> 0], [close |-> 1, volume |-> 2]}
MCLast == [A |-> 3, B |-> 2]
MCWatches == [g1 |-> {"A", "B"}, g2 |-> {"A", "B"}]
=============================================================================
