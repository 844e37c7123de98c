---------------------------- MODULE MCMarketData ----------------------------
(* Two of the four providers of the registry; one has fresh bars, which may *)
(* be unfit or have a last time that cannot be read, the other lags by      *)
(* minutes.  Bars of five and of two minutes, which the first does not      *)
(* have, and of a day.  The market closes at 100; ClosedAge is scaled down. *)
EXTENDS MarketData, TLC

Symmetry == Permutations(Procs)

Five == [value |-> 5, unit |-> "m"]
Two == [value |-> 2, unit |-> "m"]
Day == [value |-> 1, unit |-> "d"]
MCSupports == [finnhub |-> {Five, Day}, yfinance |-> {Five, Two, Day}]
MCPriority == [finnhub |-> 2, yfinance |-> 3]

Quote(open, high, low, close, volume) ==
    [open |-> open, high |-> high, low |-> low, close |-> close, volume |-> volume]
Fit == <<Quote(10, 12, 9, 11, 5), Quote(11, 12, 10, 12, 6)>>
Answered(bars, lag) == [bars |-> bars, lag |-> lag]
MCAnswers == [finnhub |-> {Answered(Fit, None),
                           Answered([Fit EXCEPT ![1].high = 10], 0)},
              yfinance |-> {Answered(Fit, 270)}]

MCHours == 0..99

Both == <<"yfinance", "finnhub">>
Request(use, ticker, interval, stack) ==
    [use |-> use, ticker |-> ticker, interval |-> interval, stack |-> stack]
MCRequests == {
    Request("exit", "t1", Five, Both), Request("manage", "t1", Five, <<"yfinance">>),
    Request("select", "t1", Two, <<"finnhub">>), Request("thesis", "t1", Day, <<"yfinance">>)}
=============================================================================
