------------------------ MODULE MCHistoricalBacktest ------------------------
(* Five days: one bar a day, or two on one of them, each of three shapes. *)
EXTENDS HistoricalBacktest

Flat == [open |-> 4, low |-> 4, high |-> 4, close |-> 4]
Rise == [open |-> 5, low |-> 4, high |-> 7, close |-> 6]
Fall == [open |-> 4, low |-> 2, high |-> 4, close |-> 3]
On(day, bar) ==
    [day |-> day, open |-> bar.open, low |-> bar.low, high |-> bar.high, close |-> bar.close]
FramesOf(days) ==
    {[i \in DOMAIN days |-> On(days[i], shapes[i])] : shapes \in [DOMAIN days -> {Flat, Rise, Fall}]}
MCFrames == [daily |-> FramesOf(<<0, 1, 2, 3, 4>>), intraday |-> FramesOf(<<0, 1, 2, 2, 4>>)]
MCPlans ==
    [kind : {"once", "offline"}, mode : {"daily", "intraday"}, total : {4}, windows : {1}]
        \cup [kind : {"walk"}, mode : {"daily", "intraday"}, total : {0, 4}, windows : {2, 5}]
=============================================================================
