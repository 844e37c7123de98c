--------------------------- MODULE MCTradePipeline ---------------------------
(* Two tickers of one sector; frames for each gate.                         *)
EXTENDS TradePipeline

MCTickers == {"t1", "t2"}
MCSectorOf == [t \in MCTickers |-> "tech"]

\* Sixty days that rise and fall in turn, calmer of late.
Zigzag(rise, fall, price, width) ==
    LET Level(i) == price - ((60 - i) \div 2) * (rise - fall) - (IF i % 2 = 1 THEN rise ELSE 0)
        Half(i) == IF i < 46 THEN width + 1 ELSE width
    IN [i \in 1..60 |-> [open |-> Level(i), high |-> Level(i) + Half(i), low |-> Level(i) - Half(i),
                         close |-> Level(i), volume |-> 1000]]
\* 24 bars of five minutes that go nowhere.
Bar(first, price, volume) ==
    [open |-> first, high |-> Max({first, price}) + 1, low |-> Min({first, price}) - 1,
     close |-> price, volume |-> volume]
Quiet == [i \in 1..24 |-> IF i % 2 = 1 THEN Bar(188, 192, 100) ELSE Bar(192, 188, 100)]
\* A rise without a fall from the sixteenth bar on.
Steep == [i \in 1..24 |-> LET price == 184 + 2 * Max({0, i - 16}) - (IF i < 16 THEN i % 2 ELSE 0)
                          IN Bar(price - 1, price, IF i = 24 THEN 160 ELSE 100)]

\* A weak uptrend with a quiet intraday frame.
Calm == [daily |-> Zigzag(2, 1, 196, 2), bars |-> Quiet, dated |-> TRUE, refetched |-> TRUE,
           correlation |-> None, exits |-> <<FALSE>>]
Strong == [Calm EXCEPT !.bars[24] = Bar(191, Price, 160)]

MCFrames == {
    \* a downtrend: no signal
    [Calm EXCEPT !.daily = Zigzag(1, 2, 196, 2)],
    \* the setup is one bar old; then a reversion where V3 has no strategy
    [Calm EXCEPT !.bars[23] = Bar(191, Price, 160)],
    [Calm EXCEPT !.bars[23] = Bar(191, Price, 90), !.bars[24] = Bar(185, 188, 90),
                   !.daily = Zigzag(1, 0, 196, 2)],
    \* overbought, which blocks a setup of V3 alone
    [Strong EXCEPT !.bars = Steep, !.dated = FALSE],
    \* nothing has been traded since the breakout
    [Strong EXCEPT !.bars = Append(@, Bar(Price, Price, 0)), !.exits = <<TRUE, FALSE, FALSE>>],
    [Strong EXCEPT !.exits = <<FALSE, TRUE>>],
    [Strong EXCEPT !.refetched = FALSE, !.correlation = 60],
    [Strong EXCEPT !.correlation = 95],
    \* a stock too wild for the risk
    [Strong EXCEPT !.daily = Zigzag(2, 1, 196, 11)],
    \* V3 takes the breakout against the regime: the entry policy applies
    [Strong EXCEPT !.daily = Zigzag(3, 2, 196, 2), !.dated = FALSE],
    \* V3 takes a rise with medium confidence, and the better vote is YELLOW
    [Strong EXCEPT !.bars[22] = Bar(192, 202, 100), !.bars[24] = Bar(191, Price, 90)]}
=============================================================================
