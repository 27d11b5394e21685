---------------------------- MODULE MCShadowRace ----------------------------
(* Inputs for the run of ShadowRace: windows of two units, opens two basis *)
(* points apart, books for either side, crossed and one-sided.  Settled    *)
(* ledgers of up to two rows in each of four cells of v7, perhaps with one *)
(* of v0.                                                                  *)
EXTENDS ShadowRace

\* env defaults of the loop: edges within 0.045 and 0.30, favourites only, not in the last 90 s
Defaults == [edgeMin |-> 45, edgeMax |-> 300, minConf |-> 5500, minLeft |-> 90,
             minPrice |-> 500, maxPrice |-> 950, minTrade |-> 1, maxTrade |-> 5]
TwoUnits  == <<300, 230>>
TwoLevels == {10000, 10002}

BySide(up, down) == [s \in Sides |-> IF s = "Up" THEN up ELSE down]
Cheap    == [ask |-> BySide(550, 640), bid |-> BySide(540, 630)]
Dear     == [ask |-> BySide(550, 640), bid |-> BySide(540, 650)]
Luring   == [ask |-> BySide(640, 220), bid |-> BySide(630, 230)]
OneSided == [ask |-> BySide(None, 640), bid |-> BySide(None, 630)]

\* Dear and Luring are crossed: the crossed side is no bargain, or it is a better one than the
\* other; a gap of two units clears the cushion, one of one unit does not.
SomeMarkets ==
    {[spot |-> 10001, book |-> Cheap], [spot |-> 10002, book |-> Dear],
     [spot |-> 10002, book |-> Luring], [spot |-> 10000, book |-> OneSided]}

\* Cheap bets: two wins clear the breakeven, a win and a loss make a profit but do not.
Sample(model, side, outcome, night) ==
    [model |-> model, side |-> side, price |-> 200, outcome |-> outcome, at |-> IF night THEN 1 ELSE 2,
     pnl |-> NetPnl(200, side = outcome) \div 1000000,
     hour |-> IF night THEN 3 ELSE 10, edge |-> IF night THEN 50 ELSE 70, sigma |-> IF night THEN 20 ELSE None,
     spot |-> IF night THEN 10001 ELSE 10020, ref |-> 10000]

Other(side) == CHOOSE s \in Sides : s # side
Bets(side, night) ==
    LET win  == Sample("v7", side, side, night)
        loss == Sample("v7", side, Other(side), night)
    IN  {<<>>, <<win>>, <<win, win>>, <<win, loss>>}

SomeSamples ==
    {a \o b \o c \o d \o e : a \in Bets("Up", TRUE), b \in Bets("Down", TRUE), c \in Bets("Up", FALSE), d \in Bets("Down", FALSE),
                             e \in {<<>>, <<Sample("v0", "Up", "Down", TRUE)>>}}
SomeP == {20, 40, 60}
=============================================================================
