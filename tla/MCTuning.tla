------------------------------ MODULE MCTuning ------------------------------
(* Inputs for the run of Tuning: three spots, which speak for Up by more   *)
(* and by less and for Down; a sound and a crossed book; a corner of the   *)
(* grid; histories with enough disciplined trades, with lax ones only, and *)
(* with too few, over windows whose closes have gaps.                      *)
EXTENDS Tuning

Defaults == [edgeMin |-> 45, edgeMax |-> 300, minConf |-> 5500, minLeft |-> 90,
             minPrice |-> 500, maxPrice |-> 950, minTrade |-> 1, maxTrade |-> 5]
ThreeLevels == {9999, 10001, 10002}
ThreePrices == <<10002, 9999, 10001>>

BySide(up, down) == [s \in Sides |-> IF s = "Up" THEN up ELSE down]
Sound   == [ask |-> BySide(560, 500), bid |-> BySide(550, 490)]
Luring  == [ask |-> BySide(560, 500), bid |-> BySide(570, 490)]
SomeBooks == {Sound, Luring}

Corner ==
    LET at(edge, conf, left, price) == [edgeMin |-> edge, minConf |-> conf, minLeft |-> left, maxPrice |-> price]
    IN  <<at(0, 5500, 60, 550), at(0, 5500, 60, 950), at(45, 5500, 60, 550), at(45, 5500, 60, 950),
          at(45, 6500, 60, 950), at(45, 6500, 120, 950), at(60, 5500, 120, 950)>>

\* Closes by seconds, with gaps: two windows that end Up, one that ends where it began, which is Up
\* as well, and whose first close comes late, and one that ends Down.
Series(points) == [t \in {p[1] : p \in points} |-> (CHOOSE p \in points : p[1] = t)[2]]
SomeWindows ==
    LET at(start, closes) == [start |-> start, end |-> start + 300, closes |-> Series(closes)]
    IN  [rise |-> at(0, {<<-5, 10000>>, <<95, 10001>>, <<110, 9999>>, <<299, 10001>>}),
         jump |-> at(300, {<<300, 10000>>, <<400, 10002>>, <<500, 10001>>, <<601, 9990>>}),
         late |-> at(600, {<<690, 10001>>, <<850, 10001>>}),
         fall |-> at(900, {<<899, 10000>>, <<990, 10001>>, <<1200, 9999>>})]

SomeHistories ==
    LET row(action, side, window, at, paid) ==
            [action |-> action, side |-> side, window |-> window, at |-> at, paid |-> paid, shares |-> 2]
    IN  [mixed |-> <<row("buy", "Up", "fall", 1000, 1110), row("buy", "Up", "rise", 100, 1170),
                     row("buy", "Up", "jump", 400, 1320), row("sell", "Up", "rise", 150, 1400),
                     row("buy", "Up", "jump", 500, 1050), row("buy", "Down", "rise", 110, 1070),
                     row("buy", "Up", None, 100, 900), row("buy", "Up", "late", 700, 960)>>,
         lax   |-> <<row("buy", "Up", "rise", 100, 1170), row("buy", "Up", "jump", 400, 1350)>>,
         short |-> <<row("buy", "Up", "rise", 100, 1050)>>]
=============================================================================
