------------------------------ MODULE Strategy ------------------------------
(***************************************************************************)
(* The pure decisions of the trading loop: the entry signal of v0          *)
(* (btc_bot/strategy.py), the gated models of the shadow roster            *)
(* (btc_bot/shadow/signals.py, runner.py) and the venue's fee              *)
(* (btc_bot/shadow/fees.py).                                               *)
(*                                                                         *)
(* Prices, probabilities and edges are in thousandths, confidences in ten- *)
(* thousandths, times in seconds.  A view is what SnapshotView carries:    *)
(* [left, spot, ref, fair, ask, bid], the last three by side.              *)
(***************************************************************************)
EXTENDS Integers, Sequences, FiniteSets, SequencesExt

CONSTANT None       \* "no value"

Sides == {"Up", "Down"}
Unit  == 1000
WindowSeconds == 300

Least(a, b)    == IF a < b THEN a ELSE b
Greatest(a, b) == IF a > b THEN a ELSE b
Between(lo, n, hi) == Least(hi, Greatest(lo, n))

\* fair_up_probability, with a line in place of the normal distribution: 0.1 for a unit of the
\* gap, and the mass of a tie on top, which goes to Up. One half without prices.
Slope == 100
TieMass == 5
FairUp(spot, ref) ==
    IF spot <= 0 \/ ref <= 0 THEN 500 ELSE Between(5, 500 + Slope * (spot - ref) + TieMass, 995)

\* The probabilities of the sides, from that of Up.
Pair(p) == [s \in Sides |-> IF s = "Up" THEN p ELSE Unit - p]

Edge(v, side) == v.fair[side] - v.ask[side]

\* confidence_from_edge: 0.50 + 2.8 |edge|, within 0 and 0.99
Confidence(edge) == Between(0, 5000 + 28 * edge, 9900)
ConfidenceFromEdge(edge) == Confidence(Greatest(edge, -edge))

\* round(), ties to even, of a fraction
Rounded(num, den) ==
    LET q == num \div den
        r == 2 * (num % den)
    IN  IF r < den \/ (r = den /\ q % 2 = 0) THEN q ELSE q + 1

\* notional_from_confidence, in dollars; span is never negative, scaled is held within 0 and 1
Notional(conf, p) ==
    LET span == Greatest(p.maxTrade - p.minTrade, 0)
        room == Greatest(9900 - p.minConf, 100)
        over == Between(0, conf - p.minConf, room)
    IN  IF conf < p.minConf THEN 0
        ELSE IF p.minTrade + span > p.maxTrade THEN p.maxTrade
        ELSE Rounded(p.minTrade * room + span * over, room)

-----------------------------------------------------------------------------
(* signal_from_executable_edges, and v0 as the shadow runner logs it.      *)

Candidates(v) == {s \in Sides : v.ask[s] # None}

\* BookTop.crossed and .buyable: the loop takes no side whose book is crossed.
Crossed(v) == {s \in Sides : v.ask[s] # None /\ v.bid[s] # None /\ v.bid[s] > v.ask[s]}
Buyable(v) == [v EXCEPT !.ask = [s \in Sides |-> IF s \in Crossed(v) THEN None ELSE @[s]]]

\* The crossed sides with no less of an edge than those the loop can buy.
Lures(v) == {s \in Crossed(v) : \A o \in Candidates(Buyable(v)) : Edge(v, o) <= Edge(v, s)}

\* The larger edge; Up when they are equal.
Chosen(v) ==
    IF "Up" \in Candidates(v) /\ \A s \in Candidates(v) : Edge(v, s) <= Edge(v, "Up") THEN "Up" ELSE "Down"

Enters(v, side, p) ==
    LET edge == Edge(v, side)
        conf == Confidence(Greatest(edge, 0))
    IN  /\ v.left > p.minLeft
        /\ edge >= p.edgeMin /\ conf >= p.minConf
        /\ edge <= p.edgeMax
        /\ p.minPrice <= v.ask[side] /\ v.ask[side] <= p.maxPrice

Signal(v, side) ==
    [side |-> side, price |-> v.ask[side], edge |-> Edge(v, side), conf |-> Confidence(Greatest(Edge(v, side), 0))]

FairValueV0(v, p) ==
    IF Candidates(v) # {} /\ Enters(v, Chosen(v), p) THEN Signal(v, Chosen(v)) ELSE None

-----------------------------------------------------------------------------
(* The gated models. A gate takes a signal or leaves it, and changes       *)
(* nothing about it.                                                       *)

Gap(v, side) == IF side = "Up" THEN v.spot - v.ref ELSE v.ref - v.spot
Age(v) == WindowSeconds - v.left

\* A cushion of at least 1.5 basis points of the spot on the side of the signal.
CushionFavoriteV2(v, p) ==
    LET s == FairValueV0(v, p)
    IN  IF s # None /\ 20000 * Gap(v, s.side) >= 3 * v.spot THEN s ELSE None

\* v2 in a window no older than maxAge, with a claim of at most 0.065.
EdgeCap == 65
FreshCushion(v, p, maxAge) ==
    LET s == CushionFavoriteV2(v, p)
    IN  IF s # None /\ Age(v) <= maxAge /\ s.edge <= EdgeCap THEN s ELSE None

CushionFreshV7(v, p)    == FreshCushion(v, p, 60)
CushionFreshV7F45(v, p) == FreshCushion(v, p, 45)

\* ... and with a spread of at most one cent, where the book's bids are known.
CushionFreshV7F45Spread(v, p) ==
    LET s == CushionFreshV7F45(v, p)
    IN  IF s # None /\ v.bid[s.side] # None /\ v.ask[s.side] - v.bid[s.side] <= 10 THEN s ELSE None

FairValueFreshV8(v, p) == IF Age(v) <= 60 THEN FairValueV0(v, p) ELSE None

\* The roster, in the order it is logged: the control first.
Roster == <<"v0", "v2", "v7", "v8", "f45">>
Models == ToSet(Roster)

ModelSignal(model, v, p) ==
    CASE model = "v0"  -> FairValueV0(v, p)
      [] model = "v2"  -> CushionFavoriteV2(v, p)
      [] model = "v7"  -> CushionFreshV7(v, p)
      [] model = "v8"  -> FairValueFreshV8(v, p)
      [] model = "f45" -> CushionFreshV7F45(v, p)

-----------------------------------------------------------------------------
(* Fees and results, in 10^-8 dollars per share.                           *)

TakerFee(price) == 7 * price * (Unit - price)
NetPnl(price, won) == (IF won THEN Unit - price ELSE -price) * 100000 - TakerFee(price)

\* The win rate that breaks even, in 10^-8.
BreakevenWinRate(price) == 100000 * price + TakerFee(price)
=============================================================================
