------------------------------- MODULE Verdicts -------------------------------
(***************************************************************************)
(* What is concluded from the settled rows of the shadow ledger, by three  *)
(* tools that read it: the standings and the deploy bar                    *)
(* (tools/race_status.py), the comparison of the models                    *)
(* (tools/shadow_performance.py) and the attribution to regimes            *)
(* (tools/regime_attribution.py).                                          *)
(*                                                                         *)
(* A settled row is [model, side, price, outcome, pnl, at, hour, edge,     *)
(* sigma, spot, ref]: pnl in cents per share, net of the fee, at in days,  *)
(* edge in thousandths, sigma in 10^-6, prices of bitcoin in 10^-4 of one. *)
(* sigma and spot are None in rows older than those columns.  Sequences of *)
(* rows are in the order of their creation.  1.96^2 is taken as 96/25, and *)
(* the permutation test is any value it can have.                          *)
(***************************************************************************)
EXTENDS Strategy

CONSTANTS
    Samples,            \* settled ledgers to conclude from
    MinForClears,       \* MIN_N_FOR_CLEARS (30)
    MinN,               \* min_n of the attribution (30)
    Alpha,              \* the false discovery rate (50), and p values, in thousandths
    PValues             \* what a permutation test may say

Total(rows, Of(_)) == FoldLeft(LAMBDA sum, r : sum + Of(r), 0, rows)
RowsOf(rows, m)    == SelectSeq(rows, LAMBDA r : r.model = m)
ModelsIn(rows)     == {r.model : r \in ToSet(rows)}

Won(r) == r.side = r.outcome

\* The price the whole book faces, and the win rate it must beat, in thousandths.
AverageEntry(rows) == IF rows = <<>> THEN 0 ELSE Rounded(Total(rows, LAMBDA r : r.price), Len(rows))
Breakeven(rows)    == Rounded(BreakevenWinRate(AverageEntry(rows)), 100000)

-----------------------------------------------------------------------------
(* tools/race_status.py                                                    *)

\* The deepest fall of the cumulated results below their best, which is zero at first.
MaxDrawdown(pnls) ==
    FoldLeft(LAMBDA acc, x :
                LET cum  == acc.cum + x
                    peak == Greatest(acc.peak, cum)
                IN  [cum |-> cum, peak |-> peak, dd |-> Least(acc.dd, cum - peak)],
             [cum |-> 0, peak |-> 0, dd |-> 0], pnls).dd

\* gather_models: one model's standing among the rows since the common start. squares carries
\* the standard deviation.
Standing(rows, m, since, today) ==
    LET mine == SelectSeq(RowsOf(rows, m), LAMBDA r : r.at >= since)
        pnls == [i \in DOMAIN mine |-> mine[i].pnl]
    IN  [n |-> Len(mine), total |-> Total(mine, LAMBDA r : r.pnl), squares |-> Total(mine, LAMBDA r : r.pnl * r.pnl),
         wins |-> Len(SelectSeq(pnls, LAMBDA x : x > 0)), breakeven |-> Breakeven(mine), maxDD |-> MaxDrawdown(pnls),
         todayTotal |-> Total(SelectSeq(mine, LAMBDA r : r.at = today), LAMBDA r : r.pnl)]

\* n (n - 1) times the variance
Spread(s) == s.n * s.squares - s.total * s.total

\* t_ci: the lower bound of the interval for the mean is above zero, if the mean and the deviation
\* of s were those of count trades. Of one trade there is no deviation.
ClearsAt(s, count) ==
    s.total > 0 /\ (s.n = 1 \/ 25 * count * (s.n - 1) * s.total * s.total > 96 * s.n * Spread(s))

\* required_n_for_ci_gt_zero: the quotient, rounded up.
RequiredN(s) ==
    IF s.total <= 0 \/ Spread(s) = 0 THEN None
    ELSE -((-96 * s.n * Spread(s)) \div (25 * (s.n - 1) * s.total * s.total))

\* The deploy-bar tracker.
DeployBar(s) ==
    IF ClearsAt(s, s.n) THEN (IF s.n >= MinForClears THEN "clears" ELSE "small")
    ELSE IF RequiredN(s) = None THEN "never" ELSE "needs"

-----------------------------------------------------------------------------
(* tools/shadow_performance.py                                             *)

\* The lower bound of wilson_interval is above a win rate b: the score test at b.
WilsonAbove(wins, n, b) ==
    LET over == 1000 * wins - n * b
    IN  n > 0 /\ over > 0 /\ 25 * over * over > 96 * n * b * (1000 - b)

\* compute_model_stats
Performance(rows, m) ==
    LET mine == RowsOf(rows, m)
        wins == Len(SelectSeq(mine, Won))
    IN  [n |-> Len(mine), wins |-> wins, net |-> Total(mine, LAMBDA r : r.pnl), breakeven |-> Breakeven(mine),
         gross |-> Total(mine, LAMBDA r : (IF Won(r) THEN Unit - r.price ELSE -r.price)),
         edge |-> Len(mine) >= 2 /\ WilsonAbove(wins, Len(mine), Breakeven(mine))]

-----------------------------------------------------------------------------
(* tools/regime_attribution.py                                             *)

Band(n, low, high, names) == IF n < low THEN names[1] ELSE IF n < high THEN names[2] ELSE names[3]
Axes == {"time", "edge", "vol", "basis"}

\* _regime_fn: the bands, fixed in advance; the basis in 10^-5 of the spot.
Regime(r, axis) ==
    CASE axis = "time"  -> Band(r.hour, 8, 16, <<"night", "day", "evening">>)
      [] axis = "edge"  -> Band(r.edge, 60, 90, <<"lo", "mid", "hi">>)
      [] axis = "vol"   -> Band(r.sigma, 30, 60, <<"lo", "mid", "hi">>)
      [] axis = "basis" -> IF r.spot = 0 THEN "na"
                           ELSE Band((100000 * Greatest(r.spot - r.ref, r.ref - r.spot)) \div r.spot,
                                     50, 150, <<"near", "mid", "far">>)

\* _axis_value_present
Usable(rows, axis) ==
    SelectSeq(rows, LAMBDA r : (axis = "vol" => r.sigma # None) /\ (axis = "basis" => r.spot # None))

InRegime(rows, axis, m, g) == SelectSeq(RowsOf(rows, m), LAMBDA r : Regime(r, axis) = g)
Regimes(rows, axis, m)     == {Regime(r, axis) : r \in ToSet(RowsOf(rows, m))}

\* attribute: a cell is a model, a regime and the side of the bet.
Cell(rows, axis, m, g, side) ==
    LET mine == SelectSeq(InRegime(rows, axis, m, g), LAMBDA r : r.side = side)
    IN  [n |-> Len(mine), wins |-> Len(SelectSeq(mine, Won)), net |-> Total(mine, LAMBDA r : r.pnl),
         breakeven |-> Breakeven(mine), powered |-> Len(mine) >= MinN]

Profitable(cell) == cell.n > 0 /\ cell.powered /\ cell.net > 0 /\ WilsonAbove(cell.wins, cell.n, cell.breakeven)

\* Fault: one leg is enough.
OneSidedEdge(rows, axis, m, g) == \E side \in Sides : Profitable(Cell(rows, axis, m, g, side))

TwoSidedEdge(rows, axis, m, g) == \A side \in Sides : Profitable(Cell(rows, axis, m, g, side))

\* benjamini_hochberg: every value up to the last rank that passes. Among equals the first is first.
Rejected(p) ==
    LET rank(i) == Cardinality({j \in DOMAIN p : p[j] < p[i] \/ (p[j] = p[i] /\ j <= i)})
        passing == {rank(i) : i \in {j \in DOMAIN p : p[j] * Len(p) <= rank(j) * Alpha}}
    IN  {i \in DOMAIN p : \E k \in passing : rank(i) <= k}

\* The regimes with enough rows in both sides together, and what is tested, in an order.
Testable(rows, axis, m) == {g \in Regimes(rows, axis, m) : Len(InRegime(rows, axis, m, g)) >= MinN}
Tested(rows, axis) == SetToSeq(UNION {{<<m, g>> : g \in Testable(rows, axis, m)} : m \in ModelsIn(rows)})

\* one_vs_rest_p: one, where there is no rest.
TestResults(rows, axis) ==
    LET tested == Tested(rows, axis)
        may(i) == IF Testable(rows, axis, tested[i][1]) = {tested[i][2]} THEN {1000} ELSE PValues
    IN  {p \in [DOMAIN tested -> PValues \cup {1000}] : \A i \in DOMAIN tested : p[i] \in may(i)}

\* analyze, of usable rows and with the results of the tests.
RegimeCandidates(rows, axis, p) ==
    {Tested(rows, axis)[i] : i \in {k \in Rejected(p) :
        TwoSidedEdge(rows, axis, Tested(rows, axis)[k][1], Tested(rows, axis)[k][2])}}
Powered(rows, axis) ==
    \E m \in ModelsIn(rows), side \in Sides : \E g \in Regimes(rows, axis, m) : Cell(rows, axis, m, g, side).powered
Verdict(rows, axis, p) ==
    IF RegimeCandidates(rows, axis, p) # {} THEN "edge" ELSE IF ~Powered(rows, axis) THEN "underpowered" ELSE "none"

-----------------------------------------------------------------------------
(* Properties.                                                             *)

\* The Benjamini-Hochberg procedure without ranks: a value is rejected with any value not below it
\* that is small enough for the number of values not above that one.
RejectedByLaw(p) ==
    {i \in DOMAIN p : \E j \in DOMAIN p :
        p[i] <= p[j] /\ p[j] * Len(p) <= Alpha * Cardinality({k \in DOMAIN p : p[k] <= p[j]})}

SumOf(pnls, i, j) == FoldLeft(LAMBDA sum, x : sum + x, 0, SubSeq(pnls, i, j))

\* The bar is claimed on a real sample with a positive result only; otherwise the count that is
\* asked for is one that is not reached yet, and enough but for the interval that ends at zero; and
\* where none is named none would do.
BarHonest(s) ==
    LET bar == DeployBar(s)
    IN  /\ bar = "clears" => s.n >= MinForClears /\ ClearsAt(s, s.n)
        /\ bar = "needs" => /\ RequiredN(s) >= s.n
                            /\ ClearsAt(s, RequiredN(s) + 1) /\ ~ClearsAt(s, RequiredN(s) - 1)
        /\ bar = "never" => s.total <= 0

\* The standings, the comparison and the cells of every axis speak of the same rows: as many, as
\* many wins, the same result, the same price to beat.
Agree(rows, m) ==
    LET s    == Standing(rows, m, 0, 0)
        perf == Performance(rows, m)
        cells(axis) == {<<g, side>> : g \in Regimes(rows, axis, m), side \in Sides}
        over(axis, Of(_)) == FoldLeft(LAMBDA sum, c : sum + Of(Cell(rows, axis, m, c[1], c[2])), 0, SetToSeq(cells(axis)))
    IN  /\ s.n = perf.n /\ s.wins = perf.wins /\ s.total = perf.net /\ s.breakeven = perf.breakeven
        /\ \A axis \in {"time", "edge"} :
            /\ over(axis, LAMBDA c : c.n) = s.n /\ over(axis, LAMBDA c : c.wins) = s.wins
            /\ over(axis, LAMBDA c : c.net) = s.total

\* A regime that is named as a candidate has both sides of the bet powered and profitable, is
\* significant among all that was tested, and there was another regime to tell it from; what is
\* named does not depend on the order of the rows; and too little data is not called a null.
AttributionHonest(rows, axis, p) ==
    LET named  == RegimeCandidates(rows, axis, p)
        tested == Tested(rows, axis)
    IN  /\ Rejected(p) = RejectedByLaw(p)
        /\ \A c \in named :
            /\ \A side \in Sides : LET cell == Cell(rows, axis, c[1], c[2], side) IN cell.n >= MinN /\ cell.net > 0
            /\ \E other \in ToSet(tested) \ {c} : other[1] = c[1]
            /\ \A i \in DOMAIN tested : tested[i] = c => p[i] <= Alpha
        /\ named = RegimeCandidates(Reverse(rows), axis, p)
        /\ Verdict(rows, axis, p) = "underpowered" =>
            \A m \in ModelsIn(rows) : \A g \in Regimes(rows, axis, m) : ~TwoSidedEdge(rows, axis, m, g)

\* ... for whatever has settled.
Honest(rows) ==
    /\ \A m \in ModelsIn(rows) :
        LET s    == Standing(rows, m, 0, 0)
            pnls == [i \in DOMAIN RowsOf(rows, m) |-> RowsOf(rows, m)[i].pnl]
        IN  /\ BarHonest(s) /\ Agree(rows, m)
            /\ \A i, j \in DOMAIN pnls : s.maxDD <= SumOf(pnls, i, j)
            /\ s.maxDD = 0 \/ \E i, j \in DOMAIN pnls : s.maxDD = SumOf(pnls, i, j)
    /\ \A axis \in Axes :
        \A p \in TestResults(Usable(rows, axis), axis) : AttributionHonest(Usable(rows, axis), axis, p)

SamplesHonest == \A rows \in Samples : Honest(rows)
=============================================================================
