-------------------------------- MODULE Tuning --------------------------------
(***************************************************************************)
(* What the entry signal is made from, and how it changes while the loop   *)
(* runs: the price series of the feed (ChainlinkWsFeed), the calibrator    *)
(* fitted on closed trades (btc_bot/calibration.py, calibration_fit.py)    *)
(* and the thresholds a backtest proposes and the operator applies         *)
(* (backtest.py, params.py, params_propose.py, params_apply.py).  The      *)
(* tools are processes of their own; they and the loop share the ledger    *)
(* and three files, each replaced atomically.                              *)
(*                                                                         *)
(* Units are those of Strategy; profits of the backtest are in 10^-4       *)
(* dollars, the amounts of an exported history in thousandths of dollars   *)
(* and in shares.  A row of another market has no window.                  *)
(***************************************************************************)
EXTENDS Strategy, Listing

CONSTANTS
    Env,            \* StrategyParams of the environment
    Ref,            \* the reference price of the window
    Left,           \* the seconds left in it
    Levels,         \* spot prices
    Prices,         \* what the exchange publishes, one price a second
    Books,          \* [ask, bid] by side
    Grid,           \* the points optimize_params tries, in order: [edgeMin, minConf, minLeft, maxPrice]
    Windows,        \* markets of the exported histories: [start, end, closes], closes by second
    Histories,      \* exported histories by their path: sequences of [action, side, window, at, paid, shares]
    FewestTrades,   \* the least a point of the grid needs (8)
    MinSamples,     \* --min of calibration_fit (20)
    MaxPoints,      \* the length of the feed's series (600)
    MaxEvents       \* bound: prints, trades and runs of the tools

\* The exchange's prices are numbers, and the feed keeps at least one.
ASSUME FeedAssumption == Prices \in Seq(Int) /\ MaxPoints \in Nat \ {0}

\* A book has an ask and a bid, or none, for either side.
ASSUME BooksAssumption ==
    \A book \in Books : {book.ask, book.bid} \subseteq [Sides -> Int \cup {None}]

\* Thresholds, prices and times are numbers.
ASSUME NumbersAssumption ==
    /\ Env \in [edgeMin : Int, edgeMax : Int, minConf : Int, minLeft : Int,
                minPrice : Int, maxPrice : Int, minTrade : Int, maxTrade : Int]
    /\ {Ref, Left} \cup Levels \subseteq Int
    /\ Grid \in Seq([edgeMin : Int, minConf : Int, minLeft : Int, maxPrice : Int])

\* So is what a history tells, and a window has closes.
ASSUME HistoriesAssumption ==
    /\ \A w \in DOMAIN Windows :
        /\ {Windows[w].start, Windows[w].end} \subseteq Int
        /\ DOMAIN Windows[w].closes \subseteq Int /\ DOMAIN Windows[w].closes # {}
        /\ IsFiniteSet(DOMAIN Windows[w].closes)
        /\ \A t \in DOMAIN Windows[w].closes : Windows[w].closes[t] \in Int
    /\ \A path \in DOMAIN Histories :
        Histories[path] \in Seq([action : STRING, side : STRING, window : DOMAIN Windows \cup {None},
                                 at : Int, paid : Int, shares : Int])

VARIABLES
    prints,         \* how many prices the exchange has published
    feed,           \* ChainlinkWsFeed: [up, series, fresh], series of [ts, value]
    closed,         \* closed clob trades of the ledger: [p, y]
    open,           \* the position of the loop: [p], or None
    file, cached,   \* calibration.json and _calibrator
    proposed,       \* params_proposed.json
    active,         \* params_active.json
    tick,           \* the tick in progress, or what the last one did
    events          \* how many of MaxEvents there have been

tools == <<file, proposed, active>>
loop  == <<closed, open, cached, tick>>
vars  == <<prints, feed, loop, tools, events>>

Identity == [blocks |-> <<>>, n |-> 0]
Ready == [step |-> "idle", view |-> None, signal |-> None, control |-> None, rules |-> None, moved |-> FALSE]

Init ==
    /\ prints = 0 /\ feed = [up |-> FALSE, series |-> <<>>, fresh |-> FALSE]
    /\ closed = <<>> /\ open = None /\ cached = None /\ tick = Ready
    /\ file = None /\ proposed = None /\ active = None
    /\ events = 0

Event == events < MaxEvents /\ events' = events + 1

-----------------------------------------------------------------------------
(* ChainlinkWsFeed.                                                        *)

\* Fault: what a reconnect repeats is taken again.
AbsorbAll(series, points) == FoldLeft(Append, series, points)

\* handle_message: only points later than the last one; the oldest make room.
Accept(series, point) ==
    IF series # <<>> /\ point.ts <= Last(series).ts THEN series
    ELSE Append(IF Len(series) = MaxPoints THEN Tail(series) ELSE series, point)

Absorb(series, points) == FoldLeft(Accept, series, points)

Publish ==
    /\ Event /\ prints < Len(Prices)
    /\ prints' = prints + 1
    /\ UNCHANGED <<feed, loop, tools>>

Points(from, to) == [i \in 1..to - from + 1 |-> [ts |-> from + i - 1, value |-> Prices[from + i - 1]]]

Heard(points) ==
    LET series == Absorb(feed.series, points)
    IN  feed' = [up |-> TRUE, series |-> series, fresh |-> feed.fresh \/ series # feed.series]

\* A connection, which brings the history again, here two points of it.
Connect ==
    /\ ~feed.up
    /\ Heard(Points(Greatest(1, prints - 1), prints))
    /\ UNCHANGED <<prints, loop, tools, events>>

\* A frame brings a point, which may have come before.
Update ==
    /\ feed.up
    /\ \E i \in {prints - 1, prints} \cap 1..prints : Heard(Points(i, i))
    /\ UNCHANGED <<prints, loop, tools, events>>

Disconnect ==
    /\ feed.up
    /\ feed' = [feed EXCEPT !.up = FALSE]
    /\ UNCHANGED <<prints, loop, tools, events>>

\* is_fresh: nothing new for 15 seconds.
GrowStale ==
    /\ feed.fresh
    /\ feed' = [feed EXCEPT !.fresh = FALSE]
    /\ UNCHANGED <<prints, loop, tools, events>>

-----------------------------------------------------------------------------
(* The calibrator. A value is a fraction [num, den].                       *)

Sorted(pairs) == StableSort(pairs, LAMBDA q, r : q.p < r.p)

\* Fault: merged with the one before it only.
PoolOnce(stack, block) ==
    IF stack # <<>> /\ Last(stack).sum * block.n >= block.sum * Last(stack).n
    THEN Append(Front(stack), [block EXCEPT !.sum = @ + Last(stack).sum, !.n = @ + Last(stack).n])
    ELSE Append(stack, block)

\* A block is merged with those before it as long as their mean is not below its own.
Pool(stack, block) ==
    LET join(top, pool) ==
            IF pool.kept = <<>> /\ top.sum * pool.block.n >= pool.block.sum * top.n
            THEN [pool EXCEPT !.block.sum = @ + top.sum, !.block.n = @ + top.n]
            ELSE [pool EXCEPT !.kept = <<top>> \o @]
        pooled == FoldRight(join, stack, [kept |-> <<>>, block |-> block])
    IN  Append(pooled.kept, pooled.block)

Pav(pairs) == FoldLeft(LAMBDA stack, q : Pool(stack, [sum |-> q.y, n |-> 1, x |-> q.p]), <<>>, Sorted(pairs))

Fitted(pairs) == [blocks |-> Pav(pairs), n |-> Len(pairs)]

\* transform: the first block whose edge is not below p, or else the last one.
Transform(cal, p) ==
    LET above == {i \in DOMAIN cal.blocks : p <= cal.blocks[i].x}
        block == IF above = {} THEN Last(cal.blocks) ELSE cal.blocks[CHOOSE i \in above : \A j \in above : i <= j]
    IN  IF cal.blocks = <<>> THEN [num |-> p, den |-> Unit] ELSE [num |-> block.sum, den |-> block.n]

\* apply_to_pair, the first of the pair.
Calibrated(cal, p) ==
    LET up   == Transform(cal, p)
        down == Transform(cal, Unit - p)
    IN  IF up.num + down.num <= 0 THEN p
        ELSE Rounded(Unit * up.num * down.den, up.num * down.den + down.num * up.den)

\* Fault: the pair is not made to sum to one.
CalibratedApart(cal, p) ==
    [s \in Sides |-> LET v == Transform(cal, Pair(p)[s]) IN Rounded(Unit * v.num, v.den)]

\* apply_to_pair: its values are made alike.
CalibratedPair(cal, p) == [s \in Sides |-> Calibrated(cal, Pair(p)[s])]

\* A multiple of the sizes of all blocks.
Multiple(cal) == FoldLeft(LAMBDA product, b : product * b.n, 1, cal.blocks)

\* The sums of squares of fit: of the calibrated values, in units of 1 / Multiple(cal)^2, and of the
\* raw ones, in those of 1 / Unit^2.
BrierCal(cal, pairs) ==
    FoldLeft(LAMBDA sum, q : LET v == Transform(cal, q.p)
                                 d == (Multiple(cal) * v.num) \div v.den - Multiple(cal) * q.y
                             IN  sum + d * d, 0, pairs)
BrierRaw(pairs) == FoldLeft(LAMBDA sum, q : sum + (q.p - Unit * q.y) * (q.p - Unit * q.y), 0, pairs)

\* calibration_fit: refused below the minimum.
Fit ==
    /\ Event
    /\ Len(closed) >= MinSamples
    /\ file' = Fitted(closed)
    /\ UNCHANGED <<prints, feed, loop, proposed, active>>

\* load: the raw probabilities as long as there is no file.
Load == IF file # None THEN file ELSE Identity

\* On first use; later only by another process.
Calibrator == IF cached # None THEN cached ELSE Load

-----------------------------------------------------------------------------
(* The conditional backtest and the thresholds.                            *)

\* _close_at: the last close at or before, or else the first there is.
CloseAt(closes, ts) ==
    LET before == {t \in DOMAIN closes : t <= ts}
    IN  closes[IF before # {} THEN Max(before) ELSE Min(DOMAIN closes)]

\* What a row of the history would have been worth to the strategy, by these closes of its window.
Opportunity(row, closes) ==
    LET window == Windows[row.window]
        ref    == CloseAt(closes, window.start)
        fair   == FairUp(CloseAt(closes, row.at), ref)
        price  == row.paid \div row.shares
        winner == IF CloseAt(closes, window.end) >= ref THEN "Up" ELSE "Down"
    IN  [edge |-> (IF row.side = "Up" THEN fair ELSE Unit - fair) - price, price |-> price,
         left |-> Greatest(0, window.end - row.at), won |-> row.side = winner]

\* The rows build_opportunities keeps, in the order of time.
Buys(rows) ==
    LET usable(row) == /\ row.action = "buy" /\ row.window # None /\ row.side \in Sides
                       /\ row.paid > 0 /\ row.shares > 0
    IN  StableSort(Filtered(rows, {i \in DOMAIN rows : usable(rows[i])}), LAMBDA a, b : a.at < b.at)
Opportunities ==
    [path \in DOMAIN Histories |->
        LET buys == Buys(Histories[path])
        IN  [i \in DOMAIN buys |-> Opportunity(buys[i], Windows[buys[i].window].closes)]]

\* The lowest price is the default of BacktestParams.
Accepts(buy, point) ==
    /\ buy.edge >= point.edgeMin
    /\ ConfidenceFromEdge(buy.edge) >= point.minConf
    /\ buy.left > point.minLeft
    /\ 50 <= buy.price /\ buy.price <= point.maxPrice

\* Clips are of one to five dollars.
Stake(buy, point) ==
    Notional(ConfidenceFromEdge(buy.edge), [minConf |-> point.minConf, minTrade |-> 1, maxTrade |-> 5])

Pnl(buy, point) ==
    LET gain == 10000 * Stake(buy, point) * (IF buy.won THEN Unit - buy.price ELSE -buy.price)
    IN  gain \div buy.price

\* _metrics_from_trades; the score is doubled: pnl - drawdown / 2 + 0.01 trades.
Evaluate(history, point) ==
    Once(Filtered(history, {i \in DOMAIN history : Accepts(history[i], point) /\ Stake(history[i], point) > 0}),
         LAMBDA taken :
            LET book == FoldLeft(LAMBDA m, b :
                            LET equity == m.equity + Pnl(b, point)
                                peak == Greatest(m.peak, equity)
                            IN  [equity |-> equity, peak |-> peak, drawdown |-> Greatest(m.drawdown, peak - equity)],
                            [equity |-> 0, peak |-> 0, drawdown |-> 0], taken)
            IN  [point |-> point, trades |-> Len(taken), pnl |-> book.equity,
                 score |-> 2 * book.equity - book.drawdown + 200 * Len(taken)])

Enough(history) == Greatest(FewestTrades, Least(25, (8 * Len(history)) \div 100))

\* The key of the sort: score, then profit, then trades.
Better(a, b) ==
    \/ a.score > b.score
    \/ a.score = b.score /\ a.pnl > b.pnl
    \/ a.score = b.score /\ a.pnl = b.pnl /\ a.trades > b.trades

\* optimize_params: the points with enough trades, best first, in the grid's order among equals.
Optimized(history) ==
    Once([i \in DOMAIN Grid |-> Evaluate(history, Grid[i])],
         LAMBDA tried : StableSort(Filtered(tried, {i \in DOMAIN tried : tried[i].trades >= Enough(history)}), Better))

Disciplined(point) == point.edgeMin >= Env.edgeMin /\ point.minLeft >= 60

\* The filter of the environment, the price cap apart.
Current == [edgeMin |-> Env.edgeMin, minConf |-> Env.minConf, minLeft |-> Env.minLeft, maxPrice |-> 950]

\* Fault: the unconstrained best.
RecommendedBest(history) ==
    LET results == Optimized(history)
    IN  IF results # <<>> THEN results[1].point ELSE Current

\* _select_recommended, or the current filter.
Recommended(history) ==
    LET results  == Optimized(history)
        eligible == Filtered(results, {i \in DOMAIN results : Disciplined(results[i].point)})
    IN  IF eligible # <<>> THEN eligible[1].point ELSE IF results # <<>> THEN results[1].point ELSE Current
Recommendation == [path \in DOMAIN Histories |-> Recommended(Opportunities[path])]

\* load_active, with the file's values in the place of the environment's.
Loaded(params) ==
    [edgeMin |-> params.edgeMin, minConf |-> params.minConf, minLeft |-> params.minLeft, maxPrice |-> params.maxPrice,
     edgeMax |-> params.edgeMax, minPrice |-> params.minPrice]
FromEnv == Loaded([Env EXCEPT !.maxPrice = 950])
Active == IF active = None THEN FromEnv ELSE Loaded(active)

\* _strategy_params: the price cap of the file is not among them.
Thresholds ==
    [Env EXCEPT !.edgeMin = Active.edgeMin, !.edgeMax = Active.edgeMax, !.minConf = Active.minConf,
                !.minLeft = Active.minLeft, !.minPrice = Active.minPrice]

\* params_propose: what the grid does not tune is copied from the active thresholds.
Propose ==
    /\ Event
    /\ \E path \in DOMAIN Histories :
        LET best == Recommendation[path]
        IN  proposed' = [edgeMin |-> best.edgeMin, minConf |-> best.minConf, minLeft |-> best.minLeft,
                         maxPrice |-> best.maxPrice, edgeMax |-> Active.edgeMax, minPrice |-> Active.minPrice,
                         history |-> path]
    /\ UNCHANGED <<prints, feed, loop, file, active>>

\* params_apply --confirm, by the operator, even in the midst of a tick.
Apply ==
    /\ Event
    /\ proposed # None
    /\ active' = proposed
    /\ tick' = [tick EXCEPT !.moved = @ \/ tick.step # "idle"]
    /\ UNCHANGED <<prints, feed, closed, open, cached, file, proposed>>

-----------------------------------------------------------------------------
(* The loop.                                                               *)

\* The spot of a fresh feed, or what REST says, which may be nothing.
Spots == IF feed.fresh /\ feed.series # <<>> THEN {Last(feed.series).value} ELSE Levels \cup {0}

\* _build_snapshot reads the calibrator and the thresholds, and v0 decides, by the calibrated pair
\* and the books that are not crossed; the gate may refuse.
Decide ==
    /\ tick.step = "idle" /\ Event
    /\ cached' = Calibrator
    /\ \E spot \in Spots, book \in Books :
        LET view == [left |-> Left, spot |-> spot, ref |-> Ref,
                     fair |-> CalibratedPair(Calibrator, FairUp(spot, Ref)), ask |-> book.ask, bid |-> book.bid]
            signal == IF spot = 0 THEN None ELSE FairValueV0(Buyable(view), Thresholds)
        IN  /\ tick' = [Ready EXCEPT !.step = "log", !.view = view, !.signal = signal, !.rules = Active]
            /\ open' \in IF signal # None /\ open = None THEN {None, [p |-> signal.edge + signal.price]} ELSE {open}
    /\ UNCHANGED <<prints, feed, closed, tools>>

\* build_view and _v0_control of the shadow runner: fair_up is all the snapshot keeps of the pair,
\* and every ask counts.
Control(view, p) == FairValueV0([view EXCEPT !.fair = Pair(@["Up"])], p)

\* _record_and_settle_shadow reads the thresholds again.
LogShadow ==
    /\ tick.step = "log"
    /\ tick' = [tick EXCEPT !.step = "idle", !.view = None, !.rules = None,
                            !.control = IF tick.view.spot = 0 THEN None ELSE Control(tick.view, Thresholds)]
    /\ UNCHANGED <<prints, feed, closed, open, cached, tools, events>>

\* The position is closed and was right or wrong.
Close ==
    /\ open # None
    /\ \E y \in {0, 1} : closed' = Append(closed, [p |-> Between(0, open.p, Unit), y |-> y])
    /\ open' = None
    /\ UNCHANGED <<prints, feed, cached, tick, tools, events>>

\* Death of the process, and a new one.
Restart ==
    /\ cached # None
    /\ cached' = None /\ tick' = Ready
    /\ feed' = [up |-> FALSE, series |-> <<>>, fresh |-> FALSE]
    /\ UNCHANGED <<prints, closed, open, tools, events>>

Next ==
    \/ Publish \/ Connect \/ Update \/ Disconnect \/ GrowStale
    \/ Fit \/ Propose \/ Apply
    \/ Decide \/ LogShadow \/ Close \/ Restart

Spec == Init /\ [][Next]_vars

-----------------------------------------------------------------------------
(* Properties.                                                             *)

\* However connections break and repeat themselves, the series the sigma and the spot are taken
\* from is the exchange's: points in the order of time, none twice, none with another's price; and
\* while the process lives the latest never goes back (chainlink_settlement.py:384-412, 418-455).
FeedInOrder ==
    [][/\ \A i \in DOMAIN feed'.series : feed'.series[i].value = Prices[feed'.series[i].ts]
       /\ \A i, j \in DOMAIN feed'.series : i < j => feed'.series[i].ts < feed'.series[j].ts
       /\ (feed.series # <<>> /\ feed'.series # <<>>) => Last(feed.series).ts <= Last(feed'.series).ts
       /\ Len(feed'.series) <= MaxPoints]_vars

\* The isotonic regression as a minimax of means, over sorted pairs: [num, den] at i.
Mean(pairs, a, b) == [num |-> FoldLeft(LAMBDA sum, q : sum + q.y, 0, SubSeq(pairs, a, b)), den |-> b - a + 1]
AtMost(f, g) == f.num * g.den <= g.num * f.den
Minimax(pairs, i) ==
    LET lowest(a) == CHOOSE m \in {Mean(pairs, a, b) : b \in i..Len(pairs)} :
                        \A b \in i..Len(pairs) : AtMost(m, Mean(pairs, a, b))
    IN  CHOOSE m \in {lowest(a) : a \in 1..i} : \A a \in 1..i : AtMost(lowest(a), m)

Distinct(pairs) == \A i, j \in DOMAIN pairs : i # j => pairs[i].p # pairs[j].p

\* Whatever trades it was fitted on, every one of them is in exactly one block of a calibrator; it
\* is monotone, and so is what the loop makes of a pair with it, which still sums to one
\* (btc_bot/calibration.py:28-52, 74-88, 134-140, 189-203).
CalibratorOrdered ==
    \A cal \in {file, cached} \ {None, Identity} :
        LET raw == {FairUp(spot, Ref) : spot \in Levels} \cup {0, 500, Unit}
        IN  /\ cal.n = FoldLeft(LAMBDA sum, b : sum + b.n, 0, cal.blocks) /\ cal.n <= Len(closed)
            /\ \A i \in DOMAIN cal.blocks : cal.blocks[i].sum \in 0..cal.blocks[i].n
            /\ \A i, j \in DOMAIN cal.blocks : i < j =>
                    /\ cal.blocks[i].x <= cal.blocks[j].x
                    /\ cal.blocks[i].sum * cal.blocks[j].n < cal.blocks[j].sum * cal.blocks[i].n
            /\ \A p, q \in raw : p <= q => Calibrated(cal, p) <= Calibrated(cal, q)
            /\ \A p \in raw : Calibrated(cal, p) + Calibrated(cal, Unit - p) = Unit

\* Where no two trades share a probability it is the least-squares isotonic fit, and no worse on them
\* than the raw probabilities.
LeastSquares ==
    \A cal \in {file, cached} \ {None, Identity} :
        LET pairs == Sorted(SubSeq(closed, 1, cal.n))
        IN  Distinct(pairs) =>
                /\ \A i \in DOMAIN pairs :
                    LET fitted == Transform(cal, pairs[i].p)
                    IN  AtMost(fitted, Minimax(pairs, i)) /\ AtMost(Minimax(pairs, i), fitted)
                /\ Unit * Unit * BrierCal(cal, pairs) <= Multiple(cal) * Multiple(cal) * BrierRaw(pairs)

\* A calibrator keeps its order and is the best there is.
CalibratorSound == CalibratorOrdered /\ LeastSquares

\* The shadow race judges the loop by its control. Whatever calibrator bent the pair of
\* probabilities the loop compared with the asks, the control, made later from one of the two, is the
\* loop's own signal: side, price and edge. Only a crossed side with no less of an edge can lead it
\* away, and then that side is what it claims, if anything; and thresholds applied in the midst of
\* the tick can make one of the two refuse, but never make them differ
\* (btc_bot/paper.py:238-248, 934-947, 982, 1676; shadow/runner.py:9-12, 74-104).
ControlFollows ==
    [][LogShadow =>
        LET signal  == tick.signal
            control == tick'.control
        IN  \/ control = signal
            \/ Lures(tick.view) # {} /\ (control # None => control.side \in Lures(tick.view))
            \/ tick.moved /\ None \in {signal, control}]_vars

\* The disciplined points with enough trades.
Worthy == [path \in DOMAIN Histories |->
              {m \in {Evaluate(Opportunities[path], Grid[i]) : i \in DOMAIN Grid} :
                  Disciplined(m.point) /\ m.trades >= Enough(Opportunities[path])}]

\* By the closes up to its own second, where there are any, a buy has the same edge.
Known(closes, at) == [t \in {t \in DOMAIN closes : t <= at} |-> closes[t]]
NoLookAhead ==
    [path \in DOMAIN Histories |->
        \A row \in ToSet(Buys(Histories[path])) :
            LET closes == Windows[row.window].closes
                known  == Known(closes, row.at)
            IN  DOMAIN known # {} => Opportunity(row, known).edge = Opportunity(row, closes).edge]

\* What the operator is asked to confirm keeps its promises, through any chain of proposals: the
\* edges it rests on come from prices known at the time of the trade; the limits the grid does not
\* tune stay the environment's; a disciplined point that had enough trades is neither passed over
\* for a laxer one nor beaten by another such point; and what the loop then enters is what the
\* backtest would have counted, but for the price cap
\* (btc_bot/backtest.py:178-246, 294-314, 384-401, params_propose.py:37-47, strategy.py:113-158).
ProposalSound ==
    /\ \A f \in {proposed, active} \ {None} :
        LET point == [edgeMin |-> f.edgeMin, minConf |-> f.minConf, minLeft |-> f.minLeft, maxPrice |-> f.maxPrice]
        IN  /\ NoLookAhead[f.history]
            /\ f.edgeMax = Env.edgeMax /\ f.minPrice = Env.minPrice
            /\ Worthy[f.history] # {} =>
                \E m \in Worthy[f.history] : m.point = point /\ \A other \in Worthy[f.history] : ~Better(other, m)
    /\ (tick.step = "log" /\ tick.signal # None /\ tick.signal.price <= tick.rules.maxPrice) =>
        Accepts([edge |-> tick.signal.edge, left |-> tick.view.left, price |-> tick.signal.price], tick.rules)
=============================================================================
