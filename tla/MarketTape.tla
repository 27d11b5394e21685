----------------------------- MODULE MarketTape -----------------------------
(***************************************************************************)
(* What the second-generation stack does with a tick, as pure operators:   *)
(* the signal generator (strategy/signal.py), the rows MarketDataRecorder  *)
(* keeps (storage/recorder.py), their replay (storage/replay.py) and the   *)
(* full-market backtest over them (backtest/harness.py).                   *)
(*                                                                         *)
(* Prices, spot levels and edges are small integers: the fair value of Up  *)
(* is the spot level, a share of Down costs Par less than a share of Up,   *)
(* and a move of one level crosses every target and stop.                  *)
(***************************************************************************)
EXTENDS Listing

CONSTANTS
    None,                 \* "no value"
    EntryMinRemaining,    \* StrategyParams.entry_min_remaining_seconds (90)
    EntryEdgeMin,         \* StrategyParams.entry_edge_min, in levels
    ConfidentEdge,        \* the edge whose confidence is min_confidence, in levels
    EntryPrices           \* the prices from min_entry_price to max_entry_price

Sides   == {"Up", "Down"}
Actions == {"SKIP", "Up", "Down"}        \* SKIP, ENTER_UP, ENTER_DOWN

ASSUME LimitsAssumption == {EntryMinRemaining, EntryEdgeMin, ConfidentEdge} \subseteq Int

\* A tick as the loop sees it; "no value" is neither a price, nor a tick, nor a position of the
\* backtest.
Sights == [window : Int, spot : Int, up : Int, left : Int]
ASSUME NoneAssumption ==
    None \notin Int \cup Sights \cup [tick : Sights, side : Sides, entry : Int, edge : Int]

Par == 4
PriceOf(up, side) == IF side = "Up" THEN up ELSE Par - up
EdgeOf(t) == t.spot - t.up
Size(n) == IF n < 0 THEN -n ELSE n

\* left counts half seconds; the loop rounds it down.
Remaining(t) == t.left \div 2

\* signal_from_edge: the side of the edge, but no entry near the end, below a threshold or at an
\* extreme price. Confidence grows with the edge; the notional is the desk's, which checks that
\* there is any.
SideOf(t) == IF EdgeOf(t) > 0 THEN "Up" ELSE "Down"

Generate(t) ==
    IF \/ Remaining(t) <= EntryMinRemaining
       \/ Size(EdgeOf(t)) < EntryEdgeMin \/ Size(EdgeOf(t)) < ConfidentEdge
       \/ PriceOf(t.up, SideOf(t)) \notin EntryPrices
    THEN "SKIP"
    ELSE SideOf(t)

-----------------------------------------------------------------------------
(* The recorder's tables: one row per window, overwritten on every tick    *)
(* (INSERT OR REPLACE), and one row per tick, which keeps no price.        *)

BlankTape(windows) == [windows |-> [w \in windows |-> None], ticks |-> <<>>]

\* Fault: the row of a window keeps the first price it was given.
WithWindowFirst(tape, t) ==
    IF tape.windows[t.window] # None THEN tape ELSE [tape EXCEPT !.windows[t.window] = t.up]

WithWindow(tape, t) == [tape EXCEPT !.windows[t.window] = t.up]
WithTick(tape, t)   == [tape EXCEPT !.ticks = Append(@, [id |-> Len(@) + 1, tick |-> t])]

\* get_ticks_for_window: the rows of a window that has one, in the order they came.
TicksOf(tape, w) ==
    IF tape.windows[w] = None THEN <<>>
    ELSE Filtered(tape.ticks, {i \in DOMAIN tape.ticks : tape.ticks[i].tick.window = w})

\* A tick read back has the price of its window's row, whatever it was when the tick came,
\* and its remaining time rounded up, where the loop rounded it down.
ReadBack(tape, r) ==
    [r.tick EXCEPT !.up = tape.windows[r.tick.window], !.left = 2 * ((@ + 1) \div 2)]

\* replay_window: the signals of a window's ticks, generated again.
ReplayWindow(tape, w) == [i \in DOMAIN TicksOf(tape, w) |-> Generate(ReadBack(tape, TicksOf(tape, w)[i]))]

\* The recorder's coverage report: bare windows have a row and no ticks.
Coverage(tape) ==
    LET recorded == {w \in DOMAIN tape.windows : tape.windows[w] # None}
    IN  [windows |-> Cardinality(recorded), ticks |-> Len(tape.ticks),
         bare |-> Cardinality({w \in recorded : \A i \in DOMAIN tape.ticks : tape.ticks[i].tick.window # w})]

\* ... and that of a replay of all windows.
ReplayCoverage(tape) ==
    LET windows  == {w \in DOMAIN tape.windows : tape.windows[w] # None}
        replayed == {w \in windows : TicksOf(tape, w) # <<>>}
    IN  [windows |-> Cardinality(windows), bare |-> Cardinality(windows \ replayed),
         ticks |-> SumFunctionOnSet([w \in replayed |-> Len(ReplayWindow(tape, w))], replayed)]

-----------------------------------------------------------------------------
(* FullMarketBacktestHarness.run. It prices entries and exits by the spot  *)
(* and takes the edge at the price of the window's row. unfilled is the    *)
(* set of ticks whose entry the friction model drops.                      *)

\* _calculate_pnl
SpotPnl(p, spot) == IF p.side = "Up" THEN spot - p.entry ELSE p.entry - spot

\* _simulate_exit. The edge of a Down position is negated, that of its entry is not.
BacktestExit(p, t) ==
    LET pnl  == SpotPnl(p, t.spot)
        edge == IF p.side = "Up" THEN EdgeOf(t) ELSE -EdgeOf(t)
    IN  IF Remaining(t) <= 10 THEN "TIME"
        ELSE IF pnl > 1 THEN "TARGET"
        ELSE IF pnl < -1 THEN "STOP"
        ELSE IF edge * p.edge < 0 /\ (pnl > 0 \/ Remaining(t) < 60) THEN "BAND_REENTRY"
        ELSE None

Closed(run, reason, t) ==
    [run EXCEPT !.trades = Append(@, [entered |-> run.open.tick, left |-> t, reason |-> reason,
                                      pnl |-> SpotPnl(run.open, t.spot)]),
                !.open = None]

\* One tick: exit, or else a signal, which is taken when nothing is open and the fill goes through.
BacktestTick(t, id, unfilled, run) ==
    IF run.open # None /\ BacktestExit(run.open, t) # None
    THEN Closed(run, BacktestExit(run.open, t), t)
    ELSE IF run.open = None /\ Generate(t) # "SKIP" /\ id \notin unfilled
         THEN [run EXCEPT !.taken = @ + 1,
                          !.open = [tick |-> t, side |-> Generate(t), entry |-> t.spot, edge |-> EdgeOf(t)]]
         ELSE run

BacktestTicks(tape, w, unfilled, run) ==
    FoldLeft(LAMBDA acc, r : BacktestTick(ReadBack(tape, r), r.id, unfilled, acc), run, TicksOf(tape, w))

\* One window: its ticks in order, then what is still open is closed at the last one.
BacktestWindow(tape, w, unfilled, run) ==
    LET after == BacktestTicks(tape, w, unfilled, run)
    IN  IF after.open = None THEN after ELSE Closed(after, "TIME", ReadBack(tape, Last(TicksOf(tape, w))))

Backtest(tape, unfilled) ==
    FoldLeft(LAMBDA acc, w : BacktestWindow(tape, w, unfilled, acc),
             [open |-> None, taken |-> 0, trades |-> <<>>],
             Ascending({w \in DOMAIN tape.windows : tape.windows[w] # None}))

\* The result: a trade that brings nothing is a loss.
Result(run) ==
    LET equity == FoldLeft(LAMBDA m, t :
                      LET sum == m.sum + t.pnl
                          peak == IF sum > m.peak THEN sum ELSE m.peak
                      IN  [sum |-> sum, peak |-> peak,
                           drawdown |-> IF peak - sum > m.drawdown THEN peak - sum ELSE m.drawdown],
                      [sum |-> 0, peak |-> 0, drawdown |-> 0], run.trades)
        wins == Cardinality({i \in DOMAIN run.trades : run.trades[i].pnl > 0})
    IN  [wins |-> wins, losses |-> Len(run.trades) - wins, pnl |-> equity.sum, drawdown |-> equity.drawdown,
         traded |-> Cardinality({run.trades[i].entered.window : i \in DOMAIN run.trades})]
=============================================================================
