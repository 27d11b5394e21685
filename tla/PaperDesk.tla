------------------------------ MODULE PaperDesk ------------------------------
(***************************************************************************)
(* The second-generation stack as one desk: BotController.tick and         *)
(* shutdown (ops/controller.py), the order lifecycle and the positions of  *)
(* PaperExecutionManager (execution/paper.py), RiskService                 *)
(* (execution/risk.py) and the recorder (MarketTape).                      *)
(*                                                                         *)
(* The manager keeps one connection: db is what it sees, disk what it has  *)
(* committed.  A statement that failed leaves the ones before it in db,    *)
(* for the next commit.  Every await is a step, so that a shutdown on the  *)
(* same event loop, and a death, may come between any two.                 *)
(***************************************************************************)
EXTENDS MarketTape

CONSTANTS
    Quotes,           \* what a tick may find: [spot, up]
    Lefts,            \* ... and how far from the end of its window, in half seconds
    LastWindow,       \* bound: windows
    MaxTicks,         \* bound: ticks
    MaxOrders,        \* bound: orders
    MaxFaults,        \* bound: deaths and failed statements
    MaxOpen,          \* max_open_positions (1)
    Notional,         \* what an entry asks for, in units of RiskService.max_exposure_usd
    MaxExposure,      \* max_exposure_usd
    MaxDrawdown,      \* max_drawdown_usd, in levels
    TimeExit,         \* time_exit_seconds (45)
    FaultSteps        \* the steps of a tick, and of a shutdown ("fetch", "closing"), that may raise

ASSUME MaxOrdersNat == MaxOrders \in Nat
ASSUME MaxOpenNat   == MaxOpen \in Nat
ASSUME QuotesType   == Quotes \subseteq [spot : 1..Par, up : 1..Par]
ASSUME TimesType    == LastWindow \in Nat /\ Lefts \subseteq Int
ASSUME BoundsNat    == {MaxTicks, MaxFaults, Notional, MaxDrawdown} \subseteq Nat

Orders  == 1..MaxOrders
Windows == 1..LastWindow

VARIABLES
    db,       \* order -> row, as the manager's connection sees it
    disk,     \* order -> row, as committed
    risk,     \* RiskService's counters, in memory only
    tick,     \* the tick in progress: its step, what it saw (kept as _last_tick), its work
    stop,     \* stop_event
    down,     \* the shutdown in progress; busy: a tick was in flight when it began
    tape,     \* the recorder's tables, each write committed at once
    verbose,  \* the INFO level is enabled
    watch     \* observers: disk at boot, nothing failed since, windows whose row is ahead of
              \* its ticks, deaths and failures so far

vars == <<db, disk, risk, tick, stop, down, tape, verbose, watch>>

\* An order with its transitions and, 1-1, its position.
NoRow == [window |-> None, side |-> None, entry |-> 0, state |-> "absent", trail |-> <<>>,
          pos |-> "none", pnl |-> 0]

Open(rows)   == {o \in Orders : rows[o].pos = "open"}
ClosedIn(rows) == {o \in Orders : rows[o].pos = "closed"}

\* updated: _last_update is set.
NoRisk == [exposure |-> 0, total |-> 0, peak |-> 0, drawdown |-> 0, wins |-> 0, losses |-> 0, updated |-> FALSE]
Off    == [step |-> "off", left |-> {}, closed |-> {}, busy |-> FALSE]

Init ==
    /\ db = [o \in Orders |-> NoRow]
    /\ disk = db
    /\ risk = NoRisk
    /\ tick = [step |-> "idle", obs |-> None, todo |-> {}, order |-> 0, served |-> 0]
    /\ stop = FALSE
    /\ down = Off
    /\ tape = BlankTape(Windows)
    /\ verbose \in BOOLEAN
    /\ watch = [boot |-> db, clean |-> TRUE, torn |-> {}, faults |-> 0]

-----------------------------------------------------------------------------
(* One tick up to the recorder.                                            *)

At(step) == tick.step = step
GoTo(step) == tick' = [tick EXCEPT !.step = step]
GoIdle     == tick' = [tick EXCEPT !.step = "idle", !.todo = {}, !.order = 0]

\* Time only goes on: the same window, no earlier, or the next one.
Follows(obs, last) ==
    last # None => obs.window > last.window \/ (obs.window = last.window /\ obs.left <= last.left)

\* run, while stop is not set: the window, the prices and the signal of a tick.
BeginTick ==
    /\ At("idle") /\ ~stop /\ tick.served < MaxTicks
    /\ \E w \in Windows, q \in Quotes, l \in Lefts :
        LET obs == [window |-> w, spot |-> q.spot, up |-> q.up, left |-> l]
        IN  /\ Follows(obs, tick.obs) = TRUE
            /\ tick' = [tick EXCEPT !.step = "window", !.obs = obs, !.served = @ + 1]
    /\ UNCHANGED <<db, disk, risk, stop, down, tape, verbose, watch>>

RecordWindow ==
    /\ At("window")
    /\ tape' = WithWindow(tape, tick.obs)
    /\ watch' = [watch EXCEPT !.torn = @ \cup {tick.obs.window}]
    /\ GoTo("tick")
    /\ UNCHANGED <<db, disk, risk, stop, down, verbose>>

RecordTick ==
    /\ At("tick")
    /\ tape' = WithTick(tape, tick.obs)
    /\ watch' = [watch EXCEPT !.torn = @ \ {tick.obs.window}]
    /\ GoTo("fetch")
    /\ UNCHANGED <<db, disk, risk, stop, down, verbose>>

\* "controller.recorder_failed": the tick goes on without its record.
RecorderFails ==
    /\ tick.step \in {"window", "tick"} \cap FaultSteps /\ watch.faults < MaxFaults
    /\ watch' = [watch EXCEPT !.faults = @ + 1]
    /\ GoTo("fetch")
    /\ UNCHANGED <<db, disk, risk, stop, down, tape, verbose>>

-----------------------------------------------------------------------------
(* Exits.                                                                  *)

FetchOpen ==
    /\ At("fetch")
    /\ tick' = [tick EXCEPT !.step = "check", !.todo = Open(db)]
    /\ UNCHANGED <<db, disk, risk, stop, down, tape, verbose, watch>>

\* _pnl_for_position: one share per order, a price of zero gives no PnL.
PnlAt(row, up) == IF row.entry <= 0 THEN 0 ELSE PriceOf(up, row.side) - row.entry

\* check_exits: a level is beyond the target and the stop.
ExitReason(row, obs) ==
    IF row.window # obs.window THEN "WINDOW_ROLL"
    ELSE IF Remaining(obs) <= TimeExit THEN "TIME"
    ELSE IF PnlAt(row, obs.up) > 0 THEN "TARGET"
    ELSE IF PnlAt(row, obs.up) < 0 THEN "STOP"
    ELSE IF 2 * Size(EdgeOf(obs)) < EntryEdgeMin THEN "BAND_REENTRY"
    ELSE None

Oldest(orders) == CHOOSE o \in orders : \A p \in orders : o <= p
Victim == Oldest(tick.todo)
Reason == ExitReason(db[Victim], tick.obs)

\* _close_position up to its commit. The position is the one read by FetchOpen; the UPDATE
\* asks for its id only, so that it also overwrites a row closed in the meantime.
Exit ==
    /\ At("check") /\ tick.todo # {} /\ Reason # None
    /\ db' = [db EXCEPT ![Victim].pos = "closed", ![Victim].pnl = PnlAt(db[Victim], tick.obs.up)]
    /\ GoTo("close")
    /\ UNCHANGED <<disk, risk, stop, down, tape, verbose, watch>>

KeepOpen ==
    /\ At("check") /\ tick.todo # {} /\ Reason = None
    /\ tick' = [tick EXCEPT !.todo = @ \ {Victim}]
    /\ UNCHANGED <<db, disk, risk, stop, down, tape, verbose, watch>>

Positive(n) == IF n > 0 THEN n ELSE 0

\* RiskService.on_position_opened and on_position_closed
Updated(r) == [r EXCEPT !.updated = TRUE]
Charged(r) == [Updated(r) EXCEPT !.exposure = @ + Notional]
Released(r, pnl) ==
    LET total == r.total + pnl
        peak  == IF total > r.peak THEN total ELSE r.peak
    IN  [exposure |-> Positive(r.exposure - Notional),
         total |-> total, peak |-> peak, drawdown |-> Positive(peak - total),
         wins |-> r.wins + (IF pnl > 0 THEN 1 ELSE 0), losses |-> r.losses + (IF pnl < 0 THEN 1 ELSE 0),
         updated |-> TRUE]

\* get_risk_state, quiet: more than five minutes since _last_update. That is asked first; then a
\* breach from nine tenths of the drawdown, a warning from half of it. It stops nothing.
RiskState(r, quiet) ==
    IF r.updated /\ quiet THEN "STALE"
    ELSE IF 10 * r.drawdown >= 9 * MaxDrawdown \/ r.exposure > MaxExposure THEN "BREACH"
    ELSE IF 2 * r.drawdown >= MaxDrawdown THEN "WARNING"
    ELSE "OK"

\* post_trade_report, an update itself, and what the controller tells of itself.
PostTradeReport(r) ==
    [open |-> r.exposure \div Notional, total |-> r.total, wins |-> r.wins, losses |-> r.losses,
     state |-> RiskState(Updated(r), FALSE)]
Status(quiet) == [open |-> Cardinality(Open(db)), state |-> RiskState(risk, quiet)]

\* ... its commit and what follows. The log call has keyword arguments, which logging.Logger
\* takes for an error once the INFO level is enabled: the tick ends there.
CommitClose ==
    /\ At("close")
    /\ disk' = db
    /\ risk' = Released(risk, PnlAt(db[Victim], tick.obs.up))
    /\ IF verbose THEN GoIdle ELSE tick' = [tick EXCEPT !.step = "check", !.todo = @ \ {Victim}]
    /\ UNCHANGED <<db, stop, down, tape, verbose, watch>>

\* The UPDATE of a close raises, before it took effect or, with the commit, after: run() logs it
\* and goes on with the next tick.
CloseFails ==
    /\ At("close") \/ (At("check") /\ tick.todo # {} /\ Reason # None)
    /\ "close" \in FaultSteps /\ watch.faults < MaxFaults
    /\ watch' = [watch EXCEPT !.faults = @ + 1, !.clean = FALSE]
    /\ GoIdle
    /\ UNCHANGED <<db, disk, risk, stop, down, tape, verbose>>

-----------------------------------------------------------------------------
(* Entry: pre_trade_check and submit_order.                                *)

\* Fault: one position too many passes.
PreTradeCheckLoose(open) == Cardinality(open) <= MaxOpen /\ Notional > 0 /\ Notional <= MaxExposure

PreTradeCheck(open) == Cardinality(open) < MaxOpen /\ Notional > 0 /\ Notional <= MaxExposure

Wants == Generate(tick.obs) # "SKIP"

SkipEntry ==
    /\ At("check") /\ tick.todo = {} /\ ~(Wants /\ PreTradeCheck(Open(db)))
    /\ GoIdle
    /\ UNCHANGED <<db, disk, risk, stop, down, tape, verbose, watch>>

Decide ==
    /\ At("check") /\ tick.todo = {} /\ Wants /\ PreTradeCheck(Open(db))
    /\ GoTo("insert")
    /\ UNCHANGED <<db, disk, risk, stop, down, tape, verbose, watch>>

Unused == {o \in Orders : db[o].state = "absent"}

InsertOrder ==
    /\ At("insert") /\ Unused # {}
    /\ LET o == Oldest(Unused)
           side == Generate(tick.obs)
       IN  /\ db' = [db EXCEPT ![o] = [NoRow EXCEPT !.window = tick.obs.window, !.side = side,
                                                    !.entry = PriceOf(tick.obs.up, side), !.state = "PENDING"]]
           /\ tick' = [tick EXCEPT !.step = "audit1", !.order = o]
    /\ UNCHANGED <<disk, risk, stop, down, tape, verbose, watch>>

AfterAudit == [audit1 |-> "ack", audit2 |-> "fill", audit3 |-> "commit"]

\* _persist_transition, after each change of state
Audit ==
    /\ tick.step \in DOMAIN AfterAudit
    /\ db' = [db EXCEPT ![tick.order].trail = Append(@, db[tick.order].state)]
    /\ GoTo(AfterAudit[tick.step])
    /\ UNCHANGED <<disk, risk, stop, down, tape, verbose, watch>>

\* Fault: the acknowledgement is not a state of its own.
AcknowledgeSilently ==
    /\ At("ack")
    /\ GoTo("fill")
    /\ UNCHANGED <<db, disk, risk, stop, down, tape, verbose, watch>>

Acknowledge ==
    /\ At("ack")
    /\ db' = [db EXCEPT ![tick.order].state = "ACKNOWLEDGED"]
    /\ GoTo("audit2")
    /\ UNCHANGED <<disk, risk, stop, down, tape, verbose, watch>>

\* _determine_fill: a dice roll.
Fill ==
    /\ At("fill")
    /\ \E s \in {"FILLED", "PARTIAL_FILL", "REJECTED"} : db' = [db EXCEPT ![tick.order].state = s]
    /\ GoTo("audit3")
    /\ UNCHANGED <<disk, risk, stop, down, tape, verbose, watch>>

\* Fault: a partial fill gets a position as well.
CommitOrderPartial ==
    /\ At("commit")
    /\ disk' = db
    /\ IF db[tick.order].state # "REJECTED" THEN GoTo("open") ELSE GoIdle
    /\ UNCHANGED <<db, risk, stop, down, tape, verbose, watch>>

\* Only a full fill goes on to a position; nothing else is charged, but it is reported.
CommitOrder ==
    /\ At("commit")
    /\ disk' = db
    /\ IF db[tick.order].state = "FILLED" THEN GoTo("open") /\ UNCHANGED risk
       ELSE GoIdle /\ risk' = Updated(risk)
    /\ UNCHANGED <<db, stop, down, tape, verbose, watch>>

OpenPosition ==
    /\ At("open")
    /\ db' = [db EXCEPT ![tick.order].pos = "open"]
    /\ GoTo("book")
    /\ UNCHANGED <<disk, risk, stop, down, tape, verbose, watch>>

\* Fault: the position is not charged.
CommitPositionFree ==
    /\ At("book")
    /\ disk' = db
    /\ GoIdle
    /\ UNCHANGED <<db, risk, stop, down, tape, verbose, watch>>

\* The commit of the position, the return to the controller and the charge.
CommitPosition ==
    /\ At("book")
    /\ disk' = db
    /\ risk' = Charged(risk)
    /\ GoIdle
    /\ UNCHANGED <<db, stop, down, tape, verbose, watch>>

Submitting == {"insert", "audit1", "ack", "audit2", "fill", "audit3", "commit", "open", "book"}

\* "controller.order_submit_failed": nothing is rolled back.
SubmitFails ==
    /\ tick.step \in Submitting \cap FaultSteps /\ watch.faults < MaxFaults
    /\ watch' = [watch EXCEPT !.faults = @ + 1, !.clean = FALSE]
    /\ GoIdle
    /\ UNCHANGED <<db, disk, risk, stop, down, tape, verbose>>

-----------------------------------------------------------------------------
(* Shutdown, on the same event loop as the tick.                           *)

BeginShutdown ==
    /\ down.step = "off"
    /\ stop' = TRUE
    /\ down' = [down EXCEPT !.step = "fetch", !.busy = ~At("idle")]
    /\ UNCHANGED <<db, disk, risk, tick, tape, verbose, watch>>

\* force_close_all, a statement at a time.
ShutdownFetch ==
    /\ down.step = "fetch"
    /\ down' = [down EXCEPT !.step = "closing", !.left = Open(db)]
    /\ UNCHANGED <<db, disk, risk, tick, stop, tape, verbose, watch>>

ShutdownClose ==
    /\ down.step = "closing" /\ down.left # {}
    /\ LET o == Oldest(down.left)
       IN  /\ db' = [db EXCEPT ![o].pos = "closed", ![o].pnl = 0]
           /\ down' = [down EXCEPT !.left = @ \ {o}, !.closed = @ \cup {o}]
    /\ UNCHANGED <<disk, risk, tick, stop, tape, verbose, watch>>

\* ... and shutdown's report to the risk service, each close with a PnL of zero. Its log call
\* comes first and has keyword arguments too.
ShutdownCommit ==
    /\ down.step = "closing" /\ down.left = {}
    /\ disk' = db
    /\ down' = [down EXCEPT !.step = "done"]
    /\ risk' = IF verbose \/ down.closed = {} THEN risk
               ELSE [Updated(risk) EXCEPT !.exposure = Positive(@ - Cardinality(down.closed) * Notional)]
    /\ UNCHANGED <<db, tick, stop, tape, verbose, watch>>

\* A statement of it raises: shutdown ends there, with the stop set and nothing committed.
ShutdownFails ==
    /\ down.step \in {"fetch", "closing"} \cap FaultSteps /\ watch.faults < MaxFaults
    /\ watch' = [watch EXCEPT !.faults = @ + 1, !.clean = FALSE]
    /\ down' = [down EXCEPT !.step = "done"]
    /\ UNCHANGED <<db, disk, risk, tick, stop, tape, verbose>>

\* Death and a new process: the counters start at zero, whatever positions are open.
Restart ==
    /\ watch.faults < MaxFaults
    /\ db' = disk /\ risk' = NoRisk /\ GoIdle /\ stop' = FALSE /\ down' = Off
    /\ watch' = [watch EXCEPT !.boot = disk, !.clean = TRUE, !.faults = @ + 1]
    /\ UNCHANGED <<disk, tape, verbose>>

Next ==
    \/ BeginTick \/ RecordWindow \/ RecordTick \/ RecorderFails
    \/ FetchOpen \/ Exit \/ KeepOpen \/ CommitClose \/ CloseFails
    \/ SkipEntry \/ Decide \/ InsertOrder \/ Audit \/ Acknowledge \/ Fill
    \/ CommitOrder \/ OpenPosition \/ CommitPosition \/ SubmitFails
    \/ BeginShutdown \/ ShutdownFetch \/ ShutdownClose \/ ShutdownCommit \/ ShutdownFails
    \/ Restart

Spec == Init /\ [][Next]_vars

-----------------------------------------------------------------------------
(* Properties.                                                             *)

States == {"absent", "PENDING", "ACKNOWLEDGED", "FILLED", "PARTIAL_FILL", "REJECTED"}
Rows ==
    [window : Windows \cup {None}, side : Sides \cup {None}, entry : 0..Par, state : States,
     trail : Seq(States), pos : {"none", "open", "closed"}, pnl : -Par..Par]
Obs == [window : Windows, spot : 1..Par, up : 1..Par, left : Lefts]
Steps == {"idle", "window", "tick", "fetch", "check", "close"} \cup Submitting

\* Types. An order is in flight exactly from its insertion to the end of its submission, and
\* only an order that was filled has a position.
TypeOK ==
    /\ \A rows \in {db, disk, watch.boot} :
        /\ rows \in [Orders -> Rows]
        /\ \A o \in Orders : rows[o].pos # "none" => rows[o].state = "FILLED"
    /\ risk \in [exposure : Nat, total : Int, peak : Nat, drawdown : Nat, wins : Nat, losses : Nat,
               updated : BOOLEAN]
    /\ tick \in [step : Steps, obs : Obs \cup {None}, todo : SUBSET Orders, order : Orders \cup {0}, served : 0..MaxTicks]
    /\ (tick.order # 0) <=> tick.step \in Submitting \ {"insert"}
    /\ stop \in BOOLEAN /\ verbose \in BOOLEAN
    /\ down \in [step : {"off", "fetch", "closing", "done"}, left : SUBSET Orders, closed : SUBSET Orders, busy : BOOLEAN]
    /\ tape.windows \in [Windows -> 1..Par \cup {None}]
    /\ \A i \in DOMAIN tape.ticks : tape.ticks[i] \in [id : 1..MaxTicks, tick : Obs]
    /\ watch.clean \in BOOLEAN /\ watch.torn \subseteq Windows /\ watch.faults \in 0..MaxFaults

\* Never more open positions than max_open_positions, in the tables as the manager sees them
\* and on disk: the check reads them several awaits before the position is inserted, and a
\* shutdown, a failed statement or a death may come in between (ops/controller.py:194-198).
OnePosition == Cardinality(Open(db)) <= MaxOpen /\ Cardinality(Open(disk)) <= MaxOpen

PnlSum(rows, orders) == SumFunctionOnSet([o \in Orders |-> rows[o].pnl], orders)

\* Between two ticks, and after a shutdown that met no tick in flight, everything is committed; the
\* risk service's report counts the open positions and tells the PnL and the outcomes of the closed
\* ones, and tells of a breach or a warning when they have lost that much; so does the status, until
\* five minutes have passed since the last trade: then it says STALE, whatever was lost; and a
\* shutdown leaves nothing open. Unless a statement failed, and positions left by an earlier process
\* apart, which are never charged (ops/controller.py:198-202, 240-244, 256-279, 284-295;
\* execution/risk.py:110-198). With INFO logging a shutdown reports nothing.
BooksAgree ==
    LET mine   == ClosedIn(db) \ ClosedIn(watch.boot)
        report == PostTradeReport(risk)
    IN  (watch.clean /\ At("idle") /\ down.step \in {"off", "done"} /\ ~down.busy) =>
        /\ db = disk
        /\ down.step = "done" => \A quiet \in BOOLEAN : Status(quiet).open = 0
        /\ ~(down.step = "done" /\ verbose) =>
            report.open = Cardinality(Open(db) \ Open(watch.boot)) /\ risk.exposure = Notional * report.open
        /\ report.total = PnlSum(db, mine)
        /\ report.wins = Cardinality({o \in mine : db[o].pnl > 0})
        /\ report.losses = Cardinality({o \in mine : db[o].pnl < 0})
        /\ 10 * report.total <= -9 * MaxDrawdown => report.state = "BREACH" /\ Status(FALSE).state = "BREACH"
        /\ 2 * report.total <= -MaxDrawdown => report.state # "OK" /\ Status(FALSE).state # "OK"
        /\ report.total # 0 => Status(TRUE).state = "STALE"

\* The transitions a fate of an order stands for.
Path(state) ==
    IF state \in {"absent", "PENDING"} THEN <<"PENDING">>
    ELSE IF state = "ACKNOWLEDGED" THEN <<"PENDING", "ACKNOWLEDGED">>
    ELSE <<"PENDING", "ACKNOWLEDGED", state>>

\* get_order_transition_history, in an order's own words.
History(rows, o) == rows[o].trail

\* The audit table tells how every order on disk came to its state, but for the last transition
\* of an order that was cut off: a commit of somebody else's may have caught it in between; and
\* a filled order without its position is in flight, or was cut off by one death or failure
\* (execution/paper.py:3-5 "Every transition is persisted to an audit table", 322-326).
OrdersTraced ==
    LET orphans == {o \in Orders : disk[o].state = "FILLED" /\ disk[o].pos = "none"}
        flight  == IF tick.order = 0 THEN {} ELSE {tick.order}
        short   == {o \in Orders : disk[o].state # "absent" /\ History(disk, o) # Path(disk[o].state)}
    IN  /\ \A o \in short : History(disk, o) = Front(Path(disk[o].state))
        /\ Cardinality((short \cup orphans) \ flight) <= watch.faults

\* The last recorded tick of a window replays to the signal the desk traded on, whatever died or
\* failed (storage/replay.py:51-96), unless it came in the second before the entry limit, where the
\* desk rounds down and the replay up. Of earlier ticks this cannot be said: they are replayed at
\* the last price of their window.
LastTickReplays ==
    \A w \in Windows \ watch.torn :
        LET ticks == TicksOf(tape, w)
        IN  ticks # <<>> /\ Remaining(Last(ticks).tick) # EntryMinRemaining
            => Last(ReplayWindow(tape, w)) = Generate(Last(ticks).tick)

\* Fed with whatever the desk recorded, and whichever entries friction drops, the backtest closes
\* every position it takes, once and in the window it was taken in, and its result counts each of
\* them and shows a drawdown no smaller than the loss (backtest/harness.py:99-181, 185-238).
\* Asked whenever a tick has just been recorded.
BacktestCloses ==
    At("fetch") => \A unfilled \in SUBSET (1..Len(tape.ticks)) :
        LET run == Backtest(tape, unfilled)
            result == Result(run)
        IN  /\ result.wins + result.losses = run.taken /\ result.traded <= run.taken
            /\ result.drawdown >= -result.pnl /\ (result.losses = 0 => result.drawdown = 0)
            /\ run.open = None /\ Len(run.trades) = run.taken
            /\ \A i \in DOMAIN run.trades :
                /\ run.trades[i].entered.window = run.trades[i].left.window
                /\ run.trades[i].entered.left >= run.trades[i].left.left

\* Every recorded tick is replayed, and the windows both coverage reports call bare are those whose
\* tick was not written after their row (storage/recorder.py:285-316, storage/replay.py:123-141).
CoverageHonest ==
    LET recorder == Coverage(tape)
    IN  /\ ReplayCoverage(tape) = recorder
        /\ recorder.bare = Cardinality({w \in watch.torn : TicksOf(tape, w) = <<>>})

\* What was recorded can be used: the three above.
TapeReplays == LastTickReplays /\ BacktestCloses /\ CoverageHonest
=============================================================================
