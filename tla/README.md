# A TLA+ model of the btc-5m-binary-fair-value bot

The bot trades one binary market after the other: will Bitcoin close this
5-minute window above its open? It prices the "Up" token, buys one clip when the
market is cheap, and holds it to settlement or sells it again. It runs in
*paper* mode (positions exist only in its SQLite ledger) or in *live* mode (a
CLOB exchange holds the orders and the tokens). This directory models the part
in which a mistake costs money without any formula being wrong: who runs the
loop, what happens to an order and its ledger row when calls fail or the process
dies, whether the daily limits survive restarts and midnights, whether the models
that race in the shadow of the loop are judged by what really happened, and
whether what is tuned from the ledger is what the loop then does. A second stack
kept beside the loop (`btc_5m_fv/ops/controller.py` and what it drives) is modelled as well.

Paths below are relative to `src/`.  `gate.py` and `live.py` are in
`btc_5m_fv/execution/`, `paper.py` and `controller.py` in `btc_bot/` unless said
otherwise.

## 1. Inventory

### Components

| Component | Source | State | Operations | Talks to |
|---|---|---|---|---|
| Risk gate | `btc_5m_fv/execution/gate.py` | counters per leg (PnL, peak), bought notional, their UTC date; cached operator knobs | `load`, `persist`, `refresh_operator_controls`, `check_entry`, `record_realized_pnl`, `record_buy_notional`, `reset_daily_loss_halt` | config table; called by the loop and by the executor; reset from the dashboard |
| Live executor | `btc_5m_fv/execution/live.py` | tracked entry and exit order ids, matched and sold shares, order journal | `reconcile_on_boot`, `try_enter`, `try_exit`, `cancel_open`, `record_settlement`, `enforce_kill_switch`, `resync_flat` | the exchange (post, cancel, lookup), the ledger, the gate |
| Trading loop and ledger | `btc_bot/paper.py` | module globals `_live_executor`, `_risk_gate`, `_loop_generation`; table of positions | start-up, tick (resolve, exit, check, enter), shutdown, `force_close` | the three above, feeds, notifications |
| Controller and watchdog | `btc_bot/controller.py` | runner thread and its stop event, desired state, cached mode, stall flags; config rows `state`, `requested_mode` | start, stop, set mode, status, watchdog poll and respawn | the loop's threads and globals |
| Adaptive auto-pause | `btc_bot/adaptive.py` | sticky pause, edge window start | evaluate, clear, session start | config table, ledger |
| Shadow race | `btc_bot/shadow/`, `tools/replay_race.py` | tick journal, one simulated position per model and window | log, settle, replay | the settlement connector, the ledger, the loop's snapshot |
| Settlement connector, price feed | `btc_5m_fv/connectors/chainlink_settlement.py` | series of price points, freshness; the loop's cached reference prices | subscribe, reconnect, read reference, resolve | the loop and the shadow race |
| Second-generation stack | `btc_5m_fv/ops/controller.py`, `execution/paper.py`, `execution/risk.py`, `storage/`, `backtest/harness.py` | orders with an audit table, positions, exposure and PnL, recorded windows and ticks | tick, submit, exit, shut down, record, replay, backtest | not on the path of `main.py` |
| Strategy, calibration, tuning | `btc_bot/strategy.py`, `calibration*.py`, `params*.py`, `backtest.py` | a fitted curve, proposed and confirmed thresholds, each in a file | decide, fit, propose, confirm | the loop reads the files, the tools read the ledger |
| Reports on the race | `tools/race_status.py`, `shadow_performance.py`, `regime_attribution.py` | none | stand, compare, attribute | read the shadow ledger |
| Config store, bootstrap, dashboard, market connectors | | | | see section 8 |

### How they interact

One process. The dashboard's event loop runs in one thread, a daemon *runner
thread* runs the trading loop, a *watchdog* thread replaces a runner whose
heartbeat is old. All of them share module globals (no lock around most of
them) and one SQLite file, where every `set_config` is a commit of its own. The
loop calls the gate before an entry and after a close, and in live mode hands
entry, exit and settlement to the executor, which calls the exchange over HTTP.
An order can fill at any moment; a call can fail before or after it took effect.

### What is hard, and what makes each component right

- **Gate.** Six writes per `persist()`, four per reset, from two threads; a date
  that may roll between any two calls; three older layouts of the same keys; a
  peak that has to survive everything, for a halt that trails it.
  Right means: a restart rebuilds today's counters and nothing else, a halt
  once reached stays reached, no entry below the floor, the bankroll cap bounds the
  day's buys.
- **Executor and ledger.** The row is written before the order, the order before
  its journal, the counters before the row is closed; every gap can be a crash.
  Right means: never two orders at once, no live order untracked, one
  clip per window where the clip is held to settlement, every share bought reaches the
  loss halt exactly once, the kill file silences buys, rows get resolved.
- **Auto-pause.** A verdict read in three awaits against a clear of three writes.
  Right means: a strategy that only loses is stopped after a bounded number of
  trades, stays stopped until it is cleared, and is not stopped again for what was cleared.
- **Controller.** Threads that cannot be killed, only told to stop; globals that
  belong to whoever wrote them last; check-then-act in the watchdog.
  Right means: one position, a loop that trades with its own gate and executor, no
  real position closed at paper prices, a loop that comes back when it wedges, stops that take and return;
  and a paper loop that never trades for real, a live loop that only the operator starts, which the code does not
  keep to everywhere (section 4).
- **Second-generation stack.** A tick of a dozen awaits against a shutdown on the same
  event loop; statements without rollback on one connection; counters that live in memory only.
  Right means: one position, books that agree with the counters, an audit trail
  that tells how every order came to its state, a tape that replays.
- **Shadow race.** References and outcomes that are provisional when they appear;
  every tick logs and settles again; four independent re-tellings of the same rows.
  Right means: one row per model and window, settled once and rightly and in the end, a
  ledger that is the replay of the journal, no claim that the rows do not carry.
- **Tuning.** Files replaced under a running loop, a curve fitted on trades the
  earlier curve chose, proposals that build on proposals.
  Right means: a sound curve, a control that follows the loop, no limit that drifts, a
  feed that stays in order across connections.

`PROJECT.json` lists every hazard at its line, with the property aimed at it.

## 2. Plan

| # | Modules | Status |
|---|---|---|
| 1 | `RiskGate`, `RiskGateProofs`, `MCRiskGate` | done |
| 2 | `PositionSlot` (abstract), `LiveExecutor` (implements it), `LiveExecutorProofs`, `MCLiveExecutor` | done |
| 3 | `Controller`, `MCController` | done |
| 4 | `AutoPause`, `AutoPauseProofs`, `MCAutoPause` | done |
| 5 | `Strategy`, `Verdicts`, `ShadowRace`, `ShadowRaceProofs`, `MCShadowRace` | done |
| 6 | `MarketTape`, `PaperDesk`, `PaperDeskProofs`, `MCPaperDesk` | done |
| 7 | `Tuning`, `TuningProofs`, `MCTuning` | done |
| 8 | `ControllerProofs`; a Start during the join of a stop; the bot that trades real money only | done |
| 9 | Proofs: every property of the gate, every safety property of the executor and its refinement, the auto-pause, the shadow race, the desk, the feed and the control | done |
| 10 | `Listing`, `DataLemmas`: induction over finite sets, when a fold exists, what sums and listings are; with it the books and the tape of the desk, the end of a losing streak and the series of the feed | done |
| 11 | Proofs about what the tools compute by folds: the sorting, the isotonic pooling and the grid of backtests, and with them `ProposalSound` and `CalibratorSound` | done |
| 12 | A proof of `VerdictsSound` | open |
| 13 | Stops that overlap stops or mode switches; sizing and the volatility estimate | open |

`Controller` composes the loop with the operator's requests; `LiveExecutor`
composes the executor with the loop's ledger and the exchange; `RiskGate`
composes the gate with the loop's calls and the dashboard's writes. `ShadowRace` composes the
loop's tick, the settlement connector, the shadow ledger and the tools that read it
(`Strategy` and `Verdicts` are their pure parts); `PaperDesk` the controller, execution manager, risk
service and recorder of the second stack (`MarketTape` is its pure part); `Tuning` the feed,
the loop's decisions and the tools that change what they rest on. Orders,
counters and threads meet only through the values one hands to the other (a verdict, a number of
shares, a mode), so each module takes the others' answers as any possible
answer rather than as the other module's state; the product of the three would be
beyond TLC and say no more.

No module carries a `RECURSIVE` operator: what the code does in a loop is a fold.

## 3. Modules and code

### RiskGate

`store` is the config table, a key at a time; `gate` the object in memory;
`pc = k` means `persist()` writes key `k` next. `settings` and `knobs` are the
operator's controls in the table and the gate's copy of them, refreshed at the top of a tick.
`today`, `prev` and `spent` are observers: what this UTC day's counters *should*
say, the same one change ago, and what the day really bought (`bought`), the buy whose `persist()` is under way
(`charging`) and the buys the process died recording (`lost`).

| Action | Code |
|---|---|
| `Start` | `load()` with its migration ladder (`Loaded`) and the leg the loop drives |
| `PersistStep` | one `set_config` of `persist()` |
| `Refresh` | top of a tick: `refresh_operator_controls` |
| `Enter`, `Credit` | `check_entry`, the charge of the notional (plus the venue-minimum bump of a live order), the credit of what a cancel gives back |
| `RecordRealizedPnl` | a close or a partial exit on the loop's own leg, rolling the day first |
| `EndTick`, `Stop` | end of a tick, end of the loop |
| `SetBypass`, `SetRuntimeCap`, `ResetRequest`, `ResetStep` | dashboard endpoints, the reset one write at a time |
| `NextDay`, `Crash` | the UTC clock; death between awaits, before a write of `persist()` in `CrashPoints`, or between two writes of a reset |

`Enter` is `block_reason` and the charge in one step, although the order is placed between them: what happens in that
gap is the subject of `LiveExecutor`, and only the loop that enters moves the counters. After a crash the day's record is what the store says, and
`CrashLosesAtMostOne` says how much that may lose; what was bought stays bought, recorded or not, and
`SpendWithinCap` is about that.

### LiveExecutor and PositionSlot

`orders`, `tokens` and `trading` are the exchange (modelled from how `live.py` uses
it); `row`, `used` and `journal` the database; `mem` the executor's fields; `pc`
and `task` the runner's place in the code, one step per call to the exchange or commit. `bought`
and `booked` count shares bought, and shares whose PnL reached the gate; `known`
marks orders whose placement was answered.

| Steps | Code |
|---|---|
| `Boot*` | `reconcile_on_boot`: cancel all, adopt one open row, refuse the rest |
| `EnforceKillSwitch`, `SettleDue`, `ExitDue`, `Hold`, `Stop` | the phases of a tick and the shutdown |
| `SkipEntry` .. `DeleteRow` | entry: row, gate check, post, journal, track or delete |
| `CancelExit` .. `CaptureMatched` | `cancel_open` |
| `Settle`, `NothingToSell`, `PostExit`, `ExitFilled`, `ExitTimeout`, `RegisterCancelledExit`, `CloseRow` | settlement, and the scalp exit with its await of the fill |
| `Fill`, `CloseBook`, `NextWindow`, `ToggleKill`, `Crash` | the world |

`PositionSlot` is what the two promise together: a slot is claimed before
anything real is at stake and released only when nothing is. `LiveExecutor`
implements it with `claimed <- row # None` and `stake <- Stake` (an order that can
still fill, or tokens of a market that has not resolved).

### Controller

`th[t]` is a runner thread: its place, its stop event, its generation, its mode
and whether its current await has wedged. `runner`, `gen`, `exec`, `gate` are
the globals, `exec` and `gate` naming the thread that set them. `op` is the
dashboard request being served: one at a time, but for a Start while a stop waits for its join,
which may be a minute and a half. `dog` is the watchdog between its verdict and its respawn, `poll` a status request between
its read and its reaction.

| Actions | Code |
|---|---|
| `ClaimGeneration` .. `SetStopped` | `run_paper_loop` from start-up to `finally` |
| `Wedge`, `Unwedge`, `HeartbeatAges`, `WatchdogPoll`, `Respawn` | an await beyond the stall limit, and the watchdog |
| `StartRead` .. `StartReport`, `StopRequest` .. `StopReport`, `SetMode` | the operator's requests |
| `StartMeanwhile` | a whole Start during the join of a stop |
| `PollRead`, `PollReport` | status with the silent-stop detector |
| `Crash` | the process dies; the ledger and the config rows stay |

### AutoPause

`trades` is the journal of closed trades, each with its opening second and its
result on a stake of one; `session`, `cleared` and `paused` the config keys; `pc` and `clear`
the places of the evaluation and of the clear. `Evaluate`, `ReadWindow`, `Judge`, `Pause`
are the reads and writes of `evaluate_and_maybe_pause`, `Edge`, `Recent` and
`Decayed` its `_edge_window_since`, `rolling_performance` and `should_pause`;
a window of trades is a set of places in the journal.
`ClearFlag` and `ClearStamp` are `clear_auto_pause`; `Enter` and `Close` the loop's
use of it; `alone` notes that no clear overlapped the evaluation. One write of the
loop, the reason's text, is left out, and so is the one between the two of the clear.

### PaperDesk and MarketTape

`db` is what the manager's one connection sees and `disk` what it has committed: a row per order
with its audit trail and its position. `tick` is the tick in progress, await by await, `down` the
shutdown, `risk` the counters of `RiskService`, `tape` the recorder's tables, each write of which is
committed at once. `verbose` says that INFO logging is on, under which a log
call with keyword arguments raises (`ops/controller.py:246-251`, `288`).

| Steps | Code |
|---|---|
| `BeginTick` .. `RecorderFails` | `run`, `tick` up to the recorder |
| `FetchOpen` .. `CloseFails` | `check_exits` and `_close_position` |
| `SkipEntry` .. `SubmitFails` | `pre_trade_check`, `submit_order` with its transitions, `_open_position`, the charge |
| `BeginShutdown` .. `ShutdownCommit`, `ShutdownFails` | `shutdown` with `force_close_all` |
| `RiskState`, `Updated`, `Status`, `PostTradeReport` | `get_risk_state`, which says STALE once five minutes have passed since the last trade, before it looks at any limit |
| `Restart` | death and a new process |

A statement of a close may fail before or after it took effect, and so may those of a shutdown. `quiet` says that five minutes have passed since
the last trade. `MarketTape` holds what is pure: the generator with its price and confidence limits, the recorder's overwriting writes, the replay of a window, both
coverage reports and the full-market backtest.

### Strategy, ShadowRace and Verdicts

`Strategy` holds `signal_from_executable_edges` with its gates and sizes, the roster of the shadow
models and the fee, in thousandths and ten-thousandths; a line takes the place of the normal distribution.
In `ShadowRace`, `opens` are the windows' final opening prices, `draft` what a new one is announced as until it is
revised, `cache` the loop's reference cache, `journal` the recorded ticks, `ledger` the shadow positions;
`watch` notes which windows' records are torn and which were settled on a provisional price. A replay is over the
places of the journal that hold the window's ticks (`ReplayTicks`).
The loop decides over the sides whose books are not crossed (`Buyable`), the shadow runner over every ask; `Lures` are
the crossed sides with no less of an edge than what the loop can buy.

| Steps | Code |
|---|---|
| `Advance`, `OpenWindow`, `Revise` | time and the price endpoint |
| `BeginTick`, `ReadReference`, `NoReference`, `QuietTick` | `_build_snapshot`, `get_reference_price` |
| `LogTick`, `RecordShadow`, `RecordCut` | `_log_tick`, `record_shadow` over the roster |
| `FindDue`, `SettleShadow`, `PassOver` | `_settle_due_shadows`, `settle_window`, `settle_open_shadow` |
| `Replay`, `Reconstructed`, `Labels`, `Summary`, `Matches` | `tools/replay_race.py` |

`Verdicts` is what the three reports conclude from settled rows: standing, deploy bar, comparison, cells of
the four axes, the false-discovery procedure and the two-sided rule. Results are cents rounded down,
1.96² is 96/25, the breakeven is rounded to thousandths, and a permutation test may say any value.

### Tuning

`feed` is `ChainlinkWsFeed` (`Connect`, `Update`, `Disconnect`, `GrowStale`, and `Publish` for the exchange); `closed` the
trades a calibration is fitted on, `file` and `cached` the calibrator on disk and in the process;
`proposed` and `active` the two parameter files (`Propose`, `Apply`). A tick is `Decide` (snapshot and decision, by the calibrated pair of probabilities, `CalibratedPair`, and the books
that are not crossed) and `LogShadow` (`Control`: the runner rebuilds the pair from `fair_up`, takes every ask, and the thresholds are read again); `moved`
says that others were confirmed in between; `Close` ends a position, `Restart` forgets what lives in memory.
`Fit` is `calibration_fit`; the operators before `Propose` are `btc_bot/backtest.py` over an exported history.

## 4. Runs

Passing:

| Run | Question |
|---|---|
| `gate_days` | Two days of a paper gate, from every layout of stored keys: do restarts, migrations and midnights rebuild exactly the day's counters (`RestartRebuilds`), and never let an entry through at the floor (`NoEntryAtFloor`)? |
| `gate_live` | One day with both kinds of loops, bumps, credits, resets and a death before any write of `persist()` or of a reset: do peaks dominate, does the halt stick (`HaltIsSticky`), does the cap bound what the day really buys, is at most the latest change lost, does a reset clear the halt? |
| `exec_settle` | Held to settlement, crashes before every step but one: is the system one position slot (`ImplementsSlot`), is every share booked (`BookedInFull`), is a window entered once, does the kill file silence buys? |
| `exec_scalp` | Sold before resolution, with posts, cancels and lookups that fail before or after taking effect, and crashes: one working order, none forgotten, no memory of what is gone (`MemoryInStep`), nothing booked twice (`NeverOverbooked`)? |
| `exec_progress` | Under fair scheduling, does every row eventually close although cancels and lookups may fail? |
| `ctl_live` | A bot that trades real money only, and everything that may happen: wedged and slow ticks, loops that die starting, Starts during a stop, refused boots, failing flattens, halts, deaths. Is there one row and a loop with its own gear (`OneLoopTrades`), and is nothing closed at paper prices (`NeverPaperClosed`)? |
| `ctl_recover` | Paper threads that wedge, outlast a join or die starting, Starts during a join, and process deaths: does the watchdog bring the loop back, is every abandoned thread told to stop, does every stop take and return (`StopsEnd`)? |
| `pause_edge` | Evaluations, clears, restarts and crashes in every interleaving: is a losing strategy stopped (`BleedBounded`), is no entry made while paused or, between evaluations, below the floor (`EntersSound`), does a clear stick (`ClearSticks`)? |
| `desk` | Ticks, exits, entries and a shutdown in every order, failing statements and deaths: never two positions (`OnePosition`), counters and reports that agree with the tables, STALE ones included (`BooksAgree`), an audit trail (`OrdersTraced`), a tape that replays, backtests and covers what it says (`TapeReplays`)? |
| `race` | One window and its successor, provisional opens, failing reads and writes, a death: is every shadow position settled once and rightly (`SettledRight`) and in the end (`ShadowsResolve`), is the ledger the replay of the journal, with the loop's decision in it unless a crossed book lured the runner away (`LedgerReplays`), and do the reports agree and claim only what the rows carry, here and in 512 sample ledgers (`VerdictsSound`)? |
| `tuning` | Prints, trades, fits, proposals, confirmations and ticks in every order: is the curve sound (`CalibratorSound`), is the logged control the loop's decision, with crossed books and confirmations in the midst of a tick (`ControlFollows`), do proposals keep their promises (`ProposalSound`), does the feed stay in order (`FeedInOrder`)? |

Violation, a disagreement between the code and what a comment in it says (quoted
under `findings`):

| Run | Shown |
|---|---|
| `exec_lostpost` | An order whose response is lost counts as not placed; the window is entered a second time and the first clip has no row. |

### Relaxations that break a property

The passing runs leave out some events on purpose, and adding one of these makes
TLC find a short counterexample (within seconds). They are
limits of what the passing runs show, and most of them are defects of the code;
to see one, edit the configuration as the first column says.

| Change | Violated | Why |
|---|---|---|
| `LiveExecutor_settle`, `Faults = {"cancel"}` | `KillQuiets` | the kill sweep is marked handled before its cancel, which is not repeated (`live.py:648-660`) |
| `LiveExecutor_settle`, `Faults = {"cancel"}` | `NeverForgotten` | a settlement ignores that its cancel failed and drops the id of an order that may still fill (`live.py:684`; `live.py:1075-1076` says an order is "never silently forgotten while possibly live") |
| `LiveExecutor_settle`, `CrashPoints = {"journal"}` | `ImplementsSlot` | death between the exchange's acceptance and the journal row: the boot deletes the row of a real order (`live.py:1329-1349`) |
| `LiveExecutor_settle`, `Faults = {"lookup"}`, no crash, no Stop | `NeverOverbooked` | a lookup that fails in the kill sweep counts as a full fill (`live.py:660`, `1102`) |
| `LiveExecutor_settle`, `CrashPoints = {"closeRow"}` | `NeverOverbooked` | the counters are written before the row is closed, so the row is settled again (`paper.py:1581-1590`) |
| `LiveExecutor_settle`, no crash, Stop allowed | `NeverOverbooked` | an adopted position starts with nothing sold (`live.py:574`) |
| `RiskGate_live`, `LastDay = 1`, no crash, no bump | `SpendWithinCap` | a cancel after midnight credits the new day with the old day's charge (`live.py:1106`) |
| `RiskGate_live`, `LastDay = 1` | `CrashLosesAtMostOne` | the date is written before the counters, so a death after it moves the old counters to the new date (`gate.py:232`) |
| `RiskGate_live`, `Operator = "impatient"` | `RestartRebuilds` | the reset interleaves with a starting loop's `load()` and `persist()` (`btc_5m_fv/ops/dashboard/app.py:676`) |
| `Controller_live`, `Modes <- BothModes`, `Events = {"wedge"}` or `{"slow"}` | `OneLoopTrades` | a superseded paper loop whose await returns finishes its tick beside its successor (`controller.py:293-294`, `paper.py:524-528`) |
| `Controller_live`, `EnvMode = "paper"`, `Modes <- PaperOnly`, `Events = {"wedge"}`, property `AbandonedNeverTrades` | `AbandonedNeverTrades` | the stop event is looked at between ticks only, so the abandoned tick enters a position (`paper.py:502`; `controller.py:290-292` says that the thread "exits immediately") |
| `Controller_live`, `EnvMode = "paper"`, `Modes <- BothModes`, `Events = {"startup"}`, property `LiveOnlyOnStart` | `LiveOnlyOnStart` | a paper loop dies starting; the watchdog notifies between its verdict and its respawn, a switch to live comes in between, and the loop it starts boots live (`controller.py:338-357`; `controller.py:41-42` says that it "must never auto-restart a real-money path") |
| `Controller_live`, `Modes <- BothModes`, `Events = {"overlap"}`, property `LiveOnlyOnStart` | `LiveOnlyOnStart` | a Start during the join of a switch to live marks the bot as wanted in paper mode; the watchdog respawns the loop after the stop, and that loop reads the mode just selected and boots live, although `controller.py:167-168` says the operator must press Start (`controller.py:210-216`, `253-254`, `350-357`) |
| the same, `OneLoopTrades` | `OneLoopTrades` | a Start between the watchdog's verdict and its respawn, which then abandons the loop just started |
| `Controller_live`, `Modes <- BothModes`, `Events = {"startup"}`, invariant `PaperIsPaper` | `PaperIsPaper` | a live loop that dies between setting `_live_executor` and its `try` leaves the executor to the next paper loop, which then enters for real (`paper.py:459-470`; `controller.py:24-25`) |
| `Controller_live`, `EnvMode = "paper"`, `Modes <- BothModes`, `Events = {"flatten"}` | `NeverPaperClosed` | the stop looks at the environment's mode, not at the one the operator selected, and closes the live row at paper prices (`controller.py:247`, `276`; it promises the opposite at `241-244`) |
| `Controller_live`, `Modes <- BothModes`, `Events = {"flatten"}` or `{"crash"}` | `NeverPaperClosed` | a paper loop that starts beside a live row, left by a failed flatten or a death, resolves it as its own |
| `Controller_live`, `EnvMode = "paper"`, `Modes <- PaperOnly`, `Events = {}`, property `PaperClosesCount` | `PaperClosesCount` | a stop closes paper positions after the loop dropped its gate: their PnL reaches no counter (`controller.py:276`, `paper.py:1769-1771`) |
| `RiskGate_live`, `Layouts <- EveryLayout` | `SpendWithinCap` | a reset before the first boot over the oldest keys writes `live_pnl` = 0, and `load()` then no longer reads the old keys: the bankroll counter of the day is dropped (`gate.py:200-208`, `484`) |
| the same | `CrashLosesAtMostOne` | `persist()` writes the date first; after a death right then `load()` skips the old keys although the new ones are not written (`gate.py:205`, `232`) |
| `AutoPause_edge`, `MinTrades = 1` | `EntersSound` | a clear stamped in the second in which a losing trade was opened leaves that one trade in the window, and an entry is made although it alone is below the floor (`adaptive.py:113-144`) |
| `AutoPause_edge`, `MinTrades = 3` | `BleedBounded` | the warm-up is compared with the trades of the window, so one that is longer than the window never ends, and nothing is ever judged (`adaptive.py:46-49`, `113-144`) |
| `PaperDesk_desk`, `MaxOpen = 2`, `MaxExposure = 2` | `BooksAgree` | a position inherited from an earlier process was never charged, but its exit releases the exposure of the one beside it (`execution/risk.py:171-198`) |
| `AutoPause_edge`, `ClearSticks` without `alone` | `ClearSticks` | a clear between the reads of an evaluation and its write is overwritten, and one whose stamp is not yet written does not move the window (`adaptive.py:125-136`, `155-157`) |

Other disagreements were met while modelling. The properties are stated so that they leave these
cases out, and the comment of each says so; no run shows them.

| Where | What |
|---|---|
| `storage/recorder.py:26-27` | "Bit-for-bit" replay holds for the last tick of a window only: its row is replaced by every tick, and the remaining time is rounded down by the loop and up by the replay (`LastTickReplays`). |
| `ops/controller.py:246-251`, `288` | `log.info` with keyword arguments on a standard logger raises once INFO is enabled: a tick ends after its first exit, a shutdown before it reports (`verbose`). |
| `ops/controller.py:284-295` | A shutdown that meets a tick in flight can leave it to open a position afterwards (`BooksAgree`). |
| `execution/risk.py:72-104` | A breach is reported and stops nothing: `pre_trade_check` does not look at the drawdown. After a restart inherited positions are not charged; with more than one allowed the exposure would be under-counted. |
| `backtest/harness.py:295`, `327-328` | The exit negates the edge of a Down position and compares it with the un-negated one of its entry; a trade that brings nothing counts as a loss (`190`), in `RiskService` as neither. |
| `chainlink_settlement.py:22-24`, `285-290` | A window is settled on the next open, which may be provisional; a shadow settlement is permanent (`SettledRight`). |
| `shadow/runner.py:10`, `49-77` | The control buys at the ask of a crossed book, the loop does not (`paper.py:229-248`, `934-955`): where the crossed side has no less of an edge, the ledger may hold that side, or no row for what the loop bought (`Lures` in `ControlFollows` and `LedgerReplays`). |
| `tools/replay_race.py:14-17` | The journal does not tell a degraded tick (price 0) from a real one, so that the replay trades on it or divides by it; ticks with one ask are logged but not replayed (`watch.torn`). |
| `paper.py:211-219`, `params.py:12` | The confirmed price cap is not applied; thresholds are read twice per tick, not once per window, so that after a confirmation in the midst of one the control may refuse what the loop decided, or the reverse (`moved` in `ControlFollows`). |
| `calibration.py:28-35` | With equal probabilities the fit is not the least-squares one and depends on the order of the trades (`Distinct`). The calibrator is cached for the life of the process: nothing calls its reload. |
| `calibration_fit.py:47` | Refits take the calibrated edge of the ledger for the raw probability they are applied to. |
| `shadow/signals.py:163-167` | `f45` is in the live roster although its docstring says it must not be. |
| `params_propose.py`, `params_apply.py` | The report's "current" row is that of the environment whatever was applied; the confirmation promotes whatever proposal is there; if no disciplined point has enough trades the recommendation may be below the edge floor of the environment. |
| `btc_bot/backtest.py`, `_close_at` | A trade before the first close of its window is judged by that later close (`NoLookAhead`), one before its window's start by the open to come (`BuysInWindow`). The lowest price is the tool's own default, whatever the environment says. |
| `tools/race_status.py:149` | The count at which the interval should clear zero is one too small when the quotient is whole (`BarHonest`). |

`SpendWithinCap` grants one bump: a live order is raised to the venue's minimum
after the gate has seen the smaller notional (`live.py:853`), so the cap alone is
not a bound. And it grants the buys whose recording a death cut off: the order is placed before it is recorded
(`live.py:865-899`), so the next loop does not know of it.

## 5. Bounds, and why they are enough

- `RiskGate`: in `gate_days`, `LossHalt = 2`, a gain of one unit, a loss of two and `MaxPnl = 2`
  let a leg gain, peak, and fall through the trailing floor from zero and from above; in `gate_live`, which has
  more events, one unit either way and `LossHalt = MaxPnl = 1` still do both. `BankrollCap = 3`
  with `Notionals = {2}` lets a first entry fit and blocks a second;
  `MaxTrade = 2` and `TradeSizes = {1}` let the runtime cap bind.
  `MaxSpend` (4, and 5 beside a lost buy) is above what the cap admits, bump included; a second buy after a
  lost one fits in as well. `LastDay = 1` gives one midnight, at every
  step; a second would add no new order of events, since nothing remembers two
  days back. `BumpMax = 1` distinguishes bumped from plain orders.
- `LiveExecutor`: `Size = 2` is the smallest clip that can be partly filled or
  partly sold. `LastWindow = 2` gives one roll, so that a position meets its
  window's end and its successor's entry. `LastOrder = 3` allows an entry, an exit and a
  retry, or two entries and an exit.
- `Controller`: `MaxThreads = 3` gives a loop, its successor after a stop or a death, and one
  more that a wrong restart could put beside it (2 in the fair run, for time; there a Start during a join leaves the second to the watchdog). A crash, and a loop that dies starting,
  leave one thread unused and a Start is served only if a thread is left (`Room`), so that the
  bound never stops a loop the code would start. 
- `PaperDesk`: three quotes give an edge for either side and one at a price the desk does not pay, two remaining times one before the
  exit by time and one in it; three ticks can open, hold and close, two orders are what
  `max_open_positions = 1` must keep apart; one fault (a failing statement at any of four places, the shutdown's among them, or a death) at any
  step. Exposure is counted in entries and PnL in levels. `MaxDrawdown = 1` makes any loss a breach, after which the status goes stale; the limits in between, where a loss is a warning only, are left to the proof.
- `ShadowRace`: one traded window and the beginning of its successor, each of two units of the clock, so
  that the entry limit lies between the units and every read can be before, at or after a revision. Two levels
  suffice for Up, Down and a tie; four markets give each side its edge, a crossed book whose crossed side is dear and one where it is
  the better bargain, and a one-sided one; two ticks with quotes,
  then quiet ones; one fault. The samples are every ledger with up to two rows in each of four cells: the least that can be
  profitable on one side, on both, and in one regime but not in another; `MinForClears = 4` and `MinN = 2` are below
  the defaults of 30 so that such ledgers pass and fail them.
- `Tuning`: two books, one of them crossed on the side that is the bargain. Five prints, trades and tool runs are enough to fit, to trade on the fit, and to fit again, or to propose
  twice on a confirmed proposal. The series of the feed is bounded at two of three points, so that the oldest makes room. Seven points of the grid
  are a corner with a lax and a disciplined part and ties; the three histories have enough disciplined
  trades, only lax ones, and too few, and their closes have gaps. `FewestTrades = 2` is below the default of 8.
- `AutoPause`: `Window = MinTrades = 2` is the shortest window in which order matters; `LastTrade = 5`
  holds two full windows and the trade that would be one loss too many;
  `LastSecond = 6` lets each be opened in a second of its own. The floor is the
  default, -15 %. `MinTrades` has to be at least two for `EntersSound`: no two trades open in one second (section 4).

Deadlock is checked in every run but `desk`, where a desk that has been shut down really stops.

## 6. Fairness

- `LiveExecutor`: `WF(Runner)`: the loop is a single thread whose steps
  have timeouts. `WF(NextWindow)`: time passes. `SF(SettleDue)`: the outcome of
  a past window, although it may be unreadable at any one tick, is readable infinitely
  often; the code asks again on every tick. Nothing is assumed of the
  exchange: fills, cancels and lookups may never succeed.
- `Controller`: `WF` of each runner thread: the scheduler runs it, unless its await
  has wedged, and then it is never required to go on. `WF` of a request
  once begun: the handler is straight-line code. `SF` of the heartbeat's ageing and of the
  watchdog's poll: a Start beats too and resets the clock, so weak fairness would let an
  operator who keeps pressing Start starve the watchdog; strong fairness says that
  now and then the operator leaves Start alone for the length of a poll. Nothing obliges the
  operator to do anything.

- `ShadowRace`: `WF(Ticking)`: the loop ticks for as long as it runs, and reads fail a bounded number of times, not for ever.
  `WF(Advance \/ OpenWindow \/ Revise)`: time passes, and what was announced wrong is revised.

## 7. What is proved

With TLAPS, for every value of the constants that the `ASSUME`s of a module admit: 35 of the 40 properties that the
passing runs check. A proviso names the events that are left out, as the configurations of the runs do;
section 4 shows what they break.

| Module | Theorem | States | Proviso |
|---|---|---|---|
| `RiskGateProofs` | `TypeCorrect` | `[]TypeOK` | |
| | `PeaksAlwaysDominate` | `[]PeakDominates` | |
| | `RestartsRebuild` | `[]RestartRebuilds` | `Operator # "impatient"` |
| | `NoEntriesAtFloor` | `NoEntryAtFloor` | `Operator # "impatient"` |
| | `HaltStaysBreached` | `HaltIsSticky` | `Operator # "impatient"` |
| | `SpendStaysWithinCap` | `[]SpendWithinCap` | `CountsHold`: not impatient; one day or no live loop; no layout of the oldest keys |
| | `ResetAlwaysClears` | `ResetClearsHalt` | `Operator # "impatient"` |
| | `CrashLosesOneChange` | `CrashLosesAtMostOne` | `OneDay`: not impatient, one day, no layout of the oldest keys |
| `LiveExecutorProofs` | `TypeCorrect` | `[]TypeOK` | |
| | `NeverOverbookedAlways` | `[]NeverOverbooked` | sold before resolution |
| | `MemoryInStepAlways` | `[]MemoryInStep` | `CancelsCount`: sold before resolution, or cancels succeed |
| | `OneClipAlways` | `[]OneClipPerWindow` | `EntriesOnce`: held to settlement, no lost post |
| | `KillQuietsAlways` | `[]KillQuiets` | `CallsAnswered`: only lookups fail |
| | `IsPositionSlot` | `ImplementsSlot` | `NothingMissed`: posts and lookups answered, `CancelsCount`, no crash before the journal entry |
| | `BookedInFullAlways` | `[]BookedInFull` | `NothingFails`: held to settlement, no call fails, no crash before the journal entry |
| `ControllerProofs` | `TypeCorrect` | `[]TypeOK` | |
| | `RealMoneyRunsAlone` | `[]OneLoopTrades` | `RealMoneyOnly`: the environment and every mode the operator may select are live; any event |
| | `RealPositionsCloseLive` | `NeverPaperClosed` | `RealMoneyOnly`; any event |
| | `OneLoopTradesUnlessRestarted` | `[]OneLoopTrades` where `[](dog # "respawn")` | one mode, or no loop dies starting; any other event, mode switches included |
| | `AbandonedStopped` | `[]AbandonedAreStopped` | |
| `AutoPauseProofs` | `TypesHold` | `[]TypeOK` | |
| | `EntriesSound` | `EntersSound` | a warm-up of two trades or more |
| | `ClearsStick` | `ClearSticks` | |
| | `StreaksEnd` | `[]BleedBounded` | `Judging`: a warm-up of two trades or more and no longer than the window, a floor above a total loss |
| `ShadowRaceProofs` | `TypesHold` | `[]TypeOK` | |
| | `SettlesRight` | `[]SettledRight` | |
| | `LedgerIsReplayed` | `[]LedgerReplays` | |
| `PaperDeskProofs` | `TypesHold` | `[]TypeOK` | |
| | `OnePositionAlways` | `[]OnePosition` | |
| | `AuditTells` | `[]OrdersTraced` | |
| | `BooksHold` | `[]BooksAgree` | `OneAtATime`: at most one position, and entries of something |
| | `TapeAlwaysReplays` | `[]TapeReplays` | |
| `TuningProofs` | `FeedAlwaysInOrder` | `FeedInOrder` | |
| | `ControlAlwaysFollows` | `ControlFollows` | |
| | `CalibratorAlwaysSound` | `[]CalibratorSound` | |
| | `ProposalsAlwaysSound` | `[]ProposalSound` | `BuysInWindow`: no exported buy precedes its window; an environment whose lowest price is not below the backtest's (5 cents) |

The `ASSUME`s, which TLC evaluates in every run, say that bounds are
natural numbers, that quotes, markets, prices and parameters have the types of the code's data, and that `None` is not a number. Before a proof, TLC checked each
conjunct of its invariant as an invariant of the run, under the proviso.

**The gate.** The proviso `Operator # "impatient"` is that of the runbook
(`docs/OPERATIONS_RUNBOOK.md:170`): the reset is for a stopped bot. The code checks
the stored state once and does not hold the loop off for its four writes.

- `RestartRebuilds` compares what the next boot would rebuild
  with the record, and says nothing of a store in the middle of a `persist()`. The inductive invariant
  (`RebuildInv`) has four parts. The counters in force are the
  record (`today = InForce`), for a running gate and for a stopped one. No date in
  memory, store or record lies in the future (`DatesPast`), so that after
  midnight a stale store cannot look current again. The keys already
  written by the `persist()` in progress agree with memory, and all of them once it is over
  (`Saved`), which is what makes a stop and a crash between awaits harmless. And a reset in
  progress is alone (`ResetAlone`), so that its writes and a persist's never mix.
  `NoEntriesAtFloor` and `HaltStaysBreached` are action properties on top of it.
- `PeakDominates` needs only types and the fact that `Loaded` raises a stored peak to the leg's PnL, so it holds for an
  impatient operator as well.
- `SpendInv`: neither memory nor any key or mixture of keys a boot could read counts more than the cap and a bump
  (`Capped`), what the day really bought is what the record counts and what was lost beside it (`Counted`), what a death would lose now is
  what a boot would read short (`Charging`), a credit refers to a charge of the same day (`SameDay`), and what a
  reset meets is no store of the oldest keys (`NoOldKeys`).
- `ResetInv`: the keys that the reset has passed are zero, so that the last write completes the promise.
- `TornInv`: whatever a `persist()` cut off after any of its writes leaves, each counter of the store is that of memory
  or that of one change ago (`Torn`), and only today's date is ever stored (`Dated`).

**The executor.** `Sound` holds under every fault and crash: a working order has an open book and something left to fill
(`Exchange`), each place of the runner has what it was sent for (`Errands`), memory follows the open row and nothing else (`Memory`), and a tracked id
is an order of the right side and window that cannot sell more than was matched (`Placed`). On top of it:

- `Covered`: what was booked, what is about to be, and what is held together never exceed what was bought.
- `Tracked`: one order works at a time and it is one of those the runner holds at its place.
- `Once`: the buys of a window are one order, and a window with a buy has had its row.
- `Quiet`: a tick that may still open began before the kill file was handled, and every order's placement was answered (`AllKnown`).
- `Slotted`, for the refinement: the row's window has begun (`Clock`), orders and tokens at stake are of the row's window (`Confined`),
  the journal names the one BUY that may work and that matched all that is held (`Journaled`), and once a matched size is known no BUY works and what is held is unsold (`Holds`).
  From it follows `UnclaimedIsEmpty`: without a row nothing real is at stake. The refinement is then by steps: a step either leaves
  the row alone, and may change the stake while it is claimed, or claims or releases it and leaves window and exchange alone.
- `Booked` adds to `Slotted` and `Once` that a closed row's shares are booked and that a position's matched size is what was bought once
  its order has ended (`Accounted`).

**The controller.** That a loop ticks with its own gear says nothing of
the other threads that could take it away. `Inv` adds that, for as long as the watchdog restarts nothing. One thread lives at a time and it is the runner,
told to stop or not (`Lone`), since a Start leaves a living thread alone; requests ask for selectable modes, and where the environment says live
no stop closes a row (`Requests`); where there is one mode every thread has it (`SameMode`); the gear belongs to the living thread from its boot to its end, and
what a loop that died starting leaves behind is for a live loop to replace (`OwnGear`); and the ledger is still empty when a loop is about to enter (`OneRow`).
So only a restart can bring a second loop about (`OneLoopTradesUnlessRestarted`). Where only real money is traded there is none: a bot that is wanted
is known for a live one, for which the watchdog only notifies (`Calm`). No wedge, slow stop, failing start or overlapping Start is left out of it.
`AbandonedAreStopped` is inductive given the shape of `th`, because whoever replaces
a living runner stops it in the same step. For the types, a generation is within its range because it counts the threads that
have claimed one (`Numbered`): the proof is about the cardinality of that set.

**The auto-pause.** `Dated`: the trades are in the order of their openings, which lie in the past. `Judged`: while an evaluation
goes on the flag is down, and the edge it has read is still in force or a clear has moved it since, to a second
in which at most one trade was opened. That one trade is why the warm-up has to be longer.
`Bled`, for `BleedBounded`: no streak of losses is longer than the window, and while a position is open the last trades that would be judged have
not all lost (`StreakDecays` says that they would be below the floor), so the loss to come is at most the one that completes the streak.

**The shadow race.** `Sound` is eight invariants: types and what each step of a tick may rely on (`Typed`), what lies in the past (`Timed`),
references that are final opens (`Referenced`), settled rows with the right outcome (`Judged`), ticks that can be replayed where the record is not torn (`Whole`),
the ledger as the first firing tick of the journal, with a tick counted as seen only once its rows are written (`Replayed`), models with the one they narrow (`Narrowed`),
and results (`Paid`). The first tick at which a model fires exists by the well-foundedness of the numbers. `Backed`
says that the side the loop took is the active model's on the same view unless there was a lure: a crossed side that is not one
has less of an edge than what the loop can buy, so the runner does not choose it either.

**The desk.** That there is one position does not carry over the awaits between the check and the insert; `Room` says that from the
check to the insert there is room for one more, which holds because nothing but that tick opens positions. `Typed` says
what each step of the tick may rely on after its await: the row of the order in flight is there, and the positions it looks at are of filled orders.
`Few` is what makes the audit trail tell: apart from the order in flight, at most as many rows are cut off or
lack their position as there were faults. The tape is never longer than the ticks served, which bounds its ids.
The books agree between two ticks only; in the midst of one they are off by what is under way, and `Booked` says by what: which steps have something
uncommitted (`Committed`), that the risk service has been told of every close but the one that waits for its commit (`Tallied`), that the
exposure is that of the open position unless an earlier process opened it (`Exposed`), and that a shutdown that met no tick stays alone and knows what is left (`Orderly`).

**The tape.** `Taped` is the inductive invariant. Recorded ticks are numbered and come in the order of time, none after the tick in progress
(`InTime`); each has a row of its window, and a row without ticks was cut off (`WithRows`); the row is at the price of the last of them unless
it was written for a tick that was not (`Priced`). The replay of a window is then a listing of its ticks in that order (`ReplayListed`), of which the last
is read back at its own price. Every recorded tick is in one window, so the sizes of the replays sum up to the number of ticks (`SumOfParts`).
The backtest is three folds within one another (windows, ticks, results); each stays among the sound runs (`Sound`): as many trades as entries but
for the open one, each left in the window it was entered in and not before. The result's drawdown is never below what the equity fell from its peak (`Accounts`).

**The feed and the control.** `handle_message` is a fold over the points of a frame. The proof is for any frame of the exchange's points,
whatever their order: `Accept` turns a series in order into one in order whose latest point is no earlier (`Later`), so the fold exists with
values in `Later` (`FoldExists`), and so every function that solves its equation has them, the one the community modules choose among them.
`Agreed`, for the control, says that between the decision and the log the loop's signal is what v0 said of the books it can buy, by
thresholds still in force unless others were confirmed meanwhile (`Said`), and that the calibrated pair sums to one, so that the one rebuilt from `fair_up` is
the same. The chosen side is then the same unless the runner chooses a crossed one, which is a lure; and thresholds only accept or refuse a chosen side.

**The calibrator.** `Trusted`: what was closed are trades, and a calibrator on disk or in the loop is the fit of the first so many of them (`Made`), however many were closed since;
so it has blocks that rise and count its trades (`Fits`). That a fit has such blocks is proved along its three folds. Sorting returns the same trades in order (`SortedTrades`, from `ArrangedOrders`). Pooling one block
into a stack is a walk from its end that keeps what lies below the block and takes in the rest (`PoolWalks`, `PoolShape`, for which `Below` compares
means as cross-products); so the stack still rises, its edges too, and no trade is lost (`PoolRises`, `PavRises`). The first block whose edge is not below a probability
then comes no earlier for a larger one (`TransformRises`), and the pair's quotient, rounded half to even as the code does, rises and sums to one (`RoundedIs`, `CalibratedRises`, `CalibratedSums`).

That it is the least-squares fit rests on the picture of the algorithm: plotted against how many trades there are, how many of them were right is a path,
the blocks are lines between points of it, and pooling keeps the path on or above every line (`Hull`, kept by each merge in `HullGrows`). Where no two
trades share a probability each one falls into the block that counts it (`FallsWhereCounted`). From the start of its block on no mean is below the block's, and up to
the end of it none is above, which is the minimax (`MinimaxOfBlock`, from `LowestIsLeast` and `FractionBounds`). For the squares, the lead of the fitted values over
the outcomes is never positive and nothing where a block ends (`LeadOfBlock`, `LeadSteps`), while the raw probabilities rise: one induction over the trades
then shows that the fitted values are no farther from the outcomes (`MeansAreNearest`, `NoWorse`). `BrierCal` counts in units of one over the product of the block sizes (`Multiple`),
so that its divisions are exact for any number of trades (`MultipleOfSizes`).

**The proposals.** A close looked up among those known at a time is the one looked up among all, as long as one was known and the time asked for is not later (`KnownClose`):
that is the join without look-ahead. It needs `BuysInWindow`, since the open of the window is looked up as well and the code keeps a buy
from before it. The backtest of a point is a fold of numbers (`EvaluateScores`), so that `Better` orders the results, and the first disciplined one of the sorted
results is beaten by none (`RecommendedIsBest`). `Offered` says of both files that they are such a recommendation beside the environment's own limits, which a proposal copies from what was confirmed before.
`Ruled`, for what the loop signals, says that a signal which is not logged yet keeps to the thresholds it was decided by (`Heeded`). The bound on the environment's
lowest price is needed because the tool takes its own default and not the environment's.

**Data.** `DataLemmas` states what the others need of folds, which the community modules define by a `CHOOSE`: a fold whose steps stay
in a set exists there (`FoldExists`, `WalkExists`); a sum (`SumFunctionOnSet`) exists, is an integer, splits at any element, and depends on the values of its elements only;
the listing of finitely many numbers holds each of them once and in order (`AscendingLists`). The library's induction
theorems take an operator as a parameter, which the provers cannot instantiate; `SubsetInduction` and `Stepwise` take the claim as a set instead, and follow from
the well-foundedness of the numbers. `SelectSeq` and `SortSeq` are recursive inside the standard modules and closed to the provers, so
`Listing` states what a filter and `sorted()` do with folds and functions (`Filtered`, `StableSort`; `Once` evaluates an argument once, for TLC's sake). A stable sort by
any order that some numbers explain lists each place once, none after one that comes before it (`ArrangedOrders`).

`BooksAgree` speaks of what the reports say: the counter of updates tells whether there was a trade, so when the status goes stale.

**Only model-checked.** `VerdictsSound`: it speaks of what the three reports compute
from rows they filter with `SelectSeq` and fold in the order of `SetToSeq`, and of particular samples.
The liveness properties (`RowsResolve`, `PaperRecovers`, `StopsEnd`, `ShadowsResolve`) need fairness and `ENABLED`, which are out of
the prover's reach.

## 8. Not modelled

- Prices and sizes of the live path: inputs. A close realizes some amount, an
  entry asks for some notional, an order has some number of shares. Probabilities come from a line instead of the normal
  distribution, and the volatility and drift estimates are left out. Floating-point rounding is not
  covered, except where a rounding decides (the fee, the sizes of an entry, the remaining time).
- The per-order price checks of the gate appear as one slippage verdict;
  unparsable stored values and the one-off bypass migration are left out.
- Requests that overlap otherwise than a Start with the join of a stop; a superseded loop beside
  its successor is in `Controller` only, not in the other modules.
- The reconnecting feed's back-off, its addresses and its JSON; the closes that seed the volatility.
- `IncidentManager`, which nothing calls, and the path from a skipped signal to a cancelled order, which the controller never takes.
- Bootstrap intervals and the permutation itself (its p-value may be anything); `backtest/conditional.py`,
  which repeats `btc_bot/backtest.py` over other data; `reconcile_live_ledger` and the remaining scripts of `tools/`.
- Config store: used as an atomic write per key and an atomic read, which is what
  SQLite gives its callers; not modelled by itself.
- Bootstrap, the pages of the dashboard, market connectors: presentation and pure I/O. The dashboard endpoints
  that change state are actions of `RiskGate` and `Controller`.
