------------------------------ MODULE ShadowRace ------------------------------
(***************************************************************************)
(* The shadow race: every tick of the trading loop (btc_bot/paper.py)      *)
(* builds a snapshot from the settlement feed and the books, journals it,  *)
(* logs what each model of the roster would buy (btc_bot/shadow) and       *)
(* settles the windows that are over.  The settlement connector is         *)
(* connectors/chainlink_settlement.py; the replay of the journal is        *)
(* tools/replay_race.py; what is concluded from the ledger is Verdicts.    *)
(*                                                                         *)
(* A window is a few units of the clock.  In the first of them its open    *)
(* may still be provisional, as it may be for a second in reality.         *)
(***************************************************************************)
EXTENDS Verdicts

CONSTANTS
    Params,         \* StrategyParams
    Active,         \* the model the operator selected
    LeftAt,         \* the seconds left in the units of a window
    Levels,         \* what the first print of a window may say
    Markets,        \* what a tick may find: [spot, book], book is [ask, bid] by side
    LastWindow,     \* bound: windows that are traded
    MaxTicks,       \* bound: ticks that find a market with quotes
    MaxReads,       \* REFERENCE_MAX_READS (5)
    MaxFaults       \* bound: deaths and failed reads and writes

Units == Len(LeftAt)
Windows  == 1..LastWindow
Start(w) == (w - 1) * Units
LastTime == Start(LastWindow + 1) + 1

Books   == [ask : [Sides -> 1..Unit \cup {None}], bid : [Sides -> 1..Unit \cup {None}]]
Signals == [side : Sides, price : 1..Unit, edge : Int, conf : Int]
Rows    == [side : Sides, price : 1..Unit, at : 1..MaxTicks, outcome : Sides \cup {None}, pnl : Int]

ASSUME NoneAssumption == None \notin Int \cup Sides /\ None \notin Signals /\ None \notin Rows
ASSUME BoundAssumption == {LastWindow, MaxTicks, MaxFaults} \subseteq Nat /\ MaxReads \in Nat \ {0}
ASSUME WindowAssumption == LeftAt \in Seq(1..WindowSeconds) /\ Len(LeftAt) > 1
ASSUME MarketAssumption == Levels \subseteq Nat \ {0} /\ Markets \subseteq [spot : Nat, book : Books]
ASSUME ModelAssumption ==
    /\ Active \in Models
    /\ Params \in [edgeMin : Nat, edgeMax : Nat, minConf : Nat, minLeft : Nat,
                   minPrice : Nat, maxPrice : Nat, minTrade : Nat, maxTrade : Nat]

VARIABLES
    clock,
    opens,      \* the final open of each window, once it has begun
    draft,      \* the provisional open of the window that just began
    cache,      \* _reference_cache
    tick,       \* the tick in progress
    journal,    \* btc_paper_ticks
    ledger,     \* btc_model_shadow_positions: window -> model -> row
    watch       \* observers: windows whose record cannot be replayed, windows settled on a
                \* provisional price, faults so far

vars == <<clock, opens, draft, cache, tick, journal, ledger, watch>>

Idle == [step |-> "idle", now |-> 0, window |-> 1, market |-> None, view |-> None,
         prev |-> None, reads |-> 0, due |-> {}]
GoTo(step) == tick' = [tick EXCEPT !.step = step]

Init ==
    /\ clock = 0
    /\ opens = [w \in 1..LastWindow + 1 |-> None] /\ draft = None
    /\ cache = [w \in 1..LastWindow + 1 |-> None]
    /\ tick = Idle
    /\ journal = <<>>
    /\ ledger = [w \in 1..LastWindow + 1 |-> [m \in Models |-> None]]
    /\ watch = [torn |-> {}, drafted |-> {}, faults |-> 0]

Fails == watch.faults < MaxFaults
Failed == [watch EXCEPT !.faults = @ + 1]
Torn(w) == [watch EXCEPT !.torn = @ \cup {w}]

\* What a process keeps in memory only.
Forget == cache' = [w \in DOMAIN cache |-> None]

-----------------------------------------------------------------------------
(* The exchange's price endpoint: crypto-price.                            *)

Current == clock \div Units + 1

\* Time passes, but for the moments a tick writes. A window opens on a level that may be announced
\* wrong at first, and is right before the next unit.
Advance ==
    /\ clock < LastTime /\ opens[Current] # None /\ draft = None
    /\ tick.step # "record"
    /\ clock' = clock + 1
    /\ UNCHANGED <<opens, draft, cache, tick, journal, ledger, watch>>

OpenWindow ==
    /\ opens[Current] = None
    /\ \E final \in Levels, first \in Levels :
        /\ opens' = [opens EXCEPT ![Current] = final]
        /\ draft' = IF first = final THEN None ELSE first
    /\ UNCHANGED <<clock, cache, tick, journal, ledger, watch>>

Revise ==
    /\ draft # None
    /\ draft' = None
    /\ UNCHANGED <<clock, opens, cache, tick, journal, ledger, watch>>

\* openPrice of fetch_window: provisional at first, null before the window begins.
OpenPrice(w) ==
    IF w > Current THEN None ELSE IF w = Current /\ draft # None THEN draft ELSE opens[w]

\* closePrice: null until the completion job has run, a while after the end.
ClosePrice(w) == IF clock > Start(w + 1) THEN opens[w + 1] ELSE None

-----------------------------------------------------------------------------
(* A tick: _build_snapshot.                                                *)

\* _fetch_current_market: the window of the clock, or the next one, or the one before.
Discoverable == {Current, Current + 1, Current - 1} \cap 1..LastWindow + 1

\* Seconds left, from the clock at the beginning of the tick.
LeftIn(w, now) ==
    IF now >= Start(w + 1) THEN 0
    ELSE IF now < Start(w) THEN WindowSeconds + 1
    ELSE LeftAt[now - Start(w) + 1]

\* The view of a snapshot; missing prices are zero, and fair is one half without them.
View(w, now, market, ref) ==
    [left |-> LeftIn(w, now), spot |-> market.spot, ref |-> ref, fair |-> Pair(FairUp(market.spot, ref)),
     ask |-> market.book.ask, bid |-> market.book.bid]

Degraded(view) == view.spot = 0 \/ view.ref = 0

\* The books, and the spot: the last point of a fresh feed, or else a print read by REST; both may
\* be missing.
BeginTick ==
    /\ tick.step = "idle" /\ Len(journal) < MaxTicks
    /\ \E w \in Discoverable, found \in Markets, priced \in BOOLEAN :
        /\ ~priced => Fails
        /\ LET market == IF priced THEN found ELSE [found EXCEPT !.spot = 0]
               begun  == [Idle EXCEPT !.step = "ref", !.now = clock, !.window = w, !.market = market]
           IN  tick' = IF cache[w] = None THEN begun
                       ELSE [begun EXCEPT !.step = "log", !.view = View(w, clock, market, cache[w])]
        /\ watch' = IF priced THEN watch ELSE Failed
    /\ UNCHANGED <<clock, opens, draft, cache, journal, ledger>>

\* A tick whose books are empty: nothing to log, but the windows that are over are settled.
QuietTick ==
    /\ tick.step = "idle" /\ Len(journal) = MaxTicks
    /\ tick' = [Idle EXCEPT !.step = "due", !.window = Current]
    /\ UNCHANGED <<clock, opens, draft, cache, journal, ledger, watch>>

\* Fault: the first print is read as soon as it is there.
WaitedNot(w) == TRUE

\* get_reference_price waits for the settle delay, unless the window is far in the future.
Waited(w) == clock > Start(w) \/ w > Current

Reading == tick.step = "ref" /\ opens[Current] # None /\ Waited(tick.window)

WithView(ref) ==
    [tick EXCEPT !.step = "log", !.prev = None, !.reads = 0,
                 !.view = View(tick.window, tick.now, tick.market, ref)]

\* One read; two equal ones in a row, or the last one of too many, are the reference.
ReadReference ==
    /\ Reading /\ tick.reads < MaxReads
    /\ LET price == OpenPrice(tick.window)
           taken == price # None /\ (price = tick.prev \/ tick.reads = MaxReads - 1)
       IN  /\ tick' = IF taken THEN WithView(price)
                       ELSE [tick EXCEPT !.reads = @ + 1, !.prev = IF price = None THEN @ ELSE price]
           /\ cache' = IF taken THEN [cache EXCEPT ![tick.window] = price] ELSE cache
    /\ UNCHANGED <<clock, opens, draft, journal, ledger, watch>>

\* A read fails, or none of them said anything: the tick goes on without a reference.
NoReference ==
    /\ Reading
    /\ \/ tick.reads = MaxReads /\ watch' = watch
       \/ Fails /\ watch' = Failed
    /\ tick' = WithView(0)
    /\ UNCHANGED <<clock, opens, draft, cache, journal, ledger>>

\* The loop takes no side of a crossed book; the shadow runner does.
Decision == IF Degraded(tick.view) THEN None ELSE ModelSignal(Active, Buyable(tick.view), Params)

\* record_shadow leaves out a degraded tick and one without any ask.
Shadowed == ~Degraded(tick.view) /\ Candidates(tick.view) # {}

\* load_ticks leaves a tick without two asks out, and cannot tell a degraded one.
Replayable == ~Degraded(tick.view) /\ \A s \in Sides : tick.view.ask[s] # None

\* _log_tick
LogTick ==
    /\ tick.step = "log"
    /\ journal' = Append(journal, [window |-> tick.window, view |-> tick.view,
                                   side |-> IF Decision = None THEN None ELSE Decision.side])
    /\ GoTo("record")
    /\ watch' = IF Replayable THEN watch ELSE Torn(tick.window)
    /\ UNCHANGED <<clock, opens, draft, cache, ledger>>

-----------------------------------------------------------------------------
(* record_shadow and the ledger, a commit per model.                       *)

Row(signal) ==
    [side |-> signal.side, price |-> signal.price, at |-> Len(journal), outcome |-> None, pnl |-> 0]

\* Fault: INSERT OR REPLACE
InsertOrReplace(row, signal) == IF signal = None THEN row ELSE Row(signal)

\* INSERT OR IGNORE on (window, model)
InsertOrIgnore(row, signal) == IF signal = None \/ row # None THEN row ELSE Row(signal)

\* One model after the other, each with its commit. Nothing comes in between them but a failure.
LoggedBy(models) ==
    [ledger EXCEPT ![tick.window] =
        [m \in Models |-> IF m \in ToSet(models) THEN InsertOrIgnore(@[m], ModelSignal(m, tick.view, Params)) ELSE @[m]]]

RecordShadow ==
    /\ tick.step = "record"
    /\ ledger' = LoggedBy(IF Shadowed THEN Roster ELSE <<>>)
    /\ tick' = [Idle EXCEPT !.step = "due", !.window = tick.window]
    /\ UNCHANGED <<clock, opens, draft, cache, journal, watch>>

\* "shadow.harness_error": an insert fails, and this tick logs and settles no more; or a death.
RecordCut ==
    /\ tick.step = "record" /\ Shadowed /\ Fails
    /\ \E k \in 0..Len(Roster) - 1 : ledger' = LoggedBy(SubSeq(Roster, 1, k))
    /\ tick' = Idle
    /\ watch' = [Failed EXCEPT !.torn = @ \cup {tick.window}]
    /\ \E died \in BOOLEAN : IF died THEN Forget ELSE UNCHANGED cache
    /\ UNCHANGED <<clock, opens, draft, journal>>

-----------------------------------------------------------------------------
(* _settle_due_shadows.                                                    *)

OpenRows(w) == {m \in Models : ledger[w][m] # None /\ ledger[w][m].outcome = None}

\* Fault: only the windows the operator's model has traded are looked at.
DueActive == {w \in DOMAIN ledger : Active \in OpenRows(w)} \ {tick.window}

\* The windows with open rows, but for the one of the tick.
Due == {w \in DOMAIN ledger : OpenRows(w) # {}} \ {tick.window}

FindDue ==
    /\ tick.step = "due"
    /\ tick' = IF Due = {} THEN Idle ELSE [tick EXCEPT !.step = "settle", !.due = Due]
    /\ UNCHANGED <<clock, opens, draft, cache, journal, ledger, watch>>

\* settle_window: the close, or after the end the open of the next window, as it is announced.
Close(w) == IF ClosePrice(w) # None THEN ClosePrice(w)
            ELSE IF clock < Start(w + 1) THEN None ELSE OpenPrice(w + 1)

UpWon(w) == Close(w) >= OpenPrice(w)

\* Fault: the fee is forgotten.
SettledRowGross(row, side) ==
    IF row = None \/ row.outcome # None THEN row
    ELSE [row EXCEPT !.outcome = side, !.pnl = (IF row.side = side THEN Unit - row.price ELSE -row.price) * 100000]

\* settle_open_shadow, in one transaction
SettledRow(row, side) ==
    IF row = None \/ row.outcome # None THEN row
    ELSE [row EXCEPT !.outcome = side, !.pnl = NetPnl(row.price, row.side = side)]

Settling(w) == tick.step = "settle" /\ tick.due # {} /\ w = CHOOSE v \in tick.due : \A u \in tick.due : v <= u

Done(w) == LET left == tick.due \ {w} IN IF left = {} THEN Idle ELSE [tick EXCEPT !.due = left]

SettleShadow(w) ==
    /\ Settling(w) /\ OpenPrice(w) # None /\ Close(w) # None
    /\ LET side == IF UpWon(w) THEN "Up" ELSE "Down"
       IN  ledger' = [ledger EXCEPT ![w] = [m \in Models |-> SettledRow(@[m], side)]]
    /\ tick' = Done(w)
    /\ watch' = IF ClosePrice(w) = None /\ draft # None
                THEN [watch EXCEPT !.drafted = @ \cup {w}] ELSE watch
    /\ UNCHANGED <<clock, opens, draft, cache, journal>>

\* Not over yet, or the read fails.
PassOver(w) ==
    /\ Settling(w)
    /\ \/ (OpenPrice(w) = None \/ Close(w) = None) /\ watch' = watch
       \/ Fails /\ watch' = Failed
    /\ tick' = Done(w)
    /\ UNCHANGED <<clock, opens, draft, cache, journal, ledger>>

\* Death between the commits, and a new process.
Restart ==
    /\ Fails /\ tick.step # "record"
    /\ tick' = Idle
    /\ Forget
    /\ watch' = Failed
    /\ UNCHANGED <<clock, opens, draft, journal, ledger>>

Ticking ==
    \/ BeginTick \/ QuietTick \/ ReadReference \/ NoReference \/ LogTick
    \/ RecordShadow \/ RecordCut
    \/ FindDue \/ \E w \in DOMAIN ledger : SettleShadow(w) \/ PassOver(w)

Next ==
    \/ Advance \/ OpenWindow \/ Revise
    \/ Ticking
    \/ Restart

Spec == Init /\ [][Next]_vars

\* The loop goes on, time passes and announcements are revised; reads fail a bounded number of times.
FairSpec == Spec /\ WF_vars(Ticking) /\ WF_vars(Advance \/ OpenWindow \/ Revise)

-----------------------------------------------------------------------------
(* tools/replay_race.py over the journal.                                  *)

\* load_ticks: the ticks of a window that have two asks, by their place in the journal.
ReplayTicks(w) == {i \in DOMAIN journal : journal[i].window = w /\ \A s \in Sides : journal[i].view.ask[s] # None}

\* The first signal of a model in a window.
Fires(w, m) == {i \in ReplayTicks(w) : ModelSignal(m, journal[i].view, Params) # None}
Replay(w, m) == IF Fires(w, m) = {} THEN None ELSE ModelSignal(m, journal[Min(Fires(w, m))].view, Params)

\* reconstruct_outcomes: the next window's reference against this one's, each from its first tick.
FirstRef(w) == IF ReplayTicks(w) = {} THEN None ELSE journal[Min(ReplayTicks(w))].view.ref

Reconstructed(w) ==
    IF FirstRef(w) = None \/ FirstRef(w + 1) = None THEN None
    ELSE IF FirstRef(w + 1) >= FirstRef(w) THEN "Up" ELSE "Down"

\* The settled rows as the tools read them. Windows have no time of day here.
Settled(w, m) ==
    LET row  == ledger[w][m]
        view == journal[row.at].view
    IN  [model |-> m, side |-> row.side, price |-> row.price, outcome |-> row.outcome, pnl |-> row.pnl \div 1000000,
         at |-> row.at, hour |-> 0, edge |-> Edge(view, row.side), sigma |-> None, spot |-> view.spot, ref |-> view.ref]

SettledIn(w) == {m \in Models : ledger[w][m] # None /\ ledger[w][m].outcome # None}
SettledRows ==
    LET keys == UNION {{w} \X SettledIn(w) : w \in DOMAIN ledger}
    IN  FoldLeft(LAMBDA rows, k : Append(rows, Settled(k[1], k[2])), <<>>, SetToSeq(keys))

\* known_outcomes: what the ledger says of a window, which wins over what is reconstructed.
Labels(w) ==
    LET known == {ledger[w][m].outcome : m \in SettledIn(w)}
    IN  IF known # {} THEN CHOOSE o \in known : TRUE ELSE Reconstructed(w)

\* summarize: the trades of the replay, settled by the labels, in cents as above.
ReplayedTrades(m) ==
    LET windows == {w \in DOMAIN ledger : Labels(w) # None /\ Replay(w, m) # None}
    IN  FoldLeft(LAMBDA trades, w : Append(trades, NetPnl(Replay(w, m).price, Replay(w, m).side = Labels(w)) \div 1000000),
                 <<>>, SetToSortSeq(windows, <))
Summary(m) ==
    LET pnls == ReplayedTrades(m)
    IN  [n |-> Len(pnls), total |-> FoldLeft(LAMBDA sum, x : sum + x, 0, pnls),
         wins |-> Len(SelectSeq(pnls, LAMBDA x : x > 0)), maxDD |-> MaxDrawdown(pnls)]

\* harness_check: the windows of v2 that were both recorded and replayed match in side and price.
Common == {w \in DOMAIN ledger : "v2" \in SettledIn(w) /\ Replay(w, "v2") # None /\ Labels(w) # None}
Matches(w) == ledger[w]["v2"].side = Replay(w, "v2").side /\ ledger[w]["v2"].price = Replay(w, "v2").price

-----------------------------------------------------------------------------
(* Properties.                                                             *)

\* Types. A row has a result once it has an outcome: what it won or lost, less the taker's fee.
TypeOK ==
    /\ clock \in 0..LastTime
    /\ opens \in [1..LastWindow + 1 -> Levels \cup {None}] /\ draft \in Levels \cup {None}
    /\ cache \in [1..LastWindow + 1 -> Levels \cup {None}]
    /\ tick.step \in {"idle", "ref", "log", "record", "due", "settle"}
    /\ tick.due \subseteq DOMAIN ledger /\ tick.reads \in 0..MaxReads
    /\ Len(journal) <= MaxTicks
    /\ \A w \in DOMAIN ledger, m \in Models :
        LET row == ledger[w][m]
        IN  row # None => /\ row \in Rows
                          /\ row.pnl = IF row.outcome = None THEN 0 ELSE NetPnl(row.price, row.side = row.outcome)

\* Every model is judged alike and rightly: references are final opens, although they are asked for
\* from the first moment of a window on; the settled rows of a window have one outcome, the one its
\* final prices say and a replay of the references reconstructs, unless it was settled while the
\* next open was provisional; and no window is settled before its end
\* (chainlink_settlement.py:214-246, 268-290; btc_bot/paper.py:1098-1115, 1629-1664).
SettledRight ==
    /\ \A w \in DOMAIN cache : cache[w] \in {None, opens[w]}
    /\ \A w \in DOMAIN ledger :
        LET outcomes == {ledger[w][m].outcome : m \in {n \in Models : ledger[w][n] # None}} \ {None}
        IN  /\ Cardinality(outcomes) <= 1
            /\ outcomes # {} => OpenRows(w) = {} /\ clock >= Start(w + 1)
            /\ (outcomes # {} /\ w \notin watch.drafted) =>
                /\ outcomes = {IF opens[w + 1] >= opens[w] THEN "Up" ELSE "Down"}
                /\ (Reconstructed(w) # None /\ {w, w + 1} \cap watch.torn = {}) => Reconstructed(w) \in outcomes

\* The model each one narrows, among those logged before it.
Narrows == [v2 |-> "v0", v7 |-> "v2", v8 |-> "v0", f45 |-> "v7"]

\* The ledger is what the replay of the journal says, row by row, where the record of a window is
\* whole; a model is in it only with the one it narrows, which entered no later and at the same
\* price if in the same tick, whatever died in between; and what the loop itself decided on is
\* there too by then, on the same side if of that tick, unless a crossed book lured the runner away
\* (shadow/ledger.py:11-13, runner.py:194-230, btc_bot/paper.py:238-248, tools/replay_race.py:14-19,
\* 171-207).
LedgerReplays ==
    \A w \in DOMAIN ledger :
        /\ (w \notin watch.torn /\ ~(tick.step = "record" /\ tick.window = w)) =>
            \A m \in Models :
                LET row == ledger[w][m]
                    replayed == Replay(w, m)
                IN  IF row = None THEN replayed = None
                    ELSE replayed # None /\ row.side = replayed.side /\ row.price = replayed.price
        /\ \A m \in DOMAIN Narrows :
            LET row == ledger[w][m]
                wider == ledger[w][Narrows[m]]
            IN  row # None => /\ wider # None /\ wider.at <= row.at
                              /\ wider.at = row.at => wider.side = row.side /\ wider.price = row.price
        /\ \A i \in DOMAIN journal :
            (/\ journal[i].window = w /\ journal[i].side # None /\ Lures(journal[i].view) = {}
             /\ w \notin watch.torn /\ ~(tick.step = "record" /\ tick.window = w))
                => LET row == ledger[w][Active]
                   IN  row # None /\ row.at <= i /\ (row.at = i => row.side = journal[i].side)

\* Whatever has settled, here or in the samples, the instruments that judge the models speak of the
\* same rows: as many, as many wins, the same result and price to beat; none claims an edge that
\* the sample does not carry. And once everything is settled and recorded whole, the standings are
\* the summary of a replay, whose check finds a match wherever it looks (tools/race_status.py:10-14,
\* 59-63, 148-159; regime_attribution.py:13-28, 221-270, 399-470; shadow_performance.py:12-27;
\* replay_race.py:210-257).
VerdictsSound ==
    /\ tick.step = "idle" =>
        /\ Honest(SettledRows)
        /\ \A w \in Common \ watch.torn : Matches(w)
        /\ (watch.torn = {} /\ \A w \in DOMAIN ledger : OpenRows(w) = {}) =>
            \A m \in ModelsIn(SettledRows) :
                LET s == Standing(SettledRows, m, 0, 0)
                IN  [n |-> s.n, total |-> s.total, wins |-> s.wins, maxDD |-> s.maxDD] = Summary(m)
    /\ SamplesHonest

\* Whatever was logged for a window that ends is settled in the end, although reads fail and
\* processes die (btc_bot/paper.py:1629-1664).
ShadowsResolve == \A w \in Windows : OpenRows(w) # {} ~> OpenRows(w) = {}
=============================================================================
