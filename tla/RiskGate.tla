------------------------------ MODULE RiskGate ------------------------------
(***************************************************************************)
(* The pre-trade risk gate shared by paper and live trading                *)
(* (btc_5m_fv/execution/gate.py): the daily counters it keeps in memory,   *)
(* their key-by-key persistence in the SQLite config table, the rebuild at *)
(* boot, the trailing daily loss halt, the bankroll cap, and the operator  *)
(* controls the dashboard writes to the same table from another thread.    *)
(*                                                                         *)
(* A set_config call is one committed write, so persist() is six steps and *)
(* the operator's reset is four; a crash, the clock and the dashboard can  *)
(* come between any two of them.  Amounts are integers (one unit = the     *)
(* smallest amount that matters), a day is a natural number.  load() is    *)
(* one atomic read.                                                        *)
(***************************************************************************)
EXTENDS Integers

CONSTANTS
  None,          \* an absent config key
  LossHalt,      \* GateConfig.daily_loss_halt_usd
  BankrollCap,   \* GateConfig.bankroll_cap_usd; 0 disables the cap
  MaxTrade,      \* GateConfig.max_trade_usd
  TradeSizes,    \* what the operator may set as runtime per-trade cap
  Notionals,     \* the notionals entries ask for
  BumpMax,       \* most the venue minimum adds to a live order's notional
  Pnls,          \* the amounts one close realizes
  Modes,         \* the is_live values a loop may be started with
  Layouts,       \* generations of persisted keys found at the first boot
  Operator,      \* "none", "patient" or "impatient": who presses Reset
  CrashPoints,   \* the keys before whose write the process may die
  LastDay,       \* bound: the last day of the clock
  MaxPnl,        \* bound: how far a leg's counter moves from zero
  MaxSpend       \* bound: what the buys of one day may sum to

Counters    == {"live_pnl", "paper_pnl", "live_peak", "paper_peak", "notional"}
PersistKeys == Counters \cup {"date"}
OldKeys     == {"combined", "legacy_date", "legacy_pnl", "legacy_notional"}
Keys        == PersistKeys \cup OldKeys

ASSUME NoneAssumption   == None \notin Int
ASSUME LimitsAssumption ==
  /\ LossHalt \in Nat \ {0} /\ BankrollCap \in Nat /\ MaxTrade \in Nat
  /\ BumpMax \in Nat /\ LastDay \in Nat /\ MaxPnl \in Nat /\ MaxSpend \in Nat
ASSUME InputsAssumption ==
  /\ TradeSizes \subseteq Nat \ {0} /\ Notionals \subseteq Int /\ Pnls \subseteq Int
  /\ Modes \subseteq BOOLEAN
  /\ Layouts \subseteq {"fresh", "split", "unpeaked", "combined", "legacy"}
  /\ Operator \in {"none", "patient", "impatient"}
  /\ CrashPoints \subseteq PersistKeys

VARIABLES
  day,      \* the UTC date
  store,    \* the config keys in SQLite
  settings, \* the operator knobs in SQLite: bypass, runtime caps
  gate,     \* RiskGate's counters and their date, in memory
  knobs,    \* RiskGate's cached copy of the operator knobs
  isLive,   \* which leg drives this gate's halt
  pc,       \* "down", "idle", or the key persist() writes next
  tick,     \* "none", "open" (knobs refreshed), "entered"
  slot,     \* an open position exists (max 1)
  resting,  \* charge, and its day, of the entry a cancel may still credit back
  op,       \* "idle", or the key the operator's reset writes next
  today,    \* observer: what the counters of this UTC day should say
  prev,     \* observer: the same before the latest change
  spent     \* observer: what this UTC day really bought, see NoSpend

vars == <<day, store, settings, gate, knobs, isLive, pc, tick, slot, resting,
          op, today, prev, spent>>

-----------------------------------------------------------------------------
(* Pure parts of the gate. *)

Larger(a, b) == IF a >= b THEN a ELSE b
Num(x) == IF x = None THEN 0 ELSE x
Fresh(d) == [k \in PersistKeys |-> IF k = "date" THEN d ELSE 0]

PnlKey(live)  == IF live THEN "live_pnl" ELSE "paper_pnl"
PeakKey(live) == IF live THEN "live_peak" ELSE "paper_peak"

\* record_realized_pnl on counters c: the leg moves, its peak only up.
WithPnl(c, live, p) ==
  LET new == c[PnlKey(live)] + p
  IN [c EXCEPT ![PnlKey(live)] = new, ![PeakKey(live)] = Larger(@, new)]

\* record_buy_notional on counters c; a negative amount credits.
WithNotional(c, n) == [c EXCEPT !["notional"] = @ + n]

\* _roll_daily_window: the counters of another day are dropped.
Rolled(g) == IF g["date"] = day THEN g ELSE Fresh(day)

\* The migration ladder of load(): split keys, else the combined key of
\* issue #64, else the live-only keys before it.
NoSplit(s)     == s["live_pnl"] = None /\ s["paper_pnl"] = None
FromCombined(s) == NoSplit(s) /\ s["combined"] # None
FromLegacy(s)  == /\ NoSplit(s) /\ s["combined"] = None
                  /\ s["date"] = None /\ s["notional"] = None
LadderDate(s)  == IF FromLegacy(s) THEN s["legacy_date"] ELSE s["date"]
LadderLive(s)  == Num(IF FromCombined(s) THEN s["combined"]
                      ELSE IF FromLegacy(s) THEN s["legacy_pnl"] ELSE s["live_pnl"])
LadderNotional(s) == Num(IF FromLegacy(s) THEN s["legacy_notional"] ELSE s["notional"])

\* Fault: the stored peaks are ignored.
LoadedPeakless(s) ==
  IF LadderDate(s) # day THEN Fresh(day)
  ELSE WithNotional(WithPnl(WithPnl(Fresh(day), TRUE, LadderLive(s)),
                            FALSE, Num(s["paper_pnl"])), LadderNotional(s))
\* Fault: a stored peak is trusted below the leg's own PnL.
LoadedStalePeak(s) ==
  IF LadderDate(s) # day THEN Fresh(day)
  ELSE [Fresh(day) EXCEPT !["live_pnl"] = LadderLive(s), !["paper_pnl"] = Num(s["paper_pnl"]),
          !["live_peak"] = Num(s["live_peak"]), !["paper_peak"] = Num(s["paper_peak"]),
          !["notional"] = LadderNotional(s)]

\* What load() rebuilds from the store: nothing of another day, and a peak
\* never below zero or the leg's own PnL.
Loaded(s) ==
  IF LadderDate(s) # day THEN Fresh(day)
  ELSE LET live  == LadderLive(s)
           paper == Num(s["paper_pnl"])
       IN [Fresh(day) EXCEPT
             !["live_pnl"] = live, !["paper_pnl"] = paper,
             !["live_peak"] = Larger(Larger(0, live), Num(s["live_peak"])),
             !["paper_peak"] = Larger(Larger(0, paper), Num(s["paper_peak"])),
             !["notional"] = LadderNotional(s)]

\* loss_halt_breached without its bypass: realized PnL at or through the
\* trailing floor, peak - limit.
AtFloor(c, live) == c[PnlKey(live)] <= c[PeakKey(live)] - LossHalt
\* Faults: the floor does not trail the peak; the paper leg drives every halt.
BreachedFixed == ~knobs.bypass /\ Rolled(gate)[PnlKey(isLive)] <= -LossHalt
BreachedByPaper == ~knobs.bypass /\ AtFloor(Rolled(gate), FALSE)
Breached == ~knobs.bypass /\ AtFloor(Rolled(gate), isLive)

\* effective_max_trade_usd: shares win over the dollar cap, that over the env.
EffectiveMaxTrade == IF knobs.shares # None THEN knobs.shares
                     ELSE IF knobs.usd # None THEN knobs.usd ELSE MaxTrade

\* block_reason: the request carries the kill file's presence, the slippage
\* verdict and the notional; the position slot is the caller's own state.
Requests == [notional: Notionals, kill: BOOLEAN, slips: BOOLEAN]
\* Fault: the cap is compared before the entry is added.
BlockedAtCap(req) ==
  req.kill \/ Breached \/ slot \/ req.notional <= 0 \/ req.notional > EffectiveMaxTrade
  \/ (BankrollCap > 0 /\ Rolled(gate)["notional"] > BankrollCap) \/ req.slips
Blocked(req) ==
  \/ req.kill
  \/ Breached
  \/ slot
  \/ req.notional <= 0
  \/ req.notional > EffectiveMaxTrade
  \/ /\ BankrollCap > 0
     /\ Rolled(gate)["notional"] + req.notional > BankrollCap
  \/ req.slips

\* Faults: the reset leaves the peaks, or goes on to the bankroll counter.
AfterResetPeakless == [live_pnl |-> "paper_pnl", paper_pnl |-> "idle"]
AfterResetNotional == [live_pnl |-> "paper_pnl", paper_pnl |-> "live_peak",
                       live_peak |-> "paper_peak", paper_peak |-> "notional"]

\* persist() writes the keys in this order; the reset in this one.
AfterWrite == [date |-> "live_pnl", live_pnl |-> "paper_pnl", paper_pnl |-> "live_peak",
               live_peak |-> "paper_peak", paper_peak |-> "notional", notional |-> "idle"]
AfterReset == [live_pnl |-> "paper_pnl", paper_pnl |-> "live_peak",
               live_peak |-> "paper_peak", paper_peak |-> "idle"]

-----------------------------------------------------------------------------
(* The persisted keys a first boot may find, by generation of the program. *)

NoKeys == [k \in Keys |-> None]
Layout(l, d, pnl, n) ==
  CASE l = "fresh"    -> NoKeys
    [] l = "split"    -> [NoKeys EXCEPT !["date"] = d, !["live_pnl"] = pnl,
                            !["paper_pnl"] = 0, !["live_peak"] = Larger(0, pnl),
                            !["paper_peak"] = 0, !["notional"] = n]
    [] l = "unpeaked" -> [NoKeys EXCEPT !["date"] = d, !["live_pnl"] = pnl,
                            !["paper_pnl"] = 0, !["notional"] = n]
    [] l = "combined" -> [NoKeys EXCEPT !["date"] = d, !["combined"] = pnl,
                            !["notional"] = n]
    [] l = "legacy"   -> [NoKeys EXCEPT !["legacy_date"] = d, !["legacy_pnl"] = pnl,
                            !["legacy_notional"] = n]

\* What the day had recorded, whatever generation wrote it down.
Recorded(l, pnl, n) ==
  IF l = "fresh" THEN Fresh(0)
  ELSE WithNotional(WithPnl(Fresh(0), TRUE, pnl), n)

NoResting == [charge |-> 0, on |-> 0]
\* bought: the day's buys less what was credited of them, whether or not the
\* process lived to record them; charging: the buy whose persist() is under
\* way; lost: the buys it died recording.
NoSpend == [bought |-> 0, charging |-> 0, lost |-> 0]
DefaultKnobs == [bypass |-> FALSE, shares |-> None, usd |-> None]

Init ==
  /\ day = 0
  /\ \E l \in Layouts, pnl \in {0} \cup Pnls, n \in {0, BankrollCap} :
        store = Layout(l, 0, pnl, n) /\ today = Recorded(l, pnl, n)
  /\ settings = DefaultKnobs
  /\ gate = Fresh(0) /\ knobs = DefaultKnobs /\ isLive \in Modes
  /\ pc = "down" /\ tick = "none" /\ slot = FALSE /\ resting = NoResting /\ op = "idle"
  /\ prev = today /\ spent = [NoSpend EXCEPT !.bought = today["notional"]]

-----------------------------------------------------------------------------
(* The trading loop's side. *)

\* A loop starts: a new gate is built and load()ed, which also persists.
Start(live) ==
  /\ pc = "down"
  /\ op = "idle" \/ Operator = "impatient"
  /\ isLive' = live
  /\ gate' = Loaded(store) /\ knobs' = DefaultKnobs
  /\ pc' = "date" /\ tick' = "none" /\ resting' = NoResting
  /\ UNCHANGED <<day, store, settings, slot, op, today, prev, spent>>

\* One set_config of persist().
PersistStep ==
  /\ pc \in PersistKeys
  /\ store' = [store EXCEPT ![pc] = gate[pc]]
  /\ pc' = AfterWrite[pc]
  /\ spent' = [spent EXCEPT !.charging = IF pc' = "idle" THEN 0 ELSE @]
  /\ UNCHANGED <<day, settings, gate, knobs, isLive, tick, slot, resting, op,
                 today, prev>>

\* Top of a tick: refresh_overrides and refresh_runtime_limits.
Refresh ==
  /\ pc = "idle" /\ tick = "none"
  /\ knobs' = settings /\ tick' = "open"
  /\ UNCHANGED <<day, store, settings, gate, isLive, pc, slot, resting, op,
                 today, prev, spent>>

\* Faults: the day is not rolled before adding; the change is not persisted.
RecordRealizedPnlUnrolled(p, closes) ==
  /\ pc = "idle" /\ slot
  /\ gate[PnlKey(isLive)] + p \in -MaxPnl .. MaxPnl
  /\ gate' = WithPnl(gate, isLive, p)
  /\ today' = WithPnl(today, isLive, p) /\ prev' = today
  /\ slot' = ~closes /\ pc' = "date"
  /\ UNCHANGED <<day, store, settings, knobs, isLive, tick, resting, op, spent>>
RecordRealizedPnlUnsaved(p, closes) ==
  /\ pc = "idle" /\ slot
  /\ Rolled(gate)[PnlKey(isLive)] + p \in -MaxPnl .. MaxPnl
  /\ gate' = WithPnl(Rolled(gate), isLive, p)
  /\ today' = WithPnl(today, isLive, p) /\ prev' = today
  /\ slot' = ~closes
  /\ UNCHANGED <<day, store, settings, knobs, isLive, pc, tick, resting, op, spent>>

\* record_realized_pnl for the gate's own leg: a close (frees the slot) or a
\* partial exit; then persist().
RecordRealizedPnl(p, closes) ==
  /\ pc = "idle" /\ slot
  /\ Rolled(gate)[PnlKey(isLive)] + p \in -MaxPnl .. MaxPnl
  /\ gate' = WithPnl(Rolled(gate), isLive, p)
  /\ today' = WithPnl(today, isLive, p) /\ prev' = today
  /\ slot' = ~closes
  /\ resting' = IF closes THEN NoResting ELSE resting
  /\ pc' = "date"
  /\ UNCHANGED <<day, store, settings, knobs, isLive, tick, op, spent>>

\* An entry passes block_reason and is charged: paper charges what it asked
\* for, live what the order was sized to, up to the venue minimum.
Enter(req, bump) ==
  /\ pc = "idle" /\ tick = "open"
  /\ ~Blocked(req)
  /\ bump \in IF isLive THEN 0 .. BumpMax ELSE {0}
  /\ LET charge == req.notional + bump
     IN /\ gate' = WithNotional(Rolled(gate), charge)
        /\ today' = WithNotional(today, charge) /\ prev' = today
        /\ resting' = IF isLive THEN [charge |-> charge, on |-> day] ELSE NoResting
        /\ spent.bought + charge <= MaxSpend
        /\ spent' = [spent EXCEPT !.bought = @ + charge, !.charging = charge]
  /\ slot' = TRUE /\ tick' = "entered" /\ pc' = "date"
  /\ UNCHANGED <<day, store, settings, knobs, isLive, op>>

\* cancel_open credits the unfilled part of a live entry, once.
Credit(x) ==
  /\ pc = "idle" /\ isLive /\ x \in 1 .. resting.charge
  /\ gate' = WithNotional(Rolled(gate), -x)
  /\ today' = WithNotional(today, -x) /\ prev' = today
  /\ spent' = [spent EXCEPT !.bought = IF resting.on = day THEN @ - x ELSE @]
  /\ resting' = NoResting /\ pc' = "date"
  /\ UNCHANGED <<day, store, settings, knobs, isLive, tick, slot, op>>

\* End of a tick: a live loop whose halt is breached stops (its flatten is the
\* closing RecordRealizedPnl before), a paper one only keeps entries blocked.
EndTick ==
  /\ pc = "idle" /\ tick # "none"
  /\ gate' = Rolled(gate)
  /\ tick' = "none"
  /\ pc' = IF isLive /\ Breached THEN "down" ELSE "idle"
  /\ UNCHANGED <<day, store, settings, knobs, isLive, slot, resting, op, today, prev, spent>>

\* The operator's Stop takes effect between ticks; counters are left as
\* persisted.  A live loop flattens through its gate first; the controller
\* force-closes a paper position after the gate is gone.
Stop ==
  /\ pc = "idle" /\ tick = "none"
  /\ pc' = "down" /\ slot' = (slot /\ isLive)
  /\ UNCHANGED <<day, store, settings, gate, knobs, isLive, tick, resting,
                 op, today, prev, spent>>

-----------------------------------------------------------------------------
(* The dashboard and the environment. *)

SetBypass(b) ==
  /\ settings' = [settings EXCEPT !.bypass = b]
  /\ UNCHANGED <<day, store, gate, knobs, isLive, pc, tick, slot, resting, op, today, prev, spent>>

SetRuntimeCap(field, v) ==
  /\ settings' = [settings EXCEPT ![field] = v]
  /\ UNCHANGED <<day, store, gate, knobs, isLive, pc, tick, slot, resting, op, today, prev, spent>>

\* api_loss_halt_reset: the stored state is read (not running) ...
ResetRequest ==
  /\ Operator # "none" /\ op = "idle" /\ pc = "down"
  /\ op' = "live_pnl"
  /\ UNCHANGED <<day, store, settings, gate, knobs, isLive, pc, tick, slot,
                 resting, today, prev, spent>>

\* ... and reset_daily_loss_halt writes its four keys.
ResetStep ==
  /\ op # "idle"
  /\ store' = [store EXCEPT ![op] = 0]
  /\ today' = IF pc = "down" THEN Loaded(store') ELSE [today EXCEPT ![op] = 0]
  /\ prev' = today' /\ op' = AfterReset[op]
  /\ UNCHANGED <<day, settings, gate, knobs, isLive, pc, tick, slot, resting, spent>>

NextDay ==
  /\ day < LastDay
  /\ day' = day + 1
  /\ today' = Fresh(day + 1) /\ prev' = today' /\ spent' = NoSpend
  /\ UNCHANGED <<store, settings, gate, knobs, isLive, pc, tick, slot, resting, op>>

\* The process dies between two awaits, before one of persist()'s writes or
\* between two of the reset's.  From then on the day's record is what the
\* store says; what was bought stays bought.
Crash ==
  /\ pc = "idle" \/ pc \in CrashPoints \/ (pc = "down" /\ op # "idle")
  /\ pc' = "down" /\ op' = "idle" /\ tick' = "none" /\ resting' = NoResting
  /\ today' = Loaded(store) /\ prev' = today'
  /\ spent' = [spent EXCEPT !.charging = 0, !.lost = @ + spent.charging]
  /\ UNCHANGED <<day, store, settings, gate, knobs, isLive, slot>>

Next ==
  \/ \E live \in Modes : Start(live)
  \/ PersistStep
  \/ Refresh
  \/ \E p \in Pnls, closes \in BOOLEAN : RecordRealizedPnl(p, closes)
  \/ \E req \in Requests, bump \in 0 .. BumpMax : Enter(req, bump)
  \/ \E x \in 1 .. resting.charge : Credit(x)
  \/ EndTick
  \/ Stop
  \/ \E b \in BOOLEAN : SetBypass(b)
  \/ \E f \in {"shares", "usd"}, v \in TradeSizes \cup {None} : SetRuntimeCap(f, v)
  \/ ResetRequest
  \/ ResetStep
  \/ NextDay
  \/ Crash

Spec == Init /\ [][Next]_vars

-----------------------------------------------------------------------------
(* Properties. *)

CounterRecords == [PersistKeys -> Int]
Knobs == [bypass : BOOLEAN, shares : TradeSizes \cup {None}, usd : TradeSizes \cup {None}]

\* Every variable stays in its range: counters are numbers, never absent keys.
TypeOK ==
  /\ day \in Nat
  /\ store \in [Keys -> Int \cup {None}]
  /\ settings \in Knobs /\ knobs \in Knobs
  /\ gate \in CounterRecords /\ today \in CounterRecords /\ prev \in CounterRecords
  /\ isLive \in BOOLEAN /\ slot \in BOOLEAN
  /\ pc \in {"down", "idle"} \cup PersistKeys
  /\ tick \in {"none", "open", "entered"}
  /\ op \in {"idle", "live_pnl", "paper_pnl", "live_peak", "paper_peak"}
  /\ resting \in [charge : Int, on : Nat]
  /\ spent \in [bought : Int, charging : Int, lost : Int]

\* The counters in force: the running gate's, or what the next boot's load()
\* would rebuild.
InForce == IF pc = "down" THEN Loaded(store) ELSE Rolled(gate)

\* Every boot rebuilds exactly what this UTC day recorded: no stop, restart,
\* migration or midnight resets the loss halt or grants a fresh bankroll
\* (live.py's safety model), and nothing of another day is counted.
RestartRebuilds == \A k \in Counters : InForce[k] = today[k]

Dominated(c) == \A live \in BOOLEAN : /\ c[PeakKey(live)] >= 0
                                     /\ c[PeakKey(live)] >= c[PnlKey(live)]

\* A running gate's peaks dominate its PnL and zero, whatever a crash left
\* half-written, so the trailing floor is never below -LossHalt.
PeakDominates == pc # "down" => Dominated(gate)

\* A breached halt stays breached until the day rolls, a gain is realized or
\* the operator resets it: restarts and later losses never lift it.  Only dying
\* inside persist() may forget the loss that breached it (CrashLosesAtMostOne).
HaltIsSticky ==
  [][\A live \in BOOLEAN :
       /\ AtFloor(InForce, live) /\ day' = day /\ op = "idle" /\ op' = "idle"
       /\ ~(pc \in PersistKeys /\ pc' = "down")
       => \/ AtFloor(InForce', live)
          \/ today'[PnlKey(live)] > today[PnlKey(live)]]_vars

\* No entry is charged while the day's own record of this mode's leg is at
\* the trailing floor, unless the operator's bypass was on at the top of the
\* tick.
NoEntryAtFloor ==
  [][tick' = "entered" /\ tick = "open" => knobs.bypass \/ ~AtFloor(today, isLive)]_vars

\* The real buys of one UTC day stay within the bankroll cap and one auto-bump
\* to the venue minimum, which the gate does not see.  Only a death inside the
\* persist() of a buy lets more through, and then by no more than that buy:
\* a live order is placed before it is recorded (live.py:865-899).
SpendWithinCap ==
  BankrollCap > 0 => spent.bought <= BankrollCap + BumpMax + spent.lost

\* A crash anywhere, inside persist() too, loses at most the latest change:
\* each rebuilt counter is the one of before or after it.
CrashLosesAtMostOne ==
  [][pc # "down" /\ pc' = "down" /\ day' = day
       => \A k \in Counters : Loaded(store)[k] \in {today[k], prev[k]}]_vars

\* Once the operator's reset has written its last key, neither leg is halted
\* and the bankroll counter is what it was, deaths halfway through an earlier
\* reset included.
ResetClearsHalt ==
  [][ResetStep /\ op' = "idle" /\ pc = "down"
       => /\ \A live \in BOOLEAN : ~AtFloor(InForce', live)
          /\ InForce'["notional"] = InForce["notional"]]_vars
=============================================================================
