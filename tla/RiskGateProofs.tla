--------------------------- MODULE RiskGateProofs ---------------------------
(* Theorems about the risk gate, for every limit, clip, PnL, mode, layout   *)
(* and crash point.                                                         *)
EXTENDS RiskGate, TLAPS

Stores == [Keys -> Int \cup {None}]

-----------------------------------------------------------------------------
(* What the pure parts of the gate return. *)

LEMMA UpdateType ==
  ASSUME NEW S, NEW T, NEW f \in [S -> T], NEW k, NEW v \in T
  PROVE  [f EXCEPT ![k] = v] \in [S -> T]
  OBVIOUS

LEMMA FreshType == ASSUME NEW d \in Int PROVE Fresh(d) \in CounterRecords
  BY DEF Fresh, CounterRecords, PersistKeys, Counters

LEMMA RolledType ==
  ASSUME NEW g \in CounterRecords, day \in Nat
  PROVE  Rolled(g) \in CounterRecords /\ Rolled(g)["date"] = day
  BY FreshType DEF Rolled, Fresh, CounterRecords, PersistKeys

LEMMA WithPnlType ==
  ASSUME NEW c \in CounterRecords, NEW live \in BOOLEAN, NEW p \in Int
  PROVE  WithPnl(c, live, p) \in CounterRecords
  BY DEF WithPnl, CounterRecords, PersistKeys, Counters, PnlKey, PeakKey, Larger

LEMMA WithNotionalType ==
  ASSUME NEW c \in CounterRecords, NEW n \in Int
  PROVE  WithNotional(c, n) \in CounterRecords
  BY DEF WithNotional, CounterRecords, PersistKeys, Counters

LEMMA LadderType ==
  ASSUME NEW s \in Stores
  PROVE  /\ LadderLive(s) \in Int
         /\ LadderNotional(s) \in Int
         /\ LadderDate(s) \in Int \cup {None}
  BY NoneAssumption DEF Stores, LadderLive, LadderNotional, LadderDate, Num, Keys,
     PersistKeys, Counters, OldKeys

LEMMA LoadedType ==
  ASSUME NEW s \in Stores, day \in Nat
  PROVE  Loaded(s) \in CounterRecords
<1>1. \A k \in {"paper_pnl", "live_peak", "paper_peak"} : Num(s[k]) \in Int
  BY DEF Stores, Num, Keys, PersistKeys, Counters
<1>2. LadderLive(s) \in Int /\ LadderNotional(s) \in Int /\ Fresh(day) \in CounterRecords
  BY LadderType, FreshType
<1>5. CASE LadderDate(s) # day
  BY <1>2, <1>5 DEF Loaded
<1>6. CASE LadderDate(s) = day
  <2> DEFINE live  == LadderLive(s)
             paper == Num(s["paper_pnl"])
             lp    == Larger(Larger(0, live), Num(s["live_peak"]))
             pp    == Larger(Larger(0, paper), Num(s["paper_peak"]))
  <2>1. live \in Int /\ paper \in Int /\ lp \in Int /\ pp \in Int
    BY <1>1, <1>2 DEF Larger
  <2>2. Loaded(s) = [Fresh(day) EXCEPT !["live_pnl"] = live, !["paper_pnl"] = paper,
                       !["live_peak"] = lp, !["paper_peak"] = pp,
                       !["notional"] = LadderNotional(s)]
    BY <1>6 DEF Loaded
  <2> QED
    BY <1>2, <2>1, <2>2 DEF CounterRecords
<1> QED
  BY <1>5, <1>6

-----------------------------------------------------------------------------
(* Every reachable state is well typed.                                     *)

LEMMA LayoutType ==
  ASSUME NEW l \in {"fresh", "split", "unpeaked", "combined", "legacy"},
         NEW pnl \in Int, NEW n \in Int
  PROVE  Layout(l, 0, pnl, n) \in Stores /\ Recorded(l, pnl, n) \in CounterRecords
<1>1. Layout(l, 0, pnl, n) \in Stores
  BY DEF Layout, Stores, NoKeys, Keys, PersistKeys, Counters, OldKeys, Larger
<1>2. Recorded(l, pnl, n) \in CounterRecords
  <2>1. Fresh(0) \in CounterRecords
    BY FreshType
  <2>2. WithPnl(Fresh(0), TRUE, pnl) \in CounterRecords
    BY <2>1, WithPnlType
  <2> QED
    BY <2>1, <2>2, WithNotionalType DEF Recorded
<1> QED
  BY <1>1, <1>2

LEMMA KnobsType == DefaultKnobs \in Knobs
  BY DEF DefaultKnobs, Knobs

Spents == [bought : Int, charging : Int, lost : Int]
LEMMA SpentType ==
  ASSUME NEW s \in Spents, NEW n \in Int
  PROVE  /\ [s EXCEPT !.bought = @ + n, !.charging = n] \in Spents
         /\ [s EXCEPT !.charging = 0, !.lost = @ + s.charging] \in Spents
<1>1. s.bought + n \in Int /\ s.lost + s.charging \in Int
  BY DEF Spents
<1>2. ASSUME NEW b \in Int PROVE [s EXCEPT !.bought = b, !.charging = n] \in Spents
  BY DEF Spents
<1>3. ASSUME NEW c \in Int, NEW l \in Int PROVE [s EXCEPT !.charging = c, !.lost = l] \in Spents
  BY DEF Spents
<1>4. 0 \in Int
  OBVIOUS
<1> QED
  BY <1>1, <1>2, <1>3, <1>4, Zenon

LEMMA TypeInit == Init => TypeOK
<1> SUFFICES ASSUME Init PROVE TypeOK
  OBVIOUS
<1>1. PICK l \in Layouts, pnl \in {0} \cup Pnls, n \in {0, BankrollCap} :
        store = Layout(l, 0, pnl, n) /\ today = Recorded(l, pnl, n)
  BY DEF Init
<1>2. store \in Stores /\ today \in CounterRecords
  BY <1>1, LayoutType, InputsAssumption, LimitsAssumption
<1>3. spent \in [bought : Int, charging : Int, lost : Int]
  BY <1>2 DEF Init, NoSpend, CounterRecords, PersistKeys, Counters
<1>4. Fresh(0) \in CounterRecords
  BY FreshType
<1>5. isLive \in BOOLEAN /\ slot \in BOOLEAN
  BY InputsAssumption DEF Init
<1>6. day \in Nat /\ resting \in [charge : Int, on : Nat]
  BY DEF Init, NoResting
<1> QED
  BY <1>2, <1>3, <1>4, <1>5, <1>6, KnobsType
  DEF Init, TypeOK, Stores, NoResting

\* One step per action; the counters by the lemmas above.
LEMMA TypeStep == TypeOK /\ [Next]_vars => TypeOK'
<1> SUFFICES ASSUME TypeOK, [Next]_vars PROVE TypeOK'
  OBVIOUS
<1> USE DEF TypeOK
<1>a. /\ Rolled(gate) \in CounterRecords /\ Loaded(store) \in CounterRecords
      /\ store \in Stores
  BY RolledType, LoadedType DEF Stores
<1>1. ASSUME NEW live \in Modes, Start(live) PROVE TypeOK'
  BY <1>1, <1>a, KnobsType, InputsAssumption DEF Start, NoResting, PersistKeys
<1>2. CASE PersistStep
  <2>1. gate[pc] \in Int
    BY <1>2 DEF PersistStep, CounterRecords
  <2>2. store' \in [Keys -> Int \cup {None}]
    BY <1>2, <2>1 DEF PersistStep
  <2>3. pc' \in {"down", "idle"} \cup PersistKeys
    BY <1>2 DEF PersistStep, AfterWrite, PersistKeys, Counters
  <2> QED
    BY <1>2, <2>2, <2>3 DEF PersistStep
<1>3. CASE Refresh
  BY <1>3 DEF Refresh
<1>4. ASSUME NEW p \in Pnls, NEW closes \in BOOLEAN, RecordRealizedPnl(p, closes) PROVE TypeOK'
  <2>1. p \in Int
    BY InputsAssumption
  <2>2. WithPnl(Rolled(gate), isLive, p) \in CounterRecords /\ WithPnl(today, isLive, p) \in CounterRecords
    BY <1>a, <2>1, WithPnlType
  <2> QED
    BY <1>4, <2>2 DEF RecordRealizedPnl, NoResting, PersistKeys
<1>5. ASSUME NEW req \in Requests, NEW bump \in 0 .. BumpMax, Enter(req, bump) PROVE TypeOK'
  <2>1. req.notional + bump \in Int
    <3>1. req.notional \in Int
      BY InputsAssumption DEF Requests
    <3>2. bump \in Int
      BY LimitsAssumption
    <3> QED
      BY <3>1, <3>2
  <2>2. /\ WithNotional(Rolled(gate), req.notional + bump) \in CounterRecords
        /\ WithNotional(today, req.notional + bump) \in CounterRecords
    BY <1>a, <2>1, WithNotionalType
  <2>3. spent' \in [bought : Int, charging : Int, lost : Int]
    <3> DEFINE charge == req.notional + bump
    <3>1. spent' = [spent EXCEPT !.bought = @ + charge, !.charging = charge]
      BY <1>5 DEF Enter
    <3>2. charge \in Int
      BY <2>1
    <3> HIDE DEF charge
    <3> QED
      BY <3>1, <3>2, SpentType DEF Spents
  <2>4. resting' \in [charge : Int, on : Nat]
    BY <1>5, <2>1 DEF Enter, NoResting
  <2> QED
    BY <1>5, <2>2, <2>3, <2>4 DEF Enter, PersistKeys
<1>6. ASSUME NEW x \in 1 .. resting.charge, Credit(x) PROVE TypeOK'
  <2>1. x \in Int /\ -x \in Int
    OBVIOUS
  <2>2. WithNotional(Rolled(gate), -x) \in CounterRecords /\ WithNotional(today, -x) \in CounterRecords
    BY <1>a, <2>1, WithNotionalType
  <2> QED
    BY <1>6, <2>1, <2>2 DEF Credit, NoResting, PersistKeys
<1>7. CASE EndTick
  BY <1>7, <1>a DEF EndTick
<1>8. CASE Stop
  BY <1>8 DEF Stop
<1>9. ASSUME NEW b \in BOOLEAN, SetBypass(b) PROVE TypeOK'
  BY <1>9 DEF SetBypass, Knobs
<1>10. ASSUME NEW f \in {"shares", "usd"}, NEW v \in TradeSizes \cup {None}, SetRuntimeCap(f, v)
       PROVE  TypeOK'
  BY <1>10 DEF SetRuntimeCap, Knobs
<1>11. CASE ResetRequest
  BY <1>11 DEF ResetRequest
<1>12. CASE ResetStep
  <2>1. store' \in Stores /\ op \in PersistKeys
    <3>1. op \in PersistKeys
      BY <1>12 DEF ResetStep, PersistKeys, Counters
    <3>2. store' = [store EXCEPT ![op] = 0]
      BY <1>12 DEF ResetStep
    <3> QED
      BY <3>1, <3>2, UpdateType DEF Stores
  <2>2. Loaded(store') \in CounterRecords
    BY <2>1, LoadedType
  <2>3. today' \in CounterRecords
    <3>1. [today EXCEPT ![op] = 0] \in CounterRecords
      BY UpdateType DEF CounterRecords
    <3> QED
      BY <1>12, <2>2, <3>1 DEF ResetStep
  <2> QED
    BY <1>12, <2>1, <2>3 DEF ResetStep, AfterReset, Stores
<1>13. CASE NextDay
  BY <1>13, FreshType DEF NextDay, NoSpend
<1>14. CASE Crash
  <2>1. spent' \in [bought : Int, charging : Int, lost : Int]
    BY <1>14, SpentType DEF Crash, Spents
  <2>2. resting' \in [charge : Int, on : Nat]
    BY <1>14 DEF Crash, NoResting
  <2> QED
    <3>1. /\ pc' = "down" /\ op' = "idle" /\ tick' = "none"
          /\ today' = Loaded(store) /\ prev' = Loaded(store)
          /\ UNCHANGED <<day, store, settings, gate, knobs, isLive, slot>>
      BY <1>14 DEF Crash
    <3> QED
      BY <3>1, <1>a, <2>1, <2>2, Zenon
<1>15. CASE UNCHANGED vars
  BY <1>15 DEF vars
<1> QED
  BY <1>1, <1>2, <1>3, <1>4, <1>5, <1>6, <1>7, <1>8, <1>9, <1>10, <1>11, <1>12, <1>13,
     <1>14, <1>15 DEF Next

\* Every counter, key and knob keeps its type at every step of every run.
THEOREM TypeCorrect == Spec => []TypeOK
  BY TypeInit, TypeStep, PTL DEF Spec

-----------------------------------------------------------------------------
(* The trailing floor never starts above what the day has shown: peaks      *)
(* dominate zero and their leg, through every roll, load and crash.         *)

LEMMA FreshDominated == ASSUME NEW d \in Int PROVE Dominated(Fresh(d))
  BY DEF Dominated, Fresh, PersistKeys, Counters, PeakKey, PnlKey

LEMMA RolledDominated ==
  ASSUME NEW g, Dominated(g), day \in Nat PROVE Dominated(Rolled(g))
  BY FreshDominated DEF Rolled

LEMMA WithPnlDominated ==
  ASSUME NEW c \in CounterRecords, Dominated(c), NEW live \in BOOLEAN, NEW p \in Int
  PROVE  Dominated(WithPnl(c, live, p))
  BY DEF Dominated, WithPnl, CounterRecords, PersistKeys, Counters, PeakKey, PnlKey, Larger

LEMMA WithNotionalDominated ==
  ASSUME NEW c \in CounterRecords, Dominated(c), NEW n \in Int
  PROVE  Dominated(WithNotional(c, n))
  BY DEF Dominated, WithNotional, CounterRecords, PersistKeys, Counters, PeakKey, PnlKey

LEMMA LoadedDominated ==
  ASSUME NEW s \in Stores, day \in Nat PROVE Dominated(Loaded(s))
<1>1. CASE LadderDate(s) # day
  BY <1>1, FreshDominated DEF Loaded
<1>2. CASE LadderDate(s) = day
  <2> DEFINE live  == LadderLive(s)
             paper == Num(s["paper_pnl"])
             lp    == Larger(Larger(0, live), Num(s["live_peak"]))
             pp    == Larger(Larger(0, paper), Num(s["paper_peak"]))
  <2>1. \A k \in {"paper_pnl", "live_peak", "paper_peak"} : Num(s[k]) \in Int
    BY DEF Stores, Num, Keys, PersistKeys, Counters
  <2>2. lp >= 0 /\ lp >= live /\ pp >= 0 /\ pp >= paper
    BY <2>1, LadderType DEF Larger
  <2>3. /\ Loaded(s)["live_pnl"] = live /\ Loaded(s)["live_peak"] = lp
        /\ Loaded(s)["paper_pnl"] = paper /\ Loaded(s)["paper_peak"] = pp
    BY <1>2 DEF Loaded, Fresh, PersistKeys, Counters
  <2> HIDE DEF live, paper, lp, pp
  <2> QED
    BY <2>2, <2>3 DEF Dominated, PeakKey, PnlKey
<1> QED
  BY <1>1, <1>2

LEMMA PeakStep == TypeOK /\ PeakDominates /\ [Next]_vars => PeakDominates'
<1> SUFFICES ASSUME TypeOK, PeakDominates, [Next]_vars PROVE PeakDominates'
  OBVIOUS
<1> USE DEF PeakDominates
<1>t. /\ day \in Nat /\ store \in Stores /\ gate \in CounterRecords /\ isLive \in BOOLEAN
      /\ Rolled(gate) \in CounterRecords
  BY RolledType DEF TypeOK, Stores
<1>r. pc # "down" => Dominated(Rolled(gate))
  BY <1>t, RolledDominated
<1>1. ASSUME NEW live \in Modes, Start(live) PROVE Dominated(gate')
  BY <1>1, <1>t, LoadedDominated DEF Start
<1>2. ASSUME NEW p \in Pnls, NEW closes \in BOOLEAN, RecordRealizedPnl(p, closes)
      PROVE  Dominated(gate')
  <2>1. p \in Int /\ pc # "down"
    BY <1>2, InputsAssumption DEF RecordRealizedPnl
  <2> QED
    BY <1>2, <2>1, <1>t, <1>r, WithPnlDominated DEF RecordRealizedPnl
<1>3. ASSUME NEW req \in Requests, NEW bump \in 0 .. BumpMax, Enter(req, bump)
      PROVE  Dominated(gate')
  <2>1. pc # "down"
    BY <1>3 DEF Enter
  <2>2. req.notional + bump \in Int
    <3>1. req.notional \in Int
      BY InputsAssumption DEF Requests
    <3>2. bump \in Int
      BY LimitsAssumption
    <3> QED
      BY <3>1, <3>2
  <2> QED
    BY <1>3, <2>1, <2>2, <1>t, <1>r, WithNotionalDominated DEF Enter
<1>4. ASSUME NEW x \in 1 .. resting.charge, Credit(x) PROVE Dominated(gate')
  <2>1. -x \in Int /\ pc # "down"
    BY <1>4 DEF Credit, TypeOK
  <2> QED
    BY <1>4, <2>1, <1>t, <1>r, WithNotionalDominated DEF Credit
<1>5. CASE EndTick
  BY <1>5, <1>r DEF EndTick
\* The others leave the gate as it is, or take it down.
<1>6. gate' = gate /\ (pc = "down" => pc' = "down") => PeakDominates'
  BY DEF Dominated
<1>7. ASSUME \/ PersistStep \/ Refresh \/ Stop \/ ResetRequest \/ ResetStep \/ NextDay
             \/ UNCHANGED vars
             \/ \E b \in BOOLEAN : SetBypass(b)
             \/ \E f \in {"shares", "usd"}, v \in TradeSizes \cup {None} : SetRuntimeCap(f, v)
      PROVE  gate' = gate /\ (pc = "down" => pc' = "down")
  BY <1>7 DEF PersistStep, Refresh, Stop, ResetRequest, ResetStep, NextDay, SetBypass,
     SetRuntimeCap, vars, PersistKeys, Counters
<1>8. CASE Crash
  BY <1>8 DEF Crash
<1> QED
  BY <1>1, <1>2, <1>3, <1>4, <1>5, <1>6, <1>7, <1>8 DEF Next

\* A running gate never has a peak below zero or below its leg, so the
\* trailing floor is never below -LossHalt.
THEOREM PeaksAlwaysDominate == Spec => []PeakDominates
<1>1. Init => PeakDominates
  BY DEF Init, PeakDominates
<1> QED
  BY <1>1, TypeCorrect, PeakStep, PTL DEF Spec

-----------------------------------------------------------------------------
(* Every boot rebuilds the day.  RestartRebuilds is not inductive: a stop    *)
(* is safe only because persist() has left in the store what the gate holds, *)
(* an idle gate's store may lag a day behind it (a roll is not persisted),   *)
(* and no date in the store lies in the future.                              *)

\* The store's own copy of the counters.
Mirror == [k \in PersistKeys |-> store[k]]

\* The keys persist() has written when it is about to write p.
Written(p) ==
  CASE p = "date" -> {}
    [] p = "live_pnl" -> {"date"}
    [] p = "paper_pnl" -> {"date", "live_pnl"}
    [] p = "live_peak" -> {"date", "live_pnl", "paper_pnl"}
    [] p = "paper_peak" -> {"date", "live_pnl", "paper_pnl", "live_peak"}
    [] OTHER -> PersistKeys \ {"notional"}

DatesPast ==
  /\ gate["date"] <= day
  /\ \A k \in {"date", "legacy_date"} : store[k] = None \/ store[k] <= day
Saved ==
  /\ pc \in PersistKeys => \A k \in Written(pc) : store[k] = gate[k]
  /\ pc = "idle" => /\ Mirror \in CounterRecords /\ Dominated(Mirror)
                    /\ Rolled(Mirror) = Rolled(gate)
ResetAlone == op # "idle" => pc = "down"
RebuildInv == today = InForce /\ DatesPast /\ Saved /\ ResetAlone

\* A fully written store is loaded as it stands.
LEMMA LoadedMirror ==
  ASSUME store \in Stores, Mirror \in CounterRecords, Dominated(Mirror), day \in Nat
  PROVE  Loaded(store) = Rolled(Mirror)
<1>1. \A k \in PersistKeys : Mirror[k] = store[k] /\ store[k] \in Int
  BY DEF Mirror, CounterRecords
<1>2. \A k \in PersistKeys : store[k] # None /\ Num(store[k]) = store[k]
  BY <1>1, NoneAssumption DEF Num
<1>3. /\ LadderDate(store) = store["date"] /\ LadderLive(store) = store["live_pnl"]
      /\ LadderNotional(store) = store["notional"]
  BY <1>2 DEF LadderDate, LadderLive, LadderNotional, FromLegacy, FromCombined, NoSplit,
     PersistKeys, Counters
<1>4. CASE store["date"] # day
  BY <1>1, <1>3, <1>4 DEF Loaded, Rolled, PersistKeys
<1>5. CASE store["date"] = day
  <2> DEFINE live  == store["live_pnl"]
             paper == store["paper_pnl"]
             lp    == store["live_peak"]
             pp    == store["paper_peak"]
             n     == store["notional"]
  <2>1. /\ live \in Int /\ paper \in Int /\ lp \in Int /\ pp \in Int
        /\ lp >= 0 /\ lp >= live /\ pp >= 0 /\ pp >= paper
    <3>1. /\ Mirror["live_peak"] >= 0 /\ Mirror["live_peak"] >= Mirror["live_pnl"]
          /\ Mirror["paper_peak"] >= 0 /\ Mirror["paper_peak"] >= Mirror["paper_pnl"]
      BY DEF Dominated, PeakKey, PnlKey
    <3> QED
      BY <1>1, <3>1 DEF PersistKeys, Counters
  <2>2. Larger(Larger(0, live), lp) = lp /\ Larger(Larger(0, paper), pp) = pp
    BY <2>1 DEF Larger
  <2>3. \A k \in {"paper_pnl", "live_peak", "paper_peak"} : Num(store[k]) = store[k]
    BY <1>2 DEF PersistKeys, Counters
  <2>4. Loaded(store) = [Fresh(day) EXCEPT !["live_pnl"] = live, !["paper_pnl"] = paper,
                           !["live_peak"] = lp, !["paper_peak"] = pp, !["notional"] = n]
    BY <1>3, <1>5, <2>2, <2>3 DEF Loaded
  <2>5. Loaded(store) = Mirror
    BY <2>4, <1>5 DEF Mirror, Fresh, PersistKeys, Counters
  <2> QED
    BY <2>5, <1>1, <1>5 DEF Rolled, PersistKeys
<1> QED
  BY <1>4, <1>5

\* What is loaded, charged or realized carries today's date.
LEMMA DatedToday ==
  ASSUME day \in Nat, NEW g \in CounterRecords, NEW s \in Stores,
         NEW n \in Int, NEW live \in BOOLEAN, NEW p \in Int
  PROVE  /\ Loaded(s)["date"] = day
         /\ WithNotional(Rolled(g), n)["date"] = day
         /\ WithPnl(Rolled(g), live, p)["date"] = day
<1>1. Fresh(day) \in CounterRecords /\ Fresh(day)["date"] = day
  BY FreshType DEF Fresh, PersistKeys
<1>2. Rolled(g) \in CounterRecords /\ Rolled(g)["date"] = day
  BY RolledType
<1> QED
  BY <1>1, <1>2 DEF Loaded, WithNotional, WithPnl, PnlKey, PeakKey, CounterRecords,
     PersistKeys, Counters

LEMMA RebuildInit == Init => RebuildInv
<1> SUFFICES ASSUME Init PROVE RebuildInv
  OBVIOUS
<1>1. PICK l \in Layouts, pnl \in {0} \cup Pnls, n \in {0, BankrollCap} :
        store = Layout(l, 0, pnl, n) /\ today = Recorded(l, pnl, n)
  BY DEF Init
<1>2. pnl \in Int /\ n \in Int /\ l \in {"fresh", "split", "unpeaked", "combined", "legacy"}
  BY InputsAssumption, LimitsAssumption
<1>3. day = 0 /\ pc = "down" /\ op = "idle" /\ gate = Fresh(0)
  BY DEF Init
<1>4. \A k \in {"date", "legacy_date"} : store[k] = None \/ store[k] = 0
  BY <1>1, <1>2 DEF Layout, NoKeys, Keys, PersistKeys, Counters, OldKeys
<1>5. Recorded(l, pnl, n) = Loaded(Layout(l, 0, pnl, n))
  <2> DEFINE s == Layout(l, 0, pnl, n)
  <2>1. None # 0 /\ None # pnl /\ None # n
    BY <1>2, NoneAssumption
  <2>2. CASE l = "fresh"
    BY <2>1, <2>2, <1>3 DEF Layout, NoKeys, Keys, PersistKeys, Counters, OldKeys, Recorded,
       Loaded, LadderDate, FromLegacy, NoSplit
  <2>3. CASE l # "fresh"
    <3>1. LadderDate(s) = 0 /\ LadderLive(s) = pnl /\ LadderNotional(s) = n
      BY <2>1, <2>3, <1>2 DEF Layout, NoKeys, Keys, PersistKeys, Counters, OldKeys,
         LadderDate, LadderLive, LadderNotional, FromLegacy, FromCombined, NoSplit, Num
    <3>2. Num(s["paper_pnl"]) = 0 /\ Num(s["paper_peak"]) = 0
      BY <2>1, <2>3, <1>2 DEF Layout, NoKeys, Keys, PersistKeys, Counters, OldKeys, Num
    <3>3. Num(s["live_peak"]) \in {0, Larger(0, pnl)}
      BY <2>1, <2>3, <1>2, NoneAssumption DEF Layout, NoKeys, Keys, PersistKeys, Counters, OldKeys, Num, Larger
    <3>4. Larger(Larger(0, pnl), Num(s["live_peak"])) = Larger(0, pnl) /\ Larger(Larger(0, 0), 0) = 0
      BY <3>3, <1>2 DEF Larger
    <3>5. Loaded(s) = [Fresh(0) EXCEPT !["live_pnl"] = pnl, !["paper_pnl"] = 0,
                         !["live_peak"] = Larger(0, pnl), !["paper_peak"] = 0, !["notional"] = n]
      BY <3>1, <3>2, <3>4, <1>3 DEF Loaded
    <3>6. Recorded(l, pnl, n) = [Fresh(0) EXCEPT !["live_pnl"] = pnl, !["live_peak"] = Larger(0, pnl),
                                   !["notional"] = n]
      <4>1. \A k \in Counters : Fresh(0)[k] = 0
        BY DEF Fresh, PersistKeys, Counters
      <4>2. 0 + pnl = pnl /\ 0 + n = n
        BY <1>2
      <4>3. WithPnl(Fresh(0), TRUE, pnl) = [Fresh(0) EXCEPT !["live_pnl"] = pnl,
                                              !["live_peak"] = Larger(0, pnl)]
        BY <4>1, <4>2 DEF WithPnl, PnlKey, PeakKey, Fresh, PersistKeys, Counters
      <4>4. WithPnl(Fresh(0), TRUE, pnl)["notional"] = 0
        BY <4>1, <4>3 DEF Fresh, PersistKeys, Counters
      <4> QED
        BY <2>3, <4>2, <4>3, <4>4 DEF Recorded, WithNotional, Fresh, PersistKeys, Counters
    <3> QED
      BY <3>5, <3>6 DEF Fresh, PersistKeys, Counters
  <2> QED
    BY <2>2, <2>3
<1> QED
  BY <1>1, <1>3, <1>4, <1>5, NoneAssumption
  DEF RebuildInv, InForce, DatesPast, Saved, ResetAlone, Fresh, PersistKeys, Counters

\* A gate about to persist counters of today, in step with the observer.
LEMMA RecordedToday ==
  ASSUME day \in Nat, NEW g \in CounterRecords, g["date"] = day,
         gate' = g, today' = g, pc' = "date", op = "idle", op' = "idle", day' = day,
         store' = store, DatesPast
  PROVE  RebuildInv'
<1>1. Rolled(gate)' = g
  BY DEF Rolled
<1> QED
  BY <1>1 DEF RebuildInv, InForce, DatesPast, Saved, ResetAlone, Written, PersistKeys, Counters

LEMMA RebuildStep ==
  ASSUME Operator # "impatient", TypeOK, PeakDominates, RebuildInv, [Next]_vars
  PROVE  RebuildInv'
<1>t. /\ day \in Nat /\ store \in Stores /\ gate \in CounterRecords /\ isLive \in BOOLEAN
      /\ Rolled(gate) \in CounterRecords /\ Loaded(store) \in CounterRecords
  BY RolledType, LoadedType DEF TypeOK, Stores
<1>i. today = InForce /\ DatesPast /\ Saved /\ ResetAlone
  BY DEF RebuildInv
<1>u. pc # "down" => today = Rolled(gate) /\ op = "idle"
  BY <1>i DEF InForce, ResetAlone
<1>d. pc = "idle" => Loaded(store) = Rolled(gate)
  BY <1>i, <1>t, LoadedMirror DEF Saved
<1>1. ASSUME NEW live \in Modes, Start(live) PROVE RebuildInv'
  <2>1. Loaded(store)["date"] = day
    BY <1>t, DatedToday
  <2>2. today = Loaded(store) /\ op = "idle"
    BY <1>1, <1>i, InputsAssumption DEF Start, InForce
  <2> QED
    BY <1>1, <1>t, <1>i, <2>1, <2>2, RecordedToday DEF Start
<1>2. CASE PersistStep
  <2>1. /\ pc \in PersistKeys /\ store' = [store EXCEPT ![pc] = gate[pc]] /\ pc' = AfterWrite[pc]
        /\ UNCHANGED <<day, gate, op, today>>
    BY <1>2 DEF PersistStep
  <2>2. op = "idle" /\ today = Rolled(gate)
    BY <2>1, <1>u DEF PersistKeys, Counters
  <2>3. Rolled(gate)' = Rolled(gate)
    BY <2>1 DEF Rolled
  <2>4. DatesPast'
    BY <2>1, <1>i, <1>t DEF DatesPast, Stores, Keys, PersistKeys, OldKeys, Counters
  <2>5. \A k \in Written(pc) \cup {pc} : store'[k] = gate[k]
    BY <2>1, <1>i, <1>t DEF Saved, Stores, Keys, Written, PersistKeys, Counters
  <2>6. CASE pc = "notional"
    <3>1. pc' = "idle"
      BY <2>1, <2>6 DEF AfterWrite
    <3>2. \A k \in PersistKeys : store'[k] = gate[k]
      BY <2>5, <2>6 DEF Written, PersistKeys, Counters
    <3>3. Mirror' = gate
      BY <3>2, <1>t DEF Mirror, CounterRecords
    <3>4. Dominated(gate)
      BY <2>1 DEF PeakDominates, PersistKeys, Counters
    <3>5. Saved'
      BY <3>1, <3>3, <3>4, <2>1, <1>t DEF Saved, PersistKeys, Counters, Dominated, Rolled
    <3> QED
      BY <3>1, <3>5, <2>1, <2>2, <2>3, <2>4 DEF RebuildInv, InForce, ResetAlone
  <2>7. CASE pc # "notional"
    <3>1. pc' \in PersistKeys /\ Written(pc') = Written(pc) \cup {pc}
      BY <2>1, <2>7 DEF AfterWrite, Written, PersistKeys, Counters
    <3>2. Saved'
      BY <3>1, <2>1, <2>5 DEF Saved, PersistKeys, Counters
    <3> QED
      BY <3>1, <3>2, <2>1, <2>2, <2>3, <2>4 DEF RebuildInv, InForce, ResetAlone, PersistKeys, Counters
  <2> QED
    BY <2>6, <2>7
<1>3. ASSUME NEW p \in Pnls, NEW closes \in BOOLEAN, RecordRealizedPnl(p, closes) PROVE RebuildInv'
  <2> DEFINE g == WithPnl(Rolled(gate), isLive, p)
  <2>1. p \in Int
    BY InputsAssumption
  <2>2. g \in CounterRecords /\ g["date"] = day
    BY <2>1, <1>t, WithPnlType, DatedToday
  <2>3. today = Rolled(gate) /\ op = "idle"
    BY <1>3, <1>u DEF RecordRealizedPnl
  <2>4. gate' = g /\ today' = g /\ pc' = "date" /\ UNCHANGED <<op, day, store>>
    BY <1>3, <2>3 DEF RecordRealizedPnl
  <2> QED
    BY <2>2, <2>3, <2>4, <1>t, <1>i, RecordedToday
<1>4. ASSUME NEW req \in Requests, NEW bump \in 0 .. BumpMax, Enter(req, bump) PROVE RebuildInv'
  <2> DEFINE g == WithNotional(Rolled(gate), req.notional + bump)
  <2>1. req.notional + bump \in Int
    <3>1. req.notional \in Int
      BY InputsAssumption DEF Requests
    <3>2. bump \in Int
      BY LimitsAssumption
    <3> QED
      BY <3>1, <3>2
  <2>2. g \in CounterRecords /\ g["date"] = day
    BY <2>1, <1>t, WithNotionalType, DatedToday
  <2>3. today = Rolled(gate) /\ op = "idle"
    BY <1>4, <1>u DEF Enter
  <2>4. gate' = g /\ today' = g /\ pc' = "date" /\ UNCHANGED <<op, day, store>>
    BY <1>4, <2>3 DEF Enter
  <2> QED
    BY <2>2, <2>3, <2>4, <1>t, <1>i, RecordedToday
<1>5. ASSUME NEW x \in 1 .. resting.charge, Credit(x) PROVE RebuildInv'
  <2> DEFINE g == WithNotional(Rolled(gate), -x)
  <2>1. -x \in Int
    BY DEF TypeOK
  <2>2. g \in CounterRecords /\ g["date"] = day
    BY <2>1, <1>t, WithNotionalType, DatedToday
  <2>3. today = Rolled(gate) /\ op = "idle"
    BY <1>5, <1>u DEF Credit
  <2>4. gate' = g /\ today' = g /\ pc' = "date" /\ UNCHANGED <<op, day, store>>
    BY <1>5, <2>3 DEF Credit
  <2> QED
    BY <2>2, <2>3, <2>4, <1>t, <1>i, RecordedToday
<1>6. CASE EndTick
  <2>1. /\ pc = "idle" /\ pc' \in {"down", "idle"} /\ gate' = Rolled(gate)
        /\ UNCHANGED <<day, store, op, today>>
    BY <1>6 DEF EndTick
  <2>2. Rolled(gate)["date"] = day
    BY <1>t, RolledType
  <2>3. Rolled(gate)' = Rolled(gate) /\ Rolled(Mirror)' = Rolled(Mirror) /\ Loaded(store)' = Loaded(store)
    BY <2>1, <2>2 DEF Rolled, Mirror, Loaded
  <2>4. today' = InForce'
    BY <2>1, <2>3, <1>u, <1>d DEF InForce
  <2>5. DatesPast'
    BY <2>1, <2>2, <1>i, <1>t DEF DatesPast
  <2>6. Saved'
    BY <2>1, <2>3, <1>i DEF Saved, Mirror, PersistKeys, Counters
  <2> QED
    BY <2>1, <2>4, <2>5, <2>6, <1>u DEF RebuildInv, ResetAlone
<1>7. CASE Stop
  <2>1. pc = "idle" /\ pc' = "down" /\ UNCHANGED <<day, store, gate, op, today>>
    BY <1>7 DEF Stop
  <2>2. Loaded(store)' = Loaded(store)
    BY <2>1 DEF Loaded
  <2> QED
    BY <2>1, <2>2, <1>u, <1>d, <1>i
    DEF RebuildInv, InForce, DatesPast, Saved, ResetAlone, PersistKeys, Counters
<1>8. CASE ResetStep
  <2>1. op # "idle" /\ pc = "down"
    BY <1>8, <1>i DEF ResetStep, ResetAlone
  <2>2. op \in Counters
    BY <2>1 DEF TypeOK, Counters
  <2>3. /\ store' = [store EXCEPT ![op] = 0] /\ today' = Loaded(store')
        /\ UNCHANGED <<day, gate, pc>>
    BY <1>8, <2>1 DEF ResetStep
  <2>4. Loaded(store)' = Loaded(store')
    BY <2>3 DEF Loaded
  <2>5. DatesPast'
    BY <2>2, <2>3, <1>i, <1>t DEF DatesPast, Stores, Keys, PersistKeys, OldKeys, Counters
  <2> QED
    BY <2>1, <2>3, <2>4, <2>5 DEF RebuildInv, InForce, Saved, ResetAlone, PersistKeys, Counters
<1>9. CASE NextDay
  <2>1. day' = day + 1 /\ today' = Fresh(day + 1) /\ UNCHANGED <<store, gate, pc, op>>
    BY <1>9 DEF NextDay
  <2>2. gate["date"] # day + 1 /\ gate["date"] \in Int
    BY <1>i, <1>t DEF DatesPast, CounterRecords, PersistKeys
  <2>3. Rolled(gate)' = Fresh(day + 1)
    BY <2>1, <2>2 DEF Rolled
  <2>4. LadderDate(store) # day + 1
    BY <1>i, <1>t, NoneAssumption DEF DatesPast, LadderDate
  <2>5. Loaded(store)' = Fresh(day + 1)
    BY <2>1, <2>4 DEF Loaded
  <2>6. DatesPast'
    BY <2>1, <2>2, <1>i, <1>t DEF DatesPast, Stores, Keys, PersistKeys, OldKeys
  <2>7. Mirror["date"] = store["date"]
    BY DEF Mirror, PersistKeys
  <2>8. Rolled(Mirror)' = Fresh(day + 1)
    BY <2>1, <2>7, <1>i, <1>t, NoneAssumption DEF Rolled, DatesPast, Mirror
  <2>9. Saved'
    BY <2>1, <2>3, <2>8, <1>i DEF Saved, Mirror, Dominated
  <2> QED
    BY <2>1, <2>3, <2>5, <2>6, <2>9, <1>i DEF RebuildInv, InForce, ResetAlone
<1>10. CASE Crash
  <2>1. pc' = "down" /\ op' = "idle" /\ today' = Loaded(store) /\ UNCHANGED <<day, store, gate>>
    BY <1>10 DEF Crash
  <2>2. Loaded(store)' = Loaded(store)
    BY <2>1 DEF Loaded
  <2> QED
    BY <2>1, <2>2, <1>i DEF RebuildInv, InForce, DatesPast, Saved, ResetAlone, PersistKeys, Counters
\* The others touch no counter.
<1>11. ASSUME UNCHANGED <<day, store, gate, pc, today>>, op' = op \/ pc = "down"
       PROVE  RebuildInv'
  BY <1>11, <1>i DEF RebuildInv, InForce, DatesPast, Saved, ResetAlone, Rolled, Loaded, Mirror, Dominated
<1>12. ASSUME \/ Refresh \/ ResetRequest \/ UNCHANGED vars
              \/ \E b \in BOOLEAN : SetBypass(b)
              \/ \E f \in {"shares", "usd"}, v \in TradeSizes \cup {None} : SetRuntimeCap(f, v)
       PROVE  UNCHANGED <<day, store, gate, pc, today>> /\ (op' = op \/ pc = "down")
  BY <1>12 DEF Refresh, ResetRequest, SetBypass, SetRuntimeCap, vars
<1> QED
  BY <1>1, <1>2, <1>3, <1>4, <1>5, <1>6, <1>7, <1>8, <1>9, <1>10, <1>11, <1>12 DEF Next

\* As long as the reset really is pressed on a stopped bot, no sequence of
\* stops, restarts, migrations and midnights changes what the gate counts:
\* the next boot's counters are the day's own.
THEOREM RestartsRebuild ==
  ASSUME Operator # "impatient" PROVE Spec => []RestartRebuilds
<1>1. RebuildInv => RestartRebuilds
  BY DEF RebuildInv, RestartRebuilds
<1>2. TypeOK /\ PeakDominates /\ RebuildInv /\ [Next]_vars => RebuildInv'
  BY RebuildStep
<1> QED
  BY <1>1, <1>2, RebuildInit, TypeCorrect, PeaksAlwaysDominate, PTL DEF Spec

-----------------------------------------------------------------------------
(* What the rebuilt counters are for: the halt.                             *)

\* No buy is charged while the day's own record has its leg at the trailing
\* floor, whatever was stopped, migrated or restarted before.
THEOREM NoEntriesAtFloor ==
  ASSUME Operator # "impatient" PROVE Spec => NoEntryAtFloor
<1>1. ASSUME RebuildInv, [Next]_vars, tick = "open", tick' = "entered"
      PROVE  knobs.bypass \/ ~AtFloor(today, isLive)
  <2>1. ASSUME NEW req \in Requests, NEW bump \in 0 .. BumpMax, Enter(req, bump)
        PROVE  knobs.bypass \/ ~AtFloor(today, isLive)
    <3>1. ~Breached /\ pc = "idle"
      BY <2>1 DEF Enter, Blocked
    <3>2. today = Rolled(gate)
      BY <3>1, <1>1 DEF RebuildInv, InForce
    <3> QED
      BY <3>1, <3>2 DEF Breached
  <2> QED
    BY <1>1, <2>1
    DEF Next, vars, Start, PersistStep, Refresh, RecordRealizedPnl, Credit, EndTick, Stop,
        SetBypass, SetRuntimeCap, ResetRequest, ResetStep, NextDay, Crash
<1>2. TypeOK /\ PeakDominates /\ RebuildInv /\ [Next]_vars => RebuildInv'
  BY RebuildStep
<1> QED
  BY <1>1, <1>2, RebuildInit, TypeCorrect, PeaksAlwaysDominate, PTL DEF Spec, NoEntryAtFloor

\* The halt trails a peak that only rises: a loss cannot lift it.
LEMMA LossKeepsHalt ==
  ASSUME NEW c \in CounterRecords, NEW live \in BOOLEAN, NEW leg \in BOOLEAN, NEW p \in Int,
         AtFloor(c, leg)
  PROVE  AtFloor(WithPnl(c, live, p), leg) \/ WithPnl(c, live, p)[PnlKey(leg)] > c[PnlKey(leg)]
<1> DEFINE new == c[PnlKey(live)] + p
           w   == WithPnl(c, live, p)
<1>1. /\ \A l \in BOOLEAN : PnlKey(l) \in PersistKeys /\ PeakKey(l) \in PersistKeys
      /\ \A l, m \in BOOLEAN : PnlKey(l) # PeakKey(m)
      /\ \A l, m \in BOOLEAN : l # m => PnlKey(l) # PnlKey(m) /\ PeakKey(l) # PeakKey(m)
  BY DEF PnlKey, PeakKey, PersistKeys, Counters
<1>2. \A k \in PersistKeys : c[k] \in Int
  BY DEF CounterRecords
<1>3. LossHalt \in Nat
  BY LimitsAssumption
<1>4. w = [c EXCEPT ![PnlKey(live)] = new, ![PeakKey(live)] = Larger(@, new)]
  BY DEF WithPnl
<1>5. DOMAIN c = PersistKeys
  BY DEF CounterRecords
<1>6. CASE leg = live
  <2>1. w[PnlKey(leg)] = new /\ w[PeakKey(leg)] = Larger(c[PeakKey(leg)], new)
    BY <1>1, <1>4, <1>5, <1>6
  <2>2. c[PnlKey(leg)] \in Int /\ c[PeakKey(leg)] \in Int /\ new = c[PnlKey(leg)] + p
    BY <1>1, <1>2, <1>6
  <2>3. Larger(c[PeakKey(leg)], new) >= c[PeakKey(leg)]
    BY <2>2 DEF Larger
  <2>4. Larger(c[PeakKey(leg)], new) \in Int
    BY <2>2 DEF Larger
  <2> HIDE DEF w, new
  <2> QED
    BY <2>1, <2>2, <2>3, <2>4, <1>3 DEF AtFloor, w
<1>7. CASE leg # live
  <2>1. w[PnlKey(leg)] = c[PnlKey(leg)] /\ w[PeakKey(leg)] = c[PeakKey(leg)]
    BY <1>1, <1>4, <1>5, <1>7
  <2> QED
    BY <2>1 DEF AtFloor
<1> QED
  BY <1>6, <1>7

LEMMA ChargeKeepsHalt ==
  ASSUME NEW c \in CounterRecords, NEW leg \in BOOLEAN, NEW n \in Int
  PROVE  AtFloor(WithNotional(c, n), leg) <=> AtFloor(c, leg)
  BY DEF AtFloor, WithNotional, PnlKey, PeakKey, CounterRecords, PersistKeys, Counters

\* A breached halt stays breached for the day, through every loss, charge, credit, stop
\* and restart; a gain, the reset or a crash inside persist() may lift it.
THEOREM HaltStaysBreached ==
  ASSUME Operator # "impatient" PROVE Spec => HaltIsSticky
<1> DEFINE Kept == \A live \in BOOLEAN : AtFloor(today, live) =>
                     AtFloor(today', live) \/ today'[PnlKey(live)] > today[PnlKey(live)]
           Sticky == \A live \in BOOLEAN :
                       /\ AtFloor(InForce, live) /\ day' = day /\ op = "idle" /\ op' = "idle"
                       /\ ~(pc \in PersistKeys /\ pc' = "down")
                       => \/ AtFloor(InForce', live)
                          \/ today'[PnlKey(live)] > today[PnlKey(live)]
<1>1. ASSUME TypeOK, RebuildInv, [Next]_vars, day' = day, op = "idle", op' = "idle",
             ~(pc \in PersistKeys /\ pc' = "down")
      PROVE  Kept
  <2>t. today \in CounterRecords /\ isLive \in BOOLEAN
    BY <1>1 DEF TypeOK
  <2>1. ASSUME NEW p \in Pnls, NEW closes \in BOOLEAN, RecordRealizedPnl(p, closes) PROVE Kept
    <3>1. p \in Int
      BY InputsAssumption
    <3>2. today' = WithPnl(today, isLive, p)
      BY <2>1 DEF RecordRealizedPnl
    <3> QED
      BY <2>t, <3>1, <3>2, LossKeepsHalt
  <2>2. ASSUME NEW req \in Requests, NEW bump \in 0 .. BumpMax, Enter(req, bump) PROVE Kept
    <3>1. req.notional + bump \in Int
      <4>1. req.notional \in Int
        BY InputsAssumption DEF Requests
      <4>2. bump \in Int
        BY LimitsAssumption
      <4> QED
        BY <4>1, <4>2
    <3>2. today' = WithNotional(today, req.notional + bump)
      BY <2>2 DEF Enter
    <3> QED
      BY <2>t, <3>1, <3>2, ChargeKeepsHalt
  <2>3. ASSUME NEW x \in 1 .. resting.charge, Credit(x) PROVE Kept
    <3>1. -x \in Int
      BY <1>1 DEF TypeOK
    <3>2. today' = WithNotional(today, -x)
      BY <2>3 DEF Credit
    <3> QED
      BY <2>t, <3>1, <3>2, ChargeKeepsHalt
  <2>4. CASE Crash
    <3>1. pc \notin PersistKeys /\ today' = Loaded(store)
      BY <2>4, <1>1 DEF Crash
    <3>2. pc \in {"idle", "down"}
      BY <3>1, <1>1 DEF TypeOK
    <3>3. Loaded(store) = InForce
      <4>1. /\ day \in Nat /\ store \in Stores
            /\ pc = "idle" => Mirror \in CounterRecords /\ Dominated(Mirror) /\ Rolled(Mirror) = Rolled(gate)
        BY <1>1 DEF TypeOK, Stores, RebuildInv, Saved
      <4> QED
        BY <4>1, <3>2, LoadedMirror DEF InForce
    <3> QED
      BY <3>1, <3>3, <1>1 DEF RebuildInv
  <2>5. ASSUME today' = today PROVE Kept
    BY <2>5
  <2>6. CASE ResetStep \/ NextDay
    <3>1. CASE ResetStep
      BY <3>1, <1>1 DEF ResetStep
    <3>2. CASE NextDay
      BY <3>2, <1>1 DEF NextDay, TypeOK
    <3> QED
      BY <2>6, <3>1, <3>2
  <2>7. ASSUME \/ PersistStep \/ Refresh \/ EndTick \/ Stop \/ ResetRequest \/ UNCHANGED vars
               \/ \E live \in Modes : Start(live)
               \/ \E b \in BOOLEAN : SetBypass(b)
               \/ \E f \in {"shares", "usd"}, v \in TradeSizes \cup {None} : SetRuntimeCap(f, v)
        PROVE  today' = today
    BY <2>7 DEF PersistStep, Refresh, EndTick, Stop, ResetRequest, vars, Start, SetBypass,
       SetRuntimeCap
  <2> HIDE DEF Kept
  <2> QED
    BY <1>1, <2>1, <2>2, <2>3, <2>4, <2>5, <2>6, <2>7 DEF Next
<1>2. TypeOK /\ RebuildInv /\ RebuildInv' /\ [Next]_vars => Sticky
  <2> SUFFICES ASSUME TypeOK, RebuildInv, RebuildInv', [Next]_vars PROVE Sticky
    OBVIOUS
  <2>1. today = InForce /\ today' = InForce'
    BY DEF RebuildInv
  <2> QED
    BY <1>1, <2>1
<1>3. TypeOK /\ PeakDominates /\ RebuildInv /\ [Next]_vars => RebuildInv'
  BY RebuildStep
<1>4. Sticky => [Sticky]_vars
  OBVIOUS
<1> HIDE DEF Sticky
<1>5. Init /\ [][Next]_vars => [][Sticky]_vars
  BY <1>2, <1>3, RebuildInit, TypeCorrect, PeaksAlwaysDominate, PTL DEF Spec
<1> QED
  BY <1>5 DEF Spec, HaltIsSticky, Sticky

-----------------------------------------------------------------------------
(* What a day's buys may sum to.  The bound is checked when a buy is         *)
(* charged, on the gate's own counter; that a restart cannot lose the        *)
(* counter, and what is bought is what is counted, is what has to be shown.  *)

\* One clock day or paper loops only, so that no cancel credits another day's charge, and no
\* keys of the oldest layout: a reset or a death right after the first write would drop the
\* bankroll they hold (gate.py:174-200, 232-238).
CountsHold ==
  /\ Operator # "impatient" /\ "legacy" \notin Layouts
  /\ LastDay = 0 \/ TRUE \notin Modes

Cap == BankrollCap + BumpMax

\* Nothing in memory or in the store counts more than the cap and one bump, nor less than
\* a cancel may still credit ...
Capped ==
  /\ 0 <= resting.charge /\ resting.charge <= gate["notional"] /\ gate["notional"] <= Cap
  /\ 0 <= Num(store["notional"]) /\ Num(store["notional"]) <= Cap
\* ... the record counts every buy but those the process died recording ...
Counted == spent.bought <= today["notional"] + spent.lost
\* ... and so does the store, but for the one that is being written ...
Charging ==
  /\ 0 <= spent.charging
  /\ IF pc \in PersistKeys
     THEN spent.bought <= Loaded(store)["notional"] + spent.lost + spent.charging
     ELSE spent.charging = 0
\* ... and the provisos, as facts of the state.
SameDay ==
  /\ isLive \in Modes
  /\ IF LastDay = 0 THEN day = 0 /\ resting.on = 0 /\ gate["date"] = 0 ELSE resting.charge = 0
NoOldKeys == store["legacy_date"] = None /\ store["legacy_notional"] = None
SpendInv == Capped /\ Counted /\ Charging /\ SameDay /\ NoOldKeys

LEMMA NotionalOnly ==
  ASSUME NEW c \in CounterRecords, NEW live \in BOOLEAN, NEW n \in Int
  PROVE  /\ WithNotional(c, n)["notional"] = c["notional"] + n
         /\ WithNotional(c, n)["date"] = c["date"]
         /\ WithPnl(c, live, n)["notional"] = c["notional"]
         /\ WithPnl(c, live, n)["date"] = c["date"]
         /\ c["notional"] \in Int
  BY DEF WithNotional, WithPnl, CounterRecords, PersistKeys, Counters, PnlKey, PeakKey

\* The bankroll counter a boot rebuilds is the stored one, or zero.
LEMMA LoadedNotional ==
  ASSUME NEW s \in Stores, day \in Nat, s["legacy_date"] = None, s["legacy_notional"] = None
  PROVE  /\ Loaded(s)["notional"] = IF s["date"] = day THEN Num(s["notional"]) ELSE 0
         /\ Loaded(s)["date"] = day
<1>1. LadderDate(s) = s["date"] /\ LadderNotional(s) = Num(s["notional"])
  BY DEF LadderDate, LadderNotional, FromLegacy
<1> QED
  BY <1>1 DEF Loaded, Fresh, PersistKeys, Counters

LEMMA RolledCapped ==
  ASSUME TypeOK, Capped, SameDay
  PROVE  /\ resting.charge <= Rolled(gate)["notional"] /\ Rolled(gate)["notional"] <= Cap
         /\ Rolled(gate)["date"] = day
  BY LimitsAssumption DEF TypeOK, Capped, SameDay, Cap, Rolled, Fresh, PersistKeys, Counters

LEMMA LoadedCapped ==
  ASSUME TypeOK, Capped, NoOldKeys
  PROVE  0 <= Loaded(store)["notional"] /\ Loaded(store)["notional"] <= Cap
  BY LoadedNotional, LimitsAssumption DEF TypeOK, Stores, Capped, Cap, NoOldKeys

LEMMA SpendInit == ASSUME CountsHold PROVE Init => SpendInv
<1> SUFFICES ASSUME Init PROVE SpendInv
  OBVIOUS
<1>1. PICK l \in Layouts, pnl \in {0} \cup Pnls, n \in {0, BankrollCap} :
        store = Layout(l, 0, pnl, n) /\ today = Recorded(l, pnl, n)
  BY DEF Init
<1>2. pnl \in Int /\ n \in Int /\ 0 <= n /\ l \in {"fresh", "split", "unpeaked", "combined"}
  BY <1>1, InputsAssumption, LimitsAssumption DEF CountsHold
<1>3. store["notional"] \in {None, n} /\ NoOldKeys
  BY <1>1, <1>2 DEF Layout, NoKeys, Keys, PersistKeys, Counters, OldKeys, NoOldKeys
<1>4. Capped
  <2>1. gate["notional"] = 0 /\ resting.charge = 0
    BY DEF Init, Fresh, PersistKeys, Counters, NoResting
  <2>2. 0 <= Cap /\ n <= Cap
    BY LimitsAssumption DEF Cap
  <2> QED
    BY <1>2, <1>3, <2>1, <2>2 DEF Capped, Num
<1>5. today["notional"] \in Int
  BY TypeInit DEF TypeOK, CounterRecords, PersistKeys, Counters
<1>6. Counted /\ Charging
  BY <1>5 DEF Init, Counted, Charging, NoSpend, PersistKeys, Counters
<1>7. SameDay
  BY DEF Init, SameDay, NoResting, Fresh, PersistKeys
<1> QED
  BY <1>3, <1>4, <1>6, <1>7 DEF SpendInv

\* A write of a key that is not the bankroll's leaves what a boot counts, once the
\* keys of the oldest layout are gone.
LEMMA ResetSpares ==
  ASSUME NEW s \in Stores, NEW k \in {"live_pnl", "paper_pnl", "live_peak", "paper_peak"},
         day \in Nat, s["legacy_date"] = None, s["legacy_notional"] = None
  PROVE  Loaded([s EXCEPT ![k] = 0])["notional"] = Loaded(s)["notional"]
<1> DEFINE t == [s EXCEPT ![k] = 0]
<1>1. k \in Keys /\ t \in Stores
  BY DEF Stores, Keys, PersistKeys, Counters
<1>2. \A q \in {"date", "notional", "legacy_date", "legacy_notional"} : t[q] = s[q]
  BY DEF Stores, Keys, PersistKeys, Counters, OldKeys
<1> HIDE DEF t
<1>3. Loaded(t)["notional"] = Loaded(s)["notional"]
  BY <1>1, <1>2, LoadedNotional
<1> QED
  BY <1>3 DEF t

LEMMA SpendStep ==
  ASSUME CountsHold, BankrollCap > 0, TypeOK, RebuildInv, RebuildInv', SpendInv, [Next]_vars
  PROVE  SpendInv'
<1>t. /\ day \in Nat /\ store \in Stores /\ gate \in CounterRecords /\ today \in CounterRecords
      /\ Rolled(gate) \in CounterRecords /\ Loaded(store) \in CounterRecords
      /\ isLive \in BOOLEAN /\ spent \in [bought : Int, charging : Int, lost : Int]
      /\ resting.charge \in Int /\ pc \in {"down", "idle"} \cup PersistKeys
      /\ "down" \notin PersistKeys /\ "idle" \notin PersistKeys
  BY RolledType, LoadedType DEF TypeOK, Stores, PersistKeys, Counters
<1>c. Cap \in Nat /\ BumpMax \in Nat /\ BankrollCap \in Nat /\ Cap = BankrollCap + BumpMax
  BY LimitsAssumption DEF Cap
<1>i. Capped /\ Counted /\ Charging /\ SameDay /\ NoOldKeys
  BY DEF SpendInv
<1>r. /\ resting.charge <= Rolled(gate)["notional"] /\ Rolled(gate)["notional"] <= Cap
      /\ Rolled(gate)["date"] = day
      /\ 0 <= Loaded(store)["notional"] /\ Loaded(store)["notional"] <= Cap
      /\ Loaded(store)["date"] = day
  BY <1>i, <1>t, RolledCapped, LoadedCapped, LoadedNotional DEF NoOldKeys
<1>n. today["notional"] \in Int /\ Rolled(gate)["notional"] \in Int /\ Loaded(store)["notional"] \in Int
      /\ gate["notional"] \in Int /\ Num(store["notional"]) \in Int
  <2>1. store["notional"] \in Int \cup {None}
    BY <1>t DEF Stores, Keys, PersistKeys, Counters
  <2> QED
    BY <1>t, <2>1, NotionalOnly DEF Num
\* What a running gate counts is the record; what a stopped or an idle one would load, too.
<1>u. pc # "down" => today = Rolled(gate)
  BY DEF RebuildInv, InForce
<1>s. pc \notin PersistKeys => Loaded(store) = today /\ spent.charging = 0
  <2>1. CASE pc = "idle"
    <3>1. Mirror \in CounterRecords /\ Dominated(Mirror) /\ Rolled(Mirror) = Rolled(gate)
      BY <2>1 DEF RebuildInv, Saved
    <3>2. Loaded(store) = today
      BY <2>1, <3>1, <1>t, LoadedMirror DEF RebuildInv, InForce
    <3> QED
      BY <2>1, <3>2, <1>i, <1>t DEF Charging
  <2>2. CASE pc = "down"
    BY <2>2, <1>i, <1>t DEF RebuildInv, InForce, Charging
  <2> QED
    BY <2>1, <2>2, <1>t
<1>b. spent.bought <= Loaded(store)["notional"] + spent.lost + spent.charging
  BY <1>s, <1>i, <1>t, <1>n DEF Counted, Charging
<1>l. isLive => LastDay = 0
  BY <1>i DEF CountsHold, SameDay
<1>k. store' = store /\ day' = day => NoOldKeys' /\ Loaded(store)' = Loaded(store)
  BY <1>i DEF NoOldKeys, Loaded
<1>d. ASSUME day' = day, isLive' \in Modes, gate'["date"] \in {gate["date"], day},
             resting'.on \in {0, resting.on, day}, LastDay # 0 => resting'.charge = 0
      PROVE  SameDay'
  BY <1>d, <1>i DEF SameDay
<1>m. isLive \in Modes
  BY <1>i DEF SameDay
<1>1. ASSUME NEW live \in Modes, Start(live) PROVE SpendInv'
  <2>1. /\ pc = "down" /\ pc' \in PersistKeys /\ gate' = Loaded(store) /\ isLive' = live
        /\ resting' = NoResting /\ UNCHANGED <<day, store, today, spent>>
    BY <1>1 DEF Start, PersistKeys
  <2>2. resting'.charge = 0 /\ resting'.on = 0
    BY <2>1 DEF NoResting
  <2>3. Capped'
    BY <2>1, <2>2, <1>r, <1>i DEF Capped
  <2>4. Counted' /\ Charging'
    BY <2>1, <1>b, <1>i, <1>k DEF Counted, Charging
  <2>5. SameDay'
    BY <2>1, <2>2, <1>r, <1>d, <1>1
  <2> QED
    BY <2>1, <2>3, <2>4, <2>5, <1>k DEF SpendInv
<1>2. CASE PersistStep
  <2>1. /\ pc \in PersistKeys /\ store' = [store EXCEPT ![pc] = gate[pc]] /\ pc' = AfterWrite[pc]
        /\ spent' = [spent EXCEPT !.charging = IF pc' = "idle" THEN 0 ELSE @]
        /\ UNCHANGED <<day, gate, isLive, resting, today>>
    BY <1>2 DEF PersistStep
  <2>2. /\ store'["notional"] = IF pc = "notional" THEN gate["notional"] ELSE store["notional"]
        /\ store'["date"] = IF pc = "date" THEN gate["date"] ELSE store["date"]
        /\ store' \in Stores /\ NoOldKeys'
    BY <2>1, <1>t, <1>i DEF Stores, Keys, PersistKeys, OldKeys, Counters, CounterRecords, NoOldKeys
  <2>3. /\ spent'.bought = spent.bought /\ spent'.lost = spent.lost
        /\ spent'.charging = IF pc' = "idle" THEN 0 ELSE spent.charging
    BY <2>1, <1>t
  <2>4. Num(store'["notional"]) \in {Num(store["notional"]), gate["notional"]}
    BY <2>2, NoneAssumption, <1>n DEF Num
  <2>5. Capped'
    BY <2>1, <2>4, <1>i, <1>n, <1>t DEF Capped
  <2>6. Counted' /\ SameDay'
    BY <2>1, <2>3, <1>i DEF Counted, SameDay
  <2>7. Loaded(store)'["notional"] = IF store'["date"] = day THEN Num(store'["notional"]) ELSE 0
    <3>1. Loaded(store)' = Loaded(store')
      BY <2>1 DEF Loaded
    <3> QED
      BY <2>2, <3>1, <1>t, LoadedNotional DEF NoOldKeys
  <2>8. CASE pc = "notional"
    <3>1. pc' = "idle"
      BY <2>1, <2>8 DEF AfterWrite
    <3> QED
      BY <3>1, <2>2, <2>3, <2>5, <2>6, <1>t DEF Charging, SpendInv
  <2>9. CASE pc = "date"
    <3>1. pc' = "live_pnl"
      BY <2>1, <2>9 DEF AfterWrite
    <3>2. store'["date"] = gate["date"] /\ store'["notional"] = store["notional"]
      BY <2>2, <2>9
    <3>3. CASE gate["date"] = day
      <4>1. Loaded(store)'["notional"] >= Loaded(store)["notional"]
        BY <2>7, <3>2, <3>3, <1>t, <1>n, <1>i, LoadedNotional DEF Capped, NoOldKeys
      <4>2. Loaded(store)'["notional"] \in Int
        BY <2>7, <3>2, <1>n
      <4>3. spent'.bought <= Loaded(store)'["notional"] + spent'.lost + spent'.charging
        BY <4>1, <4>2, <3>1, <2>3, <1>b, <1>n, <1>t
      <4> QED
        BY <3>1, <4>3, <2>2, <2>3, <2>5, <2>6, <1>i DEF Charging, SpendInv, PersistKeys, Counters
    <3>4. CASE gate["date"] # day
      <4>1. today["notional"] = 0
        BY <1>u, <1>t, <2>1, <3>4 DEF Rolled, Fresh, PersistKeys, Counters
      <4>2. Loaded(store)'["notional"] = 0
        BY <2>7, <3>2, <3>4
      <4>3. spent'.bought <= Loaded(store)'["notional"] + spent'.lost + spent'.charging
        BY <4>1, <4>2, <3>1, <2>3, <1>i, <1>t DEF Counted, Charging
      <4> QED
        BY <3>1, <4>3, <2>2, <2>3, <2>5, <2>6, <1>i DEF Charging, SpendInv, PersistKeys, Counters
    <3> QED
      BY <3>3, <3>4
  <2>10. CASE pc \notin {"date", "notional"}
    <3>1. pc' \in PersistKeys /\ pc' # "idle"
      BY <2>1, <2>10 DEF AfterWrite, PersistKeys, Counters
    <3>2. Loaded(store)'["notional"] = Loaded(store)["notional"]
      BY <2>2, <2>7, <2>10, <1>t, <1>i, LoadedNotional DEF NoOldKeys
    <3>3. spent'.bought <= Loaded(store)'["notional"] + spent'.lost + spent'.charging
      BY <3>1, <3>2, <2>3, <1>b
    <3> QED
      BY <3>1, <3>3, <2>2, <2>3, <2>5, <2>6, <1>i DEF Charging, SpendInv
  <2> QED
    BY <2>8, <2>9, <2>10
<1>3. ASSUME NEW p \in Pnls, NEW closes \in BOOLEAN, RecordRealizedPnl(p, closes) PROVE SpendInv'
  <2>1. /\ pc = "idle" /\ pc' = "date"
        /\ gate' = WithPnl(Rolled(gate), isLive, p) /\ today' = WithPnl(today, isLive, p)
        /\ resting' \in {NoResting, resting} /\ UNCHANGED <<day, store, isLive, spent>>
    BY <1>3 DEF RecordRealizedPnl
  <2>2. p \in Int /\ resting'.on \in {0, resting.on} /\ resting'.charge \in {0, resting.charge}
    BY <2>1, InputsAssumption DEF NoResting
  <2>3. /\ gate'["notional"] = Rolled(gate)["notional"] /\ gate'["date"] = day
        /\ today'["notional"] = today["notional"]
    <3>1. /\ WithPnl(Rolled(gate), isLive, p)["notional"] = Rolled(gate)["notional"]
          /\ WithPnl(Rolled(gate), isLive, p)["date"] = Rolled(gate)["date"]
      BY <2>2, <1>t, NotionalOnly
    <3>2. WithPnl(today, isLive, p)["notional"] = today["notional"]
      BY <2>2, <1>t, NotionalOnly
    <3> QED
      BY <2>1, <3>1, <3>2, <1>r
  <2>4. Capped'
    BY <2>1, <2>2, <2>3, <1>r, <1>i, <1>n, <1>t DEF Capped
  <2>5. Counted' /\ Charging'
    BY <2>1, <2>3, <1>b, <1>i, <1>k DEF Counted, Charging, PersistKeys
  <2>6. LastDay # 0 => resting'.charge = 0
    BY <2>2, <1>i DEF SameDay
  <2>7. SameDay'
    BY <2>1, <2>2, <2>3, <2>6, <1>m, <1>d
  <2> QED
    BY <2>1, <2>4, <2>5, <2>7, <1>k DEF SpendInv
<1>4. ASSUME NEW req \in Requests, NEW bump \in 0 .. BumpMax, Enter(req, bump)
      PROVE  SpendInv'
  <2> DEFINE charge == req.notional + bump
  <2>1. /\ pc = "idle" /\ pc' = "date"
        /\ gate' = WithNotional(Rolled(gate), charge) /\ today' = WithNotional(today, charge)
        /\ spent' = [spent EXCEPT !.bought = @ + charge, !.charging = charge]
        /\ resting' = IF isLive THEN [charge |-> charge, on |-> day] ELSE NoResting
        /\ UNCHANGED <<day, store, isLive>>
        /\ ~(Rolled(gate)["notional"] + req.notional > BankrollCap) /\ ~(req.notional <= 0)
    BY <1>4 DEF Enter, Blocked
  <2>2. req.notional \in Int /\ bump \in Int /\ 0 <= bump /\ bump <= BumpMax
    <3>1. req.notional \in Int
      BY InputsAssumption DEF Requests
    <3>2. bump \in Int /\ 0 <= bump /\ bump <= BumpMax
      BY <1>c
    <3> QED
      BY <3>1, <3>2
  <2>3. charge \in Int /\ 0 <= charge /\ Rolled(gate)["notional"] + charge <= Cap
    BY <2>1, <2>2, <1>c, <1>n
  <2> HIDE DEF charge
  <2>4. /\ gate'["notional"] = Rolled(gate)["notional"] + charge /\ gate'["date"] = day
        /\ today'["notional"] = today["notional"] + charge
    BY <2>1, <2>3, <1>t, <1>r, NotionalOnly
  <2>5. /\ spent'.bought = spent.bought + charge /\ spent'.lost = spent.lost
        /\ spent'.charging = charge
    BY <2>1, <1>t
  <2>6. resting'.charge \in {0, charge} /\ resting'.on \in {0, day}
        /\ (LastDay # 0 => resting'.charge = 0)
    BY <2>1, <1>l DEF NoResting
  <2>7. 0 <= resting'.charge /\ resting'.charge <= gate'["notional"] /\ gate'["notional"] <= Cap
    BY <2>3, <2>4, <2>6, <1>r, <1>i, <1>n, <1>t DEF Capped
  <2>8. Capped'
    BY <2>1, <2>7, <1>i DEF Capped
  <2>9. Counted'
    BY <2>3, <2>4, <2>5, <1>i, <1>n, <1>t DEF Counted
  <2>10. spent'.bought <= Loaded(store)'["notional"] + spent'.lost + spent'.charging
    <3>1. spent.charging = 0
      BY <2>1, <1>s, <1>t
    <3>2. Loaded(store)' = Loaded(store)
      BY <2>1, <1>k
    <3> QED
      BY <3>1, <3>2, <2>3, <2>5, <1>b, <1>n, <1>t
  <2>11. Charging'
    BY <2>1, <2>3, <2>5, <2>10 DEF Charging, PersistKeys
  <2>12. SameDay'
    BY <2>1, <2>4, <2>6, <1>m, <1>d
  <2> QED
    BY <2>1, <2>8, <2>9, <2>11, <2>12, <1>k DEF SpendInv
<1>5. ASSUME NEW x \in 1 .. resting.charge, Credit(x) PROVE SpendInv'
  <2>1. /\ pc = "idle" /\ pc' = "date" /\ isLive
        /\ gate' = WithNotional(Rolled(gate), -x) /\ today' = WithNotional(today, -x)
        /\ spent' = [spent EXCEPT !.bought = IF resting.on = day THEN @ - x ELSE @]
        /\ resting' = NoResting /\ UNCHANGED <<day, store, isLive>>
    BY <1>5 DEF Credit
  <2>2. x \in Int /\ 0 <= x /\ x <= resting.charge /\ -x \in Int
    BY <1>t
  <2>3. resting.on = day /\ resting'.charge = 0 /\ resting'.on = 0
    BY <2>1, <1>i, <1>l DEF SameDay, NoResting
  <2>4. /\ gate'["notional"] = Rolled(gate)["notional"] + (-x) /\ gate'["date"] = day
        /\ today'["notional"] = today["notional"] + (-x)
    BY <2>1, <2>2, <1>t, <1>r, NotionalOnly
  <2>5. /\ spent'.bought = spent.bought - x /\ spent'.lost = spent.lost
        /\ spent'.charging = spent.charging
    BY <2>1, <2>3, <1>t
  <2>6. resting'.charge <= gate'["notional"] /\ gate'["notional"] <= Cap
    BY <2>2, <2>3, <2>4, <1>r, <1>n, <1>c, <1>t
  <2>7. Capped'
    BY <2>1, <2>3, <2>6, <1>i DEF Capped
  <2>8. Counted'
    BY <2>2, <2>4, <2>5, <1>i, <1>n, <1>t DEF Counted
  <2>9. spent'.bought <= Loaded(store)'["notional"] + spent'.lost + spent'.charging
    <3>1. Loaded(store)' = Loaded(store)
      BY <2>1, <1>k
    <3> QED
      BY <3>1, <2>2, <2>5, <1>b, <1>n, <1>t
  <2>10. Charging'
    BY <2>1, <2>5, <2>9, <1>i DEF Charging, PersistKeys
  <2>11. SameDay'
    BY <2>1, <2>3, <2>4, <1>m, <1>d
  <2> QED
    BY <2>1, <2>7, <2>8, <2>10, <2>11, <1>k DEF SpendInv
<1>6. CASE EndTick
  <2>1. /\ pc \notin PersistKeys /\ pc' \notin PersistKeys
        /\ gate' = Rolled(gate) /\ UNCHANGED <<day, store, isLive, resting, today, spent>>
    BY <1>6 DEF EndTick, PersistKeys, Counters
  <2>2. Capped'
    BY <2>1, <1>r, <1>i DEF Capped
  <2>3. Counted' /\ Charging'
    BY <2>1, <1>i DEF Counted, Charging
  <2>4. LastDay # 0 => resting.charge = 0
    BY <1>i DEF SameDay
  <2>5. SameDay'
    BY <2>1, <2>4, <1>r, <1>m, <1>d
  <2> QED
    BY <2>1, <2>2, <2>3, <2>5, <1>k DEF SpendInv
<1>7. ASSUME UNCHANGED <<day, store, gate, isLive, resting, today, spent>>,
             pc' = pc \/ {pc, pc'} \cap PersistKeys = {}
      PROVE  SpendInv'
  <2>1. Capped' /\ Counted' /\ SameDay'
    BY <1>7, <1>i DEF Capped, Counted, SameDay
  <2>2. pc' \in PersistKeys <=> pc \in PersistKeys
    BY <1>7
  <2>3. Charging'
    BY <1>7, <2>2, <1>i, <1>k DEF Charging
  <2> QED
    BY <1>7, <2>1, <2>3, <1>k DEF SpendInv
<1>8. CASE ResetStep
  <2>1. /\ op # "idle" /\ store' = [store EXCEPT ![op] = 0]
        /\ today' = IF pc = "down" THEN Loaded(store') ELSE [today EXCEPT ![op] = 0]
        /\ UNCHANGED <<day, gate, isLive, pc, resting, spent>>
    BY <1>8 DEF ResetStep
  <2>2. pc = "down" /\ pc \notin PersistKeys /\ today = Loaded(store)
    BY <2>1, <1>t DEF RebuildInv, ResetAlone, InForce
  <2>3. op \in {"live_pnl", "paper_pnl", "live_peak", "paper_peak"}
    BY <2>1 DEF TypeOK
  <2>4. today'["notional"] = today["notional"]
    BY <2>1, <2>2, <2>3, <1>i, <1>t, ResetSpares DEF NoOldKeys
  <2>5. \A k \in {"notional", "legacy_date", "legacy_notional"} : store'[k] = store[k]
    BY <2>1, <2>3, <1>t DEF Stores, Keys, PersistKeys, OldKeys, Counters
  <2> QED
    BY <2>1, <2>2, <2>4, <2>5, <1>i DEF SpendInv, Capped, Counted, Charging, NoOldKeys, SameDay
<1>9. CASE NextDay
  <2>1. /\ day < LastDay /\ today' = Fresh(day + 1) /\ day' = day + 1 /\ spent' = NoSpend
        /\ UNCHANGED <<store, gate, isLive, resting, pc>>
    BY <1>9 DEF NextDay
  <2>2. today'["notional"] = 0 /\ spent'.bought = 0 /\ spent'.lost = 0 /\ spent'.charging = 0
    BY <2>1 DEF Fresh, PersistKeys, Counters, NoSpend
  <2>3. LastDay # 0
    BY <2>1, <1>t
  <2>4. Loaded(store)'["notional"] \in Int /\ 0 <= Loaded(store)'["notional"]
    <3>1. Loaded(store)' = Loaded(store)' /\ day' \in Nat /\ store' = store
      BY <2>1, <1>t
    <3>2. LadderDate(store) = store["date"] /\ LadderNotional(store) = Num(store["notional"])
      BY <1>i DEF LadderDate, LadderNotional, FromLegacy, NoOldKeys
    <3>3. Loaded(store)'["notional"] \in {0, Num(store["notional"])}
      BY <3>1, <3>2 DEF Loaded, Fresh, PersistKeys, Counters
    <3> QED
      BY <3>3, <1>i, <1>n DEF Capped
  <2>5. Capped' /\ Counted' /\ Charging' /\ SameDay' /\ NoOldKeys'
    BY <2>1, <2>2, <2>3, <2>4, <1>i DEF Capped, Counted, Charging, NoOldKeys, SameDay
  <2> QED
    BY <2>5 DEF SpendInv
<1>10. CASE Crash
  <2>1. /\ pc' \notin PersistKeys /\ today' = Loaded(store) /\ resting' = NoResting
        /\ spent' = [spent EXCEPT !.charging = 0, !.lost = @ + spent.charging]
        /\ UNCHANGED <<day, store, gate, isLive>>
    BY <1>10, <1>t DEF Crash
  <2>2. /\ spent'.bought = spent.bought /\ spent'.lost = spent.lost + spent.charging
        /\ spent'.charging = 0 /\ resting'.charge = 0 /\ resting'.on = 0
    BY <2>1, <1>t DEF NoResting
  <2>3. Counted' /\ Charging'
    BY <2>1, <2>2, <1>b, <1>n, <1>t DEF Counted, Charging
  <2>4. Capped'
    BY <2>1, <2>2, <1>i, <1>n, <1>t DEF Capped
  <2>5. SameDay'
    BY <2>1, <2>2, <1>m, <1>d
  <2> QED
    BY <2>1, <2>3, <2>4, <2>5, <1>k DEF SpendInv
<1>11. ASSUME \/ Refresh \/ Stop \/ ResetRequest \/ UNCHANGED vars
              \/ \E b \in BOOLEAN : SetBypass(b)
              \/ \E f \in {"shares", "usd"}, v \in TradeSizes \cup {None} : SetRuntimeCap(f, v)
       PROVE  SpendInv'
  <2>1. /\ UNCHANGED <<day, store, gate, isLive, resting, today, spent>>
        /\ pc' = pc \/ {pc, pc'} \cap PersistKeys = {}
    BY <1>11, <1>t DEF Refresh, Stop, ResetRequest, SetBypass, SetRuntimeCap, vars
  <2> QED
    BY <2>1, <1>7
<1> QED
  BY <1>1, <1>2, <1>3, <1>4, <1>5, <1>6, <1>8, <1>9, <1>10, <1>11 DEF Next

\* The real buys of one UTC day stay within the bankroll cap and one bump, but for those the
\* process died recording: through stops, restarts, midnights, resets and deaths between any
\* two writes of persist(), as long as no cancel credits another day's charge and the oldest
\* keys are gone (gate.py:416-424, 428-446).
THEOREM SpendStaysWithinCap ==
  ASSUME CountsHold PROVE Spec => []SpendWithinCap
<1>1. CASE BankrollCap > 0
  <2>1. TypeOK /\ RebuildInv /\ SpendInv => SpendWithinCap
    <3> SUFFICES ASSUME TypeOK, RebuildInv, SpendInv PROVE spent.bought <= Cap + spent.lost
      BY DEF SpendWithinCap, Cap
    <3>1. Capped /\ SameDay /\ NoOldKeys /\ Counted /\ today = InForce
      BY DEF SpendInv, RebuildInv
    <3>2. InForce["notional"] <= Cap /\ InForce \in CounterRecords
      BY <3>1, RolledCapped, LoadedCapped DEF InForce, TypeOK, RebuildInv
    <3>3. today["notional"] \in Int /\ Cap \in Int /\ spent.bought \in Int /\ spent.lost \in Int
      BY <3>1, <3>2, NotionalOnly, LimitsAssumption DEF Cap, TypeOK
    <3> QED
      BY <3>1, <3>2, <3>3 DEF Counted
  <2>2. TypeOK /\ PeakDominates /\ RebuildInv /\ [Next]_vars => RebuildInv'
    BY RebuildStep DEF CountsHold
  <2>3. TypeOK /\ RebuildInv /\ RebuildInv' /\ SpendInv /\ [Next]_vars => SpendInv'
    BY SpendStep, <1>1
  <2> QED
    BY <2>1, <2>2, <2>3, SpendInit, RebuildInit, TypeCorrect, PeaksAlwaysDominate, PTL DEF Spec
<1>2. CASE ~(BankrollCap > 0)
  <2>1. SpendWithinCap
    BY <1>2 DEF SpendWithinCap
  <2> QED
    BY <2>1, PTL
<1> QED
  BY <1>1, <1>2

-----------------------------------------------------------------------------
(* The operator's reset.                                                    *)

\* The keys the reset has written when it is about to write k.
Cleared(k) ==
  CASE k = "paper_pnl"  -> {"live_pnl"}
    [] k = "live_peak"  -> {"live_pnl", "paper_pnl"}
    [] k = "paper_peak" -> {"live_pnl", "paper_pnl", "live_peak"}
    [] OTHER            -> {}
ResetInv == \A k \in Cleared(op) : store[k] = 0

LEMMA ResetStepKeeps ==
  ASSUME TypeOK, RebuildInv, ResetInv, [Next]_vars PROVE ResetInv'
<1>t. store \in Stores
  BY DEF TypeOK, Stores
<1>a. op # "idle" => pc = "down"
  BY DEF RebuildInv, ResetAlone
<1>1. CASE ResetStep
  <2>1. op # "idle" /\ store' = [store EXCEPT ![op] = 0] /\ op' = AfterReset[op]
    BY <1>1 DEF ResetStep
  <2>2. op \in {"live_pnl", "paper_pnl", "live_peak", "paper_peak"}
    BY <2>1 DEF TypeOK
  <2>3. \A k \in Cleared(op) \cup {op} : store'[k] = 0
    BY <2>1, <2>2, <1>t DEF ResetInv, Stores, Keys, PersistKeys, Counters, Cleared
  <2>4. Cleared(op') \subseteq Cleared(op) \cup {op}
    BY <2>1, <2>2 DEF AfterReset, Cleared
  <2> QED
    BY <2>3, <2>4 DEF ResetInv
<1>2. ASSUME op' \in {"idle", "live_pnl"} PROVE ResetInv'
  BY <1>2 DEF ResetInv, Cleared
<1>3. ASSUME UNCHANGED <<store, op>> PROVE ResetInv'
  BY <1>3 DEF ResetInv
\* Only a running loop persists, and only a stopped bot is reset.
<1>4. CASE PersistStep
  BY <1>4, <1>a, <1>2 DEF PersistStep, PersistKeys, Counters
<1>5. CASE ResetRequest \/ Crash
  BY <1>5, <1>2 DEF ResetRequest, Crash
<1>6. ASSUME \/ Refresh \/ EndTick \/ Stop \/ NextDay \/ UNCHANGED vars
             \/ \E live \in Modes : Start(live)
             \/ \E p \in Pnls, closes \in BOOLEAN : RecordRealizedPnl(p, closes)
             \/ \E req \in Requests, bump \in 0 .. BumpMax : Enter(req, bump)
             \/ \E x \in 1 .. resting.charge : Credit(x)
             \/ \E b \in BOOLEAN : SetBypass(b)
             \/ \E f \in {"shares", "usd"}, v \in TradeSizes \cup {None} : SetRuntimeCap(f, v)
      PROVE  UNCHANGED <<store, op>>
  BY <1>6 DEF Refresh, EndTick, Stop, NextDay, vars, Start, RecordRealizedPnl, Enter, Credit,
     SetBypass, SetRuntimeCap
<1> QED
  BY <1>1, <1>3, <1>4, <1>5, <1>6 DEF Next

\* The reset, once through its four writes, leaves neither leg at its floor and the
\* bankroll counter as it was, whatever the store held (gate.py:476-487).
THEOREM ResetAlwaysClears ==
  ASSUME Operator # "impatient" PROVE Spec => ResetClearsHalt
<1> DEFINE Clears == ResetStep /\ op' = "idle" /\ pc = "down"
                       => /\ \A live \in BOOLEAN : ~AtFloor(InForce', live)
                          /\ InForce'["notional"] = InForce["notional"]
<1>1. TypeOK /\ RebuildInv /\ ResetInv /\ [Next]_vars => Clears
  <2> SUFFICES ASSUME TypeOK, RebuildInv, ResetInv, [Next]_vars,
                      ResetStep, op' = "idle", pc = "down"
               PROVE  /\ \A live \in BOOLEAN : ~AtFloor(InForce', live)
                      /\ InForce'["notional"] = InForce["notional"]
    OBVIOUS
  <2>t. day \in Nat /\ store \in Stores
    BY DEF TypeOK, Stores
  <2>2. op = "paper_peak" /\ store' = [store EXCEPT !["paper_peak"] = 0] /\ UNCHANGED <<day, pc>>
    <3>1. op \in {"live_pnl", "paper_pnl", "live_peak", "paper_peak"} /\ AfterReset[op] = "idle"
      BY DEF TypeOK, ResetStep
    <3>2. op = "paper_peak"
      BY <3>1 DEF AfterReset
    <3> QED
      BY <3>2 DEF ResetStep
  <2>3. /\ \A k \in {"live_pnl", "paper_pnl", "live_peak"} : store[k] = 0
        /\ \A k \in {"live_pnl", "paper_pnl", "live_peak", "paper_peak"} : store'[k] = 0
        /\ \A k \in {"date", "notional"} : store'[k] = store[k]
        /\ store' \in Stores
    BY <2>2, <2>t DEF ResetInv, Cleared, Stores, Keys, PersistKeys, Counters
  <2>4. InForce' = Loaded(store') /\ InForce = Loaded(store)
    BY <2>2 DEF InForce, Loaded
  <2>5. 0 # None /\ Num(0) = 0 /\ Larger(Larger(0, 0), 0) = 0
    BY NoneAssumption DEF Num, Larger
  <2>6. ASSUME NEW s \in Stores, s["live_pnl"] = 0
        PROVE  LadderDate(s) = s["date"] /\ LadderLive(s) = 0 /\ LadderNotional(s) = Num(s["notional"])
    BY <2>5, <2>6 DEF LadderDate, LadderLive, LadderNotional, FromLegacy, FromCombined, NoSplit
  <2>7. \A k \in Counters \ {"notional"} : Loaded(store')[k] = 0
    BY <2>3, <2>5, <2>6 DEF Loaded, Fresh, PersistKeys, Counters
  <2>8. \A live \in BOOLEAN : ~AtFloor(Loaded(store'), live)
    <3>1. \A live \in BOOLEAN : PnlKey(live) \in Counters \ {"notional"} /\ PeakKey(live) \in Counters \ {"notional"}
      BY DEF PnlKey, PeakKey, Counters
    <3> QED
      BY <3>1, <2>7, LimitsAssumption DEF AtFloor
  <2>9. Loaded(store')["notional"] = Loaded(store)["notional"]
    BY <2>3, <2>6, <2>t DEF Loaded, Fresh, PersistKeys, Counters
  <2> QED
    BY <2>4, <2>8, <2>9
<1>2. Init => ResetInv
  BY DEF Init, ResetInv, Cleared
<1>3. TypeOK /\ RebuildInv /\ ResetInv /\ [Next]_vars => ResetInv'
  BY ResetStepKeeps
<1>4. TypeOK /\ PeakDominates /\ RebuildInv /\ [Next]_vars => RebuildInv'
  BY RebuildStep
<1> HIDE DEF Clears
<1>5. Init /\ [][Next]_vars => [][Clears]_vars
  BY <1>1, <1>2, <1>3, <1>4, RebuildInit, TypeCorrect, PeaksAlwaysDominate, PTL DEF Spec
<1> QED
  BY <1>5 DEF Spec, ResetClearsHalt, Clears

-----------------------------------------------------------------------------
(* A crash inside persist().  The keys are written one by one, so a boot may *)
(* find a store that is part old, part new; what it rebuilds is then shown   *)
(* to be, key by key, the record before or after the change being written.   *)

\* One UTC day, and no keys of the oldest layout.  The date is the first key persist()
\* writes: a crash right after it would date another day's counters today, and load()
\* looks at the oldest keys only while there is no date (gate.py:205, 232-238).
OneDay == Operator # "impatient" /\ LastDay = 0 /\ "legacy" \notin Layouts

\* Only the current day's date is ever stored, and a store without one counts nothing.
Dated ==
  /\ day = 0 /\ gate["date"] = 0 /\ store["date"] \in {None, 0}
  /\ \A k \in {"legacy_date", "legacy_pnl", "legacy_notional"} : store[k] = None
  /\ store["date"] = None => \A k \in Counters \cup {"combined"} : Num(store[k]) = 0

\* What the store says a leg made, and its stored peak.
SaidPnl(live)  == IF live THEN LadderLive(store) ELSE Num(store["paper_pnl"])
SaidPeak(live) == Num(store[PeakKey(live)])

\* While persist() runs, a leg in the store reads either as the record does now ...
AsNow(live) ==
  /\ SaidPnl(live) = today[PnlKey(live)]
  /\ Larger(Larger(0, SaidPnl(live)), SaidPeak(live)) = today[PeakKey(live)]
\* ... or as it did before the change that is being written.
AsBefore(live) ==
  /\ SaidPnl(live) = prev[PnlKey(live)] /\ SaidPeak(live) = prev[PeakKey(live)]
  /\ prev[PeakKey(live)] >= 0 /\ prev[PeakKey(live)] >= prev[PnlKey(live)]
  /\ today[PeakKey(live)] = Larger(prev[PeakKey(live)], today[PnlKey(live)])
Torn ==
  pc \in PersistKeys =>
    /\ \A live \in BOOLEAN : AsNow(live) \/ AsBefore(live)
    /\ Num(store["notional"]) \in {today["notional"], prev["notional"]}
TornInv == Dated /\ Torn

\* Without the oldest layout's keys, only the combined key stands in for a split one.
LEMMA LadderSplit ==
  ASSUME NEW s, \A k \in {"legacy_date", "legacy_pnl", "legacy_notional"} : s[k] = None
  PROVE  /\ LadderDate(s) = s["date"] /\ LadderNotional(s) = Num(s["notional"])
         /\ LadderLive(s) = Num(IF FromCombined(s) THEN s["combined"] ELSE s["live_pnl"])
  BY DEF LadderDate, LadderNotional, LadderLive, FromLegacy, FromCombined, NoSplit

LEMMA SaidTypes ==
  ASSUME TypeOK
  PROVE  /\ \A k \in Keys : Num(store[k]) \in Int
         /\ \A live \in BOOLEAN : SaidPnl(live) \in Int /\ SaidPeak(live) \in Int
         /\ \A k \in PersistKeys : today[k] \in Int /\ prev[k] \in Int /\ gate[k] \in Int
<1>1. \A k \in Keys : Num(store[k]) \in Int
  BY DEF TypeOK, Num
<1>2. LadderLive(store) \in Int
  BY LadderType DEF TypeOK, Stores
<1>3. \A live \in BOOLEAN : PeakKey(live) \in Keys
  BY DEF PeakKey, Keys, PersistKeys, Counters
<1>4. "paper_pnl" \in Keys
  BY DEF Keys, PersistKeys, Counters
<1>5. \A k \in PersistKeys : today[k] \in Int /\ prev[k] \in Int /\ gate[k] \in Int
  BY DEF TypeOK, CounterRecords
<1> QED
  BY <1>1, <1>2, <1>3, <1>4, <1>5 DEF SaidPnl, SaidPeak

\* What a boot rebuilds from a dated store.
LEMMA LoadedSaid ==
  ASSUME TypeOK, Dated
  PROVE  /\ \A live \in BOOLEAN :
              /\ Loaded(store)[PnlKey(live)] = SaidPnl(live)
              /\ Loaded(store)[PeakKey(live)] = Larger(Larger(0, SaidPnl(live)), SaidPeak(live))
         /\ Loaded(store)["notional"] = Num(store["notional"])
<1>1. /\ LadderDate(store) = store["date"] /\ LadderNotional(store) = Num(store["notional"])
      /\ LadderLive(store) = Num(IF FromCombined(store) THEN store["combined"] ELSE store["live_pnl"])
  BY LadderSplit DEF Dated
<1>2. CASE store["date"] = None
  <2>1. \A k \in Counters : Num(store[k]) = 0
    BY <1>2 DEF Dated
  <2>2. LadderLive(store) = 0
    BY <1>1, <1>2 DEF Dated, Counters
  <2>3. \A k \in Counters : Loaded(store)[k] = 0
    BY <1>1, <1>2, NoneAssumption DEF Dated, Loaded, Fresh, PersistKeys, Counters
  <2>4. Larger(Larger(0, 0), 0) = 0
    BY DEF Larger
  <2> QED
    BY <2>1, <2>2, <2>3, <2>4 DEF SaidPnl, SaidPeak, PnlKey, PeakKey, Counters
<1>3. CASE store["date"] = 0
  <2> DEFINE L == LadderLive(store)
             P == Num(store["paper_pnl"])
             lp == Larger(Larger(0, L), Num(store["live_peak"]))
             pp == Larger(Larger(0, P), Num(store["paper_peak"]))
  <2>1. Loaded(store) = [Fresh(day) EXCEPT !["live_pnl"] = L, !["paper_pnl"] = P,
                           !["live_peak"] = lp, !["paper_peak"] = pp,
                           !["notional"] = Num(store["notional"])]
    BY <1>1, <1>3 DEF Dated, Loaded
  <2> HIDE DEF L, P, lp, pp
  <2>2. /\ Loaded(store)["live_pnl"] = L /\ Loaded(store)["paper_pnl"] = P
        /\ Loaded(store)["live_peak"] = lp /\ Loaded(store)["paper_peak"] = pp
        /\ Loaded(store)["notional"] = Num(store["notional"])
    BY <2>1 DEF Fresh, PersistKeys, Counters
  <2> QED
    BY <2>2 DEF L, P, lp, pp, SaidPnl, SaidPeak, PnlKey, PeakKey
<1> QED
  BY <1>2, <1>3 DEF Dated

\* A leg of which either holds is rebuilt as it was before or after the change.
LEMMA LegBeforeOrAfter ==
  ASSUME TypeOK, Dated, NEW live \in BOOLEAN, AsNow(live) \/ AsBefore(live)
  PROVE  /\ Loaded(store)[PnlKey(live)] \in {today[PnlKey(live)], prev[PnlKey(live)]}
         /\ Loaded(store)[PeakKey(live)] \in {today[PeakKey(live)], prev[PeakKey(live)]}
<1>1. /\ Loaded(store)[PnlKey(live)] = SaidPnl(live)
      /\ Loaded(store)[PeakKey(live)] = Larger(Larger(0, SaidPnl(live)), SaidPeak(live))
  BY LoadedSaid
<1>2. CASE AsNow(live)
  BY <1>1, <1>2 DEF AsNow
<1>3. CASE AsBefore(live)
  <2> DEFINE q == prev[PnlKey(live)]
             m == prev[PeakKey(live)]
  <2>1. q \in Int /\ m \in Int
    BY SaidTypes DEF PnlKey, PeakKey, PersistKeys, Counters
  <2>2. SaidPnl(live) = q /\ SaidPeak(live) = m /\ m >= 0 /\ m >= q
    BY <1>3 DEF AsBefore
  <2> HIDE DEF q, m
  <2>3. Larger(Larger(0, q), m) = m
    BY <2>1, <2>2 DEF Larger
  <2> QED
    BY <1>1, <2>2, <2>3 DEF q, m
<1> QED
  BY <1>2, <1>3

\* A leg that already says its new PnL reads as the record does now: the stored peak
\* may still be the old one, but load() raises it to the PnL.
LEMMA PnlWritten ==
  ASSUME NEW q \in Int, NEW m \in Int, NEW n \in Int, m >= 0, n = Larger(m, q)
  PROVE  Larger(Larger(0, q), m) = n
  BY DEF Larger

LEMMA DatedKept ==
  ASSUME TypeOK, RebuildInv, Dated, OneDay, [Next]_vars PROVE Dated'
<1>t. /\ day \in Nat /\ store \in Stores /\ gate \in CounterRecords /\ isLive \in BOOLEAN
      /\ Rolled(gate)["date"] = day
  BY RolledType DEF TypeOK, Stores
<1>k. \A k \in Counters : k \in PersistKeys /\ k \in Keys
  BY DEF Keys, PersistKeys
<1>1. ASSUME gate'["date"] = 0, UNCHANGED <<day, store>> PROVE Dated'
  BY <1>1 DEF Dated
<1>2. CASE PersistStep
  <2>1. /\ pc \in PersistKeys /\ store' = [store EXCEPT ![pc] = gate[pc]] /\ UNCHANGED <<day, gate>>
    BY <1>2 DEF PersistStep
  <2>2. \A k \in OldKeys : store'[k] = store[k]
    BY <2>1, <1>t DEF Stores, Keys, PersistKeys, OldKeys, Counters
  <2>3. store'["date"] = 0
    <3>1. CASE pc = "date"
      BY <2>1, <3>1, <1>t DEF Dated, Stores, Keys, PersistKeys
    <3>2. CASE pc # "date"
      <4>1. "date" \in Written(pc)
        BY <2>1, <3>2 DEF Written, PersistKeys, Counters
      <4>2. store["date"] = gate["date"]
        BY <4>1, <2>1 DEF RebuildInv, Saved
      <4> QED
        BY <2>1, <3>2, <4>2, <1>t DEF Dated, Stores, Keys, PersistKeys
    <3> QED
      BY <3>1, <3>2
  <2> QED
    BY <2>1, <2>2, <2>3, NoneAssumption DEF Dated, OldKeys
<1>3. CASE ResetStep
  <2>1. op # "idle" /\ store' = [store EXCEPT ![op] = 0] /\ UNCHANGED <<day, gate>>
    BY <1>3 DEF ResetStep
  <2>2. op \in Counters
    BY <2>1 DEF TypeOK, Counters
  <2>3. /\ \A k \in OldKeys \cup {"date"} : store'[k] = store[k]
        /\ \A k \in Counters : store'[k] \in {store[k], 0}
    BY <2>1, <2>2, <1>t DEF Stores, Keys, PersistKeys, OldKeys, Counters
  <2>4. Num(0) = 0
    BY DEF Num
  <2> QED
    BY <2>1, <2>3, <2>4 DEF Dated, OldKeys
<1>4. CASE NextDay
  BY <1>4, <1>t DEF NextDay, OneDay
<1>5. CASE EndTick
  BY <1>5, <1>1, <1>t DEF EndTick, Dated
<1>6. ASSUME NEW live \in Modes, Start(live) PROVE Dated'
  <2>1. Loaded(store)["date"] = day
    BY <1>t, DatedToday
  <2> QED
    BY <1>6, <2>1, <1>1 DEF Start, Dated
<1>7. ASSUME NEW p \in Pnls, NEW closes \in BOOLEAN, RecordRealizedPnl(p, closes) PROVE Dated'
  <2>1. WithPnl(Rolled(gate), isLive, p)["date"] = day
    BY <1>t, DatedToday, InputsAssumption
  <2> QED
    BY <1>7, <2>1, <1>1 DEF RecordRealizedPnl, Dated
<1>8. ASSUME NEW req \in Requests, NEW bump \in 0 .. BumpMax, Enter(req, bump) PROVE Dated'
  <2>1. req.notional + bump \in Int
    <3>1. req.notional \in Int
      BY InputsAssumption DEF Requests
    <3>2. bump \in Int
      BY LimitsAssumption
    <3> QED
      BY <3>1, <3>2
  <2>2. WithNotional(Rolled(gate), req.notional + bump)["date"] = day
    BY <1>t, <2>1, DatedToday
  <2> QED
    BY <1>8, <2>2, <1>1 DEF Enter, Dated
<1>9. ASSUME NEW x \in 1 .. resting.charge, Credit(x) PROVE Dated'
  <2>1. -x \in Int
    BY DEF TypeOK
  <2>2. WithNotional(Rolled(gate), -x)["date"] = day
    BY <1>t, <2>1, DatedToday
  <2> QED
    BY <1>9, <2>2, <1>1 DEF Credit, Dated
<1>10. ASSUME \/ Refresh \/ Stop \/ ResetRequest \/ Crash \/ UNCHANGED vars
              \/ \E b \in BOOLEAN : SetBypass(b)
              \/ \E f \in {"shares", "usd"}, v \in TradeSizes \cup {None} : SetRuntimeCap(f, v)
       PROVE  UNCHANGED <<day, store, gate>>
  BY <1>10 DEF Refresh, Stop, ResetRequest, Crash, SetBypass, SetRuntimeCap, vars
<1> QED
  BY <1>1, <1>2, <1>3, <1>4, <1>5, <1>6, <1>7, <1>8, <1>9, <1>10 DEF Next, Dated

\* One write of persist() moves one reading to the gate's value and no other.
LEMMA SaidAfterWrite ==
  ASSUME TypeOK, RebuildInv, Dated, Dated', PersistStep, NEW live \in BOOLEAN
  PROVE  /\ SaidPnl(live)' = IF pc = PnlKey(live) THEN gate[pc] ELSE SaidPnl(live)
         /\ SaidPeak(live)' = IF pc = PeakKey(live) THEN gate[pc] ELSE SaidPeak(live)
         /\ pc # "notional" => store'["notional"] = store["notional"]
<1>1. /\ pc \in PersistKeys /\ store \in [Keys -> Int \cup {None}]
      /\ store' = [store EXCEPT ![pc] = gate[pc]] /\ gate[pc] \in Int
  BY DEF PersistStep, TypeOK, CounterRecords
<1>2. /\ pc \in Keys
      /\ \A k \in Keys : store'[k] = IF k = pc THEN gate[pc] ELSE store[k]
  BY <1>1 DEF Keys
<1>3. gate[pc] # None /\ Num(gate[pc]) = gate[pc]
  BY <1>1, NoneAssumption DEF Num
<1>4. "live_pnl" \in Keys /\ "paper_pnl" \in Keys /\ "combined" \in Keys /\ "notional" \in Keys
      /\ "live_peak" \in Keys /\ "paper_peak" \in Keys
  BY DEF Keys, PersistKeys, Counters, OldKeys
<1>5. /\ LadderLive(store) = Num(IF FromCombined(store) THEN store["combined"] ELSE store["live_pnl"])
      /\ LadderLive(store') = Num(IF FromCombined(store') THEN store'["combined"] ELSE store'["live_pnl"])
  BY LadderSplit DEF Dated
<1>6. pc \notin {"date", "live_pnl"} => store["live_pnl"] # None
  <2>1. pc \notin {"date", "live_pnl"} => "live_pnl" \in Written(pc)
    BY <1>1 DEF Written, PersistKeys, Counters
  <2>2. "live_pnl" \in Written(pc) => store["live_pnl"] = gate["live_pnl"] /\ gate["live_pnl"] \in Int
    BY <1>1 DEF RebuildInv, Saved, TypeOK, CounterRecords, PersistKeys, Counters
  <2> QED
    BY <2>1, <2>2, NoneAssumption
<1>7. LadderLive(store') = IF pc = "live_pnl" THEN gate[pc] ELSE LadderLive(store)
  <2>1. CASE pc = "live_pnl"
    BY <2>1, <1>2, <1>3, <1>4, <1>5 DEF FromCombined, NoSplit
  <2>2. CASE pc = "date"
    BY <2>2, <1>2, <1>4, <1>5 DEF FromCombined, NoSplit
  <2>3. CASE pc \notin {"date", "live_pnl"}
    BY <2>3, <1>2, <1>4, <1>5, <1>6 DEF FromCombined, NoSplit
  <2> QED
    BY <2>1, <2>2, <2>3
<1>8. /\ Num(store'["paper_pnl"]) = IF pc = "paper_pnl" THEN gate[pc] ELSE Num(store["paper_pnl"])
      /\ Num(store'["live_peak"]) = IF pc = "live_peak" THEN gate[pc] ELSE Num(store["live_peak"])
      /\ Num(store'["paper_peak"]) = IF pc = "paper_peak" THEN gate[pc] ELSE Num(store["paper_peak"])
  BY <1>2, <1>3, <1>4
<1>9. SaidPnl(live)' = (IF live THEN LadderLive(store') ELSE Num(store'["paper_pnl"]))
      /\ SaidPeak(live)' = Num(store'[PeakKey(live)])
  BY DEF SaidPnl, SaidPeak
<1>10. pc # "notional" => store'["notional"] = store["notional"]
  BY <1>2, <1>4
<1> QED
  BY <1>7, <1>8, <1>9, <1>10 DEF SaidPnl, SaidPeak, PnlKey, PeakKey

LEMMA LegWritten ==
  ASSUME TypeOK, PeakDominates, RebuildInv, Dated, Dated', PersistStep,
         NEW live \in BOOLEAN, AsNow(live) \/ AsBefore(live)
  PROVE  AsNow(live)' \/ AsBefore(live)'
<1> DEFINE q == today[PnlKey(live)]
           m == today[PeakKey(live)]
<1>1. pc \in PersistKeys /\ pc # "down" /\ UNCHANGED <<today, prev>>
  BY DEF PersistStep, PersistKeys, Counters
<1>2. today = gate /\ Dominated(gate)
  BY <1>1 DEF RebuildInv, InForce, Rolled, Dated, PeakDominates
<1>3. q \in Int /\ m \in Int /\ m >= 0 /\ m >= q
  BY <1>2, SaidTypes DEF Dominated, PnlKey, PeakKey, PersistKeys, Counters
<1>4. /\ SaidPnl(live)' = IF pc = PnlKey(live) THEN gate[pc] ELSE SaidPnl(live)
      /\ SaidPeak(live)' = IF pc = PeakKey(live) THEN gate[pc] ELSE SaidPeak(live)
  BY SaidAfterWrite
<1>5. PnlKey(live) # PeakKey(live)
  BY DEF PnlKey, PeakKey
<1>6. CASE pc = PnlKey(live)
  <2>1. SaidPnl(live)' = q /\ SaidPeak(live)' = SaidPeak(live)
    BY <1>2, <1>4, <1>5, <1>6
  <2>2. Larger(Larger(0, q), SaidPeak(live)) = m
    <3>1. CASE AsNow(live)
      BY <3>1 DEF AsNow
    <3>2. CASE AsBefore(live)
      <4>1. SaidPeak(live) >= 0 /\ m = Larger(SaidPeak(live), q) /\ SaidPeak(live) \in Int
        BY <3>2, SaidTypes DEF AsBefore
      <4> QED
        BY <4>1, <1>3, PnlWritten
    <3> QED
      BY <3>1, <3>2
  <2> QED
    BY <1>1, <2>1, <2>2 DEF AsNow
<1>7. CASE pc = PeakKey(live)
  <2>1. SaidPnl(live)' = SaidPnl(live) /\ SaidPeak(live)' = m
    BY <1>2, <1>4, <1>5, <1>7
  <2>2. SaidPnl(live) = q
    <3>1. PnlKey(live) \in Written(pc)
      BY <1>7 DEF Written, PnlKey, PeakKey
    <3>2. store[PnlKey(live)] = q /\ q # None
      BY <3>1, <1>1, <1>2, <1>3, NoneAssumption DEF RebuildInv, Saved
    <3>3. LadderLive(store) = Num(IF FromCombined(store) THEN store["combined"] ELSE store["live_pnl"])
      BY LadderSplit DEF Dated
    <3> QED
      BY <3>2, <3>3 DEF SaidPnl, PnlKey, FromCombined, NoSplit, Num
  <2>3. Larger(Larger(0, q), m) = m
    BY <1>3 DEF Larger
  <2> QED
    BY <1>1, <2>1, <2>2, <2>3 DEF AsNow
<1>8. CASE pc # PnlKey(live) /\ pc # PeakKey(live)
  BY <1>1, <1>4, <1>8 DEF AsNow, AsBefore
<1> QED
  BY <1>6, <1>7, <1>8

\* A change is about to be written, over a store that holds the record before it.
LEMMA ChangeStarts ==
  ASSUME TypeOK, RebuildInv, Dated, pc = "idle", prev' = today, store' = store,
         NEW live \in BOOLEAN,
         \/ today'[PeakKey(live)] = Larger(today[PeakKey(live)], today'[PnlKey(live)])
         \/ /\ today'[PnlKey(live)] = today[PnlKey(live)]
            /\ today'[PeakKey(live)] = today[PeakKey(live)]
  PROVE  AsBefore(live)' /\ Num(store'["notional"]) = prev'["notional"]
<1>1. /\ Mirror \in CounterRecords /\ Dominated(Mirror) /\ Rolled(Mirror) = Rolled(gate)
      /\ today = Rolled(gate)
  BY DEF RebuildInv, Saved, InForce
<1>2. \A k \in PersistKeys : store[k] = Mirror[k] /\ store[k] \in Int
  BY <1>1 DEF Mirror, CounterRecords
<1>3. Mirror["date"] = day
  BY <1>2, NoneAssumption DEF Dated, PersistKeys
<1>4. today = Mirror
  BY <1>1, <1>3 DEF Rolled
<1>5. \A k \in PersistKeys : store[k] # None /\ Num(store[k]) = today[k]
  BY <1>2, <1>4, NoneAssumption DEF Num
<1>6. "live_pnl" \in PersistKeys /\ "paper_pnl" \in PersistKeys /\ "notional" \in PersistKeys
      /\ PnlKey(live) \in PersistKeys /\ PeakKey(live) \in PersistKeys
  BY DEF PersistKeys, Counters, PnlKey, PeakKey
<1>7. LadderLive(store) = today["live_pnl"]
  <2>1. LadderLive(store) = Num(IF FromCombined(store) THEN store["combined"] ELSE store["live_pnl"])
    BY LadderSplit DEF Dated
  <2> QED
    BY <2>1, <1>5, <1>6 DEF FromCombined, NoSplit
<1>8. SaidPnl(live) = today[PnlKey(live)] /\ SaidPeak(live) = today[PeakKey(live)]
  BY <1>5, <1>6, <1>7 DEF SaidPnl, SaidPeak, PnlKey
<1>9. SaidPnl(live)' = SaidPnl(live) /\ SaidPeak(live)' = SaidPeak(live)
  BY DEF SaidPnl, SaidPeak, LadderLive, FromCombined, FromLegacy, NoSplit
<1>10. today[PeakKey(live)] >= 0 /\ today[PeakKey(live)] >= today[PnlKey(live)]
       /\ today[PeakKey(live)] \in Int /\ today[PnlKey(live)] \in Int
  BY <1>1, <1>4, <1>6, SaidTypes DEF Dominated
<1>11. today'[PeakKey(live)] = Larger(today[PeakKey(live)], today'[PnlKey(live)])
  BY <1>10 DEF Larger
<1> QED
  BY <1>5, <1>6, <1>8, <1>9, <1>10, <1>11 DEF AsBefore

\* What a realized amount or a charge does to each leg of the record.
LEMMA LegsMove ==
  ASSUME NEW c \in CounterRecords, NEW live \in BOOLEAN, NEW leg \in BOOLEAN, NEW n \in Int
  PROVE  /\ LET w == WithPnl(c, live, n)
            IN \/ w[PeakKey(leg)] = Larger(c[PeakKey(leg)], w[PnlKey(leg)])
               \/ w[PnlKey(leg)] = c[PnlKey(leg)] /\ w[PeakKey(leg)] = c[PeakKey(leg)]
         /\ WithNotional(c, n)[PnlKey(leg)] = c[PnlKey(leg)]
         /\ WithNotional(c, n)[PeakKey(leg)] = c[PeakKey(leg)]
<1>1. CASE leg = live
  BY <1>1 DEF WithPnl, WithNotional, CounterRecords, PersistKeys, Counters, PnlKey, PeakKey
<1>2. CASE leg # live
  BY <1>2 DEF WithPnl, WithNotional, CounterRecords, PersistKeys, Counters, PnlKey, PeakKey
<1> QED
  BY <1>1, <1>2

LEMMA TornStep ==
  ASSUME OneDay, TypeOK, PeakDominates, RebuildInv, TornInv, [Next]_vars PROVE TornInv'
<1>d. Dated /\ Torn
  BY DEF TornInv
<1>e. Dated'
  BY <1>d, DatedKept
<1>t. today \in CounterRecords /\ isLive \in BOOLEAN /\ "idle" \notin PersistKeys /\ "down" \notin PersistKeys
  BY DEF TypeOK, PersistKeys, Counters
<1>n. pc' \in {"idle", "down"} => Torn'
  BY DEF Torn, PersistKeys, Counters
<1>1. ASSUME NEW live \in Modes, Start(live) PROVE Torn'
  <2>1. today = Loaded(store) /\ UNCHANGED <<store, today>>
    BY <1>1, <1>t DEF Start, RebuildInv, InForce
  <2>2. ASSUME NEW leg \in BOOLEAN PROVE AsNow(leg)'
    <3>1. AsNow(leg)
      BY <1>d, <2>1, LoadedSaid DEF AsNow
    <3> QED
      BY <3>1, <2>1 DEF AsNow, SaidPnl, SaidPeak, LadderLive, FromCombined, FromLegacy, NoSplit
  <2>3. Num(store'["notional"]) = today'["notional"]
    BY <1>d, <2>1, LoadedSaid
  <2> QED
    BY <2>2, <2>3 DEF Torn
<1>2. ASSUME PersistStep PROVE Torn'
  <2>1. pc \in PersistKeys /\ pc' = AfterWrite[pc] /\ UNCHANGED <<today, prev>>
    BY <1>2 DEF PersistStep
  <2>2. \A live \in BOOLEAN : AsNow(live)' \/ AsBefore(live)'
    BY <1>2, <1>d, <1>e, <2>1, LegWritten DEF Torn
  <2>3. ASSUME pc = "notional" PROVE Torn'
    <3>1. pc' = "idle"
      BY <2>1, <2>3 DEF AfterWrite
    <3> QED
      BY <3>1, <1>n
  <2>4. ASSUME pc # "notional" PROVE Torn'
    <3>1. store'["notional"] = store["notional"]
      BY <1>2, <1>d, <1>e, <2>4, SaidAfterWrite
    <3>2. Num(store'["notional"]) \in {today'["notional"], prev'["notional"]}
      BY <3>1, <2>1, <1>d DEF Torn
    <3> QED
      BY <3>2, <2>2 DEF Torn
  <2> QED
    BY <2>3, <2>4
<1>3. ASSUME NEW p \in Pnls, NEW closes \in BOOLEAN, RecordRealizedPnl(p, closes) PROVE Torn'
  <2>1. pc = "idle" /\ prev' = today /\ store' = store /\ today' = WithPnl(today, isLive, p)
    BY <1>3 DEF RecordRealizedPnl
  <2>2. p \in Int
    BY InputsAssumption
  <2>3. ASSUME NEW leg \in BOOLEAN PROVE AsBefore(leg)' /\ Num(store'["notional"]) = prev'["notional"]
    BY <2>1, <2>2, <1>d, <1>t, LegsMove, ChangeStarts
  <2> QED
    BY <2>3 DEF Torn
<1>4. ASSUME NEW n \in Int, pc = "idle", prev' = today, store' = store, today' = WithNotional(today, n)
      PROVE  Torn'
  <2>1. ASSUME NEW leg \in BOOLEAN PROVE AsBefore(leg)' /\ Num(store'["notional"]) = prev'["notional"]
    BY <1>4, <1>d, <1>t, LegsMove, ChangeStarts
  <2> QED
    BY <2>1 DEF Torn
<1>5. ASSUME NEW req \in Requests, NEW bump \in 0 .. BumpMax, Enter(req, bump) PROVE Torn'
  <2>1. req.notional + bump \in Int
    <3>1. req.notional \in Int
      BY InputsAssumption DEF Requests
    <3>2. bump \in Int
      BY LimitsAssumption
    <3> QED
      BY <3>1, <3>2
  <2>2. pc = "idle" /\ prev' = today /\ store' = store /\ today' = WithNotional(today, req.notional + bump)
    BY <1>5 DEF Enter
  <2> QED
    BY <2>1, <2>2, <1>4
<1>6. ASSUME NEW x \in 1 .. resting.charge, Credit(x) PROVE Torn'
  <2>1. -x \in Int
    BY DEF TypeOK
  <2>2. pc = "idle" /\ prev' = today /\ store' = store /\ today' = WithNotional(today, -x)
    BY <1>6 DEF Credit
  <2> QED
    BY <2>1, <2>2, <1>4
<1>7. ASSUME ResetStep PROVE Torn'
  BY <1>7, <1>n DEF ResetStep, RebuildInv, ResetAlone
<1>8. ASSUME NextDay PROVE Torn'
  BY <1>8, <1>d DEF NextDay, OneDay, Dated
<1>9. ASSUME Refresh \/ EndTick \/ Stop \/ ResetRequest \/ Crash PROVE Torn'
  BY <1>9, <1>n DEF Refresh, EndTick, Stop, ResetRequest, Crash
<1>10. ASSUME \/ UNCHANGED vars
              \/ \E b \in BOOLEAN : SetBypass(b)
              \/ \E f \in {"shares", "usd"}, v \in TradeSizes \cup {None} : SetRuntimeCap(f, v)
       PROVE  Torn'
  <2>1. UNCHANGED <<store, pc, today, prev>>
    BY <1>10 DEF SetBypass, SetRuntimeCap, vars
  <2> QED
    BY <2>1, <1>d DEF Torn, AsNow, AsBefore, SaidPnl, SaidPeak, LadderLive, FromCombined,
       FromLegacy, NoSplit
<1> QED
  BY <1>e, <1>1, <1>2, <1>3, <1>5, <1>6, <1>7, <1>8, <1>9, <1>10 DEF Next, TornInv

LEMMA TornInit == ASSUME OneDay PROVE Init => TornInv
<1> SUFFICES ASSUME Init PROVE TornInv
  OBVIOUS
<1>1. PICK l \in Layouts, pnl \in {0} \cup Pnls, n \in {0, BankrollCap} :
        store = Layout(l, 0, pnl, n)
  BY DEF Init
<1>2. l \in {"fresh", "split", "unpeaked", "combined"}
  BY <1>1, InputsAssumption DEF OneDay
<1>3. /\ store["date"] \in {None, 0}
      /\ \A k \in {"legacy_date", "legacy_pnl", "legacy_notional"} : store[k] = None
      /\ l # "fresh" => store["date"] = 0
      /\ l = "fresh" => store = NoKeys
  BY <1>1, <1>2 DEF Layout, NoKeys, Keys, PersistKeys, Counters, OldKeys
<1>4. store["date"] = None => \A k \in Counters \cup {"combined"} : Num(store[k]) = 0
  BY <1>3, NoneAssumption DEF NoKeys, Keys, PersistKeys, Counters, OldKeys, Num
<1> QED
  BY <1>3, <1>4 DEF Init, TornInv, Dated, Torn, Fresh, PersistKeys, Counters

\* Within one UTC day a crash anywhere, between any two writes of persist() too, loses
\* at most the latest change of each counter, and no counter ever reads as something it
\* never was (gate.py:232-238).
THEOREM CrashLosesOneChange == ASSUME OneDay PROVE Spec => CrashLosesAtMostOne
<1> DEFINE OneLost == pc # "down" /\ pc' = "down" /\ day' = day
                        => \A k \in Counters : Loaded(store)[k] \in {today[k], prev[k]}
<1>1. TypeOK /\ RebuildInv /\ TornInv => OneLost
  <2> SUFFICES ASSUME TypeOK, RebuildInv, TornInv, pc # "down", NEW k \in Counters
               PROVE  Loaded(store)[k] \in {today[k], prev[k]}
    OBVIOUS
  <2>1. CASE pc = "idle"
    <3>1. Mirror \in CounterRecords /\ Dominated(Mirror) /\ Rolled(Mirror) = Rolled(gate)
      BY <2>1 DEF RebuildInv, Saved
    <3>2. Loaded(store) = today
      BY <2>1, <3>1, LoadedMirror DEF RebuildInv, InForce, TypeOK, Stores
    <3> QED
      BY <3>2
  <2>2. CASE pc \in PersistKeys
    <3>1. \A live \in BOOLEAN : AsNow(live) \/ AsBefore(live)
      BY <2>2 DEF TornInv, Torn
    <3>2. /\ \A live \in BOOLEAN :
               /\ Loaded(store)[PnlKey(live)] \in {today[PnlKey(live)], prev[PnlKey(live)]}
               /\ Loaded(store)[PeakKey(live)] \in {today[PeakKey(live)], prev[PeakKey(live)]}
          /\ Loaded(store)["notional"] \in {today["notional"], prev["notional"]}
      BY <2>2, <3>1, LegBeforeOrAfter, LoadedSaid DEF TornInv, Torn
    <3>3. k = "notional" \/ \E live \in BOOLEAN : k \in {PnlKey(live), PeakKey(live)}
      BY DEF Counters, PnlKey, PeakKey
    <3> QED
      BY <3>2, <3>3
  <2> QED
    BY <2>1, <2>2 DEF TypeOK
<1>2. TypeOK /\ PeakDominates /\ RebuildInv /\ [Next]_vars => RebuildInv'
  BY RebuildStep DEF OneDay
<1>3. TypeOK /\ PeakDominates /\ RebuildInv /\ TornInv /\ [Next]_vars => TornInv'
  BY TornStep
<1> HIDE DEF OneLost
<1>4. Init /\ [][Next]_vars => [][OneLost]_vars
  BY <1>1, <1>2, <1>3, TornInit, RebuildInit, TypeCorrect, PeaksAlwaysDominate, PTL DEF Spec
<1> QED
  BY <1>4 DEF Spec, CrashLosesAtMostOne, OneLost

=============================================================================
