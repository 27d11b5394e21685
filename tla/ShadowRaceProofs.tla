--------------------------- MODULE ShadowRaceProofs ---------------------------
(***************************************************************************)
(* Proofs about the shadow race: what the ledger holds is typed and priced *)
(* rightly, every model is settled alike and by the final prices, and the  *)
(* ledger is what a replay of the journal says, for any books and levels,  *)
(* any number of windows, ticks and faults, and windows of any length.     *)
(* VerdictsSound is about sums over the ledger and ShadowsResolve about    *)
(* what happens in the end; both stay with the model checker.              *)
(***************************************************************************)
EXTENDS ShadowRace, FiniteSetTheorems, TLAPS

AllWindows == 1..LastWindow + 1
Quoted     == [spot : Nat, book : Books]
Asks       == [Sides -> 1..Unit \cup {None}]
Views      == [left : Int, spot : Nat, ref : Nat, fair : [Sides -> Int],
               ask : Asks, bid : Asks]
Entries    == [window : AllWindows, view : Views, side : Sides \cup {None}]
Steps      == {"idle", "ref", "log", "record", "due", "settle"}
Ticks      == [step : Steps, now : Nat, window : AllWindows, market : Quoted \cup {None}, view : Views \cup {None},
               prev : Levels \cup {None}, reads : 0..MaxReads, due : SUBSET AllWindows]
Watches    == [torn : SUBSET AllWindows, drafted : SUBSET AllWindows, faults : Nat]

-----------------------------------------------------------------------------
(* The loop's choice and the runner's.                                     *)

\* A view with numbers where there are any.
Legible(v) ==
    /\ v = [left |-> v.left, spot |-> v.spot, ref |-> v.ref, fair |-> v.fair, ask |-> v.ask, bid |-> v.bid]
    /\ v.fair \in [Sides -> Int] /\ v.ask \in [Sides -> Int \cup {None}]

LEMMA BuyableIs ==
  ASSUME NEW v, Legible(v)
  PROVE  /\ Buyable(v) = [left |-> v.left, spot |-> v.spot, ref |-> v.ref, fair |-> v.fair,
                          ask |-> [s \in Sides |-> IF s \in Crossed(v) THEN None ELSE v.ask[s]], bid |-> v.bid]
         /\ Buyable(v).left = v.left /\ Buyable(v).fair = v.fair
         /\ Buyable(v).ask = [s \in Sides |-> IF s \in Crossed(v) THEN None ELSE v.ask[s]]
         /\ Legible(Buyable(v))
<1> DEFINE ask == [s \in Sides |-> IF s \in Crossed(v) THEN None ELSE v.ask[s]]
<1>1. ask \in [Sides -> Int \cup {None}]
  BY DEF Legible
<1>2. Buyable(v) = [v EXCEPT !.ask = ask]
  BY DEF Buyable
<1> HIDE DEF ask
<1>3. Buyable(v) = [left |-> v.left, spot |-> v.spot, ref |-> v.ref, fair |-> v.fair, ask |-> ask, bid |-> v.bid]
  BY <1>2 DEF Legible
<1> QED
  BY <1>1, <1>3 DEF Legible, ask

\* v0 chooses a side that has an ask, and none has a larger edge.
LEMMA ChosenBest ==
  ASSUME NEW v, Legible(v), Candidates(v) # {}
  PROVE  /\ Chosen(v) \in Candidates(v) /\ Candidates(v) \subseteq Sides
         /\ \A s \in Candidates(v) : Edge(v, s) \in Int /\ Edge(v, s) <= Edge(v, Chosen(v))
<1>1. Candidates(v) \subseteq Sides /\ Sides = {"Up", "Down"}
  BY DEF Candidates, Sides
<1>2. \A s \in Candidates(v) : v.ask[s] \in Int /\ v.fair[s] \in Int
  BY DEF Candidates, Legible
<1>3. \A s \in Candidates(v) : Edge(v, s) \in Int
  BY <1>2 DEF Edge
<1>4. CASE "Up" \in Candidates(v) /\ \A s \in Candidates(v) : Edge(v, s) <= Edge(v, "Up")
  BY <1>1, <1>3, <1>4 DEF Chosen
<1>5. CASE ~("Up" \in Candidates(v) /\ \A s \in Candidates(v) : Edge(v, s) <= Edge(v, "Up"))
  <2>1. Chosen(v) = "Down"
    BY <1>5 DEF Chosen
  <2>2. CASE "Up" \in Candidates(v)
    <3>1. PICK s \in Candidates(v) : ~(Edge(v, s) <= Edge(v, "Up"))
      BY <1>5, <2>2
    <3>2. s = "Down"
      BY <1>1, <1>3, <2>2, <3>1
    <3> QED
      BY <1>1, <1>3, <2>1, <2>2, <3>1, <3>2
  <2>3. CASE "Up" \notin Candidates(v)
    BY <1>1, <1>3, <2>1, <2>3
  <2> QED
    BY <2>2, <2>3
<1> QED
  BY <1>4, <1>5

\* A side it chooses of all books, which is no lure, it chooses of those the loop can buy as well.
LEMMA ChosenAlike ==
  ASSUME NEW v, Legible(v), Candidates(v) # {}, Chosen(v) \notin Lures(v)
  PROVE  /\ Candidates(Buyable(v)) # {} /\ Chosen(Buyable(v)) = Chosen(v)
         /\ Buyable(v).ask[Chosen(v)] = v.ask[Chosen(v)]
<1> DEFINE b == Buyable(v)
           c == Chosen(v)
<1>1. /\ b.fair = v.fair /\ Legible(b)
      /\ b.ask = [s \in Sides |-> IF s \in Crossed(v) THEN None ELSE v.ask[s]]
  BY BuyableIs
<1>2. /\ c \in Candidates(v) /\ Candidates(v) \subseteq Sides
      /\ \A s \in Candidates(v) : Edge(v, s) \in Int /\ Edge(v, s) <= Edge(v, c)
  BY ChosenBest
<1>3. c \in Crossed(v) => \E o \in Candidates(b) : ~(Edge(v, o) <= Edge(v, c))
  BY DEF Lures
<1>4. c = "Down" => ~("Up" \in Candidates(v) /\ \A s \in Candidates(v) : Edge(v, s) <= Edge(v, "Up"))
  BY DEF Chosen
<1> HIDE DEF b, c
<1>5. \A s \in Candidates(b) : s \in Candidates(v) /\ b.ask[s] = v.ask[s] /\ Edge(b, s) = Edge(v, s)
  BY <1>1 DEF Candidates, Edge
<1>6. c \notin Crossed(v)
  BY <1>2, <1>3, <1>5
<1>7. c \in Candidates(b) /\ c \in Sides /\ b.ask[c] = v.ask[c]
  BY <1>1, <1>2, <1>6 DEF Candidates
<1>8. ASSUME c = "Up" PROVE Chosen(b) = c
  <2>1. "Up" \in Candidates(b) /\ \A s \in Candidates(b) : Edge(b, s) <= Edge(b, "Up")
    BY <1>2, <1>5, <1>7, <1>8
  <2> QED
    BY <1>8, <2>1 DEF Chosen
<1>9. ASSUME c = "Down" PROVE Chosen(b) = c
  <2>1. ~("Up" \in Candidates(b) /\ \A s \in Candidates(b) : Edge(b, s) <= Edge(b, "Up"))
    <3> SUFFICES ASSUME "Up" \in Candidates(b), \A s \in Candidates(b) : Edge(b, s) <= Edge(b, "Up")
                 PROVE  FALSE
      OBVIOUS
    <3>1. "Up" \in Candidates(v) /\ Edge(v, "Down") <= Edge(v, "Up")
      BY <1>5, <1>7, <1>9
    <3>2. Edge(v, "Up") <= Edge(v, "Up")
      BY <1>2, <3>1
    <3>3. \A s \in Candidates(v) : Edge(v, s) <= Edge(v, "Up")
      BY <1>2, <3>1, <3>2 DEF Sides
    <3> QED
      BY <1>4, <1>9, <3>1, <3>3
  <2> QED
    BY <1>9, <2>1 DEF Chosen
<1>10. Candidates(b) # {} /\ Chosen(b) = c /\ b.ask[c] = v.ask[c]
  BY <1>7, <1>8, <1>9 DEF Sides
<1> QED
  BY <1>10 DEF b, c

\* So without a lure v0 says the same of the books the loop can buy and of all.
LEMMA SameChoice ==
  ASSUME NEW v, Legible(v), Lures(v) = {}
  PROVE  FairValueV0(v, Params) = FairValueV0(Buyable(v), Params)
<1> DEFINE b == Buyable(v)
           c == Chosen(v)
<1>1. CASE Candidates(v) = {}
  <2>1. b.ask = [s \in Sides |-> IF s \in Crossed(v) THEN None ELSE v.ask[s]]
    BY BuyableIs
  <2>2. Candidates(b) = {}
    BY <1>1, <2>1 DEF Candidates
  <2> QED
    BY <1>1, <2>2 DEF FairValueV0
<1>2. CASE Candidates(v) # {}
  <2>1. Candidates(b) # {} /\ Chosen(b) = c /\ b.ask[c] = v.ask[c]
    BY <1>2, ChosenAlike
  <2>2. b.left = v.left /\ b.fair = v.fair
    BY BuyableIs
  <2> HIDE DEF b, c
  <2>3. Edge(b, c) = Edge(v, c)
    BY <2>1, <2>2 DEF Edge
  <2>4. Signal(b, c) = Signal(v, c) /\ Enters(b, c, Params) = Enters(v, c, Params)
    BY <2>1, <2>2, <2>3 DEF Signal, Enters
  <2> QED
    BY <1>2, <2>1, <2>4 DEF FairValueV0, b, c
<1> QED
  BY <1>1, <1>2

LEMMA ViewsLegible == ASSUME NEW v \in Views PROVE Legible(v)
<1>1. 1..Unit \subseteq Int
  BY DEF Unit
<1>2. v.ask \in [Sides -> Int \cup {None}]
  BY <1>1 DEF Views, Asks
<1> QED
  BY <1>2 DEF Views, Legible

-----------------------------------------------------------------------------
(* The models: what a gate lets through is the signal of v0.               *)

LEMMA TheModels == Models = {"v0", "v2", "v7", "v8", "f45"}
  BY DEF Models, Roster, ToSet

\* A signal is v0's, for the side that v0 chooses.
LEMMA SignalIsV0 ==
  ASSUME NEW m \in Models, NEW v, ModelSignal(m, v, Params) # None
  PROVE  ModelSignal(m, v, Params) = FairValueV0(v, Params)
<1>1. CASE m = "v0"
  BY <1>1 DEF ModelSignal
<1>2. CASE m = "v2"
  BY <1>2 DEF ModelSignal, CushionFavoriteV2
<1>3. CASE m = "v7"
  BY <1>3 DEF ModelSignal, CushionFreshV7, FreshCushion, CushionFavoriteV2
<1>4. CASE m = "v8"
  BY <1>4 DEF ModelSignal, FairValueFreshV8
<1>5. CASE m = "f45"
  BY <1>5 DEF ModelSignal, CushionFreshV7F45, FreshCushion, CushionFavoriteV2
<1> QED
  BY TheModels, <1>1, <1>2, <1>3, <1>4, <1>5

LEMMA V0Signal ==
  ASSUME NEW v \in Views, FairValueV0(v, Params) # None
  PROVE  /\ FairValueV0(v, Params) = Signal(v, Chosen(v))
         /\ Chosen(v) \in Candidates(v) /\ Enters(v, Chosen(v), Params)
<1>1. Candidates(v) # {} /\ Enters(v, Chosen(v), Params) /\ FairValueV0(v, Params) = Signal(v, Chosen(v))
  BY DEF FairValueV0
<1>2. Candidates(v) \subseteq Sides /\ Sides = {"Up", "Down"}
  BY DEF Candidates, Sides
<1>3. CASE "Down" \in Candidates(v)
  BY <1>1, <1>3 DEF Chosen
<1>4. CASE "Down" \notin Candidates(v)
  <2>1. Candidates(v) = {"Up"}
    BY <1>1, <1>2, <1>4
  <2>2. Edge(v, "Up") \in Int
    <3>1. v.ask["Up"] \in Int /\ v.fair["Up"] \in Int
      BY <2>1 DEF Candidates, Views, Asks, Unit, Sides
    <3> QED
      BY <3>1 DEF Edge
  <2>3. Chosen(v) = "Up"
    BY <2>1, <2>2 DEF Chosen
  <2> QED
    BY <1>1, <2>1, <2>3
<1> QED
  BY <1>1, <1>3, <1>4

LEMMA SignalShape ==
  ASSUME NEW m \in Models, NEW v \in Views, ModelSignal(m, v, Params) # None
  PROVE  /\ ModelSignal(m, v, Params) \in Signals
         /\ v.left > 0
<1> DEFINE side == Chosen(v)
<1>1. /\ ModelSignal(m, v, Params) = Signal(v, side)
      /\ side \in Candidates(v) /\ Enters(v, side, Params)
  BY SignalIsV0, V0Signal
<1> HIDE DEF side
<1>2. side \in Sides /\ v.ask[side] \in 1..Unit /\ v.fair[side] \in Int /\ v.left \in Int
  BY <1>1 DEF Candidates, Views, Asks
<1>3. Edge(v, side) \in Int
  <2>0. Unit \in Int
    BY DEF Unit
  <2>1. v.ask[side] \in Int
    BY <1>2, <2>0
  <2> QED
    BY <1>2, <2>1 DEF Edge
<1>4. Confidence(Greatest(Edge(v, side), 0)) \in Int
  BY <1>3 DEF Confidence, Greatest, Between, Least
<1>5. Signal(v, side) \in Signals
  BY <1>2, <1>3, <1>4 DEF Signal, Signals
<1>6. v.left > 0
  BY <1>1, <1>2, ModelAssumption DEF Enters
<1> QED
  BY <1>1, <1>5, <1>6

\* A model that signals does so with the model it narrows, and as that one does.
LEMMA NarrowSignal ==
  ASSUME NEW m \in DOMAIN Narrows, NEW v \in Views, ModelSignal(m, v, Params) # None
  PROVE  /\ m \in Models /\ Narrows[m] \in Models
         /\ ModelSignal(Narrows[m], v, Params) = ModelSignal(m, v, Params)
<1>1. m \in {"v2", "v7", "v8", "f45"}
  BY DEF Narrows
<1>2. CASE m = "v2"
  BY <1>2, TheModels DEF Narrows, ModelSignal, CushionFavoriteV2
<1>3. CASE m = "v7"
  BY <1>3, TheModels DEF Narrows, ModelSignal, CushionFreshV7, FreshCushion
<1>4. CASE m = "v8"
  BY <1>4, TheModels DEF Narrows, ModelSignal, FairValueFreshV8
<1>5. CASE m = "f45"
  <2>1. ModelSignal("f45", v, Params) = FreshCushion(v, Params, 45) /\ ModelSignal("v7", v, Params) = FreshCushion(v, Params, 60)
    BY DEF ModelSignal, CushionFreshV7, CushionFreshV7F45
  <2> QED
    <3>1. FreshCushion(v, Params, 45) # None
      BY <1>5, <2>1
    <3>2. Age(v) <= 45 => Age(v) <= 60
      BY DEF Age, Views, WindowSeconds
    <3> QED
      BY <1>5, <2>1, <3>1, <3>2, TheModels DEF Narrows, FreshCushion
<1> QED
  BY <1>1, <1>2, <1>3, <1>4, <1>5

-----------------------------------------------------------------------------
(* Time.                                                                   *)

LEMMA UnitsType == Units \in Nat /\ Units > 1
  BY WindowAssumption DEF Units

LEMMA Times == ASSUME NEW a \in Int, NEW b \in Int, NEW u \in Nat, a < b PROVE a * u + u <= b * u
<1>1. b - a - 1 \in Nat
  OBVIOUS
<1>2. (b - a - 1) * u >= 0
  BY <1>1
<1>3. (b - a - 1) * u = b * u - a * u - u
  OBVIOUS
<1> QED
  BY <1>2, <1>3

LEMMA StartType ==
  ASSUME NEW w \in Int
  PROVE  Start(w) \in Int /\ Start(w + 1) = Start(w) + Units
  BY UnitsType DEF Start

LEMMA StartGrows ==
  ASSUME NEW v \in Int, NEW w \in Int, v < w
  PROVE  Start(v) + Units <= Start(w)
<1>1. (v - 1) * Units + Units <= (w - 1) * Units
  BY UnitsType, Times
<1> QED
  BY <1>1 DEF Start

\* The window of the clock is the last one that has begun.
LEMMA CurrentWindow ==
  ASSUME clock \in 0..LastTime
  PROVE  /\ Current \in AllWindows /\ Start(Current) <= clock /\ clock < Start(Current + 1)
         /\ \A w \in Int : w <= Current <=> Start(w) <= clock
<1>1. Start(LastWindow + 1) \in Int /\ Start(LastWindow + 2) = Start(LastWindow + 1) + Units /\ LastWindow \in Nat
  BY BoundAssumption, StartType
<1>2. clock \in Nat /\ clock <= Start(LastWindow + 1) + 1
  BY <1>1 DEF LastTime
<1>3. Current \in Nat \ {0} /\ Start(Current) = (clock \div Units) * Units
  BY <1>2, UnitsType DEF Current, Start
<1>4. (clock \div Units) * Units <= clock /\ clock < (clock \div Units) * Units + Units
  BY <1>2, UnitsType
<1>5. Start(Current) <= clock /\ clock < Start(Current + 1)
  BY <1>3, <1>4, StartType
<1>6. ASSUME NEW w \in Int PROVE w <= Current <=> Start(w) <= clock
  <2>1. Start(w) \in Int /\ Start(Current) \in Int /\ Start(Current + 1) \in Int
    BY <1>3, StartType
  <2>2. CASE w <= Current
    <3>1. w = Current \/ Start(w) + Units <= Start(Current)
      BY <1>3, <2>2, StartGrows
    <3> QED
      BY <1>2, <1>5, <2>1, <2>2, <3>1, UnitsType
  <2>3. CASE ~(w <= Current)
    <3>1. w = Current + 1 \/ Start(Current + 1) + Units <= Start(w)
      BY <1>3, <2>3, StartGrows
    <3> QED
      BY <1>2, <1>5, <2>1, <2>3, <3>1, UnitsType
  <2> QED
    BY <2>2, <2>3
<1>7. ~(Start(LastWindow + 2) <= clock)
  BY <1>1, <1>2, UnitsType
<1>8. Current <= LastWindow + 1
  BY <1>1, <1>3, <1>6, <1>7
<1> QED
  BY <1>1, <1>3, <1>5, <1>6, <1>8 DEF AllWindows

LEMMA ElementOf == ASSUME NEW S, NEW s \in Seq(S), NEW i \in 1..Len(s) PROVE s[i] \in S
  OBVIOUS

\* What is left of a window that is over is nothing.
LEMMA LeftType ==
  ASSUME NEW w \in Int, NEW now \in Nat
  PROVE  /\ LeftIn(w, now) \in Int
         /\ LeftIn(w, now) > 0 => now < Start(w + 1)
<1>1. Start(w) \in Int /\ Start(w + 1) = Start(w) + Units
  BY StartType
<1>2. CASE now >= Start(w + 1)
  BY <1>1, <1>2 DEF LeftIn
<1>3. CASE now < Start(w)
  BY <1>1, <1>3, UnitsType DEF LeftIn, WindowSeconds
<1>4. CASE ~(now >= Start(w + 1)) /\ ~(now < Start(w))
  <2>1. now - Start(w) + 1 \in 1..Len(LeftAt)
    BY <1>1, <1>4, UnitsType DEF Units
  <2>2. LeftAt[now - Start(w) + 1] \in 1..WindowSeconds
    BY <2>1, WindowAssumption, ElementOf
  <2>3. LeftAt[now - Start(w) + 1] \in Int
    BY <2>2 DEF WindowSeconds
  <2> QED
    BY <1>1, <1>4, <2>3, UnitsType DEF LeftIn
<1> QED
  BY <1>2, <1>3, <1>4

-----------------------------------------------------------------------------
(* Types.                                                                  *)

Formal ==
    /\ clock \in 0..LastTime
    /\ opens \in [AllWindows -> Levels \cup {None}] /\ draft \in Levels \cup {None}
    /\ cache \in [AllWindows -> Levels \cup {None}]
    /\ tick \in Ticks
    /\ journal \in Seq(Entries) /\ Len(journal) <= MaxTicks
    /\ ledger \in [AllWindows -> [Models -> Rows \cup {None}]]
    /\ watch \in Watches

\* What a tick carries from one step to the next: the books of a market and then the view it
\* was logged with, which is the last entry of the journal while the ledger is written.
Staged ==
    /\ tick.step \in {"ref", "log"} =>
        /\ Len(journal) < MaxTicks
        /\ tick.market \in Quoted /\ tick.market.book \in {x.book : x \in Markets}
    /\ tick.step \in {"log", "record"} =>
        tick.view \in Views /\ tick.view.left = LeftIn(tick.window, tick.now)
    /\ tick.step = "log" => tick.view.ask = tick.market.book.ask
    /\ tick.step = "record" =>
        /\ Len(journal) > 0
        /\ journal[Len(journal)].window = tick.window /\ journal[Len(journal)].view = tick.view

Typed == Formal /\ Staged

LEMMA AllWindowsType == AllWindows \subseteq Int /\ 1 \in AllWindows /\ LastWindow + 1 \in AllWindows
  BY BoundAssumption DEF AllWindows

LEMMA MarketType ==
  ASSUME NEW market \in Markets
  PROVE  /\ market \in Quoted /\ [market EXCEPT !.spot = 0] \in Quoted
         /\ [market EXCEPT !.spot = 0].book = market.book
<1>1. market \in Quoted
  BY MarketAssumption DEF Quoted
<1> QED
  BY <1>1 DEF Quoted

LEMMA ViewType ==
  ASSUME NEW w \in Int, NEW now \in Nat, NEW market \in Quoted, NEW ref \in Nat
  PROVE  /\ View(w, now, market, ref) \in Views
         /\ View(w, now, market, ref).left = LeftIn(w, now) /\ View(w, now, market, ref).ref = ref
         /\ View(w, now, market, ref).ask = market.book.ask
<1>1. /\ market.spot \in Nat /\ market.book \in Books
  BY DEF Quoted
<1>2. market.book.ask \in Asks /\ market.book.bid \in Asks
  BY <1>1 DEF Books, Asks
<1>3. Pair(FairUp(market.spot, ref)) \in [Sides -> Int]
  <2>1. FairUp(market.spot, ref) \in Int
    BY <1>1 DEF FairUp, Between, Least, Greatest, Slope, TieMass
  <2> QED
    BY <2>1 DEF Pair, Unit
<1>4. LeftIn(w, now) \in Int
  BY LeftType
<1> QED
  BY <1>1, <1>2, <1>3, <1>4 DEF View, Views

\* What a read says is a level.
LEMMA OpenPriceType ==
  ASSUME Formal, NEW w \in AllWindows
  PROVE  OpenPrice(w) \in Levels \cup {None}
  BY DEF Formal, OpenPrice

LEMMA TickType ==
  ASSUME NEW step \in Steps, NEW now \in Nat, NEW w \in AllWindows, NEW market \in Quoted \cup {None},
         NEW view \in Views \cup {None}, NEW prev \in Levels \cup {None}, NEW reads \in 0..MaxReads,
         NEW due \in SUBSET AllWindows
  PROVE  [step |-> step, now |-> now, window |-> w, market |-> market, view |-> view, prev |-> prev,
          reads |-> reads, due |-> due] \in Ticks
  BY DEF Ticks

LEMMA StepType ==
  ASSUME NEW t \in Ticks, NEW step \in Steps, NEW w \in AllWindows
  PROVE  [t EXCEPT !.step = step, !.window = w] \in Ticks /\ [t EXCEPT !.step = step, !.window = w].step = step
  BY DEF Ticks

LEMMA LoggedType ==
  ASSUME NEW t \in Ticks, NEW view \in Views
  PROVE  LET u == [t EXCEPT !.step = "log", !.view = view]
         IN  u \in Ticks /\ u.step = "log" /\ u.view = view /\ u.now = t.now /\ u.window = t.window /\ u.market = t.market
<1>1. "log" \in Steps
  BY DEF Steps
<1> QED
  BY <1>1 DEF Ticks

LEMMA IdleType ==
  ASSUME NEW w \in AllWindows
  PROVE  /\ Idle \in Ticks /\ Idle.step = "idle" /\ Idle.due = {}
         /\ [Idle EXCEPT !.step = "due", !.window = w] \in Ticks
         /\ [Idle EXCEPT !.step = "due", !.window = w].step = "due"
<1>1. 1 \in AllWindows /\ 0 \in 0..MaxReads /\ {"idle", "due"} \subseteq Steps
  BY AllWindowsType, BoundAssumption DEF Steps
<1>2. Idle \in Ticks /\ Idle.step = "idle" /\ Idle.due = {}
  BY <1>1, TickType DEF Idle
<1> QED
  BY <1>1, <1>2, StepType

LEMMA InitTyped == Init => Typed
<1> SUFFICES ASSUME Init PROVE Typed
  OBVIOUS
<1>1. 0 \in 0..LastTime
  <2>1. Start(LastWindow + 1) = LastWindow * Units
    BY BoundAssumption DEF Start
  <2>2. LastWindow * Units \in Nat
    BY BoundAssumption, UnitsType
  <2> QED
    BY <2>1, <2>2 DEF LastTime
<1>2. journal \in Seq(Entries) /\ Len(journal) <= MaxTicks
  BY BoundAssumption DEF Init
<1>3. Idle \in Ticks /\ Idle.step = "idle"
  BY AllWindowsType, IdleType
<1>4. watch \in Watches
  BY DEF Init, Watches
<1> QED
  BY <1>1, <1>2, <1>3, <1>4 DEF Init, Typed, Formal, Staged, AllWindows

LEMMA BeginTicks ==
  ASSUME Typed, BeginTick
  PROVE  /\ tick' \in Ticks /\ tick'.step \in {"ref", "log"} /\ tick'.now = clock
         /\ tick'.market \in Quoted /\ tick'.market.book \in {x.book : x \in Markets}
         /\ tick'.step = "log" =>
             /\ tick'.view \in Views /\ tick'.view.left = LeftIn(tick'.window, tick'.now)
             /\ tick'.view.ref = cache[tick'.window] /\ cache[tick'.window] # None
             /\ tick'.view.ask = tick'.market.book.ask
         /\ watch' \in Watches /\ watch'.torn = watch.torn /\ watch'.drafted = watch.drafted
<1>1. PICK w \in Discoverable, found \in Markets, priced \in BOOLEAN :
        LET market == IF priced THEN found ELSE [found EXCEPT !.spot = 0]
            begun  == [Idle EXCEPT !.step = "ref", !.now = clock, !.window = w, !.market = market]
        IN  /\ tick' = IF cache[w] = None THEN begun
                       ELSE [begun EXCEPT !.step = "log", !.view = View(w, clock, market, cache[w])]
            /\ watch' = IF priced THEN watch ELSE Failed
  BY DEF BeginTick
<1> DEFINE market == IF priced THEN found ELSE [found EXCEPT !.spot = 0]
           begun  == [Idle EXCEPT !.step = "ref", !.now = clock, !.window = w, !.market = market]
           view   == View(w, clock, market, cache[w])
<1>2. w \in AllWindows /\ clock \in Nat
  BY BoundAssumption DEF Discoverable, AllWindows, Typed, Formal
<1>3. market \in Quoted /\ market.book = found.book
  BY MarketType
<1> HIDE DEF market
<1>4. /\ begun \in Ticks /\ begun.step = "ref" /\ begun.now = clock /\ begun.window = w /\ begun.market = market
  <2>1. Idle \in Ticks
    BY <1>2, IdleType
  <2>2. "ref" \in Steps
    BY DEF Steps
  <2>3. begun \in Ticks
    BY <1>2, <1>3, <2>1, <2>2 DEF Ticks
  <2>4. begun.step = "ref" /\ begun.now = clock /\ begun.window = w /\ begun.market = market
    BY <2>1 DEF Ticks
  <2> QED
    BY <2>3, <2>4
<1>5. ASSUME cache[w] # None
      PROVE  /\ view \in Views /\ view.left = LeftIn(w, clock) /\ view.ref = cache[w] /\ view.ask = market.book.ask
  <2>1. cache[w] \in Nat
    BY <1>2, <1>5, MarketAssumption DEF Typed, Formal
  <2> QED
    BY <1>2, <1>3, <2>1, AllWindowsType, ViewType
<1> HIDE DEF view
<1>6. watch' \in Watches /\ watch'.torn = watch.torn /\ watch'.drafted = watch.drafted
  BY <1>1 DEF Failed, Watches, Typed, Formal
<1>7. CASE cache[w] = None
  BY <1>1, <1>3, <1>4, <1>6, <1>7 DEF market, begun
<1>8. CASE cache[w] # None
  <2>1. tick' = [begun EXCEPT !.step = "log", !.view = view]
    BY <1>1, <1>8 DEF market, view
  <2> HIDE DEF begun
  <2>2. /\ tick' \in Ticks /\ tick'.step = "log" /\ tick'.now = clock /\ tick'.window = w /\ tick'.market = market
        /\ tick'.view = view
    BY <1>4, <1>5, <1>8, <2>1, LoggedType
  <2> QED
    BY <1>3, <1>5, <1>6, <1>8, <2>2
<1> QED
  BY <1>7, <1>8

LEMMA WithViews ==
  ASSUME Typed, tick.step = "ref", NEW ref \in Nat, tick' = WithView(ref)
  PROVE  /\ tick' \in Ticks /\ tick'.step = "log" /\ tick'.now = tick.now /\ tick'.window = tick.window
         /\ tick'.market = tick.market
         /\ tick'.view \in Views /\ tick'.view.left = LeftIn(tick'.window, tick'.now)
         /\ tick'.view.ref = ref /\ tick'.view.ask = tick'.market.book.ask
<1> DEFINE view == View(tick.window, tick.now, tick.market, ref)
<1>1. tick \in Ticks /\ tick.window \in AllWindows /\ tick.now \in Nat /\ tick.market \in Quoted
  BY DEF Typed, Formal, Staged, Ticks
<1>2. view \in Views /\ view.left = LeftIn(tick.window, tick.now) /\ view.ref = ref /\ view.ask = tick.market.book.ask
  <2>1. tick.window \in Int
    BY <1>1, AllWindowsType
  <2> QED
    BY ONLY <1>1, <2>1, ref \in Nat, ViewType
<1> HIDE DEF view
<1>3. tick' = [tick EXCEPT !.step = "log", !.prev = None, !.reads = 0, !.view = view]
  BY DEF WithView, view
<1>4. 0 \in 0..MaxReads /\ "log" \in Steps
  BY BoundAssumption DEF Steps
<1>5. tick' \in Ticks
  BY <1>1, <1>2, <1>3, <1>4 DEF Ticks
<1>6. /\ tick'.step = "log" /\ tick'.now = tick.now /\ tick'.window = tick.window /\ tick'.market = tick.market
      /\ tick'.view = view
  BY <1>1, <1>3 DEF Ticks
<1> QED
  BY <1>2, <1>5, <1>6

LEMMA ReadTypes ==
  ASSUME Typed, ReadReference
  PROVE  /\ cache' \in [AllWindows -> Levels \cup {None}]
         /\ tick' \in Ticks
         /\ tick'.step \in {"ref", "log"} /\ tick'.now = tick.now /\ tick'.window = tick.window
         /\ tick'.market = tick.market
         /\ tick'.step = "log" =>
             /\ tick'.view \in Views /\ tick'.view.left = LeftIn(tick'.window, tick'.now)
             /\ tick'.view.ref = OpenPrice(tick.window) /\ OpenPrice(tick.window) # None
             /\ tick'.view.ask = tick'.market.book.ask
         /\ \A w \in AllWindows :
             cache'[w] = cache[w] \/ (w = tick.window /\ cache'[w] = OpenPrice(w) /\ OpenPrice(w) # None)
<1> DEFINE price == OpenPrice(tick.window)
           taken == price # None /\ (price = tick.prev \/ tick.reads = MaxReads - 1)
<1>1. /\ tick.step = "ref" /\ tick.reads < MaxReads
      /\ tick' = IF taken THEN WithView(price)
                 ELSE [tick EXCEPT !.reads = @ + 1, !.prev = IF price = None THEN @ ELSE price]
      /\ cache' = IF taken THEN [cache EXCEPT ![tick.window] = price] ELSE cache
  BY DEF ReadReference, Reading
<1>2. tick \in Ticks /\ tick.window \in AllWindows /\ tick.reads \in 0..MaxReads
  BY DEF Typed, Formal, Ticks
<1>3. price \in Levels \cup {None}
  BY <1>2, OpenPriceType DEF Typed
<1>4. CASE taken
  <2>1. price \in Nat /\ price # None /\ tick' = WithView(price)
    BY <1>1, <1>3, <1>4, MarketAssumption
  <2>2. cache' = [cache EXCEPT ![tick.window] = price]
    BY <1>1, <1>4
  <2> HIDE DEF price, taken
  <2>3. cache' \in [AllWindows -> Levels \cup {None}]
    BY <1>2, <1>3, <2>2 DEF Typed, Formal
  <2>4. \A w \in AllWindows : cache'[w] = cache[w] \/ (w = tick.window /\ cache'[w] = price)
    BY <2>2 DEF Typed, Formal
  <2> QED
    BY <1>1, <2>1, <2>3, <2>4, WithViews DEF price
<1>5. CASE ~taken
  <2>1. /\ tick' = [tick EXCEPT !.reads = @ + 1, !.prev = IF price = None THEN @ ELSE price]
        /\ cache' = cache
    BY <1>1, <1>5
  <2> HIDE DEF price, taken
  <2>2. tick' \in Ticks /\ tick'.step = "ref" /\ tick'.now = tick.now /\ tick'.window = tick.window /\ tick'.market = tick.market
    <3> DEFINE prev == IF price = None THEN tick.prev ELSE price
    <3>1. tick' = [step |-> "ref", now |-> tick.now, window |-> tick.window, market |-> tick.market, view |-> tick.view,
                   prev |-> prev, reads |-> tick.reads + 1, due |-> tick.due]
      BY <1>1, <1>2, <2>1 DEF Ticks
    <3>2. /\ tick.now \in Nat /\ tick.market \in Quoted \cup {None} /\ tick.view \in Views \cup {None}
          /\ prev \in Levels \cup {None} /\ tick.due \in SUBSET AllWindows
      BY <1>2, <1>3 DEF Ticks
    <3>3. tick.reads + 1 \in 0..MaxReads /\ "ref" \in Steps
      BY <1>1, <1>2, BoundAssumption DEF Steps
    <3> HIDE DEF prev
    <3> QED
      BY <1>2, <3>1, <3>2, <3>3, TickType
  <2> QED
    BY <2>1, <2>2 DEF Typed, Formal
<1> QED
  BY <1>4, <1>5

\* The loop's own decision is a signal, of the active model on the books that can be bought from.
LEMMA BuyableType ==
  ASSUME Typed, tick.step = "log"
  PROVE  Buyable(tick.view) \in Views /\ tick.view \in Views
<1>1. tick.view \in Views
  BY DEF Typed, Staged
<1> DEFINE ask == [s \in Sides |-> IF s \in Crossed(tick.view) THEN None ELSE tick.view.ask[s]]
<1>2. ask \in Asks
  BY <1>1 DEF Views, Asks
<1>3. Buyable(tick.view) = [tick.view EXCEPT !.ask = ask]
  BY DEF Buyable
<1> HIDE DEF ask
<1> QED
  BY <1>1, <1>2, <1>3 DEF Views

LEMMA LogTypes ==
  ASSUME Typed, LogTick
  PROVE  LET e == journal'[Len(journal')]
         IN  /\ journal' \in Seq(Entries) /\ Len(journal') = Len(journal) + 1 /\ Len(journal') <= MaxTicks
             /\ \A i \in 1..Len(journal) : journal'[i] = journal[i]
             /\ e = [window |-> tick.window, view |-> tick.view, side |-> IF Decision = None THEN None ELSE Decision.side]
             /\ tick' \in Ticks /\ tick'.step = "record" /\ tick'.window = tick.window /\ tick'.view = tick.view
             /\ tick'.now = tick.now
             /\ watch' \in Watches /\ watch'.drafted = watch.drafted
             /\ watch'.torn = IF Replayable THEN watch.torn ELSE watch.torn \cup {tick.window}
<1> DEFINE e == [window |-> tick.window, view |-> tick.view, side |-> IF Decision = None THEN None ELSE Decision.side]
<1>1. /\ tick.step = "log" /\ journal' = Append(journal, e) /\ tick' = [tick EXCEPT !.step = "record"]
      /\ watch' = IF Replayable THEN watch ELSE Torn(tick.window)
  BY DEF LogTick, GoTo
<1>2. tick \in Ticks /\ tick.window \in AllWindows /\ tick.view \in Views
  BY <1>1 DEF Typed, Formal, Staged, Ticks
<1>3. Decision # None => Decision.side \in Sides
  <2>1. Decision # None => Decision \in Signals
    BY <1>1, BuyableType, SignalShape, ModelAssumption DEF Decision
  <2> QED
    BY <2>1 DEF Signals
<1>4. e \in Entries
  BY <1>2, <1>3 DEF Entries
<1> HIDE DEF e
<1>5. journal \in Seq(Entries) /\ Len(journal) < MaxTicks
  BY <1>1 DEF Typed, Formal, Staged
<1>6. /\ journal' \in Seq(Entries) /\ Len(journal') = Len(journal) + 1 /\ Len(journal') <= MaxTicks
      /\ \A i \in 1..Len(journal) : journal'[i] = journal[i]
      /\ journal'[Len(journal')] = e
  BY <1>1, <1>4, <1>5, BoundAssumption
<1>7. "record" \in Steps
  BY DEF Steps
<1>8. /\ tick' \in Ticks /\ tick'.step = "record" /\ tick'.window = tick.window /\ tick'.view = tick.view
      /\ tick'.now = tick.now
  BY <1>1, <1>2, <1>7 DEF Ticks
<1>9. /\ watch' \in Watches /\ watch'.drafted = watch.drafted
      /\ watch'.torn = IF Replayable THEN watch.torn ELSE watch.torn \cup {tick.window}
  BY <1>1, <1>2 DEF Torn, Watches, Typed, Formal
<1> QED
  BY <1>6, <1>8, <1>9 DEF e

LEMMA RowType ==
  ASSUME Typed, tick.step = "record", NEW m \in Models, ModelSignal(m, tick.view, Params) # None
  PROVE  LET row == Row(ModelSignal(m, tick.view, Params))
         IN  row \in Rows /\ row.at = Len(journal) /\ row.outcome = None /\ row.pnl = 0
<1> DEFINE s == ModelSignal(m, tick.view, Params)
<1>1. s \in Signals
  BY SignalShape DEF Typed, Staged
<1>2. Len(journal) \in 1..MaxTicks
  BY BoundAssumption DEF Typed, Formal, Staged
<1> HIDE DEF s
<1>3. Row(s) \in Rows /\ Row(s).at = Len(journal) /\ Row(s).outcome = None /\ Row(s).pnl = 0
  BY <1>1, <1>2 DEF Row, Rows, Signals
<1> QED
  BY <1>3 DEF s

\* The insert touches the rows of the tick's window that are not there yet.
LEMMA LoggedRows ==
  ASSUME Typed, tick.step = "record", NEW models, ledger' = LoggedBy(models)
  PROVE  /\ ledger' \in [AllWindows -> [Models -> Rows \cup {None}]]
         /\ \A w \in AllWindows \ {tick.window} : ledger'[w] = ledger[w]
         /\ \A m \in Models :
              ledger'[tick.window][m] = IF m \in ToSet(models)
                                        THEN InsertOrIgnore(ledger[tick.window][m], ModelSignal(m, tick.view, Params))
                                        ELSE ledger[tick.window][m]
<1> DEFINE new == [m \in Models |-> IF m \in ToSet(models)
                                    THEN InsertOrIgnore(ledger[tick.window][m], ModelSignal(m, tick.view, Params))
                                    ELSE ledger[tick.window][m]]
<1>1. ledger' = [ledger EXCEPT ![tick.window] = new]
  BY DEF LoggedBy
<1>2. tick.window \in AllWindows /\ ledger \in [AllWindows -> [Models -> Rows \cup {None}]]
  BY DEF Typed, Formal, Ticks
<1>3. ASSUME NEW m \in Models PROVE InsertOrIgnore(ledger[tick.window][m], ModelSignal(m, tick.view, Params)) \in Rows \cup {None}
  BY <1>2, RowType DEF InsertOrIgnore
<1>4. new \in [Models -> Rows \cup {None}]
  BY <1>2, <1>3
<1>5. \A m \in Models : new[m] = IF m \in ToSet(models)
                                 THEN InsertOrIgnore(ledger[tick.window][m], ModelSignal(m, tick.view, Params))
                                 ELSE ledger[tick.window][m]
  OBVIOUS
<1> HIDE DEF new
<1>6. ledger' \in [AllWindows -> [Models -> Rows \cup {None}]] /\ ledger'[tick.window] = new
  BY <1>1, <1>2, <1>4
<1>7. \A w \in AllWindows \ {tick.window} : ledger'[w] = ledger[w]
  BY <1>1, <1>2
<1> QED
  BY <1>5, <1>6, <1>7

LEMMA SettledRowType ==
  ASSUME NEW row \in Rows \cup {None}, NEW side \in Sides
  PROVE  /\ SettledRow(row, side) \in Rows \cup {None}
         /\ row = None \/ row.outcome # None => SettledRow(row, side) = row
         /\ row # None => /\ SettledRow(row, side) # None
                          /\ SettledRow(row, side).side = row.side /\ SettledRow(row, side).price = row.price
                          /\ SettledRow(row, side).at = row.at
         /\ row # None /\ row.outcome = None =>
              /\ SettledRow(row, side).outcome = side
              /\ SettledRow(row, side).pnl = NetPnl(row.price, row.side = side)
<1>1. CASE row = None \/ row.outcome # None
  BY <1>1 DEF SettledRow
<1>2. CASE row # None /\ row.outcome = None
  <2>1. row \in Rows /\ SettledRow(row, side) = [row EXCEPT !.outcome = side, !.pnl = NetPnl(row.price, row.side = side)]
    BY <1>2 DEF SettledRow
  <2>2. row.price \in 1..Unit
    BY <2>1 DEF Rows
  <2>3. NetPnl(row.price, row.side = side) \in Int
    <3>1. row.price \in Int
      BY <2>2 DEF Unit
    <3> QED
      BY <3>1 DEF NetPnl, TakerFee, Unit
  <2>4. SettledRow(row, side) \in Rows
    BY <2>1, <2>3 DEF Rows
  <2>5. /\ SettledRow(row, side).side = row.side /\ SettledRow(row, side).price = row.price
        /\ SettledRow(row, side).at = row.at /\ SettledRow(row, side).outcome = side
        /\ SettledRow(row, side).pnl = NetPnl(row.price, row.side = side)
    BY <2>1 DEF Rows
  <2> QED
    BY <1>2, <2>4, <2>5, NoneAssumption
<1> QED
  BY <1>1, <1>2

\* A settlement touches the open rows of its window.
LEMMA SettledRowsOf ==
  ASSUME Typed, NEW w \in AllWindows, SettleShadow(w)
  PROVE  \E side \in Sides :
           /\ side = IF UpWon(w) THEN "Up" ELSE "Down"
           /\ ledger' \in [AllWindows -> [Models -> Rows \cup {None}]]
           /\ \A v \in AllWindows \ {w} : ledger'[v] = ledger[v]
           /\ \A m \in Models : ledger'[w][m] = SettledRow(ledger[w][m], side)
<1> DEFINE side == IF UpWon(w) THEN "Up" ELSE "Down"
           new == [m \in Models |-> SettledRow(ledger[w][m], side)]
<1>1. ledger' = [ledger EXCEPT ![w] = new]
  BY DEF SettleShadow
<1>2. ledger \in [AllWindows -> [Models -> Rows \cup {None}]]
  BY DEF Typed, Formal
<1>3. side \in Sides
  BY DEF Sides
<1> HIDE DEF side
<1>4. new \in [Models -> Rows \cup {None}] /\ \A m \in Models : new[m] = SettledRow(ledger[w][m], side)
  BY <1>2, <1>3, SettledRowType
<1> HIDE DEF new
<1>5. /\ ledger' \in [AllWindows -> [Models -> Rows \cup {None}]] /\ ledger'[w] = new
      /\ \A v \in AllWindows \ {w} : ledger'[v] = ledger[v]
  BY <1>1, <1>2, <1>4
<1> QED
  BY <1>3, <1>4, <1>5 DEF side

LEMMA DoneType ==
  ASSUME Typed, tick.step = "settle", NEW w, tick' = Done(w)
  PROVE  tick' \in Ticks /\ tick'.step \in {"idle", "settle"}
<1>1. tick \in Ticks
  BY DEF Typed, Formal
<1>2. CASE tick.due \ {w} = {}
  BY <1>2, AllWindowsType, IdleType DEF Done
<1>3. CASE tick.due \ {w} # {}
  <2>1. tick' = [tick EXCEPT !.due = tick.due \ {w}]
    BY <1>3 DEF Done
  <2>2. tick.due \ {w} \in SUBSET AllWindows
    BY <1>1 DEF Ticks
  <2> QED
    BY <1>1, <2>1, <2>2 DEF Ticks
<1> QED
  BY <1>2, <1>3

LEMMA ForgetType ==
  ASSUME Typed, Forget
  PROVE  cache' \in [AllWindows -> Levels \cup {None}] /\ \A w \in AllWindows : cache'[w] = None
  BY DEF Forget, Typed, Formal

LEMMA FailedType ==
  ASSUME Typed
  PROVE  /\ Failed \in Watches /\ Failed.torn = watch.torn /\ Failed.drafted = watch.drafted
         /\ [Failed EXCEPT !.torn = @ \cup {tick.window}] \in Watches
         /\ [Failed EXCEPT !.torn = @ \cup {tick.window}].torn = watch.torn \cup {tick.window}
         /\ [Failed EXCEPT !.torn = @ \cup {tick.window}].drafted = watch.drafted
<1>1. watch \in Watches /\ tick.window \in AllWindows
  BY DEF Typed, Formal, Ticks
<1>2. Failed = [watch EXCEPT !.faults = watch.faults + 1]
  BY DEF Failed
<1>3. Failed \in Watches /\ Failed.torn = watch.torn /\ Failed.drafted = watch.drafted
  BY <1>1, <1>2 DEF Watches
<1> QED
  BY <1>1, <1>3 DEF Watches

LEMMA IdleAgain ==
  ASSUME Typed
  PROVE  LET t == [Idle EXCEPT !.step = "due", !.window = tick.window]
         IN  t \in Ticks /\ t.step = "due" /\ Idle \in Ticks /\ Idle.step = "idle"
<1>1. tick.window \in AllWindows
  BY DEF Typed, Formal, Ticks
<1> QED
  BY <1>1, IdleType

\* RecordCut, whichever models it got to.
LEMMA CutTypes ==
  ASSUME Typed, RecordCut
  PROVE  /\ \E k \in 0..Len(Roster) - 1 : ledger' = LoggedBy(SubSeq(Roster, 1, k))
         /\ ledger' \in [AllWindows -> [Models -> Rows \cup {None}]]
         /\ cache' \in [AllWindows -> Levels \cup {None}] /\ \A w \in AllWindows : cache'[w] \in {None, cache[w]}
         /\ tick' = Idle /\ watch' \in Watches /\ watch'.drafted = watch.drafted
         /\ watch'.torn = watch.torn \cup {tick.window}
<1>1. \E k \in 0..Len(Roster) - 1 : ledger' = LoggedBy(SubSeq(Roster, 1, k))
  BY DEF RecordCut
<1>2. ledger' \in [AllWindows -> [Models -> Rows \cup {None}]]
  BY <1>1, LoggedRows DEF RecordCut
<1>3. Forget \/ cache' = cache
  BY DEF RecordCut
<1>4. cache' \in [AllWindows -> Levels \cup {None}] /\ \A w \in AllWindows : cache'[w] \in {None, cache[w]}
  BY <1>3, ForgetType DEF Typed, Formal
<1>5. watch' = [Failed EXCEPT !.torn = @ \cup {tick.window}] /\ tick' = Idle
  BY DEF RecordCut
<1> QED
  BY <1>1, <1>2, <1>4, <1>5, FailedType

LEMMA OpenTypes ==
  ASSUME Formal, OpenWindow
  PROVE  /\ opens' \in [AllWindows -> Levels \cup {None}] /\ draft' \in Levels \cup {None}
         /\ opens[Current] = None /\ opens'[Current] \in Levels /\ Current \in AllWindows
         /\ \A w \in AllWindows \ {Current} : opens'[w] = opens[w]
<1>1. PICK final \in Levels, first \in Levels :
        opens' = [opens EXCEPT ![Current] = final] /\ draft' = IF first = final THEN None ELSE first
  BY DEF OpenWindow
<1>2. Current \in AllWindows /\ opens \in [AllWindows -> Levels \cup {None}]
  BY CurrentWindow DEF Formal
<1> QED
  BY <1>1, <1>2 DEF OpenWindow

LEMMA NextTyped == Typed /\ [Next]_vars => Typed'
<1> SUFFICES ASSUME Typed, [Next]_vars PROVE Typed'
  OBVIOUS
<1> USE DEF Typed
<1>1. CASE Advance
  <2>1. clock' \in 0..LastTime
    <3>1. LastTime \in Int
      BY BoundAssumption, StartType DEF LastTime
    <3> QED
      BY <1>1, <3>1 DEF Advance, Formal
  <2>2. Formal'
    BY <1>1, <2>1 DEF Advance, Formal
  <2>3. Staged'
    BY <1>1 DEF Advance, Staged, LeftIn, Start
  <2> QED
    BY <2>2, <2>3
<1>2. CASE OpenWindow
  <2>1. Formal'
    BY <1>2, OpenTypes DEF OpenWindow, Formal
  <2>2. Staged'
    BY <1>2 DEF OpenWindow, Staged, LeftIn, Start
  <2> QED
    BY <2>1, <2>2
<1>3. CASE Revise
  <2>1. Formal'
    BY <1>3 DEF Revise, Formal
  <2>2. Staged'
    BY <1>3 DEF Revise, Staged, LeftIn, Start
  <2> QED
    BY <2>1, <2>2
<1>4. CASE BeginTick
  <2>1. Formal'
    BY <1>4, BeginTicks DEF BeginTick, Formal
  <2>2. Len(journal) < MaxTicks /\ journal' = journal
    BY <1>4 DEF BeginTick
  <2>3. Staged'
    BY <2>2, <1>4, BeginTicks DEF Staged, LeftIn, Start
  <2> QED
    BY <2>1, <2>3
<1>5. CASE QuietTick
  <2>1. tick' \in Ticks /\ tick'.step = "due"
    BY <1>5, IdleType, CurrentWindow DEF QuietTick, Formal
  <2>2. Formal'
    BY <1>5, <2>1 DEF QuietTick, Formal
  <2>3. Staged'
    BY <2>1 DEF Staged
  <2> QED
    BY <2>2, <2>3
<1>6. CASE ReadReference
  <2>1. tick.step = "ref" /\ UNCHANGED <<clock, opens, draft, journal, ledger, watch>>
    BY <1>6 DEF ReadReference, Reading
  <2>2. Formal'
    BY <1>6, <2>1, ReadTypes DEF Formal
  <2>3. Staged'
    BY <1>6, <2>1, ReadTypes DEF Staged, LeftIn, Start
  <2> QED
    BY <2>2, <2>3
<1>7. CASE NoReference
  <2>1. /\ tick.step = "ref" /\ tick' = WithView(0) /\ UNCHANGED <<clock, opens, draft, cache, journal, ledger>>
        /\ watch' \in Watches
    BY <1>7, FailedType DEF NoReference, Reading, Formal
  <2>2. Formal'
    BY <2>1, WithViews DEF Formal
  <2>3. Staged'
    BY <2>1, WithViews DEF Staged, LeftIn, Start
  <2> QED
    BY <2>2, <2>3
<1>8. CASE LogTick
  <2>1. UNCHANGED <<clock, opens, draft, cache, ledger>> /\ tick.step = "log"
    BY <1>8 DEF LogTick
  <2>2. Formal'
    BY <1>8, <2>1, LogTypes DEF Formal
  <2>3. Len(journal) \in Nat
    BY DEF Formal
  <2>4. Staged'
    BY <1>8, <2>1, <2>3, LogTypes DEF Staged, LeftIn, Start
  <2> QED
    BY <2>2, <2>4
<1>9. CASE RecordShadow
  <2>1. /\ tick.step = "record" /\ UNCHANGED <<clock, opens, draft, cache, journal, watch>>
        /\ ledger' \in [AllWindows -> [Models -> Rows \cup {None}]]
        /\ tick' = [Idle EXCEPT !.step = "due", !.window = tick.window]
    BY <1>9, LoggedRows DEF RecordShadow
  <2>2. Formal'
    BY <2>1, IdleAgain DEF Formal
  <2>3. Staged'
    BY <2>1, IdleAgain DEF Staged
  <2> QED
    BY <2>2, <2>3
<1>10. CASE RecordCut
  <2>1. UNCHANGED <<clock, opens, draft, journal>>
    BY <1>10 DEF RecordCut
  <2>2. Formal'
    BY <1>10, <2>1, CutTypes, IdleAgain DEF Formal
  <2>3. Staged'
    BY <1>10, CutTypes, IdleAgain DEF Staged
  <2> QED
    BY <2>2, <2>3
<1>11. CASE FindDue
  <2>1. tick' \in Ticks /\ tick'.step \in {"idle", "settle"}
    <3>1. CASE Due = {}
      BY <1>11, <3>1, IdleAgain DEF FindDue
    <3>2. CASE Due # {}
      <4>1. tick' = [tick EXCEPT !.step = "settle", !.due = Due] /\ Due \in SUBSET AllWindows /\ "settle" \in Steps
        BY <1>11, <3>2 DEF FindDue, Due, Formal, Steps
      <4> QED
        BY <4>1 DEF Formal, Ticks
    <3> QED
      BY <3>1, <3>2
  <2>2. Formal'
    BY <1>11, <2>1 DEF FindDue, Formal
  <2>3. Staged'
    BY <2>1 DEF Staged
  <2> QED
    BY <2>2, <2>3
<1>12. ASSUME NEW w \in DOMAIN ledger, SettleShadow(w) PROVE Typed'
  <2>1. w \in AllWindows /\ tick.step = "settle" /\ tick' = Done(w) /\ UNCHANGED <<clock, opens, draft, cache, journal>>
    BY <1>12 DEF SettleShadow, Settling, Formal
  <2>2. watch' \in Watches
    BY <1>12, <2>1 DEF SettleShadow, Formal, Watches
  <2>3. Formal'
    BY <1>12, <2>1, <2>2, SettledRowsOf, DoneType DEF Formal
  <2>4. Staged'
    BY <2>1, DoneType DEF Staged
  <2> QED
    BY <2>3, <2>4
<1>13. ASSUME NEW w \in DOMAIN ledger, PassOver(w) PROVE Typed'
  <2>1. tick.step = "settle" /\ tick' = Done(w) /\ UNCHANGED <<clock, opens, draft, cache, journal, ledger>>
    BY <1>13 DEF PassOver, Settling
  <2>2. watch' \in Watches
    BY <1>13, FailedType DEF PassOver, Formal
  <2>3. Formal'
    BY <2>1, <2>2, DoneType DEF Formal
  <2>4. Staged'
    BY <2>1, DoneType DEF Staged
  <2> QED
    BY <2>3, <2>4
<1>14. CASE Restart
  <2>1. UNCHANGED <<clock, opens, draft, journal, ledger>> /\ tick' = Idle /\ Forget /\ watch' = Failed
    BY <1>14 DEF Restart
  <2>2. Formal'
    BY <2>1, FailedType, ForgetType, IdleAgain DEF Formal
  <2>3. Staged'
    BY <2>1, IdleAgain DEF Staged
  <2> QED
    BY <2>2, <2>3
<1>15. CASE UNCHANGED vars
  BY <1>15 DEF vars, Formal, Staged, LeftIn, Start
<1> QED
  BY <1>1, <1>2, <1>3, <1>4, <1>5, <1>6, <1>7, <1>8, <1>9, <1>10, <1>11, <1>12, <1>13, <1>14, <1>15 DEF Next, Ticking

-----------------------------------------------------------------------------
(* The least of some places in the journal.                                *)

LEMMA LeastNatural ==
  ASSUME NEW S \in SUBSET Nat, S # {}
  PROVE  \E n \in S : \A k \in S : n <= k
<1> DEFINE R == OpToRel(<, Nat)
<1>1. IsWellFoundedOn(R, Nat)
  BY NatLessThanWellFounded
<1>2. \A a, b \in Nat : a < b => <<a, b>> \in R
  BY DEF OpToRel
<1> HIDE DEF R
<1>3. PICK n \in S : \A k \in S : ~(<<k, n>> \in R)
  BY <1>1, WFMin
<1>4. ASSUME NEW k \in S PROVE n <= k
  <2>1. n \in Nat /\ k \in Nat
    OBVIOUS
  <2>2. ~(k < n)
    BY <1>2, <1>3, <2>1
  <2> QED
    BY <2>1, <2>2
<1> QED
  BY <1>3, <1>4

LEMMA MinOf ==
  ASSUME NEW S \in SUBSET Nat, S # {}
  PROVE  Min(S) \in S /\ \A k \in S : Min(S) <= k
  BY LeastNatural DEF Min

LEMMA MinIs ==
  ASSUME NEW S \in SUBSET Nat, NEW n \in S, \A k \in S : n <= k
  PROVE  Min(S) = n
<1>1. Min(S) \in S /\ Min(S) <= n
  BY MinOf
<1>2. Min(S) \in Nat /\ n \in Nat /\ n <= Min(S)
  BY <1>1
<1> QED
  BY <1>1, <1>2

-----------------------------------------------------------------------------
(* References.                                                             *)

\* A window has an open once it has begun, and none before; only in its first moment may that be
\* provisional.
Timed ==
    /\ \A w \in AllWindows : /\ Start(w) < clock => opens[w] # None
                             /\ clock < Start(w) => opens[w] = None
    /\ draft # None => clock = Start(Current)

\* References are final opens, in the cache, in the tick and in the journal.
Referenced ==
    /\ \A w \in AllWindows : cache[w] \in {None, opens[w]}
    /\ tick.step \in {"log", "record"} => tick.view.ref \in {0, opens[tick.window]}
    /\ \A i \in 1..Len(journal) : journal[i].view.ref \in {0, opens[journal[i].window]}

LEMMA NoLevel == None \notin Levels /\ 0 \notin Levels /\ Levels \subseteq Nat
<1>1. 0 \notin Levels /\ Levels \subseteq Nat
  BY MarketAssumption
<1>2. None \notin Int
  BY NoneAssumption
<1>3. Nat \subseteq Int
  OBVIOUS
<1> QED
  BY <1>1, <1>2, <1>3

LEMMA InitTimed == Init => Timed
<1> SUFFICES ASSUME Init PROVE Timed
  OBVIOUS
<1>1. ASSUME NEW w \in AllWindows PROVE ~(Start(w) < clock) /\ opens[w] = None
  <2>1. w \in Nat \ {0} /\ clock = 0
    BY <1>1, BoundAssumption DEF AllWindows, Init
  <2>2. (w - 1) * Units \in Nat
    BY <2>1, UnitsType
  <2> QED
    BY <2>1, <2>2 DEF Start, Init, AllWindows
<1> QED
  BY <1>1 DEF Init, Timed

\* Nothing but the exchange moves the clock and the opens.
LEMMA OnlyExchange ==
  ASSUME [Next]_vars
  PROVE  Advance \/ OpenWindow \/ Revise \/ UNCHANGED <<clock, opens, draft>>
<1>1. CASE Ticking
  BY <1>1 DEF Ticking, BeginTick, QuietTick, ReadReference, NoReference, LogTick, RecordShadow, RecordCut, FindDue,
              SettleShadow, PassOver
<1>2. CASE Restart
  BY <1>2 DEF Restart
<1> QED
  BY <1>1, <1>2 DEF Next, vars

LEMMA NextTimed == Typed /\ Timed /\ [Next]_vars => Timed'
<1> SUFFICES ASSUME Typed, Timed, [Next]_vars PROVE Timed'
  OBVIOUS
<1>0. /\ Current \in AllWindows /\ Current \in Int /\ Start(Current) \in Int /\ Start(Current) <= clock /\ clock \in Int
      /\ \A w \in Int : w <= Current <=> Start(w) <= clock
  <2>1. clock \in 0..LastTime
    BY DEF Typed, Formal
  <2>2. Current \in AllWindows /\ Current \in Int
    BY <2>1, CurrentWindow, AllWindowsType
  <2> QED
    BY <2>1, <2>2, CurrentWindow, StartType
<1>1. CASE Advance
  <2>1. clock' = clock + 1 /\ opens' = opens /\ draft' = None /\ opens[Current] # None
    BY <1>1 DEF Advance
  <2>2. ASSUME NEW w \in AllWindows
        PROVE  /\ Start(w) < clock' => opens'[w] # None
               /\ clock' < Start(w) => opens'[w] = None
    <3>1. w \in Int /\ Start(w) \in Int
      BY AllWindowsType, StartType
    <3>2. ASSUME Start(w) <= clock PROVE opens[w] # None
      <4>1. CASE w = Current
        BY <2>1, <4>1
      <4>2. CASE w < Current
        <5>1. Start(w) + Units <= Start(Current)
          BY <1>0, <3>1, <4>2, StartGrows
        <5>2. Start(w) < clock
          BY <1>0, <3>1, <5>1, UnitsType
        <5> QED
          BY <5>2 DEF Timed
      <4> QED
        BY <1>0, <3>1, <3>2, <4>1, <4>2
    <3>3. clock' < Start(w) => clock < Start(w)
      BY <1>0, <2>1, <3>1
    <3>4. Start(w) < clock' => Start(w) <= clock
      BY <1>0, <2>1, <3>1
    <3> QED
      BY <2>1, <3>2, <3>3, <3>4 DEF Timed
  <2> QED
    BY <2>1, <2>2 DEF Timed, Start, Units
<1>2. CASE OpenWindow
  <2>1. clock' = clock /\ opens[Current] = None /\ opens'[Current] \in Levels
        /\ \A w \in AllWindows \ {Current} : opens'[w] = opens[w]
    BY <1>2, OpenTypes DEF OpenWindow, Typed
  <2>2. opens'[Current] # None
    BY <2>1, NoLevel
  <2>3. ~(Start(Current) < clock)
    BY <1>0, <2>1 DEF Timed
  <2>4. clock = Start(Current)
    BY <1>0, <2>3
  <2>5. Current' = Current /\ \A w \in AllWindows : Start(w)' = Start(w)
    BY <2>1 DEF Current, Start, Units
  <2> QED
    BY <2>1, <2>2, <2>3, <2>4, <2>5 DEF Timed
<1>3. CASE Revise
  BY <1>3 DEF Revise, Timed, Current, Start
<1>4. CASE UNCHANGED <<clock, opens, draft>>
  BY <1>4 DEF Timed, Current, Start
<1> QED
  BY <1>1, <1>2, <1>3, <1>4, OnlyExchange

\* A final open stays what it is.
LEMMA OpensStay ==
  ASSUME Typed, [Next]_vars, NEW w \in AllWindows, opens[w] # None
  PROVE  opens'[w] = opens[w]
<1>1. CASE OpenWindow
  BY <1>1, OpenTypes DEF Typed
<1>2. CASE Advance
  BY <1>2 DEF Advance
<1>3. CASE Revise
  BY <1>3 DEF Revise
<1> QED
  BY <1>1, <1>2, <1>3, OnlyExchange

\* Whoever has waited for a window is told its final open.
LEMMA FinalOpen ==
  ASSUME Typed, Timed, NEW w \in AllWindows, OpenPrice(w) # None, Start(w) # clock
  PROVE  OpenPrice(w) = opens[w] /\ opens[w] # None
<1>1. w \in Int /\ Start(w) \in Int /\ w <= Current
  <2>1. Current \in Int
    BY CurrentWindow, AllWindowsType DEF Typed, Formal
  <2>2. w \in Int
    BY AllWindowsType
  <2>3. ~(w > Current)
    BY DEF OpenPrice
  <2> QED
    BY <2>1, <2>2, <2>3, StartType
<1>2. ~(w = Current /\ draft # None)
  BY DEF Timed
<1> QED
  BY <1>1, <1>2, AllWindowsType, CurrentWindow DEF OpenPrice, Typed, Formal

LEMMA WaitedOpen ==
  ASSUME Typed, Timed, NEW w \in AllWindows, OpenPrice(w) # None, Waited(w)
  PROVE  OpenPrice(w) = opens[w] /\ opens[w] # None
<1>1. ~(w > Current)
  BY DEF OpenPrice
<1>2. clock > Start(w) /\ clock \in Int /\ Start(w) \in Int
  BY <1>1, AllWindowsType, StartType DEF Waited, Typed, Formal
<1> QED
  BY <1>2, FinalOpen

LEMMA InitReferenced == Init => Referenced
<1> SUFFICES ASSUME Init PROVE Referenced
  OBVIOUS
<1>1. tick.step = "idle" /\ Len(journal) = 0
  BY AllWindowsType, IdleType DEF Init
<1>2. \A w \in AllWindows : cache[w] = None
  BY DEF Init, AllWindows
<1> QED
  BY <1>1, <1>2 DEF Referenced

\* What was a reference stays one: zero or an open.
LEMMA RefStays ==
  ASSUME Typed, [Next]_vars, NEW w \in AllWindows, NEW ref \in Nat, ref \in {0, opens[w]}
  PROVE  ref \in {0, opens'[w]}
<1>1. CASE ref = 0
  BY <1>1
<1>2. CASE ref = opens[w]
  <2>1. opens[w] # None
    BY <1>2, NoneAssumption
  <2> QED
    BY <1>2, <2>1, OpensStay
<1> QED
  BY <1>1, <1>2

LEMMA CacheStays ==
  ASSUME Typed, [Next]_vars, NEW w \in AllWindows, cache[w] \in {None, opens[w]}
  PROVE  cache[w] \in {None, opens'[w]}
<1>1. CASE cache[w] = None
  BY <1>1
<1>2. CASE cache[w] # None
  BY <1>2, OpensStay
<1> QED
  BY <1>1, <1>2

LEMMA JournalStays ==
  ASSUME Typed, Referenced, [Next]_vars, NEW i \in 1..Len(journal)
  PROVE  journal[i].view.ref \in {0, opens'[journal[i].window]}
<1>1. journal[i] \in Entries
  BY DEF Typed, Formal
<1>2. journal[i].window \in AllWindows /\ journal[i].view.ref \in Nat
  BY <1>1 DEF Entries, Views
<1> QED
  BY <1>2, RefStays DEF Referenced

LEMMA NextReferenced == Typed /\ Timed /\ Referenced /\ [Next]_vars => Referenced'
<1> SUFFICES ASSUME Typed, Timed, Referenced, [Next]_vars PROVE Referenced'
  OBVIOUS
<1> DEFINE Cached == \A w \in AllWindows : cache'[w] \in {None, opens'[w]}
           Viewed == tick'.step \in {"log", "record"} => tick'.view.ref \in {0, opens'[tick'.window]}
<1>1. tick.window \in AllWindows /\ tick \in Ticks
  BY DEF Typed, Formal, Ticks
<1>2. ASSUME cache' = cache \/ Forget PROVE Cached
  <2>1. CASE Forget
    BY <2>1, ForgetType
  <2>2. CASE cache' = cache
    BY <2>2, CacheStays DEF Referenced
  <2> QED
    BY <1>2, <2>1, <2>2
<1>3. ASSUME tick'.step \notin {"log", "record"} PROVE Viewed
  BY <1>3
<1>4. ASSUME tick.step \in {"log", "record"}, tick'.view = tick.view, tick'.window = tick.window PROVE Viewed
  <2>1. tick.view.ref \in Nat
    BY <1>4 DEF Typed, Staged, Views
  <2> QED
    BY <1>1, <1>4, <2>1, RefStays DEF Referenced
<1>5. ASSUME journal' = journal, Cached, Viewed PROVE Referenced'
  BY <1>5, JournalStays DEF Referenced
<1>6. ASSUME tick' = tick PROVE Viewed
  BY <1>3, <1>4, <1>6
<1>7. CASE Advance \/ OpenWindow \/ Revise
  BY <1>2, <1>5, <1>6, <1>7 DEF Advance, OpenWindow, Revise
<1>8. CASE BeginTick
  <2>1. /\ tick'.step \in {"ref", "log"} /\ tick' \in Ticks
        /\ tick'.step = "log" => tick'.view.ref = cache[tick'.window] /\ cache[tick'.window] # None
    BY <1>8, BeginTicks
  <2>2. tick'.window \in AllWindows
    BY <2>1 DEF Ticks
  <2>3. Viewed
    BY <2>1, <2>2, CacheStays DEF Referenced
  <2> QED
    BY <1>2, <1>5, <1>8, <2>3 DEF BeginTick
<1>9. CASE QuietTick
  <2>1. tick'.step = "due"
    BY <1>9, IdleType, CurrentWindow DEF QuietTick, Typed, Formal
  <2> QED
    BY <1>2, <1>3, <1>5, <1>9, <2>1 DEF QuietTick
<1>10. CASE ReadReference
  <2>1. /\ UNCHANGED <<opens, journal>> /\ Waited(tick.window)
    BY <1>10 DEF ReadReference, Reading
  <2>2. OpenPrice(tick.window) # None => OpenPrice(tick.window) = opens[tick.window]
    BY <1>1, <2>1, WaitedOpen
  <2>3. Cached
    BY <1>10, <2>1, <2>2, ReadTypes DEF Referenced
  <2>4. Viewed
    BY <1>10, <2>1, <2>2, ReadTypes
  <2> QED
    BY <1>5, <2>1, <2>3, <2>4
<1>11. CASE NoReference
  <2>1. tick.step = "ref" /\ tick' = WithView(0) /\ UNCHANGED <<cache, journal>>
    BY <1>11 DEF NoReference, Reading
  <2>2. Viewed
    BY <2>1, WithViews
  <2> QED
    BY <1>2, <1>5, <2>1, <2>2
<1>12. CASE LogTick
  <2>1. /\ UNCHANGED <<opens, cache>> /\ tick.step = "log" /\ Viewed
    BY <1>4, <1>12, LogTypes DEF LogTick
  <2>2. ASSUME NEW i \in 1..Len(journal') PROVE journal'[i].view.ref \in {0, opens'[journal'[i].window]}
    <3>1. Len(journal') = Len(journal) + 1 /\ Len(journal) \in Nat
      BY <1>12, LogTypes DEF Typed, Formal
    <3>2. CASE i \in 1..Len(journal)
      BY <1>12, <3>2, LogTypes, JournalStays
    <3>3. CASE i = Len(journal')
      BY <1>12, <2>1, <3>3, LogTypes DEF Referenced
    <3> QED
      BY <3>1, <3>2, <3>3
  <2> QED
    BY <1>2, <2>1, <2>2 DEF Referenced
<1>13. CASE RecordShadow
  <2>1. tick'.step = "due"
    BY <1>13, IdleAgain DEF RecordShadow
  <2> QED
    BY <1>2, <1>3, <1>5, <1>13, <2>1 DEF RecordShadow
<1>14. CASE RecordCut
  <2>1. tick'.step = "idle"
    BY <1>14, CutTypes, IdleAgain
  <2> QED
    BY <1>2, <1>3, <1>5, <1>14, <2>1 DEF RecordCut
<1>15. CASE FindDue
  <2>1. tick'.step \in {"idle", "settle"}
    BY <1>15, <1>1, IdleAgain DEF FindDue, Ticks
  <2> QED
    BY <1>2, <1>3, <1>5, <1>15, <2>1 DEF FindDue
<1>16. ASSUME NEW w \in DOMAIN ledger, SettleShadow(w) \/ PassOver(w) PROVE Referenced'
  <2>1. tick'.step \in {"idle", "settle"}
    BY <1>16, DoneType DEF SettleShadow, PassOver, Settling
  <2> QED
    BY <1>2, <1>3, <1>5, <1>16, <2>1 DEF SettleShadow, PassOver
<1>17. CASE Restart
  <2>1. tick'.step = "idle"
    BY <1>17, IdleAgain DEF Restart
  <2> QED
    BY <1>2, <1>3, <1>5, <1>17, <2>1 DEF Restart
<1>18. CASE UNCHANGED vars
  BY <1>2, <1>5, <1>6, <1>18 DEF vars
<1> QED
  BY <1>7, <1>8, <1>9, <1>10, <1>11, <1>12, <1>13, <1>14, <1>15, <1>16, <1>17, <1>18 DEF Next, Ticking

-----------------------------------------------------------------------------
(* Settlement.                                                             *)

Decided(w, m) == ledger[w][m] # None /\ ledger[w][m].outcome # None
FinalSide(w)  == IF opens[w + 1] >= opens[w] THEN "Up" ELSE "Down"

\* A window with a settled row is over, and has no other outcome and no open row; its final prices
\* say the same, unless the next open was provisional; and a tick that still looks at it began
\* after its end, when nobody signals.
Judged ==
    \A w \in AllWindows, m \in Models : Decided(w, m) =>
        /\ clock >= Start(w + 1)
        /\ \A n \in Models : ledger[w][n] # None => ledger[w][n].outcome = ledger[w][m].outcome
        /\ w \notin watch.drafted =>
            /\ w + 1 \in AllWindows /\ opens[w] # None /\ opens[w + 1] # None
            /\ ledger[w][m].outcome = FinalSide(w)
        /\ (tick.step \in {"ref", "log", "record"} /\ tick.window = w) => tick.now >= Start(w + 1)

LEMMA InitJudged == Init => Judged
  BY DEF Init, Judged, Decided, AllWindows

\* As long as a row and its tick stay as they are, so does what is said of them.
LEMMA DecidedStays ==
  ASSUME Typed, Judged, [Next]_vars, NEW w \in AllWindows, NEW m \in Models, Decided(w, m),
         ledger'[w] = ledger[w], watch.drafted \subseteq watch'.drafted,
         \/ tick'.step \notin {"ref", "log", "record"}
         \/ tick.step \in {"ref", "log", "record"} /\ tick'.window = tick.window /\ tick'.now = tick.now
         \/ tick'.now >= Start(w + 1)
  PROVE  /\ clock' >= Start(w + 1)'
         /\ \A n \in Models : ledger'[w][n] # None => ledger'[w][n].outcome = ledger'[w][m].outcome
         /\ w \notin watch'.drafted =>
            /\ w + 1 \in AllWindows /\ opens'[w] # None /\ opens'[w + 1] # None
            /\ ledger'[w][m].outcome = FinalSide(w)'
         /\ (tick'.step \in {"ref", "log", "record"} /\ tick'.window = w) => tick'.now >= Start(w + 1)'
<1>0. w \in Int /\ w + 1 \in Int
  BY AllWindowsType
<1>1. Start(w + 1)' = Start(w + 1) /\ Start(w + 1) \in Int
  <2>1. Start(w + 1)' = Start(w + 1)
    BY DEF Start
  <2> QED
    BY <1>0, <2>1, StartType
<1>2. clock' >= Start(w + 1)
  <2>1. clock' = clock \/ clock' = clock + 1
    BY OnlyExchange DEF Advance, OpenWindow, Revise
  <2>2. clock >= Start(w + 1) /\ clock \in Int
    BY DEF Judged, Typed, Formal
  <2> QED
    BY <1>1, <2>1, <2>2
<1>3. ASSUME w \notin watch'.drafted
      PROVE  /\ w + 1 \in AllWindows /\ opens'[w] # None /\ opens'[w + 1] # None
             /\ ledger'[w][m].outcome = FinalSide(w)'
  <2>1. /\ w + 1 \in AllWindows /\ opens[w] # None /\ opens[w + 1] # None
        /\ ledger[w][m].outcome = FinalSide(w)
    BY <1>3 DEF Judged
  <2>2. opens'[w] = opens[w] /\ opens'[w + 1] = opens[w + 1]
    BY <2>1, OpensStay
  <2> QED
    BY <2>1, <2>2 DEF FinalSide
<1>4. \A n \in Models : ledger[w][n] # None => ledger[w][n].outcome = ledger[w][m].outcome
  BY DEF Judged
<1>5. (tick.step \in {"ref", "log", "record"} /\ tick.window = w) => tick.now >= Start(w + 1)
  BY DEF Judged
<1> QED
  BY <1>1, <1>2, <1>3, <1>4, <1>5

LEMMA LedgerStays ==
  ASSUME Typed, Judged, [Next]_vars, ledger' = ledger, watch.drafted \subseteq watch'.drafted,
         \/ tick'.step \notin {"ref", "log", "record"}
         \/ tick.step \in {"ref", "log", "record"} /\ tick'.window = tick.window /\ tick'.now = tick.now
  PROVE  Judged'
<1>1. ASSUME NEW w \in AllWindows, NEW m \in Models, Decided(w, m)' PROVE Decided(w, m) /\ ledger'[w] = ledger[w]
  BY <1>1 DEF Decided
<1> QED
  BY <1>1, DecidedStays DEF Judged

\* A settled window gets no new rows: its tick sees no time left, and no model signals.
LEMMA RecordKeeps ==
  ASSUME Typed, Judged, tick.step = "record", NEW models, ledger' = LoggedBy(models),
         NEW w \in AllWindows, NEW m \in Models, Decided(w, m)'
  PROVE  Decided(w, m) /\ ledger'[w] = ledger[w]
<1>1. CASE w # tick.window
  BY <1>1, LoggedRows DEF Decided
<1>2. CASE w = tick.window
  <2>1. Decided(w, m)
    <3>1. ASSUME ledger[w][m] = None PROVE FALSE
      <4>1. ModelSignal(m, tick.view, Params) # None /\ ledger'[w][m] = Row(ModelSignal(m, tick.view, Params))
        BY <1>2, <3>1, LoggedRows DEF InsertOrIgnore, Decided
      <4>2. ledger'[w][m].outcome = None
        BY <4>1, RowType
      <4> QED
        BY <4>2 DEF Decided
    <3>2. ledger[w][m] # None => ledger'[w][m] = ledger[w][m]
      BY <1>2, LoggedRows DEF InsertOrIgnore
    <3> QED
      BY <3>1, <3>2 DEF Decided
  <2>2. tick.now >= Start(w + 1) /\ tick.now \in Nat /\ w \in Int /\ Start(w + 1) \in Int
    BY <1>2, <2>1, AllWindowsType, StartType DEF Judged, Typed, Formal, Ticks
  <2>3. ~(tick.view.left > 0) /\ tick.view \in Views
    <3>1. tick.view \in Views /\ tick.view.left = LeftIn(w, tick.now)
      BY <1>2 DEF Typed, Staged
    <3>2. ~(LeftIn(w, tick.now) > 0)
      BY <2>2, LeftType
    <3> QED
      BY <3>1, <3>2
  <2>4. \A n \in Models : ModelSignal(n, tick.view, Params) = None
    BY <2>3, SignalShape
  <2>5. \A n \in Models : ledger'[w][n] = ledger[w][n]
    BY <1>2, <2>4, LoggedRows DEF InsertOrIgnore
  <2>6. ledger'[w] \in [Models -> Rows \cup {None}] /\ ledger[w] \in [Models -> Rows \cup {None}]
    BY LoggedRows DEF Typed, Formal
  <2> QED
    BY <2>1, <2>5, <2>6
<1> QED
  BY <1>1, <1>2

\* What a settlement goes by: the final prices, or else the window is noted as settled early.
LEMMA SettleFacts ==
  ASSUME Typed, Timed, NEW w \in AllWindows, SettleShadow(w)
  PROVE  /\ clock >= Start(w + 1) /\ watch.drafted \subseteq watch'.drafted
         /\ w \notin watch'.drafted =>
              /\ w + 1 \in AllWindows /\ opens[w] # None /\ opens[w + 1] # None
              /\ UpWon(w) <=> opens[w + 1] >= opens[w]
<1>1. /\ OpenPrice(w) # None /\ Close(w) # None
      /\ watch' = IF ClosePrice(w) = None /\ draft # None
                  THEN [watch EXCEPT !.drafted = watch.drafted \cup {w}] ELSE watch
  BY DEF SettleShadow
<1>2. w \in Int /\ Start(w) \in Int /\ Start(w + 1) = Start(w) + Units /\ Start(w + 1) \in Int /\ clock \in Int
  BY AllWindowsType, StartType DEF Typed, Formal
<1>3. clock >= Start(w + 1)
  BY <1>1, <1>2 DEF Close, ClosePrice
<1>4. w + 1 <= Current /\ Current \in AllWindows /\ Current \in Int
  <2>1. clock \in 0..LastTime /\ w + 1 \in Int
    BY <1>2 DEF Typed, Formal
  <2>2. Current \in AllWindows /\ (w + 1 <= Current <=> Start(w + 1) <= clock)
    BY <2>1, CurrentWindow
  <2> QED
    BY <1>2, <1>3, <2>2, AllWindowsType
<1>5. w + 1 \in AllWindows
  BY <1>2, <1>4, BoundAssumption DEF AllWindows
<1>6. OpenPrice(w) = opens[w] /\ opens[w] # None
  BY <1>1, <1>2, <1>3, FinalOpen, UnitsType
<1>7. watch.drafted \subseteq watch'.drafted /\ watch \in Watches
  BY <1>1 DEF Typed, Formal, Watches
<1>8. ASSUME w \notin watch'.drafted PROVE opens[w + 1] # None /\ Close(w) = opens[w + 1]
  <2>1. CASE ClosePrice(w) # None
    BY <2>1 DEF Close, ClosePrice
  <2>2. CASE ClosePrice(w) = None
    <3>1. draft = None
      BY <1>1, <1>7, <1>8, <2>2 DEF Watches
    <3>2. Close(w) = OpenPrice(w + 1)
      BY <1>2, <1>3, <2>2 DEF Close
    <3> QED
      BY <1>1, <1>2, <1>4, <3>1, <3>2 DEF OpenPrice
  <2> QED
    BY <2>1, <2>2
<1> QED
  BY <1>3, <1>5, <1>6, <1>7, <1>8 DEF UpWon

LEMMA SettleJudged ==
  ASSUME Typed, Timed, Judged, [Next]_vars, NEW w \in AllWindows, SettleShadow(w)
  PROVE  Judged'
<1>1. /\ tick.step = "settle" /\ tick'.step \in {"idle", "settle"}
      /\ opens' = opens /\ clock' = clock
  BY DoneType DEF SettleShadow, Settling
<1>2. clock >= Start(w + 1) /\ watch.drafted \subseteq watch'.drafted
  BY SettleFacts
<1>3. PICK side \in Sides :
        /\ side = IF UpWon(w) THEN "Up" ELSE "Down"
        /\ \A v \in AllWindows \ {w} : ledger'[v] = ledger[v]
        /\ \A n \in Models : ledger'[w][n] = SettledRow(ledger[w][n], side)
        /\ ledger' \in [AllWindows -> [Models -> Rows \cup {None}]]
  BY SettledRowsOf
<1>4. ledger[w] \in [Models -> Rows \cup {None}] /\ \A n \in Models : ledger[w][n] \in Rows \cup {None}
  BY DEF Typed, Formal
<1>5. side # None
  BY NoneAssumption
<1>6. ASSUME NEW v \in AllWindows, NEW m \in Models, Decided(v, m)'
      PROVE  /\ clock' >= Start(v + 1)'
             /\ \A n \in Models : ledger'[v][n] # None => ledger'[v][n].outcome = ledger'[v][m].outcome
             /\ v \notin watch'.drafted =>
                /\ v + 1 \in AllWindows /\ opens'[v] # None /\ opens'[v + 1] # None
                /\ ledger'[v][m].outcome = FinalSide(v)'
             /\ (tick'.step \in {"ref", "log", "record"} /\ tick'.window = v) => tick'.now >= Start(v + 1)'
  <2>1. CASE ledger'[v] = ledger[v]
    <3>1. Decided(v, m)
      BY <1>6, <2>1 DEF Decided
    <3> QED
      BY <1>1, <1>2, <2>1, <3>1, DecidedStays
  <2>2. CASE v = w /\ \E n \in Models : Decided(w, n)
    <3>1. PICK k \in Models : Decided(w, k)
      BY <2>2
    <3>2. ASSUME NEW n \in Models PROVE ledger[w][n] = None \/ ledger[w][n].outcome # None
      BY <3>1 DEF Judged, Decided
    <3>3. \A n \in Models : ledger'[w][n] = ledger[w][n]
      <4> SUFFICES ASSUME NEW n \in Models PROVE ledger'[w][n] = ledger[w][n]
        OBVIOUS
      <4>1. ledger[w][n] \in Rows \cup {None} /\ ledger'[w][n] = SettledRow(ledger[w][n], side)
        BY <1>3, <1>4
      <4> QED
        BY <3>2, <4>1, SettledRowType
    <3>4. ledger'[w] = ledger[w]
      BY <1>3, <1>4, <3>3
    <3> QED
      BY <2>1, <2>2, <3>4
  <2>3. CASE v = w /\ ~\E n \in Models : Decided(w, n)
    <3>1. ASSUME NEW n \in Models
          PROVE  /\ ledger[w][n] = None => ledger'[w][n] = None
                 /\ ledger[w][n] # None => ledger'[w][n].outcome = side
      <4>1. /\ ledger[w][n] \in Rows \cup {None} /\ ledger'[w][n] = SettledRow(ledger[w][n], side)
            /\ ledger[w][n] = None \/ ledger[w][n].outcome = None
        BY <1>3, <1>4, <2>3 DEF Decided
      <4> QED
        BY <4>1, SettledRowType
    <3>2. \A n \in Models : ledger'[w][n] # None => ledger'[w][n].outcome = side
      BY <3>1
    <3>3. ledger'[w][m].outcome = side
      BY <1>6, <2>3, <3>2 DEF Decided
    <3>4. v \notin watch'.drafted => side = FinalSide(w)
      BY <1>3, <2>3, SettleFacts DEF FinalSide
    <3>5. Start(w + 1)' = Start(w + 1) /\ FinalSide(w)' = FinalSide(w)
      BY <1>1 DEF Start, FinalSide
    <3> QED
      BY <1>1, <1>2, <2>3, <3>2, <3>3, <3>4, <3>5, SettleFacts
  <2> QED
    BY <1>3, <2>1, <2>2, <2>3
<1> QED
  BY <1>6 DEF Judged

LEMMA NextJudged == Typed /\ Timed /\ Judged /\ [Next]_vars => Judged'
<1> SUFFICES ASSUME Typed, Timed, Judged, [Next]_vars PROVE Judged'
  OBVIOUS
<1>1. tick \in Ticks /\ tick.window \in AllWindows
  BY DEF Typed, Formal, Ticks
<1>2. ASSUME tick' = tick, ledger' = ledger, watch' = watch PROVE Judged'
  BY <1>2, LedgerStays
<1>3. CASE Advance \/ OpenWindow \/ Revise
  BY <1>2, <1>3 DEF Advance, OpenWindow, Revise
<1>4. CASE BeginTick
  <2>1. ledger' = ledger /\ watch'.drafted = watch.drafted /\ tick'.now = clock
    BY <1>4, BeginTicks DEF BeginTick
  <2>2. ASSUME NEW w \in AllWindows, NEW m \in Models, Decided(w, m)' PROVE Decided(w, m) /\ clock >= Start(w + 1)
    BY <2>1, <2>2 DEF Decided, Judged
  <2> QED
    BY <2>1, <2>2, DecidedStays DEF Judged
<1>5. CASE QuietTick
  <2>1. tick'.step = "due" /\ UNCHANGED <<ledger, watch>>
    BY <1>5, IdleType, CurrentWindow DEF QuietTick, Typed, Formal
  <2> QED
    BY <2>1, LedgerStays
<1>6. CASE ReadReference
  BY <1>6, ReadTypes, LedgerStays DEF ReadReference, Reading
<1>7. CASE NoReference
  <2>1. /\ tick.step = "ref" /\ ledger' = ledger /\ watch'.drafted = watch.drafted
        /\ tick'.window = tick.window /\ tick'.now = tick.now
    BY <1>7, FailedType, WithViews DEF NoReference, Reading
  <2> QED
    BY <2>1, LedgerStays
<1>8. CASE LogTick
  BY <1>8, LogTypes, LedgerStays DEF LogTick
<1>9. CASE RecordShadow
  <2>1. /\ tick.step = "record" /\ watch' = watch /\ ledger' = LoggedBy(IF Shadowed THEN Roster ELSE <<>>)
        /\ tick'.step = "due"
    BY <1>9, IdleAgain DEF RecordShadow
  <2> QED
    BY <2>1, RecordKeeps, DecidedStays DEF Judged
<1>10. CASE RecordCut
  <2>1. /\ tick.step = "record" /\ watch'.drafted = watch.drafted /\ tick'.step = "idle"
        /\ \E k \in 0..Len(Roster) - 1 : ledger' = LoggedBy(SubSeq(Roster, 1, k))
    BY <1>10, CutTypes, IdleAgain DEF RecordCut
  <2> QED
    BY <2>1, RecordKeeps, DecidedStays DEF Judged
<1>11. CASE FindDue
  <2>1. tick'.step \in {"idle", "settle"} /\ UNCHANGED <<ledger, watch>>
    BY <1>11, <1>1, IdleAgain DEF FindDue, Ticks
  <2> QED
    BY <2>1, LedgerStays
<1>12. ASSUME NEW w \in DOMAIN ledger, SettleShadow(w) PROVE Judged'
  BY <1>12, SettleJudged DEF Typed, Formal
<1>13. ASSUME NEW w \in DOMAIN ledger, PassOver(w) PROVE Judged'
  <2>1. ledger' = ledger /\ watch'.drafted = watch.drafted
    BY <1>13, FailedType DEF PassOver
  <2>2. tick'.step \in {"idle", "settle"}
    BY <1>13, DoneType DEF PassOver, Settling
  <2> QED
    BY <2>1, <2>2, LedgerStays
<1>14. CASE Restart
  <2>1. tick'.step = "idle" /\ ledger' = ledger /\ watch'.drafted = watch.drafted
    BY <1>14, IdleAgain, FailedType DEF Restart
  <2> QED
    BY <2>1, LedgerStays
<1>15. CASE UNCHANGED vars
  BY <1>2, <1>15 DEF vars
<1> QED
  BY <1>3, <1>4, <1>5, <1>6, <1>7, <1>8, <1>9, <1>10, <1>11, <1>12, <1>13, <1>14, <1>15 DEF Next, Ticking

-----------------------------------------------------------------------------
(* The record: what is journalled and logged.                              *)

TwoAsks(view) == \A s \in Sides : view.ask[s] # None

\* The ticks of a window whose record is not torn can be replayed.
Whole ==
    \A i \in 1..Len(journal) : journal[i].window \notin watch.torn =>
        ~Degraded(journal[i].view) /\ TwoAsks(journal[i].view)

LEMMA InitWhole == Init => Whole
  BY DEF Init, Whole

\* Only _log_tick writes the journal, and a torn record stays torn.
LEMMA OnlyLogTick ==
  ASSUME Typed, [Next]_vars
  PROVE  /\ watch.torn \subseteq watch'.torn
         /\ LogTick \/ (tick'.step # "record" /\ journal' = journal) \/ (tick' = tick /\ journal' = journal)
<1>1. CASE Advance \/ OpenWindow \/ Revise \/ UNCHANGED vars
  BY <1>1 DEF Advance, OpenWindow, Revise, vars
<1>2. CASE BeginTick
  BY <1>2, BeginTicks DEF BeginTick
<1>3. CASE QuietTick
  BY <1>3, IdleType, CurrentWindow DEF QuietTick, Typed, Formal
<1>4. CASE ReadReference
  BY <1>4, ReadTypes DEF ReadReference
<1>5. CASE NoReference
  <2>1. tick.step = "ref" /\ tick' = WithView(0) /\ journal' = journal /\ watch'.torn = watch.torn
    BY <1>5, FailedType DEF NoReference, Reading
  <2> QED
    BY <2>1, WithViews
<1>6. CASE LogTick
  BY <1>6, LogTypes
<1>7. CASE RecordShadow
  BY <1>7, IdleAgain DEF RecordShadow
<1>8. CASE RecordCut
  BY <1>8, CutTypes, IdleAgain DEF RecordCut
<1>9. CASE FindDue
  <2>1. tick \in Ticks
    BY DEF Typed, Formal
  <2> QED
    BY <1>9, <2>1, IdleAgain DEF FindDue, Ticks
<1>10. ASSUME NEW w \in DOMAIN ledger, SettleShadow(w)
       PROVE  tick'.step # "record" /\ journal' = journal /\ watch.torn \subseteq watch'.torn
  <2>1. watch \in Watches /\ tick.step = "settle" /\ tick' = Done(w)
    BY <1>10 DEF Typed, Formal, SettleShadow, Settling
  <2>2. watch'.torn = watch.torn
    BY <1>10, <2>1 DEF SettleShadow, Watches
  <2> QED
    BY <1>10, <2>1, <2>2, DoneType DEF SettleShadow
<1>11. ASSUME NEW w \in DOMAIN ledger, PassOver(w)
       PROVE  tick'.step # "record" /\ journal' = journal /\ watch.torn \subseteq watch'.torn
  <2>1. tick.step = "settle" /\ tick' = Done(w) /\ journal' = journal /\ watch'.torn = watch.torn
    BY <1>11, FailedType DEF PassOver, Settling
  <2> QED
    BY <2>1, DoneType
<1>12. CASE Restart
  BY <1>12, IdleAgain, FailedType DEF Restart
<1> QED
  BY <1>1, <1>2, <1>3, <1>4, <1>5, <1>6, <1>7, <1>8, <1>9, <1>10, <1>11, <1>12 DEF Next, Ticking

LEMMA NextWhole == Typed /\ Whole /\ [Next]_vars => Whole'
<1> SUFFICES ASSUME Typed, Whole, [Next]_vars PROVE Whole'
  OBVIOUS
<1>1. watch.torn \subseteq watch'.torn
  BY OnlyLogTick
<1>2. CASE journal' = journal
  BY <1>1, <1>2 DEF Whole, Degraded, TwoAsks
<1>3. CASE LogTick
  <2>1. ASSUME NEW i \in 1..Len(journal'), journal'[i].window \notin watch'.torn
        PROVE  ~Degraded(journal'[i].view) /\ TwoAsks(journal'[i].view)
    <3>1. Len(journal') = Len(journal) + 1 /\ Len(journal) \in Nat
      BY <1>3, LogTypes DEF Typed, Formal
    <3>2. CASE i \in 1..Len(journal)
      <4>1. journal'[i] = journal[i]
        BY <1>3, <3>2, LogTypes
      <4> QED
        BY <1>1, <2>1, <3>2, <4>1 DEF Whole
    <3>3. CASE i = Len(journal')
      <4>1. journal'[i].window = tick.window /\ journal'[i].view = tick.view
        BY <1>3, <3>3, LogTypes
      <4>2. Replayable
        BY <1>3, <2>1, <4>1, LogTypes
      <4> QED
        BY <4>1, <4>2 DEF Replayable, TwoAsks
    <3> QED
      BY <3>1, <3>2, <3>3
  <2> QED
    BY <2>1 DEF Whole, Degraded, TwoAsks
<1> QED
  BY <1>2, <1>3, OnlyLogTick

\* The ticks the ledger has seen: not the one whose signals are being logged.
Seen == IF tick.step = "record" THEN Len(journal) - 1 ELSE Len(journal)

\* A model has no row in a window, where none of the ticks seen has a signal of it; or else the row
\* is that of the first of them.
Replays(w, m) ==
    LET row == ledger[w][m]
        fires(i) == journal[i].window = w /\ ModelSignal(m, journal[i].view, Params) # None
    IN  /\ row = None => \A i \in 1..Seen : ~fires(i)
        /\ row # None =>
            /\ row.at \in 1..Seen /\ fires(row.at)
            /\ row.side = ModelSignal(m, journal[row.at].view, Params).side
            /\ row.price = ModelSignal(m, journal[row.at].view, Params).price
            /\ \A i \in 1..Seen : fires(i) => row.at <= i
Replayed == \A w \in AllWindows \ watch.torn, m \in Models : Replays(w, m)

\* A row is of a tick that was seen, and has the row of the wider model beside it.
Narrowed ==
    /\ \A w \in AllWindows, m \in Models : ledger[w][m] # None => ledger[w][m].at <= Seen
    /\ \A w \in AllWindows, m \in DOMAIN Narrows :
        LET row   == ledger[w][m]
            wider == ledger[w][Narrows[m]]
        IN  row # None => /\ wider # None /\ wider.at <= row.at
                          /\ wider.at = row.at => wider.side = row.side /\ wider.price = row.price

\* Apart from the outcomes, a window's rows are what they were.
SameRows(w) ==
    \A m \in Models :
        /\ ledger[w][m] = None => ledger'[w][m] = None
        /\ ledger[w][m] # None =>
            /\ ledger'[w][m] # None /\ ledger'[w][m].at = ledger[w][m].at
            /\ ledger'[w][m].side = ledger[w][m].side /\ ledger'[w][m].price = ledger[w][m].price

\* Logging the signals changes rows, and nothing else but their settlement does.
LEMMA OnlyRecord ==
  ASSUME Typed, [Next]_vars
  PROVE  RecordShadow \/ RecordCut \/ \A w \in AllWindows : SameRows(w)
<1>1. CASE ledger' = ledger
  BY <1>1 DEF SameRows
<1>2. ASSUME NEW v \in DOMAIN ledger, SettleShadow(v), NEW w \in AllWindows PROVE SameRows(w)
  <2>1. v \in AllWindows /\ \A m \in Models : ledger[w][m] \in Rows \cup {None}
    BY DEF Typed, Formal
  <2>2. PICK side \in Sides :
          /\ \A u \in AllWindows \ {v} : ledger'[u] = ledger[u]
          /\ \A m \in Models : ledger'[v][m] = SettledRow(ledger[v][m], side)
    BY <1>2, <2>1, SettledRowsOf
  <2>3. CASE w # v
    BY <2>2, <2>3 DEF SameRows
  <2>4. CASE w = v
    BY <2>1, <2>2, <2>4, SettledRowType DEF SameRows
  <2> QED
    BY <2>3, <2>4
<1> QED
  BY <1>1, <1>2 DEF Next, Ticking, Advance, OpenWindow, Revise, BeginTick, QuietTick, ReadReference, NoReference, LogTick,
       FindDue, PassOver, Restart, vars

LEMMA SeenType == ASSUME Typed PROVE Seen \in Nat /\ Seen <= Len(journal) /\ Len(journal) \in Nat
  BY DEF Typed, Formal, Staged, Seen

\* No step but the logging of the signals moves what the ledger has seen.
LEMMA SeenStays ==
  ASSUME Typed, [Next]_vars
  PROVE  RecordShadow \/ RecordCut \/ (Seen' = Seen /\ \A i \in 1..Seen : journal'[i] = journal[i])
<1>1. CASE LogTick
  <2>1. /\ tick.step = "log" /\ tick'.step = "record" /\ Len(journal') = Len(journal) + 1 /\ Len(journal) \in Nat
        /\ \A i \in 1..Len(journal) : journal'[i] = journal[i]
    BY <1>1, LogTypes DEF LogTick, Typed, Formal
  <2> QED
    BY <2>1 DEF Seen
<1>2. CASE tick' = tick /\ journal' = journal
  BY <1>2 DEF Seen
<1>3. CASE tick'.step # "record" /\ journal' = journal
  <2>1. CASE tick.step = "record"
    <3>1. RecordShadow \/ RecordCut \/ tick' = tick
      BY <2>1 DEF Next, Ticking, Advance, OpenWindow, Revise, BeginTick, QuietTick, ReadReference, Reading, NoReference,
           LogTick, FindDue, SettleShadow, PassOver, Settling, Restart, vars
    <3> QED
      BY <1>2, <1>3, <3>1
  <2>2. CASE tick.step # "record"
    BY <1>3, <2>2 DEF Seen
  <2> QED
    BY <2>1, <2>2
<1> QED
  BY <1>1, <1>2, <1>3, OnlyLogTick

LEMMA InitReplayed == Init => Replayed /\ Narrowed
<1> SUFFICES ASSUME Init PROVE Replayed /\ Narrowed
  OBVIOUS
<1>1. Seen = 0 /\ \A w \in AllWindows, m \in Models : ledger[w][m] = None
  BY AllWindowsType, IdleType DEF Init, Seen, AllWindows
<1>2. \A m \in DOMAIN Narrows : m \in Models
  BY TheModels DEF Narrows
<1> QED
  BY <1>1, <1>2 DEF Replayed, Replays, Narrowed

LEMMA SameReplays ==
  ASSUME Typed, NEW w \in AllWindows, NEW m \in Models, Replays(w, m), SameRows(w), Seen' = Seen,
         \A i \in 1..Seen : journal'[i] = journal[i]
  PROVE  Replays(w, m)'
  BY DEF Replays, SameRows

\* What a completed record adds to a window: the rows of the models that had none and signal now.
LEMMA RecordSeen ==
  ASSUME Typed, tick.step = "record", NEW models, ledger' = LoggedBy(models), tick'.step # "record", journal' = journal
  PROVE  /\ Seen' = Len(journal) /\ Seen = Len(journal) - 1 /\ Len(journal) \in 1..MaxTicks
         /\ journal[Len(journal)].window = tick.window /\ journal[Len(journal)].view = tick.view
  BY BoundAssumption DEF Seen, Typed, Formal, Staged

LEMMA RecordReplays ==
  ASSUME Typed, tick.step = "record", NEW models, ledger' = LoggedBy(models), tick'.step # "record", journal' = journal,
         NEW w \in AllWindows, NEW m \in Models, Replays(w, m), w = tick.window => m \in ToSet(models)
  PROVE  Replays(w, m)'
<1>1. /\ Seen' = Len(journal) /\ Seen = Len(journal) - 1 /\ Len(journal) \in 1..MaxTicks
      /\ journal[Len(journal)].window = tick.window /\ journal[Len(journal)].view = tick.view
  BY RecordSeen
<1>2. \A i \in 1..Seen' : i \in 1..Seen \/ i = Len(journal)
  BY <1>1
<1>3. \A i \in 1..Seen : i \in 1..Seen' /\ i <= Len(journal)
  BY <1>1
<1>4. CASE w # tick.window
  <2>1. ledger'[w] = ledger[w]
    BY <1>4, LoggedRows
  <2> QED
    BY <1>1, <1>2, <1>3, <1>4, <2>1 DEF Replays
<1>5. CASE w = tick.window /\ ledger[w][m] # None
  <2>1. ledger'[w][m] = ledger[w][m]
    BY <1>5, LoggedRows DEF InsertOrIgnore
  <2>2. /\ ledger[w][m].at \in 1..Seen
        /\ \A i \in 1..Seen : journal[i].window = w /\ ModelSignal(m, journal[i].view, Params) # None => ledger[w][m].at <= i
    BY <1>5 DEF Replays
  <2>3. \A i \in 1..Seen' : journal[i].window = w /\ ModelSignal(m, journal[i].view, Params) # None => ledger[w][m].at <= i
    BY <1>2, <1>3, <2>2
  <2> QED
    BY <1>3, <1>5, <2>1, <2>2, <2>3 DEF Replays
<1>6. CASE w = tick.window /\ ledger[w][m] = None /\ ModelSignal(m, tick.view, Params) = None
  <2>1. ledger'[w][m] = None
    BY <1>6, LoggedRows DEF InsertOrIgnore
  <2>2. \A i \in 1..Seen' : ~(journal[i].window = w /\ ModelSignal(m, journal[i].view, Params) # None)
    BY <1>1, <1>2, <1>6 DEF Replays
  <2> QED
    BY <2>1, <2>2 DEF Replays
<1>7. CASE w = tick.window /\ ledger[w][m] = None /\ ModelSignal(m, tick.view, Params) # None
  <2> DEFINE s   == ModelSignal(m, tick.view, Params)
             row == Row(s)
  <2>1. ledger'[w][m] = row
    BY <1>7, LoggedRows DEF InsertOrIgnore
  <2>2. row \in Rows /\ row.at = Len(journal) /\ row.side = s.side /\ row.price = s.price
    BY <1>7, RowType DEF Row
  <2>3. row # None
    BY <2>2, NoneAssumption
  <2>4. s = ModelSignal(m, journal[Len(journal)].view, Params) /\ s # None
    BY <1>1, <1>7
  <2> HIDE DEF row, s
  <2>5. \A i \in 1..Seen' : journal[i].window = w /\ ModelSignal(m, journal[i].view, Params) # None => Len(journal) <= i
    BY <1>1, <1>2, <1>7 DEF Replays
  <2>6. Len(journal) \in 1..Seen'
    BY <1>1
  <2> QED
    BY <1>1, <1>7, <2>1, <2>2, <2>3, <2>4, <2>5, <2>6 DEF Replays
<1> QED
  BY <1>4, <1>5, <1>6, <1>7

\* A tick whose record can be replayed was shadowed by the whole roster.
LEMMA WholeShadowed ==
  ASSUME Typed, Whole, tick.step = "record", tick.window \notin watch.torn
  PROVE  Shadowed
<1>1. Len(journal) \in 1..Len(journal) /\ journal[Len(journal)].window = tick.window /\ journal[Len(journal)].view = tick.view
  BY DEF Typed, Formal, Staged
<1>2. ~Degraded(tick.view) /\ TwoAsks(tick.view)
  BY <1>1 DEF Whole
<1>3. "Up" \in Candidates(tick.view)
  BY <1>2 DEF TwoAsks, Candidates, Sides
<1> QED
  BY <1>2, <1>3 DEF Shadowed

LEMMA NextReplayed == Typed /\ Whole /\ Replayed /\ [Next]_vars => Replayed'
<1> SUFFICES ASSUME Typed, Whole, Replayed, [Next]_vars, NEW w \in AllWindows, w \notin watch'.torn, NEW m \in Models
             PROVE  Replays(w, m)'
  BY DEF Replayed
<1>1. w \notin watch.torn
  BY OnlyLogTick
<1>2. Replays(w, m)
  BY <1>1 DEF Replayed
<1>3. CASE RecordShadow
  <2>1. /\ tick.step = "record" /\ journal' = journal /\ tick'.step = "due"
        /\ ledger' = LoggedBy(IF Shadowed THEN Roster ELSE <<>>)
    BY <1>3, IdleAgain DEF RecordShadow
  <2>2. w = tick.window => Shadowed
    BY <1>1, <2>1, WholeShadowed
  <2>3. w = tick.window => m \in ToSet(IF Shadowed THEN Roster ELSE <<>>)
    BY <2>2 DEF Models
  <2> QED
    BY <1>2, <2>1, <2>3, RecordReplays
<1>4. CASE RecordCut
  <2>1. /\ tick.step = "record" /\ journal' = journal /\ tick'.step = "idle" /\ w # tick.window
        /\ \E k \in 0..Len(Roster) - 1 : ledger' = LoggedBy(SubSeq(Roster, 1, k))
    BY <1>4, CutTypes, IdleAgain DEF RecordCut
  <2> QED
    BY <1>2, <2>1, RecordReplays
<1>5. CASE ~RecordShadow /\ ~RecordCut
  BY <1>2, <1>5, OnlyRecord, SeenStays, SameReplays
<1> QED
  BY <1>3, <1>4, <1>5

LEMMA PrefixSet ==
  ASSUME NEW S, NEW s \in Seq(S), NEW k \in 0..Len(s)
  PROVE  ToSet(SubSeq(s, 1, k)) = {s[i] : i \in 1..k}
<1>1. /\ Len(SubSeq(s, 1, k)) = k /\ DOMAIN SubSeq(s, 1, k) = 1..k
      /\ \A i \in 1..k : SubSeq(s, 1, k)[i] = s[i]
  OBVIOUS
<1> QED
  BY <1>1 DEF ToSet

\* Whoever of the roster is logged, the model it narrows was logged before.
LEMMA RosterOrder ==
  ASSUME NEW k \in 0..Len(Roster) - 1, NEW m \in DOMAIN Narrows, m \in ToSet(SubSeq(Roster, 1, k))
  PROVE  Narrows[m] \in ToSet(SubSeq(Roster, 1, k))
<1>1. /\ Len(Roster) = 5 /\ Roster[1] = "v0" /\ Roster[2] = "v2" /\ Roster[3] = "v7" /\ Roster[4] = "v8"
      /\ Roster[5] = "f45" /\ Roster \in Seq(Models)
  <2>1. Len(Roster) = 5
    BY DEF Roster
  <2>2. Roster[1] = "v0" /\ Roster[2] = "v2" /\ Roster[3] = "v7" /\ Roster[4] = "v8" /\ Roster[5] = "f45"
    BY DEF Roster
  <2>3. Roster \in Seq(Models)
    BY TheModels DEF Roster
  <2> QED
    BY <2>1, <2>2, <2>3
<1>0. k \in Nat /\ k <= 4 /\ k \in 0..Len(Roster)
  BY <1>1
<1>2. ToSet(SubSeq(Roster, 1, k)) = {Roster[i] : i \in 1..k}
  BY <1>0, <1>1, PrefixSet
<1>3. PICK i \in 1..k : m = Roster[i]
  BY <1>2
<1>11. i \in {1, 2, 3, 4} /\ m = Roster[i]
  BY <1>0, <1>3
<1>4. m = "v2" => i = 2
  BY <1>1, <1>11
<1>5. m = "v7" => i = 3
  BY <1>1, <1>11
<1>6. m = "v8" => i = 4
  BY <1>1, <1>11
<1>7. m # "f45"
  BY <1>1, <1>11
<1>8. m \in {"v2", "v7", "v8"}
  BY <1>7 DEF Narrows
<1>9. CASE m = "v2" \/ m = "v8"
  <2>1. Narrows[m] = Roster[1] /\ 1 \in 1..k
    BY <1>1, <1>3, <1>9 DEF Narrows
  <2> QED
    BY <1>2, <2>1
<1>10. CASE m = "v7"
  <2>1. Narrows[m] = Roster[2] /\ 2 \in 1..k
    BY <1>1, <1>3, <1>5, <1>10 DEF Narrows
  <2> QED
    BY <1>2, <2>1
<1> QED
  BY <1>8, <1>9, <1>10

LEMMA RecordNarrows ==
  ASSUME Typed, Narrowed, tick.step = "record", NEW models, ledger' = LoggedBy(models), tick'.step # "record",
         journal' = journal, \A m \in DOMAIN Narrows : m \in ToSet(models) => Narrows[m] \in ToSet(models)
  PROVE  Narrowed'
<1>1. Seen' = Len(journal) /\ Seen = Len(journal) - 1 /\ Len(journal) \in 1..MaxTicks
  BY RecordSeen
<1>2. ASSUME NEW w \in AllWindows, NEW m \in Models, ledger'[w][m] # None
      PROVE  \/ ledger[w][m] # None /\ ledger'[w][m] = ledger[w][m]
             \/ /\ w = tick.window /\ m \in ToSet(models) /\ ledger[w][m] = None
                /\ ModelSignal(m, tick.view, Params) # None
                /\ ledger'[w][m] = Row(ModelSignal(m, tick.view, Params)) /\ ledger'[w][m].at = Len(journal)
  BY <1>2, LoggedRows, RowType DEF InsertOrIgnore
<1>3. \A w \in AllWindows, m \in Models : ledger[w][m] # None => ledger[w][m] \in Rows /\ ledger'[w][m] = ledger[w][m]
  BY LoggedRows DEF InsertOrIgnore, Typed, Formal
<1>4. \A w \in AllWindows, m \in Models : ledger'[w][m] # None => ledger'[w][m].at <= Len(journal)
  <2> SUFFICES ASSUME NEW w \in AllWindows, NEW m \in Models, ledger'[w][m] # None
               PROVE  ledger'[w][m].at <= Len(journal)
    OBVIOUS
  <2>1. CASE ledger[w][m] # None
    <3>1. ledger[w][m].at <= Len(journal) - 1 /\ ledger[w][m].at \in Int /\ Len(journal) \in Int
      BY <1>1, <1>3, <2>1, BoundAssumption DEF Narrowed, Rows
    <3> QED
      BY <1>3, <2>1, <3>1
  <2>2. CASE ledger[w][m] = None
    BY <1>1, <1>2, <2>2
  <2> QED
    BY <2>1, <2>2
<1>5. ASSUME NEW w \in AllWindows, NEW m \in DOMAIN Narrows, ledger'[w][m] # None
      PROVE  /\ ledger'[w][Narrows[m]] # None /\ ledger'[w][Narrows[m]].at <= ledger'[w][m].at
             /\ ledger'[w][Narrows[m]].at = ledger'[w][m].at =>
                  ledger'[w][Narrows[m]].side = ledger'[w][m].side /\ ledger'[w][Narrows[m]].price = ledger'[w][m].price
  <2>1. m \in Models /\ Narrows[m] \in Models
    BY TheModels DEF Narrows
  <2>2. CASE ledger[w][m] # None
    <3>1. ledger[w][Narrows[m]] # None
      BY <2>2 DEF Narrowed
    <3> QED
      BY <1>3, <2>1, <2>2, <3>1 DEF Narrowed
  <2>3. CASE ledger[w][m] = None
    <3>1. /\ w = tick.window /\ m \in ToSet(models) /\ ModelSignal(m, tick.view, Params) # None
          /\ ledger'[w][m] = Row(ModelSignal(m, tick.view, Params)) /\ ledger'[w][m].at = Len(journal)
      BY <1>2, <1>5, <2>1, <2>3
    <3>2. /\ ModelSignal(Narrows[m], tick.view, Params) = ModelSignal(m, tick.view, Params)
          /\ Narrows[m] \in ToSet(models)
      BY <3>1, NarrowSignal DEF Typed, Staged
    <3>3. CASE ledger[w][Narrows[m]] # None
      <4>1. ledger'[w][Narrows[m]] = ledger[w][Narrows[m]] /\ ledger[w][Narrows[m]] \in Rows
        BY <1>3, <2>1, <3>3
      <4>2. ledger[w][Narrows[m]].at <= Len(journal) - 1 /\ ledger[w][Narrows[m]].at \in Int
        BY <1>1, <2>1, <3>3, <4>1 DEF Narrowed, Rows
      <4> QED
        BY <1>1, <3>1, <3>3, <4>1, <4>2
    <3>4. CASE ledger[w][Narrows[m]] = None
      <4>1. ledger'[w][Narrows[m]] = Row(ModelSignal(m, tick.view, Params))
        BY <2>1, <3>1, <3>2, <3>4, LoggedRows DEF InsertOrIgnore
      <4>2. ledger'[w][Narrows[m]] = ledger'[w][m] /\ ledger'[w][m].at \in Int
        BY <1>1, <3>1, <4>1
      <4> QED
        BY <1>5, <4>2
    <3> QED
      BY <3>3, <3>4
  <2> QED
    BY <2>2, <2>3
<1> QED
  BY <1>1, <1>4, <1>5 DEF Narrowed, Narrows

LEMMA NextNarrowed == Typed /\ Narrowed /\ [Next]_vars => Narrowed'
<1> SUFFICES ASSUME Typed, Narrowed, [Next]_vars PROVE Narrowed'
  OBVIOUS
<1>1. CASE RecordShadow
  <2>1. /\ tick.step = "record" /\ journal' = journal /\ tick'.step = "due"
        /\ ledger' = LoggedBy(IF Shadowed THEN Roster ELSE <<>>)
    BY <1>1, IdleAgain DEF RecordShadow
  <2>2. \A m \in DOMAIN Narrows : Narrows[m] \in ToSet(Roster)
    BY TheModels DEF Narrows, Models
  <2>3. ToSet(<<>>) = {}
    BY DEF ToSet
  <2>4. \A m \in DOMAIN Narrows : m \in ToSet(IF Shadowed THEN Roster ELSE <<>>) =>
            Narrows[m] \in ToSet(IF Shadowed THEN Roster ELSE <<>>)
    BY <2>2, <2>3
  <2> QED
    BY <2>1, <2>4, RecordNarrows
<1>2. CASE RecordCut
  <2>1. /\ tick.step = "record" /\ journal' = journal /\ tick'.step = "idle"
        /\ \E k \in 0..Len(Roster) - 1 : ledger' = LoggedBy(SubSeq(Roster, 1, k))
    BY <1>2, CutTypes, IdleAgain DEF RecordCut
  <2> QED
    BY <2>1, RosterOrder, RecordNarrows
<1>3. CASE ~RecordShadow /\ ~RecordCut
  <2>1. Seen' = Seen /\ \A w \in AllWindows : SameRows(w)
    BY <1>3, OnlyRecord, SeenStays
  <2>2. \A m \in DOMAIN Narrows : m \in Models /\ Narrows[m] \in Models
    BY TheModels DEF Narrows
  <2>3. \A w \in AllWindows, m \in Models : ledger'[w][m] # None => ledger'[w][m].at <= Seen'
    BY <2>1 DEF SameRows, Narrowed
  <2>4. ASSUME NEW w \in AllWindows, NEW m \in DOMAIN Narrows, ledger'[w][m] # None
        PROVE  /\ ledger'[w][Narrows[m]] # None /\ ledger'[w][Narrows[m]].at <= ledger'[w][m].at
               /\ ledger'[w][Narrows[m]].at = ledger'[w][m].at =>
                    ledger'[w][Narrows[m]].side = ledger'[w][m].side /\ ledger'[w][Narrows[m]].price = ledger'[w][m].price
    <3>1. ledger[w][m] # None /\ SameRows(w) /\ m \in Models /\ Narrows[m] \in Models
      BY <2>1, <2>2, <2>4 DEF SameRows
    <3>2. /\ ledger[w][Narrows[m]] # None /\ ledger[w][Narrows[m]].at <= ledger[w][m].at
          /\ ledger[w][Narrows[m]].at = ledger[w][m].at =>
               ledger[w][Narrows[m]].side = ledger[w][m].side /\ ledger[w][Narrows[m]].price = ledger[w][m].price
      BY <3>1 DEF Narrowed
    <3> QED
      BY <3>1, <3>2 DEF SameRows
  <2> QED
    BY <2>3, <2>4 DEF Narrowed, Narrows
<1> QED
  BY <1>1, <1>2, <1>3

-----------------------------------------------------------------------------
(* The loop's own decision.                                                *)

\* Without a lure every model says the same of the books the loop can buy and of all.
LEMMA SameSignal ==
  ASSUME NEW v \in Views, Lures(v) = {}, NEW m \in Models
  PROVE  ModelSignal(m, Buyable(v), Params) = ModelSignal(m, v, Params)
<1> DEFINE b == Buyable(v)
<1>1. b.left = v.left /\ b.spot = v.spot /\ b.ref = v.ref
  <2>1. Legible(v)
    BY ViewsLegible
  <2> DEFINE ask == [s \in Sides |-> IF s \in Crossed(v) THEN None ELSE v.ask[s]]
  <2>2. b = [left |-> v.left, spot |-> v.spot, ref |-> v.ref, fair |-> v.fair, ask |-> ask, bid |-> v.bid]
    BY <2>1, BuyableIs
  <2> HIDE DEF b, ask
  <2> QED
    BY <2>2
<1>2. FairValueV0(b, Params) = FairValueV0(v, Params)
  BY ViewsLegible, SameChoice
<1> HIDE DEF b
<1>3. Age(b) = Age(v) /\ \A s : Gap(b, s) = Gap(v, s)
  BY <1>1 DEF Age, Gap
<1>4. CushionFavoriteV2(b, Params) = CushionFavoriteV2(v, Params)
  BY <1>1, <1>2, <1>3 DEF CushionFavoriteV2
<1>5. \A age : FreshCushion(b, Params, age) = FreshCushion(v, Params, age)
  BY <1>3, <1>4 DEF FreshCushion
<1>6. ModelSignal(m, b, Params) = ModelSignal(m, v, Params)
  BY <1>2, <1>3, <1>4, <1>5, TheModels DEF ModelSignal, CushionFreshV7, CushionFreshV7F45, FairValueFreshV8
<1> QED
  BY <1>6 DEF b

\* Where the loop took a side and there was no lure, the active model signals that side.
Backed ==
    \A i \in 1..Len(journal) :
        (journal[i].side # None /\ Lures(journal[i].view) = {}) =>
            /\ ModelSignal(Active, journal[i].view, Params) # None
            /\ ModelSignal(Active, journal[i].view, Params).side = journal[i].side

LEMMA InitBacked == Init => Backed
  BY DEF Init, Backed

LEMMA NextBacked == Typed /\ Backed /\ [Next]_vars => Backed'
<1> SUFFICES ASSUME Typed, Backed, [Next]_vars PROVE Backed'
  OBVIOUS
<1>1. CASE journal' = journal
  BY <1>1 DEF Backed
<1>2. CASE LogTick
  <2>1. Len(journal') = Len(journal) + 1 /\ Len(journal) \in Nat /\ tick.step = "log"
    BY <1>2, LogTypes DEF LogTick, Typed, Formal
  <2>2. ASSUME NEW i \in 1..Len(journal'), journal'[i].side # None, Lures(journal'[i].view) = {}
        PROVE  /\ ModelSignal(Active, journal'[i].view, Params) # None
               /\ ModelSignal(Active, journal'[i].view, Params).side = journal'[i].side
    <3>1. CASE i \in 1..Len(journal)
      BY <1>2, <2>2, <3>1, LogTypes DEF Backed
    <3>2. CASE i = Len(journal')
      <4>1. journal'[i].view = tick.view /\ Decision # None /\ journal'[i].side = Decision.side
        BY <1>2, <2>2, <3>2, LogTypes
      <4>2. Decision = ModelSignal(Active, Buyable(tick.view), Params)
        BY <4>1 DEF Decision
      <4>3. tick.view \in Views
        BY <2>1 DEF Typed, Staged
      <4>4. ModelSignal(Active, Buyable(tick.view), Params) = ModelSignal(Active, tick.view, Params)
        BY <2>2, <4>1, <4>3, SameSignal, ModelAssumption
      <4> QED
        BY <4>1, <4>2, <4>4
    <3> QED
      BY <2>1, <3>1, <3>2
  <2> QED
    BY <2>2 DEF Backed
<1> QED
  BY <1>1, <1>2, OnlyLogTick

-----------------------------------------------------------------------------
(* The theorems.                                                           *)

\* The rows carry the result of their side once they have an outcome, and none before.
Paid ==
    \A w \in AllWindows, m \in Models :
        LET row == ledger[w][m]
        IN  row # None => row.pnl = IF row.outcome = None THEN 0 ELSE NetPnl(row.price, row.side = row.outcome)

LEMMA InitPaid == Init => Paid
  BY DEF Init, Paid, AllWindows

LEMMA NextPaid == Typed /\ Paid /\ [Next]_vars => Paid'
<1> SUFFICES ASSUME Typed, Paid, [Next]_vars, NEW w \in AllWindows, NEW m \in Models, ledger'[w][m] # None
             PROVE  ledger'[w][m].pnl = IF ledger'[w][m].outcome = None THEN 0
                                        ELSE NetPnl(ledger'[w][m].price, ledger'[w][m].side = ledger'[w][m].outcome)
  BY DEF Paid
<1>1. ledger[w][m] \in Rows \cup {None}
  BY DEF Typed, Formal
<1>2. CASE ledger'[w][m] = ledger[w][m]
  BY <1>2 DEF Paid
<1>3. ASSUME NEW models, tick.step = "record", ledger' = LoggedBy(models), ledger'[w][m] # ledger[w][m]
      PROVE  ledger'[w][m].pnl = 0 /\ ledger'[w][m].outcome = None
  <2>1. ledger'[w][m] = Row(ModelSignal(m, tick.view, Params)) /\ ModelSignal(m, tick.view, Params) # None
    BY <1>3, LoggedRows DEF InsertOrIgnore
  <2> QED
    BY <1>3, <2>1, RowType
<1>4. ASSUME NEW v \in DOMAIN ledger, SettleShadow(v), ledger'[w][m] # ledger[w][m]
      PROVE  /\ ledger'[w][m].outcome # None
             /\ ledger'[w][m].pnl = NetPnl(ledger'[w][m].price, ledger'[w][m].side = ledger'[w][m].outcome)
  <2>1. PICK side \in Sides : ledger'[w][m] = SettledRow(ledger[w][m], side)
    <3>1. v \in AllWindows
      BY <1>4 DEF Typed, Formal
    <3> QED
      BY <1>4, <3>1, SettledRowsOf
  <2>2. side # None
    BY NoneAssumption
  <2> QED
    BY <1>1, <1>4, <2>1, <2>2, SettledRowType
<1>5. CASE RecordShadow
  <2>1. tick.step = "record" /\ ledger' = LoggedBy(IF Shadowed THEN Roster ELSE <<>>)
    BY <1>5 DEF RecordShadow
  <2> QED
    BY <1>2, <1>3, <2>1
<1>6. CASE RecordCut
  BY <1>2, <1>3, <1>6 DEF RecordCut
<1>7. CASE ledger' = ledger
  BY <1>2, <1>7
<1> QED
  BY <1>2, <1>4, <1>5, <1>6, <1>7 DEF Next, Ticking, Advance, OpenWindow, Revise, BeginTick, QuietTick, ReadReference,
       NoReference, LogTick, FindDue, PassOver, Restart, vars

Sound == Typed /\ Timed /\ Referenced /\ Judged /\ Whole /\ Replayed /\ Narrowed /\ Paid

LEMMA StaysSound == Spec => []Sound
<1>1. Init => Sound
  BY InitTyped, InitTimed, InitReferenced, InitJudged, InitWhole, InitReplayed, InitPaid DEF Sound
<1>2. Sound /\ [Next]_vars => Sound'
  BY NextTyped, NextTimed, NextReferenced, NextJudged, NextWhole, NextReplayed, NextNarrowed, NextPaid DEF Sound
<1> QED
  BY <1>1, <1>2, PTL DEF Spec

\* The feed, the tick, the journal and the ledger keep their types, and a row of the ledger has a
\* result when it has an outcome: what its side won or lost, less the taker's fee.
THEOREM TypesHold == Spec => []TypeOK
<1>1. ASSUME Sound PROVE TypeOK
  <2>1. DOMAIN ledger = AllWindows /\ \A w \in AllWindows, m \in Models : ledger[w][m] \in Rows \cup {None}
    BY <1>1 DEF Sound, Typed, Formal
  <2>2. tick.step \in Steps /\ tick.due \subseteq AllWindows /\ tick.reads \in 0..MaxReads
    BY <1>1 DEF Sound, Typed, Formal, Ticks
  <2>3. \A w \in DOMAIN ledger, m \in Models :
          LET row == ledger[w][m]
          IN  row # None => /\ row \in Rows
                            /\ row.pnl = IF row.outcome = None THEN 0 ELSE NetPnl(row.price, row.side = row.outcome)
    BY <1>1, <2>1 DEF Sound, Paid
  <2> QED
    BY <1>1, <2>1, <2>2, <2>3 DEF Sound, Typed, Formal, TypeOK, AllWindows, Steps
<1> QED
  BY <1>1, StaysSound, PTL

\* The reference that a replay finds first in a whole record is the window's final open.
LEMMA FirstReference ==
  ASSUME Sound, NEW w \in Int, w \notin watch.torn, FirstRef(w) # None
  PROVE  w \in AllWindows /\ FirstRef(w) = opens[w]
<1> DEFINE i == Min(ReplayTicks(w))
<1>1. journal \in Seq(Entries) /\ DOMAIN journal = 1..Len(journal)
  BY DEF Sound, Typed, Formal
<1>2. ReplayTicks(w) \in SUBSET Nat /\ ReplayTicks(w) # {} /\ FirstRef(w) = journal[i].view.ref
  <2>1. ReplayTicks(w) # {} /\ FirstRef(w) = journal[i].view.ref
    BY DEF FirstRef
  <2>2. ReplayTicks(w) \subseteq DOMAIN journal
    BY DEF ReplayTicks
  <2> QED
    BY <1>1, <2>1, <2>2
<1>3. i \in ReplayTicks(w)
  BY <1>2, MinOf
<1> HIDE DEF i
<1>4. i \in 1..Len(journal) /\ journal[i].window = w
  BY <1>1, <1>3 DEF ReplayTicks
<1>5. journal[i] \in Entries
  BY <1>1, <1>4
<1>6. ~Degraded(journal[i].view) /\ journal[i].view.ref \in {0, opens[w]}
  BY <1>4 DEF Sound, Whole, Referenced
<1> QED
  BY <1>2, <1>4, <1>5, <1>6 DEF Degraded, Entries

\* Every model is judged alike and rightly: references are final opens although they are asked for
\* from the first moment of a window on; the settled rows of a window have one outcome, which the
\* final prices say and a replay reconstructs unless it was settled on a provisional open; and no
\* window is settled before its end (chainlink_settlement.py:214-246, 268-290;
\* btc_bot/paper.py:1098-1115, 1629-1664).
THEOREM SettlesRight == Spec => []SettledRight
<1>1. ASSUME Sound PROVE SettledRight
  <2>1. DOMAIN ledger = AllWindows /\ DOMAIN cache = AllWindows
    BY <1>1 DEF Sound, Typed, Formal
  <2>2. \A w \in DOMAIN cache : cache[w] \in {None, opens[w]}
    BY <1>1, <2>1 DEF Sound, Referenced
  <2>3. ASSUME NEW w \in AllWindows
        PROVE  LET outcomes == {ledger[w][m].outcome : m \in {n \in Models : ledger[w][n] # None}} \ {None}
               IN  /\ Cardinality(outcomes) <= 1
                   /\ outcomes # {} => OpenRows(w) = {} /\ clock >= Start(w + 1)
                   /\ (outcomes # {} /\ w \notin watch.drafted) =>
                       /\ outcomes = {IF opens[w + 1] >= opens[w] THEN "Up" ELSE "Down"}
                       /\ (Reconstructed(w) # None /\ {w, w + 1} \cap watch.torn = {}) => Reconstructed(w) \in outcomes
    <3> DEFINE outcomes == {ledger[w][m].outcome : m \in {n \in Models : ledger[w][n] # None}} \ {None}
    <3>1. CASE outcomes = {}
      <4> HIDE DEF outcomes
      <4>1. Cardinality(outcomes) = 0
        BY <3>1, FS_EmptySet
      <4>2. Cardinality(outcomes) <= 1
        BY <4>1
      <4> QED
        BY <3>1, <4>2 DEF outcomes
    <3>2. CASE outcomes # {}
      <4>1. PICK m \in Models : Decided(w, m)
        BY <3>2 DEF Decided
      <4>2. \A n \in Models : ledger[w][n] # None => ledger[w][n].outcome = ledger[w][m].outcome
        BY <1>1, <4>1 DEF Sound, Judged
      <4>3. outcomes = {ledger[w][m].outcome}
        BY <4>1, <4>2 DEF Decided
      <4> HIDE DEF outcomes
      <4>4. Cardinality(outcomes) = 1
        BY <4>3, FS_Singleton
      <4>5. OpenRows(w) = {} /\ clock >= Start(w + 1)
        BY <1>1, <4>1, <4>2 DEF Sound, Judged, OpenRows, Decided
      <4>6. w \notin watch.drafted => ledger[w][m].outcome = FinalSide(w)
        BY <1>1, <4>1 DEF Sound, Judged
      <4>7. ASSUME Reconstructed(w) # None, {w, w + 1} \cap watch.torn = {} PROVE Reconstructed(w) = FinalSide(w)
        <5>1. FirstRef(w) # None /\ FirstRef(w + 1) # None /\ w \in Int /\ w + 1 \in Int
          BY <4>7, AllWindowsType DEF Reconstructed
        <5>2. FirstRef(w) = opens[w] /\ FirstRef(w + 1) = opens[w + 1]
          BY <1>1, <4>7, <5>1, FirstReference
        <5> QED
          BY <5>1, <5>2 DEF Reconstructed, FinalSide
      <4> QED
        BY <4>3, <4>4, <4>5, <4>6, <4>7 DEF FinalSide, outcomes
    <3> QED
      BY <3>1, <3>2
  <2> QED
    BY <2>1, <2>2, <2>3 DEF SettledRight
<1> QED
  BY <1>1, StaysSound, PTL

\* What the rows of a whole window say is what a replay of the journal says.
LEMMA RowIsReplayed ==
  ASSUME Sound, NEW w \in AllWindows, w \notin watch.torn, ~(tick.step = "record" /\ tick.window = w), NEW m \in Models
  PROVE  /\ ledger[w][m] = None => Fires(w, m) = {}
         /\ ledger[w][m] # None =>
              /\ Fires(w, m) # {} /\ Min(Fires(w, m)) = ledger[w][m].at /\ ledger[w][m].at \in Fires(w, m)
              /\ \A i \in Fires(w, m) : ledger[w][m].at <= i
              /\ ledger[w][m].side = Replay(w, m).side /\ ledger[w][m].price = Replay(w, m).price
              /\ Replay(w, m) # None
<1> DEFINE row == ledger[w][m]
<1>1. /\ journal \in Seq(Entries) /\ DOMAIN journal = 1..Len(journal) /\ Len(journal) \in Nat
      /\ Replays(w, m) /\ Seen \in Nat /\ Seen <= Len(journal)
  BY SeenType DEF Sound, Typed, Formal, Replayed
<1>2. ASSUME NEW i \in Fires(w, m)
      PROVE  i \in 1..Seen /\ journal[i].window = w /\ ModelSignal(m, journal[i].view, Params) # None
  <2>1. i \in 1..Len(journal) /\ journal[i].window = w /\ ModelSignal(m, journal[i].view, Params) # None
    BY <1>1 DEF Fires, ReplayTicks
  <2>2. tick.step = "record" => journal[Len(journal)].window # w
    BY DEF Sound, Typed, Staged
  <2> QED
    BY <1>1, <2>1, <2>2 DEF Seen
<1>3. ASSUME NEW i \in 1..Seen, journal[i].window = w, ModelSignal(m, journal[i].view, Params) # None
      PROVE  i \in Fires(w, m)
  <2>1. i \in 1..Len(journal)
    BY <1>1, <1>3
  <2>2. TwoAsks(journal[i].view)
    BY <1>3, <2>1 DEF Sound, Whole
  <2> QED
    BY <1>1, <1>3, <2>1, <2>2 DEF Fires, ReplayTicks, TwoAsks
<1>4. CASE row = None
  BY <1>1, <1>2, <1>4 DEF Replays
<1>5. CASE row # None
  <2>1. /\ row.at \in 1..Seen /\ journal[row.at].window = w /\ ModelSignal(m, journal[row.at].view, Params) # None
        /\ row.side = ModelSignal(m, journal[row.at].view, Params).side
        /\ row.price = ModelSignal(m, journal[row.at].view, Params).price
        /\ \A i \in 1..Seen : journal[i].window = w /\ ModelSignal(m, journal[i].view, Params) # None => row.at <= i
    BY <1>1, <1>5 DEF Replays
  <2> HIDE DEF row
  <2>2. row.at \in Fires(w, m) /\ \A i \in Fires(w, m) : row.at <= i
    BY <1>2, <1>3, <2>1
  <2>3. Fires(w, m) \in SUBSET Nat
    BY <1>1 DEF Fires, ReplayTicks
  <2>4. Min(Fires(w, m)) = row.at
    BY <2>2, <2>3, MinIs
  <2>5. Replay(w, m) = ModelSignal(m, journal[row.at].view, Params)
    BY <2>2, <2>4 DEF Replay
  <2> QED
    BY <1>5, <2>1, <2>2, <2>4, <2>5 DEF row
<1> QED
  BY <1>4, <1>5

\* The ledger is what the replay of the journal says, row by row, where the record of a window is
\* whole; a model is in it only with the one it narrows, which entered no later and at the same
\* price if in the same tick, whatever died in between; and what the loop itself decided on is
\* there too by then, on the same side if of that tick, unless a crossed book lured the runner away
\* (shadow/ledger.py:11-13, runner.py:194-230, btc_bot/paper.py:238-248, tools/replay_race.py:14-19,
\* 171-207).
THEOREM LedgerIsReplayed == Spec => []LedgerReplays
<1>1. ASSUME Sound, Backed PROVE LedgerReplays
  <2>1. DOMAIN ledger = AllWindows /\ DOMAIN journal = 1..Len(journal)
    BY <1>1 DEF Sound, Typed, Formal
  <2>2. ASSUME NEW w \in AllWindows, w \notin watch.torn, ~(tick.step = "record" /\ tick.window = w), NEW m \in Models
        PROVE  LET row == ledger[w][m]
                   replayed == Replay(w, m)
               IN  IF row = None THEN replayed = None
                   ELSE replayed # None /\ row.side = replayed.side /\ row.price = replayed.price
    BY <1>1, <2>2, RowIsReplayed DEF Replay
  <2>3. ASSUME NEW w \in AllWindows, NEW m \in DOMAIN Narrows
        PROVE  LET row == ledger[w][m]
                   wider == ledger[w][Narrows[m]]
               IN  row # None => /\ wider # None /\ wider.at <= row.at
                                 /\ wider.at = row.at => wider.side = row.side /\ wider.price = row.price
    BY <1>1 DEF Sound, Narrowed
  <2>4. ASSUME NEW w \in AllWindows, NEW i \in 1..Len(journal), journal[i].window = w, journal[i].side # None,
               Lures(journal[i].view) = {}, w \notin watch.torn, ~(tick.step = "record" /\ tick.window = w)
        PROVE  /\ ledger[w][Active] # None /\ ledger[w][Active].at <= i
               /\ ledger[w][Active].at = i => ledger[w][Active].side = journal[i].side
    <3>1. /\ ModelSignal(Active, journal[i].view, Params) # None
          /\ ModelSignal(Active, journal[i].view, Params).side = journal[i].side
      BY <1>1, <2>4 DEF Backed
    <3>2. TwoAsks(journal[i].view)
      BY <1>1, <2>4 DEF Sound, Whole
    <3>3. i \in Fires(w, Active)
      BY <2>1, <2>4, <3>1, <3>2 DEF Fires, ReplayTicks, TwoAsks
    <3>4. ledger[w][Active] # None
      BY <1>1, <2>4, <3>3, RowIsReplayed, ModelAssumption
    <3>5. /\ ledger[w][Active].at <= i /\ Fires(w, Active) # {} /\ Min(Fires(w, Active)) = ledger[w][Active].at
          /\ ledger[w][Active].side = Replay(w, Active).side
      BY <1>1, <2>4, <3>3, <3>4, RowIsReplayed, ModelAssumption
    <3>6. Replay(w, Active) = ModelSignal(Active, journal[ledger[w][Active].at].view, Params)
      BY <3>5 DEF Replay
    <3> QED
      BY <3>1, <3>4, <3>5, <3>6
  <2> QED
    BY <2>1, <2>2, <2>3, <2>4 DEF LedgerReplays
<1>2. Init => Backed
  BY InitBacked
<1>3. Sound /\ Backed /\ [Next]_vars => Backed'
  BY NextBacked DEF Sound
<1> QED
  BY <1>1, <1>2, <1>3, StaysSound, PTL DEF Spec
=============================================================================
