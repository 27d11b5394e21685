--------------------------- MODULE AutoPauseProofs ---------------------------
(***************************************************************************)
(* Proofs about the auto-pause: the types, that no entry is made against   *)
(* the pause or below the floor, that a clear is not undone by the trades  *)
(* it cleared, and that a strategy that only loses is stopped, for every   *)
(* window, warm-up, floor and any number of trades.                        *)
(***************************************************************************)
EXTENDS AutoPause, DataLemmas

Trades == [at: Times, pnl: Pnls]

-----------------------------------------------------------------------------
(* Types.                                                                  *)

\* The journal is a sequence of trades that are no older than the clock, and no
\* two of them were opened in the same second; the open position is the latest.
Dated ==
  /\ trades \in Seq(Trades)
  /\ \A i, j \in DOMAIN trades : i < j => trades[i].at < trades[j].at
  /\ \A i \in DOMAIN trades : trades[i].at <= clock
  /\ open # None => open <= clock /\ \A i \in DOMAIN trades : trades[i].at < open
  /\ \A t \in {session, cleared} \ {None} : t <= clock

Sound == TypeOK /\ Dated

LEMMA EdgeType == ASSUME TypeOK PROVE Edge \in Times \cup {0}
  BY NoneAssumption, ParamAssumption DEF TypeOK, Edge, Num, Larger, Times

LEMMA InitSound == Init => Sound
<1> SUFFICES ASSUME Init PROVE Sound
  OBVIOUS
<1>1. 1 \in Times
  BY ParamAssumption DEF Times
<1>2. TypeOK
  <2>1. clock \in Times /\ open \in Times \cup {None} /\ {session, cleared} \subseteq Times \cup {None} /\ since \in Times \cup {0}
    BY <1>1 DEF Init
  <2>2. Len(trades) = 0 /\ DOMAIN trades = {} /\ 0 <= LastTrade
    BY ParamAssumption DEF Init
  <2>3. paused \in BOOLEAN /\ alone \in BOOLEAN
    BY DEF Init
  <2>4. {paused, alone} \subseteq BOOLEAN
    BY <2>3
  <2> QED
    BY <2>1, <2>2, <2>4 DEF Init, TypeOK
<1>3. trades = <<>> /\ DOMAIN trades = {} /\ open = None /\ session = None /\ cleared = None
  BY DEF Init
<1>4. Dated
  BY <1>3 DEF Dated
<1> QED
  BY <1>2, <1>4 DEF Sound

\* A closed position goes to the end of the journal, where it is the latest.
LEMMA CloseKeeps ==
  ASSUME Sound, NEW p \in Pnls, Close(p)
  PROVE  /\ trades' \in Seq(Trades) /\ Len(trades') <= LastTrade /\ open' = None
         /\ \A i \in DOMAIN trades' : trades'[i] \in Trades /\ trades'[i].at <= clock
         /\ \A i, j \in DOMAIN trades' : i < j => trades'[i].at < trades'[j].at
<1> DEFINE new == [at |-> open, pnl |-> p]
<1>1. /\ new \in Trades /\ new.at = open /\ open <= clock /\ open \in Times
      /\ \A i \in DOMAIN trades : trades[i].at < new.at
  BY DEF Sound, TypeOK, Dated, Close, Trades
<1>2. trades' = Append(trades, new) /\ trades \in Seq(Trades) /\ Len(trades) < LastTrade /\ open' = None
  BY DEF Sound, Dated, Close
<1> HIDE DEF new
<1>3. trades' \in Seq(Trades) /\ Len(trades') = Len(trades) + 1 /\ DOMAIN trades' = 1 .. Len(trades) + 1
  BY <1>1, <1>2
<1>4. \A i \in DOMAIN trades : i \in 1 .. Len(trades) /\ trades'[i] = trades[i]
  BY <1>2
<1>5. trades'[Len(trades) + 1] = new
  BY <1>2
<1>6. ASSUME NEW i \in DOMAIN trades' PROVE trades'[i] \in Trades /\ trades'[i].at <= clock
  <2>1. CASE i \in DOMAIN trades
    BY <1>2, <1>4, <2>1 DEF Sound, Dated
  <2>2. CASE i = Len(trades) + 1
    BY <1>1, <1>5, <2>2
  <2> QED
    BY <1>2, <1>3, <2>1, <2>2
<1>7. ASSUME NEW i \in DOMAIN trades', NEW j \in DOMAIN trades', i < j PROVE trades'[i].at < trades'[j].at
  <2>1. i \in DOMAIN trades
    BY <1>2, <1>3, <1>7
  <2>2. CASE j \in DOMAIN trades
    BY <1>4, <1>7, <2>1, <2>2 DEF Sound, Dated
  <2>3. CASE j = Len(trades) + 1
    BY <1>1, <1>4, <1>5, <2>1, <2>3
  <2> QED
    BY <1>2, <1>3, <2>2, <2>3
<1> QED
  BY <1>2, <1>3, <1>6, <1>7, ParamAssumption

\* The journal is what changes, or the position.
LEMMA CloseSound ==
  ASSUME Sound, NEW p \in Pnls, Close(p), UNCHANGED <<clock, configVars, since, clear, alone>>,
         pc' \in {"off", "idle"}
  PROVE  Sound'
<1>1. /\ trades' \in Seq(Trades) /\ Len(trades') <= LastTrade /\ open' = None
      /\ \A i \in DOMAIN trades' : trades'[i] \in Trades /\ trades'[i].at <= clock
      /\ \A i, j \in DOMAIN trades' : i < j => trades'[i].at < trades'[j].at
  BY CloseKeeps
<1>2. TypeOK'
  BY <1>1 DEF Sound, TypeOK, configVars, Trades
<1>3. Dated'
  BY <1>1 DEF Sound, Dated, configVars
<1> QED
  BY <1>2, <1>3 DEF Sound

LEMMA NextSound == Sound /\ [Next]_vars => Sound'
<1> SUFFICES ASSUME Sound, [Next]_vars PROVE Sound'
  OBVIOUS
<1> USE DEF journalVars, configVars
<1>1. CASE Start
  BY <1>1 DEF Start, Sound, TypeOK, Dated, Times
<1>2. CASE Stop
  <2>1. CASE UNCHANGED journalVars
    BY <1>2, <2>1 DEF Stop, Sound, TypeOK, Dated
  <2>2. CASE \E p \in Pnls : Close(p)
    BY <1>2, <2>2, CloseSound DEF Stop
  <2> QED
    BY <1>2, <2>1, <2>2 DEF Stop
<1>3. ASSUME NEW p \in Pnls, CloseInTick(p) PROVE Sound'
  BY <1>3, CloseSound DEF CloseInTick
<1>4. CASE Evaluate
  BY <1>4 DEF Evaluate, Sound, TypeOK, Dated
<1>5. CASE ReadWindow
  BY <1>5, EdgeType DEF ReadWindow, Sound, TypeOK, Dated
<1>6. CASE Judge
  BY <1>6 DEF Judge, Sound, TypeOK, Dated
<1>7. CASE Pause
  BY <1>7 DEF Pause, Sound, TypeOK, Dated
<1>8. CASE Enter
  BY <1>8 DEF Enter, Sound, TypeOK, Dated, Times
<1>9. CASE ClearFlag
  BY <1>9 DEF ClearFlag, Sound, TypeOK, Dated
<1>10. CASE ClearStamp
  <2>1. /\ cleared' = clock /\ clock \in Times /\ UNCHANGED <<clock, trades, open, paused, session, pc, since>>
        /\ alone' = FALSE /\ clear' = "idle"
    BY <1>10 DEF ClearStamp, Sound, TypeOK
  <2>2. TypeOK'
    BY <2>1 DEF Sound, TypeOK
  <2>3. clock <= clock
    BY <2>1 DEF Times
  <2>4. Dated'
    BY <2>1, <2>3 DEF Sound, Dated
  <2> QED
    BY <2>2, <2>4 DEF Sound
<1>11. CASE PassTime
  <2>1. clock \in Times /\ clock' = clock + 1 /\ clock' \in Times
    BY <1>11, ParamAssumption DEF PassTime, Sound, TypeOK, Times
  <2>2. TypeOK'
    BY <1>11, <2>1 DEF PassTime, Sound, TypeOK
  <2>3. \A t \in Times : t <= clock => t <= clock'
    BY <2>1 DEF Times
  <2>4. Dated'
    BY <1>11, <2>3 DEF PassTime, Sound, TypeOK, Dated, Trades
  <2> QED
    BY <2>2, <2>4 DEF Sound
<1>12. CASE Crash
  BY <1>12 DEF Crash, Sound, TypeOK, Dated
<1>13. CASE UNCHANGED vars
  BY <1>13 DEF vars, Sound, TypeOK, Dated
<1> QED
  BY <1>1, <1>2, <1>3, <1>4, <1>5, <1>6, <1>7, <1>8, <1>9, <1>10, <1>11, <1>12, <1>13 DEF Next

LEMMA StaysSound == Spec => []Sound
  BY InitSound, NextSound, PTL DEF Spec

\* Every variable of the auto-pause stays in its range, whatever clears, crashes
\* and evaluations overlap.
THEOREM TypesHold == Spec => []TypeOK
<1>1. Sound => TypeOK
  BY DEF Sound
<1> QED
  BY <1>1, StaysSound, PTL

-----------------------------------------------------------------------------
(* Evaluations and clears.                                                 *)

\* An evaluation runs only while the flag is down.  What it has read of the edge
\* window is still in force, or else the window was moved by a clear, to a
\* second that at most one trade was opened in.  It comes out as it was judged.
AtMostOne(from) == \A i, j \in Scoped(from) : i = j
Judged ==
  /\ pc \in {"window", "judge", "pause", "enter"} => ~paused
  /\ pc \in {"judge", "pause", "enter"} => since = Edge \/ (~alone /\ AtMostOne(Edge))
  /\ pc = "pause" => Decayed(since)
  /\ pc = "enter" => ~Decayed(since)

\* A clear that is stamped leaves at most one trade to judge: the one that was
\* opened in this very second.
LEMMA StampScopes == ASSUME Sound, ClearStamp PROVE AtMostOne(Edge)'
<1> SUFFICES ASSUME NEW i \in Scoped(Edge)', NEW j \in Scoped(Edge)' PROVE i = j
  BY DEF AtMostOne
<1>1. /\ trades' = trades /\ session' = session /\ cleared' = clock /\ clock \in Times
      /\ session \in Times \cup {None}
  BY DEF ClearStamp, journalVars, Sound, TypeOK
<1>2. Edge' \in Int /\ Edge' >= clock /\ clock \in Int
  BY <1>1, NoneAssumption, ParamAssumption DEF Edge, Num, Larger, Times
<1>3. i \in DOMAIN trades /\ j \in DOMAIN trades /\ trades[i].at >= Edge' /\ trades[j].at >= Edge'
  BY <1>1 DEF Scoped
<1>4. trades[i].at \in Int /\ trades[j].at \in Int /\ i \in Int /\ j \in Int
  <2>1. trades \in Seq(Trades) /\ DOMAIN trades \subseteq Int
    BY DEF Sound, Dated
  <2>2. trades[i] \in Trades /\ trades[j] \in Trades
    BY <1>3, <2>1
  <2> QED
    BY <1>3, <2>1, <2>2 DEF Trades, Times
<1>5. trades[i].at = clock /\ trades[j].at = clock
  BY <1>2, <1>3, <1>4 DEF Sound, Dated
<1> QED
  BY <1>2, <1>3, <1>4, <1>5 DEF Sound, Dated

LEMMA InitJudged == Init => Judged
  BY DEF Init, Judged

LEMMA NextJudged == Sound /\ Judged /\ [Next]_vars => Judged'
<1> SUFFICES ASSUME Sound, Judged, [Next]_vars PROVE Judged'
  OBVIOUS
<1> USE DEF journalVars, configVars
<1>1. CASE Start
  BY <1>1 DEF Start, Judged
<1>2. CASE Stop
  BY <1>2 DEF Stop, Judged
<1>3. ASSUME NEW p \in Pnls, CloseInTick(p) PROVE Judged'
  BY <1>3 DEF CloseInTick, Judged
<1>4. CASE Evaluate
  BY <1>4 DEF Evaluate, Judged
<1>5. CASE ReadWindow
  BY <1>5 DEF ReadWindow, Judged, Edge, Num
<1>6. CASE Judge
  <2>1. Edge' = Edge /\ AtMostOne(Edge)' = AtMostOne(Edge) /\ Decayed(since)' = Decayed(since)
    BY <1>6 DEF Judge, Edge, Num, AtMostOne, Scoped, Decayed, Recent, Realized
  <2> QED
    BY <1>6, <2>1 DEF Judge, Judged
<1>7. CASE Pause
  BY <1>7 DEF Pause, Judged
<1>8. CASE Enter
  BY <1>8 DEF Enter, Judged
<1>9. CASE ClearFlag
  <2>1. Edge' = Edge /\ AtMostOne(Edge)' = AtMostOne(Edge) /\ Decayed(since)' = Decayed(since)
    BY <1>9 DEF ClearFlag, Edge, Num, AtMostOne, Scoped, Decayed, Recent, Realized
  <2> QED
    BY <1>9, <2>1 DEF ClearFlag, Judged
<1>10. CASE ClearStamp
  <2>1. AtMostOne(Edge)' /\ Decayed(since)' = Decayed(since)
    BY <1>10, StampScopes DEF ClearStamp, Scoped, Decayed, Recent, Realized
  <2> QED
    BY <1>10, <2>1 DEF ClearStamp, Judged
<1>11. CASE PassTime
  <2>1. Edge' = Edge /\ AtMostOne(Edge)' = AtMostOne(Edge) /\ Decayed(since)' = Decayed(since)
    BY <1>11 DEF PassTime, Edge, Num, AtMostOne, Scoped, Decayed, Recent, Realized
  <2> QED
    BY <1>11, <2>1 DEF PassTime, Judged
<1>12. CASE Crash
  BY <1>12 DEF Crash, Judged
<1>13. CASE UNCHANGED vars
  <2>1. Edge' = Edge /\ AtMostOne(Edge)' = AtMostOne(Edge) /\ Decayed(since)' = Decayed(since)
    BY <1>13 DEF vars, Edge, Num, AtMostOne, Scoped, Decayed, Recent, Realized
  <2> QED
    BY <1>13, <2>1 DEF vars, Judged
<1> QED
  BY <1>1, <1>2, <1>3, <1>4, <1>5, <1>6, <1>7, <1>8, <1>9, <1>10, <1>11, <1>12, <1>13 DEF Next

LEMMA StaysJudged == Spec => [](Sound /\ Judged)
  BY InitSound, NextSound, InitJudged, NextJudged, PTL DEF Spec

\* Of one trade at most, nothing can be said when the warm-up takes two.
LEMMA OneIsTooFew ==
  ASSUME Sound, NEW from, AtMostOne(from), MinTrades > 1
  PROVE  ~Decayed(from)
<1> DEFINE recent == Recent(from)
<1>1. recent \subseteq Scoped(from)
  BY DEF Recent
<1>2. ASSUME NEW i \in recent PROVE recent = {i}
  BY <1>1 DEF AtMostOne
<1>3. Cardinality(recent) = 0 \/ Cardinality(recent) = 1
  BY <1>2, FS_EmptySet, FS_Singleton
<1> HIDE DEF recent
<1>4. ~(Cardinality(recent) >= MinTrades)
  BY <1>3, ParamAssumption
<1> QED
  BY <1>4 DEF Decayed, recent

\* No entry is made while the pause stands or while the trades of the edge
\* window in force are below the floor, although an operator's clear may move
\* that window between its reading and the entry (adaptive.py:113-144): what the
\* clear leaves in it is too little to judge. With a warm-up of a single trade
\* that is no longer so.
THEOREM EntriesSound == ASSUME MinTrades > 1 PROVE Spec => EntersSound
<1>1. ASSUME Sound /\ Judged, [Next]_vars
      PROVE  [open = None /\ open' # None => ~paused /\ ~Decayed(Edge)]_vars
  <2> SUFFICES ASSUME open = None, open' # None, Next PROVE ~paused /\ ~Decayed(Edge)
    BY <1>1 DEF vars
  <2>1. Enter
    BY DEF Next, Start, Stop, CloseInTick, Close, Evaluate, ReadWindow, Judge, Pause, ClearFlag, ClearStamp,
           PassTime, Crash, journalVars
  <2>2. ~paused /\ ~Decayed(since) /\ (since = Edge \/ AtMostOne(Edge))
    BY <1>1, <2>1 DEF Enter, Judged
  <2>3. CASE since = Edge
    BY <2>2, <2>3
  <2>4. CASE AtMostOne(Edge)
    BY <1>1, <2>2, <2>4, OneIsTooFew
  <2> QED
    BY <2>2, <2>3, <2>4
<1> QED
  BY <1>1, StaysJudged, PTL DEF Spec, EntersSound

\* An evaluation that no clear overlaps pauses only for trades opened since the
\* last clear (adaptive.py:30-33, 113-144).
THEOREM ClearsStick == Spec => ClearSticks
<1>1. ASSUME Judged, [Next]_vars
      PROVE  [~paused /\ paused' /\ alone => Decayed(Larger(Num(session), Num(cleared)))]_vars
  <2> SUFFICES ASSUME ~paused, paused', alone, Next PROVE Decayed(Edge)
    BY <1>1 DEF vars, Edge
  <2>1. Pause
    BY DEF Next, Start, Stop, CloseInTick, Close, Evaluate, ReadWindow, Judge, Enter, ClearFlag, ClearStamp,
           PassTime, Crash, journalVars, configVars
  <2>2. Decayed(since) /\ since = Edge
    BY <1>1, <2>1 DEF Pause, Judged
  <2> QED
    BY <2>2
<1> QED
  BY <1>1, StaysJudged, PTL DEF Spec, ClearSticks

-----------------------------------------------------------------------------
(* A streak of losses.                                                     *)

\* The journal's length, places and entries.
LEMMA Places ==
  ASSUME Sound
  PROVE  /\ Len(trades) \in Nat /\ DOMAIN trades = 1 .. Len(trades)
         /\ \A i \in DOMAIN trades : trades[i].at \in Int /\ trades[i].pnl \in Int
<1>1. trades \in Seq(Trades)
  BY DEF Sound, Dated
<1>2. Len(trades) \in Nat /\ DOMAIN trades = 1 .. Len(trades)
  BY <1>1
<1>3. \A i \in DOMAIN trades : trades[i] \in Trades
  BY <1>1
<1>4. \A t \in Trades : t.at \in Int /\ t.pnl \in Int
  <2>1. Times \subseteq Int /\ Pnls \subseteq Int
    BY ParamAssumption DEF Times
  <2> QED
    BY <2>1 DEF Trades
<1>5. \A i \in DOMAIN trades : trades[i].at \in Int /\ trades[i].pnl \in Int
  BY <1>3, <1>4
<1> QED
  BY <1>2, <1>5

\* The edge window reaches to the end of the journal.
LEMMA ScopeReachesOn ==
  ASSUME Sound, NEW from \in Int, NEW i \in Scoped(from), NEW j \in i .. Len(trades)
  PROVE  j \in Scoped(from)
<1>1. i \in DOMAIN trades /\ i \in Int /\ trades[i].at >= from
  BY Places DEF Scoped
<1>2. j \in DOMAIN trades /\ j \in Int /\ (i < j \/ i = j)
  BY <1>1, Places
<1>3. trades[j].at \in Int /\ trades[i].at \in Int
  BY <1>1, <1>2, Places
<1>4. i < j => trades[i].at < trades[j].at
  BY <1>1, <1>2 DEF Sound, Dated
<1>5. trades[j].at >= from
  BY <1>1, <1>2, <1>3, <1>4
<1> QED
  BY <1>2, <1>5 DEF Scoped

\* Once the edge window holds as many trades as are judged, these are the last of the journal.
LEMMA LastAreJudged ==
  ASSUME Sound, NEW from \in Int, NEW first \in Scoped(from), first + Window = Len(trades) + 1
  PROVE  Recent(from) = first .. Len(trades)
<1> DEFINE len == Len(trades)
           Later(i) == {k \in Scoped(from) : k > i}
<1>1. len \in Nat /\ DOMAIN trades = 1 .. len /\ Window \in Nat /\ first \in 1 .. len
  BY Places, ParamAssumption DEF Scoped
<1> HIDE DEF len
<1>2. ASSUME NEW i \in Scoped(from) PROVE Cardinality(Later(i)) = len - i
  <2>1. i \in 1 .. len
    BY <1>1 DEF Scoped
  <2>2. ASSUME NEW k \in Later(i) PROVE k \in i + 1 .. len
    <3>1. k \in 1 .. len /\ k > i
      BY <1>1 DEF Scoped
    <3> HIDE DEF Later
    <3> QED
      BY <1>1, <2>1, <3>1
  <2>3. ASSUME NEW k \in i + 1 .. len PROVE k \in Later(i)
    <3>1. k \in i .. Len(trades) /\ k > i
      BY <1>1, <2>1 DEF len
    <3> QED
      BY <3>1, ScopeReachesOn
  <2>4. Later(i) = i + 1 .. len
    BY <2>2, <2>3
  <2>5. i + 1 \in Int /\ len \in Int /\ i <= len
    BY <1>1, <2>1
  <2>6. Cardinality(i + 1 .. len) = IF i + 1 > len THEN 0 ELSE len - (i + 1) + 1
    BY <2>5, FS_Interval
  <2>7. Cardinality(i + 1 .. len) = len - i
    BY <1>1, <2>1, <2>5, <2>6
  <2> QED
    BY <2>4, <2>7
<1>3. ASSUME NEW i \in first .. len PROVE i \in Scoped(from)
  BY <1>3, ScopeReachesOn DEF len
<1>4. ASSUME NEW i \in Scoped(from) PROVE Cardinality(Later(i)) < Window <=> i \in first .. len
  <2>1. i \in 1 .. len /\ first + Window = len + 1
    BY <1>1 DEF Scoped, len
  <2> QED
    BY <1>1, <1>2, <2>1
<1>5. Recent(from) = {i \in Scoped(from) : Cardinality(Later(i)) < Window}
  BY DEF Recent
<1> HIDE DEF Later
<1> QED
  BY <1>3, <1>4, <1>5 DEF len

\* The default floor is above a total loss, and the window is long enough to warm up.
Judging == MinTrades > 1 /\ MinTrades <= Window /\ FloorPct > -100

\* A streak as long as the window is below the floor.
LEMMA StreakDecays ==
  ASSUME Sound, Judging, NEW from \in Int, NEW first \in Scoped(from), first + Window = Len(trades) + 1,
         \A j \in first .. Len(trades) : trades[j].pnl < 0
  PROVE  Decayed(from)
<1> DEFINE recent == first .. Len(trades)
           pnls == [i \in DOMAIN trades |-> trades[i].pnl]
           sum == SumFunctionOnSet(pnls, recent)
<1>1. /\ Len(trades) \in Nat /\ DOMAIN trades = 1 .. Len(trades) /\ Window \in Nat /\ first \in 1 .. Len(trades)
      /\ FloorPct \in Int /\ MinTrades \in Nat /\ MinTrades <= Window /\ MinTrades > 1 /\ FloorPct > -100
  BY Places, ParamAssumption DEF Scoped, Judging
<1>2. Recent(from) = recent
  BY LastAreJudged
<1>3. IsFiniteSet(recent) /\ Cardinality(recent) = Len(trades) - first + 1
  BY <1>1, FS_Interval
<1>4. Cardinality(recent) = Window
  BY <1>1, <1>3
<1>5. ASSUME NEW i \in recent PROVE pnls[i] \in Int /\ pnls[i] <= -1
  <2>1. i \in DOMAIN trades /\ trades[i].pnl < 0
    BY <1>1
  <2>2. trades[i].pnl \in Int
    BY <2>1, Places
  <2> QED
    BY <2>1, <2>2
<1> HIDE DEF pnls, recent
<1>6. sum \in Int /\ sum <= -Window
  BY <1>3, <1>4, <1>5, SumType, SumOfLosses
<1> HIDE DEF sum
<1>7. (FloorPct + 100) * Window > 0
  BY <1>1
<1>8. (FloorPct + 100) * Window = FloorPct * Window + 100 * Window /\ FloorPct * Window \in Int
  BY <1>1
<1>9. 100 * sum < FloorPct * Window
  BY <1>1, <1>6, <1>7, <1>8
<1> QED
  BY <1>1, <1>2, <1>4, <1>9 DEF Decayed, Realized, sum, pnls

\* Had the last trades that are judged all lost, the open position would not have been opened.
Bled ==
  /\ \A i \in Scoped(Edge) : i + Window <= Len(trades) => \E j \in i .. i + Window : trades[j].pnl >= 0
  /\ open # None => \A i \in Scoped(Edge) :
       i + Window = Len(trades) + 1 => \E j \in i .. Len(trades) : trades[j].pnl >= 0

\* It stays so while the journal and the position do, however the edge window shrinks.
LEMMA ShrinkKeepsBled ==
  ASSUME Bled, Scoped(Edge)' \subseteq Scoped(Edge), UNCHANGED <<trades, open>>
  PROVE  Bled'
  BY DEF Bled

LEMMA SameEdge ==
  ASSUME UNCHANGED <<trades, session, cleared>>
  PROVE  Scoped(Edge)' = Scoped(Edge) /\ Edge' = Edge
  BY DEF Scoped, Edge, Num

\* A start or a clear moves the edge to the present.
LEMMA EdgeMovesOn ==
  ASSUME Sound, clock' = clock, trades' = trades,
         (session' = clock /\ cleared' = cleared) \/ (cleared' = clock /\ session' = session)
  PROVE  Scoped(Edge)' \subseteq Scoped(Edge)
<1>1. clock \in Int /\ clock >= 1 /\ {session, cleared} \ {None} \subseteq Int /\ \A t \in {session, cleared} \ {None} : t <= clock
  BY NoneAssumption DEF Sound, TypeOK, Dated, Times
<1>2. clock # None
  BY <1>1, NoneAssumption
<1>3. /\ Num(session) \in Int /\ Num(session) <= clock
      /\ Num(cleared) \in Int /\ Num(cleared) <= clock
  BY <1>1 DEF Num
<1>4. Edge \in Int /\ Edge <= clock
  BY <1>1, <1>3 DEF Edge, Larger
<1>5. Num(clock) = clock
  BY <1>2 DEF Num
<1>6. Edge' = Larger(clock, Num(cleared)) \/ Edge' = Larger(Num(session), clock)
  BY <1>5 DEF Edge, Num
<1>7. Edge' \in Int /\ Edge' >= clock
  BY <1>1, <1>3, <1>6 DEF Larger
<1>8. ASSUME NEW i \in Scoped(Edge)' PROVE i \in Scoped(Edge)
  <2>1. i \in DOMAIN trades /\ trades[i].at >= Edge'
    BY DEF Scoped
  <2>2. trades[i].at \in Int
    BY <2>1, Places
  <2>3. trades[i].at >= Edge
    BY <1>1, <1>4, <1>7, <2>1, <2>2
  <2> QED
    BY <2>1, <2>3 DEF Scoped
<1> QED
  BY <1>8

\* The position that closes may be the loss that completes a streak of the window's length, no more.
LEMMA CloseKeepsBled ==
  ASSUME Sound, Bled, NEW p \in Pnls, Close(p), UNCHANGED configVars
  PROVE  Bled'
<1> DEFINE len == Len(trades)
<1>1. /\ len \in Nat /\ Window \in Nat \ {0} /\ DOMAIN trades = 1 .. len /\ open # None /\ open' = None
      /\ trades \in Seq(Trades) /\ trades' = Append(trades, [at |-> open, pnl |-> p])
  BY Places, ParamAssumption DEF Close, Sound, Dated
<1>2. [at |-> open, pnl |-> p] \in Trades
  BY <1>1 DEF Sound, TypeOK, Trades
<1>3. Len(trades') = len + 1 /\ DOMAIN trades' = 1 .. len + 1 /\ \A i \in 1 .. len : trades'[i] = trades[i]
  BY <1>1, <1>2
<1>4. Edge' = Edge
  BY DEF configVars, Edge, Num
<1> HIDE DEF len
<1>5. ASSUME NEW i \in Scoped(Edge)', i + Window <= Len(trades')
      PROVE  \E j \in i .. i + Window : trades'[j].pnl >= 0
  <2>1. i \in 1 .. len + 1 /\ trades'[i].at >= Edge /\ i + Window <= len + 1
    BY <1>3, <1>4, <1>5 DEF Scoped
  <2>2. i \in 1 .. len
    BY <1>1, <2>1
  <2>3. i \in Scoped(Edge)
    BY <1>1, <1>3, <2>1, <2>2 DEF Scoped
  <2>4. CASE i + Window <= len
    <3>1. PICK j \in i .. i + Window : trades[j].pnl >= 0
      BY <2>3, <2>4 DEF Bled, len
    <3>2. trades'[j] = trades[j]
      BY <1>1, <1>3, <2>2, <2>4, <3>1
    <3> QED
      BY <3>1, <3>2
  <2>5. CASE i + Window = len + 1
    <3>1. PICK j \in i .. len : trades[j].pnl >= 0
      BY <1>1, <2>3, <2>5 DEF Bled, len
    <3>2. trades'[j] = trades[j] /\ j \in i .. i + Window
      BY <1>1, <1>3, <2>2, <2>5, <3>1
    <3> QED
      BY <3>1, <3>2
  <2>6. i + Window <= len \/ i + Window = len + 1
    BY <1>1, <2>1, <2>2
  <2> QED
    BY <2>4, <2>5, <2>6, Zenon
<1> QED
  BY <1>1, <1>5 DEF Bled

\* A position is opened only when the edge window in force is not below the floor.
LEMMA EnterKeepsBled ==
  ASSUME Sound, Judged, Judging, Bled, Enter
  PROVE  Bled'
<1>1. UNCHANGED <<trades, session, cleared>>
  BY DEF Enter, configVars
<1>2. Scoped(Edge)' = Scoped(Edge) /\ Edge' = Edge
  BY <1>1, SameEdge
<1>3. ~Decayed(Edge)
  <2>1. ~Decayed(since) /\ (since = Edge \/ AtMostOne(Edge))
    BY DEF Enter, Judged
  <2>2. CASE since = Edge
    BY <2>1, <2>2
  <2>3. CASE AtMostOne(Edge)
    BY <2>3, OneIsTooFew DEF Judging
  <2> QED
    BY <2>1, <2>2, <2>3
<1>4. Edge \in Int
  BY EdgeType, ParamAssumption DEF Sound, Times
<1>5. ASSUME NEW i \in Scoped(Edge), i + Window = Len(trades) + 1
      PROVE  \E j \in i .. Len(trades) : trades[j].pnl >= 0
  <2>1. \E j \in i .. Len(trades) : ~(trades[j].pnl < 0)
    BY <1>3, <1>4, <1>5, StreakDecays
  <2>2. PICK j \in i .. Len(trades) : ~(trades[j].pnl < 0)
    BY <2>1
  <2>3. j \in DOMAIN trades
    BY Places DEF Scoped
  <2>4. trades[j].pnl \in Int
    BY <2>3, Places
  <2> QED
    BY <2>2, <2>4
<1> QED
  BY <1>1, <1>2, <1>5 DEF Bled

LEMMA InitBled == Init => Bled
<1> SUFFICES ASSUME Init PROVE Bled
  OBVIOUS
<1>1. DOMAIN trades = {} /\ open = None
  BY DEF Init
<1> QED
  BY <1>1 DEF Bled, Scoped

LEMMA NextBled ==
  ASSUME Sound, Judged, Judging, Bled, [Next]_vars
  PROVE  Bled'
<1> USE DEF journalVars, configVars
<1>1. CASE Start
  BY <1>1, EdgeMovesOn, ShrinkKeepsBled DEF Start
<1>2. CASE Stop
  <2>1. CASE UNCHANGED journalVars
    BY <1>2, <2>1, SameEdge, ShrinkKeepsBled DEF Stop
  <2>2. CASE \E p \in Pnls : Close(p)
    BY <1>2, <2>2, CloseKeepsBled DEF Stop
  <2> QED
    BY <1>2, <2>1, <2>2 DEF Stop
<1>3. ASSUME NEW p \in Pnls, CloseInTick(p) PROVE Bled'
  BY <1>3, CloseKeepsBled DEF CloseInTick
<1>4. CASE Enter
  BY <1>4, EnterKeepsBled
<1>5. CASE ClearStamp
  BY <1>5, EdgeMovesOn, ShrinkKeepsBled DEF ClearStamp
<1>6. CASE Evaluate \/ ReadWindow \/ Judge \/ Pause \/ ClearFlag \/ PassTime \/ Crash \/ UNCHANGED vars
  <2>1. UNCHANGED <<trades, open, session, cleared>>
    BY <1>6 DEF Evaluate, ReadWindow, Judge, Pause, ClearFlag, PassTime, Crash, vars
  <2> QED
    BY <2>1, SameEdge, ShrinkKeepsBled
<1> QED
  BY <1>1, <1>2, <1>3, <1>4, <1>5, <1>6 DEF Next

\* A strategy that only loses is stopped: the trades opened since the last start or clear
\* never hold more losses in a row than the window is long, whatever clears, restarts and
\* crashes overlap an evaluation (adaptive.py:3-9, 46-49, 113-144), provided that the window
\* is long enough for the warm-up, which takes two trades, and the floor above a total loss.
THEOREM StreaksEnd == ASSUME Judging PROVE Spec => []BleedBounded
<1>1. Sound /\ Judged /\ Bled => BleedBounded
  BY ParamAssumption DEF Bled, BleedBounded, Judging, Larger
<1>2. Init => Bled
  BY InitBled
<1>3. Sound /\ Judged /\ Bled /\ [Next]_vars => Bled'
  BY NextBled
<1> QED
  BY <1>1, <1>2, <1>3, StaysJudged, PTL DEF Spec
=============================================================================
