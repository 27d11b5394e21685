------------------------------ MODULE AutoPause ------------------------------
(***************************************************************************)
(* The adaptive auto-pause (btc_bot/adaptive.py): before an entry the loop *)
(* judges the latest closed trades and, when they lost too much, pauses    *)
(* itself until the operator clears the pause.                             *)
(*                                                                         *)
(* The loop's evaluation reads the pause flag, then where its edge window  *)
(* begins, then the journal, and then writes; the operator's clear writes  *)
(* the flag and later the time stamp.  They run in different threads, so   *)
(* the steps of one come between those of the other.  Time is in whole     *)
(* seconds, as stored.  The auto-pause is enabled, its default.            *)
(***************************************************************************)
EXTENDS Integers, SequencesExt

CONSTANTS
  None,       \* no time stamp, no position
  Window,     \* BTC_AUTO_PAUSE_WINDOW
  MinTrades,  \* BTC_AUTO_PAUSE_MIN_TRADES
  FloorPct,   \* BTC_AUTO_PAUSE_MIN_ROI, in percent
  Pnls,       \* what a trade of one unit may realize
  LastTrade,  \* bound: number of closed trades
  LastSecond  \* bound: the last second of the clock

ASSUME NoneAssumption  == None \notin Int
ASSUME ParamAssumption ==
  /\ {Window, MinTrades, LastTrade, LastSecond} \subseteq Nat \ {0}
  /\ FloorPct \in Int /\ Pnls \subseteq Int

VARIABLES
  clock,     \* the time, in seconds
  trades,    \* the journal's closed trades, in the order they were opened
  open,      \* when the open position was opened, or None
  paused,    \* config btc_bot.auto_paused
  session,   \* config btc_bot.session_start
  cleared,   \* config btc_bot.auto_pause_cleared_at
  pc,        \* the loop: "off", "idle", "window", "judge", "pause", "enter"
  since,     \* the start of the edge window this evaluation has read
  clear,     \* the operator's clear: "idle", or "stamp" before its last write
  alone      \* observer: no clear overlapped this evaluation

vars == <<clock, trades, open, paused, session, cleared, pc, since, clear, alone>>
journalVars == <<trades, open>>
configVars  == <<paused, session, cleared>>

-----------------------------------------------------------------------------
Num(t) == IF t = None THEN 0 ELSE t
Larger(a, b) == IF a >= b THEN a ELSE b

\* Fault: a clear does not move the edge window.
EdgeOfSession == Num(session)
\* _edge_window_since: the later of the session start and the last clear.
Edge == Larger(Num(session), Num(cleared))

\* The trades opened in the edge window, by their place in the journal.
Scoped(from) == {i \in DOMAIN trades : trades[i].at >= from}

\* Fault: the oldest trades of the window are judged.
RecentOldest(from) == {i \in Scoped(from) : Cardinality({k \in Scoped(from) : k < i}) < Window}
\* rolling_performance: the last Window trades opened in the edge window.
Recent(from) == {i \in Scoped(from) : Cardinality({k \in Scoped(from) : k > i}) < Window}

Realized(places) == SumFunctionOnSet([i \in DOMAIN trades |-> trades[i].pnl], places)

\* should_pause: the return on what those trades cost is below the floor.
Decayed(from) ==
  /\ Cardinality(Recent(from)) >= MinTrades
  /\ 100 * Realized(Recent(from)) < FloorPct * Cardinality(Recent(from))

Init ==
  /\ clock = 1 /\ trades = <<>> /\ open = None
  /\ paused = FALSE /\ session = None /\ cleared = None
  /\ pc = "off" /\ since = 0 /\ clear = "idle" /\ alone = TRUE

-----------------------------------------------------------------------------
(* The loop. *)

\* A loop starts: its session begins now.
Start ==
  /\ pc = "off"
  /\ session' = clock /\ pc' = "idle"
  /\ UNCHANGED <<clock, journalVars, paused, cleared, since, clear, alone>>

Close(p) ==
  /\ open # None /\ Len(trades) < LastTrade
  /\ trades' = Append(trades, [at |-> open, pnl |-> p]) /\ open' = None

\* The position is resolved at the top of a tick, or force-closed by a stop.
CloseInTick(p) ==
  /\ pc = "idle" /\ Close(p)
  /\ UNCHANGED <<clock, configVars, pc, since, clear, alone>>

Stop ==
  /\ pc = "idle"
  /\ pc' = "off"
  /\ UNCHANGED journalVars \/ \E p \in Pnls : Close(p)
  /\ UNCHANGED <<clock, configVars, since, clear, alone>>
\* A signal: the pause is sticky, and judged before anything else.
Evaluate ==
  /\ pc = "idle" /\ ~paused
  /\ pc' = "window" /\ alone' = (clear = "idle")
  /\ UNCHANGED <<clock, journalVars, configVars, since, clear>>

\* Fault: a clear time that was never written is used as it is.
ReadWindowUnset ==
  /\ pc = "window"
  /\ since' = cleared /\ pc' = "judge"
  /\ UNCHANGED <<clock, journalVars, configVars, clear, alone>>
ReadWindow ==
  /\ pc = "window"
  /\ since' = Edge /\ pc' = "judge"
  /\ UNCHANGED <<clock, journalVars, configVars, clear, alone>>

\* Fault: the warm-up takes one trade more than the window holds.
JudgeWarmingUp ==
  /\ pc = "judge"
  /\ pc' = IF Decayed(since) /\ Cardinality(Recent(since)) > MinTrades THEN "pause" ELSE "enter"
  /\ UNCHANGED <<clock, journalVars, configVars, since, clear, alone>>
Judge ==
  /\ pc = "judge"
  /\ pc' = IF Decayed(since) THEN "pause" ELSE "enter"
  /\ UNCHANGED <<clock, journalVars, configVars, since, clear, alone>>

Pause ==
  /\ pc = "pause"
  /\ paused' = TRUE /\ pc' = "idle"
  /\ UNCHANGED <<clock, journalVars, session, cleared, since, clear, alone>>

\* The rest of _maybe_open_position: at most one position, and ticks are more
\* than a second apart; any other gate may refuse.
Enter ==
  /\ pc = "enter"
  /\ pc' = "idle"
  /\ \/ /\ open = None /\ \A i \in DOMAIN trades : trades[i].at < clock
        /\ open' = clock
     \/ UNCHANGED open
  /\ UNCHANGED <<clock, trades, configVars, since, clear, alone>>

-----------------------------------------------------------------------------
(* The operator and the environment. *)

\* clear_auto_pause lowers the flag ...
ClearFlag ==
  /\ clear = "idle"
  /\ paused' = FALSE /\ clear' = "stamp" /\ alone' = FALSE
  /\ UNCHANGED <<clock, journalVars, session, cleared, pc, since>>

\* ... and two writes later records the time.
ClearStamp ==
  /\ clear = "stamp"
  /\ cleared' = clock /\ clear' = "idle" /\ alone' = FALSE
  /\ UNCHANGED <<clock, journalVars, paused, session, pc, since>>

PassTime ==
  /\ clock < LastSecond
  /\ clock' = clock + 1
  /\ UNCHANGED <<journalVars, configVars, pc, since, clear, alone>>

\* The process dies; a clear in progress may be that of the separate tool.
Crash ==
  /\ pc # "off"
  /\ pc' = "off" /\ clear' \in {clear, "idle"}
  /\ UNCHANGED <<clock, journalVars, configVars, since, alone>>

Next ==
  \/ Start \/ Stop \/ (\E p \in Pnls : CloseInTick(p))
  \/ Evaluate \/ ReadWindow \/ Judge \/ Pause \/ Enter
  \/ ClearFlag \/ ClearStamp \/ PassTime \/ Crash

Spec == Init /\ [][Next]_vars

-----------------------------------------------------------------------------
(* Properties. *)

Times == 1 .. LastSecond

\* Every variable stays in its range.
TypeOK ==
  /\ clock \in Times /\ open \in Times \cup {None}
  /\ Len(trades) <= LastTrade /\ \A i \in DOMAIN trades : trades[i] \in [at: Times, pnl: Pnls]
  /\ {paused, alone} \subseteq BOOLEAN /\ {session, cleared} \subseteq Times \cup {None}
  /\ pc \in {"off", "idle", "window", "judge", "pause", "enter"}
  /\ since \in Times \cup {0} /\ clear \in {"idle", "stamp"}

\* A strategy that only loses is stopped: the trades opened since the last
\* start or clear never hold more losses in a row than the window is long
\* (adaptive.py:3-9), whatever clears and crashes overlap an evaluation.
BleedBounded ==
  LET enough == Larger(Window, MinTrades)
  IN \A i \in Scoped(Edge) :
       i + enough <= Len(trades) => \E j \in i .. i + enough : trades[j].pnl >= 0

\* No entry is made while the pause stands, even when the position open at the
\* time of the pause wins the loss back: the bot never resumes by itself
\* (adaptive.py:6-9). Nor is one made while the trades of the edge window in
\* force are below the floor, although the window may move between its reading
\* and the entry (adaptive.py:125-144).
EntersSound == [][open = None /\ open' # None => ~paused /\ ~Decayed(Edge)]_vars

\* An evaluation that no clear overlaps pauses only for trades opened since the
\* last clear: the clear is not undone by the losses it cleared
\* (adaptive.py:30-33).
ClearSticks == [][~paused /\ paused' /\ alone => Decayed(Larger(Num(session), Num(cleared)))]_vars
=============================================================================
