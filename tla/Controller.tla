----------------------------- MODULE Controller -----------------------------
(***************************************************************************)
(* Who runs the trading loop: the dashboard's start, stop and mode         *)
(* requests and the loop watchdog (btc_bot/controller.py), the runner      *)
(* threads they spawn and the module globals those threads share           *)
(* (run_paper_loop and its tick in btc_bot/paper.py).                      *)
(*                                                                         *)
(* Every thread is a process; a step ends where the code awaits, joins or  *)
(* may be preempted between two uses of a shared global.  Requests are     *)
(* served one at a time, but for a Start during the join of a stop; status *)
(* polls come at any time.  A position is a ledger row; it is "live" when  *)
(* real tokens were bought for it.                                         *)
(***************************************************************************)
EXTENDS Integers

CONSTANTS
  None,       \* no thread, no owner, nothing read
  EnvMode,    \* BTC_BOT_MODE, the mode before the operator selects one
  Modes,      \* the modes the operator may select
  Events,     \* what may happen besides the normal course, see EventNames
  MaxThreads  \* bound: number of runner threads ever started

Threads == 1 .. MaxThreads

EventNames == {"wedge",    \* an await of the loop outlasts the watchdog
               "slow",     \* the runner outlasts the 90 s join of a stop
               "refuse",   \* live boot refused
               "startup",  \* an exception between the globals and the loop
               "flatten",  \* the live flatten of a stop fails
               "halt",     \* the daily loss halt trips
               "overlap",  \* a Start while a stop waits for its join
               "poll",     \* the dashboard polls the status
               "crash"}    \* the process dies and is started again

ASSUME NoneAssumption   == None \notin Int
ASSUME BoundAssumption  == MaxThreads \in Nat
ASSUME InputsAssumption ==
  EnvMode \in {"paper", "live"} /\ Modes \subseteq {"paper", "live"} /\ Events \subseteq EventNames

VARIABLES
  requested,     \* config btc_bot.requested_mode
  stateRow,      \* config btc_bot.state
  rows,          \* open ledger rows, by kind
  th,            \* the runner threads
  runner,        \* _runner_thread, with its _stop_event
  gen,           \* _loop_generation
  exec,          \* the thread that built _live_executor
  gate,          \* the thread that built _risk_gate
  desired,       \* _desired_running
  modeCache,     \* _mode_cache
  stale,         \* the heartbeat is older than WATCHDOG_STALL_SECONDS
  dog,           \* the watchdog thread: "off", "poll", "respawn"
  stallNotified, \* _live_stall_notified
  silent,        \* _silent_stop_notified
  op,            \* the dashboard request being served
  target,        \* the mode read by a start or asked for by set_mode
  joined,        \* the thread a stop waits for
  poll           \* the state row a status poll has read

config  == <<requested, stateRow>>
globals == <<gen, exec, gate>>
flags   == <<desired, modeCache>>
dogVars == <<dog, stallNotified>>
opVars  == <<op, target, joined>>
vars == <<config, rows, th, runner, globals, flags, stale, dogVars, silent, opVars, poll>>

-----------------------------------------------------------------------------
Kinds  == {"paper", "live"}
NoRows == [k \in Kinds |-> 0]
Unborn == {t \in Threads : th[t].pc = "none"}
Ticking == {"close", "check", "enter", "end"}
Slow    == Ticking \cup {"flatten"}  \* where a thread waits for the venue
Alive(t) == t # None /\ th[t].pc \notin {"none", "dead"}
Wedged(t) == th[t].await = "wedged"
Go(t, step) == th' = [th EXCEPT ![t].pc = step]

Init ==
  /\ requested = EnvMode /\ stateRow = "stopped" /\ rows = NoRows
  /\ th = [t \in Threads |-> [pc |-> "none", stop |-> FALSE, gen |-> 0, mode |-> EnvMode,
                              await |-> "ok"]]
  /\ runner = None /\ gen = 0 /\ exec = None /\ gate = None
  /\ desired = FALSE /\ modeCache = "paper" /\ stale = FALSE
  /\ dog = "off" /\ stallNotified = FALSE /\ silent = FALSE
  /\ op = "idle" /\ target = EnvMode /\ joined = None /\ poll = None

-----------------------------------------------------------------------------
(* The runner thread: run_paper_loop. *)

At(t, step) == th[t].pc = step /\ ~Wedged(t)

\* It claims a generation, beats and reads the mode.
ClaimGeneration(t) ==
  /\ At(t, "new")
  /\ gen' = gen + 1 /\ stale' = FALSE
  /\ th' = [th EXCEPT ![t].pc = "boot", ![t].gen = gen + 1, ![t].mode = requested]
  /\ UNCHANGED <<config, rows, runner, exec, gate, flags, dogVars, silent, opVars, poll>>

BootPaper(t) ==
  /\ At(t, "boot") /\ th[t].mode = "paper"
  /\ gate' = t
  /\ Go(t, "ready")
  /\ UNCHANGED <<config, rows, runner, gen, exec, flags, stale, dogVars, silent, opVars, poll>>

\* Reconciliation closes a row no live order was ever submitted for, adopts a
\* live one, and refuses two.
BootLive(t) ==
  /\ At(t, "boot") /\ th[t].mode = "live" /\ rows["paper"] + rows["live"] <= 1
  /\ rows' = [rows EXCEPT !["paper"] = 0]
  /\ exec' = t /\ gate' = t
  /\ Go(t, "ready")
  /\ UNCHANGED <<config, runner, gen, flags, stale, dogVars, silent, opVars, poll>>

BootRefused(t) ==
  /\ At(t, "boot") /\ th[t].mode = "live"
  /\ "refuse" \in Events \/ rows["paper"] + rows["live"] > 1
  /\ stateRow' = "stopped"
  /\ Go(t, "dead")
  /\ UNCHANGED <<requested, rows, runner, globals, flags, stale, dogVars, silent, opVars, poll>>

SetRunning(t) ==
  /\ At(t, "ready")
  /\ stateRow' = "running"
  /\ Go(t, "loop")
  /\ UNCHANGED <<requested, rows, runner, globals, flags, stale, dogVars, silent, opVars, poll>>

\* An exception before the loop's try block: the globals stay as they are.
\* Bound: a thread is left to the watchdog.
StartupFails(t) ==
  /\ At(t, "ready") /\ "startup" \in Events /\ Unborn # {}
  /\ Go(t, "dead")
  /\ UNCHANGED <<config, rows, runner, globals, flags, stale, dogVars, silent, opVars, poll>>

BeginTick(t) ==
  /\ At(t, "loop") /\ ~th[t].stop
  /\ Go(t, "close")
  /\ UNCHANGED <<config, rows, runner, globals, flags, stale, dogVars, silent, opVars, poll>>

\* A due row is closed, by the executor if there is one.
TickClose(t) ==
  /\ At(t, "close")
  /\ \/ UNCHANGED rows
     \/ \E k \in Kinds : rows[k] > 0 /\ rows' = [rows EXCEPT ![k] = @ - 1]
  /\ Go(t, "check")
  /\ UNCHANGED <<config, runner, globals, flags, stale, dogVars, silent, opVars, poll>>

\* The ledger is checked for an open row ...
TickCheck(t) ==
  /\ At(t, "check")
  /\ Go(t, "end") \/ (rows = NoRows /\ Go(t, "enter"))
  /\ UNCHANGED <<config, rows, runner, globals, flags, stale, dogVars, silent, opVars, poll>>

\* A row records the mode it is opened in by whether there is an executor, not
\* by the mode of the thread that opens it (_insert_position_row).
RowMode == IF exec # None THEN "live" ELSE "paper"

\* ... and a position is entered, through the executor if there is one.
TickEnter(t) ==
  /\ At(t, "enter")
  /\ rows' = [rows EXCEPT ![RowMode] = @ + 1]
  /\ Go(t, "end")
  /\ UNCHANGED <<config, runner, globals, flags, stale, dogVars, silent, opVars, poll>>

\* A live loss halt ends the loop before the beat.
EndTick(t) ==
  /\ At(t, "end")
  /\ \/ stale' = FALSE /\ Go(t, "loop")
     \/ "halt" \in Events /\ th[t].mode = "live" /\ gate # None /\ Go(t, "finally") /\ UNCHANGED stale
  /\ UNCHANGED <<config, rows, runner, globals, flags, dogVars, silent, opVars, poll>>

SeeStop(t) ==
  /\ At(t, "loop") /\ th[t].stop
  /\ Go(t, "finally")
  /\ UNCHANGED <<config, rows, runner, globals, flags, stale, dogVars, silent, opVars, poll>>

\* The generation guard: a superseded loop leaves everything alone.
GuardExit(t) ==
  /\ At(t, "finally")
  /\ IF th[t].gen # gen THEN Go(t, "dead")
     ELSE IF exec # None THEN Go(t, "flatten") ELSE Go(t, "clear")
  /\ UNCHANGED <<config, rows, runner, globals, flags, stale, dogVars, silent, opVars, poll>>

\* cancel_open, force_close_open_positions, then the executor is dropped.
Flatten(t) ==
  /\ At(t, "flatten")
  /\ rows' = [rows EXCEPT !["live"] = 0] \/ ("flatten" \in Events /\ UNCHANGED rows)
  /\ exec' = None
  /\ Go(t, "clear")
  /\ UNCHANGED <<config, runner, gen, gate, flags, stale, dogVars, silent, opVars, poll>>

ClearGate(t) ==
  /\ At(t, "clear")
  /\ gate' = None
  /\ Go(t, "stopped")
  /\ UNCHANGED <<config, rows, runner, gen, exec, flags, stale, dogVars, silent, opVars, poll>>

SetStopped(t) ==
  /\ At(t, "stopped")
  /\ stateRow' = "stopped"
  /\ Go(t, "dead")
  /\ UNCHANGED <<requested, rows, runner, globals, flags, stale, dogVars, silent, opVars, poll>>

\* An await of a tick does not return for minutes, or ever.  Bounds: once per
\* thread, and a thread is left to the watchdog.
Wedge(t) ==
  /\ "wedge" \in Events /\ th[t].pc \in Ticking /\ th[t].await = "ok"
  /\ Unborn # {}
  /\ th' = [th EXCEPT ![t].await = "wedged"]
  /\ UNCHANGED <<config, rows, runner, globals, flags, stale, dogVars, silent, opVars, poll>>

Unwedge(t) ==
  /\ Wedged(t)
  /\ th' = [th EXCEPT ![t].await = "over"]
  /\ UNCHANGED <<config, rows, runner, globals, flags, stale, dogVars, silent, opVars, poll>>

-----------------------------------------------------------------------------
(* The watchdog. *)

\* Three minutes without a beat.
HeartbeatAges ==
  /\ ~stale /\ \A t \in Threads : Alive(t) => Wedged(t)
  /\ stale' = TRUE
  /\ UNCHANGED <<config, rows, th, runner, globals, flags, dogVars, silent, opVars, poll>>

\* Fault: a live loop is restarted too.
WatchdogPollAny ==
  /\ dog = "poll"
  /\ dog' = IF desired /\ stale THEN "respawn" ELSE "poll"
  /\ stallNotified' = FALSE
  /\ UNCHANGED <<config, rows, th, runner, globals, flags, stale, silent, opVars, poll>>

\* One poll: watchdog_verdict on the flags as they are now.
WatchdogPoll ==
  /\ dog = "poll"
  /\ LET verdict == IF ~desired \/ ~stale THEN "ok"
                    ELSE IF modeCache = "live" THEN "notify" ELSE "restart"
     IN /\ stallNotified' = (verdict = "notify" \/ (verdict = "restart" /\ stallNotified))
        /\ dog' = IF verdict = "restart" THEN "respawn" ELSE "poll"
  /\ UNCHANGED <<config, rows, th, runner, globals, flags, stale, silent, opVars, poll>>

\* Some thread that has not been used yet: they are alike.
NextThread == CHOOSE t \in Unborn : TRUE
Spawned(t) == [th EXCEPT ![NextThread].pc = "new", ![t].stop = TRUE]

\* Fault: a living thread is respected, wedged or not.
RespawnGently ==
  /\ dog = "respawn" /\ Unborn # {}
  /\ dog' = "poll" /\ stale' = FALSE
  /\ IF Alive(runner) THEN UNCHANGED <<th, runner>>
     ELSE th' = [th EXCEPT ![NextThread].pc = "new"] /\ runner' = NextThread
  /\ UNCHANGED <<config, rows, globals, flags, stallNotified, silent, opVars, poll>>

\* Fault: the abandoned thread is not told to stop.
RespawnUnstopped ==
  /\ dog = "respawn" /\ Unborn # {}
  /\ dog' = "poll" /\ stale' = FALSE
  /\ th' = [th EXCEPT ![NextThread].pc = "new"] /\ runner' = NextThread
  /\ UNCHANGED <<config, rows, globals, flags, stallNotified, silent, opVars, poll>>

\* After its notification is written: beat, abandon the old thread, start anew.
Respawn ==
  /\ dog = "respawn" /\ Unborn # {}
  /\ dog' = "poll" /\ stale' = FALSE
  /\ th' = IF Alive(runner) THEN Spawned(runner) ELSE [th EXCEPT ![NextThread].pc = "new"]
  /\ runner' = NextThread
  /\ UNCHANGED <<config, rows, globals, flags, stallNotified, silent, opVars, poll>>

-----------------------------------------------------------------------------
(* The dashboard's requests. *)

\* get_status after the state row r was read, or written, a moment ago.
Report(r) ==
  /\ stateRow' = IF Alive(runner) THEN "running" ELSE "stopped"
  /\ silent' = (~Alive(runner) /\ (silent \/ r = "running"))

\* Bound: a start that finds a stopping thread alive leaves one to the watchdog.
Room == Unborn # {} \/ (Alive(runner) /\ ~th[runner].stop)

StartRead ==
  /\ op = "idle" /\ Room
  /\ op' = "start" /\ target' = requested /\ UNCHANGED joined
  /\ UNCHANGED <<config, rows, th, runner, globals, flags, stale, dogVars, silent, poll>>

\* Live boot is refused before any thread starts.
StartRefused ==
  /\ op = "start" /\ target = "live" /\ "refuse" \in Events
  /\ op' = "idle"
  /\ Report("stopped")
  /\ UNCHANGED <<requested, rows, th, runner, globals, flags, stale, dogVars, target, joined, poll>>

\* _ensure_watchdog_started: one per process, which never ends.
WatchdogStarted == IF dog = "off" THEN "poll" ELSE dog

\* request_start once the boot is allowed: a living thread is left alone, even one that is
\* about to end.
StartRunner(mode) ==
  /\ Room
  /\ desired' = TRUE /\ modeCache' = mode /\ silent' = FALSE /\ stale' = FALSE
  /\ IF Alive(runner) THEN UNCHANGED <<th, runner>>
     ELSE th' = [th EXCEPT ![NextThread].pc = "new"] /\ runner' = NextThread
  /\ dog' = WatchdogStarted

StartSpawn ==
  /\ op = "start"
  /\ StartRunner(target)
  /\ op' = "started"
  /\ UNCHANGED <<config, rows, globals, stallNotified, target, joined, poll>>

\* A whole Start fits into the join of a stop, which holds no lock.
StartMeanwhile ==
  /\ op = "join" /\ Alive(joined) /\ "overlap" \in Events
  /\ StartRunner(requested)
  /\ stateRow' = "running"
  /\ UNCHANGED <<requested, rows, globals, stallNotified, opVars, poll>>

StartReport ==
  /\ op = "started"
  /\ op' = "idle"
  /\ Report("running")
  /\ UNCHANGED <<requested, rows, th, runner, globals, flags, stale, dogVars, target, joined, poll>>

\* request_stop, alone (m = None) or on behalf of set_mode(m).
StopRequest(m) ==
  /\ op = "idle"
  /\ op' = "join" /\ target' = m /\ joined' = runner
  /\ desired' = FALSE
  /\ th' = IF runner = None THEN th ELSE [th EXCEPT ![runner].stop = TRUE]
  /\ UNCHANGED <<config, rows, runner, globals, modeCache, stale, dogVars, silent, poll>>

\* Fault: the join has no timeout.
StopJoinForever ==
  /\ op = "join"
  /\ ~Alive(joined)
  /\ op' = IF EnvMode = "live" THEN "report" ELSE "close"
  /\ UNCHANGED <<config, rows, th, runner, globals, flags, stale, dogVars, silent, target, joined, poll>>

\* Fault: a stop closes what is open although the environment says live.
StopJoinPaper ==
  /\ op = "join"
  /\ Alive(joined) => Wedged(joined) \/ ("slow" \in Events /\ th[joined].pc \in Slow)
  /\ op' = "close"
  /\ UNCHANGED <<config, rows, th, runner, globals, flags, stale, dogVars, silent, target, joined, poll>>

\* The join returns when the thread ends, or after 90 seconds; what follows
\* depends on BTC_BOT_MODE.
StopJoin ==
  /\ op = "join"
  /\ Alive(joined) => Wedged(joined) \/ ("slow" \in Events /\ th[joined].pc \in Slow)
  /\ op' = IF EnvMode = "live" THEN "report" ELSE "close"
  /\ UNCHANGED <<config, rows, th, runner, globals, flags, stale, dogVars, silent, target, joined, poll>>

\* _safe_force_close: every open row, through the executor if there is one.
StopClose ==
  /\ op = "close"
  /\ rows' \in {NoRows, rows}
  /\ op' = "report"
  /\ UNCHANGED <<config, th, runner, globals, flags, stale, dogVars, silent, target, joined, poll>>

\* Fault: a plain stop selects a mode too.
StopReportMode ==
  /\ op = "report"
  /\ op' = "mode"
  /\ Report("stopped")
  /\ UNCHANGED <<requested, rows, th, runner, globals, flags, stale, dogVars, target, joined, poll>>

StopReport ==
  /\ op = "report"
  /\ op' = IF target = None THEN "idle" ELSE "mode"
  /\ Report("stopped")
  /\ UNCHANGED <<requested, rows, th, runner, globals, flags, stale, dogVars, target, joined, poll>>

SetMode ==
  /\ op = "mode"
  /\ op' = "idle" /\ requested' = target
  /\ Report(stateRow)
  /\ UNCHANGED <<rows, th, runner, globals, flags, stale, dogVars, target, joined, poll>>

\* A status poll reads the row, and several awaits later looks at the thread.
PollRead ==
  /\ "poll" \in Events /\ poll = None
  /\ poll' = stateRow
  /\ UNCHANGED <<config, rows, th, runner, globals, flags, stale, dogVars, silent, opVars>>

PollReport ==
  /\ poll # None
  /\ poll' = None
  /\ IF (poll = "running") # Alive(runner) THEN Report(poll)
     ELSE silent' = (silent /\ ~Alive(runner)) /\ UNCHANGED stateRow
  /\ UNCHANGED <<requested, rows, th, runner, globals, flags, stale, dogVars, opVars>>

\* Bound: a thread is left for the next start.
Crash ==
  /\ "crash" \in Events /\ Unborn # {} /\ (\E t \in Threads : Alive(t))
  /\ th' = [t \in Threads |-> IF Alive(t) THEN [th[t] EXCEPT !.pc = "dead", !.await = "over"]
                              ELSE th[t]]
  /\ runner' = None /\ exec' = None /\ gate' = None
  /\ desired' = FALSE /\ modeCache' = "paper" /\ dog' = "off" /\ stallNotified' = FALSE
  /\ silent' = FALSE /\ op' = "idle" /\ poll' = None
  /\ UNCHANGED <<config, rows, gen, stale, target, joined>>

-----------------------------------------------------------------------------
Start == StartRead \/ StartRefused \/ StartSpawn \/ StartReport \/ StartMeanwhile
Stop  == StopRequest(None) \/ StopJoin \/ StopClose \/ StopReport
Mode  == (\E m \in Modes : StopRequest(m)) \/ SetMode
Status   == PollRead \/ PollReport
Watchdog == HeartbeatAges \/ WatchdogPoll \/ Respawn
Thread(t) ==
  \/ ClaimGeneration(t) \/ BootPaper(t) \/ BootLive(t) \/ BootRefused(t) \/ SetRunning(t)
  \/ StartupFails(t) \/ BeginTick(t) \/ TickClose(t) \/ TickCheck(t) \/ TickEnter(t)
  \/ EndTick(t) \/ SeeStop(t) \/ GuardExit(t) \/ Flatten(t) \/ ClearGate(t) \/ SetStopped(t)

Next ==
  \/ Start \/ Stop \/ Mode \/ Status \/ Watchdog \/ Crash
  \/ \E t \in Threads : Thread(t) \/ Wedge(t) \/ Unwedge(t)

Spec == Init /\ [][Next]_vars

\* Threads run unless an await never returns; a request, once served, goes on;
\* the watchdog keeps polling, and now and then the operator leaves Start, which
\* beats too, alone for as long as a poll takes.
FairSpec ==
  /\ Spec
  /\ \A t \in Threads : WF_vars(Thread(t))
  /\ WF_vars(StartSpawn \/ StartReport) /\ WF_vars(StopJoin \/ StopClose \/ StopReport \/ SetMode)
  /\ SF_vars(HeartbeatAges) /\ SF_vars(WatchdogPoll) /\ WF_vars(Respawn)

-----------------------------------------------------------------------------
(* Properties. *)

\* Every variable stays in its range; rows are never negative.
TypeOK ==
  /\ requested \in Kinds /\ stateRow \in {"running", "stopped"} /\ rows \in [Kinds -> Nat]
  /\ th \in [Threads -> [pc: Slow \cup {"none", "new", "boot", "ready", "loop", "finally", "clear",
                                        "stopped", "dead"},
                         stop: BOOLEAN, gen: 0 .. MaxThreads, mode: Kinds, await: {"ok", "wedged", "over"}]]
  /\ {runner, exec, gate, joined} \subseteq Threads \cup {None} /\ gen \in 0 .. MaxThreads
  /\ {desired, stale, stallNotified, silent} \subseteq BOOLEAN
  /\ modeCache \in Kinds /\ target \in Kinds \cup {None}
  /\ dog \in {"off", "poll", "respawn"}
  /\ op \in {"idle", "start", "started", "join", "close", "report", "mode"}
  /\ poll \in {None, "running", "stopped"}

\* Whatever starts, stops, mode switches and crashes come in whatever order, at
\* most one position is open (live.py:462, "max 1 by design"), and a loop that was
\* not superseded ticks with the gate it built and, in live mode only, with the
\* executor it built (paper.py:525-528).
OneLoopTrades ==
  /\ rows["paper"] + rows["live"] <= 1
  /\ \A t \in Threads : th[t].pc \in Ticking /\ th[t].gen = gen =>
       gate = t /\ exec = IF th[t].mode = "live" THEN t ELSE None

\* A paper loop never enters a real position (controller.py:24-25), which a live loop
\* that dies of an exception while starting can bring about: see the README.
PaperIsPaper == \A t \in Threads : th[t].pc = "enter" /\ th[t].mode = "paper" => exec = None

\* Every living runner thread but the current one has been told to stop
\* (controller.py:290-296).
AbandonedAreStopped == \A t \in Threads : Alive(t) /\ t # runner => th[t].stop

\* A loop the watchdog has abandoned "exits immediately" if it ever un-wedges
\* (controller.py:290-292), which it does not: it finishes its tick first (paper.py:502).
AbandonedNeverTrades == [][\A t \in Threads : TickEnter(t) => t = runner]_vars

\* No live position is ever closed at paper prices (controller.py:241-244), as long as the
\* environment and the operator only know the live mode: see the README.
NeverPaperClosed == [][rows'["live"] < rows["live"] => exec # None]_vars

\* A live loop boots only if the operator's last Start was a live one
\* (controller.py:41-42, 170-171), which a restart the watchdog has decided on before a
\* switch to live can break.
LiveOnlyOnStart ==
  [][\A t \in Threads : th[t].pc = "boot" /\ th'[t].pc = "ready" /\ th[t].mode = "live" =>
       modeCache = "live"]_vars

\* Paper positions closed by a stop count towards the daily loss halt
\* (paper.py:1769-1771), which those of a stop do not: see the README.
PaperClosesCount == [][op = "close" /\ op' = "report" /\ rows'["paper"] < rows["paper"] => gate # None]_vars

\* As long as the operator wants a paper loop, one gets back to its loop
\* although ticks wedge for ever (controller.py:33-42).
PaperRecovers == (desired /\ modeCache = "paper") ~>
                   (~desired \/ \E t \in Threads : At(t, "loop") /\ ~th[t].stop)

\* A thread told to stop ends, unless it wedges, and a stop or mode request is
\* answered even when the runner never ends (controller.py:253-256).
StopsEnd ==
  /\ \A t \in Threads : (th[t].stop /\ Alive(t)) ~> (~Alive(t) \/ Wedged(t))
  /\ op = "join" ~> op = "idle"
=============================================================================
