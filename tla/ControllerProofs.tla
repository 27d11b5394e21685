-------------------------- MODULE ControllerProofs --------------------------
(***************************************************************************)
(* Theorems about who runs the trading loop, for any number of threads and *)
(* whatever happens: wedged and slow ticks, loops that die while starting, *)
(* Starts during a stop, failing flattens, crashes.  Only the watchdog's   *)
(* restart can bring a second loop about, and where nothing but real money *)
(* is traded there is none.                                                *)
(***************************************************************************)
EXTENDS Controller, FiniteSets, FiniteSetTheorems, TLAPS

\* The operator never leaves the mode of the environment; and that mode is live.
OneMode       == Modes \subseteq {EnvMode}
RealMoneyOnly == OneMode /\ EnvMode = "live"

\* A live loop that dies while starting leaves its executor behind, to a paper loop if there
\* may be one (paper.py:457-500).
LooseGear == "startup" \in Events /\ ~OneMode

-----------------------------------------------------------------------------
(* The invariant of a loop the watchdog leaves alone.                      *)

Places  == {"none", "new", "boot", "ready", "loop", "close", "check", "enter", "end", "finally",
            "flatten", "clear", "stopped", "dead"}
Living  == Places \ {"none", "dead"}
Geared  == {"ready", "loop", "close", "check", "enter", "end", "finally"}

Runners == [pc : Places, stop : BOOLEAN, gen : Int, mode : Kinds, await : {"ok", "wedged", "over"}]

Types ==
    /\ th \in [Threads -> Runners]
    /\ runner \in Threads \cup {None} /\ gen \in Int
    /\ requested \in Kinds /\ modeCache \in Kinds /\ target \in Kinds \cup {None}
    /\ rows \in [Kinds -> Nat]

\* One thread lives at a time, and it is the runner, stopped or not.
Lone ==
    /\ \A t \in Threads : th[t].pc \in Living => t = runner
    /\ \A t \in Threads : th[t].pc = "none" => t # runner

\* A request asks for a mode the operator may select, and a stop closes nothing where the
\* environment says live.
Requests ==
    /\ op = "start" => target = requested
    /\ op \in {"join", "close", "report"} => target \in Modes \cup {None}
    /\ op = "mode" => target \in Modes
    /\ op = "close" => EnvMode # "live"

SameMode == OneMode => requested = EnvMode /\ \A t \in Threads : th[t].mode = EnvMode

\* The living thread owns the gate and, in live mode, the executor, from its boot to its end;
\* an executor without a thread is left to a live one.
OwnGear ==
    \/ LooseGear
    \/ /\ \/ exec = None \/ RealMoneyOnly
          \/ \E t \in Threads : th[t].pc \in Geared \cup {"flatten"}
       /\ \A t \in Threads : th[t].pc \in Living =>
           /\ th[t].pc # "new" => th[t].gen = gen
           /\ th[t].pc \in Geared => gate = t /\ exec = IF th[t].mode = "live" THEN t ELSE None
           /\ th[t].pc = "flatten" => exec = t

OneRow ==
    /\ rows["paper"] + rows["live"] <= 1
    /\ \A t \in Threads : th[t].pc = "enter" => rows = NoRows

Inv == Types /\ Lone /\ Requests /\ SameMode /\ OwnGear /\ OneRow

\* The watchdog knows a bot that is wanted for a live one.
Calm == dog # "respawn" /\ (desired => modeCache = "live")

USE DEF Places, Living, Geared, Runners, Kinds, config, globals, flags, dogVars, opVars

-----------------------------------------------------------------------------
(* It holds at first, and every step but a restart keeps it.               *)

LEMMA ThreadsAreNotNone == None \notin Threads
    BY NoneAssumption, BoundAssumption DEF Threads

LEMMA NextIsUnborn == Unborn # {} => NextThread \in Unborn
    BY DEF NextThread

LEMMA InitInv == Init => Inv
    BY ThreadsAreNotNone, InputsAssumption DEF Init, NoRows, Inv, Types, Lone, Requests, SameMode,
       OwnGear, OneRow

\* A step of a thread to another place leaves the other threads, and its own mode and
\* generation, as they are.
LEMMA GoesOn ==
    ASSUME Inv, NEW t \in Threads, NEW step \in Living \cup {"dead"}, Go(t, step), th[t].pc \in Living,
           UNCHANGED <<requested, runner, modeCache, target, op>>
    PROVE  /\ th' \in [Threads -> Runners] /\ Lone' /\ Requests' /\ SameMode' /\ t = runner
           /\ \A u \in Threads : IF u = t THEN th'[u].pc = step ELSE th'[u].pc \notin Living
           /\ th'[t].mode = th[t].mode /\ th'[t].gen = th[t].gen
<1>1. th' \in [Threads -> Runners] /\ \A u \in Threads : th'[u].mode = th[u].mode /\ th'[u].gen = th[u].gen
    BY DEF Go, Inv, Types
<1>2. \A u \in Threads : th'[u].pc = IF u = t THEN step ELSE th[u].pc
    BY DEF Go, Inv, Types
<1>3. t = runner /\ \A u \in Threads \ {t} : th[u].pc \notin Living
    BY DEF Inv, Lone
<1>4. Lone' /\ Requests' /\ SameMode'
    BY <1>1, <1>2, <1>3 DEF Inv, Lone, Requests, SameMode
<1> QED
    BY <1>1, <1>2, <1>3, <1>4

\* A thread that claims its generation is alone, so that nobody is left behind by it.
LEMMA ClaimKeeps == ASSUME Inv, NEW t \in Threads, ClaimGeneration(t) PROVE Inv'
<1>1. Types'
  <2> DEFINE new == [th[t] EXCEPT !.pc = "boot", !.gen = gen + 1, !.mode = requested]
  <2>1. new \in Runners
    <3>1. th[t] \in Runners
      BY DEF Inv, Types
    <3>2. gen + 1 \in Int /\ requested \in Kinds
      BY DEF Inv, Types
    <3> QED
      BY <3>1, <3>2
  <2>2. th' = [th EXCEPT ![t] = new]
    BY DEF ClaimGeneration
  <2> QED
    BY <2>1, <2>2 DEF ClaimGeneration, Inv, Types
<1>2. Lone' /\ Requests' /\ SameMode' /\ OneRow'
    BY DEF ClaimGeneration, At, Inv, Types, Lone, Requests, SameMode, OneRow
<1>3. OwnGear'
    BY DEF ClaimGeneration, At, Inv, Types, Lone, OwnGear
<1> QED
    BY <1>1, <1>2, <1>3 DEF Inv

\* The boot takes the gate and, in live mode, the executor, and leaves one open row at most.
LEMMA BootKeeps ==
    ASSUME Inv, NEW t \in Threads,
           BootPaper(t) \/ BootLive(t) \/ BootRefused(t) \/ SetRunning(t) \/ StartupFails(t)
    PROVE  Inv'
<1>1. CASE BootPaper(t)
  <2>1. ~LooseGear /\ th[t].mode = "paper" => exec = None
    BY <1>1 DEF BootPaper, At, Inv, Lone, SameMode, OwnGear, RealMoneyOnly
  <2> QED
    BY <1>1, <2>1, GoesOn DEF BootPaper, At, Inv, Types, OwnGear, OneRow
<1>2. CASE BootLive(t)
    BY <1>2, GoesOn DEF BootLive, At, Inv, Types, OwnGear, OneRow
<1>3. CASE BootRefused(t)
    BY <1>3, GoesOn DEF BootRefused, At, Inv, Types, Lone, OwnGear, OneRow
<1>4. CASE SetRunning(t)
    BY <1>4, GoesOn DEF SetRunning, At, Inv, Types, OwnGear, OneRow
<1>5. CASE StartupFails(t)
  <2>1. ~LooseGear => exec = None \/ RealMoneyOnly
    BY <1>5, InputsAssumption
    DEF StartupFails, At, Inv, Types, SameMode, OwnGear, LooseGear, RealMoneyOnly
  <2> QED
    BY <1>5, <2>1, GoesOn DEF StartupFails, At, Inv, Types, OwnGear, OneRow
<1> QED
    BY <1>1, <1>2, <1>3, <1>4, <1>5

\* The only thread that ticks finds the ledger as it was when it checked it.
LEMMA TickKeeps ==
    ASSUME Inv, NEW t \in Threads,
           BeginTick(t) \/ TickClose(t) \/ TickCheck(t) \/ TickEnter(t) \/ EndTick(t)
    PROVE  Inv'
<1>1. CASE BeginTick(t)
    BY <1>1, GoesOn DEF BeginTick, At, Inv, Types, OwnGear, OneRow
<1>2. CASE TickClose(t)
  <2>1. rows' \in [Kinds -> Nat] /\ rows'["paper"] + rows'["live"] <= 1
    BY <1>2 DEF TickClose, Inv, Types, OneRow
  <2> QED
    BY <1>2, <2>1, GoesOn DEF TickClose, At, Inv, Types, OwnGear, OneRow
<1>3. CASE TickCheck(t)
  <2>1. \/ Go(t, "end")
        \/ Go(t, "enter") /\ rows = NoRows
    BY <1>3 DEF TickCheck
  <2>2. \A step \in {"end", "enter"} : Go(t, step) => OwnGear' /\ Types' /\ Lone' /\ Requests' /\ SameMode'
    BY <1>3, GoesOn DEF TickCheck, At, Inv, Types, OwnGear
  <2>3. OneRow'
    BY <1>3, <2>1, GoesOn DEF TickCheck, At, Inv, OneRow, NoRows
  <2> QED
    BY <2>1, <2>2, <2>3 DEF Inv
<1>4. CASE TickEnter(t)
  <2>1. rows' \in [Kinds -> Nat] /\ rows'["paper"] + rows'["live"] <= 1
    BY <1>4 DEF TickEnter, At, RowMode, NoRows, Inv, Types, OneRow
  <2> QED
    BY <1>4, <2>1, GoesOn DEF TickEnter, At, Inv, Types, OwnGear, OneRow
<1>5. CASE EndTick(t)
  <2>1. \E step \in {"loop", "finally"} : Go(t, step)
    BY <1>5 DEF EndTick
  <2> QED
    BY <1>5, <2>1, GoesOn DEF EndTick, At, Inv, Types, OwnGear, OneRow
<1> QED
    BY <1>1, <1>2, <1>3, <1>4, <1>5

\* The last thread that claimed a generation passes the guard and hands its gear back.
LEMMA EndKeeps ==
    ASSUME Inv, NEW t \in Threads,
           SeeStop(t) \/ GuardExit(t) \/ Flatten(t) \/ ClearGate(t) \/ SetStopped(t)
    PROVE  Inv'
<1>1. CASE SeeStop(t)
    BY <1>1, GoesOn DEF SeeStop, At, Inv, Types, OwnGear, OneRow
<1>2. CASE GuardExit(t)
  <2>1. \/ Go(t, "flatten") /\ exec # None
        \/ Go(t, "clear") /\ exec = None
        \/ Go(t, "dead") /\ th[t].gen # gen
    BY <1>2 DEF GuardExit
  <2>2. CASE Go(t, "flatten") /\ exec # None
    BY <1>2, <2>2, GoesOn DEF GuardExit, At, Inv, Types, OwnGear, OneRow
  <2>3. CASE Go(t, "clear") /\ exec = None
    BY <1>2, <2>3, GoesOn DEF GuardExit, At, Inv, Types, OwnGear, OneRow
  <2>4. CASE Go(t, "dead") /\ th[t].gen # gen
    BY <1>2, <2>4, GoesOn DEF GuardExit, At, Inv, Types, OwnGear, OneRow
  <2> QED
    BY <2>1, <2>2, <2>3, <2>4
<1>3. CASE Flatten(t)
  <2>1. rows' \in [Kinds -> Nat] /\ rows'["paper"] + rows'["live"] <= 1
    BY <1>3 DEF Flatten, Inv, Types, OneRow
  <2> QED
    BY <1>3, <2>1, GoesOn DEF Flatten, At, Inv, Types, OwnGear, OneRow
<1>4. CASE ClearGate(t)
  <2>1. ~LooseGear => exec = None \/ RealMoneyOnly
    BY <1>4 DEF ClearGate, At, Inv, Lone, OwnGear
  <2> QED
    BY <1>4, <2>1, GoesOn DEF ClearGate, At, Inv, Types, OwnGear, OneRow
<1>5. CASE SetStopped(t)
  <2>1. ~LooseGear => exec = None \/ RealMoneyOnly
    BY <1>5 DEF SetStopped, At, Inv, Lone, OwnGear
  <2> QED
    BY <1>5, <2>1, GoesOn DEF SetStopped, At, Inv, Types, OwnGear, OneRow
<1> QED
    BY <1>1, <1>2, <1>3, <1>4, <1>5

\* A start, during a join or not, spawns a thread only where none lives.
LEMMA StartKeeps ==
    ASSUME Inv, StartRead \/ StartRefused \/ StartSpawn \/ StartReport \/ StartMeanwhile
    PROVE  Inv'
<1>1. CASE StartRead \/ StartRefused \/ StartReport
  <2>1. UNCHANGED <<requested, rows, th, runner, gen, exec, gate, modeCache>>
    BY <1>1 DEF StartRead, StartRefused, StartReport
  <2>2. \/ op' = "idle" /\ target' = target
        \/ op' = "start" /\ target' = requested
    BY <1>1 DEF StartRead, StartRefused, StartReport
  <2>3. Types' /\ Lone' /\ Requests'
    BY <2>1, <2>2 DEF Inv, Types, Lone, Requests
  <2> QED
    BY <2>1, <2>3 DEF Inv, SameMode, OwnGear, OneRow
<1>2. CASE StartSpawn \/ StartMeanwhile
  <2>1. /\ UNCHANGED <<requested, rows, gen, exec, gate, target>> /\ modeCache' \in Kinds
        /\ op' \in {op, "started"}
    BY <1>2 DEF StartSpawn, StartMeanwhile, StartRunner, Inv, Types, Requests
  <2>2. Requests'
    BY <2>1 DEF Inv, Requests
  <2>3. CASE Alive(runner)
    <3>1. UNCHANGED <<th, runner>>
      BY <1>2, <2>3 DEF StartSpawn, StartMeanwhile, StartRunner
    <3> QED
      BY <2>1, <2>2, <3>1 DEF Inv, Types, Lone, SameMode, OwnGear, OneRow
  <2>4. CASE ~Alive(runner)
    <3> DEFINE n == NextThread
    <3>1. /\ n \in Threads /\ th[n].pc = "none"
          /\ th' = [th EXCEPT ![n].pc = "new"] /\ runner' = n
      BY <1>2, <2>4, NextIsUnborn DEF StartSpawn, StartMeanwhile, StartRunner, Room, Unborn
    <3>2. \A t \in Threads : th[t].pc \notin Living
      BY <2>4, ThreadsAreNotNone DEF Alive, Inv, Lone
    <3> HIDE DEF n
    <3>3. /\ th' \in [Threads -> Runners]
          /\ \A t \in Threads : th'[t].mode = th[t].mode
          /\ \A t \in Threads : th'[t].pc = IF t = n THEN "new" ELSE th[t].pc
      BY <3>1 DEF Inv, Types
    <3>4. Types' /\ Lone' /\ SameMode' /\ OneRow'
      BY <2>1, <3>1, <3>2, <3>3 DEF Inv, Types, Lone, SameMode, OneRow
    <3>5. OwnGear'
      BY <2>1, <3>2, <3>3 DEF Inv, OwnGear
    <3> QED
      BY <2>2, <3>4, <3>5 DEF Inv
  <2> QED
    BY <2>3, <2>4
<1> QED
    BY <1>1, <1>2

\* A stop tells the runner, waits for it or does not, and may leave it alive.
LEMMA StopKeeps ==
    ASSUME Inv, NEW m \in Modes \cup {None},
           StopRequest(m) \/ StopJoin \/ StopClose \/ StopReport \/ SetMode
    PROVE  Inv'
<1>1. CASE StopRequest(m)
  <2>1. m \in Kinds \cup {None}
    BY InputsAssumption
  <2>2. /\ runner' = runner /\ op' = "join" /\ target' = m
        /\ UNCHANGED <<requested, rows, gen, exec, gate, modeCache>>
    BY <1>1 DEF StopRequest
  <2>3. /\ th' \in [Threads -> Runners]
        /\ \A t \in Threads : th'[t].pc = th[t].pc /\ th'[t].mode = th[t].mode /\ th'[t].gen = th[t].gen
    BY <1>1 DEF StopRequest, Inv, Types
  <2>4. Types' /\ Lone' /\ Requests'
    BY <2>1, <2>2, <2>3 DEF Inv, Types, Lone, Requests
  <2>5. SameMode' /\ OwnGear' /\ OneRow'
    BY <2>2, <2>3 DEF Inv, SameMode, OwnGear, OneRow
  <2> QED
    BY <2>4, <2>5 DEF Inv
<1>2. CASE StopJoin \/ StopReport
  <2>1. UNCHANGED <<requested, rows, th, runner, gen, exec, gate, modeCache, target>>
    BY <1>2 DEF StopJoin, StopReport
  <2>2. Requests'
    BY <1>2, <2>1 DEF StopJoin, StopReport, Inv, Requests
  <2> QED
    BY <2>1, <2>2 DEF Inv, Types, Lone, SameMode, OwnGear, OneRow
<1>3. CASE StopClose
    BY <1>3 DEF StopClose, NoRows, Inv, Types, Lone, Requests, SameMode, OwnGear, OneRow
<1>4. CASE SetMode
  <2>1. UNCHANGED <<rows, th, runner, gen, exec, gate, modeCache, target>>
    BY <1>4 DEF SetMode
  <2>2. requested' \in Modes /\ requested' \in Kinds /\ op' = "idle"
    BY <1>4, InputsAssumption DEF SetMode, Inv, Requests
  <2>3. Types' /\ Lone' /\ Requests' /\ SameMode'
    BY <2>1, <2>2 DEF Inv, Types, Lone, Requests, SameMode, OneMode
  <2> QED
    BY <2>1, <2>3 DEF Inv, OwnGear, OneRow
<1> QED
    BY <1>1, <1>2, <1>3, <1>4

LEMMA StatusKeeps ==
    ASSUME Inv, PollRead \/ PollReport
    PROVE  Inv'
<1>1. UNCHANGED <<requested, rows, th, runner, gen, exec, gate, modeCache, target, op>>
    BY DEF PollRead, PollReport
<1> QED
    BY <1>1 DEF Inv, Types, Lone, Requests, SameMode, OwnGear, OneRow

LEMMA WatchdogKeeps ==
    ASSUME Inv, HeartbeatAges \/ WatchdogPoll
    PROVE  Inv'
<1>1. UNCHANGED <<requested, rows, th, runner, gen, exec, gate, modeCache, target, op>>
    BY DEF HeartbeatAges, WatchdogPoll
<1> QED
    BY <1>1 DEF Inv, Types, Lone, Requests, SameMode, OwnGear, OneRow

LEMMA CrashKeeps == Inv /\ Crash => Inv'
<1> SUFFICES ASSUME Inv, Crash PROVE Inv'
    OBVIOUS
<1>1. \A t \in Threads : th'[t] = IF Alive(t) THEN [th[t] EXCEPT !.pc = "dead", !.await = "over"] ELSE th[t]
    BY DEF Crash
<1>2. \A t \in Threads : /\ th'[t] \in Runners /\ th'[t].mode = th[t].mode
                          /\ th'[t].pc \in {"none", "dead"}
  <2> SUFFICES ASSUME NEW t \in Threads
               PROVE  /\ th'[t] \in Runners /\ th'[t].mode = th[t].mode
                      /\ th'[t].pc \in {"none", "dead"}
    OBVIOUS
  <2>1. th[t] \in Runners /\ t # None
    BY ThreadsAreNotNone DEF Inv, Types
  <2>2. CASE Alive(t)
    BY <1>1, <2>1, <2>2
  <2>3. CASE ~Alive(t)
    BY <1>1, <2>1, <2>3 DEF Alive
  <2> QED
    BY <2>2, <2>3
<1>3. th' \in [Threads -> Runners]
  <2>1. th' = [t \in Threads |-> th'[t]]
    BY DEF Crash
  <2> QED
    BY <1>2, <2>1
<1>4. /\ runner' = None /\ op' = "idle" /\ modeCache' = "paper" /\ exec' = None
      /\ UNCHANGED <<requested, rows, gen, target>>
    BY DEF Crash
<1>5. Types'
    BY <1>3, <1>4 DEF Inv, Types
<1>6. Lone'
    BY <1>2, <1>4, ThreadsAreNotNone DEF Lone
<1>7. Requests' /\ SameMode'
    BY <1>2, <1>4 DEF Inv, Requests, SameMode
<1>8. OwnGear' /\ OneRow'
    BY <1>2, <1>4 DEF Inv, OwnGear, OneRow
<1> QED
    BY <1>5, <1>6, <1>7, <1>8 DEF Inv

\* An await that outlasts the watchdog changes nothing a step of another thread depends on.
LEMMA WedgeKeeps == ASSUME Inv, NEW t \in Threads, Wedge(t) \/ Unwedge(t) PROVE Inv'
<1>1. UNCHANGED <<requested, rows, runner, gen, exec, gate, modeCache, target, op>>
    BY DEF Wedge, Unwedge
<1>2. /\ th' \in [Threads -> Runners]
      /\ \A u \in Threads : th'[u].pc = th[u].pc /\ th'[u].mode = th[u].mode /\ th'[u].gen = th[u].gen
    BY DEF Wedge, Unwedge, Inv, Types
<1>3. Types' /\ Lone' /\ Requests'
    BY <1>1, <1>2 DEF Inv, Types, Lone, Requests
<1>4. SameMode' /\ OwnGear' /\ OneRow'
    BY <1>1, <1>2 DEF Inv, SameMode, OwnGear, OneRow
<1> QED
    BY <1>3, <1>4 DEF Inv

LEMMA StepKeepsInv == ASSUME Inv, dog # "respawn", [Next]_vars PROVE Inv'
<1>1. CASE Start
    BY <1>1, StartKeeps DEF Start
<1>2. CASE Stop \/ Mode
    BY <1>2, StopKeeps DEF Stop, Mode
<1>3. CASE Status
    BY <1>3, StatusKeeps DEF Status
<1>4. CASE Watchdog
    BY <1>4, WatchdogKeeps DEF Watchdog, Respawn
<1>5. CASE Crash
    BY <1>5, CrashKeeps
<1>6. ASSUME NEW t \in Threads, Thread(t) PROVE Inv'
    BY <1>6, ClaimKeeps, BootKeeps, TickKeeps, EndKeeps DEF Thread
<1>7. ASSUME NEW t \in Threads, Wedge(t) \/ Unwedge(t) PROVE Inv'
    BY <1>7, WedgeKeeps
<1>8. CASE UNCHANGED vars
    BY <1>8 DEF vars, Inv, Types, Lone, Requests, SameMode, OwnGear, OneRow
<1> QED
    BY <1>1, <1>2, <1>3, <1>4, <1>5, <1>6, <1>7, <1>8 DEF Next

-----------------------------------------------------------------------------
(* The watchdog's restart is all that can bring a second loop about.       *)

LEMMA InvIsEnough == ASSUME Inv, ~LooseGear PROVE OneLoopTrades
    BY DEF Inv, OwnGear, OneRow, OneLoopTrades, Ticking

\* As long as the watchdog restarts nothing, at most one position is open and a loop ticks
\* with the gate and the executor it built (paper.py:525-528), whatever wedges, fails or
\* outlasts its stop; a live loop that dies while starting (paper.py:457-500) must not be
\* followed by a paper one.
THEOREM OneLoopTradesUnlessRestarted ==
    ASSUME ~LooseGear PROVE Spec /\ [](dog # "respawn") => []OneLoopTrades
    BY InitInv, StepKeepsInv, InvIsEnough, PTL DEF Spec

-----------------------------------------------------------------------------
(* Real money only: the watchdog has nothing to restart.                   *)

\* A bot that is wanted in live mode is only ever notified of (controller.py:312-314).
LEMMA StepKeepsCalm == ASSUME RealMoneyOnly, Inv, Calm, [Next]_vars PROVE Calm'
<1>1. CASE StartSpawn \/ StartMeanwhile
    BY <1>1 DEF StartSpawn, StartMeanwhile, StartRunner, WatchdogStarted, Calm, Inv, Requests,
       SameMode, RealMoneyOnly
<1>2. ASSUME NEW m \in Modes \cup {None}, StopRequest(m) PROVE Calm'
    BY <1>2 DEF StopRequest, Calm
<1>3. CASE WatchdogPoll
    BY <1>3 DEF WatchdogPoll, Calm
<1>4. CASE Crash
    BY <1>4 DEF Crash, Calm
<1>5. CASE StartRead \/ StartRefused \/ StartReport \/ Status \/ HeartbeatAges \/ Respawn
    BY <1>5 DEF StartRead, StartRefused, StartReport, Status, PollRead, PollReport, HeartbeatAges,
       Respawn, Calm
<1>6. CASE StopJoin \/ StopClose \/ StopReport \/ SetMode
    BY <1>6 DEF StopJoin, StopClose, StopReport, SetMode, Calm
<1>7. ASSUME NEW t \in Threads, Thread(t) \/ Wedge(t) \/ Unwedge(t) PROVE Calm'
    BY <1>7 DEF Thread, ClaimGeneration, BootPaper, BootLive, BootRefused, SetRunning, StartupFails,
       BeginTick, TickClose, TickCheck, TickEnter, EndTick, SeeStop, GuardExit, Flatten, ClearGate,
       SetStopped, Wedge, Unwedge, Calm
<1>8. CASE UNCHANGED vars
    BY <1>8 DEF vars, Calm
<1> QED
    BY <1>1, <1>2, <1>3, <1>4, <1>5, <1>6, <1>7, <1>8 DEF Next, Start, Stop, Mode, Watchdog

LEMMA RealMoneyInv == ASSUME RealMoneyOnly PROVE Spec => [](Inv /\ Calm)
<1>1. Init => Inv /\ Calm
    BY InitInv DEF Init, Calm
<1>2. ASSUME Inv /\ Calm, [Next]_vars PROVE (Inv /\ Calm)'
    BY <1>2, StepKeepsInv, StepKeepsCalm DEF Calm
<1> QED
    BY <1>1, <1>2, PTL DEF Spec

\* Where only real money is traded, at most one position is open and a loop ticks with the
\* gate and the executor it built, whatever happens: ticks that wedge and go on after the
\* watchdog has noticed, stops that give up waiting, loops that die while starting, Starts
\* during a stop, crashes (live.py:462, paper.py:525-528, controller.py:33-42).
THEOREM RealMoneyRunsAlone == ASSUME RealMoneyOnly PROVE Spec => []OneLoopTrades
<1>1. ~LooseGear
    BY DEF RealMoneyOnly, LooseGear
<1> QED
    BY <1>1, RealMoneyInv, InvIsEnough, PTL

\* ... and no real position is ever closed at paper prices (controller.py:241-244).
THEOREM RealPositionsCloseLive == ASSUME RealMoneyOnly PROVE Spec => NeverPaperClosed
<1> DEFINE Closes == rows'["live"] < rows["live"] => exec # None
<1>1. ASSUME Inv, [Next]_vars PROVE [Closes]_vars
  <2>1. ASSUME NEW t \in Threads, TickClose(t) PROVE exec # None
    <3>1. th[t].pc = "close" /\ th[t].mode = "live" /\ ~LooseGear
      BY <2>1, <1>1 DEF TickClose, At, Inv, SameMode, RealMoneyOnly, LooseGear
    <3> QED
      BY <1>1, <3>1, ThreadsAreNotNone DEF Inv, OwnGear
  <2>2. ASSUME NEW t \in Threads, Flatten(t) PROVE exec # None
    BY <1>1, <2>2, ThreadsAreNotNone DEF Flatten, At, Inv, OwnGear, RealMoneyOnly, LooseGear
  <2>3. ~StopClose
    BY <1>1 DEF StopClose, Inv, Requests, RealMoneyOnly
  <2>4. ASSUME NEW t \in Threads, BootLive(t) \/ TickEnter(t) PROVE ~(rows'["live"] < rows["live"])
    BY <1>1, <2>4 DEF BootLive, TickEnter, RowMode, Inv, Types
  <2>5. ASSUME NEW t \in Threads, Thread(t), ~TickClose(t), ~Flatten(t), ~BootLive(t), ~TickEnter(t)
        PROVE  rows' = rows
    BY <2>5 DEF Thread, ClaimGeneration, BootPaper, BootRefused, SetRunning, StartupFails, BeginTick,
       TickCheck, EndTick, SeeStop, GuardExit, ClearGate, SetStopped
  <2>6. ASSUME NEW m, StopRequest(m) PROVE rows' = rows
    BY <2>6 DEF StopRequest
  <2>7. ASSUME Start \/ StopJoin \/ StopReport \/ SetMode \/ Status PROVE rows' = rows
    BY <2>7 DEF Start, StartRead, StartRefused, StartSpawn, StartReport, StartMeanwhile, StopJoin,
       StopReport, SetMode, Status, PollRead, PollReport
  <2>8. ASSUME Watchdog \/ Crash PROVE rows' = rows
    BY <2>8 DEF Watchdog, HeartbeatAges, WatchdogPoll, Respawn, Crash
  <2>9. ASSUME NEW t \in Threads, Wedge(t) \/ Unwedge(t) PROVE rows' = rows
    BY <2>9 DEF Wedge, Unwedge
  <2>10. rows["live"] \in Nat
    BY <1>1 DEF Inv, Types
  <2>11. rows' = rows => Closes
    BY <2>10
  <2> QED
    BY <1>1, <2>1, <2>2, <2>3, <2>4, <2>5, <2>6, <2>7, <2>8, <2>9, <2>11 DEF Next, Stop, Mode
<1>2. [][Closes]_vars => NeverPaperClosed
    BY PTL DEF NeverPaperClosed
<1> QED
    BY RealMoneyInv, <1>1, <1>2, PTL DEF Spec

-----------------------------------------------------------------------------
(* The threads that were abandoned.                                        *)

\* As much of the threads as the argument needs.
Formed == DOMAIN th = Threads /\ \A t \in Threads : {"pc", "stop", "await"} \subseteq DOMAIN th[t]

Abandoned == Formed /\ runner \in Threads \cup {None} /\ AbandonedAreStopped

\* A thread walks on, or waits, with its stop event as it is.
LEMMA ThreadKeepsAbandoned ==
    ASSUME Abandoned, NEW t \in Threads, Thread(t) \/ Wedge(t) \/ Unwedge(t)
    PROVE  Abandoned'
<1> DEFINE Waits == Wedge(t) \/ Unwedge(t)
           Walks == ClaimGeneration(t) \/ \E step : Go(t, step)
<1>1. (Walks /\ Alive(t)) \/ Waits
    BY ThreadsAreNotNone DEF Thread, BootPaper, BootLive, BootRefused, SetRunning, StartupFails,
       BeginTick, TickClose, TickCheck, TickEnter, EndTick, SeeStop, GuardExit, Flatten, ClearGate,
       SetStopped, ClaimGeneration, At, Alive
<1>2. Formed' /\ \A u \in Threads : th'[u].stop = th[u].stop /\ (u = t \/ th'[u].pc = th[u].pc)
  <2>1. CASE \E step : Go(t, step)
    BY <2>1 DEF Go, Abandoned, Formed
  <2>2. CASE ClaimGeneration(t)
    BY <2>2 DEF ClaimGeneration, Abandoned, Formed
  <2>3. CASE Waits
    BY <2>3 DEF Wedge, Unwedge, Abandoned, Formed
  <2> QED
    BY <1>1, <2>1, <2>2, <2>3
<1>3. Waits => th'[t].pc = th[t].pc
    BY DEF Wedge, Unwedge, Abandoned, Formed
<1>4. runner' = runner
    BY DEF Thread, ClaimGeneration, BootPaper, BootLive, BootRefused, SetRunning, StartupFails,
       BeginTick, TickClose, TickCheck, TickEnter, EndTick, SeeStop, GuardExit, Flatten, ClearGate,
       SetStopped, Wedge, Unwedge
<1> HIDE DEF Waits, Walks
<1> QED
    BY <1>1, <1>2, <1>3, <1>4 DEF Abandoned, AbandonedAreStopped, Alive

\* Whoever replaces a living runner tells it to stop first.
LEMMA SpawnKeepsAbandoned == ASSUME Abandoned, StartSpawn \/ StartMeanwhile \/ Respawn PROVE Abandoned'
<1> DEFINE n == NextThread
<1>1. \/ runner' = runner /\ th' = th
      \/ /\ n \in Threads /\ runner' = n
         /\ \/ th' = [th EXCEPT ![n].pc = "new"] /\ ~Alive(runner)
            \/ th' = [th EXCEPT ![n].pc = "new", ![runner].stop = TRUE] /\ runner \in Threads
  <2>1. CASE StartSpawn \/ StartMeanwhile
    BY <2>1, NextIsUnborn DEF StartSpawn, StartMeanwhile, StartRunner, Room, Unborn
  <2>2. CASE Respawn
    BY <2>2, NextIsUnborn DEF Respawn, Spawned, Unborn, Abandoned, Alive
  <2> QED
    BY <2>1, <2>2
<1> HIDE DEF n
<1> QED
    BY <1>1 DEF Abandoned, Formed, AbandonedAreStopped, Alive

LEMMA StepKeepsAbandoned == ASSUME Abandoned, [Next]_vars PROVE Abandoned'
<1>1. CASE StartSpawn \/ StartMeanwhile \/ Respawn
    BY <1>1, SpawnKeepsAbandoned
<1>2. CASE StartRead \/ StartRefused \/ StartReport
    BY <1>2 DEF StartRead, StartRefused, StartReport, Abandoned, Formed, AbandonedAreStopped, Alive
<1>3. ASSUME NEW m, StopRequest(m) PROVE Abandoned'
    BY <1>3 DEF StopRequest, Abandoned, Formed, AbandonedAreStopped, Alive
<1>4. CASE StopJoin \/ StopClose \/ StopReport \/ SetMode
    BY <1>4 DEF StopJoin, StopClose, StopReport, SetMode, Abandoned, Formed, AbandonedAreStopped, Alive
<1>5. CASE Status
    BY <1>5 DEF Status, PollRead, PollReport, Abandoned, Formed, AbandonedAreStopped, Alive
<1>6. CASE HeartbeatAges \/ WatchdogPoll
    BY <1>6 DEF HeartbeatAges, WatchdogPoll, Abandoned, Formed, AbandonedAreStopped, Alive
<1>7. CASE Crash
    BY <1>7 DEF Crash, Abandoned, Formed, AbandonedAreStopped, Alive
<1>8. ASSUME NEW t \in Threads, Thread(t) \/ Wedge(t) \/ Unwedge(t) PROVE Abandoned'
    BY <1>8, ThreadKeepsAbandoned
<1>9. CASE UNCHANGED vars
    BY <1>9 DEF vars, Abandoned, Formed, AbandonedAreStopped, Alive
<1> QED
    BY <1>1, <1>2, <1>3, <1>4, <1>5, <1>6, <1>7, <1>8, <1>9 DEF Next, Start, Stop, Mode, Watchdog

\* Whatever happens, wedged awaits, slow joins and failing starts included, every living thread
\* but the current one has been told to stop (controller.py:290-296).
THEOREM AbandonedStopped == Spec => []AbandonedAreStopped
<1>1. Init => Abandoned
    BY DEF Init, Abandoned, Formed, AbandonedAreStopped, Alive
<1>2. Abandoned => AbandonedAreStopped
    BY DEF Abandoned
<1> QED
    BY <1>1, StepKeepsAbandoned, <1>2, PTL DEF Spec

-----------------------------------------------------------------------------
(* Every variable stays in its range, without a proviso.  That a generation  *)
(* never exceeds the number of threads is not inductive: a generation is the *)
(* number of threads that have claimed one, and each claims one at most.     *)

Claimed == {t \in Threads : th[t].gen # 0}
Numbered ==
    /\ gen = Cardinality(Claimed)
    /\ \A t \in Threads : th[t].pc \in {"none", "new"} => th[t].gen = 0

ThreadRecords == [pc : Places, stop : BOOLEAN, gen : 0 .. MaxThreads, mode : Kinds,
                  await : {"ok", "wedged", "over"}]
\* What a Start spawns a thread for, and a set_mode selects, is a mode.
Asked == op \in {"start", "mode"} => target \in Kinds

Formal == TypeOK /\ Numbered /\ Asked

LEMMA FewThreads == ASSUME NEW S \in SUBSET Threads
                    PROVE  IsFiniteSet(S) /\ Cardinality(S) \in 0 .. MaxThreads
<1>1. IsFiniteSet(Threads) /\ Cardinality(Threads) = MaxThreads
    BY FS_Interval, BoundAssumption DEF Threads
<1>2. IsFiniteSet(S) /\ Cardinality(S) <= Cardinality(Threads)
    BY <1>1, FS_Subset
<1> QED
    BY <1>1, <1>2, FS_CardinalityType

\* A claim adds one to the generation and one to the threads that have claimed.
LEMMA ClaimCounts == ASSUME Formal, NEW t \in Threads, ClaimGeneration(t)
                     PROVE  gen + 1 \in 0 .. MaxThreads /\ Numbered'
<1>1. /\ th[t].pc = "new" /\ gen' = gen + 1 /\ th \in [Threads -> ThreadRecords]
      /\ th' = [th EXCEPT ![t].pc = "boot", ![t].gen = gen + 1, ![t].mode = requested]
    BY DEF ClaimGeneration, At, Formal, TypeOK, ThreadRecords, Slow, Ticking
<1>2. Claimed \in SUBSET Threads /\ t \notin Claimed /\ gen = Cardinality(Claimed) /\ gen \in 0 .. MaxThreads
    BY <1>1 DEF Formal, Numbered, Claimed, TypeOK
<1>3. gen + 1 # 0
    BY <1>2
<1>4. /\ th'[t].gen = gen + 1 /\ th'[t].pc = "boot"
      /\ \A u \in Threads \ {t} : th'[u] = th[u]
    BY <1>1 DEF ThreadRecords
<1>5. Claimed' = Claimed \cup {t}
    BY <1>3, <1>4 DEF Claimed
<1>6. IsFiniteSet(Claimed) /\ Cardinality(Claimed \cup {t}) = gen + 1
    BY <1>2, FewThreads, FS_AddElement
<1>7. Claimed \cup {t} \in SUBSET Threads
    BY <1>2
<1>8. gen + 1 \in 0 .. MaxThreads
    BY <1>6, <1>7, FewThreads
<1>9. Numbered'
    BY <1>1, <1>4, <1>5, <1>6 DEF Numbered, Formal
<1> QED
    BY <1>8, <1>9

\* Every other step leaves the generations alone, and no thread goes back to claim again.
LEMMA OthersCount == ASSUME Formal, gen' = gen,
                            \A t \in Threads : th'[t].gen = th[t].gen,
                            \A t \in Threads : th'[t].pc \in {"none", "new"} => th[t].pc \in {"none", "new"}
                     PROVE  Numbered'
<1>1. Claimed' = Claimed
    BY DEF Claimed
<1> QED
    BY <1>1 DEF Formal, Numbered

LEMMA ThreadsFormed == ASSUME TypeOK, NEW t \in Threads, NEW step \in Places \ {"none", "new"}, Go(t, step)
                       PROVE  /\ th' \in [Threads -> ThreadRecords]
                              /\ \A u \in Threads : th'[u].gen = th[u].gen
                              /\ \A u \in Threads : th'[u].pc \in {"none", "new"} => th[u].pc \in {"none", "new"}
    BY DEF TypeOK, Go, ThreadRecords, Slow, Ticking

LEMMA StoppedFormed == ASSUME NEW f \in [Threads -> ThreadRecords], NEW r \in Threads
                       PROVE  LET g == [f EXCEPT ![r].stop = TRUE]
                              IN  /\ g \in [Threads -> ThreadRecords]
                                  /\ \A u \in Threads : g[u].gen = f[u].gen /\ g[u].pc = f[u].pc
<1>1. [f[r] EXCEPT !.stop = TRUE] \in ThreadRecords
    BY DEF ThreadRecords
<1> QED
    BY <1>1 DEF ThreadRecords

LEMMA BornFormed == ASSUME NEW f \in [Threads -> ThreadRecords], NEW n \in Threads, f[n].pc = "none"
                    PROVE  LET g == [f EXCEPT ![n].pc = "new"]
                           IN  /\ g \in [Threads -> ThreadRecords]
                               /\ \A u \in Threads : g[u].gen = f[u].gen
                               /\ \A u \in Threads : g[u].pc \in {"none", "new"} => f[u].pc \in {"none", "new"}
<1>1. [f[n] EXCEPT !.pc = "new"] \in ThreadRecords
    BY DEF ThreadRecords
<1> QED
    BY <1>1 DEF ThreadRecords

\* A step of a thread, but for its claim.
LEMMA ThreadKeepsFormal == ASSUME Formal, NEW t \in Threads, Thread(t), ~ClaimGeneration(t)
                           PROVE  Formal'
<1> USE DEF Formal
<1>1. \E step \in Places \ {"none", "new"} : Go(t, step)
    BY DEF Thread, BootPaper, BootLive, BootRefused, SetRunning, StartupFails, BeginTick, TickClose,
       TickCheck, TickEnter, EndTick, SeeStop, GuardExit, Flatten, ClearGate, SetStopped
<1>2. /\ th' \in [Threads -> ThreadRecords] /\ \A u \in Threads : th'[u].gen = th[u].gen
      /\ \A u \in Threads : th'[u].pc \in {"none", "new"} => th[u].pc \in {"none", "new"}
    BY <1>1, ThreadsFormed
<1>3. /\ gen' = gen
      /\ UNCHANGED <<requested, runner, flags, dogVars, silent, opVars, poll>>
    BY DEF Thread, BootPaper, BootLive, BootRefused, SetRunning, StartupFails, BeginTick, TickClose,
       TickCheck, TickEnter, EndTick, SeeStop, GuardExit, Flatten, ClearGate, SetStopped
<1>4. rows' \in [Kinds -> Nat]
  <2>1. rows \in [Kinds -> Nat] /\ RowMode \in Kinds
    BY DEF TypeOK, RowMode
  <2>2. CASE TickClose(t)
    BY <2>1, <2>2 DEF TickClose
  <2>3. CASE TickEnter(t)
    BY <2>1, <2>3 DEF TickEnter
  <2>4. CASE BootLive(t) \/ Flatten(t)
    BY <2>1, <2>4 DEF BootLive, Flatten
  <2>5. CASE rows' = rows
    BY <2>1, <2>5
  <2> QED
    BY <2>2, <2>3, <2>4, <2>5
    DEF Thread, BootPaper, BootRefused, SetRunning, StartupFails, BeginTick, TickCheck, EndTick,
        SeeStop, GuardExit, ClearGate, SetStopped
<1>5. {exec', gate'} \subseteq Threads \cup {None} /\ stale' \in BOOLEAN /\ stateRow' \in {"running", "stopped"}
    BY DEF Thread, BootPaper, BootLive, BootRefused, SetRunning, StartupFails, BeginTick, TickClose,
       TickCheck, TickEnter, EndTick, SeeStop, GuardExit, Flatten, ClearGate, SetStopped, TypeOK
<1>6. TypeOK'
    BY <1>2, <1>3, <1>4, <1>5 DEF TypeOK, ThreadRecords, Slow, Ticking
<1> QED
    BY <1>2, <1>3, <1>6, OthersCount DEF Asked

LEMMA StepKeepsFormal == ASSUME Formal, [Next]_vars PROVE Formal'
<1> USE DEF Formal
<1>t. th \in [Threads -> ThreadRecords]
    BY DEF TypeOK, ThreadRecords, Slow, Ticking
<1>1. ASSUME NEW t \in Threads, ClaimGeneration(t) PROVE Formal'
  <2>1. gen + 1 \in 0 .. MaxThreads /\ Numbered'
    BY <1>1, ClaimCounts
  <2>2. th' \in [Threads -> ThreadRecords]
    <3> DEFINE new == [th[t] EXCEPT !.pc = "boot", !.gen = gen + 1, !.mode = requested]
    <3>1. new \in ThreadRecords
      BY <1>t, <2>1 DEF ThreadRecords, TypeOK
    <3>2. th' = [th EXCEPT ![t] = new]
      BY <1>1 DEF ClaimGeneration
    <3> QED
      BY <1>t, <3>1, <3>2
  <2>3. TypeOK'
    BY <1>1, <2>1, <2>2 DEF ClaimGeneration, TypeOK, ThreadRecords, Slow, Ticking
  <2> QED
    BY <1>1, <2>1, <2>3 DEF ClaimGeneration, Asked
<1>2. ASSUME NEW t \in Threads, Thread(t), ~ClaimGeneration(t) PROVE Formal'
    BY <1>2, ThreadKeepsFormal
<1>3. ASSUME NEW t \in Threads, Wedge(t) \/ Unwedge(t) PROVE Formal'
  <2>1. /\ th' \in [Threads -> ThreadRecords]
        /\ \A u \in Threads : th'[u].gen = th[u].gen /\ th'[u].pc = th[u].pc
    BY <1>3, <1>t DEF Wedge, Unwedge, ThreadRecords
  <2>2. UNCHANGED <<requested, stateRow, rows, runner, gen, exec, gate, desired, modeCache, stale,
                    dog, stallNotified, silent, op, target, joined, poll>>
    BY <1>3 DEF Wedge, Unwedge
  <2>3. TypeOK'
    BY <2>1, <2>2 DEF TypeOK, ThreadRecords, Slow, Ticking
  <2> QED
    BY <2>1, <2>2, <2>3, OthersCount DEF Asked
\* A thread is born, or told to stop.
<1>4. ASSUME /\ th' \in [Threads -> ThreadRecords]
             /\ \A u \in Threads : th'[u].gen = th[u].gen
             /\ \A u \in Threads : th'[u].pc \in {"none", "new"} => th[u].pc \in {"none", "new"},
             gen' = gen
      PROVE  Numbered' /\ th' \in [Threads -> [pc : Slow \cup {"none", "new", "boot", "ready", "loop",
                 "finally", "clear", "stopped", "dead"}, stop : BOOLEAN, gen : 0 .. MaxThreads,
                 mode : Kinds, await : {"ok", "wedged", "over"}]]
    BY <1>4, OthersCount DEF ThreadRecords, Slow, Ticking
<1>5. CASE StartSpawn \/ StartMeanwhile
  <2>1. \/ UNCHANGED <<th, runner>>
        \/ th' = [th EXCEPT ![NextThread].pc = "new"] /\ runner' = NextThread /\ NextThread \in Unborn
    BY <1>5, NextIsUnborn DEF StartSpawn, StartMeanwhile, StartRunner, Room
  <2>2. /\ th' \in [Threads -> ThreadRecords] /\ runner' \in Threads \cup {None}
        /\ \A u \in Threads : th'[u].gen = th[u].gen
        /\ \A u \in Threads : th'[u].pc \in {"none", "new"} => th[u].pc \in {"none", "new"}
    BY <2>1, <1>t DEF ThreadRecords, Unborn, TypeOK
  <2>3. /\ UNCHANGED <<requested, rows, gen, exec, gate, stallNotified, target, joined, poll>>
        /\ stateRow' \in {"running", stateRow} /\ {desired', stale', silent'} \subseteq BOOLEAN
        /\ op' \in {op, "started"} /\ dog' \in {dog, "poll"} /\ modeCache' \in {target, requested}
    BY <1>5 DEF StartSpawn, StartMeanwhile, StartRunner, WatchdogStarted
  <2>4. modeCache' \in Kinds
    BY <1>5 DEF StartSpawn, StartMeanwhile, StartRunner, TypeOK, Asked
  <2>5. TypeOK'
    BY <1>4, <2>2, <2>3, <2>4 DEF TypeOK
  <2> QED
    BY <1>4, <1>5, <2>2, <2>3, <2>5 DEF StartSpawn, StartMeanwhile, Asked
<1>6. CASE Respawn
  <2>1. /\ NextThread \in Unborn /\ runner' = NextThread
        /\ \/ th' = [th EXCEPT ![NextThread].pc = "new"]
           \/ th' = [th EXCEPT ![NextThread].pc = "new", ![runner].stop = TRUE] /\ runner \in Threads
    BY <1>6, NextIsUnborn DEF Respawn, Spawned, Alive, TypeOK
  <2>2. /\ th' \in [Threads -> ThreadRecords] /\ runner' \in Threads
        /\ \A u \in Threads : th'[u].gen = th[u].gen
        /\ \A u \in Threads : th'[u].pc \in {"none", "new"} => th[u].pc \in {"none", "new"}
    <3> DEFINE n == NextThread
               g == [th EXCEPT ![n].pc = "new"]
    <3>1. n \in Threads /\ th[n].pc = "none" /\ runner' = n
      BY <2>1 DEF Unborn
    <3>2. /\ g \in [Threads -> ThreadRecords] /\ \A u \in Threads : g[u].gen = th[u].gen
          /\ \A u \in Threads : g[u].pc \in {"none", "new"} => th[u].pc \in {"none", "new"}
      BY <3>1, <1>t, BornFormed
    <3>3. th' = g \/ (th' = [g EXCEPT ![runner].stop = TRUE] /\ runner \in Threads)
      BY <2>1
    <3> HIDE DEF n, g
    <3>4. ASSUME runner \in Threads, th' = [g EXCEPT ![runner].stop = TRUE]
          PROVE  /\ th' \in [Threads -> ThreadRecords]
                 /\ \A u \in Threads : th'[u].gen = g[u].gen /\ th'[u].pc = g[u].pc
      BY <3>2, <3>4, StoppedFormed
    <3>5. CASE th' = g
      BY <3>1, <3>2, <3>5
    <3>6. CASE runner \in Threads /\ th' = [g EXCEPT ![runner].stop = TRUE]
      BY <3>1, <3>2, <3>4, <3>6
    <3> QED
      BY <3>3, <3>5, <3>6
  <2>3. /\ UNCHANGED <<config, rows, globals, flags, stallNotified, silent, opVars, poll>>
        /\ dog' = "poll" /\ stale' = FALSE
    BY <1>6 DEF Respawn
  <2>4. TypeOK'
    BY <1>4, <2>2, <2>3 DEF TypeOK
  <2> QED
    BY <1>4, <2>2, <2>3, <2>4 DEF Asked
<1>7. ASSUME NEW m \in Modes \cup {None}, StopRequest(m) PROVE Formal'
  <2>1. /\ th' = th \/ (runner \in Threads /\ th' = [th EXCEPT ![runner].stop = TRUE])
        /\ op' = "join" /\ target' = m /\ joined' = runner /\ desired' = FALSE
        /\ UNCHANGED <<config, rows, runner, globals, modeCache, stale, dogVars, silent, poll>>
    BY <1>7 DEF StopRequest, TypeOK
  <2>2. /\ th' \in [Threads -> ThreadRecords]
        /\ \A u \in Threads : th'[u].gen = th[u].gen
        /\ \A u \in Threads : th'[u].pc \in {"none", "new"} => th[u].pc \in {"none", "new"}
    <3>1. CASE th' = th
      BY <3>1, <1>t
    <3>2. ASSUME runner \in Threads, th' = [th EXCEPT ![runner].stop = TRUE]
          PROVE  /\ th' \in [Threads -> ThreadRecords]
                 /\ \A u \in Threads : th'[u].gen = th[u].gen /\ th'[u].pc = th[u].pc
      BY <3>2, <1>t, StoppedFormed
    <3> QED
      BY <2>1, <3>1, <3>2
  <2>3. m \in Kinds \cup {None}
    BY InputsAssumption
  <2>4. TypeOK'
    BY <1>4, <2>1, <2>2, <2>3 DEF TypeOK
  <2> QED
    BY <1>4, <2>1, <2>2, <2>4 DEF Asked
\* The other requests and polls leave the threads alone.
<1>8. ASSUME UNCHANGED <<th, gen>> PROVE Numbered'
    BY <1>8 DEF Numbered, Claimed
<1>9. CASE StartRead \/ StartRefused \/ StartReport
  <2>1. UNCHANGED <<th, gen, runner, exec, gate, rows, requested, desired, modeCache, stale, dog,
                    stallNotified, joined, poll>>
    BY <1>9 DEF StartRead, StartRefused, StartReport, Report
  <2>2. /\ stateRow' \in {"running", "stopped"} /\ silent' \in BOOLEAN
        /\ op' \in {"start", "idle"} /\ target' \in {requested, target}
        /\ op' = "start" => target' = requested
    BY <1>9 DEF StartRead, StartRefused, StartReport, Report, TypeOK
  <2>3. TypeOK'
    BY <2>1, <2>2 DEF TypeOK
  <2> QED
    BY <1>8, <2>1, <2>2, <2>3 DEF Asked, TypeOK
<1>10. CASE StopJoin \/ StopClose \/ StopReport
  <2>1. rows' \in [Kinds -> Nat]
    BY <1>10 DEF StopJoin, StopClose, StopReport, NoRows, TypeOK
  <2> QED
    BY <1>8, <1>10, <2>1 DEF StopJoin, StopClose, StopReport, Report, TypeOK, Asked
<1>11. CASE SetMode
    BY <1>8, <1>11 DEF SetMode, Report, TypeOK, Asked
<1>12. CASE Status
  <2>1. UNCHANGED <<th, gen, runner, exec, gate, rows, requested, desired, modeCache, stale, dog,
                    stallNotified, joined, op, target>>
    BY <1>12 DEF Status, PollRead, PollReport, Report
  <2>2. /\ stateRow' \in {"running", "stopped"} /\ silent' \in BOOLEAN
        /\ poll' \in {None, "running", "stopped"}
    BY <1>12 DEF Status, PollRead, PollReport, Report, TypeOK
  <2>3. TypeOK'
    BY <2>1, <2>2 DEF TypeOK
  <2> QED
    BY <1>8, <2>1, <2>3 DEF Asked
<1>13. CASE HeartbeatAges \/ WatchdogPoll
  <2>1. UNCHANGED <<th, gen, runner, exec, gate, rows, config, desired, modeCache, silent,
                    joined, op, target, poll>>
    BY <1>13 DEF HeartbeatAges, WatchdogPoll
  <2>2. {stale', stallNotified'} \subseteq BOOLEAN /\ dog' \in {dog, "poll", "respawn"}
    BY <1>13 DEF HeartbeatAges, WatchdogPoll, TypeOK
  <2>3. TypeOK'
    BY <2>1, <2>2 DEF TypeOK
  <2> QED
    BY <1>8, <2>1, <2>3 DEF Asked
<1>14. CASE Crash
  <2>1. \A u \in Threads :
          th'[u] = IF Alive(u) THEN [th[u] EXCEPT !.pc = "dead", !.await = "over"] ELSE th[u]
    BY <1>14 DEF Crash
  <2>2. ASSUME NEW u \in Threads
        PROVE  /\ th'[u] \in ThreadRecords /\ th'[u].gen = th[u].gen
               /\ th'[u].pc \in {"none", "new"} => th[u].pc \in {"none", "new"}
    BY <2>1, <1>t DEF ThreadRecords
  <2>3. th' \in [Threads -> ThreadRecords]
    BY <1>14, <2>2 DEF Crash
  <2>4. /\ UNCHANGED <<config, rows, gen, stale, target, joined>>
        /\ runner' = None /\ exec' = None /\ gate' = None /\ op' = "idle" /\ poll' = None
        /\ desired' = FALSE /\ modeCache' = "paper" /\ dog' = "off" /\ stallNotified' = FALSE
        /\ silent' = FALSE
    BY <1>14 DEF Crash
  <2>5. TypeOK'
    BY <1>4, <2>2, <2>3, <2>4 DEF TypeOK
  <2> QED
    BY <1>4, <2>2, <2>3, <2>4, <2>5 DEF Asked
<1>15. CASE UNCHANGED vars
    BY <1>8, <1>15 DEF vars, TypeOK, Asked
<1> QED
    BY <1>1, <1>2, <1>3, <1>5, <1>6, <1>7, <1>9, <1>10, <1>11, <1>12, <1>13, <1>14, <1>15
    DEF Next, Start, Stop, Mode, Watchdog

\* Whatever happens, wedges, failing starts and crashes included, every variable keeps
\* its range: each thread claims one generation at most, and the rows of the ledger are never
\* negative (controller.py:205-300, paper.py:440-530).
THEOREM TypeCorrect == Spec => []TypeOK
<1>1. Init => Formal
  <2> SUFFICES ASSUME Init PROVE Formal
    OBVIOUS
  <2>1. Claimed = {} /\ Cardinality({}) = 0
    BY FS_EmptySet DEF Init, Claimed
  <2>2. Numbered /\ Asked
    BY <2>1 DEF Init, Numbered, Asked
  <2>3. TypeOK
    <3>1. [pc |-> "none", stop |-> FALSE, gen |-> 0, mode |-> EnvMode, await |-> "ok"] \in ThreadRecords
      BY BoundAssumption, InputsAssumption DEF ThreadRecords
    <3>2. th \in [Threads -> ThreadRecords]
      BY <3>1 DEF Init
    <3>3. gen \in 0 .. MaxThreads /\ rows \in [Kinds -> Nat]
      BY BoundAssumption DEF Init, NoRows
    <3> QED
      BY <3>2, <3>3, InputsAssumption DEF Init, TypeOK, ThreadRecords, Slow, Ticking
  <2> QED
    BY <2>2, <2>3 DEF Formal
<1>2. Formal => TypeOK
    BY DEF Formal
<1> QED
    BY <1>1, <1>2, StepKeepsFormal, PTL DEF Spec
=============================================================================
