---------------------------- MODULE LiveExecutor ----------------------------
(***************************************************************************)
(* Live trading: the executor (btc_5m_fv/execution/live.py) and the part   *)
(* of the trading loop that drives it and keeps the position ledger        *)
(* (btc_bot/paper.py), against the order book of the exchange.             *)
(*                                                                         *)
(* One runner thread does everything, but every call to the exchange and   *)
(* every database commit is a step of its own: between two of them resting *)
(* orders fill, the window rolls, the book of an old window closes, the    *)
(* operator touches the kill file, and the process may die.  A call may    *)
(* fail before or after it took effect (Faults).  Amounts are shares of    *)
(* one clip; prices and the gate's counters are left to RiskGate.          *)
(***************************************************************************)
EXTENDS Integers

CONSTANTS
  None,        \* no order, no row
  Style,       \* BTC_EXIT_STYLE: "settle" or "scalp"
  Size,        \* shares of one entry
  Faults,      \* exchange calls that may fail: "post", "cancel", "lookup"
  CrashPoints, \* the steps before which the process may die
  Stops,       \* whether the operator presses Stop
  LastWindow,  \* bound: number of 5-minute windows
  LastOrder    \* bound: number of orders ever accepted

Windows == 1 .. LastWindow
Ids     == 1 .. LastOrder
Steps   == {"off", "adopt", "idle", "close", "open", "post", "journal", "track", "delete",
            "cancelExit", "exitInfo", "cancelEntry", "entryInfo", "settle", "sell",
            "await", "sellInfo", "closeRow"}

ASSUME NoneAssumption   == None \notin Int
ASSUME BoundsAssumption == Size \in Nat \ {0} /\ LastWindow \in Nat \ {0} /\ LastOrder \in Nat
ASSUME ChoiceAssumption ==
  /\ Style \in {"settle", "scalp"} /\ Stops \in BOOLEAN
  /\ Faults \subseteq {"post", "cancel", "lookup"} /\ CrashPoints \subseteq Steps

VARIABLES
  win,      \* the current window
  trading,  \* windows whose book still accepts and matches orders
  orders,   \* the exchange's orders
  tokens,   \* shares held on the exchange, by window
  kill,     \* the kill file exists
  handled,  \* RiskGate._kill_handled
  mem,      \* what LiveExecutor tracks
  row,      \* window of the open ledger row, or None
  used,     \* windows that have, or had, a ledger row
  journal,  \* the last SUBMITTED entry journaled for a window
  pc,       \* the runner's next step; "off" when no live loop runs
  task,     \* what the cancel or the exit in progress is for
  tick,     \* what this tick saw when it began: its window, no kill file
  resp,     \* the placement response being processed
  bought,   \* observer: shares bought, by window
  booked    \* observer: shares whose PnL has been realized into the halt

venueVars  == <<trading, orders, tokens, bought>>
ledgerVars == <<row, used>>
vars == <<win, venueVars, kill, handled, mem, ledgerVars, journal, pc, task, tick,
          resp, booked>>

-----------------------------------------------------------------------------
Flat    == [open |-> FALSE, win |-> None, matched |-> None, sold |-> 0,
            order |-> None, exit |-> None]
NoOrder == [side |-> "none", win |-> 0, size |-> 0, matched |-> 0, live |-> FALSE,
            known |-> TRUE]
NoResp  == [order |-> None, filled |-> 0]
NoTick  == [win |-> 0, mayOpen |-> FALSE]

Num(x)  == IF x = None THEN 0 ELSE x
Free    == {o \in Ids : orders[o].side = "none"}
Fresh   == CHOOSE o \in Free : TRUE

\* What a fill lookup of order o may answer (_order_fill_info): a failed one,
\* or one of an order the exchange has pruned, leaves the caller's default.
Unanswered == "lookup" \in Faults
Looked(o, default) == {orders[o].matched} \cup (IF Unanswered THEN {default} ELSE {})

\* _matched_entry_size: captured already, or looked up with the caller's
\* fallback, which is the whole size on the exit path and nothing in a settlement.
MatchedEntrySize(fallback) ==
  IF mem.order = None THEN {Num(mem.matched)} ELSE Looked(mem.order, fallback)

\* _await_fill polls the order mem.exit until its whole size is matched, or
\* gives up; a failed lookup counts as nothing matched.
WholeSizeMatched == orders[mem.exit].matched = orders[mem.exit].size
MayTimeOut       == ~WholeSizeMatched \/ Unanswered

\* entry_block_reason, the part of it that is the executor's own: at most one
\* position, and no entry order left on the book.
EntryBlocked == mem.open \/ mem.order # None

\* resync_flat: the ledger is flat, so the memory is cleared (MemoryInStep: it
\* never finds an order to cancel).
ResyncFlat == Flat

\* A window is over for sure (_window_resolved): 60 s after its end its book no
\* longer matches anything.
WindowResolved(w) == w \notin trading

Init ==
  /\ win = 1 /\ trading = Windows
  /\ orders = [o \in Ids |-> NoOrder] /\ tokens = [w \in Windows |-> 0]
  /\ kill = FALSE /\ handled = FALSE /\ mem = Flat
  /\ row = None /\ used = {} /\ journal = [w \in Windows |-> NoResp]
  /\ pc = "off" /\ task = "none" /\ tick = NoTick /\ resp = NoResp
  /\ bought = [w \in Windows |-> 0] /\ booked = [w \in Windows |-> 0]

-----------------------------------------------------------------------------
(* The exchange, the clock and the operator. *)

\* One more share of a resting order trades.
Fill(o) ==
  /\ orders[o].live
  /\ orders[o].side = "sell" => tokens[orders[o].win] > 0
  /\ LET m == orders[o].matched + 1
         w == orders[o].win
     IN /\ orders' = [orders EXCEPT ![o].matched = m, ![o].live = m < orders[o].size]
        /\ tokens' = [tokens EXCEPT ![w] = IF orders[o].side = "buy" THEN @ + 1 ELSE @ - 1]
        /\ bought' = [bought EXCEPT ![w] = IF orders[o].side = "buy" THEN @ + 1 ELSE @]
  /\ UNCHANGED <<win, trading, kill, handled, mem, ledgerVars, journal, pc, task, tick,
                 resp, booked>>

NextWindow ==
  /\ win < LastWindow
  /\ win' = win + 1
  /\ UNCHANGED <<venueVars, kill, handled, mem, ledgerVars, journal, pc, task, tick,
                 resp, booked>>

\* The book of an old window closes and takes its resting orders along.
CloseBook(w) ==
  /\ w \in trading /\ w < win
  /\ trading' = trading \ {w}
  /\ orders' = [o \in Ids |-> IF orders[o].win = w THEN [orders[o] EXCEPT !.live = FALSE]
                              ELSE orders[o]]
  /\ UNCHANGED <<win, tokens, bought, kill, handled, mem, ledgerVars, journal, pc, task,
                 tick, resp, booked>>

ToggleKill ==
  /\ kill' = ~kill
  /\ UNCHANGED <<win, venueVars, handled, mem, ledgerVars, journal, pc, task, tick,
                 resp, booked>>

\* The exchange accepts an order for n shares, m of which cross at once; known:
\* the response to its placement arrives.
Accept(side, w, n, m, known) ==
  /\ Free # {} /\ w \in trading /\ m \in 0 .. n
  /\ orders' = [orders EXCEPT ![Fresh] = [side |-> side, win |-> w, size |-> n,
                                          matched |-> m, live |-> m < n,
                                          known |-> known]]
  /\ tokens' = [tokens EXCEPT ![w] = IF side = "buy" THEN @ + m ELSE @ - m]
  /\ bought' = [bought EXCEPT ![w] = IF side = "buy" THEN @ + m ELSE @]
  /\ UNCHANGED trading

\* _try_cancel: True only when the order is confirmed no longer live; a
\* failed call may still have taken effect.
TryCancel(o, ok) ==
  /\ ok \/ "cancel" \in Faults
  /\ orders' \in {[orders EXCEPT ![o].live = FALSE]} \cup (IF ok THEN {} ELSE {orders})
  /\ UNCHANGED <<trading, tokens, bought>>

-----------------------------------------------------------------------------
(* Boot: reconcile the account, then trade. *)

\* Fault: the resting orders of the dead session are left alone.
BootLeaveAll ==
  /\ pc = "off"
  /\ pc' = "adopt" /\ mem' = Flat /\ handled' = FALSE
  /\ UNCHANGED <<win, venueVars, kill, ledgerVars, journal, task, tick, resp, booked>>

BootCancelAll ==
  /\ pc = "off"
  /\ orders' = [o \in Ids |-> [orders[o] EXCEPT !.live = FALSE]]
  /\ pc' = "adopt" /\ mem' = Flat /\ handled' = FALSE
  /\ UNCHANGED <<win, trading, tokens, bought, kill, ledgerVars, journal, task, tick,
                 resp, booked>>

\* The journaled placement of the open row; the shares its response reported
\* (_journal_filled_shares) are what crossed when it was placed.
Entry         == journal[row]
JournalFilled == Entry.filled

\* No open row; or the row is closed because it has no journaled order, its
\* order never filled, or nothing is known of it and its window is over.
BootFlat ==
  /\ pc = "adopt"
  /\ \/ row = None
     \/ /\ row # None
        /\ \/ Entry.order = None
           \/ Entry.order # None /\ orders[Entry.order].matched = 0
           \/ Entry.order # None /\ Unanswered /\ WindowResolved(row)
  /\ row' = None /\ pc' = "idle"
  /\ UNCHANGED <<win, venueVars, kill, handled, mem, used, journal, task, tick, resp, booked>>

\* The position is adopted with what the exchange, or else the journal, says
\* was matched.
BootAdopt(m) ==
  /\ pc = "adopt" /\ row # None /\ Entry.order # None /\ m > 0
  /\ m = orders[Entry.order].matched \/ (Unanswered /\ ~WindowResolved(row) /\ m = JournalFilled)
  /\ mem' = [Flat EXCEPT !.open = TRUE, !.win = row, !.matched = m]
  /\ pc' = "idle"
  /\ UNCHANGED <<win, venueVars, kill, handled, ledgerVars, journal, task, tick, resp, booked>>

BootRefused ==
  /\ pc = "adopt" /\ row # None /\ Entry.order # None
  /\ Unanswered /\ ~WindowResolved(row) /\ JournalFilled = 0
  /\ pc' = "off"
  /\ UNCHANGED <<win, venueVars, kill, handled, mem, ledgerVars, journal, task, tick,
                 resp, booked>>

-----------------------------------------------------------------------------
(* One tick: kill switch, exits, entry. *)

\* Where a cancel ends up, by what it was for.
Goto(step, t) == pc' = step /\ task' = t
AfterCancel ==
  CASE task = "kill"   -> Goto("close", "none")
    [] task = "settle" -> Goto("settle", "none")
    [] task = "pre"    -> Goto("cancelExit", "exit")
    [] task = "stop"   -> IF row = None THEN Goto("off", "none") ELSE Goto("cancelExit", "flatten")
    [] OTHER           -> Goto("sell", task)

\* An exit attempt is over: the tick goes on, or the stopped loop ends.
ExitOver == IF task = "flatten" THEN Goto("off", "none") ELSE Goto("open", "none")

\* Fault: the sweep is not re-armed when the kill file goes away.
EnforceKillSwitchOnce ==
  /\ pc = "idle"
  /\ tick' = [win |-> win, mayOpen |-> ~kill] /\ handled' = (kill \/ handled)
  /\ IF kill /\ ~handled THEN Goto("cancelExit", "kill") ELSE Goto("close", "none")
  /\ UNCHANGED <<win, venueVars, kill, mem, ledgerVars, journal, resp, booked>>

EnforceKillSwitch ==
  /\ pc = "idle"
  /\ tick' = [win |-> win, mayOpen |-> ~kill] /\ handled' = kill
  /\ IF kill /\ ~handled THEN Goto("cancelExit", "kill") ELSE Goto("close", "none")
  /\ UNCHANGED <<win, venueVars, kill, mem, ledgerVars, journal, resp, booked>>

\* The loop ends between two ticks: cancel, flatten, drop the executor.
Stop ==
  /\ pc = "idle" /\ Stops
  /\ Goto("cancelExit", "stop")
  /\ UNCHANGED <<win, venueVars, kill, handled, mem, ledgerVars, journal, tick, resp, booked>>

\* _close_due_positions: nothing to close, or not yet.
Hold ==
  /\ pc = "close"
  /\ row = None \/ row = tick.win \/ Style = "settle"
  /\ Goto("open", "none")
  /\ UNCHANGED <<win, venueVars, kill, handled, mem, ledgerVars, journal, tick, resp, booked>>

\* Settle style: the rolled window's outcome can be read.
SettleDue ==
  /\ pc = "close" /\ Style = "settle" /\ row \notin {None, tick.win}
  /\ IF ~mem.open THEN Goto("closeRow", "none")
     ELSE IF mem.order # None THEN Goto("cancelExit", "settle") ELSE Goto("settle", "none")
  /\ UNCHANGED <<win, venueVars, kill, handled, mem, ledgerVars, journal, tick, resp, booked>>

\* Scalp style: an exit reason holds, always so once the window has rolled;
\* a roll and a band re-entry cancel the entry's rest first.
ExitDue(first) ==
  /\ pc = "close" /\ Style = "scalp" /\ row # None
  /\ row # tick.win => first
  /\ Goto("cancelExit", IF first THEN "pre" ELSE "exit")
  /\ UNCHANGED <<win, venueVars, kill, handled, mem, ledgerVars, journal, tick, resp, booked>>

-----------------------------------------------------------------------------
(* Entry: the ledger row first, then the order. *)

SkipEntry ==
  /\ pc = "open"
  /\ Goto("idle", "none")
  /\ UNCHANGED <<win, venueVars, kill, handled, mem, ledgerVars, journal, tick, resp, booked>>

\* Fault: a window may be entered again once its row is closed.
InsertRowAgain ==
  /\ pc = "open" /\ tick.mayOpen /\ row = None /\ Free # {}
  /\ row' = tick.win /\ used' = used \cup {tick.win} /\ mem' = ResyncFlat
  /\ Goto("post", "none")
  /\ UNCHANGED <<win, venueVars, kill, handled, journal, tick, resp, booked>>

\* The ledger is flat: resync_flat clears the memory, then the row is inserted.
InsertRow ==
  /\ pc = "open" /\ tick.mayOpen /\ row = None /\ Free # {}
  /\ Style = "settle" => tick.win \notin used
  /\ row' = tick.win /\ used' = used \cup {tick.win} /\ mem' = ResyncFlat
  /\ Goto("post", "none")
  /\ UNCHANGED <<win, venueVars, kill, handled, journal, tick, resp, booked>>

\* A gate blocks, or the order is rejected or never reaches the exchange.
BlockEntry ==
  /\ pc = "post"
  /\ Goto("delete", "none")
  /\ UNCHANGED <<win, venueVars, kill, handled, mem, ledgerVars, journal, tick, resp, booked>>

\* The gates pass, the kill file is still absent, the order is posted and m
\* shares cross at once; the response may be lost.
PostEntry(m) ==
  /\ pc = "post" /\ ~kill /\ ~EntryBlocked
  /\ \/ /\ Accept("buy", row, Size, m, TRUE)
        /\ Goto("journal", "none") /\ resp' = [order |-> Fresh, filled |-> m]
     \/ /\ "post" \in Faults /\ Accept("buy", row, Size, m, FALSE)
        /\ Goto("delete", "none") /\ UNCHANGED resp
  /\ UNCHANGED <<win, kill, handled, mem, ledgerVars, journal, tick, booked>>

JournalEntry ==
  /\ pc = "journal"
  /\ journal' = [journal EXCEPT ![row] = resp]
  /\ Goto("track", "none")
  /\ UNCHANGED <<win, venueVars, kill, handled, mem, ledgerVars, tick, resp, booked>>

\* Fault: what crossed at placement is taken for all that will ever fill.
TrackEntryCrossed ==
  /\ pc = "track"
  /\ mem' = [Flat EXCEPT !.open = TRUE, !.win = row, !.matched = resp.filled]
  /\ Goto("idle", "none")
  /\ resp' = NoResp
  /\ UNCHANGED <<win, venueVars, kill, handled, ledgerVars, journal, tick, booked>>

TrackEntry ==
  /\ pc = "track"
  /\ mem' = [Flat EXCEPT !.open = TRUE, !.win = row,
               !.matched = IF resp.filled >= Size THEN resp.filled ELSE None,
               !.order = IF resp.filled >= Size THEN None ELSE resp.order]
  /\ Goto("idle", "none")
  /\ resp' = NoResp
  /\ UNCHANGED <<win, venueVars, kill, handled, ledgerVars, journal, tick, booked>>

DeleteRow ==
  /\ pc = "delete"
  /\ row' = None /\ used' = used \ {row}
  /\ Goto("idle", "none")
  /\ UNCHANGED <<win, venueVars, kill, handled, mem, journal, tick, resp, booked>>

-----------------------------------------------------------------------------
(* cancel_open, also the first half of submit_exit: the stale exit order,   *)
(* then the entry's rest.                                                   *)

\* PnL of n shares reaches the loss halt; the observer saturates above what
\* the accepted orders can buy.
MaxBooked == LastOrder * Size + 1
Book(n) == booked' = [booked EXCEPT ![mem.win] = IF @ + n > MaxBooked THEN MaxBooked ELSE @ + n]

CancelExit(ok) ==
  /\ pc = "cancelExit"
  /\ \/ mem.exit = None /\ ok /\ Goto("cancelEntry", task) /\ UNCHANGED venueVars
     \/ /\ mem.exit # None /\ TryCancel(mem.exit, ok)
        /\ IF ok THEN Goto("exitInfo", task)
           ELSE IF task \in {"exit", "flatten"} THEN ExitOver ELSE Goto("cancelEntry", task)
  /\ UNCHANGED <<win, kill, handled, mem, ledgerVars, journal, tick, resp, booked>>

\* Fault: the exit order stays tracked after its fill was registered.
RegisterStaleExitKept(n) ==
  /\ pc = "exitInfo" /\ n \in Looked(mem.exit, 0)
  /\ mem' = [mem EXCEPT !.sold = @ + n]
  /\ Book(n)
  /\ Goto("cancelEntry", task)
  /\ UNCHANGED <<win, venueVars, kill, handled, ledgerVars, journal, tick, resp>>

RegisterStaleExit(n) ==
  /\ pc = "exitInfo" /\ n \in Looked(mem.exit, 0)
  /\ mem' = [mem EXCEPT !.exit = None, !.sold = @ + n]
  /\ Book(n)
  /\ Goto("cancelEntry", task)
  /\ UNCHANGED <<win, venueVars, kill, handled, ledgerVars, journal, tick, resp>>

\* Faults: a failed cancel does not defer the exit; it defers the settlement.
CancelEntryHeedless(ok) ==
  /\ pc = "cancelEntry"
  /\ \/ mem.order = None /\ ok /\ AfterCancel /\ UNCHANGED venueVars
     \/ /\ mem.order # None /\ TryCancel(mem.order, ok)
        /\ IF ok THEN Goto("entryInfo", task) ELSE AfterCancel
  /\ UNCHANGED <<win, kill, handled, mem, ledgerVars, journal, tick, resp, booked>>
CancelEntryStubborn(ok) ==
  /\ pc = "cancelEntry"
  /\ \/ mem.order = None /\ ok /\ AfterCancel /\ UNCHANGED venueVars
     \/ /\ mem.order # None /\ TryCancel(mem.order, ok)
        /\ IF ok THEN Goto("entryInfo", task) ELSE ExitOver
  /\ UNCHANGED <<win, kill, handled, mem, ledgerVars, journal, tick, resp, booked>>

CancelEntry(ok) ==
  /\ pc = "cancelEntry"
  /\ \/ mem.order = None /\ ok /\ AfterCancel /\ UNCHANGED venueVars
     \/ /\ mem.order # None /\ TryCancel(mem.order, ok)
        /\ IF ok THEN Goto("entryInfo", task)
           ELSE IF task \in {"exit", "flatten"} THEN ExitOver ELSE AfterCancel
  /\ UNCHANGED <<win, kill, handled, mem, ledgerVars, journal, tick, resp, booked>>

\* The matched size is captured after the cancel; a failed lookup counts as
\* fully filled, except in a settlement.
CaptureMatched(n) ==
  /\ pc = "entryInfo" /\ n \in MatchedEntrySize(IF task = "settle" THEN 0 ELSE Size)
  /\ mem' = [mem EXCEPT !.order = None, !.matched = n]
  /\ AfterCancel
  /\ UNCHANGED <<win, venueVars, kill, handled, ledgerVars, journal, tick, resp, booked>>

-----------------------------------------------------------------------------
(* Settlement and exit. *)

Above(a, b) == IF a > b THEN a - b ELSE 0
Remaining == Above(Num(mem.matched), mem.sold)

\* record_settlement: what is held is booked, the slot is freed.
Settle(n) ==
  /\ pc = "settle"
  /\ n \in MatchedEntrySize(0)
  /\ Book(Above(n, mem.sold))
  /\ mem' = Flat
  /\ Goto("closeRow", "none")
  /\ UNCHANGED <<win, venueVars, kill, handled, ledgerVars, journal, tick, resp>>

\* submit_exit with nothing (left) to sell: SKIPPED or FLAT.
NothingToSell ==
  /\ pc = "sell" /\ Remaining = 0
  /\ mem' = Flat
  /\ Goto("closeRow", task)
  /\ UNCHANGED <<win, venueVars, kill, handled, ledgerVars, journal, tick, resp, booked>>

\* No bid, or the SELL is rejected or never reaches the exchange.
ExitBlocked ==
  /\ pc = "sell" /\ Remaining > 0
  /\ ExitOver
  /\ UNCHANGED <<win, venueVars, kill, handled, mem, ledgerVars, journal, tick, resp, booked>>

\* The exchange rejects a SELL of more shares than are held.
PostExit(m) ==
  /\ pc = "sell" /\ Remaining > 0 /\ tokens[mem.win] >= Remaining
  /\ \/ /\ Accept("sell", mem.win, Remaining, m, TRUE)
        /\ Goto("await", task) /\ mem' = [mem EXCEPT !.exit = Fresh]
     \/ /\ "post" \in Faults /\ Accept("sell", mem.win, Remaining, m, FALSE)
        /\ ExitOver /\ UNCHANGED mem
  /\ UNCHANGED <<win, kill, handled, ledgerVars, journal, tick, resp, booked>>

\* An exit fill of n shares is registered; the slot is freed when they are
\* the last ones.
RegisterExit(n, otherwise) ==
  /\ Book(n)
  /\ IF mem.sold + n >= Num(mem.matched)
     THEN mem' = Flat /\ Goto("closeRow", task)
     ELSE mem' = [mem EXCEPT !.exit = None, !.sold = @ + n] /\ otherwise

\* _await_fill sees the whole size matched ...
ExitFilled ==
  /\ pc = "await" /\ WholeSizeMatched
  /\ RegisterExit(orders[mem.exit].size, ExitOver)
  /\ UNCHANGED <<win, venueVars, kill, handled, ledgerVars, journal, tick, resp>>

\* ... or times out: the SELL is cancelled, its fill looked up once more.
ExitTimeout(ok) ==
  /\ pc = "await" /\ MayTimeOut
  /\ TryCancel(mem.exit, ok)
  /\ IF ok THEN Goto("sellInfo", task) ELSE ExitOver
  /\ UNCHANGED <<win, kill, handled, mem, ledgerVars, journal, tick, resp, booked>>

RegisterCancelledExit(n) ==
  /\ pc = "sellInfo" /\ n \in Looked(mem.exit, 0)
  /\ RegisterExit(n, ExitOver)
  /\ UNCHANGED <<win, venueVars, kill, handled, ledgerVars, journal, tick, resp>>

CloseRow ==
  /\ pc = "closeRow"
  /\ row' = None
  /\ ExitOver
  /\ UNCHANGED <<win, venueVars, kill, handled, mem, used, journal, tick, resp, booked>>

\* The process dies before the step it was about to take.
Crash ==
  /\ pc \in CrashPoints
  /\ Goto("off", "none") /\ mem' = Flat /\ handled' = FALSE /\ resp' = NoResp
  /\ tick' = NoTick
  /\ UNCHANGED <<win, venueVars, kill, ledgerVars, journal, booked>>

-----------------------------------------------------------------------------
TickSteps == EnforceKillSwitch \/ Stop \/ Hold \/ SettleDue \/ (\E b \in BOOLEAN : ExitDue(b))
EntrySteps ==
  \/ SkipEntry \/ InsertRow \/ BlockEntry \/ (\E m \in 0 .. Size : PostEntry(m))
  \/ JournalEntry \/ TrackEntry \/ DeleteRow
CancelSteps ==
  \/ \E ok \in BOOLEAN : CancelExit(ok) \/ CancelEntry(ok)
  \/ \E n \in 0 .. Size : RegisterStaleExit(n) \/ CaptureMatched(n)
ExitSteps ==
  \/ NothingToSell \/ ExitBlocked \/ ExitFilled \/ CloseRow
  \/ \E n \in 0 .. Size : Settle(n) \/ PostExit(n) \/ RegisterCancelledExit(n)
  \/ \E ok \in BOOLEAN : ExitTimeout(ok)
Boot == BootCancelAll \/ BootFlat \/ BootRefused \/ (\E m \in 1 .. Size : BootAdopt(m))
Runner == Boot \/ TickSteps \/ EntrySteps \/ CancelSteps \/ ExitSteps
World == NextWindow \/ ToggleKill \/ (\E o \in Ids : Fill(o)) \/ (\E w \in Windows : CloseBook(w))

Next == Runner \/ World \/ Crash

Spec == Init /\ [][Next]_vars

\* The runner never sleeps on a step for ever, time passes, and the outcome of
\* a window can eventually be read whenever the loop keeps asking for it.
FairSpec == Spec /\ WF_vars(Runner) /\ WF_vars(NextWindow) /\ SF_vars(SettleDue)

-----------------------------------------------------------------------------
(* Properties. *)

Amounts  == 0 .. Size
Orders   == [side: {"none", "buy", "sell"}, win: Windows \cup {0}, size: Amounts,
             matched: Amounts, live: BOOLEAN, known: BOOLEAN]
Resps    == [order: Ids \cup {None}, filled: Amounts]
Memories == [open: BOOLEAN, win: Windows \cup {None}, matched: Amounts \cup {None},
             sold: Amounts, order: Ids \cup {None}, exit: Ids \cup {None}]
Ticks    == [win: Windows \cup {0}, mayOpen: BOOLEAN]
Tasks    == {"none", "kill", "settle", "pre", "stop", "exit", "flatten"}

\* Every variable stays in its range: in particular no order fills beyond its
\* size, and the shares the executor believes matched and sold never leave the
\* clip they belong to.
TypeOK ==
  /\ win \in Windows /\ trading \subseteq Windows
  /\ orders \in [Ids -> Orders] /\ tokens \in [Windows -> Nat]
  /\ kill \in BOOLEAN /\ handled \in BOOLEAN
  /\ mem \in Memories
  /\ row \in Windows \cup {None} /\ used \subseteq Windows
  /\ journal \in [Windows -> Resps] /\ resp \in Resps
  /\ pc \in Steps /\ tick \in Ticks /\ task \in Tasks
  /\ bought \in [Windows -> Nat] /\ booked \in [Windows -> Nat]

\* Something real is at stake: an order that can still fill, or shares of a
\* market that has not resolved.  Settle style lets shares of a rolled window
\* ride to their redemption, outside the slot.
Stake ==
  \/ \E o \in Ids : orders[o].live
  \/ \E w \in trading : tokens[w] > 0 /\ (w = win \/ Style = "scalp")

Slot == INSTANCE PositionSlot WITH claimed <- row # None, stake <- Stake

\* The loop and the executor, for all their steps, are one position slot: the
\* row is claimed before anything real exists and released after it is gone
\* (paper.py:1382-1387, 1691-1699).
ImplementsSlot == Slot!SlotSpec

\* Memory, ledger and exchange stay in step, apart from an order whose placement
\* was never answered: the executor never works two orders at once, so the bot
\* never buys and sells the same token simultaneously (live.py:947-948, 961-962);
\* between two phases of a tick a working order is one the executor tracks, never
\* silently forgotten while possibly live (live.py:1075-1076); and when the ledger
\* is flat there is nothing for resync_flat to heal (live.py:1131-1143).
Working == {o \in Ids : orders[o].live /\ orders[o].known}
MemoryInStep ==
  /\ \A o, p \in Working : o = p
  /\ pc \in {"idle", "close", "open"} => Working \subseteq {mem.order, mem.exit}
  /\ pc = "open" /\ row = None => mem = Flat

\* The loss halt is never fed the PnL of more shares than were bought.
NeverOverbooked == \A w \in Windows : booked[w] <= bought[w]

\* Once a window's row is closed, every share bought in it has had its PnL fed
\* to the loss halt (live.py:667-672), whatever crashes came in between.
BookedInFull == \A w \in used : row # w => booked[w] >= bought[w]

\* A window that is held to settlement is entered at most once, whatever
\* crashes in between (paper.py:1322, "One entry per window, ever").
OneClipPerWindow == \A w \in Windows : bought[w] <= Size

\* Once the kill file has been handled no BUY works (live.py:18-19).
KillQuiets ==
  handled /\ pc \in {"idle", "close", "open"} =>
    \A o \in Ids : orders[o].live => orders[o].side = "sell"

\* Every row but that of the last window is eventually closed or deleted.
RowsResolve == \A w \in 1 .. LastWindow - 1 : row = w ~> row # w
=============================================================================
