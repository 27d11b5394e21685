-------------------------- MODULE LiveExecutorProofs --------------------------
(***************************************************************************)
(* Live trading, for every number of windows, orders and shares, every set *)
(* of calls that fail and every point at which the process may die: the    *)
(* invariant that says where the runner is and what it knows there, the    *)
(* lemmas about the exchange, and what the executor may never do: book     *)
(* what was not bought, work two orders or one it does not track, enter a  *)
(* window twice, buy once the kill file is handled.  Its last part is the  *)
(* refinement of PositionSlot and the bookings a closed row stands for.    *)
(***************************************************************************)
EXTENDS LiveExecutor, TLAPS

\* An order that works has a window whose book is open, and something left to fill.
Exchange ==
  /\ \A o \in Ids : orders[o].side # "none" => orders[o].win \in Windows
  /\ \A o \in Ids : orders[o].live =>
       orders[o].side # "none" /\ orders[o].matched < orders[o].size /\ orders[o].win \in trading
  /\ \A o \in Ids : orders[o].matched <= orders[o].size

Entering   == {"post", "journal", "track", "delete"}
Cancelling == {"cancelExit", "exitInfo", "cancelEntry", "entryInfo"}
Selling    == {"sell", "await", "sellInfo"}

\* What a cancel or an exit is for, and that there is a row whenever it is for one.
Errands ==
  /\ pc \in Cancelling => task \in {"kill", "settle", "pre", "stop", "exit", "flatten"}
  /\ pc \in Selling => task \in {"exit", "flatten"}
  /\ pc = "closeRow" => task \in {"none", "exit", "flatten"}
  /\ pc \notin Cancelling \cup Selling \cup {"closeRow"} => task = "none"
  /\ task \in {"settle", "pre", "exit", "flatten"} \/ pc \in Entering \cup {"settle", "closeRow"} => row # None
  /\ pc \notin {"off", "adopt", "idle"} /\ task \notin {"stop", "flatten"} => tick.win \in Windows
  /\ Style = "settle" => task \notin {"pre", "exit"}
  /\ Style = "scalp" => task # "settle" /\ pc # "settle"

\* The executor tracks the position of the open row and nothing else: while an
\* entry is placed and after a position is closed it tracks nothing; between an
\* entry and its capture it has no exit; each lookup finds the id it needs.
Memory ==
  /\ ~mem.open => mem = Flat
  /\ mem.open => mem.win = row /\ row # None
  /\ pc \in {"adopt", "closeRow"} \cup Entering => ~mem.open
  /\ pc \notin {"off", "adopt", "closeRow"} \cup Entering /\ row # None => mem.open
  /\ mem.order # None => mem.matched = None /\ mem.exit = None /\ mem.sold = 0
  /\ mem.open /\ mem.order = None => mem.matched # None
  /\ pc \in {"exitInfo", "await", "sellInfo"} => mem.exit # None
  /\ pc = "entryInfo" => mem.order # None
  /\ pc = "sell" => mem.order = None /\ mem.exit = None
  /\ pc \in {"cancelEntry", "entryInfo"} /\ task \in {"exit", "flatten"} => mem.exit = None

\* A tracked id is an order of the right side and window; what an exit may still
\* sell and what was sold never exceed the clip.
Placed ==
  /\ mem.order # None => orders[mem.order].side = "buy" /\ orders[mem.order].win = mem.win
  /\ mem.exit # None => /\ orders[mem.exit].side = "sell" /\ orders[mem.exit].win = mem.win
                        /\ mem.sold + orders[mem.exit].size <= mem.matched
  /\ pc \in {"journal", "track"} =>
       /\ resp.order # None
       /\ orders[resp.order].side = "buy" /\ orders[resp.order].win = row
       /\ orders[resp.order].size = Size /\ resp.filled <= orders[resp.order].matched

Sound == TypeOK /\ Exchange /\ Errands /\ Memory /\ Placed
-----------------------------------------------------------------------------
(* What a step does to the exchange's orders, field by field.              *)

\* Nothing but that some orders stop working.
Withdrawn ==
  /\ orders' \in [Ids -> Orders]
  /\ \A o \in Ids :
       /\ orders'[o].side = orders[o].side /\ orders'[o].win = orders[o].win
       /\ orders'[o].size = orders[o].size /\ orders'[o].matched = orders[o].matched
       /\ orders'[o].known = orders[o].known
       /\ orders'[o].live => orders[o].live

\* Order o is new, for n shares of window w, m of which crossed.
Arrived(o, side, w, n, m, known) ==
  /\ o \in Ids /\ orders[o].side = "none"
  /\ orders' \in [Ids -> Orders]
  /\ orders'[o].side = side /\ orders'[o].win = w /\ orders'[o].size = n
  /\ orders'[o].matched = m /\ orders'[o].live = (m < n) /\ orders'[o].known = known
  /\ \A p \in Ids : p # o => orders'[p] = orders[p]
  /\ tokens' \in [Windows -> Int] /\ bought' \in [Windows -> Nat]
  /\ tokens'[w] = IF side = "buy" THEN tokens[w] + m ELSE tokens[w] - m
  /\ bought'[w] = IF side = "buy" THEN bought[w] + m ELSE bought[w]
  /\ \A v \in Windows : v # w => tokens'[v] = tokens[v] /\ bought'[v] = bought[v]

\* One more share of order o trades.
Filled(o) ==
  /\ orders' \in [Ids -> Orders]
  /\ orders'[o].side = orders[o].side /\ orders'[o].win = orders[o].win
  /\ orders'[o].size = orders[o].size /\ orders'[o].known = orders[o].known
  /\ orders'[o].matched = orders[o].matched + 1
  /\ orders'[o].live = (orders[o].matched + 1 < orders[o].size)
  /\ \A p \in Ids : p # o => orders'[p] = orders[p]
  /\ tokens' \in [Windows -> Nat] /\ bought' \in [Windows -> Nat]
  /\ LET w == orders[o].win
     IN  /\ tokens'[w] = IF orders[o].side = "buy" THEN tokens[w] + 1 ELSE tokens[w] - 1
         /\ bought'[w] = IF orders[o].side = "buy" THEN bought[w] + 1 ELSE bought[w]
         /\ \A v \in Windows : v # w => tokens'[v] = tokens[v] /\ bought'[v] = bought[v]

LEMMA FreshIsFree == Free # {} => Fresh \in Ids /\ orders[Fresh].side = "none"
  BY DEF Fresh, Free

LEMMA CancelWithdraws ==
  ASSUME TypeOK, NEW o \in Ids, NEW ok \in BOOLEAN, TryCancel(o, ok)
  PROVE  /\ Withdrawn /\ (ok => ~orders'[o].live)
         /\ \A p \in Ids : p # o => orders'[p] = orders[p]
<1>1. CASE orders' = orders /\ ~ok
  BY <1>1 DEF TypeOK, Withdrawn
<1>2. CASE orders' = [orders EXCEPT ![o].live = FALSE]
  BY <1>2 DEF TypeOK, Orders, Withdrawn
<1> QED
  BY <1>1, <1>2 DEF TryCancel

LEMMA BootWithdraws ==
  ASSUME TypeOK, BootCancelAll PROVE Withdrawn /\ \A o \in Ids : ~orders'[o].live
  BY DEF TypeOK, Orders, BootCancelAll, Withdrawn

LEMMA CloseWithdraws ==
  ASSUME TypeOK, NEW w \in Windows, CloseBook(w)
  PROVE  Withdrawn /\ \A o \in Ids : orders'[o].live => orders[o].win # w
  BY DEF TypeOK, Orders, CloseBook, Withdrawn

LEMMA AcceptPlaces ==
  ASSUME TypeOK, NEW side \in {"buy", "sell"}, NEW w \in Windows, NEW n \in Amounts, NEW m \in 0 .. n,
         NEW known \in BOOLEAN, Accept(side, w, n, m, known)
  PROVE  Arrived(Fresh, side, w, n, m, known)
<1> DEFINE new == [side |-> side, win |-> w, size |-> n, matched |-> m, live |-> m < n, known |-> known]
<1>1. Fresh \in Ids /\ orders[Fresh].side = "none"
  BY FreshIsFree DEF Accept
<1>2. new \in Orders
  BY BoundsAssumption DEF Orders, Amounts
<1>3. orders' = [orders EXCEPT ![Fresh] = new]
  BY DEF Accept
<1>4. /\ tokens' = [tokens EXCEPT ![w] = IF side = "buy" THEN @ + m ELSE @ - m]
      /\ bought' = [bought EXCEPT ![w] = IF side = "buy" THEN @ + m ELSE @]
  BY DEF Accept
<1>5. m \in Nat
  BY BoundsAssumption DEF Amounts
<1>6. /\ tokens' \in [Windows -> Int] /\ bought' \in [Windows -> Nat]
      /\ tokens'[w] = IF side = "buy" THEN tokens[w] + m ELSE tokens[w] - m
      /\ bought'[w] = IF side = "buy" THEN bought[w] + m ELSE bought[w]
      /\ \A v \in Windows : v # w => tokens'[v] = tokens[v] /\ bought'[v] = bought[v]
  BY <1>4, <1>5 DEF TypeOK
<1>7. orders' \in [Ids -> Orders] /\ orders'[Fresh] = new /\ \A p \in Ids : p # Fresh => orders'[p] = orders[p]
  BY <1>1, <1>2, <1>3 DEF TypeOK
<1> QED
  BY <1>1, <1>6, <1>7 DEF Arrived

LEMMA FillFills ==
  ASSUME TypeOK, Exchange, NEW o \in Ids, Fill(o) PROVE Filled(o) /\ orders[o].win \in Windows
<1> DEFINE w == orders[o].win
<1>1. orders[o] \in Orders /\ w \in Windows /\ orders[o].side \in {"buy", "sell"} /\ orders[o].matched + 1 \in Amounts
  BY BoundsAssumption DEF TypeOK, Exchange, Fill, Orders, Amounts
<1> DEFINE new == [orders[o] EXCEPT !.matched = orders[o].matched + 1, !.live = orders[o].matched + 1 < orders[o].size]
<1>2. new \in Orders /\ orders' = [orders EXCEPT ![o] = new]
  <2>1. \A b \in BOOLEAN : [orders[o] EXCEPT !.matched = orders[o].matched + 1, !.live = b] \in Orders
    BY <1>1 DEF Orders
  <2>2. (orders[o].matched + 1 < orders[o].size) \in BOOLEAN
    OBVIOUS
  <2>3. new \in Orders
    BY ONLY <2>1, <2>2, Zenon
  <2>4. orders' = [orders EXCEPT ![o] = new]
    BY DEF Fill, TypeOK
  <2> QED
    BY <2>3, <2>4
<1>3. /\ orders' \in [Ids -> Orders] /\ \A p \in Ids : p # o => orders'[p] = orders[p]
      /\ orders'[o] = new
  BY <1>2 DEF TypeOK
<1>4. /\ orders'[o].side = orders[o].side /\ orders'[o].win = orders[o].win
      /\ orders'[o].size = orders[o].size /\ orders'[o].known = orders[o].known
      /\ orders'[o].matched = orders[o].matched + 1
      /\ orders'[o].live = (orders[o].matched + 1 < orders[o].size)
  BY <1>1, <1>3 DEF Orders
<1>5. /\ tokens' \in [Windows -> Nat] /\ bought' \in [Windows -> Nat]
      /\ tokens'[w] = IF orders[o].side = "buy" THEN tokens[w] + 1 ELSE tokens[w] - 1
      /\ bought'[w] = IF orders[o].side = "buy" THEN bought[w] + 1 ELSE bought[w]
      /\ \A v \in Windows : v # w => tokens'[v] = tokens[v] /\ bought'[v] = bought[v]
  BY <1>1 DEF TypeOK, Fill
<1> QED
  BY <1>1, <1>3, <1>4, <1>5 DEF Filled

\* What a sell order may be for.
LEMMA RemainingRange == ASSUME TypeOK PROVE Remaining \in Amounts /\ mem.sold \in Amounts
<1>1. Num(mem.matched) \in Amounts /\ mem.sold \in Amounts
  BY BoundsAssumption DEF TypeOK, Memories, Num, Amounts
<1> QED
  BY <1>1, BoundsAssumption DEF Remaining, Above, Amounts

\* The four things that happen to the exchange.
Unmoved   == UNCHANGED venueVars
Withdraws == /\ Withdrawn /\ UNCHANGED <<tokens, bought>> /\ trading' \subseteq trading
             /\ \A o \in Ids : orders'[o].live => orders[o].win \in trading'
Places    == /\ UNCHANGED trading
             /\ \E w \in trading, n \in Amounts, known \in BOOLEAN : \E m \in 0 .. n :
                  \/ Arrived(Fresh, "buy", w, n, m, known)
                  \/ Arrived(Fresh, "sell", w, n, m, known) /\ n <= tokens[w]
Fills     == /\ UNCHANGED trading
             /\ \E o \in Ids : /\ orders[o].live /\ orders[o].win \in Windows /\ Filled(o)
                               /\ orders[o].side = "sell" => tokens[orders[o].win] > 0

LEMMA PostEntryPlaces ==
  ASSUME Sound, NEW m \in 0 .. Size, PostEntry(m)
  PROVE  /\ row \in trading /\ UNCHANGED trading /\ m \in Amounts /\ Size \in Amounts
         /\ \/ Arrived(Fresh, "buy", row, Size, m, TRUE) /\ pc' = "journal" /\ resp' = [order |-> Fresh, filled |-> m]
            \/ Arrived(Fresh, "buy", row, Size, m, FALSE) /\ pc' = "delete" /\ resp' = resp /\ "post" \in Faults
<1>1. row \in trading /\ row \in Windows /\ UNCHANGED trading /\ Size \in Amounts /\ m \in Amounts
  BY BoundsAssumption DEF Sound, TypeOK, PostEntry, Accept, Amounts
<1> QED
  BY <1>1, AcceptPlaces DEF PostEntry, Goto, Sound

LEMMA PostExitPlaces ==
  ASSUME Sound, NEW m \in 0 .. Size, PostExit(m)
  PROVE  /\ mem.win \in trading /\ UNCHANGED trading /\ m \in 0 .. Remaining
         /\ Remaining \in Amounts /\ Remaining <= tokens[mem.win]
         /\ \/ Arrived(Fresh, "sell", mem.win, Remaining, m, TRUE) /\ pc' = "await" /\ mem' = [mem EXCEPT !.exit = Fresh]
            \/ Arrived(Fresh, "sell", mem.win, Remaining, m, FALSE) /\ ExitOver /\ mem' = mem /\ "post" \in Faults
<1>1. /\ mem.win \in trading /\ mem.win \in Windows /\ UNCHANGED trading /\ Remaining \in Amounts
      /\ m \in 0 .. Remaining /\ Remaining <= tokens[mem.win]
  BY RemainingRange DEF Sound, TypeOK, PostExit, Accept, Amounts
<1> QED
  BY <1>1, AcceptPlaces DEF PostExit, Goto, Sound

\* Boot, cancel and the end of a window only withdraw orders.
LEMMA TryCancelMoves ==
  ASSUME Sound, NEW o \in Ids, NEW ok \in BOOLEAN, TryCancel(o, ok) PROVE Withdraws
<1>1. Withdrawn /\ UNCHANGED <<trading, tokens, bought>>
  BY CancelWithdraws DEF TryCancel, Sound
<1> QED
  BY <1>1 DEF Withdraws, Withdrawn, Exchange, Sound

LEMMA BootMoves == ASSUME Sound, Boot PROVE Unmoved \/ Withdraws
<1>1. CASE BootCancelAll
  BY <1>1, BootWithdraws DEF BootCancelAll, Withdraws, Sound
<1> QED
  BY <1>1 DEF Boot, BootFlat, BootRefused, BootAdopt, Unmoved

LEMMA CancelMoves == ASSUME Sound, CancelSteps PROVE Unmoved \/ Withdraws
<1>1. ASSUME NEW ok \in BOOLEAN, CancelExit(ok) PROVE Unmoved \/ Withdraws
  BY <1>1, TryCancelMoves DEF CancelExit, Sound, TypeOK, Memories, Unmoved
<1>2. ASSUME NEW ok \in BOOLEAN, CancelEntry(ok) PROVE Unmoved \/ Withdraws
  BY <1>2, TryCancelMoves DEF CancelEntry, Sound, TypeOK, Memories, Unmoved
<1> QED
  BY <1>1, <1>2 DEF CancelSteps, RegisterStaleExit, CaptureMatched, Unmoved

LEMMA ExitTimeoutMoves == ASSUME Sound, NEW ok \in BOOLEAN, ExitTimeout(ok) PROVE Withdraws
  BY TryCancelMoves DEF ExitTimeout, Sound, TypeOK, Memories, Memory

LEMMA CloseBookMoves == ASSUME Sound, NEW w \in Windows, CloseBook(w) PROVE Withdraws
<1>1. /\ Withdrawn /\ UNCHANGED <<tokens, bought>> /\ trading' = trading \ {w}
      /\ \A o \in Ids : orders'[o].live => orders[o].win # w
  BY CloseWithdraws DEF CloseBook, Sound
<1> QED
  BY <1>1 DEF Withdraws, Withdrawn, Exchange, Sound

LEMMA VenueMoves == ASSUME Sound, Next PROVE Unmoved \/ Withdraws \/ Places \/ Fills
<1> USE DEF Unmoved
<1>1. ASSUME TickSteps PROVE Unmoved
  BY <1>1 DEF TickSteps, EnforceKillSwitch, Stop, Hold, SettleDue, ExitDue
<1>2. ASSUME EntrySteps PROVE Unmoved \/ Places
  <2>1. ASSUME NEW m \in 0 .. Size, PostEntry(m) PROVE Places
    BY <2>1, PostEntryPlaces DEF Places
  <2> QED
    BY <1>2, <2>1
       DEF EntrySteps, SkipEntry, InsertRow, BlockEntry, JournalEntry, TrackEntry, DeleteRow
<1>3. ASSUME ExitSteps PROVE Unmoved \/ Withdraws \/ Places
  <2>1. ASSUME NEW m \in 0 .. Size, PostExit(m) PROVE Places
    BY <2>1, PostExitPlaces DEF Places
  <2> QED
    BY <1>3, <2>1, ExitTimeoutMoves DEF ExitSteps, NothingToSell, ExitBlocked, ExitFilled, CloseRow,
       Settle, RegisterCancelledExit
<1>4. ASSUME World PROVE Unmoved \/ Withdraws \/ Fills
  <2>1. ASSUME NEW o \in Ids, Fill(o) PROVE Fills
    BY <2>1, FillFills DEF Fill, Fills, Sound
  <2> QED
    BY <1>4, <2>1, CloseBookMoves DEF World, NextWindow, ToggleKill
<1> QED
  BY BootMoves, CancelMoves, <1>1, <1>2, <1>3, <1>4 DEF Next, Runner, Crash

LEMMA ExchangeStep == Sound /\ Next => Exchange'
<1> SUFFICES ASSUME Sound, Next PROVE Exchange'
  OBVIOUS
<1>1. TypeOK /\ Exchange
  BY DEF Sound
<1>2. CASE Unmoved
  BY <1>1, <1>2 DEF Unmoved, venueVars, Exchange
<1>3. CASE Withdraws
  BY <1>1, <1>3 DEF Withdraws, Withdrawn, Exchange
<1>4. CASE Places
  BY <1>1, <1>4, BoundsAssumption DEF Places, Arrived, Exchange, TypeOK, Orders, Amounts
<1>5. CASE Fills
  BY <1>1, <1>5, BoundsAssumption DEF Fills, Filled, Exchange, TypeOK, Orders, Amounts
<1> QED
  BY <1>2, <1>3, <1>4, <1>5, VenueMoves

LEMMA VenueTyped ==
  ASSUME Sound, Next
  PROVE  /\ orders' \in [Ids -> Orders] /\ tokens' \in [Windows -> Nat] /\ bought' \in [Windows -> Nat]
         /\ trading' \subseteq Windows
<1>1. TypeOK /\ Exchange
  BY DEF Sound
<1>2. CASE Unmoved
  BY <1>1, <1>2 DEF Unmoved, venueVars, TypeOK
<1>3. CASE Withdraws
  BY <1>1, <1>3 DEF Withdraws, Withdrawn, TypeOK
<1>4. CASE Places
  BY <1>1, <1>4, BoundsAssumption DEF Places, Arrived, TypeOK, Amounts
<1>5. CASE Fills
  BY <1>1, <1>5 DEF Fills, Filled, TypeOK
<1> QED
  BY <1>2, <1>3, <1>4, <1>5, VenueMoves

LEMMA Flats == Flat \in Memories /\ NoResp \in Resps /\ NoTick \in Ticks
  BY BoundsAssumption DEF Flat, Memories, NoResp, Resps, NoTick, Ticks, Amounts, Windows

LEMMA JumpsTyped == ASSUME TypeOK, AfterCancel \/ ExitOver PROVE pc' \in Steps /\ task' \in Tasks
  BY DEF TypeOK, AfterCancel, ExitOver, Goto, Steps, Tasks

LEMMA BookTyped ==
  ASSUME TypeOK, NEW n \in Nat, Book(n), mem.win \in Windows PROVE booked' \in [Windows -> Nat]
<1>1. MaxBooked \in Nat
  BY BoundsAssumption DEF MaxBooked
<1> QED
  BY <1>1 DEF TypeOK, Book

LEMMA WorkingExit ==
  ASSUME Sound, mem.exit # None
  PROVE  /\ mem.open /\ mem.order = None /\ row \in Windows /\ mem.win = row
         /\ mem.exit \in Ids /\ orders[mem.exit].side = "sell" /\ orders[mem.exit].win = row
         /\ {mem.matched, mem.sold, orders[mem.exit].size, orders[mem.exit].matched} \subseteq Amounts
         /\ mem.sold + orders[mem.exit].size <= mem.matched
         /\ orders[mem.exit].matched <= orders[mem.exit].size
<1>1. mem.open /\ mem.order = None /\ mem.exit \in Ids /\ row \in Windows /\ mem.win = row
  BY DEF Sound, TypeOK, Memory, Memories, Flat
<1>2. {mem.matched, mem.sold} \subseteq Amounts
  BY <1>1 DEF Sound, TypeOK, Memory, Memories
<1>3. orders[mem.exit] \in Orders
  BY <1>1 DEF Sound, TypeOK
<1> QED
  BY <1>1, <1>2, <1>3 DEF Sound, Exchange, Placed, Orders

LEMMA RegisterExitTyped ==
  ASSUME TypeOK, Memory, NEW n \in Nat, RegisterExit(n, ExitOver), mem.exit # None
  PROVE  mem' \in Memories /\ booked' \in [Windows -> Nat] /\ pc' \in Steps /\ task' \in Tasks
<1>1. mem.win \in Windows /\ booked' \in [Windows -> Nat]
  BY BookTyped DEF RegisterExit, Memory, TypeOK, Memories, Flat
<1>2. CASE mem.sold + n >= Num(mem.matched)
  BY <1>1, <1>2, Flats DEF RegisterExit, TypeOK, Goto, Steps
<1>3. CASE mem.sold + n < Num(mem.matched)
  <2>1. mem.sold + n \in Amounts
    BY <1>3, BoundsAssumption DEF TypeOK, Memories, Num, Amounts
  <2>2. mem' = [mem EXCEPT !.exit = None, !.sold = @ + n] /\ ExitOver
    BY <1>3, BoundsAssumption DEF RegisterExit, TypeOK, Memories, Num, Amounts
  <2> QED
    BY <1>1, <2>1, <2>2, JumpsTyped DEF TypeOK, Memories
<1> QED
  BY <1>2, <1>3, BoundsAssumption DEF TypeOK, Memories, Num, Amounts

LEMMA TypeStep == Sound /\ Next => TypeOK'
<1> SUFFICES ASSUME Sound, Next PROVE TypeOK'
  OBVIOUS
<1> USE DEF Goto, Steps, Tasks, venueVars, ledgerVars
<1>1. /\ TypeOK /\ Exchange /\ Errands /\ Memory /\ Placed
      /\ orders' \in [Ids -> Orders] /\ tokens' \in [Windows -> Nat] /\ bought' \in [Windows -> Nat]
      /\ trading' \subseteq Windows
  BY VenueTyped DEF Sound
<1>2. 0 .. Size \subseteq Nat /\ 0 .. Size = Amounts /\ 1 .. Size \subseteq Amounts
  BY BoundsAssumption DEF Amounts
<1>3. ASSUME BootCancelAll PROVE TypeOK'
  BY <1>1, <1>2, <1>3, Flats DEF BootCancelAll, TypeOK
<1>4. ASSUME BootFlat PROVE TypeOK'
  BY <1>1, <1>2, <1>4 DEF BootFlat, TypeOK
<1>5. ASSUME NEW m \in 1 .. Size, BootAdopt(m) PROVE TypeOK'
  <2>1. m \in Amounts /\ row \in Windows /\ 0 \in Amounts
    BY <1>1, <1>2, <1>5, BoundsAssumption DEF BootAdopt, TypeOK, Amounts
  <2>2. mem' \in Memories
    BY <1>5, <2>1 DEF BootAdopt, Flat, Memories
  <2> QED
    BY <1>1, <1>5, <2>2 DEF BootAdopt, TypeOK
<1>6. ASSUME BootRefused PROVE TypeOK'
  BY <1>1, <1>2, <1>6 DEF BootRefused, TypeOK
<1>7. ASSUME EnforceKillSwitch PROVE TypeOK'
  BY <1>1, <1>2, <1>7 DEF EnforceKillSwitch, TypeOK, Ticks
<1>8. ASSUME Stop PROVE TypeOK'
  BY <1>1, <1>2, <1>8 DEF Stop, TypeOK
<1>9. ASSUME Hold PROVE TypeOK'
  BY <1>1, <1>2, <1>9 DEF Hold, TypeOK
<1>10. ASSUME SettleDue PROVE TypeOK'
  BY <1>1, <1>2, <1>10 DEF SettleDue, TypeOK
<1>11. ASSUME NEW b \in BOOLEAN, ExitDue(b) PROVE TypeOK'
  BY <1>1, <1>2, <1>11 DEF ExitDue, TypeOK
<1>12. ASSUME SkipEntry PROVE TypeOK'
  BY <1>1, <1>2, <1>12 DEF SkipEntry, TypeOK
<1>13. ASSUME InsertRow PROVE TypeOK'
  <2>1. tick.win \in Windows /\ mem' \in Memories
    BY <1>1, <1>13, Flats DEF InsertRow, Errands, Cancelling, Selling, ResyncFlat
  <2> QED
    BY <1>1, <1>13, <2>1 DEF InsertRow, TypeOK
<1>14. ASSUME BlockEntry PROVE TypeOK'
  BY <1>1, <1>2, <1>14 DEF BlockEntry, TypeOK
<1>15. ASSUME NEW m \in 0 .. Size, PostEntry(m) PROVE TypeOK'
  <2>1. resp' \in Resps
    <3>1. Fresh \in Ids /\ m \in Amounts /\ resp' \in {resp, [order |-> Fresh, filled |-> m]}
      BY <1>1, <1>15, PostEntryPlaces DEF Arrived
    <3> QED
      BY <1>1, <3>1 DEF Resps, TypeOK
  <2> QED
    BY <1>1, <1>15, <2>1 DEF PostEntry, TypeOK
<1>16. ASSUME JournalEntry PROVE TypeOK'
  BY <1>1, <1>2, <1>16 DEF JournalEntry, TypeOK, Errands
<1>17. ASSUME TrackEntry PROVE TypeOK'
  BY <1>1, <1>2, <1>17, Flats DEF TrackEntry, TypeOK, Errands, Memories, Flat, Resps, Amounts
<1>18. ASSUME DeleteRow PROVE TypeOK'
  BY <1>1, <1>2, <1>18 DEF DeleteRow, TypeOK
<1>19. ASSUME NEW ok \in BOOLEAN, CancelExit(ok) PROVE TypeOK'
  BY <1>1, <1>2, <1>19, JumpsTyped DEF CancelExit, TypeOK
<1>20. ASSUME NEW n \in 0 .. Size, RegisterStaleExit(n) PROVE TypeOK'
  <2>1. mem.exit # None
    BY <1>1, <1>20 DEF RegisterStaleExit, Memory
  <2>2. n <= orders[mem.exit].size /\ n \in Nat
    BY <1>20, <2>1, WorkingExit DEF RegisterStaleExit, Looked, Amounts
  <2>3. mem.sold + n \in Amounts /\ mem.win \in Windows
    BY <2>1, <2>2, WorkingExit, BoundsAssumption DEF Amounts
  <2>4. mem' \in Memories /\ booked' \in [Windows -> Nat]
    BY <1>1, <1>20, <2>2, <2>3, BookTyped DEF RegisterStaleExit, TypeOK, Memories
  <2> QED
    BY <1>1, <1>20, <2>4 DEF RegisterStaleExit, TypeOK
<1>21. ASSUME NEW ok \in BOOLEAN, CancelEntry(ok) PROVE TypeOK'
  BY <1>1, <1>2, <1>21, JumpsTyped DEF CancelEntry, TypeOK
<1>22. ASSUME NEW n \in 0 .. Size, CaptureMatched(n) PROVE TypeOK'
  <2>1. mem' \in Memories
    BY <1>1, <1>2, <1>22 DEF CaptureMatched, TypeOK, Memories
  <2>2. pc' \in Steps /\ task' \in Tasks
    BY <1>1, <1>22, JumpsTyped DEF CaptureMatched
  <2> QED
    BY <1>1, <1>22, <2>1, <2>2 DEF CaptureMatched, TypeOK
<1>23. ASSUME NEW n \in 0 .. Size, Settle(n) PROVE TypeOK'
  <2>1. mem.win \in Windows /\ Above(n, mem.sold) \in Nat
    BY <1>1, <1>2, <1>23, NoneAssumption
       DEF Settle, Memory, Errands, Entering, TypeOK, Memories, Above, Amounts
  <2>2. booked' \in [Windows -> Nat] /\ mem' \in Memories
    BY <1>1, <1>23, <2>1, BookTyped, Flats DEF Settle
  <2> QED
    BY <1>1, <1>23, <2>2 DEF Settle, TypeOK
<1>24. ASSUME NothingToSell PROVE TypeOK'
  BY <1>1, <1>2, <1>24, Flats DEF NothingToSell, TypeOK
<1>25. ASSUME ExitBlocked PROVE TypeOK'
  BY <1>1, <1>2, <1>25, JumpsTyped DEF ExitBlocked, TypeOK
<1>26. ASSUME NEW m \in 0 .. Size, PostExit(m) PROVE TypeOK'
  <2>1. mem' \in Memories
    BY <1>1, <1>26, PostExitPlaces DEF Arrived, TypeOK, Memories
  <2>2. pc' \in Steps /\ task' \in Tasks
    BY <1>1, <1>26, JumpsTyped DEF PostExit, TypeOK
  <2> QED
    BY <1>1, <1>26, <2>1, <2>2 DEF PostExit, TypeOK
<1>27. ASSUME ExitFilled PROVE TypeOK'
  <2>1. mem.exit # None
    BY <1>1, <1>27 DEF ExitFilled, Memory
  <2>2. orders[mem.exit].size \in Nat
    BY <2>1, WorkingExit DEF Amounts
  <2>3. mem' \in Memories /\ booked' \in [Windows -> Nat] /\ pc' \in Steps /\ task' \in Tasks
    BY <1>1, <1>27, <2>1, <2>2, RegisterExitTyped DEF ExitFilled
  <2> QED
    BY <1>1, <1>27, <2>3 DEF ExitFilled, TypeOK
<1>28. ASSUME NEW ok \in BOOLEAN, ExitTimeout(ok) PROVE TypeOK'
  BY <1>1, <1>2, <1>28, JumpsTyped DEF ExitTimeout, TypeOK
<1>29. ASSUME NEW n \in 0 .. Size, RegisterCancelledExit(n) PROVE TypeOK'
  <2>1. mem.exit # None
    BY <1>1, <1>29 DEF RegisterCancelledExit, Memory
  <2>2. mem' \in Memories /\ booked' \in [Windows -> Nat] /\ pc' \in Steps /\ task' \in Tasks
    BY <1>1, <1>2, <1>29, <2>1, RegisterExitTyped DEF RegisterCancelledExit
  <2> QED
    BY <1>1, <1>29, <2>2 DEF RegisterCancelledExit, TypeOK
<1>30. ASSUME CloseRow PROVE TypeOK'
  BY <1>1, <1>2, <1>30, JumpsTyped DEF CloseRow, TypeOK
<1>31. ASSUME Crash PROVE TypeOK'
  BY <1>1, <1>2, <1>31, Flats DEF Crash, TypeOK
<1>32. ASSUME NEW o \in Ids, Fill(o) PROVE TypeOK'
  BY <1>1, <1>2, <1>32 DEF Fill, TypeOK
<1>33. ASSUME NextWindow PROVE TypeOK'
  BY <1>1, <1>2, <1>33, BoundsAssumption DEF NextWindow, TypeOK, Windows
<1>34. ASSUME NEW w \in Windows, CloseBook(w) PROVE TypeOK'
  BY <1>1, <1>2, <1>34 DEF CloseBook, TypeOK
<1>35. ASSUME ToggleKill PROVE TypeOK'
  BY <1>1, <1>2, <1>35 DEF ToggleKill, TypeOK
<1> QED
  BY <1>3, <1>4, <1>5, <1>6, <1>7, <1>8, <1>9, <1>10, <1>11, <1>12, <1>13, <1>14, <1>15, <1>16,
     <1>17, <1>18, <1>19, <1>20, <1>21, <1>22, <1>23, <1>24, <1>25, <1>26, <1>27, <1>28, <1>29,
     <1>30, <1>31, <1>32, <1>33, <1>34, <1>35
     DEF Next, Runner, World, Boot, TickSteps, EntrySteps, CancelSteps, ExitSteps

LEMMA ErrandsStep == Sound /\ Next => Errands'
<1> SUFFICES ASSUME Sound, Next PROVE Errands'
  OBVIOUS
<1> USE DEF Goto, Errands, Entering, Cancelling, Selling, venueVars, ledgerVars
<1>1. TypeOK /\ Errands /\ Memory /\ Placed
  BY DEF Sound
<1>2. ASSUME BootCancelAll PROVE Errands'
  BY <1>1, <1>2 DEF BootCancelAll
<1>3. ASSUME BootFlat PROVE Errands'
  BY <1>1, <1>3 DEF BootFlat
<1>4. ASSUME NEW m \in 1 .. Size, BootAdopt(m) PROVE Errands'
  BY <1>1, <1>4 DEF BootAdopt
<1>5. ASSUME BootRefused PROVE Errands'
  BY <1>1, <1>5 DEF BootRefused
<1>6. ASSUME EnforceKillSwitch PROVE Errands'
  BY <1>1, <1>6 DEF EnforceKillSwitch, TypeOK
<1>7. ASSUME Stop PROVE Errands'
  BY <1>1, <1>7 DEF Stop
<1>8. ASSUME Hold PROVE Errands'
  BY <1>1, <1>8 DEF Hold
<1>9. ASSUME SettleDue PROVE Errands'
  BY <1>1, <1>9 DEF SettleDue, TypeOK
<1>10. ASSUME NEW b \in BOOLEAN, ExitDue(b) PROVE Errands'
  BY <1>1, <1>10 DEF ExitDue, TypeOK
<1>11. ASSUME SkipEntry PROVE Errands'
  BY <1>1, <1>11 DEF SkipEntry
<1>12. ASSUME InsertRow PROVE Errands'
  BY <1>1, <1>12, NoneAssumption DEF InsertRow, Windows
<1>13. ASSUME BlockEntry PROVE Errands'
  BY <1>1, <1>13 DEF BlockEntry
<1>14. ASSUME NEW m \in 0 .. Size, PostEntry(m) PROVE Errands'
  BY <1>1, <1>14 DEF PostEntry
<1>15. ASSUME JournalEntry PROVE Errands'
  BY <1>1, <1>15 DEF JournalEntry
<1>16. ASSUME TrackEntry PROVE Errands'
  BY <1>1, <1>16 DEF TrackEntry
<1>17. ASSUME DeleteRow PROVE Errands'
  BY <1>1, <1>17 DEF DeleteRow
<1>18. ASSUME NEW ok \in BOOLEAN, CancelExit(ok) PROVE Errands'
  BY <1>1, <1>18, ChoiceAssumption DEF CancelExit, ExitOver
<1>19. ASSUME NEW n \in 0 .. Size, RegisterStaleExit(n) PROVE Errands'
  BY <1>1, <1>19 DEF RegisterStaleExit
<1>20. ASSUME NEW ok \in BOOLEAN, CancelEntry(ok) PROVE Errands'
  BY <1>1, <1>20, ChoiceAssumption DEF CancelEntry, AfterCancel, ExitOver
<1>21. ASSUME NEW n \in 0 .. Size, CaptureMatched(n) PROVE Errands'
  BY <1>1, <1>21, ChoiceAssumption DEF CaptureMatched, AfterCancel, ExitOver
<1>22. ASSUME NEW n \in 0 .. Size, Settle(n) PROVE Errands'
  BY <1>1, <1>22 DEF Settle
<1>23. ASSUME NothingToSell PROVE Errands'
  BY <1>1, <1>23 DEF NothingToSell
<1>24. ASSUME ExitBlocked PROVE Errands'
  BY <1>1, <1>24 DEF ExitBlocked, ExitOver
<1>25. ASSUME NEW m \in 0 .. Size, PostExit(m) PROVE Errands'
  BY <1>1, <1>25 DEF PostExit, ExitOver
<1>26. ASSUME ExitFilled PROVE Errands'
  BY <1>1, <1>26 DEF ExitFilled, ExitOver, RegisterExit
<1>27. ASSUME NEW ok \in BOOLEAN, ExitTimeout(ok) PROVE Errands'
  BY <1>1, <1>27 DEF ExitTimeout, ExitOver
<1>28. ASSUME NEW n \in 0 .. Size, RegisterCancelledExit(n) PROVE Errands'
  BY <1>1, <1>28 DEF RegisterCancelledExit, ExitOver, RegisterExit
<1>29. ASSUME CloseRow PROVE Errands'
  BY <1>1, <1>29 DEF CloseRow, ExitOver
<1>30. ASSUME Crash PROVE Errands'
  BY <1>1, <1>30 DEF Crash
<1>31. ASSUME NEW o \in Ids, Fill(o) PROVE Errands'
  BY <1>1, <1>31 DEF Fill
<1>32. ASSUME NextWindow PROVE Errands'
  BY <1>1, <1>32 DEF NextWindow
<1>33. ASSUME NEW w \in Windows, CloseBook(w) PROVE Errands'
  BY <1>1, <1>33 DEF CloseBook
<1>34. ASSUME ToggleKill PROVE Errands'
  BY <1>1, <1>34 DEF ToggleKill
<1> QED
  BY <1>2, <1>3, <1>4, <1>5, <1>6, <1>7, <1>8, <1>9, <1>10, <1>11, <1>12, <1>13, <1>14, <1>15,
     <1>16, <1>17, <1>18, <1>19, <1>20, <1>21, <1>22, <1>23, <1>24, <1>25, <1>26, <1>27, <1>28,
     <1>29, <1>30, <1>31, <1>32, <1>33, <1>34
     DEF Next, Runner, World, Boot, TickSteps, EntrySteps, CancelSteps, ExitSteps

LEMMA RegisterExitRemembered ==
  ASSUME Sound, NEW n, RegisterExit(n, ExitOver), mem.exit # None, task \in {"exit", "flatten"}, row' = row
  PROVE  Memory'
<1>1. /\ mem.open /\ mem.order = None /\ row # None /\ mem.win = row /\ mem.matched # None
  BY WorkingExit, NoneAssumption DEF Amounts, Windows
<1>2. CASE mem' = Flat /\ pc' = "closeRow"
  BY <1>1, <1>2 DEF Memory, Flat, Entering
<1>3. CASE mem' = [mem EXCEPT !.exit = None, !.sold = @ + n] /\ ExitOver
  <2>1. /\ mem'.open /\ mem'.win = row /\ mem'.order = None /\ mem'.matched # None
        /\ mem'.exit = None
    BY <1>1, <1>3 DEF Sound, TypeOK, Memories
  <2> QED
    BY <1>1, <1>3, <2>1 DEF Memory, Entering, ExitOver, Goto
<1> QED
  BY <1>2, <1>3 DEF RegisterExit, Goto

LEMMA MemoryStep == Sound /\ Next => Memory'
<1> SUFFICES ASSUME Sound, Next PROVE Memory'
  OBVIOUS
<1> USE DEF Goto, venueVars, ledgerVars
<1>1. TypeOK /\ Errands /\ Memory /\ Placed
  BY DEF Sound
<1>2. ASSUME BootCancelAll PROVE Memory'
  BY <1>1, <1>2 DEF BootCancelAll, Memory, Errands, Entering, Cancelling, Selling, Flat
<1>3. ASSUME BootFlat PROVE Memory'
  BY <1>1, <1>3 DEF BootFlat, Memory, Errands, Entering, Cancelling, Selling
<1>4. ASSUME NEW m \in 1 .. Size, BootAdopt(m) PROVE Memory'
  BY <1>1, <1>4, NoneAssumption, BoundsAssumption
     DEF BootAdopt, Memory, Errands, Entering, Cancelling, Selling, Flat
<1>5. ASSUME BootRefused PROVE Memory'
  BY <1>1, <1>5 DEF BootRefused, Memory, Errands, Entering, Cancelling, Selling
<1>6. ASSUME EnforceKillSwitch PROVE Memory'
  BY <1>1, <1>6 DEF EnforceKillSwitch, Memory, Errands, Entering, Cancelling, Selling
<1>7. ASSUME Stop PROVE Memory'
  BY <1>1, <1>7 DEF Stop, Memory, Errands, Entering, Cancelling, Selling
<1>8. ASSUME Hold PROVE Memory'
  BY <1>1, <1>8 DEF Hold, Memory, Errands, Entering, Cancelling, Selling
<1>9. ASSUME SettleDue PROVE Memory'
  BY <1>1, <1>9 DEF SettleDue, Memory, Errands, Entering, Cancelling, Selling
<1>10. ASSUME NEW b \in BOOLEAN, ExitDue(b) PROVE Memory'
  BY <1>1, <1>10 DEF ExitDue, Memory, Errands, Entering, Cancelling, Selling
<1>11. ASSUME SkipEntry PROVE Memory'
  BY <1>1, <1>11 DEF SkipEntry, Memory, Errands, Entering, Cancelling, Selling
<1>12. ASSUME InsertRow PROVE Memory'
  BY <1>1, <1>12 DEF InsertRow, Memory, Errands, Entering, Cancelling, Selling, Flat, ResyncFlat
<1>13. ASSUME BlockEntry PROVE Memory'
  BY <1>1, <1>13 DEF BlockEntry, Memory, Errands, Entering, Cancelling, Selling
<1>14. ASSUME NEW m \in 0 .. Size, PostEntry(m) PROVE Memory'
  BY <1>1, <1>14 DEF PostEntry, Memory, Errands, Entering, Cancelling, Selling
<1>15. ASSUME JournalEntry PROVE Memory'
  BY <1>1, <1>15 DEF JournalEntry, Memory, Errands, Entering, Cancelling, Selling
<1>16. ASSUME TrackEntry PROVE Memory'
  BY <1>1, <1>16, NoneAssumption, BoundsAssumption
     DEF TrackEntry, Memory, Errands, Entering, Cancelling, Selling, Placed, Flat, TypeOK, Resps,
         Amounts
<1>17. ASSUME DeleteRow PROVE Memory'
  BY <1>1, <1>17 DEF DeleteRow, Memory, Errands, Entering, Cancelling, Selling
<1>18. ASSUME NEW ok \in BOOLEAN, CancelExit(ok) PROVE Memory'
  BY <1>1, <1>18 DEF CancelExit, Memory, Errands, Entering, Cancelling, Selling, ExitOver
<1>19. ASSUME NEW n \in 0 .. Size, RegisterStaleExit(n) PROVE Memory'
  BY <1>1, <1>19 DEF RegisterStaleExit, Memory, Errands, Entering, Cancelling, Selling, Flat
<1>20. ASSUME NEW ok \in BOOLEAN, CancelEntry(ok) PROVE Memory'
  BY <1>1, <1>20
     DEF CancelEntry, Memory, Errands, Entering, Cancelling, Selling, AfterCancel, ExitOver
<1>21. ASSUME NEW n \in 0 .. Size, CaptureMatched(n) PROVE Memory'
  BY <1>1, <1>21, NoneAssumption, BoundsAssumption
     DEF CaptureMatched, Memory, Errands, Entering, Cancelling, Selling, AfterCancel, ExitOver,
         Flat, TypeOK, Memories, Amounts
<1>22. ASSUME NEW n \in 0 .. Size, Settle(n) PROVE Memory'
  BY <1>1, <1>22 DEF Settle, Memory, Errands, Entering, Cancelling, Selling, Flat
<1>23. ASSUME NothingToSell PROVE Memory'
  BY <1>1, <1>23 DEF NothingToSell, Memory, Errands, Entering, Cancelling, Selling, Flat
<1>24. ASSUME ExitBlocked PROVE Memory'
  BY <1>1, <1>24 DEF ExitBlocked, Memory, Errands, Entering, Cancelling, Selling, ExitOver
<1>25. ASSUME NEW m \in 0 .. Size, PostExit(m) PROVE Memory'
  <2>1. /\ mem.order = None /\ mem.exit = None /\ pc = "sell" /\ task \in {"exit", "flatten"}
        /\ row # None /\ mem.open /\ mem.win = row /\ mem.matched # None /\ row' = row
    BY <1>1, <1>25 DEF PostExit, Memory, Errands, Entering, Cancelling, Selling
  <2>2. CASE mem' = mem /\ ExitOver
    BY <1>1, <2>1, <2>2 DEF Memory, ExitOver, Entering
  <2>3. CASE Fresh \in Ids /\ mem' = [mem EXCEPT !.exit = Fresh] /\ pc' = "await"
    <3>1. /\ mem'.open /\ mem'.win = row /\ mem'.order = None /\ mem'.matched # None
          /\ mem'.exit # None
      BY <1>1, <2>1, <2>3, NoneAssumption DEF TypeOK, Memories, Ids
    <3> QED
      BY <2>1, <2>3, <3>1 DEF Memory, Entering
  <2> QED
    BY <1>25, <2>2, <2>3, PostExitPlaces DEF Arrived
<1>26. ASSUME ExitFilled PROVE Memory'
  <2>1. mem.exit # None /\ task \in {"exit", "flatten"} /\ row' = row
    BY <1>1, <1>26 DEF ExitFilled, Memory, Errands, Selling
  <2> QED
    BY <1>26, <2>1, RegisterExitRemembered DEF ExitFilled
<1>27. ASSUME NEW ok \in BOOLEAN, ExitTimeout(ok) PROVE Memory'
  BY <1>1, <1>27 DEF ExitTimeout, Memory, Errands, Entering, Cancelling, Selling, ExitOver
<1>28. ASSUME NEW n \in 0 .. Size, RegisterCancelledExit(n) PROVE Memory'
  <2>1. mem.exit # None /\ task \in {"exit", "flatten"} /\ row' = row
    BY <1>1, <1>28 DEF RegisterCancelledExit, Memory, Errands, Selling
  <2> QED
    BY <1>28, <2>1, RegisterExitRemembered DEF RegisterCancelledExit
<1>29. ASSUME CloseRow PROVE Memory'
  BY <1>1, <1>29 DEF CloseRow, Memory, Errands, Entering, Cancelling, Selling, ExitOver
<1>30. ASSUME Crash PROVE Memory'
  BY <1>1, <1>30 DEF Crash, Memory, Errands, Entering, Cancelling, Selling, Flat
<1>31. ASSUME NEW o \in Ids, Fill(o) PROVE Memory'
  BY <1>1, <1>31 DEF Fill, Memory, Errands, Entering, Cancelling, Selling
<1>32. ASSUME NextWindow PROVE Memory'
  BY <1>1, <1>32 DEF NextWindow, Memory, Errands, Entering, Cancelling, Selling
<1>33. ASSUME NEW w \in Windows, CloseBook(w) PROVE Memory'
  BY <1>1, <1>33 DEF CloseBook, Memory, Errands, Entering, Cancelling, Selling
<1>34. ASSUME ToggleKill PROVE Memory'
  BY <1>1, <1>34 DEF ToggleKill, Memory, Errands, Entering, Cancelling, Selling
<1> QED
  BY <1>2, <1>3, <1>4, <1>5, <1>6, <1>7, <1>8, <1>9, <1>10, <1>11, <1>12, <1>13, <1>14, <1>15,
     <1>16, <1>17, <1>18, <1>19, <1>20, <1>21, <1>22, <1>23, <1>24, <1>25, <1>26, <1>27, <1>28,
     <1>29, <1>30, <1>31, <1>32, <1>33, <1>34
     DEF Next, Runner, World, Boot, TickSteps, EntrySteps, CancelSteps, ExitSteps

\* What identifies an order never changes, and what it matched never shrinks.
Kept(o) ==
  /\ orders'[o].side = orders[o].side /\ orders'[o].win = orders[o].win
  /\ orders'[o].size = orders[o].size /\ orders'[o].known = orders[o].known
  /\ orders[o].matched <= orders'[o].matched
  /\ orders'[o].live => orders[o].live

LEMMA OrdersKept ==
  ASSUME Sound, Next, NEW o \in Ids, orders[o].side # "none"
  PROVE  Kept(o) /\ {orders[o].matched, orders'[o].matched, orders[o].size} \subseteq Nat
<1>1. orders[o] \in Orders /\ orders'[o] \in Orders
  BY VenueTyped DEF Sound, TypeOK
<1>2. {orders[o].matched, orders'[o].matched, orders[o].size} \subseteq Nat
  BY <1>1, BoundsAssumption DEF Orders, Amounts
<1>3. orders'[o] = orders[o] => Kept(o)
  BY <1>2 DEF Kept
<1>4. CASE Unmoved
  BY <1>2, <1>3, <1>4 DEF Unmoved, venueVars
<1>5. CASE Withdraws
  BY <1>2, <1>5 DEF Withdraws, Withdrawn, Kept
<1>6. CASE Places
  BY <1>2, <1>3, <1>6 DEF Places, Arrived
<1>7. CASE Fills
  <2>1. PICK p \in Ids : orders[p].live /\ Filled(p)
    BY <1>7 DEF Fills
  <2>2. CASE p = o
    BY <1>2, <2>1, <2>2 DEF Filled, Kept
  <2>3. CASE p # o
    BY <1>2, <1>3, <2>1, <2>3 DEF Filled
  <2> QED
    BY <2>2, <2>3
<1> QED
  BY <1>2, <1>4, <1>5, <1>6, <1>7, VenueMoves

\* A step that tracks nothing new leaves what is tracked as it was.
LEMMA PlacedKept ==
  ASSUME Sound, Next, mem'.order \in {mem.order, None}, mem'.exit \in {mem.exit, None},
         mem'.order # None => mem'.win = mem.win,
         mem'.exit # None => mem'.win = mem.win /\ mem'.sold = mem.sold /\ mem'.matched = mem.matched,
         pc' \in {"journal", "track"} => pc \in {"journal", "track"} /\ resp' = resp /\ row' = row
  PROVE  Placed'
<1>1. ASSUME mem'.order # None PROVE orders'[mem'.order].side = "buy" /\ orders'[mem'.order].win = mem'.win
  BY <1>1, OrdersKept DEF Sound, TypeOK, Memories, Placed, Kept
<1>2. ASSUME mem'.exit # None
      PROVE  /\ orders'[mem'.exit].side = "sell" /\ orders'[mem'.exit].win = mem'.win
             /\ mem'.sold + orders'[mem'.exit].size <= mem'.matched
  BY <1>2, OrdersKept DEF Sound, TypeOK, Memories, Placed, Kept
<1>3. ASSUME pc' \in {"journal", "track"}
      PROVE  /\ resp'.order # None
             /\ orders'[resp'.order].side = "buy" /\ orders'[resp'.order].win = row'
             /\ orders'[resp'.order].size = Size /\ resp'.filled <= orders'[resp'.order].matched
  <2>1. /\ resp.order \in Ids /\ orders[resp.order].side = "buy" /\ orders[resp.order].win = row
        /\ orders[resp.order].size = Size /\ resp.filled <= orders[resp.order].matched /\ resp.filled \in Nat
    BY <1>3, BoundsAssumption DEF Sound, TypeOK, Resps, Placed, Amounts
  <2> QED
    BY <1>3, <2>1, NoneAssumption, OrdersKept DEF Ids, Kept
<1> QED
  BY <1>1, <1>2, <1>3 DEF Placed

LEMMA PlacedStep == Sound /\ Next => Placed'
<1> SUFFICES ASSUME Sound, Next PROVE Placed'
  OBVIOUS
<1> USE DEF Goto, venueVars, ledgerVars
<1>1. TypeOK /\ Errands /\ Memory /\ Placed
  BY DEF Sound
<1>2. ASSUME BootCancelAll PROVE Placed'
  BY <1>1, PlacedKept, <1>2 DEF BootCancelAll, Flat
<1>3. ASSUME BootFlat PROVE Placed'
  BY <1>1, PlacedKept, <1>3 DEF BootFlat
<1>4. ASSUME NEW m \in 1 .. Size, BootAdopt(m) PROVE Placed'
  BY <1>1, PlacedKept, <1>4 DEF BootAdopt, Flat
<1>5. ASSUME BootRefused PROVE Placed'
  BY <1>1, PlacedKept, <1>5 DEF BootRefused
<1>6. ASSUME EnforceKillSwitch PROVE Placed'
  BY <1>1, PlacedKept, <1>6 DEF EnforceKillSwitch
<1>7. ASSUME Stop PROVE Placed'
  BY <1>1, PlacedKept, <1>7 DEF Stop
<1>8. ASSUME Hold PROVE Placed'
  BY <1>1, PlacedKept, <1>8 DEF Hold
<1>9. ASSUME SettleDue PROVE Placed'
  BY <1>1, PlacedKept, <1>9 DEF SettleDue
<1>10. ASSUME NEW b \in BOOLEAN, ExitDue(b) PROVE Placed'
  BY <1>1, PlacedKept, <1>10 DEF ExitDue
<1>11. ASSUME SkipEntry PROVE Placed'
  BY <1>1, PlacedKept, <1>11 DEF SkipEntry
<1>12. ASSUME InsertRow PROVE Placed'
  BY <1>1, PlacedKept, <1>12 DEF InsertRow, Flat, ResyncFlat
<1>13. ASSUME BlockEntry PROVE Placed'
  BY <1>1, PlacedKept, <1>13 DEF BlockEntry
<1>14. ASSUME NEW m \in 0 .. Size, PostEntry(m) PROVE Placed'
  <2>1. mem' = mem /\ mem.order = None /\ mem.exit = None /\ row' = row
    BY <1>1, <1>14 DEF PostEntry, Memory, Entering, Flat
  <2>2. CASE /\ Arrived(Fresh, "buy", row, Size, m, TRUE) /\ pc' = "journal"
             /\ resp' = [order |-> Fresh, filled |-> m]
    <3>1. /\ resp'.order = Fresh /\ resp'.filled = m /\ Fresh # None /\ orders'[Fresh].side = "buy"
          /\ orders'[Fresh].win = row /\ orders'[Fresh].size = Size /\ orders'[Fresh].matched = m
      BY <2>2, NoneAssumption DEF Arrived, Ids
    <3>2. m <= m
      BY BoundsAssumption
    <3> QED
      BY <2>1, <3>1, <3>2 DEF Placed
  <2>3. CASE pc' = "delete"
    BY <2>1, <2>3 DEF Placed
  <2> QED
    BY <1>14, <2>2, <2>3, PostEntryPlaces
<1>15. ASSUME JournalEntry PROVE Placed'
  BY <1>1, PlacedKept, <1>15 DEF JournalEntry
<1>16. ASSUME TrackEntry PROVE Placed'
  <2>1. /\ mem' = [Flat EXCEPT !.open = TRUE, !.win = row,
                     !.matched = IF resp.filled >= Size THEN resp.filled ELSE None,
                     !.order = IF resp.filled >= Size THEN None ELSE resp.order]
        /\ pc' = "idle" /\ orders' = orders
    BY <1>16 DEF TrackEntry
  <2>2. mem'.win = row /\ mem'.exit = None /\ mem'.order \in {None, resp.order}
    BY <2>1 DEF Flat
  <2> QED
    BY <1>1, <1>16, <2>1, <2>2 DEF Placed, TrackEntry
<1>17. ASSUME DeleteRow PROVE Placed'
  BY <1>1, PlacedKept, <1>17 DEF DeleteRow
<1>18. ASSUME NEW ok \in BOOLEAN, CancelExit(ok) PROVE Placed'
  BY <1>1, PlacedKept, <1>18 DEF CancelExit, ExitOver
<1>19. ASSUME NEW n \in 0 .. Size, RegisterStaleExit(n) PROVE Placed'
  BY <1>1, PlacedKept, <1>19 DEF RegisterStaleExit, TypeOK, Memories
<1>20. ASSUME NEW ok \in BOOLEAN, CancelEntry(ok) PROVE Placed'
  BY <1>1, PlacedKept, <1>20 DEF CancelEntry, AfterCancel, ExitOver
<1>21. ASSUME NEW n \in 0 .. Size, CaptureMatched(n) PROVE Placed'
  <2>1. /\ mem'.order = None /\ mem'.win = mem.win /\ mem'.exit = mem.exit
        /\ mem.exit = None /\ pc' \notin {"journal", "track"}
    BY <1>1, <1>21 DEF CaptureMatched, Memory, TypeOK, Memories, AfterCancel
  <2> QED
    BY <2>1, PlacedKept
<1>22. ASSUME NEW n \in 0 .. Size, Settle(n) PROVE Placed'
  BY <1>1, PlacedKept, <1>22 DEF Settle, Flat
<1>23. ASSUME NothingToSell PROVE Placed'
  BY <1>1, PlacedKept, <1>23 DEF NothingToSell, Flat
<1>24. ASSUME ExitBlocked PROVE Placed'
  BY <1>1, PlacedKept, <1>24 DEF ExitBlocked, ExitOver
<1>25. ASSUME NEW m \in 0 .. Size, PostExit(m) PROVE Placed'
  <2>1. mem.order = None /\ mem.exit = None /\ pc = "sell"
    BY <1>1, <1>25 DEF PostExit, Memory
  <2>2. CASE mem' = mem /\ ExitOver
    BY <2>1, <2>2, PlacedKept DEF ExitOver
  <2>3. CASE Arrived(Fresh, "sell", mem.win, Remaining, m, TRUE) /\ pc' = "await" /\ mem' = [mem EXCEPT !.exit = Fresh]
    <3>1. /\ mem'.order = None /\ mem'.exit = Fresh /\ mem'.win = mem.win /\ mem'.sold = mem.sold
          /\ mem'.matched = mem.matched
      BY <1>1, <2>1, <2>3 DEF TypeOK, Memories
    <3>2. mem.open /\ mem.matched # None
      BY <1>1, <2>1 DEF Memory, Errands, Entering, Selling
    <3>3. mem.sold + Remaining <= mem.matched
      BY <1>1, <1>25, <3>2, BoundsAssumption
         DEF PostExit, Remaining, Above, Num, TypeOK, Memories, Amounts
    <3>4. orders'[Fresh].side = "sell" /\ orders'[Fresh].win = mem.win /\ orders'[Fresh].size = Remaining
      BY <2>3 DEF Arrived
    <3> QED
      BY <2>3, <3>1, <3>3, <3>4 DEF Placed
  <2> QED
    BY <1>25, <2>2, <2>3, PostExitPlaces
<1>26. ASSUME ExitFilled PROVE Placed'
  <2>1. PICK k : RegisterExit(k, ExitOver)
    BY <1>26 DEF ExitFilled
  <2>2. CASE mem' = Flat /\ pc' = "closeRow"
    BY <2>2, PlacedKept DEF Flat
  <2>3. CASE mem' = [mem EXCEPT !.exit = None, !.sold = @ + k] /\ ExitOver
    <3>1. mem'.exit = None /\ mem'.order = mem.order /\ mem'.win = mem.win
      BY <1>1, <2>3 DEF TypeOK, Memories
    <3> QED
      BY <2>3, <3>1, PlacedKept DEF ExitOver
  <2> QED
    BY <2>1, <2>2, <2>3 DEF RegisterExit
<1>27. ASSUME NEW ok \in BOOLEAN, ExitTimeout(ok) PROVE Placed'
  BY <1>1, PlacedKept, <1>27 DEF ExitTimeout, ExitOver
<1>28. ASSUME NEW n \in 0 .. Size, RegisterCancelledExit(n) PROVE Placed'
  <2>1. PICK k : RegisterExit(k, ExitOver)
    BY <1>28 DEF RegisterCancelledExit
  <2>2. CASE mem' = Flat /\ pc' = "closeRow"
    BY <2>2, PlacedKept DEF Flat
  <2>3. CASE mem' = [mem EXCEPT !.exit = None, !.sold = @ + k] /\ ExitOver
    <3>1. mem'.exit = None /\ mem'.order = mem.order /\ mem'.win = mem.win
      BY <1>1, <2>3 DEF TypeOK, Memories
    <3> QED
      BY <2>3, <3>1, PlacedKept DEF ExitOver
  <2> QED
    BY <2>1, <2>2, <2>3 DEF RegisterExit
<1>29. ASSUME CloseRow PROVE Placed'
  BY <1>1, PlacedKept, <1>29 DEF CloseRow, ExitOver
<1>30. ASSUME Crash PROVE Placed'
  BY <1>1, PlacedKept, <1>30 DEF Crash, Flat
<1>31. ASSUME NEW o \in Ids, Fill(o) PROVE Placed'
  BY <1>1, PlacedKept, <1>31 DEF Fill
<1>32. ASSUME NextWindow PROVE Placed'
  BY <1>1, PlacedKept, <1>32 DEF NextWindow
<1>33. ASSUME NEW w \in Windows, CloseBook(w) PROVE Placed'
  BY <1>1, PlacedKept, <1>33 DEF CloseBook
<1>34. ASSUME ToggleKill PROVE Placed'
  BY <1>1, PlacedKept, <1>34 DEF ToggleKill
<1> QED
  BY <1>2, <1>3, <1>4, <1>5, <1>6, <1>7, <1>8, <1>9, <1>10, <1>11, <1>12, <1>13, <1>14, <1>15,
     <1>16, <1>17, <1>18, <1>19, <1>20, <1>21, <1>22, <1>23, <1>24, <1>25, <1>26, <1>27, <1>28,
     <1>29, <1>30, <1>31, <1>32, <1>33, <1>34
     DEF Next, Runner, World, Boot, TickSteps, EntrySteps, CancelSteps, ExitSteps

LEMMA SoundStep == Sound /\ [Next]_vars => Sound'
<1>1. CASE Next
  BY <1>1, TypeStep, ExchangeStep, ErrandsStep, MemoryStep, PlacedStep DEF Sound
<1>2. CASE UNCHANGED vars
  BY <1>2 DEF Sound, TypeOK, Exchange, Errands, Memory, Placed, vars, venueVars, ledgerVars
<1> QED
  BY <1>1, <1>2

LEMMA SoundInit == Init => Sound
<1> SUFFICES ASSUME Init PROVE Sound
  OBVIOUS
<1>1. TypeOK
  <2>1. NoOrder \in Orders
    BY BoundsAssumption DEF NoOrder, Orders, Amounts
  <2>2. orders \in [Ids -> Orders] /\ journal \in [Windows -> Resps]
    BY <2>1, Flats DEF Init
  <2>3. /\ tokens \in [Windows -> Nat] /\ bought \in [Windows -> Nat] /\ booked \in [Windows -> Nat]
        /\ win \in Windows
    BY BoundsAssumption DEF Init, Windows
  <2> QED
    BY <2>2, <2>3, Flats DEF Init, TypeOK, Steps, Tasks
<1>2. Exchange /\ Errands /\ Memory /\ Placed
  BY <1>1 DEF Init, NoOrder, Flat, Exchange, Errands, Memory, Placed, Entering, Cancelling, Selling
<1> QED
  BY <1>1, <1>2 DEF Sound

\* Whatever fails and wherever the process dies, every variable stays in its range:
\* no order fills beyond its size, and the shares the executor believes matched and
\* sold never leave the clip they belong to (live.py:1044-1143, 1215-1300).
THEOREM TypeCorrect == Spec => []TypeOK
<1>1. Sound => TypeOK
  BY DEF Sound
<1> QED
  BY SoundInit, SoundStep, <1>1, PTL DEF Spec

-----------------------------------------------------------------------------
(* What is booked was sold, when positions are sold before resolution.     *)

\* What the working exit has sold and nobody has booked yet.
Pending(w) == IF mem.exit # None /\ mem.win = w THEN orders[mem.exit].matched ELSE 0

\* Shares booked, shares sold and not booked, and shares still held were bought.
Covered == \A w \in Windows : booked[w] + Pending(w) + tokens[w] <= bought[w]

LEMMA PendingNat == ASSUME Sound, NEW w \in Windows PROVE Pending(w) \in Nat
  BY WorkingExit, BoundsAssumption DEF Pending, Amounts

LEMMA Counts ==
  ASSUME Sound, NEW w \in Windows PROVE {booked[w], tokens[w], bought[w]} \subseteq Nat
  BY DEF Sound, TypeOK

\* Nothing is booked, bought or sold, and no new exit works.
LEMMA CoveredKept ==
  ASSUME Sound, Covered, Unmoved \/ Withdraws, booked' = booked,
         mem'.exit # None => mem'.exit = mem.exit /\ mem'.win = mem.win
  PROVE  Covered'
<1>1. tokens' = tokens /\ bought' = bought
  BY DEF Unmoved, Withdraws, venueVars
<1>2. ASSUME NEW w \in Windows PROVE Pending(w)' <= Pending(w)
  <2>1. \A o \in Ids : orders'[o].matched = orders[o].matched
    BY DEF Unmoved, venueVars, Withdraws, Withdrawn
  <2> QED
    BY <2>1, WorkingExit, PendingNat DEF Pending
<1>3. ASSUME NEW w \in Windows PROVE (booked[w] + Pending(w) + tokens[w] <= bought[w])'
  <2>1. Pending(w)' \in Int
    BY <1>1, WorkingExit, BoundsAssumption
       DEF Pending, Amounts, Unmoved, venueVars, Withdraws, Withdrawn
  <2> QED
    BY <1>1, <1>2, <2>1, PendingNat, Counts DEF Covered
<1> QED
  BY <1>3 DEF Covered

\* The fill of an exit is booked, and the exit does not work any more.
LEMMA CoveredBooked ==
  ASSUME Sound, Covered, mem.exit # None, NEW n \in Nat, n <= orders[mem.exit].matched,
         Book(n), Unmoved, mem'.exit = None
  PROVE  Covered'
<1>1. mem.win \in Windows /\ Pending(mem.win) = orders[mem.exit].matched /\ orders[mem.exit].matched \in Nat
  BY WorkingExit, BoundsAssumption DEF Pending, Amounts
<1>2. booked'[mem.win] \in Int /\ booked'[mem.win] <= booked[mem.win] + n
  BY <1>1, BoundsAssumption DEF Book, MaxBooked, Sound, TypeOK
<1>3. \A w \in Windows : w # mem.win => booked'[w] = booked[w]
  BY DEF Book, Sound, TypeOK
<1>4. ASSUME NEW w \in Windows PROVE (booked[w] + Pending(w) + tokens[w] <= bought[w])'
  <2>1. Pending(w)' = 0 /\ tokens' = tokens /\ bought' = bought
    BY DEF Pending, Unmoved, venueVars
  <2>2. CASE w = mem.win
    BY <1>1, <1>2, <2>1, <2>2, Counts DEF Covered
  <2>3. CASE w # mem.win
    BY <1>3, <2>1, <2>3, PendingNat, Counts DEF Covered
  <2> QED
    BY <2>2, <2>3
<1> QED
  BY <1>4 DEF Covered

LEMMA CoveredStep == ASSUME Style = "scalp", Sound, Covered, Next PROVE Covered'
<1>1. TypeOK /\ Errands /\ Memory /\ Placed
  BY DEF Sound
<1>2. CASE Boot
  <2>1. Unmoved \/ Withdraws
    BY <1>2, BootMoves
  <2>2. booked' = booked /\ (mem'.exit # None => mem' = mem)
    <3>1. CASE BootCancelAll \/ BootFlat \/ BootRefused
      BY <3>1 DEF BootCancelAll, BootFlat, BootRefused, Flat
    <3>2. ASSUME NEW m \in 1 .. Size, BootAdopt(m) PROVE booked' = booked /\ mem'.exit = None
      BY <3>2 DEF BootAdopt, Flat
    <3> QED
      BY <1>2, <3>1, <3>2 DEF Boot
  <2> QED
    BY <2>1, <2>2, CoveredKept
<1>3. CASE TickSteps \/ Crash \/ NextWindow \/ ToggleKill
  <2>1. Unmoved /\ booked' = booked /\ (mem'.exit # None => mem' = mem)
    <3>1. CASE TickSteps
      BY <3>1 DEF TickSteps, EnforceKillSwitch, Stop, Hold, SettleDue, ExitDue, Unmoved
    <3>2. CASE Crash \/ NextWindow \/ ToggleKill
      BY <3>2 DEF Crash, NextWindow, ToggleKill, Unmoved, Flat
    <3> QED
      BY <1>3, <3>1, <3>2
  <2> QED
    BY <2>1, CoveredKept
<1>4. CASE SkipEntry \/ InsertRow \/ BlockEntry \/ JournalEntry \/ TrackEntry \/ DeleteRow
  <2>1. Unmoved /\ booked' = booked /\ (mem'.exit # None => mem' = mem)
    <3>1. CASE TrackEntry
      BY <3>1 DEF TrackEntry, Unmoved, Flat
    <3> QED
      BY <1>4, <3>1
         DEF SkipEntry, InsertRow, BlockEntry, JournalEntry, DeleteRow, ResyncFlat, Unmoved, Flat
  <2> QED
    BY <2>1, CoveredKept
<1>5. ASSUME NEW m \in 0 .. Size, PostEntry(m) PROVE Covered'
  <2>1. mem' = mem /\ mem.exit = None /\ booked' = booked
    BY <1>1, <1>5 DEF PostEntry, Memory, Entering, Flat
  <2>2. PICK known \in BOOLEAN : Arrived(Fresh, "buy", row, Size, m, known)
    BY <1>5, PostEntryPlaces
  <2>3. m \in Nat
    BY <1>5, BoundsAssumption
  <2>4. \A w \in Windows : tokens'[w] - tokens[w] = bought'[w] - bought[w] /\ tokens'[w] \in Int /\ bought'[w] \in Int
    BY <2>2, <2>3, Counts DEF Arrived
  <2> QED
    BY <2>1, <2>4, Counts DEF Covered, Pending
<1>6. CASE CancelSteps
  <2>1. Unmoved \/ Withdraws
    BY <1>6, CancelMoves
  <2>2. ASSUME NEW ok \in BOOLEAN, CancelExit(ok) \/ CancelEntry(ok) PROVE booked' = booked /\ mem' = mem
    BY <2>2 DEF CancelExit, CancelEntry
  <2>3. ASSUME NEW n \in 0 .. Size, CaptureMatched(n)
        PROVE  booked' = booked /\ mem'.exit = mem.exit /\ mem'.win = mem.win
    BY <1>1, <2>3 DEF CaptureMatched, TypeOK, Memories
  <2>4. ASSUME NEW n \in 0 .. Size, RegisterStaleExit(n) PROVE Covered'
    <3>1. mem.exit # None /\ n \in Nat /\ mem'.exit = None /\ Book(n) /\ Unmoved
      BY <1>1, <2>4, BoundsAssumption DEF RegisterStaleExit, Memory, TypeOK, Memories, Unmoved
    <3>2. n <= orders[mem.exit].matched
      BY <2>4, <3>1, WorkingExit, BoundsAssumption DEF RegisterStaleExit, Looked, Amounts
    <3> QED
      BY <3>1, <3>2, CoveredBooked
  <2> QED
    BY <1>6, <2>1, <2>2, <2>3, <2>4, CoveredKept DEF CancelSteps
<1>7. CASE NothingToSell \/ ExitBlocked \/ CloseRow
  <2>1. Unmoved /\ booked' = booked /\ (mem'.exit # None => mem' = mem)
    BY <1>7 DEF NothingToSell, ExitBlocked, CloseRow, Unmoved, Flat
  <2> QED
    BY <2>1, CoveredKept
<1>8. ASSUME NEW n \in 0 .. Size, Settle(n) PROVE Covered'
  BY <1>1, <1>8 DEF Settle, Errands
<1>9. ASSUME NEW ok \in BOOLEAN, ExitTimeout(ok) PROVE Covered'
  BY <1>9, ExitTimeoutMoves, CoveredKept DEF ExitTimeout
<1>10. ASSUME NEW m \in 0 .. Size, PostExit(m) PROVE Covered'
  <2>1. mem.exit = None /\ booked' = booked /\ mem.win \in Windows
    BY <1>1, <1>10, PostExitPlaces DEF PostExit, Memory, TypeOK
  <2>2. PICK known \in BOOLEAN : Arrived(Fresh, "sell", mem.win, Remaining, m, known)
    BY <1>10, PostExitPlaces
  <2>3. m \in Nat /\ (mem'.exit # None => mem'.exit = Fresh /\ mem'.win = mem.win)
    <3>1. mem' = mem \/ mem' = [mem EXCEPT !.exit = Fresh]
      BY <1>10 DEF PostExit
    <3> QED
      BY <1>1, <1>10, <2>1, <3>1, BoundsAssumption DEF TypeOK, Memories
  <2>4. /\ orders'[Fresh].matched = m /\ tokens'[mem.win] = tokens[mem.win] - m
        /\ \A w \in Windows : bought'[w] = bought[w] /\ (w # mem.win => tokens'[w] = tokens[w])
    BY <2>2 DEF Arrived
  <2>5. ASSUME NEW w \in Windows PROVE (booked[w] + Pending(w) + tokens[w] <= bought[w])'
    <3>1. CASE w = mem.win
      BY <2>1, <2>3, <2>4, <3>1, Counts DEF Covered, Pending
    <3>2. CASE w # mem.win
      BY <2>1, <2>3, <2>4, <3>2, Counts DEF Covered, Pending
    <3> QED
      BY <3>1, <3>2
  <2> QED
    BY <2>5 DEF Covered
<1>11. CASE ExitFilled
  <2>1. mem.exit # None /\ orders[mem.exit].size = orders[mem.exit].matched /\ Unmoved
    BY <1>1, <1>11 DEF ExitFilled, WholeSizeMatched, Memory, Unmoved
  <2>2. orders[mem.exit].size \in Nat /\ orders[mem.exit].size <= orders[mem.exit].matched
    BY <2>1, WorkingExit, BoundsAssumption DEF Amounts
  <2>3. Book(orders[mem.exit].size) /\ (mem' = Flat \/ mem' = [mem EXCEPT !.exit = None, !.sold = @ + orders[mem.exit].size])
    BY <1>11 DEF ExitFilled, RegisterExit
  <2>4. mem'.exit = None
    <3>1. CASE mem' = Flat
      BY <3>1 DEF Flat
    <3>2. CASE mem' # Flat
      BY <1>1, <2>3, <3>2 DEF TypeOK, Memories
    <3> QED
      BY <3>1, <3>2
  <2> QED
    BY <2>1, <2>2, <2>3, <2>4, CoveredBooked
<1>12. ASSUME NEW n \in 0 .. Size, RegisterCancelledExit(n) PROVE Covered'
  <2>1. mem.exit # None /\ Unmoved /\ n \in Nat
    BY <1>1, <1>12, BoundsAssumption DEF RegisterCancelledExit, Memory, Unmoved
  <2>2. n <= orders[mem.exit].matched
    BY <1>12, <2>1, WorkingExit, BoundsAssumption DEF RegisterCancelledExit, Looked, Amounts
  <2>3. Book(n) /\ (mem' = Flat \/ mem' = [mem EXCEPT !.exit = None, !.sold = @ + n])
    BY <1>12 DEF RegisterCancelledExit, RegisterExit
  <2>4. mem'.exit = None
    <3>1. CASE mem' = Flat
      BY <3>1 DEF Flat
    <3>2. CASE mem' # Flat
      BY <1>1, <2>3, <3>2 DEF TypeOK, Memories
    <3> QED
      BY <3>1, <3>2
  <2> QED
    BY <2>1, <2>2, <2>3, <2>4, CoveredBooked
<1>13. ASSUME NEW o \in Ids, Fill(o) PROVE Covered'
  <2>1. Filled(o) /\ orders[o].win \in Windows /\ orders[o].live /\ orders[o].side \in {"buy", "sell"}
    BY <1>1, <1>13, FillFills DEF Fill, Sound, TypeOK, Exchange, Orders
  <2>2. booked' = booked /\ mem' = mem
    BY <1>13 DEF Fill
  <2>3. \A w \in Windows : tokens'[w] \in Int /\ bought'[w] \in Int
    BY <2>1 DEF Filled
  <2>4. orders[o].matched \in Int
    BY <1>1, BoundsAssumption DEF TypeOK, Orders, Amounts
  <2>5. ASSUME NEW w \in Windows PROVE (booked[w] + Pending(w) + tokens[w] <= bought[w])'
    <3>1. CASE orders[o].side = "buy"
      <4>1. Pending(w)' = Pending(w) /\ tokens'[w] - tokens[w] = bought'[w] - bought[w]
        BY <2>1, <2>2, <2>3, <3>1, WorkingExit, Counts DEF Filled, Pending
      <4> QED
        BY <2>2, <2>3, <4>1, Counts, PendingNat DEF Covered
    <3>2. CASE orders[o].side = "sell" /\ o = mem.exit
      BY <2>1, <2>2, <2>3, <2>4, <3>2, WorkingExit, NoneAssumption, Counts
         DEF Filled, Pending, Covered
    <3>3. CASE orders[o].side = "sell" /\ o # mem.exit
      <4>1. Pending(w)' = Pending(w) /\ bought'[w] = bought[w] /\ tokens'[w] <= tokens[w]
        BY <2>1, <2>2, <2>3, <3>3, WorkingExit, Counts DEF Filled, Pending
      <4> QED
        BY <2>2, <2>3, <4>1, Counts, PendingNat DEF Covered
    <3> QED
      BY <2>1, <3>1, <3>2, <3>3
  <2> QED
    BY <2>5 DEF Covered
<1>14. ASSUME NEW w \in Windows, CloseBook(w) PROVE Covered'
  BY <1>14, CloseBookMoves, CoveredKept DEF CloseBook
<1> QED
  BY <1>2, <1>3, <1>4, <1>5, <1>6, <1>7, <1>8, <1>9, <1>10, <1>11, <1>12, <1>13, <1>14
     DEF Next, Runner, World, EntrySteps, ExitSteps

\* Positions sold before resolution: the loss halt never sees more shares than were bought,
\* whatever calls fail, before or after they took effect, and wherever the process dies
\* (live.py:940-1010, 1044-1143).
THEOREM NeverOverbookedAlways == ASSUME Style = "scalp" PROVE Spec => []NeverOverbooked
<1>1. Init => Covered
  BY BoundsAssumption DEF Init, Covered, Pending, Flat
<1>2. Sound /\ Covered /\ [Next]_vars => Covered'
  <2>1. CASE UNCHANGED vars
    BY <2>1 DEF vars, venueVars, Covered, Pending
  <2> QED
    BY <2>1, CoveredStep
<1>3. Sound /\ Covered => NeverOverbooked
  BY Counts, PendingNat DEF Covered, NeverOverbooked
<1> QED
  BY SoundInit, SoundStep, <1>1, <1>2, <1>3, PTL DEF Spec

-----------------------------------------------------------------------------
(* Memory, ledger and exchange in step.                                    *)

\* A cancel that fails before a settlement is the one way to lose an order.
CancelsCount == Style = "scalp" \/ "cancel" \notin Faults

\* The orders that may be working at this place of the runner.
Held == IF pc \in {"journal", "track"} THEN {resp.order} ELSE {mem.order, mem.exit}

Tracked ==
  /\ \A o, p \in Working : o = p
  /\ pc # "off" => Working \subseteq Held
  /\ pc = "adopt" => \A o \in Ids : ~orders[o].live
  /\ pc \in {"exitInfo", "sellInfo"} => ~orders[mem.exit].live
  /\ pc = "entryInfo" => ~orders[mem.order].live
  /\ pc = "settle" => mem.order = None
  /\ Style = "settle" /\ pc # "off" /\ task # "flatten" => mem.exit = None

\* Orders stop working of their own accord, and never start to.
LEMMA WorkingShrinks ==
  ASSUME Sound, Next, Unmoved \/ Withdraws \/ Fills
  PROVE  Working' \subseteq Working /\ \A o \in Ids : orders'[o].live => orders[o].live
<1>1. \A o \in Ids : orders'[o].live => orders[o].live /\ orders'[o].known = orders[o].known
  <2>1. CASE Unmoved \/ Withdraws
    BY <2>1 DEF Unmoved, venueVars, Withdraws, Withdrawn
  <2>2. CASE Fills
    <3>1. PICK o \in Ids : orders[o].live /\ Filled(o)
      BY <2>2 DEF Fills
    <3> QED
      BY <3>1 DEF Filled
  <2> QED
    BY <2>1, <2>2
<1> QED
  BY <1>1 DEF Working

\* At most one of the two ids in memory is an order.
LEMMA HeldIsOne == ASSUME Sound PROVE \A o, p \in Held \cap Ids : o = p
  BY NoneAssumption DEF Sound, Memory, Held, Ids

\* A step after which nothing works that did not work before.
LEMMA TrackedKept ==
  ASSUME Sound, Tracked, Sound', Working' \subseteq Working,
         \A o \in Ids : orders'[o].live => orders[o].live,
         pc' # "off" => pc # "off" /\ Working' \subseteq Held',
         pc' = "adopt" => pc = "adopt",
         pc' \in {"exitInfo", "sellInfo"} => ~orders'[mem'.exit].live,
         pc' = "entryInfo" => ~orders'[mem'.order].live,
         pc' = "settle" => mem'.order = None,
         Style = "settle" /\ pc' # "off" /\ task' # "flatten" => mem'.exit = None
  PROVE  Tracked'
  BY DEF Tracked, Working

\* Nothing works when no order is held.
LEMMA NothingHeld ==
  ASSUME Sound, Tracked, pc \notin {"off", "journal", "track"}, mem.order = None, mem.exit = None
  PROVE  Working = {}
  BY NoneAssumption DEF Tracked, Held, Working, Ids

\* The orders looked up exist.
LEMMA TrackedIds ==
  ASSUME Sound
  PROVE  /\ pc \in {"exitInfo", "sellInfo"} => mem.exit \in Ids
         /\ pc = "entryInfo" => mem.order \in Ids
  BY DEF Sound, TypeOK, Memories, Memory

\* A SELL that has stopped working is registered.
LEMMA TrackedSold ==
  ASSUME Sound, Tracked, Next, Sound', NEW n, RegisterExit(n, ExitOver), Unmoved, pc \in {"await", "sellInfo"},
         mem.exit # None, task \in {"exit", "flatten"}, ~orders[mem.exit].live
  PROVE  Tracked'
<1>1. mem.order = None
  BY WorkingExit
<1>2. Working = {}
  BY <1>1, NoneAssumption DEF Tracked, Held, Working, Ids
<1>3. Working' = {}
  BY <1>2, WorkingShrinks
<1>4. pc' \in {"closeRow", "open", "off"} /\ mem'.exit = None
  <2>1. CASE mem' = Flat /\ pc' = "closeRow"
    BY <2>1 DEF Flat
  <2>2. CASE mem' = [mem EXCEPT !.exit = None, !.sold = @ + n] /\ ExitOver
    BY <2>2 DEF Sound, TypeOK, Memories, ExitOver, Goto
  <2> QED
    BY <2>1, <2>2 DEF RegisterExit, Goto
<1> QED
  BY <1>3, <1>4 DEF Tracked

LEMMA TrackedStep == ASSUME CancelsCount, Sound, Tracked, Next PROVE Tracked'
<1>1. TypeOK /\ Exchange /\ Errands /\ Memory /\ Placed /\ Sound'
  BY SoundStep DEF Sound
<1>2. ASSUME BootCancelAll PROVE Tracked'
  <2>1. (\A o \in Ids : ~orders'[o].live) /\ pc' = "adopt" /\ mem'.order = None /\ mem'.exit = None
    BY <1>1, <1>2, BootWithdraws DEF BootCancelAll, Flat
  <2> QED
    BY <2>1 DEF Tracked, Working
<1>3. ASSUME BootFlat \/ BootRefused \/ (\E m \in 1 .. Size : BootAdopt(m)) PROVE Tracked'
  <2>1. \A o \in Ids : ~orders'[o].live
    BY <1>1, <1>3 DEF BootFlat, BootRefused, BootAdopt, Tracked, venueVars
  <2>2. pc' \in {"idle", "off"} /\ mem'.exit = None
    <3>1. ASSUME NEW m \in 1 .. Size, BootAdopt(m) PROVE pc' = "idle" /\ mem'.exit = None
      BY <3>1 DEF BootAdopt, Flat
    <3>2. CASE BootFlat \/ BootRefused
      BY <1>1, <3>2 DEF BootFlat, BootRefused, Memory, Flat
    <3> QED
      BY <1>3, <3>1, <3>2
  <2> QED
    BY <2>1, <2>2 DEF Tracked, Working
<1>4. ASSUME EnforceKillSwitch PROVE Tracked'
  BY <1>1, <1>4, TrackedKept, WorkingShrinks
     DEF EnforceKillSwitch, Tracked, Held, Memory, Errands, Entering, Cancelling, Selling, Goto,
         Unmoved, venueVars, ledgerVars
<1>5. ASSUME Stop PROVE Tracked'
  BY <1>1, <1>5, TrackedKept, WorkingShrinks
     DEF Stop, Tracked, Held, Memory, Errands, Entering, Cancelling, Selling, Goto, Unmoved,
         venueVars, ledgerVars
<1>6. ASSUME Hold PROVE Tracked'
  BY <1>1, <1>6, TrackedKept, WorkingShrinks
     DEF Hold, Tracked, Held, Memory, Errands, Entering, Cancelling, Selling, Goto, Unmoved,
         venueVars, ledgerVars
<1>7. ASSUME SettleDue PROVE Tracked'
  BY <1>1, <1>7, TrackedKept, WorkingShrinks
     DEF SettleDue, Tracked, Held, Memory, Errands, Entering, Cancelling, Selling, Goto, Unmoved,
         venueVars, ledgerVars
<1>8. ASSUME NEW b \in BOOLEAN, ExitDue(b) PROVE Tracked'
  BY <1>1, <1>8, TrackedKept, WorkingShrinks
     DEF ExitDue, Tracked, Held, Memory, Errands, Entering, Cancelling, Selling, Goto, Unmoved,
         venueVars, ledgerVars
<1>9. ASSUME SkipEntry \/ BlockEntry \/ DeleteRow PROVE Tracked'
  BY <1>1, <1>9, TrackedKept, WorkingShrinks
     DEF SkipEntry, BlockEntry, DeleteRow, Tracked, Held, Memory, Errands, Entering, Cancelling,
         Selling, Goto, Unmoved, venueVars, ledgerVars
<1>10. ASSUME InsertRow PROVE Tracked'
  <2>1. Working = {}
    BY <1>1, <1>10, NothingHeld DEF InsertRow, Memory, Flat
  <2>2. Working' = {} /\ mem' = Flat /\ pc' = "post"
    BY <1>10, <2>1, WorkingShrinks DEF InsertRow, ResyncFlat, Goto, Unmoved
  <2>3. mem'.exit = None
    BY <2>2 DEF Flat
  <2> QED
    BY <2>2, <2>3 DEF Tracked
<1>11. ASSUME NEW m \in 0 .. Size, PostEntry(m) PROVE Tracked'
  <2>1. Working = {} /\ mem' = mem /\ mem.exit = None
    BY <1>1, <1>11, NothingHeld DEF PostEntry, Memory, Entering, Flat
  <2>2. CASE Arrived(Fresh, "buy", row, Size, m, TRUE) /\ pc' = "journal" /\ resp' = [order |-> Fresh, filled |-> m]
    <3>1. Working' \subseteq {Fresh} /\ resp'.order = Fresh
      BY <2>1, <2>2 DEF Arrived, Working
    <3> QED
      BY <2>1, <2>2, <3>1 DEF Tracked, Held
  <2>3. CASE Arrived(Fresh, "buy", row, Size, m, FALSE) /\ pc' = "delete"
    <3>1. Working' = {}
      BY <2>1, <2>3 DEF Arrived, Working
    <3> QED
      BY <2>1, <2>3, <3>1 DEF Tracked
  <2> QED
    BY <1>11, <2>2, <2>3, PostEntryPlaces
<1>12. ASSUME JournalEntry PROVE Tracked'
  BY <1>1, <1>12, TrackedKept, WorkingShrinks
     DEF JournalEntry, Tracked, Held, Memory, Errands, Entering, Cancelling, Selling, Goto, Unmoved,
         venueVars, ledgerVars
<1>13. ASSUME TrackEntry PROVE Tracked'
  <2>1. pc = "track" /\ pc' = "idle" /\ mem'.exit = None /\ Working' = Working
        /\ mem'.order = IF resp.filled >= Size THEN None ELSE resp.order
    BY <1>13 DEF TrackEntry, Goto, Flat, Working, venueVars
  <2>2. Working \subseteq {resp.order}
    BY <2>1 DEF Tracked, Held
  <2>3. CASE resp.filled >= Size
    <3>1. resp.order \in Ids /\ ~orders[resp.order].live
      BY <1>1, <2>1, <2>3, BoundsAssumption DEF TypeOK, Resps, Orders, Amounts, Placed, Exchange
    <3>2. Working = {}
      BY <2>2, <3>1 DEF Working
    <3> QED
      BY <2>1, <3>2 DEF Tracked
  <2>4. CASE ~(resp.filled >= Size)
    BY <2>1, <2>2, <2>4 DEF Tracked, Held
  <2> QED
    BY <2>3, <2>4
<1>14. ASSUME NEW ok \in BOOLEAN, CancelExit(ok) PROVE Tracked'
  <2>1. Working' \subseteq Working /\ \A o \in Ids : orders'[o].live => orders[o].live
    BY <1>14, CancelMoves, WorkingShrinks DEF CancelSteps
  <2>2. ok /\ mem.exit # None => ~orders'[mem.exit].live
    BY <1>1, <1>14, CancelWithdraws DEF CancelExit, TypeOK, Memories
  <2>3. pc = "cancelExit" /\ task \in Tasks \ {"none"} /\ mem' = mem
    BY <1>1, <1>14 DEF CancelExit, Errands, Cancelling, Tasks
  <2>4. \/ pc' = "exitInfo" /\ ok /\ mem.exit # None /\ task' = task
        \/ pc' \in {"off", "open"} /\ mem.exit # None /\ task \in {"exit", "flatten"} /\ task' = "none" /\ (task = "flatten" => pc' = "off")
        \/ pc' = "cancelEntry" /\ task' = task
    BY <1>14 DEF CancelExit, ExitOver, Goto
  <2> QED
    BY <1>1, <2>1, <2>2, <2>3, <2>4, TrackedKept DEF Tracked, Held, Errands
<1>15. ASSUME NEW n \in 0 .. Size, RegisterStaleExit(n) PROVE Tracked'
  <2>1. Working' \subseteq Working /\ \A o \in Ids : orders'[o].live => orders[o].live
    BY <1>15, CancelMoves, WorkingShrinks DEF CancelSteps
  <2>2. pc = "exitInfo" /\ mem'.exit = None /\ mem'.order = mem.order /\ pc' = "cancelEntry"
    BY <1>1, <1>15 DEF RegisterStaleExit, TypeOK, Memories, Goto
  <2>3. Working \subseteq {mem.order}
    BY <2>2 DEF Tracked, Held, Working
  <2> QED
    BY <1>1, <2>1, <2>2, <2>3, TrackedKept DEF Held
<1>16. ASSUME NEW ok \in BOOLEAN, CancelEntry(ok) PROVE Tracked'
  <2>1. Working' \subseteq Working /\ \A o \in Ids : orders'[o].live => orders[o].live
    BY <1>16, CancelMoves, WorkingShrinks DEF CancelSteps
  <2>2. ok /\ mem.order # None => ~orders'[mem.order].live
    BY <1>1, <1>16, CancelWithdraws DEF CancelEntry, TypeOK, Memories
  <2>3. pc = "cancelEntry" /\ mem' = mem
    BY <1>16 DEF CancelEntry
  <2>4. ~ok /\ task = "settle" => FALSE
    BY <1>1, <1>16 DEF CancelEntry, TryCancel, CancelsCount, Errands
  <2>5. \/ pc' = "entryInfo" /\ ok /\ mem.order # None /\ task' = task
        \/ ExitOver /\ task \in {"exit", "flatten"}
        \/ AfterCancel /\ (mem.order = None \/ ~ok)
    BY <1>16 DEF CancelEntry, Goto
  <2>6. \/ pc' # "off" /\ pc' \notin {"adopt", "journal", "track", "exitInfo", "sellInfo"}
        \/ pc' = "off"
    BY <2>5 DEF AfterCancel, ExitOver, Goto
  <2>7. pc' = "entryInfo" => ok /\ mem.order # None
    BY <2>5 DEF AfterCancel, ExitOver, Goto
  <2>8. pc' = "settle" => mem.order = None
    BY <2>4, <2>5 DEF AfterCancel, ExitOver, Goto
  <2>9. pc' = "off" \/ task' = "flatten" \/ task # "flatten"
    BY <2>5 DEF AfterCancel, ExitOver, Goto
  <2> QED
    BY <1>1, <2>1, <2>2, <2>3, <2>6, <2>7, <2>8, <2>9, TrackedKept DEF Tracked, Held
<1>17. ASSUME NEW n \in 0 .. Size, CaptureMatched(n) PROVE Tracked'
  <2>1. Working' \subseteq Working /\ \A o \in Ids : orders'[o].live => orders[o].live
    BY <1>17, CancelMoves, WorkingShrinks DEF CancelSteps
  <2>2. pc = "entryInfo" /\ mem'.order = None /\ mem'.exit = mem.exit /\ AfterCancel
    BY <1>1, <1>17 DEF CaptureMatched, TypeOK, Memories
  <2>3. Working \subseteq {mem.exit}
    BY <2>2 DEF Tracked, Held, Working
  <2>4. pc' \in {"close", "settle", "cancelExit", "off", "sell"}
    BY <2>2 DEF AfterCancel, Goto
  <2>5. pc' = "off" \/ task' = "flatten" \/ task # "flatten"
    BY <2>2 DEF AfterCancel, Goto
  <2> QED
    BY <1>1, <2>1, <2>2, <2>3, <2>4, <2>5, TrackedKept DEF Held, Tracked
<1>18. ASSUME NEW n \in 0 .. Size, Settle(n) PROVE Tracked'
  <2>1. pc = "settle" /\ mem.order = None /\ mem.exit = None
    BY <1>1, <1>18, ChoiceAssumption DEF Settle, Errands, Cancelling, Selling, Tracked
  <2>2. Working' = {}
    BY <1>18, <2>1, NothingHeld, WorkingShrinks DEF Settle, Unmoved
  <2>3. pc' = "closeRow" /\ mem'.exit = None
    BY <1>18 DEF Settle, Goto, Flat
  <2> QED
    BY <2>2, <2>3 DEF Tracked
<1>19. ASSUME NothingToSell PROVE Tracked'
  <2>1. Working' = {}
    BY <1>1, <1>19, NothingHeld, WorkingShrinks DEF NothingToSell, Unmoved, Memory
  <2>2. pc' = "closeRow" /\ mem'.exit = None
    BY <1>19 DEF NothingToSell, Goto, Flat
  <2> QED
    BY <2>1, <2>2 DEF Tracked
<1>20. ASSUME ExitBlocked PROVE Tracked'
  <2>1. Working' = {}
    BY <1>1, <1>20, NothingHeld, WorkingShrinks DEF ExitBlocked, Unmoved, Memory
  <2>2. pc' \in {"off", "open"} /\ mem'.exit = None
    BY <1>1, <1>20 DEF ExitBlocked, ExitOver, Goto, Memory
  <2> QED
    BY <2>1, <2>2 DEF Tracked
<1>21. ASSUME NEW m \in 0 .. Size, PostExit(m) PROVE Tracked'
  <2>1. Working = {} /\ mem.order = None /\ mem.exit = None /\ task \in {"exit", "flatten"}
    BY <1>1, <1>21, NothingHeld DEF PostExit, Memory, Errands, Selling
  <2>2. CASE Arrived(Fresh, "sell", mem.win, Remaining, m, TRUE) /\ pc' = "await" /\ mem' = [mem EXCEPT !.exit = Fresh]
    <3>1. Working' \subseteq {Fresh} /\ mem'.exit = Fresh /\ task' = task
      BY <1>1, <1>21, <2>1, <2>2 DEF Arrived, Working, TypeOK, Memories, PostExit, ExitOver, Goto
    <3> QED
      BY <1>1, <2>1, <2>2, <3>1 DEF Tracked, Held, Errands
  <2>3. CASE Arrived(Fresh, "sell", mem.win, Remaining, m, FALSE) /\ ExitOver /\ mem' = mem
    <3>1. Working' = {} /\ pc' \in {"off", "open"}
      BY <2>1, <2>3 DEF Arrived, Working, ExitOver, Goto
    <3> QED
      BY <2>1, <2>3, <3>1 DEF Tracked
  <2> QED
    BY <1>21, <2>2, <2>3, PostExitPlaces
<1>22. ASSUME ExitFilled PROVE Tracked'
  <2>1. pc = "await" /\ mem.exit # None /\ task \in {"exit", "flatten"} /\ ~orders[mem.exit].live /\ Unmoved
    <3>1. mem.exit # None /\ orders[mem.exit].matched = orders[mem.exit].size
      BY <1>1, <1>22 DEF ExitFilled, WholeSizeMatched, Memory
    <3>2. ~orders[mem.exit].live
      BY <1>1, <3>1, WorkingExit, BoundsAssumption DEF Exchange, Amounts
    <3> QED
      BY <1>1, <1>22, <3>1, <3>2 DEF ExitFilled, Errands, Selling, Unmoved
  <2> QED
    BY <1>1, <1>22, <2>1, TrackedSold DEF ExitFilled
<1>23. ASSUME NEW ok \in BOOLEAN, ExitTimeout(ok) PROVE Tracked'
  <2>1. Working' \subseteq Working /\ \A o \in Ids : orders'[o].live => orders[o].live
    BY <1>23, ExitTimeoutMoves, WorkingShrinks
  <2>2. ok => ~orders'[mem.exit].live
    BY <1>1, <1>23, CancelWithdraws DEF ExitTimeout, TypeOK, Memories, Memory
  <2>3. pc = "await" /\ mem' = mem /\ task \in {"exit", "flatten"}
    BY <1>1, <1>23 DEF ExitTimeout, Errands, Selling
  <2>4. \/ pc' = "sellInfo" /\ ok /\ task' = task
        \/ pc' = "off"
        \/ pc' = "open" /\ task = "exit"
    BY <1>23, <2>3 DEF ExitTimeout, ExitOver, Goto
  <2> QED
    BY <1>1, <2>1, <2>2, <2>3, <2>4, TrackedKept DEF Tracked, Held, Errands
<1>24. ASSUME NEW n \in 0 .. Size, RegisterCancelledExit(n) PROVE Tracked'
  <2>1. pc = "sellInfo" /\ mem.exit # None /\ task \in {"exit", "flatten"} /\ ~orders[mem.exit].live /\ Unmoved
    BY <1>1, <1>24 DEF RegisterCancelledExit, Memory, Errands, Selling, Tracked, Unmoved
  <2> QED
    BY <1>1, <1>24, <2>1, TrackedSold DEF RegisterCancelledExit
<1>25. ASSUME CloseRow PROVE Tracked'
  <2>1. mem.order = None /\ mem.exit = None
    BY <1>1, <1>25 DEF CloseRow, Memory, Flat
  <2>2. Working' = {}
    BY <1>25, <2>1, NothingHeld, WorkingShrinks DEF CloseRow, Unmoved
  <2>3. pc' \in {"off", "open"} /\ mem'.exit = None
    BY <1>25, <2>1 DEF CloseRow, ExitOver, Goto
  <2> QED
    BY <2>2, <2>3 DEF Tracked
<1>26. ASSUME Crash PROVE Tracked'
  <2>1. pc' = "off" /\ Unmoved
    BY <1>26 DEF Crash, Goto, Unmoved
  <2>2. \A o, p \in Working' : o = p
    BY <2>1, WorkingShrinks DEF Tracked
  <2> QED
    BY <2>1, <2>2 DEF Tracked
<1>27. ASSUME World PROVE Tracked'
  <2>1. Unmoved \/ Withdraws \/ Fills
    <3>1. ASSUME NEW o \in Ids, Fill(o) PROVE Fills
      BY <1>1, <3>1, FillFills DEF Fill, Fills
    <3> QED
      BY <1>27, <3>1, CloseBookMoves DEF World, NextWindow, ToggleKill, Unmoved
  <2>2. Working' \subseteq Working /\ \A o \in Ids : orders'[o].live => orders[o].live
    BY <2>1, WorkingShrinks
  <2>3. UNCHANGED <<pc, task, mem, resp>>
    BY <1>27 DEF World, NextWindow, ToggleKill, Fill, CloseBook
  <2> QED
    BY <1>1, <2>2, <2>3, TrackedKept, TrackedIds DEF Tracked, Held
<1> QED
  BY <1>2, <1>3, <1>4, <1>5, <1>6, <1>7, <1>8, <1>9, <1>10, <1>11, <1>12, <1>13, <1>14, <1>15,
     <1>16, <1>17, <1>18, <1>19, <1>20, <1>21, <1>22, <1>23, <1>24, <1>25, <1>26, <1>27
     DEF Next, Runner, Boot, TickSteps, EntrySteps, CancelSteps, ExitSteps

\* Memory, ledger and exchange stay in step: at most one order works, and between
\* two phases of a tick it is one the executor tracks.  An exit that fails to
\* cancel is deferred, so no fault can break this when positions are sold before
\* resolution; a settlement is not deferred, so there cancels must succeed
\* (live.py:947-948, 1075-1076; paper.py:1691-1699).
THEOREM MemoryInStepAlways == ASSUME CancelsCount PROVE Spec => []MemoryInStep
<1>1. Init => Tracked
  BY DEF Init, Tracked, Working, NoOrder, Flat
<1>2. Sound /\ Tracked /\ [Next]_vars => Tracked'
  <2>1. CASE UNCHANGED vars
    BY <2>1 DEF vars, venueVars, Tracked, Working, Held
  <2> QED
    BY <2>1, TrackedStep
<1>3. Sound /\ Tracked => MemoryInStep
  BY DEF Sound, Memory, Tracked, Held, MemoryInStep
<1> QED
  BY SoundInit, SoundStep, <1>1, <1>2, <1>3, PTL DEF Spec

-----------------------------------------------------------------------------
(* One clip per window, when positions are held to settlement.             *)

\* A placement that is never answered leaves a clip the ledger does not know.
EntriesOnce == Style = "settle" /\ "post" \notin Faults

Buys(w) == {o \in Ids : orders[o].side = "buy" /\ orders[o].win = w}

\* A window's clip is one order, of a window that has a row for ever.
Once ==
  /\ \A w \in Windows : \A o, p \in Buys(w) : o = p
  /\ \A w \in Windows : Buys(w) = {} => bought[w] = 0
  /\ \A w \in Windows : \A o \in Buys(w) : w \in used /\ bought[w] = orders[o].matched
  /\ row # None => row \in used
  /\ pc \in {"post", "delete"} => Buys(row) = {}

\* Nothing is bought, and no window is forgotten.
LEMMA OnceKept ==
  ASSUME Sound, Once, Sound', bought' = bought,
         \A w \in Windows : Buys(w)' = Buys(w),
         \A o \in Ids : orders[o].side = "buy" => orders'[o].matched = orders[o].matched,
         \A w \in used : w \in used' \/ Buys(w) = {},
         row' # None => row' \in used',
         pc' \in {"post", "delete"} => \E w \in Windows : row' = w /\ Buys(w) = {}
  PROVE  Once'
<1>1. \A w \in Windows : \A o \in Buys(w) : orders'[o].matched = orders[o].matched
  BY DEF Buys
<1>2. \A w \in Windows : (\A o, p \in Buys(w)' : o = p) /\ (Buys(w)' = {} => bought'[w] = 0)
  BY DEF Once
<1>3. \A w \in Windows : \A o \in Buys(w)' : w \in used' /\ bought'[w] = orders'[o].matched
  BY <1>1 DEF Once
<1>4. pc' \in {"post", "delete"} => Buys(row)' = {}
  BY DEF Buys
<1> QED
  BY <1>2, <1>3, <1>4 DEF Once, Buys

LEMMA BuysKept ==
  ASSUME Unmoved \/ Withdraws
  PROVE  /\ bought' = bought /\ \A w \in Windows : Buys(w)' = Buys(w)
         /\ \A o \in Ids : orders'[o].matched = orders[o].matched
  BY DEF Unmoved, Withdraws, Withdrawn, venueVars, Buys

LEMMA OnceStep == ASSUME EntriesOnce, Sound, Once, Next PROVE Once'
<1> USE DEF Goto
<1>1. TypeOK /\ Exchange /\ Errands /\ Memory /\ Sound'
  BY SoundStep DEF Sound
<1>2. CASE Boot
  <2>1. used' = used /\ row' \in {row, None} /\ pc' \notin {"post", "delete"}
    BY <1>2 DEF Boot, BootCancelAll, BootFlat, BootAdopt, BootRefused, ledgerVars
  <2> QED
    BY <1>1, <1>2, <2>1, BootMoves, BuysKept, OnceKept DEF Once
<1>3. CASE TickSteps \/ SkipEntry \/ JournalEntry \/ TrackEntry \/ Crash \/ NextWindow \/ ToggleKill
  <2>1. ledgerVars' = ledgerVars /\ Unmoved /\ (pc' \in {"post", "delete"} => pc = pc')
    BY <1>3
       DEF TickSteps, EnforceKillSwitch, Stop, Hold, SettleDue, ExitDue, SkipEntry, JournalEntry,
       TrackEntry, Crash, NextWindow, ToggleKill, Unmoved
  <2>2. pc \in {"post", "delete"} => row \in Windows
    BY <1>1 DEF Errands, Entering, TypeOK
  <2> QED
    BY <1>1, <2>1, <2>2, BuysKept, OnceKept DEF Once, ledgerVars
<1>4. CASE InsertRow
  <2>1. tick.win \in Windows /\ tick.win \notin used /\ row' = tick.win /\ used' = used \cup {tick.win} /\ Unmoved
    BY <1>1, <1>4 DEF InsertRow, EntriesOnce, Errands, Cancelling, Selling, Unmoved
  <2>2. Buys(tick.win) = {}
    BY <2>1 DEF Once
  <2> QED
    BY <1>1, <2>1, <2>2, BuysKept, OnceKept
<1>5. CASE BlockEntry \/ DeleteRow
  <2>1. row \in Windows /\ Buys(row) = {} /\ Unmoved
    BY <1>1, <1>5 DEF BlockEntry, DeleteRow, Errands, Entering, TypeOK, Once, Unmoved
  <2>2. \/ row' = row /\ used' = used
        \/ row' = None /\ used' = used \ {row} /\ pc' = "idle"
    BY <1>5 DEF BlockEntry, DeleteRow, ledgerVars
  <2> QED
    BY <1>1, <2>1, <2>2, BuysKept, OnceKept DEF Once
<1>6. ASSUME NEW m \in 0 .. Size, PostEntry(m) PROVE Once'
  <2>1. row \in Windows /\ Buys(row) = {} /\ bought[row] = 0 /\ row \in used /\ UNCHANGED ledgerVars
    BY <1>1, <1>6, NoneAssumption DEF PostEntry, Errands, Entering, TypeOK, Once
  <2>2. Arrived(Fresh, "buy", row, Size, m, TRUE) /\ pc' = "journal" /\ m \in Amounts
    BY <1>6, PostEntryPlaces DEF EntriesOnce
  <2>3. ASSUME NEW w \in Windows, w = row
        PROVE  Buys(w)' = {Fresh} /\ bought'[w] = m /\ orders'[Fresh].matched = m
    <3>1. \A o \in Ids : orders'[o].side = "buy" /\ orders'[o].win = w <=> o = Fresh
      BY <2>1, <2>2, <2>3 DEF Arrived, Buys
    <3>2. Fresh \in Ids /\ orders'[Fresh].matched = m /\ bought'[w] = 0 + m
      BY <2>1, <2>2, <2>3 DEF Arrived
    <3>3. m \in Nat
      BY <2>2, BoundsAssumption DEF Amounts
    <3> QED
      BY <3>1, <3>2, <3>3 DEF Buys
  <2>4. ASSUME NEW w \in Windows, w # row
        PROVE  Buys(w)' = Buys(w) /\ bought'[w] = bought[w] /\ \A o \in Buys(w) : orders'[o].matched = orders[o].matched
    BY <2>2, <2>4 DEF Arrived, Buys
  <2>5. ASSUME NEW w \in Windows PROVE \A o, p \in Buys(w)' : o = p
    BY <2>3, <2>4 DEF Once
  <2>6. ASSUME NEW w \in Windows PROVE Buys(w)' = {} => bought'[w] = 0
    BY <2>3, <2>4 DEF Once
  <2>7. \A w \in Windows : \A o \in Buys(w)' : w \in used' /\ bought'[w] = orders'[o].matched
    BY <2>1, <2>3, <2>4 DEF Once, ledgerVars
  <2> QED
    BY <2>1, <2>2, <2>5, <2>6, <2>7 DEF Once, ledgerVars
<1>7. CASE CancelSteps
  <2>1. UNCHANGED ledgerVars /\ pc' \notin {"post", "delete"}
    BY <1>7
       DEF CancelSteps, CancelExit, CancelEntry, RegisterStaleExit, CaptureMatched, AfterCancel,
           ExitOver
  <2> QED
    BY <1>1, <1>7, <2>1, CancelMoves, BuysKept, OnceKept DEF Once, ledgerVars
<1>8. ASSUME NEW m \in 0 .. Size, PostExit(m) PROVE Once'
  <2>1. UNCHANGED ledgerVars /\ pc' \notin {"post", "delete"} /\ mem.win \in Windows
    BY <1>1, <1>8, PostExitPlaces DEF PostExit, ExitOver, TypeOK
  <2>2. PICK known \in BOOLEAN : Arrived(Fresh, "sell", mem.win, Remaining, m, known)
    BY <1>8, PostExitPlaces
  <2>3. bought' = bought
    <3>1. \A w \in Windows : bought'[w] = bought[w]
      BY <2>1, <2>2 DEF Arrived
    <3>2. bought \in [Windows -> Nat] /\ bought' \in [Windows -> Nat]
      BY <1>1 DEF Sound, TypeOK
    <3> QED
      BY <3>1, <3>2
  <2>4. \A w \in Windows : Buys(w)' = Buys(w)
    BY <2>2 DEF Arrived, Buys
  <2>5. \A o \in Ids : orders[o].side = "buy" => orders'[o].matched = orders[o].matched
    BY <2>2 DEF Arrived
  <2> QED
    BY <1>1, <2>1, <2>3, <2>4, <2>5, OnceKept DEF Once, ledgerVars
<1>9. ASSUME NEW ok \in BOOLEAN, ExitTimeout(ok) PROVE Once'
  <2>1. UNCHANGED ledgerVars /\ pc' \notin {"post", "delete"}
    BY <1>9 DEF ExitTimeout, ExitOver
  <2> QED
    BY <1>1, <1>9, <2>1, ExitTimeoutMoves, BuysKept, OnceKept DEF Once, ledgerVars
<1>10. CASE \/ NothingToSell \/ ExitBlocked \/ ExitFilled \/ CloseRow
            \/ \E n \in 0 .. Size : Settle(n) \/ RegisterCancelledExit(n)
  <2>1. used' = used /\ row' \in {row, None} /\ pc' \notin {"post", "delete"} /\ Unmoved
    BY <1>10
       DEF NothingToSell, ExitBlocked, ExitFilled, CloseRow, Settle, RegisterCancelledExit,
           RegisterExit,
       ExitOver, ledgerVars, Unmoved
  <2> QED
    BY <1>1, <2>1, BuysKept, OnceKept DEF Once
<1>11. ASSUME NEW w \in Windows, CloseBook(w) PROVE Once'
  <2>1. UNCHANGED <<ledgerVars, pc>>
    BY <1>11 DEF CloseBook
  <2>2. pc \in {"post", "delete"} => row \in Windows
    BY <1>1 DEF Errands, Entering, TypeOK
  <2> QED
    BY <1>1, <1>11, <2>1, <2>2, CloseBookMoves, BuysKept, OnceKept DEF Once, ledgerVars
<1>12. ASSUME NEW o \in Ids, Fill(o) PROVE Once'
  <2>1. Filled(o) /\ orders[o].win \in Windows /\ UNCHANGED <<ledgerVars, pc>>
    BY <1>1, <1>12, FillFills DEF Fill
  <2>2. \A w \in Windows : Buys(w)' = Buys(w)
    BY <2>1 DEF Filled, Buys
  <2>3. ASSUME NEW w \in Windows, NEW p \in Buys(w) PROVE bought'[w] = orders'[p].matched
    <3>1. p \in Ids /\ orders[p].side = "buy" /\ orders[p].win = w /\ bought[w] = orders[p].matched
      BY <2>3 DEF Buys, Once
    <3>2. CASE p = o
      BY <2>1, <3>1, <3>2 DEF Filled
    <3>3. CASE p # o
      <4>1. orders[o].side = "buy" => orders[o].win # w
        BY <3>1, <3>3 DEF Once, Buys
      <4>2. bought'[w] = bought[w]
        BY <2>1, <4>1 DEF Filled
      <4> QED
        BY <2>1, <3>1, <3>3, <4>2 DEF Filled
    <3> QED
      BY <3>2, <3>3
  <2>4. ASSUME NEW w \in Windows, Buys(w) = {} PROVE bought'[w] = 0
    <3>1. ~(orders[o].side = "buy" /\ orders[o].win = w) /\ bought[w] = 0
      BY <2>4 DEF Buys, Once
    <3> QED
      BY <2>1, <3>1 DEF Filled
  <2>5. pc \in {"post", "delete"} => row \in Windows
    BY <1>1 DEF Errands, Entering, TypeOK
  <2>6. \A w \in Windows : \A p, q \in Buys(w)' : p = q
    BY <2>2 DEF Once
  <2>7. \A w \in Windows : Buys(w)' = {} => bought'[w] = 0
    BY <2>2, <2>4
  <2>8. \A w \in Windows : \A p \in Buys(w)' : w \in used' /\ bought'[w] = orders'[p].matched
    BY <2>1, <2>2, <2>3 DEF Once, ledgerVars
  <2>9. pc' \in {"post", "delete"} => Buys(row)' = {}
    BY <2>1, <2>2, <2>5 DEF Once, ledgerVars, Buys
  <2> QED
    BY <2>1, <2>6, <2>7, <2>8, <2>9 DEF Once, ledgerVars
<1> QED
  BY <1>2, <1>3, <1>4, <1>5, <1>6, <1>7, <1>8, <1>9, <1>10, <1>11, <1>12
     DEF Next, Runner, World, EntrySteps, ExitSteps

\* A window that is held to settlement is entered at most once, wherever the process
\* dies and whatever cancels and lookups fail: the row is inserted before the order is
\* posted and only a row without an order is deleted (paper.py:1322, 1382-1387).
THEOREM OneClipAlways == ASSUME EntriesOnce PROVE Spec => []OneClipPerWindow
<1>1. Init => Once
  BY DEF Init, Once, Buys, NoOrder
<1>2. Sound /\ Once /\ [Next]_vars => Once'
  <2>1. CASE UNCHANGED vars
    BY <2>1 DEF vars, venueVars, ledgerVars, Once, Buys
  <2> QED
    BY <2>1, OnceStep
<1>3. Sound /\ Once => OneClipPerWindow
  BY BoundsAssumption DEF Sound, TypeOK, Orders, Amounts, Once, Buys, OneClipPerWindow
<1> QED
  BY SoundInit, SoundStep, <1>1, <1>2, <1>3, PTL DEF Spec

-----------------------------------------------------------------------------
(* No BUY works once the kill file has been handled.                       *)

\* A placement whose answer is lost, or a cancel that fails, leaves a BUY behind.
CallsAnswered == Faults \subseteq {"lookup"}

AllKnown == \A o \in Ids : orders[o].known
NoBuys   == \A o \in Ids : orders[o].live => orders[o].side = "sell"

\* A tick that may open a position began before the kill file was handled, and
\* the sweep that handles it leaves no BUY.
Quiet ==
  /\ handled => ~tick.mayOpen
  /\ pc \in Entering => tick.mayOpen
  /\ handled /\ task # "kill" => NoBuys

LEMMA AllKnownStep == ASSUME "post" \notin Faults, Sound, AllKnown, Next PROVE AllKnown'
<1>1. CASE Unmoved \/ Withdraws
  BY <1>1 DEF Unmoved, venueVars, Withdraws, Withdrawn, AllKnown
<1>2. CASE Fills
  <2>1. PICK o \in Ids : Filled(o)
    BY <1>2 DEF Fills
  <2> QED
    BY <2>1 DEF Filled, AllKnown
<1>3. ASSUME NEW m \in 0 .. Size, PostEntry(m) \/ PostExit(m) PROVE AllKnown'
  <2>1. PICK side, w, n : Arrived(Fresh, side, w, n, m, TRUE)
    BY <1>3, PostEntryPlaces, PostExitPlaces
  <2> QED
    BY <2>1 DEF Arrived, AllKnown
<1>4. CASE TickSteps \/ Crash \/ World
  <2>1. ASSUME NEW o \in Ids, Fill(o) PROVE Fills
    BY <2>1, FillFills DEF Fill, Fills, Sound
  <2> QED
    BY <1>1, <1>2, <1>4, <2>1, CloseBookMoves
       DEF TickSteps, EnforceKillSwitch, Stop, Hold, SettleDue,
       ExitDue, Crash, World, NextWindow, ToggleKill, Unmoved
<1>5. CASE EntrySteps
  BY <1>1, <1>3, <1>5
     DEF EntrySteps, SkipEntry, InsertRow, BlockEntry, JournalEntry, TrackEntry, DeleteRow, Unmoved
<1>6. CASE ExitSteps
  BY <1>1, <1>3, <1>6, ExitTimeoutMoves
     DEF ExitSteps, NothingToSell, ExitBlocked, ExitFilled, CloseRow, Settle,
     RegisterCancelledExit, Unmoved
<1> QED
  BY <1>1, <1>4, <1>5, <1>6, BootMoves, CancelMoves DEF Next, Runner

\* No BUY starts to work.
LEMMA NoBuysKept == ASSUME Sound, Next, NoBuys, Unmoved \/ Withdraws \/ Fills PROVE NoBuys'
<1>1. \A o \in Ids : orders'[o].live => orders[o].live /\ orders'[o].side = orders[o].side
  <2>1. CASE Unmoved \/ Withdraws
    BY <2>1 DEF Unmoved, venueVars, Withdraws, Withdrawn
  <2>2. CASE Fills
    <3>1. PICK o \in Ids : orders[o].live /\ Filled(o)
      BY <2>2 DEF Fills
    <3> QED
      BY <3>1 DEF Filled
  <2> QED
    BY <2>1, <2>2
<1> QED
  BY <1>1 DEF NoBuys

\* Handled or not, nothing changes, and the sweep goes on or has ended well.
LEMMA QuietKept ==
  ASSUME Sound, Next, Quiet, Unmoved \/ Withdraws \/ Fills, handled' => handled, tick' = tick,
         pc' \in Entering => tick.mayOpen, handled' /\ task' # "kill" => task # "kill" \/ NoBuys
  PROVE  Quiet'
  BY NoBuysKept DEF Quiet

\* The sweep has ended: the only order that may work is the exit's.
LEMMA NoBuysLeft ==
  ASSUME Sound, Tracked, AllKnown, pc \notin {"off", "journal", "track"},
         mem.order # None => ~orders[mem.order].live
  PROVE  NoBuys
<1>1. ASSUME NEW o \in Ids, orders[o].live PROVE orders[o].side = "sell"
  <2>1. o \in Working
    BY <1>1 DEF AllKnown, Working
  <2>2. o = mem.exit /\ o # None
    BY <1>1, <2>1, NoneAssumption DEF Tracked, Held, Ids
  <2> QED
    BY <2>2, WorkingExit
<1> QED
  BY <1>1 DEF NoBuys

LEMMA QuietStep == ASSUME CallsAnswered, Sound, Tracked, AllKnown, Quiet, Next PROVE Quiet'
<1> USE DEF Goto
<1>1. TypeOK /\ Errands /\ Memory
  BY DEF Sound
<1>2. CASE Boot
  <2>1. Unmoved \/ Withdraws
    BY <1>2, BootMoves
  <2>2. (handled' => handled) /\ tick' = tick /\ pc' \notin Entering /\ task' = task
    <3>1. ASSUME NEW m \in 1 .. Size, BootAdopt(m)
          PROVE  handled' = handled /\ tick' = tick /\ pc' = "idle" /\ task' = task
      BY <3>1 DEF BootAdopt
    <3>2. CASE BootCancelAll \/ BootFlat \/ BootRefused
      BY <3>2 DEF BootCancelAll, BootFlat, BootRefused, Entering
    <3> QED
      BY <1>2, <3>1, <3>2 DEF Boot, Entering
  <2> QED
    BY <2>1, <2>2, QuietKept
<1>3. CASE EnforceKillSwitch
  <2>1. Unmoved /\ tick'.mayOpen = ~kill /\ handled' = kill /\ pc' \in {"cancelExit", "close"}
        /\ (kill /\ ~handled => task' = "kill") /\ task = "none"
    BY <1>1, <1>3 DEF EnforceKillSwitch, Unmoved, Errands, Cancelling, Selling
  <2>2. handled' /\ task' # "kill" => NoBuys'
    BY <2>1, NoBuysKept DEF Quiet
  <2> QED
    BY <2>1, <2>2 DEF Quiet, Entering
<1>4. CASE Stop \/ Hold \/ SettleDue \/ \E b \in BOOLEAN : ExitDue(b)
  <2>1. task = "none"
    BY <1>1, <1>4 DEF Stop, Hold, SettleDue, ExitDue, Errands, Cancelling, Selling
  <2>2. Unmoved /\ handled' = handled /\ tick' = tick /\ pc' \notin Entering
    BY <1>4 DEF Stop, Hold, SettleDue, ExitDue, Unmoved, Entering
  <2> QED
    BY <2>1, <2>2, QuietKept
<1>5. CASE SkipEntry \/ InsertRow \/ BlockEntry \/ JournalEntry \/ TrackEntry \/ DeleteRow
  <2>1. task = "none"
    BY <1>1, <1>5
       DEF SkipEntry, InsertRow, BlockEntry, JournalEntry, TrackEntry, DeleteRow, Errands,
           Cancelling,
       Selling
  <2>2. Unmoved /\ handled' = handled /\ tick' = tick /\ (pc' \in Entering => tick.mayOpen)
    BY <1>5
       DEF SkipEntry, InsertRow, BlockEntry, JournalEntry, TrackEntry, DeleteRow, Unmoved, Entering,
           Quiet
  <2> QED
    BY <2>1, <2>2, QuietKept
<1>6. ASSUME NEW m \in 0 .. Size, PostEntry(m) PROVE Quiet'
  <2>1. tick.mayOpen /\ ~handled /\ UNCHANGED <<tick, handled>>
    BY <1>6 DEF PostEntry, Quiet, Entering
  <2> QED
    BY <2>1 DEF Quiet
<1>7. CASE CancelSteps
  <2>1. UNCHANGED <<tick, handled>> /\ pc' \notin Entering /\ pc \notin {"off", "journal", "track"}
    BY <1>7
       DEF CancelSteps, CancelExit, CancelEntry, RegisterStaleExit, CaptureMatched, AfterCancel,
           ExitOver, Entering
  <2>2. task = "kill" => task' = "kill" \/ mem.order = None \/ pc = "entryInfo"
    <3>1. ASSUME NEW ok \in BOOLEAN, CancelExit(ok) PROVE task = "kill" => task' = "kill"
      BY <3>1 DEF CancelExit
    <3>2. ASSUME NEW ok \in BOOLEAN, CancelEntry(ok) PROVE task' = task \/ mem.order = None
      BY <3>2 DEF CancelEntry, TryCancel, CallsAnswered
    <3> QED
      BY <1>7, <3>1, <3>2 DEF CancelSteps, RegisterStaleExit, CaptureMatched
  <2>3. mem.order = None \/ pc = "entryInfo" => NoBuys
    BY <2>1, NoBuysLeft DEF Tracked
  <2> QED
    BY <1>7, <2>1, <2>2, <2>3, CancelMoves, QuietKept
<1>8. CASE \/ NothingToSell \/ ExitBlocked \/ ExitFilled \/ CloseRow
           \/ \E n \in 0 .. Size : Settle(n) \/ RegisterCancelledExit(n)
           \/ \E ok \in BOOLEAN : ExitTimeout(ok)
  <2>1. task # "kill"
    BY <1>1, <1>8
       DEF NothingToSell, ExitBlocked, ExitFilled, CloseRow, Settle, RegisterCancelledExit,
           ExitTimeout,
       Errands, Cancelling, Selling
  <2>2. UNCHANGED <<tick, handled>> /\ pc' \notin Entering
    BY <1>8
       DEF NothingToSell, ExitBlocked, ExitFilled, CloseRow, Settle, RegisterCancelledExit,
           ExitTimeout,
       RegisterExit, ExitOver, Entering
  <2>3. Unmoved \/ Withdraws
    BY <1>8, ExitTimeoutMoves
       DEF NothingToSell, ExitBlocked, ExitFilled, CloseRow, Settle, RegisterCancelledExit,
       Unmoved
  <2> QED
    BY <2>1, <2>2, <2>3, QuietKept
<1>9. ASSUME NEW m \in 0 .. Size, PostExit(m) PROVE Quiet'
  <2>1. task # "kill" /\ UNCHANGED <<tick, handled>> /\ pc' \notin Entering
    BY <1>1, <1>9, PostExitPlaces DEF PostExit, ExitOver, Errands, Selling, Entering
  <2>2. PICK w, n, known : Arrived(Fresh, "sell", w, n, m, known)
    BY <1>9, PostExitPlaces
  <2>3. NoBuys => NoBuys'
    BY <2>2 DEF Arrived, NoBuys
  <2> QED
    BY <2>1, <2>3 DEF Quiet
<1>10. CASE World
  <2>1. UNCHANGED <<tick, handled, pc, task>>
    BY <1>10 DEF World, NextWindow, ToggleKill, Fill, CloseBook
  <2>2. Unmoved \/ Withdraws \/ Fills
    <3>1. ASSUME NEW o \in Ids, Fill(o) PROVE Fills
      BY <1>1, <3>1, FillFills DEF Fill, Fills, Sound
    <3> QED
      BY <1>10, <3>1, CloseBookMoves DEF World, NextWindow, ToggleKill, Unmoved
  <2> QED
    BY <2>1, <2>2, QuietKept DEF Quiet
<1>11. CASE Crash
  <2>1. ~handled' /\ pc' \notin Entering
    BY <1>11 DEF Crash, Entering
  <2> QED
    BY <2>1 DEF Quiet
<1> QED
  BY <1>2, <1>3, <1>4, <1>5, <1>6, <1>7, <1>8, <1>9, <1>10, <1>11
     DEF Next, Runner, TickSteps, EntrySteps, ExitSteps

\* Every call but a lookup answered: between two phases of a tick no BUY works once
\* the kill file has been handled, although a tick that began without the file may
\* still be posting when it appears, and the sweep is skipped when it was handled
\* before (live.py:18-19, 633-658, 1313-1317).
THEOREM KillQuietsAlways == ASSUME CallsAnswered PROVE Spec => []KillQuiets
<1>1. CancelsCount /\ "post" \notin Faults
  BY DEF CallsAnswered, CancelsCount
<1>2. Init => Tracked /\ AllKnown /\ Quiet
  BY DEF Init, Tracked, Working, NoOrder, Flat, AllKnown, Quiet, Entering
<1>3. Sound /\ Tracked /\ AllKnown /\ Quiet /\ [Next]_vars => (Tracked /\ AllKnown /\ Quiet)'
  <2>1. CASE UNCHANGED vars
    BY <2>1 DEF vars, venueVars, Tracked, Working, Held, AllKnown, Quiet, NoBuys
  <2> QED
    BY <1>1, <2>1, TrackedStep, AllKnownStep, QuietStep
<1>4. Sound /\ Quiet => KillQuiets
  BY DEF Sound, Errands, Cancelling, Selling, Quiet, NoBuys, KillQuiets
<1> QED
  BY SoundInit, SoundStep, <1>2, <1>3, <1>4, PTL DEF Spec

-----------------------------------------------------------------------------
(* What the ledger row stands for: nothing real exists outside it, which   *)
(* makes the loop and the executor implement PositionSlot, and what was    *)
(* bought under it is booked when it is closed.                            *)

\* The calls whose failure loses sight of an order: a placement that is never
\* answered, a fill that is not seen, a settlement that does not wait for its
\* cancel, an entry that dies before it is journaled.
NothingMissed ==
  {"post", "lookup"} \cap Faults = {} /\ CancelsCount /\ "journal" \notin CrashPoints

\* Windows whose shares are at stake.
Counted(w) == w \in trading /\ (w >= win \/ Style = "scalp")

-----------------------------------------------------------------------------
(* The row is of a window that has begun, and rolls before it settles.     *)
Clock ==
  /\ tick.win <= win
  /\ row # None => row <= win /\ (tick.win \in Windows => row <= tick.win)
  /\ task = "settle" \/ pc = "settle" => row # tick.win

LEMMA Numbers == ASSUME Sound PROVE win \in Windows /\ tick.win \in Nat /\ (row # None => row \in Windows)
  BY DEF Sound, TypeOK, Ticks, Windows

LEMMA ClockKept ==
  ASSUME Sound, Clock, row' \in {row, None}, tick' = tick, win' \in Nat, win <= win',
         task' = "settle" \/ pc' = "settle" => (task = "settle" \/ pc = "settle") /\ row' = row
  PROVE  Clock'
<1>1. tick.win <= win'
  BY Numbers DEF Clock, Windows
<1>2. row' # None => row' <= win' /\ (tick.win \in Windows => row' <= tick.win)
  BY Numbers DEF Clock, Windows
<1> QED
  BY <1>1, <1>2 DEF Clock

LEMMA ClockStep == ASSUME Sound, Clock, Next PROVE Clock'
<1> USE DEF Goto
<1>1. TypeOK /\ Errands /\ Memory /\ win \in Nat /\ win <= win
  BY Numbers DEF Sound, Windows
<1>2. CASE Boot
  <2>1. ASSUME NEW m \in 1 .. Size, BootAdopt(m) PROVE UNCHANGED <<row, tick, win, task>> /\ pc' = "idle"
    BY <2>1 DEF BootAdopt, ledgerVars
  <2>2. row' \in {row, None} /\ UNCHANGED <<tick, win, task>> /\ pc' # "settle" /\ task # "settle"
    <3>1. pc \in {"off", "adopt"} /\ task = "none"
      BY <1>1, <1>2
         DEF Boot, BootCancelAll, BootFlat, BootAdopt, BootRefused, Errands, Cancelling, Selling
    <3>2. CASE BootCancelAll \/ BootFlat \/ BootRefused
      BY <3>1, <3>2 DEF BootCancelAll, BootFlat, BootRefused, ledgerVars
    <3> QED
      BY <1>2, <2>1, <3>1, <3>2 DEF Boot
  <2> QED
    BY <1>1, <2>2, ClockKept
<1>3. CASE EnforceKillSwitch
  <2>1. /\ tick' = [win |-> win, mayOpen |-> ~kill] /\ UNCHANGED <<row, win>>
        /\ pc' # "settle" /\ task' # "settle"
    BY <1>3 DEF EnforceKillSwitch, ledgerVars
  <2>2. tick'.win = win
    BY <2>1
  <2> QED
    BY <1>1, <2>1, <2>2 DEF Clock
<1>4. CASE SettleDue
  <2>1. UNCHANGED <<row, tick, win>> /\ row # tick.win
    BY <1>4 DEF SettleDue, ledgerVars
  <2> QED
    BY <2>1 DEF Clock
<1>5. CASE Stop \/ Hold \/ \E b \in BOOLEAN : ExitDue(b)
  <2>1. UNCHANGED <<row, tick, win>> /\ pc' # "settle" /\ task' # "settle"
    BY <1>5 DEF Stop, Hold, ExitDue, ledgerVars
  <2> QED
    BY <1>1, <2>1, ClockKept
<1>6. CASE InsertRow
  <2>1. row' = tick.win /\ UNCHANGED <<tick, win>> /\ pc' = "post" /\ task' = "none" /\ tick.win <= tick.win
    BY <1>1, <1>6, Numbers DEF InsertRow
  <2> QED
    BY <2>1 DEF Clock
<1>7. CASE SkipEntry \/ BlockEntry \/ JournalEntry \/ TrackEntry \/ DeleteRow \/ \E m \in 0 .. Size : PostEntry(m)
  <2>1. row' \in {row, None} /\ UNCHANGED <<tick, win>> /\ pc' # "settle" /\ task' # "settle"
    BY <1>7 DEF SkipEntry, BlockEntry, JournalEntry, TrackEntry, DeleteRow, PostEntry, ledgerVars
  <2> QED
    BY <1>1, <2>1, ClockKept
<1>8. CASE CancelSteps
  <2>1. UNCHANGED <<row, tick, win>> /\ (task' = "settle" \/ pc' = "settle" => task = "settle")
    BY <1>8
       DEF CancelSteps, CancelExit, CancelEntry, RegisterStaleExit, CaptureMatched, AfterCancel,
           ExitOver,
       ledgerVars
  <2> QED
    BY <1>1, <2>1, ClockKept
<1>9. CASE ExitSteps
  <2>1. row' \in {row, None} /\ UNCHANGED <<tick, win>> /\ pc' # "settle"
    BY <1>9 DEF ExitSteps, NothingToSell, ExitBlocked, ExitFilled, CloseRow, Settle, PostExit,
       RegisterCancelledExit, ExitTimeout, RegisterExit, ExitOver, ledgerVars
  <2>2. task' # "settle"
    BY <1>1, <1>9 DEF ExitSteps, NothingToSell, ExitBlocked, ExitFilled, CloseRow, Settle, PostExit,
       RegisterCancelledExit, ExitTimeout, RegisterExit, ExitOver, Errands, Cancelling, Selling
  <2> QED
    BY <1>1, <2>1, <2>2, ClockKept
<1>10. CASE World
  <2>1. UNCHANGED <<row, tick, task, pc>> /\ win' \in {win, win + 1}
    BY <1>10 DEF World, NextWindow, ToggleKill, Fill, CloseBook, ledgerVars
  <2>2. win' \in Nat /\ win <= win'
    BY <1>1, <2>1
  <2> QED
    BY <2>1, <2>2, ClockKept
<1>11. CASE Crash
  <2>1. tick'.win = 0 /\ UNCHANGED <<row, win>> /\ pc' = "off" /\ task' = "none"
    BY <1>11 DEF Crash, NoTick, ledgerVars
  <2>2. 0 \notin Windows /\ 0 <= win
    BY <1>1 DEF Windows
  <2> QED
    BY <2>1, <2>2 DEF Clock
<1> QED
  BY <1>2, <1>3, <1>4, <1>5, <1>6, <1>7, <1>8, <1>9, <1>10, <1>11
     DEF Next, Runner, TickSteps, EntrySteps

\* Fewer and fewer shares of a window count.
LEMMA CountedShrinks == ASSUME Sound, Next, NEW w \in Windows, Counted(w)' PROVE Counted(w)
<1>1. trading' \subseteq trading
  BY VenueMoves DEF Unmoved, venueVars, Withdraws, Places, Fills
<1>2. win' \in {win, win + 1}
  <2>1. Runner \/ Crash => win' = win
    <3>1. Boot \/ TickSteps \/ Crash => win' = win
      BY
         DEF Boot, BootCancelAll, BootFlat, BootAdopt, BootRefused, TickSteps, EnforceKillSwitch,
             Stop, Hold,
         SettleDue, ExitDue, Crash
    <3>2. EntrySteps => win' = win
      BY
         DEF EntrySteps, SkipEntry, InsertRow, BlockEntry, PostEntry, JournalEntry, TrackEntry,
             DeleteRow
    <3>3. CancelSteps => win' = win
      BY DEF CancelSteps, CancelExit, CancelEntry, RegisterStaleExit, CaptureMatched
    <3>4. ExitSteps => win' = win
      BY DEF ExitSteps, NothingToSell, ExitBlocked, ExitFilled, CloseRow, Settle, PostExit,
         RegisterCancelledExit, ExitTimeout
    <3> QED
      BY <3>1, <3>2, <3>3, <3>4 DEF Runner
  <2> QED
    BY <2>1 DEF Next, World, NextWindow, ToggleKill, Fill, CloseBook
<1> QED
  BY <1>1, <1>2, Numbers DEF Counted, Windows

-----------------------------------------------------------------------------
(* Everything real belongs to the row.                                     *)

NoneLive == \A o \in Ids : ~orders[o].live

\* Before the entry and after the exit, nothing real is left.
Confined ==
  /\ \A o \in Ids : orders[o].live => orders[o].win = row
  /\ \A w \in Windows : w # row /\ Counted(w) => tokens[w] = 0
  /\ pc \in {"post", "delete", "closeRow"} => NoneLive /\ (Counted(row) => tokens[row] = 0)

\* The order of the row's entry.
Clip == IF pc \in {"journal", "track"} THEN resp.order ELSE journal[row].order

\* The journal names a BUY, the row's entry: the only BUY that may work, and all
\* that is held was matched by it.
Journaled ==
  /\ \A w \in Windows : journal[w].order # None => orders[journal[w].order].side = "buy"
  /\ pc = "track" => journal[row] = resp
  /\ mem.order # None => mem.order = Clip
  /\ row # None =>
       /\ \A o \in Ids : orders[o].live /\ orders[o].side = "buy" => o = Clip
       /\ Counted(row) => tokens[row] <= IF Clip = None THEN 0 ELSE orders[Clip].matched

\* Once its matched size is known, no BUY works, and what is held has not been sold.
Holds ==
  mem.open /\ mem.order = None =>
    NoBuys /\ (Counted(row) => tokens[row] + mem.sold + Pending(row) <= mem.matched)

Slotted == Sound /\ Tracked /\ AllKnown /\ Clock /\ Confined /\ Journaled /\ Holds

\* An order that stops working, or works on.
LEMMA LiveShrinks ==
  ASSUME Sound, Next, Unmoved \/ Withdraws \/ Fills, NEW o \in Ids, orders'[o].live
  PROVE  orders[o].live /\ orders'[o].side = orders[o].side /\ orders'[o].win = orders[o].win
<1>1. CASE Unmoved \/ Withdraws
  BY <1>1 DEF Unmoved, venueVars, Withdraws, Withdrawn
<1>2. CASE Fills
  <2>1. PICK p \in Ids : orders[p].live /\ Filled(p)
    BY <1>2 DEF Fills
  <2> QED
    BY <2>1 DEF Filled
<1> QED
  BY <1>1, <1>2

\* Shares come and go in a window whose order works, and nowhere else.
LEMMA TokensStay ==
  ASSUME Sound, Next, Unmoved \/ Withdraws \/ Fills, NEW w \in Windows,
         \A o \in Ids : orders[o].live => orders[o].win # w
  PROVE  tokens'[w] = tokens[w]
<1>1. CASE Fills
  <2>1. PICK o \in Ids : orders[o].live /\ Filled(o)
    BY <1>1 DEF Fills
  <2> QED
    BY <2>1 DEF Filled
<1> QED
  BY <1>1 DEF Unmoved, venueVars, Withdraws

\* The row stays.
LEMMA ConfinedKept ==
  ASSUME Sound, Confined, Next, Unmoved \/ Withdraws \/ Fills, row' = row,
         pc' \in {"post", "delete", "closeRow"} =>
           \/ pc \in {"post", "delete", "closeRow"}
           \/ NoneLive /\ row \in Windows /\ (Counted(row) => tokens[row] = 0)
  PROVE  Confined'
<1>1. \A o \in Ids : orders'[o].live => orders'[o].win = row
  BY LiveShrinks DEF Confined
<1>2. ASSUME NEW w \in Windows, w # row, Counted(w)' PROVE tokens'[w] = 0
  BY <1>2, CountedShrinks, TokensStay DEF Confined
<1>3. ASSUME pc' \in {"post", "delete", "closeRow"} PROVE NoneLive' /\ (Counted(row)' => tokens'[row] = 0)
  <2>1. NoneLive /\ row \in Windows /\ (Counted(row) => tokens[row] = 0)
    BY <1>3, Numbers DEF Confined, Sound, Errands, Entering
  <2>2. NoneLive'
    BY <2>1, LiveShrinks DEF NoneLive
  <2>3. ASSUME NEW w \in Windows, w = row PROVE Counted(w)' => tokens'[w] = 0
    BY <2>1, <2>3, CountedShrinks, TokensStay DEF NoneLive
  <2> QED
    BY <2>1, <2>2, <2>3 DEF Counted
<1> QED
  BY <1>1, <1>2, <1>3 DEF Confined

\* The row is closed or inserted.
LEMMA ConfinedMoves ==
  ASSUME Sound, Confined, Next, Unmoved, NoneLive,
         row \in Windows => (Counted(row) => tokens[row] = 0),
         pc' = "post" => row' \in Windows, pc' \notin {"delete", "closeRow"}
  PROVE  Confined'
<1>1. NoneLive' /\ tokens' = tokens
  BY DEF Unmoved, venueVars, NoneLive
<1>2. ASSUME NEW w \in Windows PROVE Counted(w)' => tokens'[w] = 0
  BY <1>1, CountedShrinks DEF Confined
<1> QED
  BY <1>1, <1>2 DEF Confined, NoneLive, Counted

\* Nobody is held, so nothing works.
LEMMA NoneHeld ==
  ASSUME Slotted, pc \notin {"off", "journal", "track"}, mem.order = None, mem.exit = None \/ ~orders[mem.exit].live
  PROVE  NoneLive
  BY NoneAssumption DEF Slotted, AllKnown, Working, Tracked, Held, NoneLive, Ids

\* A settlement: the window has rolled, and its entry does not work.
LEMMA SettledEmpty == ASSUME Slotted, pc = "settle" PROVE NoneLive /\ row \in Windows /\ ~Counted(row)
<1>1. Style = "settle" /\ task = "none" /\ row \in Windows /\ tick.win \in Windows
  BY ChoiceAssumption DEF Slotted, Sound, TypeOK, Errands, Cancelling, Selling
<1>2. row < win
  BY <1>1, Numbers, NoneAssumption DEF Slotted, Clock, Windows
<1>3. mem.order = None /\ mem.exit = None
  BY <1>1 DEF Slotted, Tracked
<1> QED
  BY <1>1, <1>2, <1>3, NoneHeld, Numbers DEF Slotted, Counted, Windows

LEMMA UnsoldEmpty ==
  ASSUME Slotted, pc = "sell", Remaining = 0
  PROVE  NoneLive /\ row \in Windows /\ (Counted(row) => tokens[row] = 0)
<1>1. row \in Windows /\ mem.open /\ mem.order = None /\ mem.exit = None /\ mem.matched # None
  BY DEF Slotted, Sound, TypeOK, Memory, Errands, Entering, Selling
<1>2. mem.matched \in Nat /\ mem.sold \in Nat /\ tokens[row] \in Nat /\ Pending(row) \in Nat
  BY <1>1, PendingNat, BoundsAssumption DEF Slotted, Sound, TypeOK, Memories, Amounts
<1>3. mem.matched <= mem.sold
  BY <1>1, <1>2 DEF Remaining, Above, Num
<1> QED
  BY <1>1, <1>2, <1>3, NoneHeld DEF Slotted, Holds

LEMMA SoldEmpty ==
  ASSUME Slotted, pc \in {"await", "sellInfo"}, mem.exit # None, ~orders[mem.exit].live,
         mem.sold + orders[mem.exit].matched >= Num(mem.matched)
  PROVE  NoneLive /\ row \in Windows /\ (Counted(row) => tokens[row] = 0)
<1>1. /\ row \in Windows /\ mem.open /\ mem.order = None /\ mem.win = row
      /\ {mem.matched, mem.sold, orders[mem.exit].matched} \subseteq Amounts
  BY WorkingExit DEF Slotted
<1>2. mem.matched \in Nat /\ mem.sold \in Nat /\ tokens[row] \in Nat /\ orders[mem.exit].matched \in Nat
  BY <1>1, BoundsAssumption DEF Slotted, Sound, TypeOK, Amounts
<1>3. Pending(row) = orders[mem.exit].matched /\ Num(mem.matched) = mem.matched
  BY <1>1, <1>2, NoneAssumption DEF Pending, Num
<1> QED
  BY <1>1, <1>2, <1>3, NoneHeld DEF Slotted, Holds

\* An exit order has filled, or was cancelled.
LEMMA ExitOrderDone ==
  ASSUME Slotted, NothingMissed, ExitFilled \/ \E n \in 0 .. Size : RegisterCancelledExit(n)
  PROVE  /\ mem.exit # None /\ ~orders[mem.exit].live /\ task \in {"exit", "flatten"}
         /\ RegisterExit(orders[mem.exit].matched, ExitOver)
<1>1. mem.exit # None /\ task \in {"exit", "flatten"}
  BY DEF Slotted, Sound, Memory, Errands, Selling, ExitFilled, RegisterCancelledExit
<1>2. CASE ExitFilled
  <2>1. orders[mem.exit].size = orders[mem.exit].matched
    BY <1>2 DEF ExitFilled, WholeSizeMatched
  <2>2. ~orders[mem.exit].live
    BY <1>1, <2>1, WorkingExit, BoundsAssumption DEF Slotted, Sound, Exchange, Amounts
  <2> QED
    BY <1>1, <1>2, <2>1, <2>2 DEF ExitFilled
<1>3. ASSUME NEW n \in 0 .. Size, RegisterCancelledExit(n) PROVE ~orders[mem.exit].live /\ n = orders[mem.exit].matched
  BY <1>3 DEF RegisterCancelledExit, Looked, Unanswered, NothingMissed, Slotted, Tracked
<1> QED
  BY <1>1, <1>2, <1>3 DEF RegisterCancelledExit

LEMMA ConfinedStep == ASSUME NothingMissed, Slotted, Next PROVE Confined'
<1> USE DEF Goto
<1>1. Sound /\ Confined /\ TypeOK /\ Errands /\ Memory
  BY DEF Slotted, Sound
<1>2. CASE BootFlat
  <2>1. NoneLive /\ Unmoved /\ pc' = "idle"
    BY <1>2 DEF BootFlat, Slotted, Tracked, NoneLive, Unmoved
  <2>2. row \in Windows => (Counted(row) => tokens[row] = 0)
    <3>1. ASSUME row \in Windows, Counted(row) PROVE tokens[row] <= 0 /\ tokens[row] \in Nat
      BY <1>1, <1>2, <3>1, NoneAssumption
         DEF BootFlat, Entry, Clip, Slotted, Journaled, Unanswered, NothingMissed,
         TypeOK, Windows
    <3> QED
      BY <3>1
  <2> QED
    BY <1>1, <2>1, <2>2, ConfinedMoves
<1>3. CASE BootCancelAll \/ BootRefused \/ \E m \in 1 .. Size : BootAdopt(m)
  <2>1. row' = row /\ pc' \in {"adopt", "off", "idle"}
    BY <1>3 DEF BootCancelAll, BootRefused, BootAdopt, ledgerVars
  <2> QED
    BY <1>1, <1>3, <2>1, BootMoves, ConfinedKept DEF Boot
<1>4. CASE TickSteps
  <2>1. row' = row /\ Unmoved
    BY <1>4 DEF TickSteps, EnforceKillSwitch, Stop, Hold, SettleDue, ExitDue, Unmoved, ledgerVars
  <2>2. pc' \notin {"post", "delete", "closeRow"}
    BY <1>1, <1>4 DEF TickSteps, EnforceKillSwitch, Stop, Hold, SettleDue, ExitDue, Memory, Entering
  <2> QED
    BY <1>1, <2>1, <2>2, ConfinedKept
<1>5. CASE SkipEntry \/ BlockEntry \/ JournalEntry \/ TrackEntry \/ Crash
  <2>1. row' = row /\ Unmoved /\ (pc' \in {"post", "delete", "closeRow"} => pc = "post")
    BY <1>5 DEF SkipEntry, BlockEntry, JournalEntry, TrackEntry, Crash, Unmoved, ledgerVars
  <2> QED
    BY <1>1, <2>1, ConfinedKept
<1>6. CASE InsertRow
  <2>1. row = None /\ row' = tick.win /\ tick.win \in Windows /\ Unmoved /\ pc' = "post"
    BY <1>1, <1>6 DEF InsertRow, Errands, Cancelling, Selling, Unmoved
  <2>2. NoneLive
    BY <1>1, <2>1, NoneAssumption DEF Confined, NoneLive, Sound, Exchange, Windows
  <2> QED
    BY <1>1, <2>1, <2>2, NoneAssumption, ConfinedMoves DEF Windows
<1>7. CASE DeleteRow \/ CloseRow
  <2>1. Unmoved /\ pc' \notin {"post", "delete", "closeRow"}
    BY <1>7 DEF DeleteRow, CloseRow, ExitOver, Unmoved
  <2> QED
    BY <1>1, <1>7, <2>1, ConfinedMoves DEF DeleteRow, CloseRow, Confined
<1>8. ASSUME NEW m \in 0 .. Size, PostEntry(m) PROVE Confined'
  <2>1. /\ Arrived(Fresh, "buy", row, Size, m, TRUE) /\ pc' = "journal" /\ row' = row
        /\ row \in Windows /\ NoneLive
    BY <1>1, <1>8, PostEntryPlaces
       DEF NothingMissed, PostEntry, Errands, Entering, TypeOK, Confined, ledgerVars
  <2>2. \A o \in Ids : orders'[o].live => orders'[o].win = row
    BY <2>1 DEF Arrived, NoneLive
  <2>3. \A w \in Windows : w # row /\ Counted(w)' => tokens'[w] = 0
    BY <1>1, <2>1, CountedShrinks DEF Arrived, Confined
  <2> QED
    BY <2>1, <2>2, <2>3 DEF Confined
<1>9. ASSUME NEW m \in 0 .. Size, PostExit(m) PROVE Confined'
  <2>1. /\ Arrived(Fresh, "sell", row, Remaining, m, TRUE) /\ pc' = "await" /\ row' = row
        /\ row \in Windows
    BY <1>1, <1>9, PostExitPlaces
       DEF NothingMissed, PostExit, Errands, Selling, TypeOK, Memory, Entering, ledgerVars
  <2>2. \A o \in Ids : orders'[o].live => orders'[o].win = row
    BY <1>1, <2>1 DEF Arrived, Confined
  <2>3. \A w \in Windows : w # row /\ Counted(w)' => tokens'[w] = 0
    BY <1>1, <2>1, CountedShrinks DEF Arrived, Confined
  <2> QED
    BY <2>1, <2>2, <2>3 DEF Confined
<1>10. CASE CancelSteps
  <2>1. row' = row /\ pc' \notin {"post", "delete", "closeRow"}
    BY <1>10
       DEF CancelSteps, CancelExit, CancelEntry, RegisterStaleExit, CaptureMatched, AfterCancel,
           ExitOver, ledgerVars
  <2> QED
    BY <1>1, <1>10, <2>1, CancelMoves, ConfinedKept
<1>11. CASE ExitBlocked \/ \E ok \in BOOLEAN : ExitTimeout(ok)
  <2>1. row' = row /\ pc' \notin {"post", "delete", "closeRow"} /\ (Unmoved \/ Withdraws)
    BY <1>1, <1>11, ExitTimeoutMoves DEF ExitBlocked, ExitTimeout, ExitOver, Unmoved, ledgerVars
  <2> QED
    BY <1>1, <2>1, ConfinedKept
<1>12. CASE NothingToSell \/ \E n \in 0 .. Size : Settle(n)
  <2>1. row' = row /\ Unmoved /\ (pc = "settle" \/ (pc = "sell" /\ Remaining = 0))
    BY <1>12 DEF NothingToSell, Settle, Unmoved, ledgerVars
  <2> QED
    BY <1>1, <2>1, SettledEmpty, UnsoldEmpty, ConfinedKept
<1>13. CASE ExitFilled \/ \E n \in 0 .. Size : RegisterCancelledExit(n)
  <2>1. row' = row /\ Unmoved /\ pc \in {"await", "sellInfo"}
    BY <1>13 DEF ExitFilled, RegisterCancelledExit, Unmoved, ledgerVars
  <2>2. /\ mem.exit # None /\ ~orders[mem.exit].live
        /\ \/ mem.sold + orders[mem.exit].matched >= Num(mem.matched)
           \/ pc' \notin {"post", "delete", "closeRow"}
    BY <1>13, ExitOrderDone DEF RegisterExit, ExitOver
  <2> QED
    BY <1>1, <2>1, <2>2, SoldEmpty, ConfinedKept
<1>14. CASE World
  <2>1. row' = row /\ pc' = pc /\ (Unmoved \/ Withdraws \/ Fills)
    <3>1. ASSUME NEW o \in Ids, Fill(o) PROVE Fills
      BY <1>1, <3>1, FillFills DEF Fill, Fills, Sound
    <3> QED
      BY <1>1, <1>14, <3>1, CloseBookMoves
         DEF World, NextWindow, ToggleKill, Fill, CloseBook, Unmoved, ledgerVars
  <2> QED
    BY <1>1, <2>1, ConfinedKept
<1> QED
  BY <1>2, <1>3, <1>4, <1>5, <1>6, <1>7, <1>8, <1>9, <1>10, <1>11, <1>12, <1>13, <1>14
     DEF Next, Runner, Boot, EntrySteps, ExitSteps

-----------------------------------------------------------------------------
\* The order of the row's entry is kept.
LEMMA ClipKept ==
  ASSUME Slotted, Next, Clip # None, row # None
  PROVE  /\ orders[Clip].side = "buy" /\ orders'[Clip].side = "buy"
         /\ orders[Clip].matched \in Nat /\ orders'[Clip].matched \in Nat
         /\ orders[Clip].matched <= orders'[Clip].matched /\ Clip \in Ids
<1>1. Clip \in Ids /\ orders[Clip].side = "buy"
  BY Numbers DEF Slotted, Sound, TypeOK, Resps, Clip, Journaled, Placed
<1> QED
  BY <1>1, OrdersKept DEF Slotted, Kept

\* The journal keeps naming entries.
LEMMA JournalKept ==
  ASSUME Slotted, Next, NEW w \in Windows, journal[w].order # None
  PROVE  orders'[journal[w].order].side = "buy"
<1>1. journal[w].order \in Ids /\ orders[journal[w].order].side = "buy"
  BY DEF Slotted, Sound, TypeOK, Resps, Journaled
<1> QED
  BY <1>1, OrdersKept DEF Slotted, Kept

\* The row and its entry stay.
LEMMA JournaledKept ==
  ASSUME Slotted, Next, Unmoved \/ Withdraws \/ Fills, UNCHANGED <<row, journal>>,
         mem'.order \in {mem.order, None}, Clip' = Clip,
         pc' = "track" => pc = "track" /\ resp' = resp
  PROVE  Journaled'
<1>1. ASSUME row # None PROVE \A o \in Ids : orders'[o].live /\ orders'[o].side = "buy" => o = Clip
  BY <1>1, LiveShrinks DEF Slotted, Journaled
<1>2. ASSUME NEW w \in Windows, w = row, Counted(w)' PROVE tokens'[w] <= IF Clip = None THEN 0 ELSE orders'[Clip].matched
  <2>1. /\ tokens[w] <= IF Clip = None THEN 0 ELSE orders[Clip].matched
        /\ tokens[w] \in Nat /\ row # None
    BY <1>2, CountedShrinks, NoneAssumption DEF Slotted, Journaled, Sound, TypeOK, Windows, Counted
  <2>2. CASE Unmoved \/ Withdraws
    <3>1. tokens' = tokens /\ \A o \in Ids : orders'[o].matched = orders[o].matched
      BY <2>2, BuysKept DEF Unmoved, venueVars, Withdraws
    <3> QED
      BY <2>1, <3>1, ClipKept
  <2>3. CASE Fills
    <3>1. PICK o \in Ids : orders[o].live /\ Filled(o) /\ orders[o].win \in Windows
      BY <2>3 DEF Fills
    <3>2. CASE orders[o].side = "buy"
      <4>1. o = Clip /\ o # None /\ orders[o].win = w
        BY <1>2, <2>1, <3>1, <3>2, NoneAssumption DEF Slotted, Journaled, Confined, Ids
      <4>2. tokens'[w] = tokens[w] + 1 /\ orders'[o].matched = orders[o].matched + 1
        BY <3>1, <3>2, <4>1 DEF Filled
      <4> QED
        BY <2>1, <4>1, <4>2, ClipKept
    <3>3. CASE orders[o].side # "buy"
      <4>1. tokens'[w] <= tokens[w] /\ tokens'[w] \in Nat
        BY <2>1, <3>1, <3>3 DEF Filled
      <4> QED
        BY <2>1, <4>1, ClipKept
    <3> QED
      BY <3>2, <3>3
  <2> QED
    BY <2>2, <2>3
<1>3. row # None => (Counted(row)' => tokens'[row] <= IF Clip = None THEN 0 ELSE orders'[Clip].matched)
  BY <1>2, Numbers DEF Slotted
<1>4. \A w \in Windows : journal'[w].order # None => orders'[journal'[w].order].side = "buy"
  BY JournalKept
<1>5. pc' = "track" => journal'[row'] = resp'
  BY DEF Slotted, Journaled
<1>6. mem'.order # None => mem'.order = Clip'
  BY DEF Slotted, Journaled
<1> QED
  BY <1>1, <1>3, <1>4, <1>5, <1>6 DEF Journaled

\* The row is closed.
LEMMA JournaledClosed ==
  ASSUME Slotted, Next, row' = None, UNCHANGED <<journal, mem>>, mem.order = None, pc' # "track"
  PROVE  Journaled'
  BY JournalKept DEF Journaled

LEMMA JournaledStep == ASSUME NothingMissed, Slotted, Next PROVE Journaled'
<1> USE DEF Goto
<1>1. Sound /\ Confined /\ Journaled /\ TypeOK /\ Errands /\ Memory /\ Placed
  BY DEF Slotted, Sound
<1>2. CASE Boot
  <2>1. CASE BootFlat
    <3>1. row' = None /\ UNCHANGED <<journal, mem>> /\ mem.order = None /\ pc' = "idle"
      BY <1>1, <2>1 DEF BootFlat, Memory, Flat
    <3> QED
      BY <3>1, JournaledClosed
  <2>2. CASE BootCancelAll \/ BootRefused \/ \E m \in 1 .. Size : BootAdopt(m)
    <3>1. mem'.order \in {mem.order, None} /\ UNCHANGED <<row, journal>>
      <4>1. ASSUME NEW m \in 1 .. Size, BootAdopt(m) PROVE mem'.order = None
        BY <4>1 DEF BootAdopt, Flat
      <4>2. CASE BootCancelAll \/ BootRefused
        BY <4>2 DEF BootCancelAll, BootRefused, Flat, ledgerVars
      <4> QED
        BY <2>2, <4>1, <4>2 DEF BootAdopt, ledgerVars
    <3>2. pc \notin {"journal", "track"} /\ pc' \notin {"journal", "track"}
      BY <2>2 DEF BootCancelAll, BootRefused, BootAdopt
    <3> QED
      BY <1>1, <1>2, <3>1, <3>2, BootMoves, JournaledKept DEF Clip
  <2> QED
    BY <1>2, <2>1, <2>2 DEF Boot
<1>3. CASE TickSteps \/ SkipEntry \/ BlockEntry
  <2>1. UNCHANGED <<row, journal, mem>> /\ Unmoved
    BY <1>3
       DEF TickSteps, EnforceKillSwitch, Stop, Hold, SettleDue, ExitDue, SkipEntry, BlockEntry,
           Unmoved, ledgerVars
  <2>2. pc \notin {"journal", "track"} /\ pc' \notin {"journal", "track"}
    BY <1>3 DEF TickSteps, EnforceKillSwitch, Stop, Hold, SettleDue, ExitDue, SkipEntry, BlockEntry
  <2> QED
    BY <2>1, <2>2, JournaledKept DEF Clip
<1>4. CASE InsertRow
  <2>1. /\ row = None /\ row' = tick.win /\ tick.win \in Windows /\ Unmoved /\ pc' = "post" /\ mem'.order = None
        /\ journal' = journal
    BY <1>1, <1>4 DEF InsertRow, ResyncFlat, Flat, Errands, Cancelling, Selling, Unmoved
  <2>2. orders' = orders /\ tokens' = tokens /\ \A o \in Ids : ~orders[o].live
    BY <1>1, <2>1, NoneAssumption DEF Confined, Sound, Exchange, Windows, Unmoved, venueVars
  <2>3. ASSUME NEW w \in Windows, w = row', Counted(w)' PROVE tokens'[w] = 0
    BY <1>1, <2>1, <2>2, <2>3, CountedShrinks, NoneAssumption DEF Confined, Windows
  <2>4. Clip' = journal[tick.win].order /\ (Clip' # None => Clip' \in Ids /\ orders[Clip'].matched \in Nat)
    BY <1>1, <2>1, BoundsAssumption DEF Clip, TypeOK, Resps, Orders, Amounts
  <2>5. Counted(row)' => tokens'[row'] <= IF Clip' = None THEN 0 ELSE orders'[Clip'].matched
    BY <2>1, <2>2, <2>3, <2>4 DEF Counted
  <2> QED
    BY <1>1, <2>1, <2>2, <2>5, JournalKept DEF Journaled
<1>5. ASSUME NEW m \in 0 .. Size, PostEntry(m) PROVE Journaled'
  <2>1. /\ Arrived(Fresh, "buy", row, Size, m, TRUE) /\ pc' = "journal" /\ resp' = [order |-> Fresh, filled |-> m]
        /\ row \in Windows /\ NoneLive /\ UNCHANGED <<row, journal>> /\ m \in Amounts
    BY <1>1, <1>5, PostEntryPlaces
       DEF NothingMissed, PostEntry, Errands, Entering, TypeOK, Confined, ledgerVars
  <2>2. Clip' = Fresh /\ Fresh # None /\ orders'[Fresh].matched = m /\ mem'.order = None
    BY <1>1, <1>5, <2>1, NoneAssumption DEF Clip, Arrived, Ids, PostEntry, Memory, Entering, Flat
  <2>3. \A o \in Ids : orders'[o].live => o = Fresh
    BY <2>1 DEF Arrived, NoneLive
  <2>4. ASSUME NEW w \in Windows, w = row, Counted(w)' PROVE tokens'[w] <= m
    <3>1. tokens[w] = 0 /\ tokens'[w] = tokens[w] + m /\ m \in Nat
      BY <1>1, <1>5, <2>1, <2>4, CountedShrinks, BoundsAssumption
         DEF Arrived, Confined, PostEntry, Amounts, Counted
    <3> QED
      BY <3>1
  <2>5. Counted(row)' => tokens'[row'] <= m
    BY <2>1, <2>4
  <2> QED
    BY <1>1, <2>1, <2>2, <2>3, <2>5, JournalKept DEF Journaled
<1>6. CASE JournalEntry
  <2>1. /\ pc = "journal" /\ pc' = "track" /\ journal' = [journal EXCEPT ![row] = resp] /\ row \in Windows
        /\ UNCHANGED <<row, mem, resp>> /\ Unmoved /\ orders' = orders
    BY <1>1, <1>6 DEF JournalEntry, Errands, Entering, TypeOK, Unmoved, venueVars, ledgerVars
  <2>2. Clip' = Clip /\ journal'[row] = resp /\ orders[resp.order].side = "buy"
    BY <1>1, <2>1 DEF Clip, Placed, TypeOK
  <2>3. \A w \in Windows : w # row => journal'[w] = journal[w]
    BY <1>1, <2>1 DEF TypeOK
  <2>4. \A w \in Windows : journal'[w].order # None => orders[journal'[w].order].side = "buy"
    BY <1>1, <2>2, <2>3 DEF Journaled
  <2>5. row # None => (Counted(row)' => tokens'[row'] <= IF Clip = None THEN 0 ELSE orders[Clip].matched)
    BY <1>1, <2>1, CountedShrinks DEF Journaled, Counted, Unmoved, venueVars
  <2> QED
    BY <1>1, <2>1, <2>2, <2>4, <2>5 DEF Journaled
<1>7. CASE TrackEntry
  <2>1. /\ pc = "track" /\ pc' = "idle" /\ mem'.order \in {resp.order, None}
        /\ UNCHANGED <<row, journal>> /\ Unmoved
    BY <1>7 DEF TrackEntry, Flat, Unmoved, ledgerVars
  <2>2. Clip' = Clip /\ Clip = resp.order
    BY <1>1, <2>1 DEF Clip, Journaled
  <2>4. \A w \in Windows : journal'[w].order # None => orders'[journal'[w].order].side = "buy"
    BY <2>1, JournalKept
  <2>5. orders' = orders /\ tokens' = tokens
    BY <2>1 DEF Unmoved, venueVars
  <2>6. row # None => (Counted(row)' => tokens'[row'] <= IF Clip = None THEN 0 ELSE orders[Clip].matched)
    BY <1>1, <2>1, <2>5, Numbers, CountedShrinks DEF Journaled, Counted
  <2> QED
    BY <1>1, <2>1, <2>2, <2>4, <2>5, <2>6 DEF Journaled
<1>8. CASE DeleteRow \/ CloseRow
  <2>1. row' = None /\ UNCHANGED <<journal, mem>> /\ mem.order = None /\ pc' # "track"
    BY <1>1, <1>8 DEF DeleteRow, CloseRow, ExitOver, Memory, Entering, Flat
  <2> QED
    BY <2>1, JournaledClosed
<1>9. CASE CancelSteps
  <2>1. UNCHANGED <<row, journal>> /\ pc \notin {"journal", "track"} /\ pc' \notin {"journal", "track"}
    BY <1>9
       DEF CancelSteps, CancelExit, CancelEntry, RegisterStaleExit, CaptureMatched, AfterCancel,
           ExitOver, ledgerVars
  <2>2. mem'.order \in {mem.order, None}
    BY <1>1, <1>9
       DEF CancelSteps, CancelExit, CancelEntry, RegisterStaleExit, CaptureMatched, TypeOK,
           Memories
  <2> QED
    BY <1>1, <1>9, <2>1, <2>2, CancelMoves, JournaledKept DEF Clip
<1>10. ASSUME NEW m \in 0 .. Size, PostExit(m) PROVE Journaled'
  <2>1. /\ Arrived(Fresh, "sell", row, Remaining, m, TRUE) /\ pc' = "await" /\ pc = "sell" /\ mem' = [mem EXCEPT !.exit = Fresh]
        /\ row \in Windows /\ UNCHANGED <<row, journal>> /\ m \in 0 .. Remaining /\ Remaining \in Amounts
    BY <1>1, <1>10, PostExitPlaces
       DEF NothingMissed, PostExit, Errands, Selling, TypeOK, Memory, Entering, ledgerVars
  <2>2. Clip' = Clip /\ mem'.order = mem.order
    BY <1>1, <2>1 DEF Clip, TypeOK, Memories
  <2>3. \A o \in Ids : orders'[o].live /\ orders'[o].side = "buy" => o = Clip
    BY <1>1, <2>1, NoneAssumption DEF Arrived, Journaled, Windows
  <2>4. ASSUME NEW w \in Windows, w = row, Counted(w)'
        PROVE  tokens'[w] <= IF Clip = None THEN 0 ELSE orders'[Clip].matched
    <3>1. /\ tokens[w] <= IF Clip = None THEN 0 ELSE orders[Clip].matched
          /\ tokens[w] \in Nat /\ row # None
      BY <1>1, <2>4, CountedShrinks, NoneAssumption DEF Journaled, TypeOK, Windows, Counted
    <3>2. m \in Nat /\ tokens'[w] = tokens[w] - m
      BY <2>1, <2>4, BoundsAssumption DEF Arrived, Amounts
    <3> QED
      BY <3>1, <3>2, ClipKept
  <2>5. Counted(row)' => tokens'[row'] <= IF Clip = None THEN 0 ELSE orders'[Clip].matched
    BY <2>1, <2>4
  <2> QED
    BY <1>1, <2>1, <2>2, <2>3, <2>5, JournalKept DEF Journaled
<1>11. CASE \/ NothingToSell \/ ExitBlocked \/ ExitFilled
            \/ \E n \in 0 .. Size : Settle(n) \/ RegisterCancelledExit(n)
            \/ \E ok \in BOOLEAN : ExitTimeout(ok)
  <2>1. UNCHANGED <<row, journal>> /\ pc \notin {"journal", "track"} /\ pc' \notin {"journal", "track"}
    BY <1>11
       DEF NothingToSell, ExitBlocked, ExitFilled, Settle, RegisterCancelledExit, ExitTimeout,
           RegisterExit,
       ExitOver, ledgerVars
  <2>2. mem'.order \in {mem.order, None}
    <3>1. \/ mem' = mem \/ mem' = Flat
          \/ \E n : mem' = [mem EXCEPT !.exit = None, !.sold = @ + n]
      BY <1>11
         DEF NothingToSell, ExitBlocked, ExitFilled, Settle, RegisterCancelledExit, ExitTimeout,
             RegisterExit
    <3>2. mem' = Flat => mem'.order = None
      BY DEF Flat
    <3> QED
      BY <1>1, <3>1, <3>2 DEF TypeOK, Memories
  <2>3. Unmoved \/ Withdraws
    BY <1>1, <1>11, ExitTimeoutMoves
       DEF NothingToSell, ExitBlocked, ExitFilled, Settle, RegisterCancelledExit, Unmoved
  <2> QED
    BY <2>1, <2>2, <2>3, JournaledKept DEF Clip
<1>12. CASE World
  <2>1. UNCHANGED <<row, journal, pc, resp, mem>> /\ (Unmoved \/ Withdraws \/ Fills)
    <3>1. ASSUME NEW o \in Ids, Fill(o) PROVE Fills
      BY <1>1, <3>1, FillFills DEF Fill, Fills, Sound
    <3> QED
      BY <1>1, <1>12, <3>1, CloseBookMoves
         DEF World, NextWindow, ToggleKill, Fill, CloseBook, Unmoved, ledgerVars
  <2>2. Clip' = Clip
    BY <2>1 DEF Clip
  <2> QED
    BY <2>1, <2>2, JournaledKept
<1>13. CASE Crash
  <2>1. UNCHANGED <<row, journal>> /\ Unmoved /\ pc' = "off" /\ mem'.order = None /\ pc # "journal"
    BY <1>13 DEF Crash, NothingMissed, Flat, Unmoved, ledgerVars
  <2>2. Clip' = Clip
    BY <1>1, <2>1 DEF Clip, Journaled
  <2> QED
    BY <2>1, <2>2, JournaledKept
<1> QED
  BY <1>2, <1>3, <1>4, <1>5, <1>6, <1>7, <1>8, <1>9, <1>10, <1>11, <1>12, <1>13
     DEF Next, Runner, EntrySteps, ExitSteps

-----------------------------------------------------------------------------
\* The executor's memory stays.
LEMMA HoldsKept ==
  ASSUME Slotted, Next, Unmoved \/ Withdraws \/ Fills, mem' = mem, mem.open => row' = row
  PROVE  Holds'
<1>1. SUFFICES ASSUME mem.open, mem.order = None
               PROVE  NoBuys' /\ (Counted(row)' => (tokens[row] + mem.sold + Pending(row) <= mem.matched)')
  BY DEF Holds
<1>2. NoBuys /\ NoBuys' /\ row \in Windows /\ row' = row /\ row # None
  BY <1>1, NoBuysKept DEF Slotted, Holds, Sound, Memory, TypeOK
<1>3. ASSUME NEW w \in Windows, w = row, Counted(w)'
      PROVE  tokens'[w] + mem.sold + Pending(w)' <= mem.matched
  <2>1. tokens[w] + mem.sold + Pending(w) <= mem.matched
    BY <1>1, <1>3, CountedShrinks DEF Slotted, Holds
  <2>2. tokens[w] \in Nat /\ mem.sold \in Nat /\ Pending(w) \in Nat
    BY PendingNat, BoundsAssumption DEF Slotted, Sound, TypeOK, Memories, Amounts
  <2>3. mem.matched \in Nat
    BY <1>1, BoundsAssumption DEF Slotted, Sound, TypeOK, Memories, Memory, Amounts
  <2>4. CASE Unmoved \/ Withdraws
    <3>1. tokens' = tokens /\ \A o \in Ids : orders'[o].matched = orders[o].matched
      BY <2>4, BuysKept DEF Unmoved, venueVars, Withdraws
    <3>2. Pending(w)' = Pending(w)
      BY <3>1, WorkingExit DEF Slotted, Pending
    <3> QED
      BY <2>1, <3>1, <3>2
  <2>5. CASE Fills
    <3>1. PICK o \in Ids : orders[o].live /\ Filled(o) /\ orders[o].win \in Windows
      BY <2>5 DEF Fills
    <3>2. orders[o].side = "sell" /\ orders[o].win = w
      BY <1>2, <1>3, <3>1 DEF NoBuys, Slotted, Confined
    <3>3. tokens'[w] = tokens[w] - 1 /\ orders'[o].matched = orders[o].matched + 1
      BY <3>1, <3>2 DEF Filled
    <3>4. CASE mem.exit = o
      <4>1. orders[o].matched \in Nat /\ Pending(w) = orders[o].matched /\ Pending(w)' = orders'[o].matched
        BY <1>3, <3>4, WorkingExit, BoundsAssumption, NoneAssumption
           DEF Slotted, Pending, Amounts, Ids
      <4> QED
        BY <2>1, <2>2, <2>3, <3>3, <4>1
    <3>5. CASE mem.exit # o
      <4>1. Pending(w)' = Pending(w)
        BY <3>1, <3>5, WorkingExit DEF Slotted, Pending, Filled
      <4> QED
        BY <2>1, <2>2, <2>3, <3>3, <4>1
    <3> QED
      BY <3>4, <3>5
  <2> QED
    BY <2>4, <2>5
<1>4. Counted(row)' => (tokens[row] + mem.sold + Pending(row) <= mem.matched)'
  BY <1>2, <1>3
<1> QED
  BY <1>2, <1>4

\* The executor tracks nothing any more.
LEMMA HoldsFlat == ASSUME mem' = Flat PROVE Holds'
  BY DEF Holds, Flat

\* An exit's fill is registered, and a part of the clip remains.
LEMMA HoldsRest ==
  ASSUME Slotted, Next, Unmoved, row' = row, mem.exit # None,
         mem' = [mem EXCEPT !.exit = None, !.sold = @ + orders[mem.exit].matched]
  PROVE  Holds'
<1>1. /\ mem.open /\ mem.order = None /\ row \in Windows /\ mem.win = row
      /\ orders[mem.exit].matched \in Nat /\ mem.sold \in Nat /\ mem.matched \in Nat
  BY WorkingExit, BoundsAssumption DEF Slotted, Amounts
<1>2. mem'.exit = None /\ mem'.sold = mem.sold + orders[mem.exit].matched /\ mem'.matched = mem.matched
  BY DEF Slotted, Sound, TypeOK, Memories
<1>3. NoBuys'
  BY <1>1, NoBuysKept DEF Slotted, Holds
<1>4. tokens' = tokens /\ Pending(row) = orders[mem.exit].matched
  BY <1>1 DEF Pending, Unmoved, venueVars
<1>5. ASSUME NEW w \in Windows, w = row, Counted(w)' PROVE tokens'[w] + mem'.sold + Pending(w)' <= mem'.matched
  <2>1. tokens[w] + mem.sold + Pending(w) <= mem.matched
    BY <1>1, <1>5, CountedShrinks DEF Slotted, Holds
  <2>2. Pending(w)' = 0 /\ tokens[w] \in Nat
    BY <1>2 DEF Pending, Slotted, Sound, TypeOK
  <2> QED
    BY <1>1, <1>2, <1>4, <1>5, <2>1, <2>2
<1>6. Counted(row)' => (tokens[row] + mem.sold + Pending(row) <= mem.matched)'
  BY <1>1, <1>5
<1> QED
  BY <1>3, <1>6 DEF Holds

\* The matched size of the entry has just been learnt.
LEMMA HoldsLearnt ==
  ASSUME Slotted, Next, Unmoved, row' = row, row \in Windows, NoBuys, mem'.sold = 0, mem'.exit = None,
         Counted(row) => tokens[row] <= mem'.matched
  PROVE  Holds'
<1>1. NoBuys' /\ tokens' = tokens /\ tokens[row] \in Nat
  BY NoBuysKept DEF Slotted, Unmoved, venueVars, Sound, TypeOK
<1>2. ASSUME NEW w \in Windows, w = row, Counted(w)' PROVE tokens'[w] + mem'.sold + Pending(w)' <= mem'.matched
  <2>1. Pending(w)' = 0 /\ tokens[w] <= mem'.matched
    BY <1>2, CountedShrinks DEF Pending, Slotted
  <2> QED
    BY <1>1, <1>2, <2>1
<1>3. Counted(row)' => (tokens[row] + mem.sold + Pending(row) <= mem.matched)'
  BY <1>2
<1> QED
  BY <1>1, <1>3 DEF Holds

LEMMA HoldsStep == ASSUME NothingMissed, Slotted, Next PROVE Holds'
<1> USE DEF Goto
<1>1. Sound /\ Confined /\ Journaled /\ TypeOK /\ Errands /\ Memory /\ Placed
  BY DEF Slotted, Sound
<1>2. CASE BootCancelAll \/ BootFlat \/ BootRefused
  <2>1. mem' = Flat \/ (mem' = mem /\ (mem.open => row' = row) /\ (Unmoved \/ Withdraws))
    BY <1>1, <1>2, BootMoves DEF Boot, BootCancelAll, BootFlat, BootRefused, Memory, ledgerVars
  <2> QED
    BY <2>1, HoldsFlat, HoldsKept
<1>3. ASSUME NEW m \in 1 .. Size, BootAdopt(m) PROVE Holds'
  <2>1. pc = "adopt" /\ Entry.order # None /\ row' = row /\ row \in Windows /\ row # None /\ Unmoved
    BY <1>1, <1>3 DEF BootAdopt, TypeOK, Unmoved, ledgerVars
  <2>2. NoBuys
    BY <2>1 DEF Slotted, Tracked, NoBuys
  <2>3. m = orders[Clip].matched /\ Clip # None
    BY <1>3, <2>1 DEF BootAdopt, Unanswered, NothingMissed, Clip, Entry
  <2>4. mem'.sold = 0 /\ mem'.exit = None /\ mem'.matched = m
    BY <1>3 DEF BootAdopt, Flat
  <2>5. Counted(row) => tokens[row] <= mem'.matched
    BY <1>1, <2>1, <2>3, <2>4 DEF Journaled
  <2> QED
    BY <2>1, <2>2, <2>4, <2>5, HoldsLearnt
<1>4. CASE TickSteps \/ SkipEntry \/ BlockEntry \/ JournalEntry \/ ExitBlocked
  <2>1. mem' = mem /\ row' = row /\ Unmoved
    BY <1>4
       DEF TickSteps, EnforceKillSwitch, Stop, Hold, SettleDue, ExitDue, SkipEntry, BlockEntry,
           JournalEntry,
       ExitBlocked, Unmoved, ledgerVars
  <2> QED
    BY <2>1, HoldsKept
<1>5. CASE InsertRow \/ NothingToSell \/ Crash \/ \E n \in 0 .. Size : Settle(n)
  BY <1>5, HoldsFlat DEF InsertRow, ResyncFlat, NothingToSell, Crash, Settle
<1>6. CASE DeleteRow \/ CloseRow \/ \E m \in 0 .. Size : PostEntry(m)
  <2>1. mem' = mem /\ ~mem.open
    BY <1>1, <1>6 DEF DeleteRow, CloseRow, PostEntry, Memory, Entering
  <2> QED
    BY <2>1 DEF Holds
<1>7. CASE TrackEntry
  <2>1. /\ mem' = [Flat EXCEPT !.open = TRUE, !.win = row,
                     !.matched = IF resp.filled >= Size THEN resp.filled ELSE None,
                     !.order = IF resp.filled >= Size THEN None ELSE resp.order]
        /\ pc = "track" /\ row' = row /\ row \in Windows /\ row # None /\ Unmoved
    BY <1>1, <1>7 DEF TrackEntry, Errands, Entering, TypeOK, Unmoved, ledgerVars
  <2>2. CASE ~(resp.filled >= Size)
    <3>1. mem'.order # None
      BY <1>1, <2>1, <2>2 DEF Flat, Placed
    <3> QED
      BY <3>1 DEF Holds
  <2>3. CASE resp.filled >= Size
    <3>1. mem'.sold = 0 /\ mem'.exit = None /\ mem'.matched = resp.filled
      BY <2>1, <2>3 DEF Flat
    <3>2. Clip = resp.order /\ Clip # None /\ Clip \in Ids /\ resp.filled \in Nat /\ orders[Clip].size = Size
          /\ orders[Clip].matched <= Size /\ orders[Clip].matched \in Nat /\ resp.filled <= orders[Clip].matched
      BY <1>1, <2>1, BoundsAssumption DEF Clip, Placed, TypeOK, Resps, Orders, Amounts
    <3>3. ~orders[Clip].live
      BY <1>1, <2>3, <3>2, BoundsAssumption DEF Sound, Exchange
    <3>4. NoBuys
      BY <1>1, <2>1, <3>3 DEF NoBuys, Journaled, Sound, Exchange, TypeOK, Orders
    <3>5. tokens[row] \in Nat /\ (Counted(row) => tokens[row] <= orders[Clip].matched)
      BY <1>1, <2>1, <3>2 DEF Journaled, TypeOK
    <3>6. Counted(row) => tokens[row] <= mem'.matched
      BY <2>3, <3>1, <3>2, <3>5, BoundsAssumption
    <3> QED
      BY <2>1, <3>1, <3>4, <3>6, HoldsLearnt
  <2> QED
    BY <2>2, <2>3
<1>8. ASSUME NEW ok \in BOOLEAN, CancelExit(ok) \/ CancelEntry(ok) PROVE Holds'
  <2>1. mem' = mem /\ row' = row /\ (Unmoved \/ Withdraws)
    BY <1>1, <1>8, CancelMoves DEF CancelSteps, CancelExit, CancelEntry, ledgerVars
  <2> QED
    BY <2>1, HoldsKept
<1>9. ASSUME NEW n \in 0 .. Size, RegisterStaleExit(n) PROVE Holds'
  <2>1. n = orders[mem.exit].matched /\ mem.exit # None /\ row' = row /\ Unmoved
    BY <1>1, <1>9
       DEF RegisterStaleExit, Looked, Unanswered, NothingMissed, Memory, Unmoved, ledgerVars
  <2> QED
    BY <1>9, <2>1, HoldsRest DEF RegisterStaleExit
<1>10. ASSUME NEW n \in 0 .. Size, CaptureMatched(n) PROVE Holds'
  <2>1. /\ mem.order # None /\ mem.exit = None /\ mem.sold = 0 /\ pc = "entryInfo" /\ mem.order = Clip
        /\ row' = row /\ row \in Windows /\ row # None /\ Unmoved
    BY <1>1, <1>10 DEF CaptureMatched, Memory, Flat, TypeOK, Journaled, Unmoved, ledgerVars
  <2>2. mem'.sold = 0 /\ mem'.exit = None /\ mem'.matched = n
    BY <1>1, <1>10, <2>1 DEF CaptureMatched, TypeOK, Memories
  <2>3. n = orders[Clip].matched
    BY <1>10, <2>1 DEF CaptureMatched, MatchedEntrySize, Looked, Unanswered, NothingMissed
  <2>4. NoBuys
    BY <2>1, NoBuysLeft DEF Slotted, Tracked
  <2>5. Counted(row) => tokens[row] <= mem'.matched
    BY <1>1, <2>1, <2>2, <2>3 DEF Journaled
  <2> QED
    BY <2>1, <2>2, <2>4, <2>5, HoldsLearnt
<1>11. ASSUME NEW m \in 0 .. Size, PostExit(m) PROVE Holds'
  <2>1. /\ Arrived(Fresh, "sell", row, Remaining, m, TRUE) /\ mem' = [mem EXCEPT !.exit = Fresh]
        /\ row \in Windows /\ row' = row /\ row # None /\ mem.win = row /\ m \in 0 .. Remaining /\ Remaining \in Amounts
    BY <1>1, <1>11, PostExitPlaces
       DEF NothingMissed, PostExit, Errands, Selling, TypeOK, Memory, Entering, ledgerVars
  <2>2. mem.open /\ mem.order = None /\ mem.exit = None /\ mem.matched # None
    BY <1>1, <1>11, <2>1 DEF PostExit, Memory, Entering
  <2>3. mem'.exit = Fresh /\ mem'.sold = mem.sold /\ mem'.matched = mem.matched /\ mem'.win = row
    BY <1>1, <2>1 DEF TypeOK, Memories
  <2>4. NoBuys'
    BY <2>1, <2>2 DEF Arrived, Slotted, Holds, NoBuys
  <2>5. ASSUME NEW w \in Windows, w = row, Counted(w)' PROVE tokens'[w] + mem'.sold + Pending(w)' <= mem'.matched
    <3>1. tokens[w] + mem.sold + Pending(w) <= mem.matched /\ Pending(w) = 0
      BY <2>2, <2>5, CountedShrinks DEF Slotted, Holds, Pending
    <3>2. tokens'[w] = tokens[w] - m /\ Pending(w)' = m
      BY <2>1, <2>3, <2>5, NoneAssumption DEF Arrived, Pending, Ids
    <3>3. m \in Nat /\ tokens[w] \in Nat /\ mem.sold \in Nat /\ mem.matched \in Nat
      BY <1>1, <2>1, <2>2, BoundsAssumption DEF TypeOK, Memories, Amounts
    <3> QED
      BY <2>3, <3>1, <3>2, <3>3
  <2>6. Counted(row)' => (tokens[row] + mem.sold + Pending(row) <= mem.matched)'
    BY <2>1, <2>5
  <2> QED
    BY <2>4, <2>6 DEF Holds
<1>12. ASSUME NEW ok \in BOOLEAN, ExitTimeout(ok) PROVE Holds'
  <2>1. mem' = mem /\ row' = row /\ Withdraws
    BY <1>1, <1>12, ExitTimeoutMoves DEF ExitTimeout, ledgerVars
  <2> QED
    BY <2>1, HoldsKept
<1>13. CASE ExitFilled \/ \E n \in 0 .. Size : RegisterCancelledExit(n)
  <2>1. mem.exit # None /\ RegisterExit(orders[mem.exit].matched, ExitOver)
    BY <1>13, ExitOrderDone
  <2>2. row' = row /\ Unmoved
    BY <1>13 DEF ExitFilled, RegisterCancelledExit, Unmoved, ledgerVars
  <2> QED
    BY <2>1, <2>2, HoldsFlat, HoldsRest DEF RegisterExit
<1>14. CASE World
  <2>1. mem' = mem /\ row' = row /\ (Unmoved \/ Withdraws \/ Fills)
    <3>1. ASSUME NEW o \in Ids, Fill(o) PROVE Fills
      BY <1>1, <3>1, FillFills DEF Fill, Fills, Sound
    <3> QED
      BY <1>1, <1>14, <3>1, CloseBookMoves
         DEF World, NextWindow, ToggleKill, Fill, CloseBook, Unmoved, ledgerVars
  <2> QED
    BY <2>1, HoldsKept
<1> QED
  BY <1>2, <1>3, <1>4, <1>5, <1>6, <1>7, <1>8, <1>9, <1>10, <1>11, <1>12, <1>13, <1>14
     DEF Next, Runner, Boot, EntrySteps, CancelSteps, ExitSteps

-----------------------------------------------------------------------------
(* The refinement.                                                         *)

LEMMA SlottedInit == Init => Slotted
<1>1. Init => Sound /\ Tracked /\ AllKnown
  BY SoundInit DEF Init, Tracked, Working, NoOrder, Flat, AllKnown
<1>2. Init => Clock /\ Confined /\ Journaled /\ Holds
  BY BoundsAssumption DEF Init, NoTick, NoOrder, NoResp, Flat, Clock, Confined, Journaled, Holds
<1> QED
  BY <1>1, <1>2 DEF Slotted

LEMMA SlottedStep == NothingMissed /\ Slotted /\ [Next]_vars => Slotted'
<1> SUFFICES ASSUME NothingMissed, Slotted, [Next]_vars PROVE Slotted'
  OBVIOUS
<1>1. CASE Next
  <2>1. Sound' /\ Tracked' /\ AllKnown' /\ Clock'
    BY <1>1, SoundStep, TrackedStep, AllKnownStep, ClockStep DEF Slotted, NothingMissed
  <2> QED
    BY <1>1, <2>1, ConfinedStep, JournaledStep, HoldsStep DEF Slotted
<1>2. CASE UNCHANGED vars
  <2>1. Sound'
    BY <1>2, SoundStep DEF Slotted
  <2>2. (Tracked /\ AllKnown /\ Clock)'
    BY <1>2 DEF Slotted, vars, venueVars, ledgerVars, Tracked, Working, Held, AllKnown, Clock
  <2>3. (Confined /\ Journaled /\ Holds)'
    BY <1>2
       DEF Slotted, vars, venueVars, ledgerVars, Confined, NoneLive, Counted, Journaled, Clip,
           Holds, NoBuys, Pending
  <2> QED
    BY <2>1, <2>2, <2>3 DEF Slotted
<1> QED
  BY <1>1, <1>2

\* Without a row nothing real exists.
UnclaimedIsEmpty == row = None => ~Stake

LEMMA SlottedEmpty == Slotted => UnclaimedIsEmpty
<1> SUFFICES ASSUME Slotted, row = None PROVE ~Stake
  BY DEF UnclaimedIsEmpty
<1>1. \A o \in Ids : ~orders[o].live
  BY NoneAssumption DEF Slotted, Confined, Sound, Exchange, Windows
<1>2. ASSUME NEW w \in trading, w = win \/ Style = "scalp" PROVE ~(tokens[w] > 0)
  <2>1. w \in Windows /\ w # row /\ Counted(w)
    BY <1>2, Numbers, NoneAssumption DEF Slotted, Sound, TypeOK, Counted, Windows
  <2>2. tokens[w] = 0
    BY <2>1 DEF Slotted, Confined
  <2> QED
    BY <2>2
<1> QED
  BY <1>1, <1>2 DEF Stake

\* A step that touches the row touches nothing real.
LEMMA OneThing == ASSUME Next PROVE row' = row \/ UNCHANGED <<win, venueVars>>
<1>1. ASSUME Boot \/ TickSteps \/ Crash PROVE row' = row \/ UNCHANGED <<win, venueVars>>
  BY <1>1
     DEF Boot, BootCancelAll, BootFlat, BootAdopt, BootRefused, TickSteps, EnforceKillSwitch, Stop,
         Hold,
     SettleDue, ExitDue, Crash, ledgerVars
<1>2. ASSUME EntrySteps PROVE row' = row \/ UNCHANGED <<win, venueVars>>
  BY <1>2
     DEF EntrySteps, SkipEntry, InsertRow, BlockEntry, PostEntry, JournalEntry, TrackEntry,
         DeleteRow, ledgerVars
<1>3. ASSUME CancelSteps PROVE row' = row
  BY <1>3 DEF CancelSteps, CancelExit, CancelEntry, RegisterStaleExit, CaptureMatched, ledgerVars
<1>4. ASSUME ExitSteps PROVE row' = row \/ UNCHANGED <<win, venueVars>>
  BY <1>4
     DEF ExitSteps, NothingToSell, ExitBlocked, ExitFilled, CloseRow, Settle, PostExit,
         RegisterCancelledExit,
     ExitTimeout, ledgerVars
<1>5. ASSUME World PROVE row' = row
  BY <1>5 DEF World, NextWindow, ToggleKill, Fill, CloseBook, ledgerVars
<1> QED
  BY <1>1, <1>2, <1>3, <1>4, <1>5 DEF Next, Runner

\* The loop and the executor, for all their steps, are one position slot: the row is
\* claimed before anything real exists and released after it is gone, wherever the
\* process dies but between an order's acceptance and its journal entry, whatever
\* cancels fail when positions are sold before resolution (paper.py:1382-1387, 1691-1699).
THEOREM IsPositionSlot == ASSUME NothingMissed PROVE Spec => ImplementsSlot
<1>1. Init => Slot!SlotInit
  BY DEF Init, NoOrder, Slot!SlotInit, Stake
<1>2. UnclaimedIsEmpty /\ UnclaimedIsEmpty' /\ [Next]_vars => [Slot!SlotNext]_(Slot!slotVars)
  <2> SUFFICES ASSUME UnclaimedIsEmpty, UnclaimedIsEmpty', [Next]_vars PROVE [Slot!SlotNext]_(Slot!slotVars)
    OBVIOUS
  <2>1. row' = row \/ Stake' = Stake
    BY OneThing DEF Stake, vars, venueVars, ledgerVars
  <2>2. CASE Stake' = Stake
    <3>1. CASE row = None /\ row' # None
      BY <2>2, <3>1 DEF Slot!SlotNext, Slot!Claim
    <3>2. CASE row # None /\ row' = None
      BY <2>2, <3>2 DEF UnclaimedIsEmpty, Slot!SlotNext, Slot!Release
    <3>3. CASE (row = None) = (row' = None)
      BY <2>2, <3>3 DEF Slot!slotVars
    <3> QED
      BY <3>1, <3>2, <3>3
  <2>3. CASE row' = row
    <3>1. CASE row # None /\ ~Stake /\ Stake'
      BY <2>3, <3>1 DEF Slot!SlotNext, Slot!Gain
    <3>2. CASE row # None /\ Stake /\ ~Stake'
      BY <2>3, <3>2 DEF Slot!SlotNext, Slot!Lose
    <3>3. Stake \in BOOLEAN /\ Stake' \in BOOLEAN
      BY DEF Stake
    <3>4. CASE Stake = Stake'
      BY <2>2, <3>4
    <3> QED
      BY <2>3, <3>1, <3>2, <3>3, <3>4 DEF UnclaimedIsEmpty
  <2> QED
    BY <2>1, <2>2, <2>3
<1> QED
  BY SlottedInit, SlottedStep, SlottedEmpty, <1>1, <1>2, PTL DEF Spec, ImplementsSlot, Slot!SlotSpec
-----------------------------------------------------------------------------
(* What is bought is booked.                                                *)

\* No call fails, and no entry dies before it is journaled.
NothingFails == Style = "settle" /\ Faults = {} /\ "journal" \notin CrashPoints

\* The journal has every entry but the one about to be journaled; what was sold is
\* booked; when the entry does not work any more its matched size is what was bought.
Accounted ==
  /\ \A w \in used : w # row => bought[w] <= booked[w]
  /\ \A o \in Ids : orders[o].side = "buy" =>
       (pc = "journal" /\ orders[o].win = row) \/ journal[orders[o].win].order = o
  /\ mem.open => mem.sold <= booked[row] /\ (mem.order = None => bought[row] <= mem.matched)
  /\ pc = "closeRow" => bought[row] <= booked[row]

Booked == Slotted /\ Once /\ Accounted

\* A booking covers k shares of the row when it brings the sum to k.
LEMMA BookCovers ==
  ASSUME Sound, NEW n \in Nat, Book(n), row \in Windows, mem.win = row, NEW k \in Amounts, Ids # {},
         k <= booked[row] + n
  PROVE  k <= booked'[row] /\ \A w \in Windows : w # row => booked'[w] = booked[w]
<1>1. LastOrder \in Nat \ {0} /\ Size \in Nat /\ k \in Nat /\ k <= Size
  BY BoundsAssumption DEF Ids, Amounts
<1>2. Size <= LastOrder * Size
  BY <1>1
<1>3. LastOrder * Size \in Nat
  BY <1>1
<1>4. k <= MaxBooked
  BY <1>1, <1>2, <1>3 DEF MaxBooked
<1>5. booked \in [Windows -> Nat] /\ booked'[row] = IF booked[row] + n > MaxBooked THEN MaxBooked ELSE booked[row] + n
  BY DEF Book, Sound, TypeOK
<1> QED
  BY <1>4, <1>5 DEF Book

\* What was bought in the row's window.
LEMMA RowBought ==
  ASSUME Sound, Once, row \in Windows
  PROVE  /\ bought[row] \in Amounts /\ (Ids = {} => bought[row] = 0)
         /\ \A o \in Ids : orders[o].side = "buy" /\ orders[o].win = row => bought[row] = orders[o].matched
<1>1. \A o \in Ids : orders[o].side = "buy" /\ orders[o].win = row => bought[row] = orders[o].matched
  BY DEF Once, Buys
<1>2. Buys(row) = {} => bought[row] = 0
  BY DEF Once
<1>3. \A o \in Ids : orders[o].matched \in Amounts
  BY DEF Sound, TypeOK, Orders
<1> QED
  BY <1>1, <1>2, <1>3, BoundsAssumption DEF Buys, Amounts

\* Once the journal has it, the row's entry is the order that bought.
LEMMA JournalBought ==
  ASSUME Booked, row \in Windows, pc # "journal"
  PROVE  \/ bought[row] = 0
         \/ journal[row].order # None /\ bought[row] = orders[journal[row].order].matched
<1>1. CASE Buys(row) = {}
  BY <1>1 DEF Booked, Once
<1>2. ASSUME NEW o \in Buys(row) PROVE journal[row].order = o /\ o # None /\ bought[row] = orders[o].matched
  BY <1>2, NoneAssumption DEF Booked, Accounted, Once, Buys, Ids
<1> QED
  BY <1>1, <1>2

\* The row stays, and nothing is bought or booked.
LEMMA AccountedKept ==
  ASSUME Sound, Accounted, bought' = bought, booked' = booked, UNCHANGED <<row, used, journal>>,
         \A o \in Ids : orders'[o].side = "buy" => orders[o].side = "buy" /\ orders'[o].win = orders[o].win,
         pc = "journal" => pc' = "journal",
         mem'.open => /\ mem.open /\ mem'.sold = mem.sold
                      /\ mem'.order = None => mem.order = None /\ mem'.matched = mem.matched,
         pc' = "closeRow" => pc = "closeRow" \/ bought[row] <= booked[row]
  PROVE  Accounted'
<1>1. \A w \in used' : w # row' => bought'[w] <= booked'[w]
  BY DEF Accounted
<1>2. \A o \in Ids : orders'[o].side = "buy" =>
        (pc' = "journal" /\ orders'[o].win = row') \/ journal'[orders'[o].win].order = o
  BY DEF Accounted
<1>3. mem'.open => mem'.sold <= booked'[row'] /\ (mem'.order = None => bought'[row'] <= mem'.matched)
  BY DEF Accounted
<1> QED
  BY <1>1, <1>2, <1>3 DEF Accounted

LEMMA SidesKept ==
  ASSUME Unmoved \/ Withdraws
  PROVE  /\ bought' = bought
         /\ \A o \in Ids : orders'[o].side = "buy" => orders[o].side = "buy" /\ orders'[o].win = orders[o].win
  BY DEF Unmoved, Withdraws, Withdrawn, venueVars

\* A row is closed.
LEMMA AccountedClosed ==
  ASSUME Sound, Accounted, Unmoved, UNCHANGED <<journal, booked>>, row' = None, ~mem'.open,
         \A w \in used' : w \in used /\ (w = row => bought[w] <= booked[w]),
         pc # "journal", pc' # "closeRow"
  PROVE  Accounted'
<1>1. orders' = orders /\ bought' = bought
  BY DEF Unmoved, venueVars
<1> QED
  BY <1>1 DEF Accounted

\* Shares of the working exit are booked, by whatever step looks up its fill.
LEMMA AccountedSold ==
  ASSUME Booked, Unmoved, UNCHANGED <<row, used, journal>>, mem.exit # None, Book(orders[mem.exit].matched),
         pc # "journal", pc' = "closeRow" => mem' = Flat /\ mem.sold + orders[mem.exit].matched >= Num(mem.matched),
         mem' = Flat \/ mem' = [mem EXCEPT !.exit = None, !.sold = @ + orders[mem.exit].matched]
  PROVE  Accounted'
<1> DEFINE n == orders[mem.exit].matched
<1>1. /\ mem.open /\ mem.order = None /\ row \in Windows /\ mem.win = row /\ mem.exit \in Ids
      /\ n \in Nat /\ {mem.matched, mem.sold} \subseteq Amounts /\ mem.sold + n <= mem.matched
  <2>1. /\ mem.open /\ mem.order = None /\ row \in Windows /\ mem.win = row /\ mem.exit \in Ids
        /\ {mem.matched, mem.sold, orders[mem.exit].size, n} \subseteq Amounts
        /\ mem.sold + orders[mem.exit].size <= mem.matched /\ n <= orders[mem.exit].size
    BY WorkingExit DEF Booked, Slotted
  <2> QED
    BY <2>1, BoundsAssumption DEF Amounts
<1>2. mem.sold <= booked[row] /\ bought[row] <= mem.matched /\ booked[row] \in Nat /\ bought[row] \in Amounts
  BY <1>1, RowBought DEF Booked, Accounted, Slotted, Sound, TypeOK
<1>3. mem.sold + n \in Amounts /\ mem.sold + n <= booked[row] + n
  BY <1>1, <1>2, BoundsAssumption DEF Amounts
<1>4. mem.sold + n <= booked'[row] /\ \A w \in Windows : w # row => booked'[w] = booked[w]
  BY <1>1, <1>3, BookCovers DEF Booked, Slotted
<1>5. bought' = bought /\ orders' = orders
  BY DEF Unmoved, venueVars
<1>6. mem'.open => mem'.sold = mem.sold + n /\ mem'.matched = mem.matched
  <2>1. mem' = Flat => ~mem'.open
    BY DEF Flat
  <2> QED
    BY <2>1 DEF Booked, Slotted, Sound, TypeOK, Memories
<1>7. pc' = "closeRow" => bought[row] <= booked'[row]
  <2>1. Num(mem.matched) = mem.matched /\ mem.matched \in Nat /\ mem.sold \in Nat /\ booked'[row] \in Int
    BY <1>1, BoundsAssumption, NoneAssumption, BookTyped DEF Num, Amounts, Booked, Slotted, Sound
  <2>2. bought[row] \in Nat
    BY <1>2, BoundsAssumption DEF Amounts
  <2> QED
    BY <1>1, <1>2, <1>4, <2>1, <2>2
<1>8. \A w \in used' : w # row' => bought'[w] <= booked'[w]
  BY <1>4, <1>5 DEF Booked, Accounted, Slotted, Sound, TypeOK
<1>9. \A o \in Ids : orders'[o].side = "buy" => journal'[orders'[o].win].order = o
  BY <1>5 DEF Booked, Accounted
<1> QED
  BY <1>2, <1>4, <1>5, <1>6, <1>7, <1>8, <1>9 DEF Accounted

LEMMA AccountedStep == ASSUME NothingFails, Booked, Next PROVE Accounted'
<1> USE DEF Goto
<1>1. Slotted /\ Once /\ Accounted /\ Sound /\ TypeOK /\ Errands /\ Memory /\ Placed /\ NothingMissed
  BY DEF Booked, Slotted, Sound, NothingFails, NothingMissed, CancelsCount
<1>2. CASE BootFlat
  <2>1. pc = "adopt" /\ row' = None /\ UNCHANGED <<journal, booked, used, mem>> /\ ~mem.open /\ Unmoved /\ pc' = "idle"
    BY <1>1, <1>2 DEF BootFlat, Memory, Unmoved
  <2>2. row \in Windows => bought[row] = 0
    BY <1>2, <2>1, JournalBought, NoneAssumption
       DEF BootFlat, Entry, Unanswered, NothingFails, Windows
  <2>3. \A w \in used' : w \in used /\ (w = row => bought[w] <= booked[w])
    BY <1>1, <2>1, <2>2 DEF TypeOK
  <2> QED
    BY <1>1, <2>1, <2>3, AccountedClosed
<1>3. ASSUME NEW m \in 1 .. Size, BootAdopt(m) PROVE Accounted'
  <2>1. /\ pc = "adopt" /\ UNCHANGED <<journal, booked, used, row>> /\ Unmoved /\ pc' = "idle" /\ row \in Windows
        /\ m = orders[journal[row].order].matched
    BY <1>1, <1>3 DEF BootAdopt, TypeOK, Unmoved, ledgerVars, Entry, Unanswered, NothingFails
  <2>2. mem'.sold = 0 /\ mem'.matched = m
    BY <1>3 DEF BootAdopt, Flat
  <2>3. bought[row] <= m /\ 0 <= booked[row]
    BY <1>1, <1>3, <2>1, JournalBought, BoundsAssumption DEF TypeOK
  <2> QED
    BY <1>1, <2>1, <2>2, <2>3 DEF Accounted, Unmoved, venueVars
<1>4. CASE BootCancelAll \/ BootRefused
  <2>1. UNCHANGED <<row, used, journal, booked>> /\ pc \in {"off", "adopt"} /\ pc' \in {"adopt", "off"}
    BY <1>4 DEF BootCancelAll, BootRefused, ledgerVars
  <2>2. mem' = Flat \/ mem' = mem
    BY <1>4 DEF BootCancelAll, BootRefused
  <2>3. mem'.open => mem' = mem
    BY <2>2 DEF Flat
  <2> QED
    BY <1>1, <1>4, <2>1, <2>3, BootMoves, SidesKept, AccountedKept DEF Boot
<1>5. CASE TickSteps \/ SkipEntry \/ BlockEntry \/ ExitBlocked \/ Crash
  <2>1. UNCHANGED <<row, used, journal, booked>> /\ Unmoved /\ pc # "journal"
    BY <1>1, <1>5
       DEF TickSteps, EnforceKillSwitch, Stop, Hold, SettleDue, ExitDue, SkipEntry, BlockEntry,
           ExitBlocked,
       Crash, NothingMissed, Unmoved, ledgerVars
  <2>2. pc' # "closeRow"
    BY <1>1, <1>5
       DEF TickSteps, EnforceKillSwitch, Stop, Hold, SettleDue, ExitDue, SkipEntry, BlockEntry,
           ExitBlocked,
       ExitOver, Crash, Memory, Entering
  <2>3. mem' = Flat \/ mem' = mem
    BY <1>5
       DEF TickSteps, EnforceKillSwitch, Stop, Hold, SettleDue, ExitDue, SkipEntry, BlockEntry,
           ExitBlocked, Crash
  <2>4. mem'.open => mem' = mem
    BY <2>3 DEF Flat
  <2> QED
    BY <1>1, <2>1, <2>2, <2>4, SidesKept, AccountedKept
<1>6. CASE InsertRow
  <2>1. /\ row = None /\ row' = tick.win /\ used' = used \cup {tick.win} /\ UNCHANGED <<journal, booked>>
        /\ Unmoved /\ pc = "open" /\ pc' = "post" /\ mem' = Flat
    BY <1>6 DEF InsertRow, ResyncFlat, Unmoved
  <2>2. ~mem'.open /\ orders' = orders /\ bought' = bought /\ \A w \in used : w # None
    BY <1>1, <2>1, NoneAssumption DEF Flat, Unmoved, venueVars, TypeOK, Windows
  <2> QED
    BY <1>1, <2>1, <2>2 DEF Accounted
<1>7. ASSUME NEW m \in 0 .. Size, PostEntry(m) PROVE Accounted'
  <2>1. /\ Arrived(Fresh, "buy", row, Size, m, TRUE) /\ pc = "post" /\ pc' = "journal"
        /\ row \in Windows /\ UNCHANGED <<row, used, journal, booked>>
    BY <1>1, <1>7, PostEntryPlaces
       DEF NothingMissed, PostEntry, Errands, Entering, TypeOK, ledgerVars
  <2>2. ~mem'.open
    BY <1>1, <1>7 DEF PostEntry, Memory, Entering
  <2>3. \A w \in used' : w # row' => bought'[w] <= booked'[w]
    BY <1>1, <2>1 DEF Arrived, Accounted, TypeOK
  <2>4. \A o \in Ids : orders'[o].side = "buy" => orders'[o].win = row' \/ journal'[orders'[o].win].order = o
    BY <1>1, <2>1 DEF Arrived, Accounted
  <2> QED
    BY <2>1, <2>2, <2>3, <2>4 DEF Accounted
<1>8. CASE JournalEntry
  <2>1. /\ journal' = [journal EXCEPT ![row] = resp] /\ UNCHANGED <<row, used, booked, mem>> /\ Unmoved
        /\ pc = "journal" /\ pc' = "track" /\ row \in Windows /\ ~mem.open
    BY <1>1, <1>8 DEF JournalEntry, Errands, Entering, TypeOK, Memory, Unmoved, ledgerVars
  <2>2. resp.order \in Buys(row) /\ orders' = orders /\ bought' = bought
    BY <1>1, <2>1 DEF Placed, TypeOK, Resps, Buys, Unmoved, venueVars
  <2>3. journal'[row] = resp /\ \A w \in Windows : w # row => journal'[w] = journal[w]
    BY <1>1, <2>1 DEF TypeOK
  <2>4. ASSUME NEW o \in Ids, orders[o].side = "buy" PROVE journal'[orders[o].win].order = o
    <3>1. CASE orders[o].win = row
      BY <1>1, <2>1, <2>2, <2>3, <2>4, <3>1 DEF Once, Buys
    <3>2. CASE orders[o].win # row
      BY <1>1, <2>3, <2>4, <3>2 DEF Accounted, Sound, Exchange
    <3> QED
      BY <3>1, <3>2
  <2> QED
    BY <1>1, <2>1, <2>2, <2>4 DEF Accounted
<1>9. CASE TrackEntry
  <2>1. /\ mem' = [Flat EXCEPT !.open = TRUE, !.win = row,
                     !.matched = IF resp.filled >= Size THEN resp.filled ELSE None,
                     !.order = IF resp.filled >= Size THEN None ELSE resp.order]
        /\ UNCHANGED <<row, used, journal, booked>> /\ Unmoved /\ pc = "track" /\ pc' = "idle" /\ row \in Windows
    BY <1>1, <1>9 DEF TrackEntry, Errands, Entering, TypeOK, Unmoved, ledgerVars
  <2>2. mem'.sold = 0 /\ (mem'.order = None => resp.filled >= Size /\ mem'.matched = resp.filled)
    BY <1>1, <2>1 DEF Flat, Placed
  <2>3. 0 <= booked[row] /\ bought[row] \in Nat /\ bought[row] <= Size /\ resp.filled \in Nat
    BY <1>1, <2>1, RowBought, BoundsAssumption DEF TypeOK, Resps, Amounts
  <2>4. mem'.order = None => bought[row] <= mem'.matched
    BY <2>2, <2>3, BoundsAssumption
  <2> QED
    BY <1>1, <2>1, <2>2, <2>3, <2>4 DEF Accounted, Unmoved, venueVars
<1>10. CASE DeleteRow \/ CloseRow
  <2>1. /\ row' = None /\ UNCHANGED <<journal, booked, mem>> /\ ~mem.open /\ Unmoved
        /\ pc \in {"delete", "closeRow"} /\ pc' # "closeRow"
    BY <1>1, <1>10 DEF DeleteRow, CloseRow, ExitOver, Memory, Entering, Unmoved
  <2>2. \A w \in used' : w \in used /\ (w = row => bought[w] <= booked[w])
    BY <1>1, <1>10 DEF DeleteRow, CloseRow, Accounted
  <2> QED
    BY <1>1, <2>1, <2>2, AccountedClosed
<1>11. ASSUME NEW ok \in BOOLEAN, CancelExit(ok) \/ CancelEntry(ok) PROVE Accounted'
  <2>1. UNCHANGED <<row, used, journal, booked, mem>> /\ pc # "journal" /\ pc' # "closeRow"
    BY <1>11 DEF CancelExit, CancelEntry, AfterCancel, ExitOver, ledgerVars
  <2> QED
    BY <1>1, <1>11, <2>1, CancelMoves, SidesKept, AccountedKept DEF CancelSteps
<1>12. ASSUME NEW n \in 0 .. Size, RegisterStaleExit(n) PROVE Accounted'
  <2>1. mem.exit # None /\ n = orders[mem.exit].matched
    BY <1>1, <1>12 DEF RegisterStaleExit, Memory, Looked, Unanswered, NothingFails
  <2> QED
    BY <1>1, <1>12, <2>1, AccountedSold DEF RegisterStaleExit, Unmoved, ledgerVars
<1>13. ASSUME NEW n \in 0 .. Size, CaptureMatched(n) PROVE Accounted'
  <2>1. /\ UNCHANGED <<row, used, journal, booked>> /\ Unmoved /\ pc = "entryInfo" /\ pc' # "closeRow"
        /\ mem.order # None /\ row \in Windows /\ mem.win = row /\ mem.open
    BY <1>1, <1>13 DEF CaptureMatched, AfterCancel, Memory, Flat, TypeOK, Unmoved, ledgerVars
  <2>2. mem'.sold = mem.sold /\ mem'.matched = n
    BY <1>1, <1>13 DEF CaptureMatched, TypeOK, Memories
  <2>3. n = orders[mem.order].matched /\ mem.order \in Ids
    BY <1>1, <1>13, <2>1
       DEF CaptureMatched, MatchedEntrySize, Looked, Unanswered, NothingFails, TypeOK, Memories
  <2>4. bought[row] = n /\ n <= n
    BY <1>1, <2>1, <2>3, RowBought, BoundsAssumption DEF Placed
  <2> QED
    BY <1>1, <2>1, <2>2, <2>4 DEF Accounted, Unmoved, venueVars
<1>14. ASSUME NEW n \in 0 .. Size, Settle(n) PROVE Accounted'
  <2>1. /\ UNCHANGED <<row, used, journal>> /\ Unmoved /\ pc = "settle" /\ pc' = "closeRow" /\ mem' = Flat
        /\ mem.order = None /\ row \in Windows /\ mem.open /\ mem.win = row
    BY <1>1, <1>14, SettledEmpty
       DEF Settle, Memory, Errands, Entering, Slotted, Tracked, Unmoved, ledgerVars
  <2>2. n = mem.matched /\ n \in Nat /\ mem.sold \in Nat /\ Book(Above(n, mem.sold))
    BY <1>1, <1>14, <2>1, BoundsAssumption
       DEF Settle, MatchedEntrySize, Num, Memory, TypeOK, Memories, Amounts
  <2>3. mem.sold <= booked[row] /\ bought[row] <= n /\ booked[row] \in Nat /\ bought[row] \in Nat
    BY <1>1, <2>1, <2>2 DEF Accounted, TypeOK
  <2>4. Above(n, mem.sold) \in Nat /\ bought[row] <= booked[row] + Above(n, mem.sold)
    BY <2>2, <2>3 DEF Above
  <2>5. bought[row] <= booked'[row] /\ \A w \in Windows : w # row => booked'[w] = booked[w]
    <3>1. CASE Ids # {}
      BY <1>1, <2>1, <2>2, <2>4, <3>1, BookCovers, RowBought
    <3>2. CASE Ids = {}
      <4>1. booked' \in [Windows -> Nat] /\ bought[row] = 0
        BY <1>1, <2>1, <2>2, <2>4, <3>2, RowBought, BookTyped
      <4>2. \A w \in Windows : w # row => booked'[w] = booked[w]
        BY <1>1, <2>1, <2>2 DEF Book, TypeOK
      <4> QED
        BY <2>1, <4>1, <4>2
    <3> QED
      BY <3>1, <3>2
  <2>6. ~mem'.open /\ orders' = orders /\ bought' = bought
    BY <2>1 DEF Flat, Unmoved, venueVars
  <2>7. \A w \in used' : w # row' => bought'[w] <= booked'[w]
    BY <1>1, <2>1, <2>5, <2>6 DEF Accounted, TypeOK
  <2> QED
    BY <1>1, <2>1, <2>5, <2>6, <2>7 DEF Accounted
<1>15. CASE NothingToSell
  <2>1. /\ UNCHANGED <<row, used, journal, booked>> /\ Unmoved /\ pc = "sell" /\ Remaining = 0 /\ mem' = Flat
    BY <1>15 DEF NothingToSell, Unmoved, ledgerVars
  <2>2. mem.open /\ mem.order = None /\ row \in Windows /\ mem.matched # None
    BY <1>1, <2>1 DEF Memory, Errands, Entering, Selling, TypeOK
  <2>3. mem.matched \in Nat /\ mem.sold \in Nat /\ bought[row] \in Nat /\ booked[row] \in Nat /\ mem.matched <= mem.sold
    BY <1>1, <2>1, <2>2, BoundsAssumption DEF TypeOK, Memories, Amounts, Remaining, Above, Num
  <2>4. bought[row] <= booked[row]
    BY <1>1, <2>2, <2>3 DEF Accounted
  <2>5. ~mem'.open
    BY <2>1 DEF Flat
  <2> QED
    BY <1>1, <2>1, <2>4, <2>5, SidesKept, AccountedKept
<1>16. ASSUME NEW m \in 0 .. Size, PostExit(m) PROVE Accounted'
  <2>1. /\ Arrived(Fresh, "sell", mem.win, Remaining, m, TRUE) /\ mem.win \in Windows /\ pc = "sell" /\ pc' = "await"
        /\ mem' = [mem EXCEPT !.exit = Fresh] /\ UNCHANGED <<row, used, journal, booked>>
    BY <1>1, <1>16, PostExitPlaces DEF NothingMissed, PostExit, TypeOK, ledgerVars
  <2>2. bought' = bought
    <3>1. \A w \in Windows : bought'[w] = bought[w]
      BY <2>1 DEF Arrived
    <3>2. bought \in [Windows -> Nat] /\ bought' \in [Windows -> Nat]
      BY <1>1, <2>1 DEF Arrived, TypeOK
    <3> QED
      BY <3>1, <3>2
  <2>3. \A o \in Ids : orders'[o].side = "buy" => orders[o].side = "buy" /\ orders'[o].win = orders[o].win
    BY <2>1 DEF Arrived
  <2>4. mem'.open = mem.open /\ mem'.sold = mem.sold /\ mem'.order = mem.order /\ mem'.matched = mem.matched
    BY <1>1, <2>1 DEF TypeOK, Memories
  <2> QED
    BY <1>1, <2>1, <2>2, <2>3, <2>4, AccountedKept
<1>17. ASSUME NEW ok \in BOOLEAN, ExitTimeout(ok) PROVE Accounted'
  <2>1. UNCHANGED <<row, used, journal, booked, mem>> /\ pc = "await" /\ pc' # "closeRow"
    BY <1>17 DEF ExitTimeout, ExitOver, ledgerVars
  <2> QED
    BY <1>1, <1>17, <2>1, ExitTimeoutMoves, SidesKept, AccountedKept
<1>18. CASE ExitFilled \/ \E n \in 0 .. Size : RegisterCancelledExit(n)
  <2>1. mem.exit # None /\ RegisterExit(orders[mem.exit].matched, ExitOver)
    BY <1>1, <1>18, ExitOrderDone
  <2>2. UNCHANGED <<row, used, journal>> /\ Unmoved /\ pc # "journal"
    BY <1>18 DEF ExitFilled, RegisterCancelledExit, Unmoved, ledgerVars
  <2> QED
    BY <1>1, <2>1, <2>2, AccountedSold DEF RegisterExit, ExitOver
<1>19. CASE NextWindow \/ ToggleKill \/ \E w \in Windows : CloseBook(w)
  <2>1. UNCHANGED <<row, used, journal, booked, mem, pc>> /\ (Unmoved \/ Withdraws)
    BY <1>1, <1>19, CloseBookMoves DEF NextWindow, ToggleKill, CloseBook, Unmoved, ledgerVars
  <2> QED
    BY <1>1, <2>1, SidesKept, AccountedKept
<1>20. ASSUME NEW o \in Ids, Fill(o) PROVE Accounted'
  <2>1. Filled(o) /\ orders[o].live /\ orders[o].win = row /\ UNCHANGED <<row, used, journal, booked, mem, pc>>
    BY <1>1, <1>20, FillFills DEF Fill, ledgerVars, Slotted, Confined, Sound
  <2>2. \A p \in Ids : orders'[p].side = orders[p].side /\ orders'[p].win = orders[p].win
    BY <2>1 DEF Filled
  <2>3. \A w \in Windows : w # row => bought'[w] = bought[w]
    BY <2>1 DEF Filled
  <2>4. pc # "closeRow"
    BY <1>1, <2>1 DEF Slotted, Confined, NoneLive
  <2>5. mem.open /\ mem.order = None => bought'[row] = bought[row]
    <3>1. ASSUME mem.open, mem.order = None PROVE orders[o].side = "sell"
      BY <1>1, <2>1, <3>1 DEF Slotted, Holds, NoBuys
    <3> QED
      BY <2>1, <3>1 DEF Filled
  <2>6. \A w \in used' : w # row' => bought'[w] <= booked'[w]
    BY <1>1, <2>1, <2>3 DEF Accounted, TypeOK
  <2> QED
    BY <1>1, <2>1, <2>2, <2>4, <2>5, <2>6 DEF Accounted
<1> QED
  BY <1>2, <1>3, <1>4, <1>5, <1>6, <1>7, <1>8, <1>9, <1>10, <1>11, <1>12, <1>13, <1>14, <1>15,
     <1>16, <1>17, <1>18,
     <1>19, <1>20 DEF Next, Runner, World, Boot, EntrySteps, CancelSteps, ExitSteps

\* When no call fails, every share bought in a window has had its PnL fed to the loss
\* halt once the window's row is closed, sold or settled, stopped or restarted in
\* between, and wherever the process dies but between an order's acceptance and its
\* journal entry (live.py:667-672).
THEOREM BookedInFullAlways == ASSUME NothingFails PROVE Spec => []BookedInFull
<1>1. NothingMissed /\ EntriesOnce
  BY DEF NothingFails, NothingMissed, EntriesOnce, CancelsCount
<1>2. Init => Booked
  BY SlottedInit DEF Init, Booked, Once, Buys, NoOrder, Flat, Accounted
<1>3. Booked /\ [Next]_vars => Booked'
  <2>1. ASSUME Booked, Next PROVE Booked'
    BY <1>1, <2>1, SlottedStep, OnceStep, AccountedStep DEF Booked, Slotted
  <2>2. ASSUME Booked, UNCHANGED vars PROVE Booked'
    BY <1>1, <2>2, SlottedStep DEF Booked, Once, Buys, Accounted, vars, venueVars, ledgerVars
  <2> QED
    BY <2>1, <2>2
<1>4. Booked => BookedInFull
  BY DEF Booked, Slotted, Sound, TypeOK, Accounted, BookedInFull
<1> QED
  BY <1>2, <1>3, <1>4, PTL DEF Spec
=============================================================================
