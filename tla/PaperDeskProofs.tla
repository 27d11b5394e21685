--------------------------- MODULE PaperDeskProofs ---------------------------
(***************************************************************************)
(* Theorems about the second-generation desk and the tape it records, for  *)
(* every limit, number of orders and windows, quote and failure.           *)
(***************************************************************************)
EXTENDS PaperDesk, DataLemmas

\* The tables and the tick as far as the argument needs them.
Shaped(rows) == DOMAIN rows = Orders /\ \A o \in Orders : "pos" \in DOMAIN rows[o]

\* From the check of the open positions to the insert of the new one there is room for it: this
\* is what carries over the awaits in between.
BeforeOpen == Submitting \ {"book"}
Room == tick.step \in BeforeOpen => Cardinality(Open(db)) < MaxOpen

Inv ==
    /\ Shaped(db) /\ Shaped(disk) /\ "step" \in DOMAIN tick
    /\ Room
    /\ OnePosition

-----------------------------------------------------------------------------
(* What changes of a table do to its open positions.                       *)

LEMMA OpenIsFinite == \A rows : IsFiniteSet(Open(rows)) /\ Cardinality(Open(rows)) \in Nat
<1> SUFFICES ASSUME NEW rows PROVE IsFiniteSet(Open(rows)) /\ Cardinality(Open(rows)) \in Nat
    OBVIOUS
<1>1. IsFiniteSet(Orders)
    BY FS_Interval, MaxOrdersNat DEF Orders
<1>2. Open(rows) \in SUBSET Orders
    BY DEF Open
<1>3. IsFiniteSet(Open(rows))
    BY <1>1, <1>2, FS_Subset
<1> QED
    BY <1>3, FS_CardinalityType

LEMMA NoneOpened ==
    ASSUME NEW old, NEW new, Open(new) \subseteq Open(old)
    PROVE  Cardinality(Open(new)) <= Cardinality(Open(old))
    BY OpenIsFinite, FS_Subset

LEMMA OneOpened ==
    ASSUME NEW old, NEW new, NEW o, Open(new) \subseteq Open(old) \cup {o}
    PROVE  Cardinality(Open(new)) <= Cardinality(Open(old)) + 1
<1>1. /\ IsFiniteSet(Open(old) \cup {o})
      /\ Cardinality(Open(old) \cup {o}) <= Cardinality(Open(old)) + 1
    BY OpenIsFinite, FS_AddElement
<1>2. Cardinality(Open(new)) <= Cardinality(Open(old) \cup {o})
    BY <1>1, FS_Subset
<1> QED
    BY <1>1, <1>2, OpenIsFinite, FS_CardinalityType

\* What a step has to show.
LEMMA StepKeepsInv ==
    ASSUME Inv, Shaped(db'), Open(db') \subseteq Open(db),
           disk' \in {disk, db}, "step" \in DOMAIN tick',
           tick'.step \in BeforeOpen => Cardinality(Open(db)) < MaxOpen
    PROVE  Inv'
<1>1. Cardinality(Open(db')) <= Cardinality(Open(db))
    BY NoneOpened
<1>2. {Cardinality(Open(db)), Cardinality(Open(db')), MaxOpen} \subseteq Int
    BY OpenIsFinite, MaxOpenNat
<1>3. Shaped(disk') /\ Cardinality(Open(disk')) <= MaxOpen
    BY DEF Inv, OnePosition
<1> QED
    BY <1>1, <1>2, <1>3 DEF Inv, Room, OnePosition

-----------------------------------------------------------------------------
(* The invariant.                                                          *)

LEMMA InitInv == Init => Inv
<1> SUFFICES ASSUME Init PROVE Inv
    OBVIOUS
<1>1. Shaped(db) /\ Open(db) = {} /\ disk = db
    BY DEF Init, Shaped, Open, NoRow
<1>2. Cardinality(Open(db)) = 0
    BY <1>1, FS_EmptySet
<1>3. "step" \in DOMAIN tick /\ tick.step = "idle"
    BY DEF Init
<1> QED
    BY <1>1, <1>2, <1>3, MaxOpenNat DEF Inv, Room, OnePosition, BeforeOpen, Submitting

\* Steps of the tick that leave the tables alone and are not on the way to a position.
LEMMA TickBesides ==
    ASSUME Inv,
           BeginTick \/ RecordWindow \/ RecordTick \/ RecorderFails \/ FetchOpen \/ KeepOpen
           \/ CommitClose \/ CloseFails \/ SkipEntry \/ CommitPosition \/ SubmitFails
    PROVE  Inv'
<1>1. db' = db /\ disk' \in {disk, db}
    BY DEF BeginTick, RecordWindow, RecordTick, RecorderFails, FetchOpen, KeepOpen, CommitClose,
       CloseFails, SkipEntry, CommitPosition, SubmitFails
<1>2. "step" \in DOMAIN tick' /\ tick'.step \notin BeforeOpen
    BY DEF Inv, BeginTick, RecordWindow, RecordTick, RecorderFails, FetchOpen, KeepOpen, CommitClose,
       CloseFails, SkipEntry, CommitPosition, SubmitFails, GoTo, GoIdle, At, BeforeOpen, Submitting
<1> QED
    BY <1>1, <1>2, StepKeepsInv DEF Inv

LEMMA ExitKeeps == Inv /\ Exit => Inv'
<1> SUFFICES ASSUME Inv, Exit PROVE Inv'
    OBVIOUS
<1> DEFINE row == [db[Victim] EXCEPT !.pos = "closed", !.pnl = PnlAt(db[Victim], tick.obs.up)]
<1>1. db' = [db EXCEPT ![Victim] = row] \/ db' = db
    BY DEF Exit, Inv, Shaped
<1>2. Shaped(db') /\ Open(db') \subseteq Open(db)
    BY <1>1 DEF Inv, Shaped, Open
<1>3. "step" \in DOMAIN tick' /\ tick'.step \notin BeforeOpen /\ disk' = disk
    BY DEF Exit, Inv, GoTo, BeforeOpen, Submitting
<1> QED
    BY <1>2, <1>3, StepKeepsInv

LEMMA SubmissionKeeps ==
    ASSUME Inv, Decide \/ InsertOrder \/ Audit \/ Acknowledge \/ Fill \/ CommitOrder
    PROVE  Inv'
<1>1. Shaped(db') /\ Open(db') \subseteq Open(db)
  <2>1. CASE Decide \/ CommitOrder
    BY <2>1 DEF Decide, CommitOrder, Inv
  <2>2. CASE InsertOrder
    BY <2>2 DEF InsertOrder, Inv, Shaped, Open, NoRow
  <2>3. CASE Audit
    BY <2>3 DEF Audit, Inv, Shaped, Open
  <2>4. CASE Acknowledge
    BY <2>4 DEF Acknowledge, Inv, Shaped, Open
  <2>5. CASE Fill
    BY <2>5 DEF Fill, Inv, Shaped, Open
  <2> QED
    BY <2>1, <2>2, <2>3, <2>4, <2>5
<1>2. disk' \in {disk, db} /\ "step" \in DOMAIN tick'
    BY DEF Decide, InsertOrder, Audit, Acknowledge, Fill, CommitOrder, Inv, GoTo, GoIdle
<1>3. Cardinality(Open(db)) < MaxOpen
  <2>1. CASE Decide
    BY <2>1 DEF Decide, PreTradeCheck
  <2>2. CASE ~Decide
    BY <2>2 DEF InsertOrder, Audit, Acknowledge, Fill, CommitOrder, At, AfterAudit, Inv, Room,
       BeforeOpen, Submitting
  <2> QED
    BY <2>1, <2>2
<1> QED
    BY <1>1, <1>2, <1>3, StepKeepsInv

\* The only step that opens a position; there is room.
LEMMA OpenPositionKeeps == Inv /\ OpenPosition => Inv'
<1> SUFFICES ASSUME Inv, OpenPosition PROVE Inv'
    OBVIOUS
<1>1. Cardinality(Open(db)) < MaxOpen
    BY DEF OpenPosition, At, Inv, Room, BeforeOpen, Submitting
<1>2. Shaped(db') /\ Open(db') \subseteq Open(db) \cup {tick.order}
    BY DEF OpenPosition, Inv, Shaped, Open
<1>3. Cardinality(Open(db')) <= Cardinality(Open(db)) + 1
    BY <1>2, OneOpened
<1>4. Cardinality(Open(db')) <= MaxOpen
    BY <1>1, <1>3, OpenIsFinite, MaxOpenNat
<1>5. "step" \in DOMAIN tick' /\ tick'.step = "book" /\ disk' = disk
    BY DEF OpenPosition, GoTo, Inv
<1> QED
    BY <1>2, <1>4, <1>5 DEF Inv, Room, OnePosition, BeforeOpen

LEMMA ShutdownKeeps ==
    ASSUME Inv, BeginShutdown \/ ShutdownFetch \/ ShutdownClose \/ ShutdownCommit \/ ShutdownFails
    PROVE  Inv'
<1>1. Shaped(db') /\ Open(db') \subseteq Open(db)
  <2>1. CASE BeginShutdown \/ ShutdownFetch \/ ShutdownCommit \/ ShutdownFails
    BY <2>1 DEF BeginShutdown, ShutdownFetch, ShutdownCommit, ShutdownFails, Inv
  <2>2. CASE ShutdownClose
    BY <2>2 DEF ShutdownClose, Inv, Shaped, Open
  <2> QED
    BY <2>1, <2>2
<1>2. tick' = tick /\ disk' \in {disk, db}
    BY DEF BeginShutdown, ShutdownFetch, ShutdownClose, ShutdownCommit, ShutdownFails
<1>3. tick'.step \in BeforeOpen => Cardinality(Open(db)) < MaxOpen
    BY <1>2 DEF Inv, Room
<1> QED
    BY <1>1, <1>2, <1>3, StepKeepsInv DEF Inv

LEMMA RestartKeeps == Inv /\ Restart => Inv'
    BY DEF Restart, GoIdle, Inv, Room, OnePosition, BeforeOpen, Submitting

LEMMA NextInv == Inv /\ [Next]_vars => Inv'
<1> SUFFICES ASSUME Inv, [Next]_vars PROVE Inv'
    OBVIOUS
<1>1. CASE UNCHANGED vars
    BY <1>1 DEF vars, Inv, Room, OnePosition, BeforeOpen, Submitting
<1>2. CASE Next
    BY <1>2, TickBesides, ExitKeeps, SubmissionKeeps, OpenPositionKeeps, ShutdownKeeps, RestartKeeps
       DEF Next
<1> QED
    BY <1>1, <1>2

\* Whatever ticks, failing statements, deaths and shutdowns are interleaved, there are never more
\* open positions than max_open_positions, in the tables as the manager sees them and on disk,
\* although the check is several awaits before the insert (ops/controller.py:194-198,
\* execution/risk.py:72-104).
THEOREM OnePositionAlways == Spec => []OnePosition
<1>1. Inv => OnePosition
    BY DEF Inv
<1> QED
    BY <1>1, InitInv, NextInv, PTL DEF Spec

-----------------------------------------------------------------------------
(* The types, the tables row by row, and the order in flight.              *)

RiskBook ==
    [exposure : Nat, total : Int, peak : Nat, drawdown : Nat, wins : Nat, losses : Nat, updated : BOOLEAN]
Ticks    == [step : Steps, obs : Obs \cup {None}, todo : SUBSET Orders, order : Orders \cup {0}, served : 0..MaxTicks]
Downs    == [step : {"off", "fetch", "closing", "done"}, left : SUBSET Orders, closed : SUBSET Orders, busy : BOOLEAN]
Prices   == [Windows -> 1..Par \cup {None}]
Recorded == [id : 1..MaxTicks, tick : Obs]
Tapes    == [windows : Prices, ticks : Seq(Recorded)]
Watches  == [boot : [Orders -> Rows], clean : BOOLEAN, torn : SUBSET Windows, faults : 0..MaxFaults]

\* Only a filled order has a position; the audit trail of an order is complete but for its last
\* transition.
Filled(row) == row.pos # "none" => row.state = "FILLED"
Told(row)   == row.state # "absent" => row.trail \in {Path(row.state), Front(Path(row.state))}
Kept(rows)  == rows \in [Orders -> Rows] /\ \A o \in Orders : Filled(rows[o]) /\ Told(rows[o])

Formal ==
    /\ Kept(db) /\ Kept(disk) /\ Kept(watch.boot)
    /\ risk \in RiskBook /\ tick \in Ticks /\ down \in Downs /\ tape \in Tapes /\ watch \in Watches
    /\ stop \in BOOLEAN /\ verbose \in BOOLEAN

\* What a tick may rely on after its awaits.
Fates == {"FILLED", "PARTIAL_FILL", "REJECTED"}
Flying(row, step) ==
    /\ step \in {"audit1", "ack"} => row.state = "PENDING"
    /\ step \in {"audit2", "fill"} => row.state = "ACKNOWLEDGED"
    /\ step \in {"audit3", "commit"} => row.state \in Fates
    /\ step \in {"open", "book"} => row.state = "FILLED"
    /\ row.trail = IF step \in DOMAIN AfterAudit THEN Front(Path(row.state)) ELSE Path(row.state)
    /\ row.pos = "none" <=> step # "book"

Staged ==
    /\ tick.order # 0 <=> tick.step \in Submitting \ {"insert"}
    /\ tick.step # "idle" => tick.obs \in Obs
    /\ tick.step = "insert" => Wants
    /\ tick.step = "close" => tick.todo # {}
    /\ tick.order # 0 => Flying(db[tick.order], tick.step)
    /\ \A o \in tick.todo \cup down.left : db[o].pos # "none"
    /\ Len(tape.ticks) <= tick.served
    /\ tick.step \in {"window", "tick"} => Len(tape.ticks) < tick.served

Typed == Formal /\ Staged

-----------------------------------------------------------------------------
(* Short tuples as sequences: what Append adds to one, Front takes away.   *)

LEMMA ShortTuples ==
  ASSUME NEW S, NEW a \in S, NEW b \in S, NEW c \in S
  PROVE  /\ <<a>> \in Seq(S) /\ <<a, b>> \in Seq(S) /\ <<a, b, c>> \in Seq(S)
         /\ Len(<<a>>) = 1 /\ Len(<<a, b>>) = 2 /\ Len(<<a, b, c>>) = 3
         /\ <<a>>[1] = a
         /\ <<a, b>>[1] = a /\ <<a, b>>[2] = b
         /\ <<a, b, c>>[1] = a /\ <<a, b, c>>[2] = b /\ <<a, b, c>>[3] = c
OBVIOUS

LEMMA FrontOf ==
  ASSUME NEW S, NEW s \in Seq(S), Len(s) > 0
  PROVE  /\ Front(s) \in Seq(S) /\ Len(Front(s)) = Len(s) - 1
         /\ \A i \in 1..Len(s) - 1 : Front(s)[i] = s[i]
<1>1. Len(s) \in Nat /\ 1 \in Int /\ Len(s) - 1 \in Int /\ \A i \in 1..Len(s) - 1 : s[i] \in S
  OBVIOUS
<1>2. Front(s) = SubSeq(s, 1, Len(s) - 1)
  BY DEF Front
<1>3. /\ SubSeq(s, 1, Len(s) - 1) \in Seq(S)
      /\ Len(SubSeq(s, 1, Len(s) - 1)) = IF 1 <= Len(s) - 1 THEN Len(s) - 1 - 1 + 1 ELSE 0
      /\ \A i \in 1 .. Len(s) - 1 - 1 + 1 : SubSeq(s, 1, Len(s) - 1)[i] = s[1 + i - 1]
  BY <1>1, SubSeqProperties
<1> HIDE DEF Front
<1>4. Front(s) \in Seq(S) /\ Len(Front(s)) = Len(s) - 1
  <2>1. Len(SubSeq(s, 1, Len(s) - 1)) = Len(s) - 1
    <3>1. CASE 1 <= Len(s) - 1
      BY <1>1, <1>3, <3>1
    <3>2. CASE ~(1 <= Len(s) - 1)
      <4>1. Len(s) - 1 = 0
        <5>1. Len(s) \in Nat
          BY <1>1
        <5>2. \A n \in Nat : n > 0 /\ ~(1 <= n - 1) => n - 1 = 0
          OBVIOUS
        <5> QED
          BY <5>1, <5>2, <3>2, Zenon
      <4>2. Len(SubSeq(s, 1, Len(s) - 1)) = 0
        BY <1>3, <3>2
      <4> QED
        BY <4>1, <4>2
    <3> QED
      BY <3>1, <3>2
  <2> QED
    BY <1>2, <1>3, <2>1
<1>5. ASSUME NEW i \in 1..Len(s) - 1 PROVE Front(s)[i] = s[i]
  <2>1. i \in 1 .. Len(s) - 1 - 1 + 1 /\ 1 + i - 1 = i
    BY <1>1
  <2>2. SubSeq(s, 1, Len(s) - 1)[i] = s[1 + i - 1]
    BY <1>3, <2>1
  <2> QED
    BY <1>2, <2>1, <2>2, Zenon
<1> QED
  BY <1>4, <1>5

LEMMA FrontAppend ==
  ASSUME NEW S, NEW s \in Seq(S), NEW e \in S
  PROVE  Front(Append(s, e)) = s
<1> DEFINE t == Append(s, e)
<1>1. t \in Seq(S) /\ Len(t) = Len(s) + 1 /\ Len(s) \in Nat /\ \A i \in 1..Len(s) : t[i] = s[i]
  BY AppendProperties
<1> HIDE DEF t
<1>2. Len(t) > 0 /\ Len(t) - 1 = Len(s)
  BY <1>1
<1>3. Front(t) \in Seq(S) /\ Len(Front(t)) = Len(s) /\ \A i \in 1..Len(s) : Front(t)[i] = t[i]
  BY <1>1, <1>2, FrontOf
<1>4. Front(t) = s
  BY <1>1, <1>3, SeqEqual
<1> QED
  BY <1>4 DEF t

LEMMA AppendToTuple ==
  ASSUME NEW S, NEW a \in S, NEW b \in S, NEW c \in S
  PROVE  Append(<<>>, a) = <<a>> /\ Append(<<a>>, b) = <<a, b>> /\ Append(<<a, b>>, c) = <<a, b, c>>
<1>1. Append(<<>>, a) = <<a>>
  BY ShortTuples, EmptySeq, AppendProperties, SeqEqual
<1>2. ASSUME NEW s \in Seq(S), NEW t \in Seq(S), NEW e \in S, Len(t) = Len(s) + 1, \A i \in 1..Len(s) : t[i] = s[i], t[Len(t)] = e
      PROVE  Append(s, e) = t
  <2> DEFINE u == Append(s, e)
  <2>1. u \in Seq(S) /\ Len(u) = Len(s) + 1 /\ (\A i \in 1..Len(s) : u[i] = s[i]) /\ u[Len(s) + 1] = e
    BY AppendProperties
  <2> HIDE DEF u
  <2>2. \A i \in 1..Len(u) : u[i] = t[i]
    BY <1>2, <2>1
  <2>3. u = t
    BY <1>2, <2>1, <2>2, SeqEqual
  <2> QED
    BY <2>3 DEF u
<1>3. Append(<<a>>, b) = <<a, b>>
  <2> DEFINE s == <<a>>
             t == <<a, b>>
  <2>1. s \in Seq(S) /\ t \in Seq(S) /\ Len(s) = 1 /\ Len(t) = 2 /\ t[1] = s[1] /\ t[2] = b
    BY ShortTuples
  <2> HIDE DEF s, t
  <2>2. Append(s, b) = t
    <3>1. Len(t) = Len(s) + 1 /\ t[Len(t)] = b
      BY <2>1
    <3>2. \A i \in 1..Len(s) : t[i] = s[i]
      BY <2>1
    <3> QED
      BY <1>2, <2>1, <3>1, <3>2, Zenon
  <2> QED
    BY <2>2 DEF s, t
<1>4. Append(<<a, b>>, c) = <<a, b, c>>
  <2> DEFINE s == <<a, b>>
             t == <<a, b, c>>
  <2>1. s \in Seq(S) /\ t \in Seq(S) /\ Len(s) = 2 /\ Len(t) = 3 /\ t[1] = s[1] /\ t[2] = s[2] /\ t[3] = c
    BY ShortTuples
  <2> HIDE DEF s, t
  <2>2. Append(s, c) = t
    <3>1. Len(t) = Len(s) + 1 /\ t[Len(t)] = c
      BY <2>1
    <3>2. \A i \in 1..Len(s) : t[i] = s[i]
      BY <2>1
    <3> QED
      BY <1>2, <2>1, <3>1, <3>2, Zenon
  <2> QED
    BY <2>2 DEF s, t
<1> QED
  BY <1>1, <1>3, <1>4

-----------------------------------------------------------------------------
(* The oldest of some orders, and what is written in a row.                *)

LEMMA LeastOrder ==
  ASSUME NEW S \in SUBSET Orders, S # {}
  PROVE  Oldest(S) \in S
<1> DEFINE R == OpToRel(<, Nat)
<1>1. IsWellFoundedOn(R, Nat)
  BY NatLessThanWellFounded
<1>2. \A a, b \in Nat : a < b => <<a, b>> \in R
  BY DEF OpToRel
<1>3. S \subseteq Nat
  BY MaxOrdersNat DEF Orders
<1> HIDE DEF R
<1>4. PICK n \in S : \A k \in S : ~(<<k, n>> \in R)
  BY <1>1, <1>3, WFMin
<1>5. ASSUME NEW k \in S PROVE n <= k
  <2>1. n \in Nat /\ k \in Nat
    BY <1>3
  <2>2. ~(k < n)
    BY <1>2, <1>4, <2>1
  <2> QED
    BY <2>1, <2>2
<1> QED
  BY <1>5 DEF Oldest

LEMMA Paths ==
  /\ Path("PENDING") = <<"PENDING">> /\ Front(Path("PENDING")) = <<>>
  /\ Path("ACKNOWLEDGED") = <<"PENDING", "ACKNOWLEDGED">> /\ Front(Path("ACKNOWLEDGED")) = Path("PENDING")
  /\ \A s \in Fates : Path(s) = <<"PENDING", "ACKNOWLEDGED", s>> /\ Front(Path(s)) = Path("ACKNOWLEDGED")
<1>1. /\ Path("PENDING") = <<"PENDING">>
      /\ Path("ACKNOWLEDGED") = <<"PENDING", "ACKNOWLEDGED">>
      /\ \A s \in Fates : Path(s) = <<"PENDING", "ACKNOWLEDGED", s>>
  BY DEF Path, Fates
<1>2. "PENDING" \in States /\ "ACKNOWLEDGED" \in States /\ Fates \subseteq States
  BY DEF States, Fates
<1>3. <<"PENDING">> = Append(<<>>, "PENDING") /\ <<"PENDING", "ACKNOWLEDGED">> = Append(<<"PENDING">>, "ACKNOWLEDGED")
  BY <1>2, AppendToTuple
<1>4. \A s \in Fates : <<"PENDING", "ACKNOWLEDGED", s>> = Append(<<"PENDING", "ACKNOWLEDGED">>, s)
  BY <1>2, AppendToTuple
<1>5. <<>> \in Seq(States) /\ <<"PENDING">> \in Seq(States) /\ <<"PENDING", "ACKNOWLEDGED">> \in Seq(States)
  BY <1>2, ShortTuples
<1>6. Front(Append(<<>>, "PENDING")) = <<>> /\ Front(Append(<<"PENDING">>, "ACKNOWLEDGED")) = <<"PENDING">>
  BY <1>2, <1>5, FrontAppend
<1>7. \A s \in Fates : Front(Append(<<"PENDING", "ACKNOWLEDGED">>, s)) = <<"PENDING", "ACKNOWLEDGED">>
  BY <1>2, <1>5, FrontAppend
<1> QED
  BY <1>1, <1>3, <1>4, <1>6, <1>7, Zenon

\* The transition that is written completes the trail.
LEMMA Written ==
  ASSUME NEW s \in {"PENDING", "ACKNOWLEDGED"} \cup Fates
  PROVE  Append(Front(Path(s)), s) = Path(s) /\ Path(s) \in Seq(States) /\ Front(Path(s)) \in Seq(States)
<1>1. "PENDING" \in States /\ "ACKNOWLEDGED" \in States /\ s \in States
  BY DEF States, Fates
<1>2. <<>> \in Seq(States) /\ <<"PENDING">> \in Seq(States) /\ <<"PENDING", "ACKNOWLEDGED">> \in Seq(States)
      /\ <<"PENDING", "ACKNOWLEDGED", s>> \in Seq(States)
  BY <1>1, ShortTuples
<1>3. CASE s = "PENDING"
  <2>1. Append(<<>>, "PENDING") = <<"PENDING">>
    BY <1>1, AppendToTuple
  <2> QED
    BY <1>2, <1>3, <2>1, Paths, Zenon
<1>4. CASE s = "ACKNOWLEDGED"
  <2>1. Append(<<"PENDING">>, "ACKNOWLEDGED") = <<"PENDING", "ACKNOWLEDGED">>
    BY <1>1, AppendToTuple
  <2> QED
    BY <1>2, <1>4, <2>1, Paths, Zenon
<1>5. CASE s \in Fates
  <2>1. Append(<<"PENDING", "ACKNOWLEDGED">>, s) = <<"PENDING", "ACKNOWLEDGED", s>>
    BY <1>1, AppendToTuple
  <2> QED
    BY <1>2, <1>5, <2>1, Paths, Zenon
<1> QED
  BY <1>3, <1>4, <1>5

LEMMA OneRow ==
  ASSUME Kept(db), NEW o \in Orders, NEW row \in Rows, Filled(row), Told(row), db' = [db EXCEPT ![o] = row]
  PROVE  Kept(db') /\ db'[o] = row /\ \A p \in Orders \ {o} : db'[p] = db[p]
BY DEF Kept

LEMMA Observed ==
  ASSUME NEW w \in Windows, NEW q \in Quotes, NEW l \in Lefts
  PROVE  [window |-> w, spot |-> q.spot, up |-> q.up, left |-> l] \in Obs
<1>1. q.spot \in 1..Par /\ q.up \in 1..Par
  BY QuotesType
<1> QED
  BY <1>1 DEF Obs

LEMMA PnlType ==
  ASSUME NEW row \in Rows, NEW obs \in Obs
  PROVE  PnlAt(row, obs.up) \in -Par..Par
<1>1. obs.up \in 1..Par /\ row.entry \in 0..Par
  BY DEF Obs, Rows
<1> QED
  BY <1>1 DEF PnlAt, PriceOf, Par

-----------------------------------------------------------------------------
(* Every step keeps the types.                                             *)

LEMMA Moves ==
  ASSUME tick \in Ticks, NEW s \in Steps, GoTo(s)
  PROVE  tick' \in Ticks /\ tick'.step = s /\ tick'.obs = tick.obs /\ tick'.todo = tick.todo
         /\ tick'.order = tick.order /\ tick'.served = tick.served
BY DEF GoTo, Ticks

LEMMA Rests ==
  ASSUME tick \in Ticks, GoIdle
  PROVE  tick' \in Ticks /\ tick'.step = "idle" /\ tick'.obs = tick.obs /\ tick'.todo = {}
         /\ tick'.order = 0 /\ tick'.served = tick.served
BY DEF GoIdle, Ticks, Steps

\* A tick that ends keeps what it relied on.
LEMMA EndsTyped ==
  ASSUME Typed, GoIdle, Formal', db' = db, down' = down, tape' = tape
  PROVE  Typed'
<1>1. tick'.step = "idle" /\ tick'.todo = {} /\ tick'.order = 0 /\ tick'.served = tick.served
  BY Rests DEF Typed, Formal
<1> QED
  BY <1>1 DEF Typed, Staged, Submitting

LEMMA BlankRow == NoRow \in Rows /\ NoRow.trail = <<>> /\ NoRow.pos = "none"
<1>1. <<>> \in Seq(States)
  OBVIOUS
<1> QED
  BY <1>1 DEF NoRow, Rows, States, Par

LEMMA InitTyped == Init => Typed
<1> SUFFICES ASSUME Init PROVE Typed
  OBVIOUS
<1>1. NoRow \in Rows /\ Filled(NoRow) /\ Told(NoRow)
  <2>1. NoRow.state = "absent"
    BY DEF NoRow
  <2> QED
    BY <2>1, BlankRow DEF Filled, Told
<1>2. Kept(db) /\ disk = db /\ watch.boot = db
  BY <1>1 DEF Init, Kept
<1>3. risk \in RiskBook /\ down \in Downs /\ stop \in BOOLEAN /\ verbose \in BOOLEAN
  <2>1. risk \in RiskBook
    BY DEF Init, NoRisk, RiskBook
  <2>2. Off \in Downs
    BY DEF Off, Downs
  <2>3. down = Off /\ stop \in BOOLEAN /\ verbose \in BOOLEAN
    BY DEF Init
  <2> QED
    BY <2>1, <2>2, <2>3
<1>4. tick \in Ticks /\ tick.step = "idle" /\ tick.order = 0 /\ tick.todo = {} /\ tick.served = 0 /\ down.left = {}
  BY BoundsNat DEF Init, Ticks, Steps, Off
<1>5. tape \in Tapes /\ Len(tape.ticks) = 0
  BY DEF Init, BlankTape, Tapes, Prices
<1>6. watch \in Watches
  BY <1>2, BoundsNat DEF Init, Watches, Kept
<1> QED
  BY <1>2, <1>3, <1>4, <1>5, <1>6 DEF Typed, Formal, Staged, Submitting

LEMMA BeginTyped == Typed /\ BeginTick => Typed'
<1> SUFFICES ASSUME Typed, BeginTick PROVE Typed'
  OBVIOUS
<1>1. PICK w \in Windows, q \in Quotes, l \in Lefts :
        tick' = [tick EXCEPT !.step = "window", !.obs = [window |-> w, spot |-> q.spot, up |-> q.up, left |-> l],
                             !.served = @ + 1]
  BY DEF BeginTick
<1> DEFINE obs == [window |-> w, spot |-> q.spot, up |-> q.up, left |-> l]
<1>2. obs \in Obs
  BY Observed
<1> HIDE DEF obs
<1>3. tick' = [tick EXCEPT !.step = "window", !.obs = obs, !.served = @ + 1]
  BY <1>1 DEF obs
<1>4. tick.served + 1 \in 0..MaxTicks /\ "window" \in Steps
  BY BoundsNat DEF BeginTick, Typed, Formal, Ticks, Steps
<1>5. /\ tick' \in Ticks /\ tick'.step = "window" /\ tick'.obs = obs /\ tick'.todo = tick.todo
      /\ tick'.order = tick.order /\ tick'.served = tick.served + 1
  BY <1>2, <1>3, <1>4 DEF Typed, Formal, Ticks
<1>6. tick.order = 0 /\ tick.step = "idle"
  BY DEF BeginTick, At, Typed, Staged, Submitting
<1>7. Len(tape.ticks) \in Nat /\ tick.served \in Nat
  BY DEF Typed, Formal, Tapes, Ticks
<1>8. UNCHANGED <<db, disk, risk, stop, down, tape, verbose, watch>>
  BY DEF BeginTick
<1>9. Formal'
  BY <1>5, <1>8 DEF Typed, Formal
<1>10. Staged'
  BY <1>2, <1>5, <1>6, <1>7, <1>8 DEF Typed, Staged, Submitting
<1> QED
  BY <1>9, <1>10 DEF Typed

LEMMA RecordWindowTyped == Typed /\ RecordWindow => Typed'
<1> SUFFICES ASSUME Typed, RecordWindow PROVE Typed'
  OBVIOUS
<1>1. tick.step = "window" /\ tick.obs \in Obs /\ tick.order = 0
  BY DEF RecordWindow, At, Typed, Staged, Submitting
<1>2. /\ tick' \in Ticks /\ tick'.step = "tick" /\ tick'.obs = tick.obs /\ tick'.todo = tick.todo
      /\ tick'.order = tick.order /\ tick'.served = tick.served
  BY Moves DEF RecordWindow, Typed, Formal, Steps
<1>3. tick.obs.window \in Windows /\ tick.obs.up \in 1..Par
  BY <1>1 DEF Obs
<1>4. tape' \in Tapes /\ tape'.ticks = tape.ticks
  BY <1>3 DEF RecordWindow, WithWindow, Typed, Formal, Tapes, Prices
<1>5. watch' \in Watches /\ watch'.boot = watch.boot
  BY <1>3 DEF RecordWindow, Typed, Formal, Watches
<1>6. UNCHANGED <<db, disk, risk, stop, down, verbose>>
  BY DEF RecordWindow
<1>7. Formal'
  BY <1>2, <1>4, <1>5, <1>6 DEF Typed, Formal
<1>8. Staged'
  BY <1>1, <1>2, <1>4, <1>6 DEF Typed, Staged, Submitting
<1> QED
  BY <1>7, <1>8 DEF Typed

LEMMA RecordTickTyped == Typed /\ RecordTick => Typed'
<1> SUFFICES ASSUME Typed, RecordTick PROVE Typed'
  OBVIOUS
<1>1. tick.step = "tick" /\ tick.obs \in Obs /\ tick.order = 0 /\ Len(tape.ticks) < tick.served
  BY DEF RecordTick, At, Typed, Staged, Submitting
<1>2. /\ tick' \in Ticks /\ tick'.step = "fetch" /\ tick'.obs = tick.obs /\ tick'.todo = tick.todo
      /\ tick'.order = tick.order /\ tick'.served = tick.served
  BY Moves DEF RecordTick, Typed, Formal, Steps
<1>3. tape \in Tapes /\ tape.ticks \in Seq(Recorded) /\ Len(tape.ticks) \in Nat /\ tick.served \in 0..MaxTicks
  BY DEF Typed, Formal, Tapes, Ticks
<1>4. [id |-> Len(tape.ticks) + 1, tick |-> tick.obs] \in Recorded
  BY <1>1, <1>3, BoundsNat DEF Recorded
<1>5. tape' = [tape EXCEPT !.ticks = Append(tape.ticks, [id |-> Len(tape.ticks) + 1, tick |-> tick.obs])]
  BY DEF RecordTick, WithTick
<1>6. /\ Append(tape.ticks, [id |-> Len(tape.ticks) + 1, tick |-> tick.obs]) \in Seq(Recorded)
      /\ Len(Append(tape.ticks, [id |-> Len(tape.ticks) + 1, tick |-> tick.obs])) = Len(tape.ticks) + 1
  BY <1>3, <1>4, AppendProperties
<1>7. tape' \in Tapes /\ Len(tape'.ticks) = Len(tape.ticks) + 1
  BY <1>3, <1>5, <1>6 DEF Tapes
<1>8. watch' \in Watches /\ watch'.boot = watch.boot
  BY DEF RecordTick, Typed, Formal, Watches
<1>9. UNCHANGED <<db, disk, risk, stop, down, verbose>>
  BY DEF RecordTick
<1>10. Formal'
  BY <1>2, <1>7, <1>8, <1>9 DEF Typed, Formal
<1>11. Staged'
  BY <1>1, <1>2, <1>3, <1>7, <1>9 DEF Typed, Staged, Submitting
<1> QED
  BY <1>10, <1>11 DEF Typed

LEMMA RecorderFailsTyped == Typed /\ RecorderFails => Typed'
<1> SUFFICES ASSUME Typed, RecorderFails PROVE Typed'
  OBVIOUS
<1>1. tick.step \in {"window", "tick"} /\ tick.obs \in Obs /\ tick.order = 0
  BY DEF RecorderFails, Typed, Staged, Submitting
<1>2. /\ tick' \in Ticks /\ tick'.step = "fetch" /\ tick'.obs = tick.obs /\ tick'.todo = tick.todo
      /\ tick'.order = tick.order /\ tick'.served = tick.served
  BY Moves DEF RecorderFails, Typed, Formal, Steps
<1>3. watch' \in Watches /\ watch'.boot = watch.boot
  BY BoundsNat DEF RecorderFails, Typed, Formal, Watches
<1>4. UNCHANGED <<db, disk, risk, stop, down, tape, verbose>>
  BY DEF RecorderFails
<1>5. Formal'
  BY <1>2, <1>3, <1>4 DEF Typed, Formal
<1>6. Staged'
  BY <1>1, <1>2, <1>4 DEF Typed, Staged, Submitting
<1> QED
  BY <1>5, <1>6 DEF Typed

LEMMA FetchOpenTyped == Typed /\ FetchOpen => Typed'
<1> SUFFICES ASSUME Typed, FetchOpen PROVE Typed'
  OBVIOUS
<1>1. tick.step = "fetch" /\ tick.obs \in Obs /\ tick.order = 0
  BY DEF FetchOpen, At, Typed, Staged, Submitting
<1>2. Open(db) \in SUBSET Orders /\ "check" \in Steps
  BY DEF Open, Steps
<1>3. /\ tick' \in Ticks /\ tick'.step = "check" /\ tick'.obs = tick.obs /\ tick'.todo = Open(db)
      /\ tick'.order = tick.order /\ tick'.served = tick.served
  BY <1>2 DEF FetchOpen, Typed, Formal, Ticks
<1>4. UNCHANGED <<db, disk, risk, stop, down, tape, verbose, watch>>
  BY DEF FetchOpen
<1>5. \A o \in Open(db) : db[o].pos # "none"
  BY DEF Open
<1>6. Formal'
  BY <1>3, <1>4 DEF Typed, Formal
<1>7. Staged'
  BY <1>1, <1>3, <1>4, <1>5 DEF Typed, Staged, Submitting
<1> QED
  BY <1>6, <1>7 DEF Typed

\* The position that is looked at is one of a filled order.
LEMMA VictimType ==
  ASSUME Typed, tick.todo # {}
  PROVE  Victim \in tick.todo /\ Victim \in Orders /\ db[Victim] \in Rows
         /\ db[Victim].pos # "none" /\ db[Victim].state = "FILLED" /\ Told(db[Victim])
<1>1. tick.todo \in SUBSET Orders
  BY DEF Typed, Formal, Ticks
<1>2. Victim \in tick.todo
  BY <1>1, LeastOrder DEF Victim
<1> QED
  BY <1>1, <1>2 DEF Typed, Formal, Staged, Kept, Filled

LEMMA ExitTyped == Typed /\ Exit => Typed'
<1> SUFFICES ASSUME Typed, Exit PROVE Typed'
  OBVIOUS
<1> DEFINE pnl == PnlAt(db[Victim], tick.obs.up)
           row == [db[Victim] EXCEPT !.pos = "closed", !.pnl = pnl]
<1>1. tick.step = "check" /\ tick.obs \in Obs /\ tick.order = 0 /\ tick.todo # {}
  BY DEF Exit, At, Typed, Staged, Submitting
<1>2. /\ Victim \in Orders /\ db[Victim] \in Rows /\ db[Victim].state = "FILLED" /\ Told(db[Victim])
  BY <1>1, VictimType
<1>3. pnl \in -Par..Par
  BY <1>1, <1>2, PnlType
<1>4. db' = [db EXCEPT ![Victim] = row]
  <2>1. DOMAIN db = Orders
    BY DEF Typed, Formal, Kept
  <2> QED
    BY <1>2, <2>1 DEF Exit
<1> HIDE DEF pnl
<1>5. row \in Rows /\ Filled(row) /\ Told(row) /\ row.pos = "closed"
  <2>1. row \in Rows /\ row.state = "FILLED" /\ row.trail = db[Victim].trail /\ row.pos = "closed"
    BY <1>2, <1>3 DEF Rows
  <2> QED
    BY <1>2, <2>1 DEF Filled, Told
<1> HIDE DEF row
<1>6. Kept(db') /\ db'[Victim] = row /\ \A p \in Orders \ {Victim} : db'[p] = db[p]
  BY <1>2, <1>4, <1>5, OneRow DEF Typed, Formal
<1>7. /\ tick' \in Ticks /\ tick'.step = "close" /\ tick'.obs = tick.obs /\ tick'.todo = tick.todo
      /\ tick'.order = tick.order /\ tick'.served = tick.served
  BY Moves DEF Exit, Typed, Formal, Steps
<1>8. UNCHANGED <<disk, risk, stop, down, tape, verbose, watch>>
  BY DEF Exit
<1>9. Formal'
  BY <1>6, <1>7, <1>8 DEF Typed, Formal
<1>10. \A o \in tick.todo \cup down.left : db'[o].pos # "none"
  <2>1. tick.todo \cup down.left \subseteq Orders
    BY DEF Typed, Formal, Ticks, Downs
  <2> QED
    BY <1>5, <1>6, <2>1 DEF Typed, Staged
<1>11. Staged'
  BY <1>1, <1>7, <1>8, <1>10 DEF Typed, Staged, Submitting
<1> QED
  BY <1>9, <1>11 DEF Typed

LEMMA KeepOpenTyped == Typed /\ KeepOpen => Typed'
<1> SUFFICES ASSUME Typed, KeepOpen PROVE Typed'
  OBVIOUS
<1>1. tick.step = "check" /\ tick.obs \in Obs /\ tick.order = 0
  BY DEF KeepOpen, At, Typed, Staged, Submitting
<1>2. /\ tick' \in Ticks /\ tick'.step = "check" /\ tick'.obs = tick.obs /\ tick'.todo \subseteq tick.todo
      /\ tick'.order = tick.order /\ tick'.served = tick.served
  BY <1>1 DEF KeepOpen, Typed, Formal, Ticks
<1>3. UNCHANGED <<db, disk, risk, stop, down, tape, verbose, watch>>
  BY DEF KeepOpen
<1>4. Formal'
  BY <1>2, <1>3 DEF Typed, Formal
<1>5. Staged'
  BY <1>1, <1>2, <1>3 DEF Typed, Staged, Submitting
<1> QED
  BY <1>4, <1>5 DEF Typed

LEMMA ReleasedType ==
  ASSUME NEW r \in RiskBook, NEW pnl \in Int
  PROVE  Released(r, pnl) \in RiskBook
<1>1. Notional \in Nat
  BY BoundsNat
<1>2. r.exposure \in Nat /\ r.total \in Int /\ r.peak \in Nat /\ r.wins \in Nat /\ r.losses \in Nat
  BY DEF RiskBook
<1>3. Positive(r.exposure - Notional) \in Nat
  BY <1>1, <1>2 DEF Positive
<1> DEFINE total == r.total + pnl
           peak  == IF total > r.peak THEN total ELSE r.peak
<1>4. total \in Int /\ peak \in Nat
  BY <1>2
<1>5. Positive(peak - total) \in Nat
  BY <1>4 DEF Positive
<1>6. r.wins + (IF pnl > 0 THEN 1 ELSE 0) \in Nat /\ r.losses + (IF pnl < 0 THEN 1 ELSE 0) \in Nat
  BY <1>2
<1>7. Released(r, pnl) = [exposure |-> Positive(r.exposure - Notional), total |-> total, peak |-> peak,
                          drawdown |-> Positive(peak - total), wins |-> r.wins + (IF pnl > 0 THEN 1 ELSE 0),
                          losses |-> r.losses + (IF pnl < 0 THEN 1 ELSE 0), updated |-> TRUE]
  BY DEF Released
<1> HIDE DEF peak, total
<1> QED
  BY <1>3, <1>4, <1>5, <1>6, <1>7 DEF RiskBook

LEMMA CommitCloseTyped == Typed /\ CommitClose => Typed'
<1> SUFFICES ASSUME Typed, CommitClose PROVE Typed'
  OBVIOUS
<1>1. tick.step = "close" /\ tick.obs \in Obs /\ tick.order = 0 /\ tick.todo # {}
  BY DEF CommitClose, At, Typed, Staged, Submitting
<1>2. PnlAt(db[Victim], tick.obs.up) \in Int
  <2>1. PnlAt(db[Victim], tick.obs.up) \in -Par..Par
    BY <1>1, VictimType, PnlType
  <2> QED
    BY <2>1 DEF Par
<1>3. risk' \in RiskBook
  BY <1>2, ReleasedType DEF CommitClose, Typed, Formal
<1>4. UNCHANGED <<db, stop, down, tape, verbose, watch>> /\ disk' = db
  BY DEF CommitClose
<1>5. tick' \in Ticks => Formal'
  BY <1>3, <1>4 DEF Typed, Formal
<1>6. CASE verbose
  <2>1. GoIdle
    BY <1>6 DEF CommitClose
  <2> QED
    BY <1>4, <1>5, <2>1, Rests, EndsTyped DEF Typed, Formal
<1>7. CASE ~verbose
  <2>1. tick' = [tick EXCEPT !.step = "check", !.todo = @ \ {Victim}]
    BY <1>7 DEF CommitClose
  <2>2. /\ tick' \in Ticks /\ tick'.step = "check" /\ tick'.obs = tick.obs /\ tick'.todo \subseteq tick.todo
        /\ tick'.order = tick.order /\ tick'.served = tick.served
    BY <2>1 DEF Typed, Formal, Ticks, Steps
  <2>3. Staged'
    BY <1>1, <1>4, <2>2 DEF Typed, Staged, Submitting
  <2> QED
    BY <1>5, <2>2, <2>3 DEF Typed
<1> QED
  BY <1>6, <1>7

\* Where a tick ends and nothing but the counter of failures changes.
LEMMA CutTyped ==
  ASSUME Typed, CloseFails \/ SkipEntry \/ SubmitFails
  PROVE  Typed'
<1>1. GoIdle /\ UNCHANGED <<db, disk, risk, stop, down, tape, verbose>>
  BY DEF CloseFails, SkipEntry, SubmitFails
<1>2. watch' \in Watches /\ watch'.boot = watch.boot
  <2>1. watch \in Watches
    BY DEF Typed, Formal
  <2>2. CASE CloseFails \/ SubmitFails
    <3>1. watch.faults < MaxFaults /\ watch' = [watch EXCEPT !.faults = @ + 1, !.clean = FALSE]
      BY <2>2 DEF CloseFails, SubmitFails
    <3>2. watch.faults + 1 \in 0..MaxFaults
      BY <2>1, <3>1, BoundsNat DEF Watches
    <3> QED
      BY <2>1, <3>1, <3>2 DEF Watches
  <2>3. CASE SkipEntry
    BY <2>1, <2>3 DEF SkipEntry
  <2> QED
    BY <2>2, <2>3
<1>3. tick' \in Ticks
  BY <1>1, Rests DEF Typed, Formal
<1>4. Formal'
  BY <1>1, <1>2, <1>3 DEF Typed, Formal
<1> QED
  BY <1>1, <1>4, EndsTyped

\* From the decision to the insert nothing can change what was decided on.
LEMMA DecideTyped == Typed /\ Decide => Typed'
<1> SUFFICES ASSUME Typed, Decide PROVE Typed'
  OBVIOUS
<1>1. tick.step = "check" /\ tick.obs \in Obs /\ tick.order = 0 /\ Wants
  BY DEF Decide, At, Typed, Staged, Submitting
<1>2. /\ tick' \in Ticks /\ tick'.step = "insert" /\ tick'.obs = tick.obs /\ tick'.todo = tick.todo
      /\ tick'.order = tick.order /\ tick'.served = tick.served
  BY Moves DEF Decide, Typed, Formal, Steps, Submitting
<1>3. UNCHANGED <<db, disk, risk, stop, down, tape, verbose, watch>>
  BY DEF Decide
<1>4. Formal'
  BY <1>2, <1>3 DEF Typed, Formal
<1>5. Wants'
  BY <1>1, <1>2 DEF Wants
<1>6. Staged'
  BY <1>1, <1>2, <1>3, <1>5 DEF Typed, Staged, Submitting
<1> QED
  BY <1>4, <1>6 DEF Typed

\* What a step that writes the row of its own order has to show.
LEMMA FlightTyped ==
  ASSUME Typed, NEW o \in Orders, NEW row \in Rows, db' = [db EXCEPT ![o] = row],
         Told(row), Flying(row, tick'.step), (row.pos = "none" => db[o].pos = "none"), Filled(row),
         tick' \in Ticks, tick'.order = o, tick'.step \in Submitting \ {"insert"},
         tick'.obs = tick.obs, tick'.todo = tick.todo, tick'.served = tick.served, tick.step # "idle",
         UNCHANGED <<disk, risk, stop, down, tape, verbose, watch>>
  PROVE  Typed'
<1>1. Kept(db') /\ db'[o] = row /\ \A p \in Orders \ {o} : db'[p] = db[p]
  BY OneRow DEF Typed, Formal
<1>2. Formal'
  BY <1>1 DEF Typed, Formal
<1>3. o # 0
  BY MaxOrdersNat DEF Orders
<1>4. \A p \in tick'.todo \cup down'.left : db'[p].pos # "none"
  <2>1. tick.todo \cup down.left \subseteq Orders
    BY DEF Typed, Formal, Ticks, Downs
  <2> QED
    BY <1>1, <2>1 DEF Typed, Staged
<1>5. Staged'
  <2>1. tick'.obs \in Obs
    BY DEF Typed, Staged
  <2>2. tick'.step \notin {"idle", "insert", "close", "window", "tick"}
    BY DEF Submitting
  <2>3. Len(tape'.ticks) <= tick'.served
    BY DEF Typed, Staged
  <2>4. Flying(db'[tick'.order], tick'.step)
    BY <1>1
  <2> QED
    BY <1>3, <1>4, <2>1, <2>2, <2>3, <2>4 DEF Staged
<1> QED
  BY <1>2, <1>5 DEF Typed

LEMMA InsertTyped == Typed /\ InsertOrder => Typed'
<1> SUFFICES ASSUME Typed, InsertOrder PROVE Typed'
  OBVIOUS
<1> DEFINE o    == Oldest(Unused)
           side == Generate(tick.obs)
           row  == [NoRow EXCEPT !.window = tick.obs.window, !.side = side,
                                 !.entry = PriceOf(tick.obs.up, side), !.state = "PENDING"]
<1>1. tick.step = "insert" /\ tick.obs \in Obs /\ Wants
  BY DEF InsertOrder, At, Typed, Staged
<1>2. o \in Orders /\ db[o].state = "absent"
  <2>1. Unused \in SUBSET Orders /\ Unused # {}
    BY DEF Unused, InsertOrder
  <2>2. o \in Unused
    BY <2>1, LeastOrder
  <2> QED
    BY <2>2 DEF Unused
<1>3. db' = [db EXCEPT ![o] = row] /\ tick' = [tick EXCEPT !.step = "audit1", !.order = o]
  BY DEF InsertOrder
<1>4. tick' \in Ticks /\ tick'.step = "audit1" /\ tick'.order = o
      /\ tick'.obs = tick.obs /\ tick'.todo = tick.todo /\ tick'.served = tick.served
  <2>1. "audit1" \in Steps
    BY DEF Steps, Submitting
  <2> HIDE DEF o
  <2> QED
    BY <1>2, <1>3, <2>1 DEF Typed, Formal, Ticks
<1>5. row \in Rows /\ row.state = "PENDING" /\ row.trail = <<>> /\ row.pos = "none"
  <2>1. side \in Sides
    BY <1>1 DEF Wants, Generate, SideOf, Sides
  <2>2. tick.obs.window \in Windows /\ PriceOf(tick.obs.up, side) \in 0..Par
    <3>1. tick.obs.up \in 1..Par /\ tick.obs.window \in Windows
      BY <1>1 DEF Obs
    <3> HIDE DEF side
    <3> QED
      BY <3>1 DEF PriceOf, Par
  <2>3. "PENDING" \in States
    BY DEF States
  <2> HIDE DEF side
  <2> QED
    BY <2>1, <2>2, <2>3, BlankRow DEF Rows
<1>6. db[o].pos = "none"
  BY <1>2 DEF Typed, Formal, Kept, Filled
<1> HIDE DEF row, o
<1>7. Told(row) /\ Filled(row) /\ Flying(row, "audit1")
  <2>1. row.trail = Front(Path(row.state))
    BY <1>5, Paths
  <2>2. "audit1" \in DOMAIN AfterAudit
    BY DEF AfterAudit
  <2> QED
    BY <1>5, <2>1, <2>2 DEF Told, Filled, Flying
<1>8. UNCHANGED <<disk, risk, stop, down, tape, verbose, watch>>
  BY DEF InsertOrder
<1> QED
  BY <1>1, <1>2, <1>3, <1>4, <1>5, <1>6, <1>7, <1>8, FlightTyped DEF Submitting

\* The row of the order in flight.
LEMMA InFlight ==
  ASSUME Typed, tick.step \in Submitting \ {"insert"}
  PROVE  tick.order \in Orders /\ db[tick.order] \in Rows /\ Flying(db[tick.order], tick.step) /\ DOMAIN db = Orders
         /\ tick.step # "idle"
<1>1. tick.order \in Orders \cup {0}
  BY DEF Typed, Formal, Ticks
<1>2. tick.order # 0
  BY DEF Typed, Staged
<1> QED
  BY <1>1, <1>2 DEF Typed, Formal, Staged, Kept, Submitting

LEMMA AuditTyped == Typed /\ Audit => Typed'
<1> SUFFICES ASSUME Typed, Audit PROVE Typed'
  OBVIOUS
<1> DEFINE o   == tick.order
           row == [db[o] EXCEPT !.trail = Append(@, db[o].state)]
           next == AfterAudit[tick.step]
<1>1. tick.step \in {"audit1", "audit2", "audit3"} /\ tick.step \in DOMAIN AfterAudit /\ tick.step \in Submitting \ {"insert"}
  BY DEF Audit, AfterAudit, Submitting
<1>2. o \in Orders /\ db[o] \in Rows /\ Flying(db[o], tick.step) /\ DOMAIN db = Orders /\ tick.step # "idle"
  BY <1>1, InFlight
<1>3. db[o].state \in {"PENDING", "ACKNOWLEDGED"} \cup Fates /\ db[o].trail = Front(Path(db[o].state)) /\ db[o].pos = "none"
  BY <1>1, <1>2 DEF Flying
<1>4. db' = [db EXCEPT ![o] = row]
  BY <1>2 DEF Audit
<1>5. row \in Rows /\ row.state = db[o].state /\ row.trail = Path(row.state) /\ row.pos = "none"
  <2>1. Append(db[o].trail, db[o].state) = Path(db[o].state) /\ Path(db[o].state) \in Seq(States)
    BY <1>3, Written
  <2>2. row = [db[o] EXCEPT !.trail = Path(db[o].state)]
    BY <2>1
  <2> HIDE DEF row
  <2> QED
    BY <1>2, <1>3, <2>1, <2>2 DEF Rows
<1>6. next \in {"ack", "fill", "commit"} /\ next \in Steps /\ next \in Submitting \ {"insert"}
      /\ (tick.step = "audit1" => next = "ack") /\ (tick.step = "audit2" => next = "fill")
      /\ (tick.step = "audit3" => next = "commit")
  BY <1>1 DEF AfterAudit, Steps, Submitting
<1> HIDE DEF row, next
<1>7. /\ tick' \in Ticks /\ tick'.step = next /\ tick'.obs = tick.obs /\ tick'.todo = tick.todo
      /\ tick'.order = tick.order /\ tick'.served = tick.served
  <2>1. GoTo(next)
    BY DEF Audit, next
  <2> QED
    BY <1>6, <2>1, Moves DEF Typed, Formal
<1>8. Flying(row, next) /\ Told(row) /\ Filled(row)
  <2>1. next \notin DOMAIN AfterAudit /\ next \notin {"audit1", "audit2", "audit3", "open", "book"}
    BY <1>6 DEF AfterAudit
  <2> QED
    BY <1>1, <1>2, <1>3, <1>5, <1>6, <2>1 DEF Flying, Told, Filled
<1>9. UNCHANGED <<disk, risk, stop, down, tape, verbose, watch>>
  BY DEF Audit
<1> QED
  BY <1>2, <1>3, <1>4, <1>5, <1>6, <1>7, <1>8, <1>9, FlightTyped

LEMMA AcknowledgeTyped == Typed /\ Acknowledge => Typed'
<1> SUFFICES ASSUME Typed, Acknowledge PROVE Typed'
  OBVIOUS
<1> DEFINE o   == tick.order
           row == [db[o] EXCEPT !.state = "ACKNOWLEDGED"]
<1>1. tick.step = "ack" /\ tick.step \in Submitting \ {"insert"} /\ tick.step \notin DOMAIN AfterAudit
  BY DEF Acknowledge, At, Submitting, AfterAudit
<1>2. o \in Orders /\ db[o] \in Rows /\ Flying(db[o], tick.step) /\ DOMAIN db = Orders /\ tick.step # "idle"
  BY <1>1, InFlight
<1>3. db[o].state = "PENDING" /\ db[o].trail = Path("PENDING") /\ db[o].pos = "none"
  BY <1>1, <1>2 DEF Flying
<1>4. db' = [db EXCEPT ![o] = row]
  BY <1>2 DEF Acknowledge
<1>5. row \in Rows /\ row.state = "ACKNOWLEDGED" /\ row.trail = Front(Path(row.state)) /\ row.pos = "none"
  <2>1. row \in Rows /\ row.state = "ACKNOWLEDGED" /\ row.trail = db[o].trail /\ row.pos = "none"
    BY <1>2, <1>3 DEF Rows, States
  <2> QED
    BY <1>3, <2>1, Paths
<1> HIDE DEF row
<1>6. /\ tick' \in Ticks /\ tick'.step = "audit2" /\ tick'.obs = tick.obs /\ tick'.todo = tick.todo
      /\ tick'.order = tick.order /\ tick'.served = tick.served
  BY Moves DEF Acknowledge, Typed, Formal, Steps, Submitting
<1>7. Flying(row, "audit2") /\ Told(row) /\ Filled(row)
  BY <1>5 DEF Flying, Told, Filled, AfterAudit
<1>8. UNCHANGED <<disk, risk, stop, down, tape, verbose, watch>>
  BY DEF Acknowledge
<1> QED
  BY <1>2, <1>3, <1>4, <1>5, <1>6, <1>7, <1>8, FlightTyped DEF Submitting

LEMMA FillTyped == Typed /\ Fill => Typed'
<1> SUFFICES ASSUME Typed, Fill PROVE Typed'
  OBVIOUS
<1>1. PICK s \in Fates : db' = [db EXCEPT ![tick.order].state = s]
  BY DEF Fill, Fates
<1> DEFINE o   == tick.order
           row == [db[o] EXCEPT !.state = s]
<1>2. tick.step = "fill" /\ tick.step \in Submitting \ {"insert"} /\ tick.step \notin DOMAIN AfterAudit
  BY DEF Fill, At, Submitting, AfterAudit
<1>3. o \in Orders /\ db[o] \in Rows /\ Flying(db[o], tick.step) /\ DOMAIN db = Orders /\ tick.step # "idle"
  BY <1>2, InFlight
<1>4. db[o].state = "ACKNOWLEDGED" /\ db[o].trail = Path("ACKNOWLEDGED") /\ db[o].pos = "none"
  BY <1>2, <1>3 DEF Flying
<1>5. db' = [db EXCEPT ![o] = row]
  BY <1>1, <1>3
<1>6. row \in Rows /\ row.state = s /\ row.trail = Front(Path(row.state)) /\ row.pos = "none"
  <2>1. row \in Rows /\ row.state = s /\ row.trail = db[o].trail /\ row.pos = "none"
    BY <1>3, <1>4 DEF Rows, States, Fates
  <2> QED
    BY <1>4, <2>1, Paths
<1> HIDE DEF row
<1>7. /\ tick' \in Ticks /\ tick'.step = "audit3" /\ tick'.obs = tick.obs /\ tick'.todo = tick.todo
      /\ tick'.order = tick.order /\ tick'.served = tick.served
  BY Moves DEF Fill, Typed, Formal, Steps, Submitting
<1>8. Flying(row, "audit3") /\ Told(row) /\ Filled(row)
  BY <1>6 DEF Flying, Told, Filled, AfterAudit
<1>9. UNCHANGED <<disk, risk, stop, down, tape, verbose, watch>>
  BY DEF Fill
<1> QED
  BY <1>3, <1>4, <1>5, <1>6, <1>7, <1>8, <1>9, FlightTyped DEF Submitting

LEMMA UpdatedType ==
  ASSUME NEW r \in RiskBook
  PROVE  /\ Updated(r) \in RiskBook /\ Updated(r).updated /\ Updated(r).exposure = r.exposure
         /\ Updated(r).total = r.total /\ Updated(r).peak = r.peak /\ Updated(r).drawdown = r.drawdown
         /\ Updated(r).wins = r.wins /\ Updated(r).losses = r.losses
  BY DEF Updated, RiskBook

LEMMA CommitOrderTyped == Typed /\ CommitOrder => Typed'
<1> SUFFICES ASSUME Typed, CommitOrder PROVE Typed'
  OBVIOUS
<1>1. tick.step = "commit" /\ tick.step \in Submitting \ {"insert"} /\ tick.obs \in Obs /\ tick.order # 0
  BY DEF CommitOrder, At, Submitting, Typed, Staged
<1>2. Flying(db[tick.order], "commit")
  BY <1>1, InFlight
<1>3. UNCHANGED <<db, stop, down, tape, verbose, watch>> /\ disk' = db
  BY DEF CommitOrder
<1>31. risk' \in RiskBook
  <2>1. risk' = risk \/ risk' = Updated(risk)
    BY DEF CommitOrder
  <2> QED
    BY <2>1, UpdatedType DEF Typed, Formal
<1>4. tick' \in Ticks => Formal'
  BY <1>3, <1>31 DEF Typed, Formal
<1>5. CASE db[tick.order].state = "FILLED"
  <2>1. /\ tick' \in Ticks /\ tick'.step = "open" /\ tick'.obs = tick.obs /\ tick'.todo = tick.todo
        /\ tick'.order = tick.order /\ tick'.served = tick.served
    BY <1>5, Moves DEF CommitOrder, Typed, Formal, Steps, Submitting
  <2>2. Flying(db[tick.order], "open")
    BY <1>2, <1>5 DEF Flying, AfterAudit
  <2>3. Staged'
    BY <1>1, <1>3, <2>1, <2>2 DEF Typed, Staged, Submitting
  <2> QED
    BY <1>4, <2>1, <2>3 DEF Typed
<1>6. CASE db[tick.order].state # "FILLED"
  <2>1. GoIdle
    BY <1>6 DEF CommitOrder
  <2> QED
    BY <1>3, <1>4, <2>1, Rests, EndsTyped DEF Typed, Formal
<1> QED
  BY <1>5, <1>6

LEMMA OpenPositionTyped == Typed /\ OpenPosition => Typed'
<1> SUFFICES ASSUME Typed, OpenPosition PROVE Typed'
  OBVIOUS
<1> DEFINE o   == tick.order
           row == [db[o] EXCEPT !.pos = "open"]
<1>1. tick.step = "open" /\ tick.step \in Submitting \ {"insert"} /\ tick.step \notin DOMAIN AfterAudit
  BY DEF OpenPosition, At, Submitting, AfterAudit
<1>2. o \in Orders /\ db[o] \in Rows /\ Flying(db[o], tick.step) /\ DOMAIN db = Orders /\ tick.step # "idle"
  BY <1>1, InFlight
<1>3. db[o].state = "FILLED" /\ db[o].trail = Path("FILLED")
  BY <1>1, <1>2 DEF Flying
<1>4. db' = [db EXCEPT ![o] = row]
  BY <1>2 DEF OpenPosition
<1>5. row \in Rows /\ row.state = "FILLED" /\ row.trail = Path("FILLED") /\ row.pos = "open"
  BY <1>2, <1>3 DEF Rows
<1> HIDE DEF row
<1>6. /\ tick' \in Ticks /\ tick'.step = "book" /\ tick'.obs = tick.obs /\ tick'.todo = tick.todo
      /\ tick'.order = tick.order /\ tick'.served = tick.served
  BY Moves DEF OpenPosition, Typed, Formal, Steps, Submitting
<1>7. Flying(row, "book") /\ Told(row) /\ Filled(row)
  BY <1>5 DEF Flying, Told, Filled, AfterAudit
<1>8. UNCHANGED <<disk, risk, stop, down, tape, verbose, watch>>
  BY DEF OpenPosition
<1> QED
  BY <1>2, <1>4, <1>5, <1>6, <1>7, <1>8, FlightTyped DEF Submitting

LEMMA CommitPositionTyped == Typed /\ CommitPosition => Typed'
<1> SUFFICES ASSUME Typed, CommitPosition PROVE Typed'
  OBVIOUS
<1>1. UNCHANGED <<db, stop, down, tape, verbose, watch>> /\ disk' = db /\ GoIdle
  BY DEF CommitPosition
<1>2. risk' \in RiskBook
  <2>1. risk' = [Updated(risk) EXCEPT !.exposure = @ + Notional] /\ Updated(risk) \in RiskBook /\ Notional \in Nat
    BY UpdatedType, BoundsNat DEF CommitPosition, Charged, Typed, Formal
  <2> QED
    BY <2>1 DEF RiskBook
<1>3. Formal'
  BY <1>1, <1>2, Rests DEF Typed, Formal
<1> QED
  BY <1>1, <1>3, EndsTyped

LEMMA BeginShutdownTyped == Typed /\ BeginShutdown => Typed'
<1> SUFFICES ASSUME Typed, BeginShutdown PROVE Typed'
  OBVIOUS
<1>1. down' = [down EXCEPT !.step = "fetch", !.busy = ~At("idle")] /\ stop' = TRUE
      /\ UNCHANGED <<db, disk, risk, tick, tape, verbose, watch>>
  BY DEF BeginShutdown
<1>2. down' \in Downs /\ down'.left = down.left
  BY <1>1 DEF Typed, Formal, Downs
<1>3. stop' \in BOOLEAN
  BY <1>1
<1>4. Formal'
  BY <1>1, <1>2, <1>3 DEF Typed, Formal
<1>5. Staged'
  BY <1>1, <1>2 DEF Typed, Staged, Wants
<1> QED
  BY <1>4, <1>5 DEF Typed

LEMMA ShutdownFetchTyped == Typed /\ ShutdownFetch => Typed'
<1> SUFFICES ASSUME Typed, ShutdownFetch PROVE Typed'
  OBVIOUS
<1>1. down' = [down EXCEPT !.step = "closing", !.left = Open(db)] /\ UNCHANGED <<db, disk, risk, tick, stop, tape, verbose, watch>>
  BY DEF ShutdownFetch
<1>2. Open(db) \in SUBSET Orders /\ \A o \in Open(db) : db[o].pos # "none"
  BY DEF Open
<1>3. down' \in Downs /\ down'.left = Open(db)
  BY <1>1, <1>2 DEF Typed, Formal, Downs
<1>4. Formal'
  BY <1>1, <1>3 DEF Typed, Formal
<1>5. Staged'
  BY <1>1, <1>2, <1>3 DEF Typed, Staged, Wants
<1> QED
  BY <1>4, <1>5 DEF Typed

\* A shutdown may close the position of the order in flight before it is committed.
LEMMA ShutdownCloseTyped == Typed /\ ShutdownClose => Typed'
<1> SUFFICES ASSUME Typed, ShutdownClose PROVE Typed'
  OBVIOUS
<1> DEFINE o   == Oldest(down.left)
           row == [db[o] EXCEPT !.pos = "closed", !.pnl = 0]
<1>1. o \in down.left
  BY LeastOrder DEF ShutdownClose, Typed, Formal, Downs
<1>2. o \in Orders /\ db[o] \in Rows /\ db[o].pos # "none" /\ db[o].state = "FILLED" /\ Told(db[o]) /\ DOMAIN db = Orders
  BY <1>1 DEF Typed, Formal, Staged, Kept, Filled, Downs
<1>3. /\ db' = [db EXCEPT ![o] = row] /\ down' = [down EXCEPT !.left = @ \ {o}, !.closed = @ \cup {o}]
      /\ UNCHANGED <<disk, risk, tick, stop, tape, verbose, watch>>
  BY <1>2 DEF ShutdownClose
<1>4. row \in Rows /\ row.state = "FILLED" /\ row.trail = db[o].trail /\ row.pos = "closed"
  <2>1. 0 \in -Par..Par
    BY DEF Par
  <2> QED
    BY <1>2, <2>1 DEF Rows
<1> HIDE DEF o
<1>5. down' \in Downs /\ down'.left \subseteq down.left
  BY <1>2, <1>3 DEF Typed, Formal, Downs
<1> HIDE DEF row
<1>6. Filled(row) /\ Told(row)
  BY <1>2, <1>4 DEF Filled, Told
<1>7. Kept(db') /\ db'[o] = row /\ \A p \in Orders \ {o} : db'[p] = db[p]
  BY <1>2, <1>3, <1>4, <1>6, OneRow DEF Typed, Formal
<1>8. Formal'
  BY <1>3, <1>5, <1>7 DEF Typed, Formal
<1>9. tick.order # 0 => Flying(db'[tick.order], tick.step)
  <2>1. CASE tick.order = o
    BY <1>2, <1>4, <1>7, <2>1 DEF Flying, Typed, Staged
  <2>2. CASE tick.order # o
    BY <1>7, <2>2 DEF Typed, Staged, Formal, Ticks
  <2> QED
    BY <2>1, <2>2
<1>10. \A p \in tick.todo \cup down'.left : db'[p].pos # "none"
  <2>1. tick.todo \cup down'.left \subseteq Orders
    BY <1>5 DEF Typed, Formal, Ticks, Downs
  <2> QED
    BY <1>4, <1>5, <1>7, <2>1 DEF Typed, Staged
<1>11. Staged'
  BY <1>3, <1>9, <1>10 DEF Typed, Staged, Wants
<1> QED
  BY <1>8, <1>11 DEF Typed

LEMMA ShutdownCommitTyped == Typed /\ ShutdownCommit => Typed'
<1> SUFFICES ASSUME Typed, ShutdownCommit PROVE Typed'
  OBVIOUS
<1>1. disk' = db /\ down' = [down EXCEPT !.step = "done"] /\ UNCHANGED <<db, tick, stop, tape, verbose, watch>>
  BY DEF ShutdownCommit
<1>2. down' \in Downs /\ down'.left = down.left
  BY <1>1 DEF Typed, Formal, Downs
<1>3. risk' \in RiskBook
  <2> DEFINE rest == risk.exposure - Cardinality(down.closed) * Notional
  <2>1. rest \in Int
    <3>1. Cardinality(down.closed) \in Nat
      <4>1. IsFiniteSet(Orders) /\ down.closed \subseteq Orders
        BY FS_Interval, MaxOrdersNat DEF Orders, Typed, Formal, Downs
      <4> QED
        BY <4>1, FS_Subset, FS_CardinalityType
    <3>2. risk.exposure \in Nat /\ Notional \in Nat
      BY BoundsNat DEF Typed, Formal, RiskBook
    <3> QED
      BY <3>1, <3>2
  <2>2. risk' = risk \/ risk' = [Updated(risk) EXCEPT !.exposure = Positive(rest)]
    <3>1. Updated(risk).exposure = risk.exposure /\ Updated(risk) \in RiskBook
      BY UpdatedType DEF Typed, Formal
    <3> QED
      BY <3>1 DEF ShutdownCommit, RiskBook
  <2> HIDE DEF rest
  <2>3. Positive(rest) \in Nat
    BY <2>1 DEF Positive
  <2>4. risk \in RiskBook /\ Updated(risk) \in RiskBook
    BY UpdatedType DEF Typed, Formal
  <2> QED
    BY <2>2, <2>3, <2>4 DEF RiskBook
<1>4. Formal'
  BY <1>1, <1>2, <1>3 DEF Typed, Formal
<1>5. Staged'
  BY <1>1, <1>2 DEF Typed, Staged, Wants
<1> QED
  BY <1>4, <1>5 DEF Typed

LEMMA ShutdownFailsTyped == Typed /\ ShutdownFails => Typed'
<1> SUFFICES ASSUME Typed, ShutdownFails PROVE Typed'
  OBVIOUS
<1>1. /\ down' = [down EXCEPT !.step = "done"] /\ watch' = [watch EXCEPT !.faults = @ + 1, !.clean = FALSE]
      /\ watch.faults < MaxFaults /\ UNCHANGED <<db, disk, risk, tick, stop, tape, verbose>>
  BY DEF ShutdownFails
<1>2. down' \in Downs /\ down'.left = down.left
  BY <1>1 DEF Typed, Formal, Downs
<1>3. watch' \in Watches /\ watch'.boot = watch.boot
  <2>1. watch \in Watches /\ watch.faults + 1 \in 0..MaxFaults
    BY <1>1, BoundsNat DEF Typed, Formal, Watches
  <2> QED
    BY <1>1, <2>1 DEF Watches
<1>4. Formal'
  BY <1>1, <1>2, <1>3 DEF Typed, Formal
<1>5. Staged'
  BY <1>1, <1>2 DEF Typed, Staged, Wants
<1> QED
  BY <1>4, <1>5 DEF Typed

LEMMA RestartTyped == Typed /\ Restart => Typed'
<1> SUFFICES ASSUME Typed, Restart PROVE Typed'
  OBVIOUS
<1>1. /\ db' = disk /\ risk' = NoRisk /\ GoIdle /\ stop' = FALSE /\ down' = Off /\ watch.faults < MaxFaults
      /\ watch' = [watch EXCEPT !.boot = disk, !.clean = TRUE, !.faults = @ + 1]
      /\ UNCHANGED <<disk, tape, verbose>>
  BY DEF Restart
<1>2. risk' \in RiskBook /\ down' \in Downs /\ down'.left = {} /\ stop' \in BOOLEAN
  <2>1. risk' \in RiskBook
    BY <1>1 DEF NoRisk, RiskBook
  <2>2. Off \in Downs /\ Off.left = {}
    BY DEF Off, Downs
  <2>3. down' = Off /\ stop' \in BOOLEAN
    BY <1>1
  <2> QED
    BY <2>1, <2>2, <2>3
<1>3. /\ tick' \in Ticks /\ tick'.step = "idle" /\ tick'.todo = {} /\ tick'.order = 0 /\ tick'.served = tick.served
  BY <1>1, Rests DEF Typed, Formal
<1>4. watch' \in Watches /\ watch'.boot = disk
  <2>1. watch.faults + 1 \in 0..MaxFaults /\ disk \in [Orders -> Rows]
    BY <1>1, BoundsNat DEF Typed, Formal, Watches, Kept
  <2> QED
    BY <1>1, <2>1 DEF Typed, Formal, Watches
<1>5. Formal'
  BY <1>1, <1>2, <1>3, <1>4 DEF Typed, Formal
<1>6. Staged'
  BY <1>1, <1>2, <1>3 DEF Typed, Staged, Submitting
<1> QED
  BY <1>5, <1>6 DEF Typed

LEMMA NextTyped == Typed /\ [Next]_vars => Typed'
<1>1. Typed /\ UNCHANGED vars => Typed'
  BY DEF vars, Typed, Formal, Staged, Wants
<1> QED
  BY <1>1, BeginTyped, RecordWindowTyped, RecordTickTyped, RecorderFailsTyped, FetchOpenTyped, ExitTyped,
     KeepOpenTyped, CommitCloseTyped, CutTyped, DecideTyped, InsertTyped, AuditTyped, AcknowledgeTyped, FillTyped,
     CommitOrderTyped, OpenPositionTyped, CommitPositionTyped, BeginShutdownTyped, ShutdownFetchTyped,
     ShutdownCloseTyped, ShutdownCommitTyped, ShutdownFailsTyped, RestartTyped DEF Next

LEMMA StaysTyped == Spec => []Typed
  BY InitTyped, NextTyped, PTL DEF Spec

\* The tables, the counters, the tick and the tape keep their types; an order is in flight exactly
\* from its insertion to the end of its submission, and only an order that was filled has a
\* position, whatever fails or dies in between (execution/paper.py:252-328, 397-420).
THEOREM TypesHold == Spec => []TypeOK
<1>1. Typed => TypeOK
  <2> SUFFICES ASSUME Typed PROVE TypeOK
    OBVIOUS
  <2>1. \A rows \in {db, disk, watch.boot} :
          rows \in [Orders -> Rows] /\ \A o \in Orders : rows[o].pos # "none" => rows[o].state = "FILLED"
    BY DEF Typed, Formal, Kept, Filled
  <2>2. \A i \in DOMAIN tape.ticks : tape.ticks[i] \in [id : 1..MaxTicks, tick : Obs]
    <3>1. tape.ticks \in Seq(Recorded)
      BY DEF Typed, Formal, Tapes
    <3>2. \A i \in DOMAIN tape.ticks : tape.ticks[i] \in Recorded
      BY <3>1
    <3> QED
      BY <3>2 DEF Recorded
  <2>3. tape.windows \in [Windows -> 1..Par \cup {None}]
    BY DEF Typed, Formal, Tapes, Prices
  <2>4. watch.clean \in BOOLEAN /\ watch.torn \subseteq Windows /\ watch.faults \in 0..MaxFaults
    BY DEF Typed, Formal, Watches
  <2>5. (tick.order # 0) <=> tick.step \in Submitting \ {"insert"}
    BY DEF Typed, Staged
  <2> QED
    BY <2>1, <2>2, <2>3, <2>4, <2>5 DEF Typed, Formal, RiskBook, Ticks, Downs, TypeOK
<1> QED
  BY <1>1, StaysTyped, PTL

-----------------------------------------------------------------------------
(* The audit trail.                                                        *)

\* A row without its last transition, or a filled order without its position.
Wrong(row)  == (row.state # "absent" /\ row.trail # Path(row.state)) \/ (row.state = "FILLED" /\ row.pos = "none")
Cut(rows)   == {o \in Orders : Wrong(rows[o])}
Aloft       == IF tick.order = 0 THEN {} ELSE {tick.order}

\* Each death and each failure leaves at most one such order behind, in what the manager sees and
\* on disk: it is the one that was in flight.
Few == \A rows \in {db, disk} : Cardinality(Cut(rows) \ Aloft) <= watch.faults

LEMMA CutIsFinite == \A rows, S : IsFiniteSet(Cut(rows) \ S) /\ Cardinality(Cut(rows) \ S) \in Nat
<1> SUFFICES ASSUME NEW rows, NEW S PROVE IsFiniteSet(Cut(rows) \ S) /\ Cardinality(Cut(rows) \ S) \in Nat
  OBVIOUS
<1>1. IsFiniteSet(Orders) /\ Cut(rows) \ S \subseteq Orders
  BY FS_Interval, MaxOrdersNat DEF Orders, Cut
<1> QED
  BY <1>1, FS_Subset, FS_CardinalityType

\* What a step has to show that is no fault, and one that is.
LEMMA NoneCut ==
  ASSUME NEW old, NEW new, Cut(new) \ Aloft' \subseteq Cut(old) \ Aloft, Cardinality(Cut(old) \ Aloft) <= watch.faults,
         watch.faults \in Nat, watch'.faults \in Nat, watch.faults <= watch'.faults
  PROVE  Cardinality(Cut(new) \ Aloft') <= watch'.faults
<1>1. Cardinality(Cut(new) \ Aloft') <= Cardinality(Cut(old) \ Aloft)
  BY CutIsFinite, FS_Subset
<1>2. Cardinality(Cut(new) \ Aloft') \in Nat /\ Cardinality(Cut(old) \ Aloft) \in Nat
  BY CutIsFinite
<1> QED
  BY <1>1, <1>2

LEMMA OneCut ==
  ASSUME NEW old, NEW new, NEW o, Cut(new) \ Aloft' \subseteq (Cut(old) \ Aloft) \cup {o},
         Cardinality(Cut(old) \ Aloft) <= watch.faults, watch.faults \in Nat, watch'.faults = watch.faults + 1
  PROVE  Cardinality(Cut(new) \ Aloft') <= watch'.faults
<1>1. /\ IsFiniteSet((Cut(old) \ Aloft) \cup {o})
      /\ Cardinality((Cut(old) \ Aloft) \cup {o}) <= Cardinality(Cut(old) \ Aloft) + 1
  <2> DEFINE S == Cut(old) \ Aloft
  <2>1. IsFiniteSet(S) /\ Cardinality(S) \in Nat
    BY CutIsFinite
  <2> HIDE DEF S
  <2>2. IsFiniteSet(S \cup {o}) /\ Cardinality(S \cup {o}) <= Cardinality(S) + 1
    <3>1. IsFiniteSet(S \cup {o}) /\ Cardinality(S \cup {o}) = IF o \in S THEN Cardinality(S) ELSE Cardinality(S) + 1
      BY <2>1, FS_AddElement
    <3> QED
      BY <2>1, <3>1
  <2> QED
    BY <2>2 DEF S
<1>2. Cardinality(Cut(new) \ Aloft') <= Cardinality((Cut(old) \ Aloft) \cup {o})
  BY <1>1, FS_Subset
<1>3. Cardinality(Cut(new) \ Aloft') \in Nat /\ Cardinality(Cut(old) \ Aloft) \in Nat
      /\ Cardinality((Cut(old) \ Aloft) \cup {o}) \in Nat
  BY <1>1, CutIsFinite, FS_CardinalityType
<1> QED
  BY <1>1, <1>2, <1>3

LEMMA InitFew == Init => Few
<1> SUFFICES ASSUME Init PROVE Few
  OBVIOUS
<1>1. db = [o \in Orders |-> NoRow] /\ disk = db /\ watch.faults = 0
  BY DEF Init
<1>2. ~Wrong(NoRow)
  BY DEF NoRow, Wrong
<1>3. Cut(db) \ Aloft = {}
  BY <1>1, <1>2 DEF Cut
<1>4. Cardinality(Cut(db) \ Aloft) = 0
  BY <1>3, FS_EmptySet
<1> QED
  BY <1>1, <1>4 DEF Few

\* A step that is no fault, and leaves the rows of all orders but the one in flight no worse.
LEMMA FewStays ==
  ASSUME Few, Cut(db') \ Aloft' \subseteq Cut(db) \ Aloft,
         disk' = db' \/ (disk' = disk /\ Aloft \subseteq Aloft'),
         watch.faults \in Nat, watch'.faults \in Nat, watch.faults <= watch'.faults
  PROVE  Few'
<1>1. Cardinality(Cut(db') \ Aloft') <= watch'.faults
  BY NoneCut DEF Few
<1>2. CASE disk' = db'
  BY <1>1, <1>2 DEF Few
<1>3. CASE disk' = disk /\ Aloft \subseteq Aloft'
  <2>1. Cut(disk') \ Aloft' \subseteq Cut(disk) \ Aloft
    BY <1>3
  <2>2. Cardinality(Cut(disk') \ Aloft') <= watch'.faults
    BY <2>1, NoneCut DEF Few
  <2> QED
    BY <1>1, <2>2 DEF Few
<1> QED
  BY <1>2, <1>3

\* A step that writes one row: the one of the order in flight, or one that was right and stays so.
LEMMA OneRowCut ==
  ASSUME Kept(db), NEW o \in Orders, NEW row, db' = [db EXCEPT ![o] = row], o \in Aloft' \/ ~Wrong(row), Aloft \subseteq Aloft'
  PROVE  Cut(db') \ Aloft' \subseteq Cut(db) \ Aloft
<1>1. db'[o] = row /\ \A p \in Orders \ {o} : db'[p] = db[p]
  BY DEF Kept
<1> QED
  BY <1>1 DEF Cut

LEMMA NextFew == Typed /\ Few /\ [Next]_vars => Few'
<1> SUFFICES ASSUME Typed, Few, [Next]_vars PROVE Few'
  OBVIOUS
<1>1. watch.faults \in Nat /\ Kept(db) /\ DOMAIN db = Orders /\ tick \in Ticks
  BY BoundsNat DEF Typed, Formal, Watches, Kept
<1>2. CASE \/ BeginTick \/ RecordWindow \/ RecordTick \/ RecorderFails \/ FetchOpen \/ KeepOpen \/ Decide
           \/ BeginShutdown \/ ShutdownFetch \/ ShutdownFails \/ UNCHANGED vars
  <2>1. db' = db /\ disk' = disk
    BY <1>2 DEF BeginTick, RecordWindow, RecordTick, RecorderFails, FetchOpen, KeepOpen, Decide, BeginShutdown, ShutdownFetch,
       ShutdownFails, vars
  <2>2. tick'.order = tick.order
    BY <1>1, <1>2 DEF BeginTick, RecordWindow, RecordTick, RecorderFails, FetchOpen, KeepOpen, Decide,
       BeginShutdown, ShutdownFetch, ShutdownFails, vars, GoTo, Ticks
  <2>3. watch'.faults \in {watch.faults, watch.faults + 1}
    BY <1>2 DEF BeginTick, RecordWindow, RecordTick, RecorderFails, FetchOpen, KeepOpen, Decide, BeginShutdown,
       ShutdownFetch, ShutdownFails, vars, Typed, Formal, Watches
  <2>4. Aloft' = Aloft
    BY <2>2 DEF Aloft
  <2>5. watch'.faults \in Nat /\ watch.faults <= watch'.faults
    BY <1>1, <2>3
  <2> QED
    BY <1>1, <2>1, <2>4, <2>5, FewStays
<1>3. ASSUME GoIdle, tick.order = 0, db' = db, disk' \in {disk, db}, watch'.faults \in {watch.faults, watch.faults + 1}
      PROVE  Few'
  <2>1. Aloft = {} /\ Aloft' = {}
    BY <1>1, <1>3, Rests DEF Aloft
  <2>2. watch'.faults \in Nat /\ watch.faults <= watch'.faults
    BY <1>1, <1>3
  <2> QED
    BY <1>1, <1>3, <2>1, <2>2, FewStays
<1>4. CASE SkipEntry \/ CloseFails
  <2>1. GoIdle /\ db' = db /\ disk' = disk /\ tick.step \in {"check", "close"}
    BY <1>4 DEF SkipEntry, CloseFails, At
  <2>2. watch'.faults \in {watch.faults, watch.faults + 1}
    BY <1>4 DEF SkipEntry, CloseFails, Typed, Formal, Watches
  <2>3. tick.order = 0
    BY <2>1 DEF Typed, Staged, Submitting
  <2> QED
    BY <1>3, <2>1, <2>2, <2>3
<1>5. CASE CommitClose
  <2>1. db' = db /\ disk' = db /\ watch' = watch /\ tick.order = 0
    BY <1>5 DEF CommitClose, At, Typed, Staged, Submitting
  <2>2. tick'.order = 0
    BY <1>1, <1>5, <2>1 DEF CommitClose, GoIdle, Ticks
  <2>3. Aloft = {} /\ Aloft' = {}
    BY <2>1, <2>2 DEF Aloft
  <2> QED
    BY <1>1, <2>1, <2>3, FewStays
<1>6. CASE Exit
  <2> DEFINE row == [db[Victim] EXCEPT !.pos = "closed", !.pnl = PnlAt(db[Victim], tick.obs.up)]
  <2>1. tick.todo # {} /\ tick.order = 0 /\ tick'.order = 0
    BY <1>1, <1>6 DEF Exit, At, GoTo, Typed, Staged, Submitting, Ticks
  <2>2. Victim \in Orders /\ db[Victim] \in Rows /\ db[Victim].pos # "none"
    BY <2>1, VictimType
  <2>3. db' = [db EXCEPT ![Victim] = row] /\ disk' = disk /\ watch' = watch
    BY <1>1, <1>6, <2>2 DEF Exit
  <2>4. row.state = db[Victim].state /\ row.trail = db[Victim].trail /\ row.pos = "closed"
    BY <2>2 DEF Rows
  <2> HIDE DEF row
  <2>5. Wrong(row) => Wrong(db[Victim])
    BY <2>4 DEF Wrong
  <2>6. Aloft = {} /\ Aloft' = {}
    BY <2>1 DEF Aloft
  <2>7. db'[Victim] = row /\ \A p \in Orders \ {Victim} : db'[p] = db[p]
    BY <1>1, <2>2, <2>3
  <2>8. Cut(db') \ Aloft' \subseteq Cut(db) \ Aloft
    BY <2>2, <2>5, <2>6, <2>7 DEF Cut
  <2>9. disk' = disk /\ watch'.faults = watch.faults /\ Aloft \subseteq Aloft'
    BY <2>3, <2>6
  <2> QED
    BY <1>1, <2>8, <2>9, FewStays
<1>7. CASE ShutdownClose
  <2> DEFINE o   == Oldest(down.left)
             row == [db[o] EXCEPT !.pos = "closed", !.pnl = 0]
  <2>1. o \in down.left
    BY <1>7, LeastOrder DEF ShutdownClose, Typed, Formal, Downs
  <2>2. o \in Orders /\ db[o] \in Rows
    BY <2>1 DEF Typed, Formal, Kept, Downs
  <2>3. db' = [db EXCEPT ![o] = row] /\ disk' = disk /\ watch' = watch /\ tick' = tick
    BY <1>1, <1>7, <2>2 DEF ShutdownClose
  <2>4. row.state = db[o].state /\ row.trail = db[o].trail /\ row.pos = "closed"
    BY <2>2 DEF Rows
  <2> HIDE DEF row, o
  <2>5. Wrong(row) => Wrong(db[o])
    BY <2>4 DEF Wrong
  <2>6. Aloft' = Aloft
    BY <2>3 DEF Aloft
  <2>7. db'[o] = row /\ \A p \in Orders \ {o} : db'[p] = db[p]
    BY <1>1, <2>2, <2>3
  <2>8. Cut(db') \ Aloft' \subseteq Cut(db) \ Aloft
    BY <2>2, <2>5, <2>6, <2>7 DEF Cut
  <2>9. disk' = disk /\ watch'.faults = watch.faults /\ Aloft \subseteq Aloft'
    BY <2>3, <2>6
  <2> QED
    BY <1>1, <2>8, <2>9, FewStays
<1>8. CASE ShutdownCommit
  <2>1. db' = db /\ disk' = db /\ tick' = tick /\ watch' = watch
    BY <1>8 DEF ShutdownCommit
  <2>2. Aloft' = Aloft
    BY <2>1 DEF Aloft
  <2> QED
    BY <1>1, <2>1, <2>2, FewStays
<1>9. CASE InsertOrder
  <2> DEFINE o == Oldest(Unused)
  <2>1. o \in Orders
    <3>1. Unused \in SUBSET Orders /\ Unused # {}
      BY <1>9 DEF Unused, InsertOrder
    <3> QED
      BY <3>1, LeastOrder
  <2>2. PICK row : db' = [db EXCEPT ![o] = row]
    BY <1>9 DEF InsertOrder
  <2>3. tick'.order = o /\ tick.order = 0 /\ disk' = disk /\ watch' = watch
    BY <1>1, <1>9 DEF InsertOrder, Ticks, At, Typed, Staged
  <2> HIDE DEF o
  <2>4. Aloft = {} /\ o \in Aloft'
    BY <2>1, <2>3, MaxOrdersNat DEF Aloft, Orders
  <2>5. Cut(db') \ Aloft' \subseteq Cut(db) \ Aloft
    BY <1>1, <2>1, <2>2, <2>4, OneRowCut
  <2> QED
    BY <1>1, <2>3, <2>4, <2>5, FewStays
<1>10. CASE Audit \/ Acknowledge \/ Fill \/ OpenPosition
  <2> DEFINE o == tick.order
  <2>1. tick.step \in Submitting \ {"insert"}
    BY <1>10 DEF Audit, Acknowledge, Fill, OpenPosition, At, AfterAudit, Submitting
  <2>2. o \in Orders /\ o # 0
    BY <2>1, InFlight DEF Typed, Staged
  <2>3. \E row : db' = [db EXCEPT ![o] = row]
    BY <1>1, <1>10, <2>2 DEF Audit, Acknowledge, Fill, OpenPosition
  <2>4. tick'.order = o /\ disk' = disk /\ watch' = watch
    BY <1>1, <1>10 DEF Audit, Acknowledge, Fill, OpenPosition, GoTo, Ticks
  <2>5. Aloft' = Aloft /\ o \in Aloft'
    BY <2>2, <2>4 DEF Aloft
  <2>6. Cut(db') \ Aloft' \subseteq Cut(db) \ Aloft
    BY <1>1, <2>2, <2>3, <2>5, OneRowCut
  <2> QED
    BY <1>1, <2>4, <2>5, <2>6, FewStays
<1>11. CASE CommitOrder \/ CommitPosition
  <2>1. tick.step \in {"commit", "book"} /\ db' = db /\ disk' = db /\ watch' = watch
    BY <1>11 DEF CommitOrder, CommitPosition, At
  <2>2. tick.order \in Orders /\ tick.order # 0 /\ Flying(db[tick.order], tick.step)
    BY <2>1, InFlight DEF Typed, Staged, Submitting
  <2>3. tick'.order = tick.order \/ (tick'.order = 0 /\ ~Wrong(db[tick.order]))
    <3>1. CASE CommitPosition
      BY <1>1, <2>1, <2>2, <3>1, Rests DEF CommitPosition, At, Flying, Wrong, AfterAudit
    <3>2. CASE CommitOrder
      BY <1>1, <2>1, <2>2, <3>2, Rests DEF CommitOrder, At, Flying, Wrong, AfterAudit, GoTo, Ticks
    <3> QED
      BY <1>11, <3>1, <3>2
  <2>4. Cut(db') \ Aloft' \subseteq Cut(db) \ Aloft
    BY <2>1, <2>2, <2>3 DEF Cut, Aloft
  <2> QED
    BY <1>1, <2>1, <2>4, FewStays
<1>12. CASE SubmitFails \/ Restart
  <2>1. GoIdle /\ disk' = disk /\ db' \in {db, disk} /\ watch'.faults = watch.faults + 1
    BY <1>12 DEF SubmitFails, Restart, Typed, Formal, Watches
  <2>2. Aloft' = {} /\ Aloft \subseteq {tick.order}
    BY <1>1, <2>1, Rests DEF Aloft
  <2>3. ASSUME NEW rows \in {db, disk} PROVE Cardinality(Cut(rows) \ Aloft') <= watch'.faults
    <3>1. Cut(rows) \ Aloft' \subseteq (Cut(rows) \ Aloft) \cup {tick.order}
      BY <2>2
    <3> QED
      BY <1>1, <2>1, <3>1, OneCut DEF Few
  <2> QED
    BY <2>1, <2>3 DEF Few
<1> QED
  BY <1>2, <1>4, <1>5, <1>6, <1>7, <1>8, <1>9, <1>10, <1>11, <1>12 DEF Next

\* The audit table tells how every order on disk came to its state, but for the last transition of
\* an order that was cut off; and at most one order for each death or failure is cut off or lacks
\* the position of its fill (execution/paper.py:3-5, 195-231, 322-326).
THEOREM AuditTells == Spec => []OrdersTraced
<1>1. ASSUME Typed, Few PROVE OrdersTraced
  <2> DEFINE orphans == {o \in Orders : disk[o].state = "FILLED" /\ disk[o].pos = "none"}
             flight  == IF tick.order = 0 THEN {} ELSE {tick.order}
             short   == {o \in Orders : disk[o].state # "absent" /\ History(disk, o) # Path(disk[o].state)}
  <2>1. short \cup orphans = Cut(disk) /\ flight = Aloft
    BY DEF History, Cut, Wrong, Aloft
  <2>2. \A o \in short : History(disk, o) = Front(Path(disk[o].state))
    BY <1>1 DEF Typed, Formal, Kept, Told, History
  <2>3. Cardinality((short \cup orphans) \ flight) <= watch.faults
    BY <1>1, <2>1 DEF Few
  <2> QED
    BY <2>2, <2>3 DEF OrdersTraced
<1>2. Typed /\ Few /\ [Next]_vars => Few'
  BY NextFew
<1> QED
  BY <1>1, <1>2, StaysTyped, InitFew, PTL DEF Spec

-----------------------------------------------------------------------------
(* The books.                                                              *)

\* What a process finds at its start stays: nothing that was opened is forgotten, nothing that was
\* closed is opened again.
Grown == \A o \in Orders :
    /\ watch.boot[o].pos = "closed" => db[o].pos = "closed"
    /\ watch.boot[o].pos = "open" => db[o].pos # "none"

\* The drawdown is at least what was lost since the peak, which is never below zero; what counted
\* a loss or a win was an update; a shutdown that has not begun has met no tick.
Alert ==
    /\ risk.drawdown >= risk.peak - risk.total
    /\ risk.total # 0 => risk.updated
    /\ down.step = "off" => ~down.busy

\* Neither a failed statement nor a shutdown in the middle of a tick.
Undisturbed == watch.clean /\ ~down.busy

\* A shutdown is alone; an exit is of the one open position; what a shutdown still has to close
\* is what is open.
Orderly ==
    /\ down.step # "off" => tick.step = "idle" /\ stop
    /\ tick.step = "check" => tick.todo \subseteq Open(db)
    /\ tick.step = "close" =>
        /\ Open(db) = {} /\ tick.todo = {Victim} /\ Victim \in ClosedIn(db) \ ClosedIn(watch.boot)
        /\ db[Victim].pnl = PnlAt(db[Victim], tick.obs.up)
    /\ down.step = "closing" => Open(db) = down.left
    /\ down.step = "done" => Open(db) = {}

\* Nothing waits for a commit but what a close, an order or a shutdown has written.
Reading == {"idle", "window", "tick", "fetch", "check", "insert"}
Committed == tick.step \in Reading /\ down.step # "closing" => db = disk

\* The closed positions the risk service has been told of.
Waiting  == IF tick.step = "close" THEN {Victim} ELSE {}
Reported == (ClosedIn(db) \ ClosedIn(watch.boot)) \ Waiting
Tallied ==
    /\ risk.total = PnlSum(db, Reported)
    /\ risk.wins = Cardinality({o \in Reported : db[o].pnl > 0})
    /\ risk.losses = Cardinality({o \in Reported : db[o].pnl < 0})

\* The exposure is that of the open position, if this process opened it.
ChargeOf(open) == IF open \subseteq Open(watch.boot) THEN 0 ELSE Notional
Exposed ==
    /\ tick.step = "book" => Open(db) = {tick.order} /\ tick.order \notin Open(watch.boot) /\ risk.exposure = 0
    /\ tick.step = "close" => risk.exposure = ChargeOf({Victim})
    /\ tick.step \notin {"book", "close"} /\ down.step \in {"off", "fetch"} => risk.exposure = ChargeOf(Open(db))
    /\ down.step = "closing" => risk.exposure \in {0, Notional} /\ (risk.exposure # 0 => down.left \cup down.closed # {})
    /\ down.step = "done" /\ ~verbose => risk.exposure = 0

Booked == Undisturbed => Orderly /\ Committed /\ Tallied /\ Exposed

Ready == Typed /\ Inv /\ Grown /\ Alert

\* The default is one position, and an entry of nothing is never made.
OneAtATime == MaxOpen <= 1 /\ Notional > 0

-----------------------------------------------------------------------------
(* What can be said of one position, of rows and of sums.                  *)

LEMMA OnlyOpen ==
  ASSUME Inv, OneAtATime, NEW o \in Open(db)
  PROVE  Open(db) = {o}
<1>1. Cardinality(Open(db)) \in Nat /\ IsFiniteSet(Open(db)) /\ Cardinality(Open(db)) <= MaxOpen
  BY OpenIsFinite DEF Inv, OnePosition
<1>2. Cardinality(Open(db)) # 0
  BY <1>1, FS_EmptySet
<1>3. Cardinality(Open(db)) = 1
  BY <1>1, <1>2, MaxOpenNat DEF OneAtATime
<1>4. \E x : Open(db) = {x}
  BY <1>1, <1>3, FS_Singleton
<1> QED
  BY <1>4

LEMMA NoneIsOpen ==
  ASSUME Inv, OneAtATime, tick.step \in BeforeOpen
  PROVE  Open(db) = {}
<1>1. Cardinality(Open(db)) \in Nat /\ IsFiniteSet(Open(db)) /\ Cardinality(Open(db)) < MaxOpen
  BY OpenIsFinite DEF Inv, Room
<1>2. Cardinality(Open(db)) = 0
  BY <1>1, MaxOpenNat DEF OneAtATime
<1> QED
  BY <1>1, <1>2, FS_EmptySet

LEMMA RowTypes ==
  ASSUME Typed
  PROVE  /\ DOMAIN db = Orders /\ DOMAIN disk = Orders
         /\ \A o \in Orders : db[o] \in Rows /\ db[o].pnl \in Int /\ disk[o] \in Rows
<1>1. \A r \in Rows : r.pnl \in Int
  BY DEF Rows, Par
<1>2. \A o \in Orders : db[o] \in Rows /\ disk[o] \in Rows
  BY DEF Typed, Formal, Kept
<1> QED
  BY <1>1, <1>2 DEF Typed, Formal, Kept

LEMMA SomeAreFinite == \A S \in SUBSET Orders : IsFiniteSet(S) /\ Cardinality(S) \in Nat
<1> SUFFICES ASSUME NEW S \in SUBSET Orders PROVE IsFiniteSet(S) /\ Cardinality(S) \in Nat
  OBVIOUS
<1>1. IsFiniteSet(Orders)
  BY FS_Interval, MaxOrdersNat DEF Orders
<1> QED
  BY <1>1, FS_Subset, FS_CardinalityType

LEMMA ReportedOrders == Reported \subseteq ClosedIn(db) /\ ClosedIn(db) \subseteq Orders
  BY DEF Reported, ClosedIn

\* The sum over some orders depends on what their rows say.
LEMMA SamePnl ==
  ASSUME NEW old, NEW new, NEW S \in SUBSET Orders, \A o \in S : old[o].pnl \in Int /\ new[o].pnl = old[o].pnl
  PROVE  PnlSum(new, S) = PnlSum(old, S)
<1> DEFINE f == [o \in Orders |-> old[o].pnl]
           h == [o \in Orders |-> new[o].pnl]
<1>1. IsFiniteSet(S)
  BY SomeAreFinite
<1>2. \A o \in S : f[o] \in Int /\ h[o] = f[o]
  OBVIOUS
<1> HIDE DEF f, h
<1>3. SumFunctionOnSet(h, S) = SumFunctionOnSet(f, S)
  BY <1>1, <1>2, SumAgrees
<1> QED
  BY <1>3 DEF PnlSum, f, h

\* One order more.
LEMMA PnlOfOneMore ==
  ASSUME NEW rows, NEW S \in SUBSET Orders, NEW x \in Orders, x \notin S, \A o \in S \cup {x} : rows[o].pnl \in Int
  PROVE  PnlSum(rows, S \cup {x}) = rows[x].pnl + PnlSum(rows, S) /\ PnlSum(rows, S) \in Int
<1> DEFINE f == [o \in Orders |-> rows[o].pnl]
<1>1. IsFiniteSet(S \cup {x}) /\ IsFiniteSet(S) /\ (S \cup {x}) \ {x} = S
  BY SomeAreFinite
<1>2. (\A o \in S \cup {x} : f[o] \in Int) /\ f[x] = rows[x].pnl
  OBVIOUS
<1> HIDE DEF f
<1>3. SumFunctionOnSet(f, S \cup {x}) = f[x] + SumFunctionOnSet(f, (S \cup {x}) \ {x})
  BY <1>1, <1>2, SumSplits
<1>4. SumFunctionOnSet(f, S) \in Int
  BY <1>1, <1>2, SumType
<1> QED
  BY <1>1, <1>2, <1>3, <1>4 DEF PnlSum, f

LEMMA CountOfOneMore ==
  ASSUME NEW S \in SUBSET Orders, NEW x \in Orders, x \notin S, NEW T \in SUBSET Orders, T \subseteq S \cup {x}
  PROVE  Cardinality(T) = Cardinality(T \cap S) + (IF x \in T THEN 1 ELSE 0)
<1>1. IsFiniteSet(T \cap S) /\ Cardinality(T \cap S) \in Nat /\ x \notin T \cap S
  BY SomeAreFinite
<1>2. CASE x \in T
  <2>1. T = (T \cap S) \cup {x}
    BY <1>2
  <2>2. Cardinality((T \cap S) \cup {x}) = IF x \in T \cap S THEN Cardinality(T \cap S) ELSE Cardinality(T \cap S) + 1
    BY <1>1, FS_AddElement
  <2> QED
    BY <1>1, <1>2, <2>1, <2>2
<1>3. CASE x \notin T
  <2>1. Cardinality(T) = Cardinality(T \cap S)
    <3>1. T = T \cap S
      BY <1>3
    <3> QED
      BY <3>1, Zenon
  <2> QED
    BY <1>1, <1>3, <2>1
<1> QED
  BY <1>2, <1>3

\* The tally stands while those reported and their rows do.
LEMMA TallyStands ==
  ASSUME Typed, Tallied, Reported' = Reported, \A o \in Reported : db'[o].pnl = db[o].pnl,
         risk'.total = risk.total, risk'.wins = risk.wins, risk'.losses = risk.losses
  PROVE  Tallied'
<1>1. Reported \in SUBSET Orders
  BY ReportedOrders
<1>2. \A o \in Reported : db[o].pnl \in Int /\ db'[o].pnl = db[o].pnl
  BY <1>1, RowTypes
<1>3. PnlSum(db', Reported) = PnlSum(db, Reported)
  BY <1>1, <1>2, SamePnl
<1>4. /\ {o \in Reported' : db'[o].pnl > 0} = {o \in Reported : db[o].pnl > 0}
      /\ {o \in Reported' : db'[o].pnl < 0} = {o \in Reported : db[o].pnl < 0}
  BY <1>2
<1>5. risk'.total = PnlSum(db', Reported')
  BY <1>3 DEF Tallied
<1> HIDE DEF Reported
<1> QED
  BY <1>4, <1>5 DEF Tallied

\* ... and when one more is reported.
LEMMA TallyOfOneMore ==
  ASSUME Typed, Typed', Tallied, NEW x \in Orders, x \notin Reported, Reported' = Reported \cup {x},
         \A o \in Reported : db'[o].pnl = db[o].pnl,
         risk'.total = risk.total + db'[x].pnl,
         risk'.wins = risk.wins + (IF db'[x].pnl > 0 THEN 1 ELSE 0),
         risk'.losses = risk.losses + (IF db'[x].pnl < 0 THEN 1 ELSE 0)
  PROVE  Tallied'
<1>1. Reported \in SUBSET Orders
  BY ReportedOrders
<1>2. \A o \in Reported : db[o].pnl \in Int /\ db'[o].pnl = db[o].pnl
  BY <1>1, RowTypes
<1>3. db'[x].pnl \in Int
  <2>1. db'[x] \in Rows
    BY DEF Typed, Formal, Kept
  <2> QED
    BY <2>1 DEF Rows, Par
<1>4. PnlSum(db', Reported) = PnlSum(db, Reported)
  BY <1>1, <1>2, SamePnl
<1>5. \A o \in Reported \cup {x} : db'[o].pnl \in Int
  BY <1>2, <1>3
<1>6. PnlSum(db', Reported \cup {x}) = db'[x].pnl + PnlSum(db', Reported) /\ PnlSum(db', Reported) \in Int
  BY <1>1, <1>5, PnlOfOneMore
<1>7. risk'.total = PnlSum(db', Reported')
  BY <1>3, <1>4, <1>6 DEF Tallied
<1> DEFINE up(rows, S) == {o \in S : rows[o].pnl > 0}
           dn(rows, S) == {o \in S : rows[o].pnl < 0}
<1>8. /\ up(db', Reported \cup {x}) \cap Reported = up(db, Reported)
      /\ dn(db', Reported \cup {x}) \cap Reported = dn(db, Reported)
  BY <1>2
<1>9. /\ x \in up(db', Reported \cup {x}) <=> db'[x].pnl > 0
      /\ x \in dn(db', Reported \cup {x}) <=> db'[x].pnl < 0
  OBVIOUS
<1>10. /\ up(db', Reported \cup {x}) \in SUBSET Orders /\ up(db', Reported \cup {x}) \subseteq Reported \cup {x}
       /\ dn(db', Reported \cup {x}) \in SUBSET Orders /\ dn(db', Reported \cup {x}) \subseteq Reported \cup {x}
  BY <1>1
<1>11. /\ risk.wins = Cardinality(up(db, Reported)) /\ risk.losses = Cardinality(dn(db, Reported))
  BY DEF Tallied
<1> HIDE DEF up, dn, Reported
<1> DEFINE U == up(db', Reported \cup {x})
           D == dn(db', Reported \cup {x})
<1>12. /\ Cardinality(U) = Cardinality(up(db, Reported)) + (IF db'[x].pnl > 0 THEN 1 ELSE 0)
       /\ Cardinality(D) = Cardinality(dn(db, Reported)) + (IF db'[x].pnl < 0 THEN 1 ELSE 0)
  <2>1. U \cap Reported = up(db, Reported) /\ D \cap Reported = dn(db, Reported)
    BY <1>8
  <2>2. (x \in U <=> db'[x].pnl > 0) /\ (x \in D <=> db'[x].pnl < 0)
    BY <1>9
  <2>3. U \in SUBSET Orders /\ U \subseteq Reported \cup {x} /\ D \in SUBSET Orders /\ D \subseteq Reported \cup {x}
    BY <1>10
  <2> HIDE DEF U, D
  <2>4. Cardinality(U) = Cardinality(U \cap Reported) + (IF x \in U THEN 1 ELSE 0)
    BY <1>1, <2>3, CountOfOneMore
  <2>5. Cardinality(D) = Cardinality(D \cap Reported) + (IF x \in D THEN 1 ELSE 0)
    BY <1>1, <2>3, CountOfOneMore
  <2> QED
    BY <2>1, <2>2, <2>4, <2>5
<1>13. /\ risk'.wins = Cardinality(up(db', Reported')) /\ risk'.losses = Cardinality(dn(db', Reported'))
  BY <1>11, <1>12
<1> QED
  BY <1>7, <1>13 DEF Tallied, up, dn

-----------------------------------------------------------------------------
(* What the steps do to the positions.                                     *)

\* A closed position stays closed and an open one stays or is closed.
Onward == \A o \in Orders :
    /\ db[o].pos = "closed" => db'[o].pos = "closed"
    /\ db[o].pos = "open" => db'[o].pos # "none"

\* Every position, and what the closed ones made, is left alone.
Standing == \A o \in Orders : db'[o].pos = db[o].pos /\ (db[o].pos = "closed" => db'[o].pnl = db[o].pnl)

LEMMA BeginLeaves == BeginTick => UNCHANGED <<db, disk, risk, stop, down, tape, verbose, watch>>
  BY Zenon DEF BeginTick

\* The steps that touch no position.
LEMMA StandingSteps ==
  ASSUME Typed,
         \/ BeginTick \/ RecordWindow \/ RecordTick \/ RecorderFails \/ FetchOpen \/ KeepOpen \/ CommitClose \/ CloseFails
         \/ SkipEntry \/ Decide \/ CommitOrder \/ CommitPosition \/ SubmitFails
         \/ BeginShutdown \/ ShutdownFetch \/ ShutdownCommit \/ ShutdownFails \/ UNCHANGED vars
  PROVE  db' = db /\ Standing
<1>1. db' = db
  <2>1. BeginTick \/ RecordWindow \/ RecordTick \/ RecorderFails \/ FetchOpen \/ KeepOpen \/ CommitClose \/ CloseFails => db' = db
    BY BeginLeaves DEF RecordWindow, RecordTick, RecorderFails, FetchOpen, KeepOpen, CommitClose, CloseFails
  <2>2. SkipEntry \/ Decide \/ CommitOrder \/ CommitPosition \/ SubmitFails => db' = db
    BY DEF SkipEntry, Decide, CommitOrder, CommitPosition, SubmitFails
  <2>3. BeginShutdown \/ ShutdownFetch \/ ShutdownCommit \/ ShutdownFails \/ UNCHANGED vars => db' = db
    BY DEF BeginShutdown, ShutdownFetch, ShutdownCommit, ShutdownFails, vars
  <2> QED
    BY <2>1, <2>2, <2>3
<1> QED
  BY <1>1 DEF Standing

LEMMA StandingWrites ==
  ASSUME Typed, InsertOrder \/ Audit \/ Acknowledge \/ Fill
  PROVE  Standing
<1>1. CASE InsertOrder
  <2> DEFINE o == Oldest(Unused)
  <2>1. o \in Unused
    <3>1. Unused \in SUBSET Orders /\ Unused # {}
      BY <1>1 DEF Unused, InsertOrder
    <3> QED
      BY <3>1, LeastOrder
  <2>2. o \in Orders /\ db[o].pos = "none"
    <3>1. o \in Orders /\ db[o].state = "absent"
      BY <2>1 DEF Unused
    <3>2. Filled(db[o])
      BY <3>1 DEF Typed, Formal, Kept
    <3> QED
      BY <3>1, <3>2 DEF Filled
  <2>3. PICK row : db' = [db EXCEPT ![o] = row] /\ row.pos = "none"
    <3> DEFINE side == Generate(tick.obs)
               row  == [NoRow EXCEPT !.window = tick.obs.window, !.side = side,
                                     !.entry = PriceOf(tick.obs.up, side), !.state = "PENDING"]
    <3>1. db' = [db EXCEPT ![o] = row]
      BY <1>1 DEF InsertOrder
    <3>2. row.pos = "none"
      BY DEF NoRow
    <3> QED
      BY <3>1, <3>2
  <2> HIDE DEF o
  <2>4. db'[o] = row /\ \A p \in Orders \ {o} : db'[p] = db[p]
    BY <2>2, <2>3, RowTypes
  <2> QED
    BY <2>2, <2>3, <2>4 DEF Standing
<1>2. CASE Audit \/ Acknowledge \/ Fill
  <2> DEFINE o == tick.order
  <2>1. tick.step \in Submitting \ {"insert"}
    BY <1>2 DEF Audit, Acknowledge, Fill, At, AfterAudit, Submitting
  <2>2. o \in Orders
    BY <2>1, InFlight DEF Typed, Staged
  <2>3. db[o] \in Rows /\ DOMAIN db = Orders
    BY <2>2, RowTypes
  <2>4. PICK row : db' = [db EXCEPT ![o] = row] /\ row.pos = db[o].pos /\ row.pnl = db[o].pnl
    <3>1. CASE Audit
      <4> DEFINE row == [db[o] EXCEPT !.trail = Append(@, db[o].state)]
      <4>1. db' = [db EXCEPT ![o] = row]
        BY <2>2, <2>3, <3>1 DEF Audit
      <4>2. row.pos = db[o].pos /\ row.pnl = db[o].pnl
        BY <2>3 DEF Rows
      <4> QED
        BY <4>1, <4>2
    <3>2. CASE Acknowledge \/ Fill
      <4>1. PICK s : db' = [db EXCEPT ![o].state = s]
        BY <3>2 DEF Acknowledge, Fill
      <4> DEFINE row == [db[o] EXCEPT !.state = s]
      <4>2. db' = [db EXCEPT ![o] = row]
        BY <2>2, <2>3, <4>1
      <4>3. row.pos = db[o].pos /\ row.pnl = db[o].pnl
        BY <2>3 DEF Rows
      <4> QED
        BY <4>2, <4>3
    <3> QED
      BY <1>2, <3>1, <3>2
  <2> HIDE DEF o
  <2>5. db'[o] = row /\ \A p \in Orders \ {o} : db'[p] = db[p]
    BY <2>2, <2>3, <2>4
  <2> QED
    BY <2>4, <2>5 DEF Standing
<1> QED
  BY <1>1, <1>2

\* The exit of a position.
LEMMA ExitWrites ==
  ASSUME Typed, Exit
  PROVE  /\ Victim \in Orders /\ Victim \in tick.todo /\ Victim' = Victim /\ db[Victim].pos # "none"
         /\ db'[Victim].pos = "closed" /\ db'[Victim].pnl = PnlAt(db[Victim], tick.obs.up)
         /\ PnlAt(db'[Victim], tick.obs.up) = PnlAt(db[Victim], tick.obs.up)
         /\ \A p \in Orders \ {Victim} : db'[p] = db[p]
<1>1. tick.todo # {} /\ tick'.todo = tick.todo
  BY DEF Exit, GoTo, Typed, Formal, Ticks
<1>2. Victim \in Orders /\ db[Victim] \in Rows /\ db[Victim].pos # "none"
  BY <1>1, VictimType
<1>3. Victim \in tick.todo
  BY <1>1, LeastOrder DEF Victim, Typed, Formal, Ticks
<1>4. Victim' = Victim
  BY <1>1 DEF Victim
<1> DEFINE v   == Victim
           row == [db[v] EXCEPT !.pos = "closed", !.pnl = PnlAt(db[v], tick.obs.up)]
<1>5. db' = [db EXCEPT ![v] = row]
  BY <1>2, RowTypes DEF Exit
<1>6. row.pos = "closed" /\ row.pnl = PnlAt(db[v], tick.obs.up) /\ row.entry = db[v].entry /\ row.side = db[v].side
  BY <1>2 DEF Rows
<1>7. v \in Orders
  BY <1>2
<1> HIDE DEF row, v
<1>8. db'[v] = row /\ \A p \in Orders \ {v} : db'[p] = db[p]
  BY <1>5, <1>7, RowTypes
<1>9. PnlAt(db'[v], tick.obs.up) = PnlAt(db[v], tick.obs.up)
  BY <1>6, <1>8 DEF PnlAt
<1> QED
  BY <1>2, <1>3, <1>4, <1>6, <1>8, <1>9 DEF v

\* A close by the shutdown.
LEMMA ShutdownWrites ==
  ASSUME Typed, ShutdownClose
  PROVE  \E o \in down.left :
           /\ o \in Orders /\ db[o].pos # "none" /\ down'.left = down.left \ {o} /\ down'.closed = down.closed \cup {o}
           /\ db'[o].pos = "closed" /\ db'[o].pnl = 0 /\ \A p \in Orders \ {o} : db'[p] = db[p]
<1> DEFINE o   == Oldest(down.left)
           row == [db[o] EXCEPT !.pos = "closed", !.pnl = 0]
<1>1. o \in down.left
  BY LeastOrder DEF ShutdownClose, Typed, Formal, Downs
<1>2. o \in Orders /\ db[o].pos # "none"
  BY <1>1 DEF Typed, Formal, Downs, Staged
<1>3. db' = [db EXCEPT ![o] = row] /\ down'.left = down.left \ {o} /\ down'.closed = down.closed \cup {o}
  BY <1>2, RowTypes DEF ShutdownClose, Typed, Formal, Downs
<1>4. row.pos = "closed" /\ row.pnl = 0
  BY <1>2, RowTypes DEF Rows
<1> HIDE DEF row, o
<1>5. db'[o] = row /\ \A p \in Orders \ {o} : db'[p] = db[p]
  BY <1>2, <1>3, RowTypes
<1> QED
  BY <1>1, <1>2, <1>3, <1>4, <1>5

\* The start of a position.
LEMMA OpenWrites ==
  ASSUME Typed, OpenPosition
  PROVE  /\ tick.order \in Orders /\ tick'.order = tick.order /\ db[tick.order].pos = "none"
         /\ db'[tick.order].pos = "open" /\ \A p \in Orders \ {tick.order} : db'[p] = db[p]
<1> DEFINE o   == tick.order
           row == [db[o] EXCEPT !.pos = "open"]
<1>1. o \in Orders /\ o # 0 /\ tick.step = "open"
  BY InFlight DEF OpenPosition, At, Typed, Staged, Submitting
<1>2. Flying(db[o], tick.step)
  BY <1>1 DEF Typed, Staged
<1>3. db[o].pos = "none"
  BY <1>1, <1>2 DEF Flying
<1>4. db' = [db EXCEPT ![o] = row] /\ tick'.order = o
  BY <1>1, RowTypes DEF OpenPosition, GoTo, Typed, Formal, Ticks
<1>5. row.pos = "open"
  BY <1>1, RowTypes DEF Rows
<1> HIDE DEF row
<1>6. db'[o] = row /\ \A p \in Orders \ {o} : db'[p] = db[p]
  BY <1>1, <1>4, RowTypes
<1> QED
  BY <1>1, <1>3, <1>4, <1>5, <1>6

LEMMA NextOnward == Typed /\ [Next]_vars => Onward \/ Restart
<1> SUFFICES ASSUME Typed, [Next]_vars, ~Restart PROVE Onward
  OBVIOUS
<1>1. Standing => Onward
  BY DEF Standing, Onward
<1>2. Exit => Onward
  BY ExitWrites DEF Onward
<1>3. ShutdownClose => Onward
  BY ShutdownWrites DEF Onward
<1>4. OpenPosition => Onward
  BY OpenWrites DEF Onward
<1> QED
  BY <1>1, <1>2, <1>3, <1>4, StandingSteps, StandingWrites DEF Next

-----------------------------------------------------------------------------
(* Every step keeps the books.                                             *)

\* Whose steps change what.
LEMMA SameProcess ==
  ASSUME Typed, [Next]_vars, ~Restart
  PROVE  watch'.boot = watch.boot
<1>1. watch \in Watches
  BY DEF Typed, Formal
<1>2. RecordWindow \/ RecordTick \/ RecorderFails \/ CloseFails \/ SubmitFails \/ ShutdownFails => watch'.boot = watch.boot
  BY <1>1 DEF RecordWindow, RecordTick, RecorderFails, CloseFails, SubmitFails, ShutdownFails, Watches
<1>3. BeginTick \/ FetchOpen \/ Exit \/ KeepOpen \/ CommitClose \/ SkipEntry \/ Decide \/ InsertOrder => watch' = watch
  BY BeginLeaves DEF FetchOpen, Exit, KeepOpen, CommitClose, SkipEntry, Decide, InsertOrder
<1>4. Audit \/ Acknowledge \/ Fill \/ CommitOrder \/ OpenPosition \/ CommitPosition => watch' = watch
  BY DEF Audit, Acknowledge, Fill, CommitOrder, OpenPosition, CommitPosition
<1>5. BeginShutdown \/ ShutdownFetch \/ ShutdownClose \/ ShutdownCommit \/ UNCHANGED vars => watch' = watch
  BY DEF BeginShutdown, ShutdownFetch, ShutdownClose, ShutdownCommit, vars
<1> QED
  BY <1>2, <1>3, <1>4, <1>5 DEF Next

LEMMA SameRisk ==
  ASSUME risk \in RiskBook, [Next]_vars, ~(CommitClose \/ Restart)
  PROVE  /\ risk'.drawdown = risk.drawdown /\ risk'.peak = risk.peak /\ risk'.total = risk.total
         /\ risk.updated => risk'.updated
<1>1. BeginTick \/ RecordWindow \/ RecordTick \/ RecorderFails \/ FetchOpen \/ Exit \/ KeepOpen \/ CloseFails => risk' = risk
  BY BeginLeaves DEF RecordWindow, RecordTick, RecorderFails, FetchOpen, Exit, KeepOpen, CloseFails
<1>2. SkipEntry \/ Decide \/ InsertOrder \/ Audit \/ Acknowledge \/ Fill \/ OpenPosition \/ SubmitFails => risk' = risk
  BY DEF SkipEntry, Decide, InsertOrder, Audit, Acknowledge, Fill, OpenPosition, SubmitFails
<1>3. BeginShutdown \/ ShutdownFetch \/ ShutdownClose \/ ShutdownFails \/ UNCHANGED vars => risk' = risk
  BY DEF BeginShutdown, ShutdownFetch, ShutdownClose, ShutdownFails, vars
<1>4. CommitPosition \/ CommitOrder \/ ShutdownCommit
      => risk' = risk \/ risk' = Updated(risk) \/ \E n : risk' = [Updated(risk) EXCEPT !.exposure = n]
  BY DEF CommitPosition, Charged, CommitOrder, ShutdownCommit
<1>5. ASSUME NEW n, risk' = [Updated(risk) EXCEPT !.exposure = n]
      PROVE  /\ risk'.drawdown = risk.drawdown /\ risk'.peak = risk.peak /\ risk'.total = risk.total
             /\ risk'.updated
  <2>1. Updated(risk) \in RiskBook
    BY UpdatedType
  <2>2. /\ risk'.drawdown = Updated(risk).drawdown /\ risk'.peak = Updated(risk).peak
        /\ risk'.total = Updated(risk).total /\ risk'.updated = Updated(risk).updated
    BY <1>5, <2>1 DEF RiskBook
  <2> QED
    BY <2>2, UpdatedType
<1> QED
  BY <1>1, <1>2, <1>3, <1>4, <1>5, UpdatedType DEF Next

LEMMA TickAlone ==
  ASSUME [Next]_vars, ~(BeginShutdown \/ ShutdownFetch \/ ShutdownClose \/ ShutdownCommit \/ ShutdownFails \/ Restart)
  PROVE  down' = down /\ stop' = stop
<1>1. BeginTick \/ RecordWindow \/ RecordTick \/ RecorderFails \/ FetchOpen \/ Exit \/ KeepOpen \/ CommitClose \/ CloseFails
      => down' = down /\ stop' = stop
  BY BeginLeaves DEF RecordWindow, RecordTick, RecorderFails, FetchOpen, Exit, KeepOpen, CommitClose, CloseFails
<1>2. SkipEntry \/ Decide \/ InsertOrder \/ Audit \/ Acknowledge \/ Fill \/ CommitOrder \/ OpenPosition \/ CommitPosition \/ SubmitFails
      => down' = down /\ stop' = stop
  BY DEF SkipEntry, Decide, InsertOrder, Audit, Acknowledge, Fill, CommitOrder, OpenPosition, CommitPosition, SubmitFails
<1> QED
  BY <1>1, <1>2 DEF Next, vars

LEMMA NextGrown == Typed /\ Grown /\ [Next]_vars => Grown'
<1> SUFFICES ASSUME Typed, Grown, [Next]_vars PROVE Grown'
  OBVIOUS
<1>1. CASE Restart
  <2>1. db' = disk /\ watch'.boot = disk
    BY <1>1 DEF Restart, Typed, Formal, Watches
  <2> QED
    BY <2>1 DEF Grown
<1>2. CASE ~Restart
  <2>1. watch'.boot = watch.boot
    BY <1>2, SameProcess
  <2>2. Onward
    BY <1>2, NextOnward
  <2>3. ASSUME NEW o \in Orders
        PROVE  (watch'.boot[o].pos = "closed" => db'[o].pos = "closed") /\ (watch'.boot[o].pos = "open" => db'[o].pos # "none")
    <3>1. db[o].pos \in {"none", "open", "closed"}
      BY RowTypes DEF Rows
    <3> QED
      BY <2>1, <2>2, <3>1 DEF Grown, Onward
  <2> QED
    BY <2>3 DEF Grown
<1> QED
  BY <1>1, <1>2

LEMMA NextAlert == Typed /\ Alert /\ [Next]_vars => Alert'
<1> SUFFICES ASSUME Typed, Alert, [Next]_vars PROVE Alert'
  OBVIOUS
<1>1. risk \in RiskBook /\ down \in Downs
  BY DEF Typed, Formal
<1>2. risk'.drawdown >= risk'.peak - risk'.total /\ (risk'.total # 0 => risk'.updated)
  <2>1. CASE CommitClose
    <3> DEFINE pnl == PnlAt(db[Victim], tick.obs.up)
    <3>1. pnl \in Int
      <4>1. tick.todo # {} /\ tick.obs \in Obs
        BY <2>1 DEF CommitClose, At, Typed, Staged
      <4> QED
        BY <4>1, VictimType, PnlType DEF Par
    <3> HIDE DEF pnl
    <3>2. risk' = Released(risk, pnl)
      BY <2>1 DEF CommitClose, pnl
    <3>3. \A t, p \in Int : Positive(p - t) >= p - t
      BY DEF Positive
    <3> DEFINE total == risk.total + pnl
               peak  == IF total > risk.peak THEN total ELSE risk.peak
    <3>4. total \in Int /\ peak \in Int
      BY <1>1, <3>1 DEF RiskBook
    <3>5. risk'.drawdown = Positive(peak - total) /\ risk'.peak = peak /\ risk'.total = total /\ risk'.updated
      BY <3>2 DEF Released
    <3> QED
      BY <3>3, <3>4, <3>5
  <2>2. CASE Restart
    BY <2>2 DEF Restart, NoRisk
  <2>3. CASE ~(CommitClose \/ Restart)
    <3>1. /\ risk'.drawdown = risk.drawdown /\ risk'.peak = risk.peak /\ risk'.total = risk.total
          /\ risk.updated => risk'.updated
      BY <1>1, <2>3, SameRisk
    <3> QED
      BY <3>1 DEF Alert
  <2> QED
    BY <2>1, <2>2, <2>3
<1>3. down'.step = "off" => ~down'.busy
  <2>1. CASE BeginShutdown \/ ShutdownFetch \/ ShutdownClose \/ ShutdownCommit \/ ShutdownFails
    <3>1. BeginShutdown => down'.step = "fetch"
      BY <1>1 DEF BeginShutdown, Downs
    <3>2. ShutdownFetch => down'.step = "closing"
      BY <1>1 DEF ShutdownFetch, Downs
    <3>3. ShutdownClose => down'.step = "closing"
      BY <1>1 DEF ShutdownClose, Downs
    <3>4. ShutdownCommit \/ ShutdownFails => down'.step = "done"
      BY <1>1 DEF ShutdownCommit, ShutdownFails, Downs
    <3> QED
      BY <2>1, <3>1, <3>2, <3>3, <3>4
  <2>2. CASE Restart
    BY <2>2 DEF Restart, Off
  <2>3. CASE ~(BeginShutdown \/ ShutdownFetch \/ ShutdownClose \/ ShutdownCommit \/ ShutdownFails \/ Restart)
    BY <2>3, TickAlone DEF Alert
  <2> QED
    BY <2>1, <2>2, <2>3
<1> QED
  BY <1>2, <1>3 DEF Alert

\* A failure is no longer undisturbed.
LEMMA FaultBooked == Typed /\ (CloseFails \/ SubmitFails \/ ShutdownFails) => Booked'
<1> SUFFICES ASSUME Typed, CloseFails \/ SubmitFails \/ ShutdownFails PROVE Booked'
  OBVIOUS
<1>1. ~watch'.clean
  BY DEF CloseFails, SubmitFails, ShutdownFails, Typed, Formal, Watches
<1> QED
  BY <1>1 DEF Booked, Undisturbed

\* What a process finds is not its own.
LEMMA FreshBooked ==
  ASSUME db' = disk', risk' = NoRisk, tick'.step = "idle", down'.step = "off", watch'.boot = db'
  PROVE  Booked'
<1>1. Reported' = {}
  BY DEF Reported
<1>2. Tallied'
  <2>1. PnlSum(db', {}) = 0
    BY EmptySum DEF PnlSum
  <2>2. Cardinality({}) = 0
    BY FS_EmptySet
  <2>3. {o \in Reported' : db'[o].pnl > 0} = {} /\ {o \in Reported' : db'[o].pnl < 0} = {}
    BY <1>1
  <2>4. risk'.total = 0 /\ risk'.wins = 0 /\ risk'.losses = 0
    BY DEF NoRisk
  <2> HIDE DEF Reported
  <2> QED
    BY <1>1, <2>1, <2>2, <2>3, <2>4 DEF Tallied
<1>3. Orderly' /\ Committed'
  BY DEF Orderly, Committed
<1>4. Exposed'
  BY DEF Exposed, ChargeOf, NoRisk
<1> QED
  BY <1>2, <1>3, <1>4 DEF Booked

LEMMA InitBooked == Init => Booked
<1> SUFFICES ASSUME Init PROVE Booked
  OBVIOUS
<1>1. db = disk /\ risk = NoRisk /\ tick.step = "idle" /\ down.step = "off" /\ watch.boot = db
  BY DEF Init, Off
<1>2. Reported = {}
  BY <1>1 DEF Reported
<1>3. Tallied
  <2>1. PnlSum(db, {}) = 0
    BY EmptySum DEF PnlSum
  <2>2. Cardinality({}) = 0
    BY FS_EmptySet
  <2>3. {o \in Reported : db[o].pnl > 0} = {} /\ {o \in Reported : db[o].pnl < 0} = {}
    BY <1>2
  <2>4. risk.total = 0 /\ risk.wins = 0 /\ risk.losses = 0
    BY <1>1 DEF NoRisk
  <2> HIDE DEF Reported
  <2> QED
    BY <1>2, <2>1, <2>2, <2>3, <2>4 DEF Tallied
<1>4. Orderly /\ Committed
  BY <1>1 DEF Orderly, Committed
<1>5. Exposed
  BY <1>1 DEF Exposed, ChargeOf, NoRisk
<1> QED
  BY <1>3, <1>4, <1>5 DEF Booked

\* A step that leaves every position and the counters alone.
SameCounts ==
    /\ risk'.exposure = risk.exposure /\ risk'.total = risk.total
    /\ risk'.wins = risk.wins /\ risk'.losses = risk.losses

LEMMA StandingBooked ==
  ASSUME Typed, Booked, Standing, SameCounts, watch'.boot = watch.boot,
         {down.step, down'.step} \subseteq {"off", "fetch"}, {tick.step, tick'.step} \cap {"book", "close"} = {},
         Undisturbed' =>
           /\ Undisturbed
           /\ down'.step # "off" => tick'.step = "idle" /\ stop'
           /\ tick'.step = "check" => tick'.todo \subseteq Open(db)
           /\ tick'.step \in Reading => db' = disk'
  PROVE  Booked'
<1> SUFFICES ASSUME Undisturbed' PROVE Orderly' /\ Committed' /\ Tallied' /\ Exposed'
  BY DEF Booked
<1>1. Undisturbed /\ Orderly /\ Tallied /\ Exposed
  BY DEF Booked
<1>2. Open(db') = Open(db) /\ ClosedIn(db') = ClosedIn(db)
  BY DEF Standing, Open, ClosedIn
<1>3. Orderly'
  BY <1>1, <1>2 DEF Orderly
<1>4. Committed'
  BY <1>1 DEF Committed
<1>5. Tallied'
  <2>1. Waiting = {} /\ Waiting' = {}
    BY DEF Waiting
  <2>2. Reported' = Reported
    BY <1>2, <2>1 DEF Reported
  <2>3. \A o \in Reported : db'[o].pnl = db[o].pnl
    BY DEF Reported, ClosedIn, Standing
  <2> HIDE DEF Reported
  <2> QED
    BY <1>1, <2>2, <2>3, TallyStands DEF SameCounts
<1>6. Exposed'
  <2>1. risk.exposure = ChargeOf(Open(db))
    BY <1>1 DEF Exposed
  <2>2. risk'.exposure = (IF Open(db') \subseteq Open(watch'.boot) THEN 0 ELSE Notional)
    BY <1>2, <2>1 DEF ChargeOf, SameCounts
  <2> QED
    BY <2>2 DEF Exposed, ChargeOf
<1> QED
  BY <1>3, <1>4, <1>5, <1>6

\* A step of the tick, without a failure, is alone: there is no shutdown yet.
LEMMA StepAlone ==
  ASSUME Booked, Undisturbed', down' = down, watch'.clean => watch.clean, BeginTick \/ tick.step # "idle"
  PROVE  Undisturbed /\ Orderly /\ Committed /\ Tallied /\ Exposed /\ down.step = "off"
<1>1. Undisturbed
  BY DEF Undisturbed
<1>2. Orderly /\ Committed /\ Tallied /\ Exposed
  BY <1>1 DEF Booked
<1>3. BeginTick => ~stop
  BY Zenon DEF BeginTick
<1> QED
  BY <1>1, <1>2, <1>3 DEF Orderly

LEMMA BeginReads == tick \in Ticks /\ BeginTick => tick.step = "idle" /\ tick'.step = "window" /\ ~stop
<1> SUFFICES ASSUME tick \in Ticks, BeginTick PROVE tick.step = "idle" /\ tick'.step = "window" /\ ~stop
  OBVIOUS
<1>1. tick.step = "idle" /\ ~stop
  BY Zenon DEF BeginTick, At
<1>2. \E obs : tick' = [tick EXCEPT !.step = "window", !.obs = obs, !.served = @ + 1]
  BY Zenon DEF BeginTick
<1> QED
  BY <1>1, <1>2 DEF Ticks

\* Up to the insert of a position nothing is booked.
LEMMA QuietBooked ==
  ASSUME Typed, Booked,
         \/ BeginTick \/ RecordWindow \/ RecordTick \/ RecorderFails \/ FetchOpen \/ KeepOpen \/ SkipEntry \/ Decide
         \/ InsertOrder \/ Audit \/ Acknowledge \/ Fill \/ CommitOrder
  PROVE  Booked'
<1> SUFFICES ASSUME Undisturbed' PROVE Booked'
  BY DEF Booked
<1>1. tick \in Ticks /\ watch \in Watches
  BY DEF Typed, Formal
<1>2. /\ SameCounts /\ stop' = stop /\ down' = down
      /\ watch'.boot = watch.boot /\ watch'.clean = watch.clean
  <2>1. RecordWindow \/ RecordTick \/ RecorderFails => risk' = risk /\ stop' = stop /\ down' = down
        /\ watch'.boot = watch.boot /\ watch'.clean = watch.clean
    BY <1>1 DEF RecordWindow, RecordTick, RecorderFails, Watches
  <2>2. BeginTick \/ FetchOpen \/ KeepOpen \/ SkipEntry \/ Decide => risk' = risk /\ stop' = stop /\ down' = down
        /\ watch'.boot = watch.boot /\ watch'.clean = watch.clean
    BY BeginLeaves DEF FetchOpen, KeepOpen, SkipEntry, Decide
  <2>3. InsertOrder \/ Audit \/ Acknowledge \/ Fill \/ CommitOrder
        => (risk' = risk \/ risk' = Updated(risk)) /\ stop' = stop /\ down' = down
           /\ watch'.boot = watch.boot /\ watch'.clean = watch.clean
    BY DEF InsertOrder, Audit, Acknowledge, Fill, CommitOrder
  <2>4. risk' = risk \/ risk' = Updated(risk) => SameCounts
    BY UpdatedType DEF SameCounts, Typed, Formal
  <2> QED
    BY <2>1, <2>2, <2>3, <2>4
<1>3. BeginTick \/ tick.step # "idle"
  BY DEF RecordWindow, RecordTick, RecorderFails, FetchOpen, KeepOpen, SkipEntry, Decide,
     InsertOrder, Audit, Acknowledge, Fill, CommitOrder, At, AfterAudit
<1>4. Undisturbed /\ Orderly /\ Committed /\ Tallied /\ Exposed /\ down.step = "off"
  BY <1>2, <1>3, StepAlone
<1>5. Standing
  BY StandingSteps, StandingWrites
<1>6. CASE BeginTick \/ RecordWindow \/ RecordTick \/ RecorderFails \/ FetchOpen \/ KeepOpen \/ SkipEntry \/ Decide
  <2>1. db' = db /\ disk' = disk
    BY <1>6, BeginLeaves DEF RecordWindow, RecordTick, RecorderFails, FetchOpen, KeepOpen, SkipEntry, Decide
  <2>2. tick.step \in Reading
    <3>1. BeginTick => tick.step = "idle"
      BY <1>1, BeginReads
    <3>2. RecordWindow \/ RecordTick \/ RecorderFails \/ FetchOpen => tick.step \in {"window", "tick", "fetch"}
      BY DEF RecordWindow, RecordTick, RecorderFails, FetchOpen, At
    <3>3. KeepOpen \/ SkipEntry \/ Decide => tick.step = "check"
      BY DEF KeepOpen, SkipEntry, Decide, At
    <3> QED
      BY <1>6, <3>1, <3>2, <3>3 DEF Reading
  <2>3. tick'.step \in Reading /\ (tick'.step = "check" => tick'.todo \subseteq Open(db))
    <3>1. BeginTick => tick'.step = "window"
      BY <1>1, BeginReads
    <3>2. RecordWindow \/ RecordTick \/ RecorderFails \/ Decide => tick'.step \in {"tick", "fetch", "insert"}
      BY <1>1 DEF RecordWindow, RecordTick, RecorderFails, Decide, GoTo, Ticks
    <3>3. FetchOpen => tick'.step = "check" /\ tick'.todo = Open(db)
      BY <1>1 DEF FetchOpen, Ticks
    <3>4. KeepOpen => tick'.step = "check" /\ tick'.todo \subseteq tick.todo /\ tick.step = "check"
      BY <1>1 DEF KeepOpen, At, Ticks
    <3>5. SkipEntry => tick'.step = "idle"
      BY <1>1, Rests DEF SkipEntry
    <3> QED
      BY <1>4, <1>6, <3>1, <3>2, <3>3, <3>4, <3>5 DEF Orderly, Reading
  <2>4. db' = disk'
    BY <1>4, <2>1, <2>2 DEF Committed
  <2> QED
    BY <1>2, <1>4, <1>5, <2>2, <2>3, <2>4, StandingBooked DEF Reading
<1>7. CASE InsertOrder \/ Audit \/ Acknowledge \/ Fill \/ CommitOrder
  <2>1. tick.step \notin {"book", "close"}
    BY <1>7 DEF InsertOrder, Audit, Acknowledge, Fill, CommitOrder, At, AfterAudit
  <2>2. tick'.step \notin {"book", "close", "check"} /\ (tick'.step \in Reading => db' = disk')
    <3>1. InsertOrder => tick'.step = "audit1"
      BY <1>1 DEF InsertOrder, Ticks
    <3>2. Audit => tick'.step \in {"ack", "fill", "commit"}
      BY <1>1 DEF Audit, GoTo, Ticks, AfterAudit
    <3>3. Acknowledge \/ Fill => tick'.step \in {"audit2", "audit3"}
      BY <1>1 DEF Acknowledge, Fill, GoTo, Ticks
    <3>4. CommitOrder => tick'.step \in {"open", "idle"} /\ db' = disk'
      BY <1>1, Rests DEF CommitOrder, GoTo, Ticks
    <3> QED
      BY <1>7, <3>1, <3>2, <3>3, <3>4 DEF Reading
  <2> QED
    BY <1>2, <1>4, <1>5, <2>1, <2>2, StandingBooked
<1> QED
  BY <1>6, <1>7

LEMMA ExitBooked ==
  ASSUME Ready, OneAtATime, Booked, Exit
  PROVE  Booked'
<1> SUFFICES ASSUME Undisturbed' PROVE Booked'
  BY DEF Booked
<1>1. tick \in Ticks /\ tick.step = "check" /\ Typed
  BY DEF Ready, Typed, Formal, Exit, At
<1>2. disk' = disk /\ risk' = risk /\ stop' = stop /\ down' = down /\ watch' = watch /\ verbose' = verbose
  BY DEF Exit
<1>3. Undisturbed /\ Orderly /\ Tallied /\ Exposed /\ down.step = "off"
  BY <1>1, <1>2, StepAlone
<1>4. tick'.step = "close" /\ tick'.todo = tick.todo /\ tick'.obs = tick.obs
  BY <1>1, Moves DEF Exit, Steps
<1> DEFINE v == Victim
<1>5. /\ v \in Orders /\ v \in tick.todo /\ Victim' = v
      /\ db'[v].pos = "closed" /\ db'[v].pnl = PnlAt(db[v], tick.obs.up)
      /\ PnlAt(db'[v], tick.obs.up) = PnlAt(db[v], tick.obs.up)
      /\ \A p \in Orders \ {v} : db'[p] = db[p]
  BY <1>1, ExitWrites
<1> HIDE DEF v
<1>6. Open(db) = {v} /\ tick.todo = {v}
  <2>1. v \in Open(db) /\ tick.todo \subseteq Open(db)
    BY <1>1, <1>3, <1>5 DEF Orderly
  <2>2. Open(db) = {v}
    BY <2>1, OnlyOpen DEF Ready
  <2> QED
    BY <1>5, <2>1, <2>2
<1>7. db[v].pos = "open" /\ v \notin ClosedIn(db) /\ v \notin ClosedIn(watch.boot)
  BY <1>5, <1>6 DEF Open, ClosedIn, Ready, Grown
<1>8. Open(db') = {} /\ ClosedIn(db') = ClosedIn(db) \cup {v}
  BY <1>5, <1>6 DEF Open, ClosedIn
<1>9. Orderly'
  <2>1. Victim' \in ClosedIn(db') \ ClosedIn(watch'.boot)
    BY <1>2, <1>5, <1>7, <1>8
  <2>2. db'[Victim'].pnl = PnlAt(db'[Victim'], tick'.obs.up)
    BY <1>4, <1>5
  <2>3. Open(db') = {} /\ tick'.todo = {Victim'}
    BY <1>4, <1>5, <1>6, <1>8
  <2> QED
    BY <1>2, <1>3, <1>4, <2>1, <2>2, <2>3 DEF Orderly
<1>10. Committed'
  BY <1>4 DEF Committed, Reading
<1>11. Tallied'
  <2>1. Reported' = Reported
    <3>1. Waiting = {} /\ Waiting' = {v}
      BY <1>1, <1>4, <1>5 DEF Waiting
    <3> QED
      BY <1>2, <1>7, <1>8, <3>1 DEF Reported
  <2>2. \A o \in Reported : o \in Orders \ {v}
    BY <1>7 DEF Reported, ClosedIn
  <2>3. \A o \in Reported : db'[o].pnl = db[o].pnl
    BY <1>5, <2>2
  <2> HIDE DEF Reported
  <2> QED
    BY <1>1, <1>2, <1>3, <2>1, <2>3, TallyStands
<1>12. Exposed'
  <2>1. risk.exposure = ChargeOf({v})
    BY <1>1, <1>3, <1>6 DEF Exposed
  <2>2. risk'.exposure = (IF {Victim'} \subseteq Open(watch'.boot) THEN 0 ELSE Notional)
    BY <1>2, <1>5, <2>1 DEF ChargeOf
  <2> QED
    BY <1>2, <1>3, <1>4, <2>2 DEF Exposed, ChargeOf
<1> QED
  BY <1>9, <1>10, <1>11, <1>12 DEF Booked

LEMMA CommitCloseBooked ==
  ASSUME Ready, OneAtATime, Booked, Ready', CommitClose
  PROVE  Booked'
<1> SUFFICES ASSUME Undisturbed' PROVE Booked'
  BY DEF Booked
<1> DEFINE v == Victim
           pnl == PnlAt(db[v], tick.obs.up)
<1>1. /\ tick \in Ticks /\ risk \in RiskBook /\ tick.step = "close" /\ Typed /\ Typed'
      /\ Notional \in Nat
  BY BoundsNat DEF Ready, Typed, Formal, CommitClose, At
<1>2. /\ db' = db /\ disk' = db /\ stop' = stop /\ down' = down /\ watch' = watch /\ verbose' = verbose
      /\ risk' = Released(risk, pnl)
  BY DEF CommitClose
<1>3. Undisturbed /\ Orderly /\ Tallied /\ Exposed /\ down.step = "off"
  BY <1>1, <1>2, StepAlone
<1>4. /\ Open(db) = {} /\ tick.todo = {v} /\ v \in ClosedIn(db) \ ClosedIn(watch.boot)
      /\ db[v].pnl = pnl /\ v \in Orders /\ pnl \in Int
  <2>1. /\ Open(db) = {} /\ tick.todo = {v} /\ v \in ClosedIn(db) \ ClosedIn(watch.boot) /\ db[v].pnl = pnl
    BY <1>1, <1>3 DEF Orderly
  <2>2. v \in Orders
    BY <2>1 DEF ClosedIn
  <2> HIDE DEF v, pnl
  <2> QED
    BY <1>1, <2>1, <2>2, RowTypes
<1>5. tick'.step = "idle" \/ (tick'.step = "check" /\ tick'.todo = {})
  <2>1. CASE verbose
    BY <1>1, <2>1, Rests DEF CommitClose
  <2>2. CASE ~verbose
    <3>1. tick' = [tick EXCEPT !.step = "check", !.todo = @ \ {v}]
      BY <2>2 DEF CommitClose
    <3>2. tick'.step = "check" /\ tick'.todo = tick.todo \ {v}
      <4> HIDE DEF v
      <4> QED
        BY <1>1, <3>1 DEF Ticks
    <3> QED
      BY <1>4, <3>2
  <2> QED
    BY <2>1, <2>2
<1>6. /\ risk'.total = risk.total + pnl
      /\ risk'.wins = risk.wins + (IF pnl > 0 THEN 1 ELSE 0)
      /\ risk'.losses = risk.losses + (IF pnl < 0 THEN 1 ELSE 0)
      /\ risk'.exposure = Positive(risk.exposure - Notional)
  BY <1>2 DEF Released
<1>7. Reported' = Reported \cup {v} /\ v \notin Reported
  <2>1. Waiting = {v} /\ Waiting' = {}
    BY <1>1, <1>5 DEF Waiting
  <2> HIDE DEF v
  <2> QED
    BY <1>2, <1>4, <2>1 DEF Reported, ClosedIn
<1>8. risk.exposure = ChargeOf({v})
  BY <1>1, <1>3 DEF Exposed
<1> HIDE DEF v, pnl
<1>9. Orderly'
  BY <1>2, <1>3, <1>4, <1>5 DEF Orderly
<1>10. Committed'
  BY <1>2 DEF Committed
<1>11. Tallied'
  <2>1. db'[v].pnl = pnl /\ \A o \in Reported : db'[o].pnl = db[o].pnl
    BY <1>2, <1>4
  <2> HIDE DEF Reported
  <2> QED
    BY <1>1, <1>3, <1>4, <1>6, <1>7, <2>1, TallyOfOneMore
<1>12. Exposed'
  <2>1. risk'.exposure = 0
    <3>1. risk.exposure \in {0, Notional}
      BY <1>8 DEF ChargeOf
    <3> QED
      BY <1>1, <1>6, <3>1 DEF Positive
  <2>2. Open(db') \subseteq Open(watch'.boot)
    BY <1>2, <1>4
  <2> QED
    BY <1>2, <1>3, <1>5, <2>1, <2>2 DEF Exposed, ChargeOf
<1> QED
  BY <1>9, <1>10, <1>11, <1>12 DEF Booked

LEMMA OpenBooked ==
  ASSUME Ready, OneAtATime, Booked, OpenPosition
  PROVE  Booked'
<1> SUFFICES ASSUME Undisturbed' PROVE Booked'
  BY DEF Booked
<1> DEFINE o == tick.order
<1>1. tick \in Ticks /\ tick.step = "open" /\ Typed
  BY DEF Ready, Typed, Formal, OpenPosition, At
<1>2. disk' = disk /\ risk' = risk /\ stop' = stop /\ down' = down /\ watch' = watch /\ verbose' = verbose /\ tick'.step = "book"
  BY <1>1, Moves DEF OpenPosition, Steps, Submitting
<1>3. Undisturbed /\ Orderly /\ Tallied /\ Exposed /\ down.step = "off"
  BY <1>1, <1>2, StepAlone
<1>4. /\ o \in Orders /\ tick'.order = o /\ db[o].pos = "none"
      /\ db'[o].pos = "open" /\ \A p \in Orders \ {o} : db'[p] = db[p]
  BY <1>1, OpenWrites
<1> HIDE DEF o
<1>5. Open(db) = {}
  BY <1>1, NoneIsOpen DEF Ready, BeforeOpen, Submitting
<1>6. Open(db') = {o} /\ ClosedIn(db') = ClosedIn(db) /\ o \notin ClosedIn(db)
  BY <1>4, <1>5 DEF Open, ClosedIn
<1>7. o \notin Open(watch.boot)
  BY <1>4 DEF Ready, Grown, Open
<1>8. Orderly'
  BY <1>2, <1>3 DEF Orderly
<1>9. Committed'
  BY <1>2 DEF Committed, Reading
<1>10. Tallied'
  <2>1. Waiting = {} /\ Waiting' = {}
    BY <1>1, <1>2 DEF Waiting
  <2>2. Reported' = Reported
    BY <1>2, <1>6, <2>1 DEF Reported
  <2>3. \A p \in Reported : p \in Orders \ {o}
    BY <1>6 DEF Reported, ClosedIn
  <2>4. \A p \in Reported : db'[p].pnl = db[p].pnl
    BY <1>4, <2>3
  <2> HIDE DEF Reported
  <2> QED
    BY <1>1, <1>2, <1>3, <2>2, <2>4, TallyStands
<1>11. Exposed'
  <2>1. risk.exposure = 0
    BY <1>1, <1>3, <1>5 DEF Exposed, ChargeOf
  <2> QED
    BY <1>2, <1>3, <1>4, <1>6, <1>7, <2>1 DEF Exposed, o
<1> QED
  BY <1>8, <1>9, <1>10, <1>11 DEF Booked

LEMMA CommitPositionBooked ==
  ASSUME Ready, Booked, CommitPosition
  PROVE  Booked'
<1> SUFFICES ASSUME Undisturbed' PROVE Booked'
  BY DEF Booked
<1>1. tick \in Ticks /\ risk \in RiskBook /\ tick.step = "book" /\ Typed /\ Notional \in Nat
  BY BoundsNat DEF Ready, Typed, Formal, CommitPosition, At
<1>2. /\ db' = db /\ disk' = db /\ stop' = stop /\ down' = down /\ watch' = watch /\ verbose' = verbose
      /\ tick'.step = "idle" /\ risk' = Charged(risk)
  BY <1>1, Rests DEF CommitPosition
<1>3. Undisturbed /\ Orderly /\ Tallied /\ Exposed /\ down.step = "off"
  BY <1>1, <1>2, StepAlone
<1>4. /\ risk'.total = risk.total /\ risk'.wins = risk.wins /\ risk'.losses = risk.losses
      /\ risk'.exposure = risk.exposure + Notional
  <2>1. risk' = [Updated(risk) EXCEPT !.exposure = @ + Notional] /\ Updated(risk) \in RiskBook
    BY <1>1, <1>2, UpdatedType DEF Charged
  <2>2. /\ risk'.total = Updated(risk).total /\ risk'.wins = Updated(risk).wins /\ risk'.losses = Updated(risk).losses
        /\ risk'.exposure = Updated(risk).exposure + Notional
    BY <2>1 DEF RiskBook
  <2> QED
    BY <1>1, <2>2, UpdatedType
<1>5. Open(db) = {tick.order} /\ tick.order \notin Open(watch.boot) /\ risk.exposure = 0
  BY <1>1, <1>3 DEF Exposed
<1>6. Orderly' /\ Committed'
  BY <1>2, <1>3 DEF Orderly, Committed
<1>7. Tallied'
  <2>1. Waiting = {} /\ Waiting' = {}
    BY <1>1, <1>2 DEF Waiting
  <2>2. Reported' = Reported
    BY <1>2, <2>1 DEF Reported
  <2> HIDE DEF Reported
  <2> QED
    BY <1>1, <1>2, <1>3, <1>4, <2>2, TallyStands
<1>8. Exposed'
  <2>1. risk'.exposure = Notional
    BY <1>1, <1>4, <1>5
  <2>2. ~(Open(db') \subseteq Open(watch'.boot))
    BY <1>2, <1>5
  <2> QED
    BY <1>2, <1>3, <2>1, <2>2 DEF Exposed, ChargeOf
<1> QED
  BY <1>6, <1>7, <1>8 DEF Booked

LEMMA BeginShutdownBooked ==
  ASSUME Typed, Alert, Booked, BeginShutdown
  PROVE  Booked'
<1>1. tick' = tick /\ disk' = disk /\ risk' = risk /\ watch' = watch /\ db' = db
  BY DEF BeginShutdown
<1>2. down.step = "off" /\ down'.step = "fetch" /\ stop' = TRUE
  BY DEF BeginShutdown, Typed, Formal, Downs
<1>3. ~down'.busy => tick.step = "idle"
  BY DEF BeginShutdown, Typed, Formal, Downs, At
<1>4. ~down.busy
  BY <1>2 DEF Alert
<1>5. Undisturbed' => Undisturbed
  BY <1>1, <1>4 DEF Undisturbed
<1>6. CASE tick.step = "idle"
  <2>1. Undisturbed' => db' = disk'
    BY <1>1, <1>2, <1>5, <1>6 DEF Booked, Committed, Reading
  <2>2. Standing
    BY <1>1 DEF Standing
  <2> QED
    BY <1>1, <1>2, <1>5, <1>6, <2>1, <2>2, StandingBooked DEF SameCounts
<1>7. CASE tick.step # "idle"
  BY <1>3, <1>7 DEF Booked, Undisturbed
<1> QED
  BY <1>6, <1>7

LEMMA ShutdownFetchBooked ==
  ASSUME Typed, Booked, ShutdownFetch
  PROVE  Booked'
<1> SUFFICES ASSUME Undisturbed' PROVE Booked'
  BY DEF Booked
<1>1. tick' = tick /\ disk' = disk /\ risk' = risk /\ watch' = watch /\ db' = db /\ stop' = stop /\ verbose' = verbose
  BY DEF ShutdownFetch
<1>2. /\ down.step = "fetch" /\ down'.step = "closing" /\ down'.left = Open(db) /\ down'.busy = down.busy
  BY DEF ShutdownFetch, Typed, Formal, Downs
<1>3. Undisturbed /\ Orderly /\ Tallied /\ Exposed
  BY <1>1, <1>2 DEF Undisturbed, Booked
<1>4. tick.step = "idle" /\ stop
  BY <1>2, <1>3 DEF Orderly
<1>5. Orderly' /\ Committed'
  BY <1>1, <1>2, <1>4 DEF Orderly, Committed
<1>6. Tallied'
  <2>1. Waiting = {} /\ Waiting' = {}
    BY <1>1, <1>4 DEF Waiting
  <2>2. Reported' = Reported
    BY <1>1, <2>1 DEF Reported
  <2> HIDE DEF Reported
  <2> QED
    BY <1>1, <1>3, <2>2, TallyStands
<1>7. Exposed'
  <2>1. risk.exposure = ChargeOf(Open(db))
    BY <1>2, <1>3, <1>4 DEF Exposed
  <2>2. risk'.exposure \in {0, Notional} /\ (risk'.exposure # 0 => down'.left # {})
    BY <1>1, <1>2, <2>1 DEF ChargeOf
  <2> QED
    BY <1>1, <1>2, <1>4, <2>2 DEF Exposed
<1> QED
  BY <1>5, <1>6, <1>7 DEF Booked

LEMMA ShutdownCloseBooked ==
  ASSUME Ready, OneAtATime, Booked, Ready', ShutdownClose
  PROVE  Booked'
<1> SUFFICES ASSUME Undisturbed' PROVE Booked'
  BY DEF Booked
<1>1. Typed /\ Typed' /\ risk \in RiskBook
  BY DEF Ready, Typed, Formal
<1>2. tick' = tick /\ disk' = disk /\ risk' = risk /\ watch' = watch /\ stop' = stop /\ verbose' = verbose
  BY DEF ShutdownClose
<1>3. down.step = "closing" /\ down'.step = "closing" /\ down'.busy = down.busy
  BY <1>1 DEF ShutdownClose, Typed, Formal, Downs
<1>4. Undisturbed /\ Orderly /\ Tallied /\ Exposed
  BY <1>2, <1>3 DEF Undisturbed, Booked
<1>5. tick.step = "idle" /\ stop /\ Open(db) = down.left
  BY <1>3, <1>4 DEF Orderly
<1>6. PICK o \in down.left :
        /\ o \in Orders /\ db[o].pos # "none" /\ down'.left = down.left \ {o} /\ down'.closed = down.closed \cup {o}
        /\ db'[o].pos = "closed" /\ db'[o].pnl = 0 /\ \A p \in Orders \ {o} : db'[p] = db[p]
  BY <1>1, ShutdownWrites
<1>7. Open(db) = {o} /\ db[o].pos = "open"
  BY <1>5, <1>6, OnlyOpen DEF Ready, Open
<1>8. Open(db') = {} /\ down'.left = {} /\ ClosedIn(db') = ClosedIn(db) \cup {o} /\ o \notin ClosedIn(db)
  BY <1>5, <1>6, <1>7 DEF Open, ClosedIn
<1>9. o \notin ClosedIn(watch.boot)
  BY <1>6, <1>7 DEF Ready, Grown, ClosedIn
<1>10. Orderly' /\ Committed'
  BY <1>2, <1>3, <1>5, <1>8 DEF Orderly, Committed
<1>11. Tallied'
  <2>1. Waiting = {} /\ Waiting' = {}
    BY <1>2, <1>5 DEF Waiting
  <2>2. Reported' = Reported \cup {o} /\ o \notin Reported
    BY <1>2, <1>8, <1>9, <2>1 DEF Reported
  <2>3. \A p \in Reported : p \in Orders \ {o}
    BY <1>8 DEF Reported, ClosedIn
  <2>4. \A p \in Reported : db'[p].pnl = db[p].pnl
    BY <1>6, <2>3
  <2> HIDE DEF Reported
  <2>5. /\ risk'.total = risk.total + db'[o].pnl
        /\ risk'.wins = risk.wins + (IF db'[o].pnl > 0 THEN 1 ELSE 0)
        /\ risk'.losses = risk.losses + (IF db'[o].pnl < 0 THEN 1 ELSE 0)
    BY <1>1, <1>2, <1>6 DEF RiskBook
  <2> QED
    BY <1>1, <1>4, <1>6, <2>2, <2>4, <2>5, TallyOfOneMore
<1>12. Exposed'
  <2>1. risk'.exposure \in {0, Notional} /\ down'.closed # {}
    BY <1>2, <1>3, <1>4, <1>6 DEF Exposed
  <2> QED
    BY <1>2, <1>3, <1>5, <2>1 DEF Exposed
<1> QED
  BY <1>10, <1>11, <1>12 DEF Booked

LEMMA ShutdownCommitBooked ==
  ASSUME Typed, Booked, ShutdownCommit
  PROVE  Booked'
<1> SUFFICES ASSUME Undisturbed' PROVE Booked'
  BY DEF Booked
<1> DEFINE count == Cardinality(down.closed)
<1>1. tick' = tick /\ disk' = db /\ watch' = watch /\ db' = db /\ stop' = stop /\ verbose' = verbose
  BY DEF ShutdownCommit
<1>2. /\ risk \in RiskBook /\ Notional \in Nat
      /\ down.step = "closing" /\ down.left = {} /\ down'.step = "done" /\ down'.busy = down.busy
  BY BoundsNat DEF ShutdownCommit, Typed, Formal, Downs
<1>3. Undisturbed /\ Orderly /\ Tallied /\ Exposed
  BY <1>1, <1>2 DEF Undisturbed, Booked
<1>4. tick.step = "idle" /\ stop /\ Open(db) = {}
  BY <1>2, <1>3 DEF Orderly
<1>5. Orderly' /\ Committed'
  BY <1>1, <1>2, <1>4 DEF Orderly, Committed
<1>6. /\ risk'.total = risk.total /\ risk'.wins = risk.wins /\ risk'.losses = risk.losses
      /\ risk' = risk \/ risk'.exposure = Positive(risk.exposure - count * Notional)
      /\ ~verbose /\ down.closed # {} => risk'.exposure = Positive(risk.exposure - count * Notional)
  <2>1. risk' = IF verbose \/ down.closed = {} THEN risk ELSE [Updated(risk) EXCEPT !.exposure = Positive(@ - count * Notional)]
    BY DEF ShutdownCommit
  <2>2. Updated(risk) \in RiskBook /\ Updated(risk).exposure = risk.exposure /\ Updated(risk).total = risk.total
        /\ Updated(risk).wins = risk.wins /\ Updated(risk).losses = risk.losses
    BY <1>2, UpdatedType
  <2> HIDE DEF count
  <2>3. ASSUME NEW r \in RiskBook, NEW n PROVE /\ [r EXCEPT !.exposure = n].total = r.total
           /\ [r EXCEPT !.exposure = n].wins = r.wins /\ [r EXCEPT !.exposure = n].losses = r.losses
           /\ [r EXCEPT !.exposure = n].exposure = n
    BY DEF RiskBook
  <2> QED
    BY <2>1, <2>2, <2>3
<1>7. Tallied'
  <2>1. Waiting = {} /\ Waiting' = {}
    BY <1>1, <1>4 DEF Waiting
  <2>2. Reported' = Reported
    BY <1>1, <2>1 DEF Reported
  <2> HIDE DEF Reported
  <2> QED
    BY <1>1, <1>3, <1>6, <2>2, TallyStands
<1>8. ASSUME ~verbose PROVE risk'.exposure = 0
  <2>1. IsFiniteSet(down.closed) /\ count \in Nat
    BY SomeAreFinite DEF Typed, Formal, Downs
  <2>2. risk.exposure = 0 \/ (risk.exposure = Notional /\ down.closed # {})
    BY <1>2, <1>3 DEF Exposed
  <2>3. down.closed # {} => count # 0
    BY <2>1, FS_EmptySet
  <2> HIDE DEF count
  <2>4. count # 0 => count * Notional >= Notional
    BY <1>2, <2>1
  <2>5. count * Notional \in Nat
    BY <1>2, <2>1
  <2>6. risk.exposure - count * Notional <= 0 /\ risk.exposure - count * Notional \in Int
    BY <1>2, <2>2, <2>3, <2>4, <2>5
  <2>7. CASE down.closed # {}
    BY <1>6, <1>8, <2>6, <2>7 DEF Positive
  <2>8. CASE down.closed = {}
    BY <1>8, <2>2, <2>8 DEF ShutdownCommit
  <2> QED
    BY <2>7, <2>8
<1>9. Exposed'
  BY <1>1, <1>2, <1>4, <1>8 DEF Exposed
<1> QED
  BY <1>5, <1>7, <1>9 DEF Booked

LEMMA NextBooked == ASSUME OneAtATime PROVE Ready /\ Ready' /\ Booked /\ [Next]_vars => Booked'
<1> SUFFICES ASSUME Ready, Ready', Booked, [Next]_vars PROVE Booked'
  OBVIOUS
<1>1. Typed /\ Alert
  BY DEF Ready
<1>2. CASE UNCHANGED vars
  <2>1. UNCHANGED <<db, disk, risk, tick, stop, down, verbose, watch>>
    BY <1>2 DEF vars
  <2> QED
    BY <2>1 DEF Booked, Undisturbed, Orderly, Committed, Tallied, Exposed, ChargeOf, Reported, Waiting, Victim
<1>3. CASE Restart
  <2>1. db' = disk' /\ risk' = NoRisk /\ tick'.step = "idle" /\ down'.step = "off" /\ watch'.boot = db'
    BY <1>1, <1>3, Rests DEF Restart, Off, Typed, Formal, Watches
  <2> QED
    BY <2>1, FreshBooked
<1> QED
  BY <1>1, <1>2, <1>3, QuietBooked, ExitBooked, CommitCloseBooked, FaultBooked, OpenBooked, CommitPositionBooked,
     BeginShutdownBooked, ShutdownFetchBooked, ShutdownCloseBooked, ShutdownCommitBooked DEF Next

LEMMA StaysReady == Spec => []Ready
<1>1. Init => Grown /\ Alert
  BY DEF Init, Grown, Alert, NoRisk, Off
<1>2. Typed /\ Grown /\ Alert /\ [Next]_vars => Grown' /\ Alert'
  BY NextGrown, NextAlert
<1>3. Typed /\ Inv /\ Grown /\ Alert <=> Ready
  BY DEF Ready
<1> QED
  BY <1>1, <1>2, <1>3, StaysTyped, InitInv, NextInv, PTL DEF Spec

\* Between two ticks, and after a shutdown that met none in flight, the tables are committed, the risk
\* service's exposure, total, wins and losses are those of the positions this process opened and
\* closed, its report tells of a breach or a warning when they have lost that much, and so does the
\* status, which says STALE instead five minutes after the last trade; and a shutdown leaves nothing
\* open, unless a statement failed: with one position at a time, for any notional, limit of
\* drawdown, number of orders, and whatever dies (ops/controller.py:198-202, 240-244, 256-279;
\* execution/risk.py:110-198).
THEOREM BooksHold == ASSUME OneAtATime PROVE Spec => []BooksAgree
<1>1. ASSUME Ready, Booked PROVE BooksAgree
  <2> SUFFICES ASSUME watch.clean, At("idle"), down.step \in {"off", "done"}, ~down.busy PROVE BooksAgree
    BY DEF BooksAgree
  <2> DEFINE mine   == ClosedIn(db) \ ClosedIn(watch.boot)
             report == PostTradeReport(risk)
  <2>1. Orderly /\ Committed /\ Tallied /\ Exposed /\ tick.step = "idle"
    BY <1>1 DEF Booked, Undisturbed, At
  <2>2. risk \in RiskBook /\ Notional \in Nat /\ MaxDrawdown \in Nat /\ Typed
    BY <1>1, BoundsNat DEF Ready, Typed, Formal
  <2>3. Reported = mine
    BY <2>1 DEF Reported, Waiting
  <2>4. db = disk
    BY <2>1 DEF Committed, Reading
  <2>5. down.step = "done" => Open(db) = {} /\ \A quiet \in BOOLEAN : Status(quiet).open = 0
    BY <2>1, FS_EmptySet DEF Orderly, Status
  <2>6. report.total = PnlSum(db, mine) /\ report.wins = Cardinality({o \in mine : db[o].pnl > 0})
        /\ report.losses = Cardinality({o \in mine : db[o].pnl < 0})
    BY <2>1, <2>3 DEF Tallied, PostTradeReport
  <2>7. ASSUME ~(down.step = "done" /\ verbose)
        PROVE  report.open = Cardinality(Open(db) \ Open(watch.boot)) /\ risk.exposure = Notional * report.open
    <3>1. risk.exposure = ChargeOf(Open(db))
      BY <2>1, <2>5, <2>7 DEF Exposed, ChargeOf
    <3>2. report.open = risk.exposure \div Notional
      BY DEF PostTradeReport
    <3>3. Notional > 0
      BY DEF OneAtATime
    <3>4. CASE Open(db) \subseteq Open(watch.boot)
      <4>1. risk.exposure = 0 /\ Open(db) \ Open(watch.boot) = {}
        BY <3>1, <3>4 DEF ChargeOf
      <4>2. Cardinality(Open(db) \ Open(watch.boot)) = 0
        BY <4>1, FS_EmptySet
      <4> QED
        BY <2>2, <3>2, <3>3, <4>1, <4>2
    <3>5. CASE ~(Open(db) \subseteq Open(watch.boot))
      <4>1. risk.exposure = Notional
        BY <3>1, <3>5 DEF ChargeOf
      <4>2. PICK o \in Open(db) : o \notin Open(watch.boot)
        BY <3>5
      <4>3. Open(db) \ Open(watch.boot) = {o}
        BY <1>1, <4>2, OnlyOpen DEF Ready
      <4>4. Cardinality(Open(db) \ Open(watch.boot)) = 1
        BY <4>3, FS_Singleton
      <4>5. Notional \div Notional = 1 /\ Notional * 1 = Notional
        BY <2>2, <3>3
      <4> QED
        BY <3>2, <4>1, <4>4, <4>5
    <3> QED
      BY <3>4, <3>5
  <2>8. /\ 10 * report.total <= -9 * MaxDrawdown => report.state = "BREACH" /\ Status(FALSE).state = "BREACH"
        /\ 2 * report.total <= -MaxDrawdown => report.state # "OK" /\ Status(FALSE).state # "OK"
        /\ report.total # 0 => Status(TRUE).state = "STALE"
    <3>1. /\ report.total = risk.total /\ report.state = RiskState(Updated(risk), FALSE)
          /\ \A quiet \in BOOLEAN : Status(quiet).state = RiskState(risk, quiet)
      BY DEF PostTradeReport, Status
    <3>11. /\ Updated(risk).drawdown = risk.drawdown /\ Updated(risk).exposure = risk.exposure
           /\ risk.total # 0 => risk.updated
      BY <1>1, <2>2, UpdatedType DEF Ready, Alert
    <3>2. risk.drawdown >= -risk.total /\ risk.drawdown \in Nat /\ risk.total \in Int
      BY <1>1, <2>2 DEF Ready, Alert, RiskBook
    <3>3. 10 * risk.total <= -9 * MaxDrawdown => 10 * risk.drawdown >= 9 * MaxDrawdown
      BY <2>2, <3>2
    <3>4. 2 * risk.total <= -MaxDrawdown => 2 * risk.drawdown >= MaxDrawdown
      BY <2>2, <3>2
    <3> QED
      BY <3>1, <3>11, <3>3, <3>4 DEF RiskState
  <2> QED
    BY <2>4, <2>5, <2>6, <2>7, <2>8 DEF BooksAgree
<1>2. Ready /\ Ready' /\ Booked /\ [Next]_vars => Booked'
  BY NextBooked
<1> QED
  BY <1>1, <1>2, InitBooked, StaysReady, PTL DEF Spec

-----------------------------------------------------------------------------
(* The tape.                                                               *)

\* The rows of a window's ticks.
Hits(w) == {i \in DOMAIN tape.ticks : tape.ticks[i].tick.window = w}

\* As late as another tick, or later.
Since(obs, t) == obs.window > t.window \/ (obs.window = t.window /\ obs.left <= t.left)

\* Recorded ticks are numbered, come in the order of time, none after the tick in progress, and have a
\* row of their window, which is at the price of the last of them unless it was written for a tick
\* that was not.
InTime ==
    /\ tape.ticks # <<>> => tick.obs \in Obs
    /\ \A i \in DOMAIN tape.ticks : tape.ticks[i].id = i /\ Since(tick.obs, tape.ticks[i].tick)
    /\ \A i, j \in DOMAIN tape.ticks :
        i < j /\ tape.ticks[i].tick.window = tape.ticks[j].tick.window => tape.ticks[i].tick.left >= tape.ticks[j].tick.left
WithRows ==
    /\ \A i \in DOMAIN tape.ticks : tape.windows[tape.ticks[i].tick.window] # None
    /\ \A w \in Windows : IF w \in watch.torn THEN tape.windows[w] # None ELSE tape.windows[w] # None => Hits(w) # {}
    /\ tick.step = "tick" => tick.obs.window \in watch.torn /\ tape.windows[tick.obs.window] = tick.obs.up
Priced ==
    \A w \in Windows \ watch.torn : \A i \in Hits(w) :
        (\A j \in Hits(w) : j <= i) => tape.windows[w] = tape.ticks[i].tick.up
Taped == InTime /\ WithRows /\ Priced

\* The steps that leave the tape and what was seen alone.
LEMMA TapeStands ==
  ASSUME Taped, tape' = tape, watch'.torn = watch.torn, tick'.obs = tick.obs,
         tick'.step = "tick" => tick.step = "tick"
  PROVE  Taped'
BY DEF Taped, InTime, WithRows, Priced, Hits

\* Whose steps they are.
LEMMA TapeAlone ==
  ASSUME Typed, [Next]_vars, ~(BeginTick \/ RecordWindow \/ RecordTick)
  PROVE  tape' = tape /\ watch'.torn = watch.torn /\ tick'.obs = tick.obs /\ (tick'.step = "tick" => tick.step = "tick")
<1> DEFINE Goal == tape' = tape /\ watch'.torn = watch.torn /\ tick'.obs = tick.obs /\ (tick'.step = "tick" => tick.step = "tick")
<1>1. tick \in Ticks /\ watch \in Watches
  BY DEF Typed, Formal
<1>2. \A s \in Steps \ {"tick"} : GoTo(s) => tick'.obs = tick.obs /\ tick'.step # "tick"
  BY <1>1, Moves
<1>3. GoIdle => tick'.obs = tick.obs /\ tick'.step # "tick"
  BY <1>1, Rests
<1>4. {"fetch", "check", "close", "insert", "audit1", "ack", "fill", "commit", "audit2", "audit3", "open", "book"} \subseteq Steps \ {"tick"}
  BY DEF Steps, Submitting
<1>5. RecorderFails \/ CloseFails \/ SubmitFails => Goal
  BY <1>1, <1>2, <1>3, <1>4 DEF RecorderFails, CloseFails, SubmitFails, Watches
<1>6. FetchOpen \/ KeepOpen => Goal
  BY <1>1 DEF FetchOpen, KeepOpen, Ticks
<1>7. Exit => Goal
  BY <1>1, <1>2, <1>4 DEF Exit
<1>8. CommitClose => Goal
  <2>1. ASSUME tick' = [tick EXCEPT !.step = "check", !.todo = @ \ {Victim}]
        PROVE  tick'.obs = tick.obs /\ tick'.step # "tick"
    BY <1>1, <2>1 DEF Ticks
  <2> QED
    BY <1>3, <2>1 DEF CommitClose
<1>9. SkipEntry \/ Decide => Goal
  BY <1>2, <1>3, <1>4 DEF SkipEntry, Decide
<1>10. InsertOrder => Goal
  <2>1. ASSUME NEW o, tick' = [tick EXCEPT !.step = "audit1", !.order = o]
        PROVE  tick'.obs = tick.obs /\ tick'.step # "tick"
    BY <1>1, <2>1 DEF Ticks
  <2> QED
    BY <2>1 DEF InsertOrder
<1>11. Audit => Goal
  <2>1. ASSUME NEW s \in DOMAIN AfterAudit PROVE AfterAudit[s] \in Steps \ {"tick"}
    BY <1>4 DEF AfterAudit
  <2> QED
    BY <1>2, <2>1 DEF Audit
<1>12. Acknowledge \/ Fill \/ CommitOrder \/ OpenPosition \/ CommitPosition => Goal
  BY <1>2, <1>3, <1>4 DEF Acknowledge, Fill, CommitOrder, OpenPosition, CommitPosition
<1>13. BeginShutdown \/ ShutdownFetch \/ ShutdownClose \/ ShutdownCommit \/ ShutdownFails \/ UNCHANGED vars => Goal
  BY <1>1 DEF BeginShutdown, ShutdownFetch, ShutdownClose, ShutdownCommit, ShutdownFails, vars, Watches
<1>14. Restart => Goal
  BY <1>1, <1>3 DEF Restart, Watches
<1> QED
  BY <1>5, <1>6, <1>7, <1>8, <1>9, <1>10, <1>11, <1>12, <1>13, <1>14 DEF Next

LEMMA InitTaped == Init => Taped
<1> SUFFICES ASSUME Init PROVE Taped
  OBVIOUS
<1>1. tape.ticks = <<>> /\ DOMAIN tape.ticks = {} /\ tape.windows = [w \in Windows |-> None] /\ watch.torn = {} /\ tick.step = "idle"
  BY DEF Init, BlankTape
<1> QED
  BY <1>1 DEF Taped, InTime, WithRows, Priced, Hits

LEMMA ObsNumbers ==
  ASSUME NEW obs \in Obs
  PROVE  obs.window \in Windows /\ obs.window \in Int /\ obs.left \in Int /\ obs.up \in 1..Par /\ obs.up # None /\ obs # None
<1>1. /\ obs.window \in Windows /\ obs.left \in Lefts /\ obs.up \in 1..Par /\ obs.spot \in 1..Par
      /\ obs = [window |-> obs.window, spot |-> obs.spot, up |-> obs.up, left |-> obs.left]
  BY DEF Obs
<1>2. obs.window \in Int
  BY <1>1 DEF Windows
<1>3. obs.left \in Int
  BY <1>1, TimesType
<1>4. obs.up \in Int /\ obs.spot \in Int
  BY <1>1 DEF Par
<1>5. obs \in Sights
  BY <1>1, <1>2, <1>3, <1>4 DEF Sights
<1> QED
  BY <1>1, <1>2, <1>3, <1>4, <1>5, NoneAssumption

\* The ticks of a tape, one by one.
LEMMA TapeTicks ==
  ASSUME Typed
  PROVE  /\ tape.ticks \in Seq(Recorded) /\ Len(tape.ticks) \in Nat /\ DOMAIN tape.ticks = 1..Len(tape.ticks)
         /\ \A i \in DOMAIN tape.ticks : tape.ticks[i] \in Recorded /\ tape.ticks[i].tick \in Obs
         /\ tape.windows \in [Windows -> 1..Par \cup {None}]
<1>1. tape.ticks \in Seq(Recorded) /\ tape.windows \in [Windows -> 1..Par \cup {None}]
  BY DEF Typed, Formal, Tapes, Prices
<1>2. \A i \in DOMAIN tape.ticks : tape.ticks[i] \in Recorded
  BY <1>1, LenProperties, ElementOfSeq
<1> QED
  BY <1>1, <1>2, LenProperties DEF Recorded


LEMMA SinceThen ==
  ASSUME NEW a \in Obs, NEW b \in Obs, NEW c \in Obs, Since(a, b), Since(b, c)
  PROVE  Since(a, c)
<1>1. a.window \in Int /\ b.window \in Int /\ c.window \in Int /\ a.left \in Int /\ b.left \in Int /\ c.left \in Int
  BY ObsNumbers
<1> QED
  BY <1>1 DEF Since

LEMMA BeginTaped == Typed /\ Taped /\ BeginTick => Taped'
<1> SUFFICES ASSUME Typed, Taped, BeginTick PROVE Taped'
  OBVIOUS
<1>1. PICK w \in Windows, q \in Quotes, l \in Lefts :
        LET obs == [window |-> w, spot |-> q.spot, up |-> q.up, left |-> l]
        IN  /\ Follows(obs, tick.obs) = TRUE
            /\ tick' = [tick EXCEPT !.step = "window", !.obs = obs, !.served = @ + 1]
  BY Zenon DEF BeginTick
<1> DEFINE obs == [window |-> w, spot |-> q.spot, up |-> q.up, left |-> l]
<1>2. obs \in Obs
  BY Observed
<1>3. Follows(obs, tick.obs) /\ tick' = [tick EXCEPT !.step = "window", !.obs = obs, !.served = @ + 1]
  BY <1>1
<1> HIDE DEF obs
<1>4. tick'.obs = obs /\ tick'.step = "window"
  BY <1>3 DEF Typed, Formal, Ticks
<1>5. tape' = tape /\ watch' = watch
  BY BeginLeaves
<1>6. ASSUME NEW i \in DOMAIN tape.ticks PROVE Since(obs, tape.ticks[i].tick)
  <2>1. tape.ticks # <<>> /\ tape.ticks[i].tick \in Obs
    BY TapeTicks
  <2>2. tick.obs \in Obs /\ Since(tick.obs, tape.ticks[i].tick)
    BY <2>1 DEF Taped, InTime
  <2>3. Since(obs, tick.obs)
    BY <1>3, <2>2, ObsNumbers DEF Follows, Since
  <2> QED
    BY <1>2, <2>1, <2>2, <2>3, SinceThen
<1>7. InTime'
  BY <1>2, <1>4, <1>5, <1>6 DEF Taped, InTime
<1>8. WithRows' /\ Priced'
  BY <1>4, <1>5 DEF Taped, WithRows, Priced, Hits
<1> QED
  BY <1>7, <1>8 DEF Taped

LEMMA RecordWindowTaped == Typed /\ Taped /\ RecordWindow => Taped'
<1> SUFFICES ASSUME Typed, Taped, RecordWindow PROVE Taped'
  OBVIOUS
<1>1. tick.step = "window" /\ tick.obs \in Obs
  BY DEF RecordWindow, At, Typed, Staged
<1>2. tick'.step = "tick" /\ tick'.obs = tick.obs
  BY Moves DEF RecordWindow, Typed, Formal, Steps
<1>3. tick.obs.window \in Windows /\ tick.obs.up # None
  BY <1>1, ObsNumbers
<1>4. tape'.ticks = tape.ticks /\ tape'.windows = [tape.windows EXCEPT ![tick.obs.window] = tick.obs.up]
  BY DEF RecordWindow, WithWindow, Typed, Formal, Tapes
<1>5. DOMAIN tape.windows = Windows
  BY TapeTicks
<1>6. watch'.torn = watch.torn \cup {tick.obs.window}
  BY DEF RecordWindow, Typed, Formal, Watches
<1>7. /\ tape'.windows[tick.obs.window] = tick.obs.up
      /\ \A w \in Windows \ {tick.obs.window} : tape'.windows[w] = tape.windows[w]
  BY <1>3, <1>4, <1>5
<1>8. \A w : Hits(w)' = Hits(w)
  BY <1>4 DEF Hits
<1>9. InTime'
  BY <1>2, <1>4 DEF Taped, InTime
<1>10. WithRows'
  <2>1. ASSUME NEW i \in DOMAIN tape.ticks PROVE tape'.windows[tape.ticks[i].tick.window] # None
    <3>1. tape.ticks[i].tick.window \in Windows
      BY TapeTicks, ObsNumbers
    <3> QED
      BY <1>3, <1>7, <3>1 DEF Taped, WithRows
  <2>2. ASSUME NEW w \in Windows
        PROVE  IF w \in watch'.torn THEN tape'.windows[w] # None ELSE tape'.windows[w] # None => Hits(w)' # {}
    BY <1>3, <1>6, <1>7, <1>8 DEF Taped, WithRows
  <2> QED
    BY <1>2, <1>4, <1>6, <1>7, <2>1, <2>2 DEF WithRows
<1>11. Priced'
  <2>1. ASSUME NEW w \in Windows \ watch'.torn PROVE w \in Windows \ watch.torn /\ tape'.windows[w] = tape.windows[w]
    BY <1>6, <1>7
  <2> QED
    BY <1>4, <1>8, <2>1 DEF Taped, Priced
<1> QED
  BY <1>9, <1>10, <1>11 DEF Taped

LEMMA RecordTickTaped == Typed /\ Taped /\ RecordTick => Taped'
<1> SUFFICES ASSUME Typed, Taped, RecordTick PROVE Taped'
  OBVIOUS
<1> DEFINE n == Len(tape.ticks)
           row == [id |-> n + 1, tick |-> tick.obs]
<1>1. tick.step = "tick" /\ tick.obs \in Obs
  BY DEF RecordTick, At, Typed, Staged
<1>2. tick'.step = "fetch" /\ tick'.obs = tick.obs
  BY Moves DEF RecordTick, Typed, Formal, Steps
<1>3. tape.ticks \in Seq(Recorded) /\ n \in Nat /\ DOMAIN tape.ticks = 1..n
      /\ \A i \in DOMAIN tape.ticks : tape.ticks[i] \in Recorded /\ tape.ticks[i].tick \in Obs
  BY TapeTicks
<1>4. row \in Recorded
  BY <1>1, <1>3, RecordTickTyped, BoundsNat DEF Recorded, RecordTick, At, Typed, Staged, Formal, Ticks
<1>5. tape'.ticks = Append(tape.ticks, row) /\ tape'.windows = tape.windows
  BY DEF RecordTick, WithTick, Typed, Formal, Tapes
<1>6. watch'.torn = watch.torn \ {tick.obs.window}
  BY DEF RecordTick, Typed, Formal, Watches
<1>7. /\ DOMAIN tape'.ticks = 1..n + 1 /\ tape'.ticks # <<>> /\ tape'.ticks[n + 1] = row
      /\ \A i \in 1..n : tape'.ticks[i] = tape.ticks[i]
  <2>1. Append(tape.ticks, row) \in Seq(Recorded) /\ Len(Append(tape.ticks, row)) = n + 1
        /\ Append(tape.ticks, row)[n + 1] = row /\ \A i \in 1..n : Append(tape.ticks, row)[i] = tape.ticks[i]
    BY <1>3, <1>4, AppendProperties
  <2>2. DOMAIN Append(tape.ticks, row) = 1..n + 1
    BY <2>1, LenProperties
  <2>3. n + 1 # 0
    BY <1>3
  <2> QED
    BY <1>5, <2>1, <2>2, <2>3, EmptySeq
<1>8. row.id = n + 1 /\ row.tick = tick.obs
  OBVIOUS
<1> HIDE DEF row, n
<1>9. tick.obs.window \in Windows /\ tick.obs.window \in Int /\ tick.obs.left \in Int /\ tick.obs.up # None
  BY <1>1, ObsNumbers
<1>10. \A i \in 1..n + 1 : i \in 1..n \/ i = n + 1
  BY <1>3
<1>11. \A i \in 1..n : tape.ticks[i].id = i /\ Since(tick.obs, tape.ticks[i].tick)
  BY <1>3 DEF Taped, InTime
<1>12. InTime'
  <2>1. ASSUME NEW i \in 1..n + 1 PROVE tape'.ticks[i].id = i /\ Since(tick.obs, tape'.ticks[i].tick)
    <3>1. Since(tick.obs, tick.obs)
      BY <1>9 DEF Since
    <3> QED
      BY <1>7, <1>8, <1>10, <1>11, <3>1
  <2>2. ASSUME NEW i \in 1..n + 1, NEW j \in 1..n + 1, i < j, tape'.ticks[i].tick.window = tape'.ticks[j].tick.window
        PROVE  tape'.ticks[i].tick.left >= tape'.ticks[j].tick.left
    <3>1. i \in 1..n
      BY <1>3, <2>2
    <3>2. CASE j \in 1..n
      BY <1>3, <1>7, <2>2, <3>1, <3>2 DEF Taped, InTime
    <3>3. CASE j = n + 1
      <4>1. tape.ticks[i].tick.left \in Int /\ tape.ticks[i].tick.window \in Int
        BY <1>3, <3>1, ObsNumbers
      <4>2. tape.ticks[i].tick.window = tick.obs.window
        BY <1>7, <1>8, <2>2, <3>1, <3>3
      <4>3. tick.obs.left <= tape.ticks[i].tick.left
        BY <1>9, <1>11, <3>1, <4>1, <4>2 DEF Since
      <4>4. tape.ticks[i].tick.left >= tick.obs.left
        BY <1>9, <4>1, <4>3
      <4> QED
        BY <1>7, <1>8, <3>1, <3>3, <4>4
    <3> QED
      BY <1>10, <3>2, <3>3
  <2> QED
    BY <1>1, <1>2, <1>7, <2>1, <2>2 DEF InTime
<1>13. \A w : Hits(w)' = Hits(w) \cup (IF w = tick.obs.window THEN {n + 1} ELSE {})
  <2> SUFFICES ASSUME NEW w PROVE Hits(w)' = Hits(w) \cup (IF w = tick.obs.window THEN {n + 1} ELSE {})
    OBVIOUS
  <2>1. Hits(w)' = {i \in 1..n + 1 : tape'.ticks[i].tick.window = w} /\ Hits(w) = {i \in 1..n : tape.ticks[i].tick.window = w}
    BY <1>3, <1>7 DEF Hits
  <2>2. \A i \in 1..n : i \in 1..n + 1
    BY <1>3
  <2>3. n + 1 \in 1..n + 1 /\ tape'.ticks[n + 1].tick.window = tick.obs.window
    BY <1>3, <1>7, <1>8
  <2> QED
    BY <1>7, <1>10, <2>1, <2>2, <2>3
<1>14. tick.obs.window \in watch.torn /\ tape.windows[tick.obs.window] = tick.obs.up
  BY <1>1 DEF Taped, WithRows
<1>15. WithRows'
  <2>1. ASSUME NEW i \in 1..n + 1 PROVE tape'.windows[tape'.ticks[i].tick.window] # None
    BY <1>3, <1>5, <1>7, <1>8, <1>9, <1>10, <1>14 DEF Taped, WithRows
  <2>2. ASSUME NEW w \in Windows
        PROVE  IF w \in watch'.torn THEN tape'.windows[w] # None ELSE tape'.windows[w] # None => Hits(w)' # {}
    BY <1>5, <1>6, <1>13 DEF Taped, WithRows
  <2> QED
    BY <1>2, <1>7, <2>1, <2>2 DEF WithRows
<1>16. Priced'
  <2> SUFFICES ASSUME NEW w \in Windows \ watch'.torn, NEW i \in Hits(w)', \A j \in Hits(w)' : j <= i
               PROVE  tape'.windows[w] = tape'.ticks[i].tick.up
    BY DEF Priced
  <2>1. CASE w = tick.obs.window
    <3>1. n + 1 \in Hits(w)' /\ i \in Hits(w) \cup {n + 1} /\ n + 1 <= i
      BY <1>13, <2>1
    <3>2. \A k \in Hits(w) : k \in 1..n
      BY <1>3 DEF Hits
    <3>3. i = n + 1
      BY <1>3, <3>1, <3>2
    <3> QED
      BY <1>5, <1>7, <1>8, <1>14, <2>1, <3>3
  <2>2. CASE w # tick.obs.window
    <3>1. Hits(w)' = Hits(w) /\ w \in Windows \ watch.torn
      BY <1>6, <1>13, <2>2
    <3>2. i \in 1..n
      BY <1>3, <3>1 DEF Hits
    <3> QED
      BY <1>5, <1>7, <3>1, <3>2 DEF Taped, Priced
  <2> QED
    BY <2>1, <2>2
<1> QED
  BY <1>12, <1>15, <1>16 DEF Taped

LEMMA StaysTaped == Spec => [](Typed /\ Taped)
<1>1. Typed /\ Taped /\ [Next]_vars => Taped'
  BY BeginTaped, RecordWindowTaped, RecordTickTaped, TapeAlone, TapeStands
<1> QED
  BY <1>1, InitTaped, StaysTyped, PTL DEF Spec

-----------------------------------------------------------------------------
(* The replay.                                                             *)

\* The ticks of a window with a row are its hits, in their order.
LEMMA TicksListed ==
  ASSUME Typed, NEW w \in Windows, tape.windows[w] # None
  PROVE  /\ TicksOf(tape, w) \in Seq(Recorded) /\ Len(TicksOf(tape, w)) = Cardinality(Hits(w))
         /\ Cardinality(Hits(w)) \in Nat /\ DOMAIN TicksOf(tape, w) = 1..Cardinality(Hits(w))
         /\ Lists(Ascending(Hits(w)), Hits(w))
         /\ \A k \in 1..Cardinality(Hits(w)) : TicksOf(tape, w)[k] = tape.ticks[Ascending(Hits(w))[k]]
<1> DEFINE n == Len(tape.ticks)
<1>1. n \in Nat /\ Hits(w) \in SUBSET (1..n) /\ \A i \in Hits(w) : tape.ticks[i] \in Recorded
  BY TapeTicks DEF Hits
<1>2. TicksOf(tape, w) = Filtered(tape.ticks, Hits(w))
  BY DEF TicksOf, Hits
<1> HIDE DEF n
<1>3. Filtered(tape.ticks, Hits(w)) \in Seq(Recorded) /\ Len(Filtered(tape.ticks, Hits(w))) = Cardinality(Hits(w))
  BY <1>1, FilteredType
<1>4. /\ Cardinality(Hits(w)) \in Nat /\ DOMAIN Filtered(tape.ticks, Hits(w)) = 1..Cardinality(Hits(w))
      /\ Lists(Ascending(Hits(w)), Hits(w))
      /\ \A k \in 1..Cardinality(Hits(w)) : Filtered(tape.ticks, Hits(w))[k] = tape.ticks[Ascending(Hits(w))[k]]
  BY <1>1, FilteredLists
<1> QED
  BY <1>2, <1>3, <1>4

\* A tick that is read back at its own price, and away from the limit, brings the same signal.
LEMMA SameSignal ==
  ASSUME NEW r \in Recorded, tape.windows[r.tick.window] = r.tick.up, Remaining(r.tick) # EntryMinRemaining
  PROVE  Generate(ReadBack(tape, r)) = Generate(r.tick)
<1> DEFINE t == r.tick
           u == ReadBack(tape, r)
           l == t.left
           m == 2 * ((l + 1) \div 2)
<1>1. t \in Obs /\ l \in Int /\ EntryMinRemaining \in Int
  BY ObsNumbers, LimitsAssumption DEF Recorded
<1>2. t = [window |-> t.window, spot |-> t.spot, up |-> t.up, left |-> l]
  BY <1>1 DEF Obs
<1>3. u = [t EXCEPT !.up = t.up, !.left = m]
  BY DEF ReadBack
<1> HIDE DEF t, u
<1>4. u.spot = t.spot /\ u.up = t.up /\ u.left = m
  BY <1>2, <1>3
<1>5. \/ m \div 2 = l \div 2 \/ m \div 2 = (l \div 2) + 1
  BY <1>1
<1>6. Remaining(u) = Remaining(t) \/ Remaining(u) = Remaining(t) + 1
  BY <1>4, <1>5 DEF Remaining
<1>7. Remaining(t) \in Int
  BY <1>1 DEF Remaining
<1>8. Remaining(u) <= EntryMinRemaining <=> Remaining(t) <= EntryMinRemaining
  BY <1>1, <1>6, <1>7 DEF t
<1>9. EdgeOf(u) = EdgeOf(t)
  BY <1>4 DEF EdgeOf
<1>10. SideOf(u) = SideOf(t) /\ PriceOf(u.up, SideOf(u)) = PriceOf(t.up, SideOf(t))
  BY <1>4, <1>9 DEF SideOf
<1> QED
  BY <1>8, <1>9, <1>10 DEF Generate, t, u

LEMMA SignalType == \A t : Generate(t) \in Actions
BY DEF Generate, SideOf, Actions

LEMMA ReplayListed ==
  ASSUME Typed, NEW w \in Windows, tape.windows[w] # None
  PROVE  /\ ReplayWindow(tape, w) \in Seq(Actions) /\ Len(ReplayWindow(tape, w)) = Cardinality(Hits(w))
         /\ \A k \in 1..Cardinality(Hits(w)) : ReplayWindow(tape, w)[k] = Generate(ReadBack(tape, TicksOf(tape, w)[k]))
<1> DEFINE c == Cardinality(Hits(w))
           signals == ReplayWindow(tape, w)
<1>1. c \in Nat /\ DOMAIN TicksOf(tape, w) = 1..c
  BY TicksListed
<1>2. signals = [k \in 1..c |-> Generate(ReadBack(tape, TicksOf(tape, w)[k]))]
  BY <1>1 DEF ReplayWindow
<1> HIDE DEF c, signals
<1>3. signals \in [1..c -> Actions] /\ \A k \in 1..c : signals[k] = Generate(ReadBack(tape, TicksOf(tape, w)[k]))
  BY <1>2, SignalType
<1>4. signals \in Seq(Actions) /\ Len(signals) = c
  BY <1>1, <1>3, SeqDef, LenProperties
<1> QED
  BY <1>3, <1>4 DEF c, signals

LEMMA LastReplays == ASSUME Typed, Taped PROVE LastTickReplays
<1> SUFFICES ASSUME NEW w \in Windows \ watch.torn, TicksOf(tape, w) # <<>>,
                    Remaining(Last(TicksOf(tape, w)).tick) # EntryMinRemaining
             PROVE  Last(ReplayWindow(tape, w)) = Generate(Last(TicksOf(tape, w)).tick)
  BY DEF LastTickReplays
<1> DEFINE c == Cardinality(Hits(w))
           r == TicksOf(tape, w)[c]
           i == Ascending(Hits(w))[c]
<1>1. tape.windows[w] # None
  BY DEF TicksOf
<1>2. /\ TicksOf(tape, w) \in Seq(Recorded) /\ Len(TicksOf(tape, w)) = c /\ c \in Nat
      /\ Lists(Ascending(Hits(w)), Hits(w)) /\ \A k \in 1..c : TicksOf(tape, w)[k] = tape.ticks[Ascending(Hits(w))[k]]
  BY <1>1, TicksListed
<1>3. c # 0 /\ c \in 1..c
  BY <1>2, EmptySeq
<1>4. Hits(w) \in SUBSET Int
  BY TapeTicks DEF Hits
<1>5. i \in Hits(w) /\ \A j \in Hits(w) : j <= i
  BY <1>2, <1>3, <1>4, LastListed
<1>6. r = tape.ticks[i] /\ r \in Recorded /\ r.tick.window = w
  BY <1>2, <1>3, <1>5, TapeTicks DEF Hits
<1>7. tape.windows[w] = r.tick.up
  BY <1>5, <1>6 DEF Taped, Priced
<1>8. Last(TicksOf(tape, w)) = r
  BY <1>2 DEF Last
<1>9. Last(ReplayWindow(tape, w)) = Generate(ReadBack(tape, r))
  BY <1>1, <1>3, ReplayListed DEF Last
<1> HIDE DEF r
<1>10. Generate(ReadBack(tape, r)) = Generate(r.tick)
  BY <1>6, <1>7, <1>8, SameSignal
<1> QED
  BY <1>8, <1>9, <1>10

LEMMA CoverageAgrees == ASSUME Typed, Taped PROVE CoverageHonest
<1> DEFINE recorded == {w \in Windows : tape.windows[w] # None}
           replayed == {w \in recorded : TicksOf(tape, w) # <<>>}
           lengths  == [w \in replayed |-> Len(ReplayWindow(tape, w))]
           hits     == [w \in replayed |-> Hits(w)]
<1>1. DOMAIN tape.windows = Windows /\ DOMAIN tape.ticks = 1..Len(tape.ticks) /\ Len(tape.ticks) \in Nat
  BY TapeTicks
<1>2. ASSUME NEW w \in recorded PROVE TicksOf(tape, w) = <<>> <=> Hits(w) = {}
  <2>1. TicksOf(tape, w) \in Seq(Recorded) /\ Len(TicksOf(tape, w)) = Cardinality(Hits(w))
    BY TicksListed
  <2>2. IsFiniteSet(Hits(w))
    BY <1>1, PlacesAreFinite DEF Hits
  <2>3. Hits(w) = {} <=> Cardinality(Hits(w)) = 0
    BY <2>2, FS_EmptySet
  <2> QED
    BY <2>1, <2>3, EmptySeq
<1>3. \A w \in Windows : TicksOf(tape, w) = <<>> <=> w \notin replayed
  BY DEF TicksOf
<1>4. {w \in recorded : \A i \in DOMAIN tape.ticks : tape.ticks[i].tick.window # w} = recorded \ replayed
  BY <1>2 DEF Hits
<1>5. recorded \ replayed = {w \in watch.torn : TicksOf(tape, w) = <<>>}
  <2>1. watch.torn \in SUBSET Windows
    BY DEF Typed, Formal, Watches
  <2>2. \A w \in watch.torn : w \in recorded
    BY <2>1 DEF Taped, WithRows
  <2>3. \A w \in recorded : w \notin watch.torn => w \in replayed
    BY <1>2 DEF Taped, WithRows
  <2> QED
    BY <1>3, <2>1, <2>2, <2>3
<1>6. IsFiniteSet(Windows) /\ IsFiniteSet(DOMAIN tape.ticks) /\ Cardinality(DOMAIN tape.ticks) = Len(tape.ticks)
  BY <1>1, TimesType, FS_Interval DEF Windows
<1>7. SumFunctionOnSet(lengths, replayed) = Len(tape.ticks)
  <2>1. IsFiniteSet(replayed)
    BY <1>6, FS_Subset
  <2>2. \A w \in replayed : hits[w] = Hits(w) /\ hits[w] \in SUBSET DOMAIN tape.ticks /\ lengths[w] = Cardinality(hits[w])
    BY ReplayListed DEF Hits
  <2>3. \A v, w \in replayed : v # w => hits[v] \cap hits[w] = {}
    BY DEF Hits
  <2>4. \A i \in DOMAIN tape.ticks : \E w \in replayed : i \in hits[w]
    <3> SUFFICES ASSUME NEW i \in DOMAIN tape.ticks PROVE \E w \in replayed : i \in hits[w]
      OBVIOUS
    <3> DEFINE v == tape.ticks[i].tick.window
    <3>1. v \in Windows /\ tape.windows[v] # None
      BY TapeTicks, ObsNumbers DEF Taped, WithRows
    <3>2. i \in Hits(v)
      BY DEF Hits
    <3>3. v \in replayed
      BY <1>2, <3>1, <3>2
    <3> QED
      BY <3>2, <3>3
  <2>5. Joined(DOMAIN tape.ticks, replayed, hits) = DOMAIN tape.ticks
    BY <2>4 DEF Joined
  <2> HIDE DEF replayed, hits, lengths
  <2>6. SumFunctionOnSet(lengths, replayed) = Cardinality(Joined(DOMAIN tape.ticks, replayed, hits))
    <3>1. Parted(DOMAIN tape.ticks, replayed, hits)
      BY <2>2, <2>3 DEF Parted
    <3>2. \A w \in replayed : lengths[w] = Cardinality(hits[w])
      BY <2>2
    <3>3. IsFiniteSet(DOMAIN tape.ticks)
      BY <1>6
    <3> QED
      BY <2>1, <3>1, <3>2, <3>3, SumOfParts, Zenon
  <2> QED
    BY <1>6, <2>5, <2>6
<1>8. Coverage(tape) = [windows |-> Cardinality(recorded), ticks |-> Len(tape.ticks), bare |-> Cardinality(recorded \ replayed)]
  BY <1>1, <1>4 DEF Coverage
<1>9. ReplayCoverage(tape) = [windows |-> Cardinality(recorded), bare |-> Cardinality(recorded \ replayed),
                              ticks |-> SumFunctionOnSet(lengths, replayed)]
  BY <1>1 DEF ReplayCoverage
<1> HIDE DEF recorded, replayed, lengths
<1>10. ReplayCoverage(tape) = Coverage(tape)
  BY <1>7, <1>8, <1>9
<1>11. Coverage(tape).bare = Cardinality({w \in watch.torn : TicksOf(tape, w) = <<>>})
  <2>1. Coverage(tape).bare = Cardinality(recorded \ replayed)
    BY <1>8
  <2> QED
    BY <1>5, <2>1
<1> QED
  BY <1>10, <1>11 DEF CoverageHonest

-----------------------------------------------------------------------------
(* The backtest.                                                           *)

Entries == [tick : Sights, side : Sides, entry : Int, edge : Int]
Reasons == {"TIME", "TARGET", "STOP", "BAND_REENTRY"}
Trades  == [entered : Sights, left : Sights, reason : Reasons, pnl : Int]
RunType == [open : Entries \cup {None}, taken : Nat, trades : Seq(Trades)]

\* Every position taken is closed, or the one that is open; each in the window it was taken in, and
\* no earlier.
Rounded(trade) == trade.entered.window = trade.left.window /\ trade.entered.left >= trade.left.left
Sound(run) ==
    /\ run \in RunType
    /\ run.taken = Len(run.trades) + (IF run.open = None THEN 0 ELSE 1)
    /\ \A i \in DOMAIN run.trades : Rounded(run.trades[i])

\* What is open was taken in this window, and not after this tick.
Within(run, t) == run.open # None => run.open.tick.window = t.window /\ run.open.tick.left >= t.left

LEMMA EntryNumbers ==
  ASSUME NEW t \in Sights
  PROVE  t.window \in Int /\ t.spot \in Int /\ t.up \in Int /\ t.left \in Int /\ Remaining(t) \in Int /\ EdgeOf(t) \in Int
<1>1. t.window \in Int /\ t.spot \in Int /\ t.up \in Int /\ t.left \in Int
  BY DEF Sights
<1> QED
  BY <1>1 DEF Remaining, EdgeOf

\* What a close and an entry make of a run.
LEMMA ClosedType ==
  ASSUME NEW run \in RunType, NEW t \in Sights, NEW reason \in Reasons, run.open # None
  PROVE  LET new == Closed(run, reason, t)
         IN  /\ new \in RunType /\ new.open = None /\ new.taken = run.taken
             /\ \E trade \in Trades : /\ trade.entered = run.open.tick /\ trade.left = t
                                      /\ new.trades = Append(run.trades, trade)
<1> DEFINE open  == run.open
           pnl   == SpotPnl(open, t.spot)
           trade == [entered |-> open.tick, left |-> t, reason |-> reason, pnl |-> pnl]
           new   == Closed(run, reason, t)
           old   == run.trades
<1>1. open \in Entries /\ old \in Seq(Trades) /\ run.taken \in Nat
      /\ run = [open |-> run.open, taken |-> run.taken, trades |-> run.trades]
  BY DEF RunType
<1>2. open.tick \in Sights /\ open.entry \in Int
  BY <1>1 DEF Entries
<1>3. pnl \in Int
  BY <1>2, EntryNumbers DEF SpotPnl
<1>4. trade.entered = open.tick /\ trade.left = t /\ trade \in Trades
  <2> HIDE DEF pnl, open
  <2> QED
    BY <1>2, <1>3 DEF Trades
<1>5. new = [run EXCEPT !.trades = Append(old, trade), !.open = None]
  BY DEF Closed
<1> HIDE DEF trade, new
<1>6. new = [open |-> None, taken |-> run.taken, trades |-> Append(old, trade)]
  BY <1>1, <1>5
<1>7. Append(old, trade) \in Seq(Trades)
  BY <1>1, <1>4, AppendProperties
<1> QED
  BY <1>1, <1>4, <1>6, <1>7 DEF RunType, new

EntryOf(t) == [tick |-> t, side |-> Generate(t), entry |-> t.spot, edge |-> EdgeOf(t)]
Entered(run, t) == [run EXCEPT !.taken = @ + 1, !.open = EntryOf(t)]

LEMMA EntryType ==
  ASSUME NEW run \in RunType, NEW t \in Sights, Generate(t) # "SKIP"
  PROVE  /\ EntryOf(t) # None /\ EntryOf(t).tick = t
         /\ Entered(run, t) \in RunType /\ Entered(run, t).open = EntryOf(t)
         /\ Entered(run, t).taken = run.taken + 1 /\ Entered(run, t).trades = run.trades
<1>1. Generate(t) \in Sides
  BY DEF Generate, SideOf, Sides
<1>2. EntryOf(t) \in Entries /\ EntryOf(t).tick = t
  BY <1>1, EntryNumbers DEF Entries, EntryOf
<1>3. EntryOf(t) # None
  BY <1>2, NoneAssumption DEF Entries
<1> DEFINE entry == EntryOf(t)
           new == [run EXCEPT !.taken = run.taken + 1, !.open = entry]
<1>4. run.taken \in Nat /\ run.taken + 1 \in Nat /\ run.open \in Entries \cup {None} /\ run.trades \in Seq(Trades)
  BY DEF RunType
<1>5. entry \in Entries \cup {None}
  BY <1>2
<1> HIDE DEF entry
<1>6. new \in RunType /\ new.open = entry /\ new.taken = run.taken + 1 /\ new.trades = run.trades
  <2>1. \A a \in Nat, b \in Entries \cup {None} :
            LET e == [run EXCEPT !.taken = a, !.open = b]
            IN  e \in RunType /\ e.open = b /\ e.taken = a /\ e.trades = run.trades
    BY DEF RunType
  <2> QED
    BY <1>4, <1>5, <2>1
<1>7. Entered(run, t) = new
  BY DEF Entered, entry
<1> QED
  BY <1>2, <1>3, <1>6, <1>7 DEF entry

\* What a tick does with a run.
LEMMA TickCases ==
  ASSUME NEW t, NEW id, NEW unfilled, NEW run
  PROVE  LET new == BacktestTick(t, id, unfilled, run)
         IN  \/ \E reason \in Reasons : run.open # None /\ new = Closed(run, reason, t)
             \/ run.open = None /\ Generate(t) # "SKIP" /\ new = Entered(run, t)
             \/ new = run
<1>1. BacktestExit(run.open, t) # None => BacktestExit(run.open, t) \in Reasons
  BY DEF BacktestExit, Reasons
<1> QED
  BY <1>1 DEF BacktestTick, Entered, EntryOf

LEMMA TickType ==
  ASSUME NEW t \in Sights, NEW id, NEW unfilled, NEW run \in RunType
  PROVE  BacktestTick(t, id, unfilled, run) \in RunType
<1> DEFINE new == BacktestTick(t, id, unfilled, run)
<1>1. ASSUME NEW reason \in Reasons, run.open # None, new = Closed(run, reason, t) PROVE new \in RunType
  BY <1>1, ClosedType
<1>2. ASSUME Generate(t) # "SKIP", new = Entered(run, t) PROVE new \in RunType
  BY <1>2, EntryType
<1> QED
  BY <1>1, <1>2, TickCases

LEMMA ClosedSound ==
  ASSUME NEW run, Sound(run), NEW t \in Sights, NEW reason \in Reasons, run.open # None, Within(run, t)
  PROVE  Sound(Closed(run, reason, t)) /\ Closed(run, reason, t).open = None
<1> DEFINE new == Closed(run, reason, t)
           old == run.trades
<1>1. run \in RunType /\ old \in Seq(Trades) /\ run.taken = Len(old) + 1
  BY DEF Sound, RunType
<1>2. new \in RunType /\ new.open = None /\ new.taken = run.taken
  BY <1>1, ClosedType
<1>3. PICK trade \in Trades : trade.entered = run.open.tick /\ trade.left = t /\ new.trades = Append(old, trade)
  BY <1>1, ClosedType
<1>4. Rounded(trade)
  BY <1>3 DEF Rounded, Within
<1> HIDE DEF new
<1>5. /\ Append(old, trade) \in Seq(Trades) /\ Len(Append(old, trade)) = Len(old) + 1
      /\ Append(old, trade)[Len(old) + 1] = trade
      /\ \A i \in 1..Len(old) : Append(old, trade)[i] = old[i]
  BY <1>1, AppendProperties
<1>6. DOMAIN Append(old, trade) = 1..Len(old) + 1 /\ DOMAIN old = 1..Len(old) /\ Len(old) \in Nat
  BY <1>1, <1>5, LenProperties
<1>7. ASSUME NEW i \in 1..Len(old) + 1 PROVE Rounded(Append(old, trade)[i])
  <2>1. i \in 1..Len(old) \/ i = Len(old) + 1
    BY <1>6
  <2> QED
    BY <1>4, <1>5, <1>6, <2>1 DEF Sound
<1>8. new.taken = Len(new.trades) + (IF new.open = None THEN 0 ELSE 1)
  BY <1>1, <1>2, <1>3, <1>5
<1> QED
  BY <1>2, <1>3, <1>6, <1>7, <1>8 DEF Sound, new

LEMMA TickSound ==
  ASSUME NEW t \in Sights, NEW id, NEW unfilled, NEW run, Sound(run), Within(run, t)
  PROVE  Sound(BacktestTick(t, id, unfilled, run)) /\ Within(BacktestTick(t, id, unfilled, run), t)
<1> DEFINE new == BacktestTick(t, id, unfilled, run)
<1>1. ASSUME NEW reason \in Reasons, run.open # None, new = Closed(run, reason, t) PROVE Sound(new) /\ Within(new, t)
  BY <1>1, ClosedSound DEF Within
<1>2. ASSUME run.open = None, Generate(t) # "SKIP", new = Entered(run, t) PROVE Sound(new) /\ Within(new, t)
  <2> DEFINE entry == EntryOf(t)
  <2>1. run \in RunType /\ run.taken = Len(run.trades) /\ run.taken \in Nat
    BY <1>2 DEF Sound, RunType
  <2>2. /\ entry # None /\ entry.tick = t
        /\ new \in RunType /\ new.open = entry /\ new.taken = run.taken + 1 /\ new.trades = run.trades
    BY <1>2, <2>1, EntryType
  <2> HIDE DEF entry, new
  <2>3. Sound(new)
    BY <2>1, <2>2 DEF Sound
  <2>4. Within(new, t)
    BY <2>2, EntryNumbers DEF Within
  <2> QED
    BY <2>3, <2>4
<1> QED
  BY <1>1, <1>2, TickCases

\* The fold over the ticks of a window.
Ticking(g, tape0, rows, unfilled, run) ==
    g = [s \in SUBSET DOMAIN rows |->
            IF s = {} THEN run
            ELSE BacktestTick(ReadBack(tape0, rows[Max(s)]), rows[Max(s)].id, unfilled, g[s \ {Max(s)}])]

LEMMA TicksAreFold ==
  ASSUME NEW tape0, NEW w, NEW unfilled, NEW run
  PROVE  BacktestTicks(tape0, w, unfilled, run)
         = (CHOOSE g : Ticking(g, tape0, TicksOf(tape0, w), unfilled, run))[DOMAIN TicksOf(tape0, w)]
  BY DEF BacktestTicks, FoldLeft, MapThenFoldSet, Ticking

\* Rows of one window, none later in it than the next.
Series(rows, tape0) ==
    /\ Len(rows) \in Nat /\ DOMAIN rows = 1..Len(rows)
    /\ \A i \in 1..Len(rows) : ReadBack(tape0, rows[i]) \in Sights
    /\ \A i, j \in 1..Len(rows) : i <= j =>
        /\ ReadBack(tape0, rows[i]).window = ReadBack(tape0, rows[j]).window
        /\ ReadBack(tape0, rows[i]).left >= ReadBack(tape0, rows[j]).left

LEMMA WithinOn ==
  ASSUME NEW run, NEW t \in Sights, NEW u \in Sights, Sound(run), Within(run, t),
         t.window = u.window, t.left >= u.left
  PROVE  Within(run, u)
<1> SUFFICES ASSUME run.open # None PROVE run.open.tick.window = u.window /\ run.open.tick.left >= u.left
  BY DEF Within
<1>1. run.open \in Entries
  BY DEF Sound, RunType
<1>2. run.open.tick \in Sights
  BY <1>1 DEF Entries
<1>3. run.open.tick.left \in Int /\ t.left \in Int /\ u.left \in Int
  BY <1>2, EntryNumbers
<1> QED
  BY <1>3 DEF Within

\* Over any such rows, a sound run with nothing open stays sound, and what is open at the end was taken
\* there.
LEMMA TicksSound ==
  ASSUME NEW tape0, NEW rows, Series(rows, tape0), NEW unfilled, NEW run, Sound(run), run.open = None
  PROVE  LET after == (CHOOSE g : Ticking(g, tape0, rows, unfilled, run))[DOMAIN rows]
         IN  Sound(after) /\ (rows # <<>> => Within(after, ReadBack(tape0, rows[Len(rows)])))
                          /\ (Len(rows) = 0 => after = run)
<1> DEFINE n == Len(rows)
           S == 1..n
           seen(i) == ReadBack(tape0, rows[i])
           tock(i, acc) == BacktestTick(seen(i), rows[i].id, unfilled, acc)
           step == [i \in S |-> [acc \in RunType |-> tock(i, acc)]]
           g == CHOOSE h : Ticking(h, tape0, rows, unfilled, run)
<1>1. /\ n \in Nat /\ DOMAIN rows = S /\ \A i \in S : seen(i) \in Sights
      /\ \A i, j \in S : i <= j => seen(i).window = seen(j).window /\ seen(i).left >= seen(j).left
  BY DEF Series
<1>2. run \in RunType
  BY DEF Sound
<1>3. \A i \in S : \A acc \in RunType : tock(i, acc) \in RunType
  BY <1>1, TickType
<1>4. \A i \in S : \A acc : Sound(acc) /\ Within(acc, seen(i)) => Sound(tock(i, acc)) /\ Within(tock(i, acc), seen(i))
  BY <1>1, TickSound
<1>5. \A i \in S : \A acc : Sound(acc) /\ i - 1 \in S /\ Within(acc, seen(i - 1)) => Within(acc, seen(i))
  <2> SUFFICES ASSUME NEW i \in S, NEW acc, Sound(acc), i - 1 \in S, Within(acc, seen(i - 1)) PROVE Within(acc, seen(i))
    OBVIOUS
  <2>1. seen(i - 1).window = seen(i).window /\ seen(i - 1).left >= seen(i).left
    BY <1>1
  <2> HIDE DEF seen
  <2> QED
    BY <1>1, <2>1, WithinOn
<1> HIDE DEF seen
<1>6. \A h : Ticking(h, tape0, rows, unfilled, run)
             <=> h = [s \in SUBSET S |-> IF s = {} THEN run ELSE tock(Max(s), h[s \ {Max(s)}])]
  BY <1>1 DEF Ticking, seen
<1> HIDE DEF tock
<1>7. step \in [S -> [RunType -> RunType]] /\ \A i \in S : \A acc \in RunType : step[i][acc] = tock(i, acc)
  BY <1>3
<1> HIDE DEF step
<1>8. Walked(RunType, run, step, S)
  BY <1>1, <1>2, <1>7, WalkExists, Zenon
<1>9. PICK h \in [SUBSET S -> RunType] : Walks(h, run, step, S)
  BY <1>8 DEF Walked
<1>10. Ticking(h, tape0, rows, unfilled, run)
  <2>1. ASSUME NEW s \in SUBSET S PROVE h[s] = IF s = {} THEN run ELSE tock(Max(s), h[s \ {Max(s)}])
    <3>1. h[s] = IF s = {} THEN run ELSE step[Max(s)][h[s \ {Max(s)}]]
      BY <1>9 DEF Walks
    <3>2. s # {} => Max(s) \in S /\ h[s \ {Max(s)}] \in RunType
      BY <1>1, LatestIn
    <3> QED
      BY <1>7, <3>1, <3>2
  <2>2. h = [s \in SUBSET S |-> h[s]]
    OBVIOUS
  <2> QED
    BY <1>6, <2>1, <2>2
<1>11. Ticking(g, tape0, rows, unfilled, run)
  BY <1>10
<1> HIDE DEF g
<1>12. g[{}] = run /\ \A i \in S : g[1..i] = tock(i, g[1..i - 1])
  <2>1. g = [s \in SUBSET S |-> IF s = {} THEN run ELSE tock(Max(s), g[s \ {Max(s)}])]
    BY <1>6, <1>11
  <2>2. ASSUME NEW i \in S PROVE g[1..i] = tock(i, g[1..i - 1])
    <3>1. Max(1..i) = i /\ (1..i) \ {i} = 1..i - 1 /\ 1..i \in SUBSET S /\ 1..i # {}
      BY <1>1, LastOfFirst
    <3> QED
      BY <2>1, <3>1
  <2> QED
    BY <2>1, <2>2
<1> DEFINE T == {i \in 0..n : Sound(g[1..i]) /\ IF i = 0 THEN g[1..i] = run ELSE Within(g[1..i], seen(i))}
<1>13. 1..0 = {} /\ 0 \in 0..n
  BY <1>1
<1>14. 0 \in T
  BY <1>12, <1>13
<1>15. ASSUME NEW i \in S, i - 1 \in T PROVE i \in T
  <2>1. Sound(g[1..i - 1]) /\ i \in 0..n /\ i # 0
    BY <1>1, <1>15
  <2>2. Within(g[1..i - 1], seen(i))
    <3>1. CASE i - 1 = 0
      BY <1>15, <3>1 DEF Within
    <3>2. CASE i - 1 # 0
      <4>1. i - 1 \in S
        BY <1>1, <3>2
      <4>2. Within(g[1..i - 1], seen(i - 1))
        BY <1>15, <3>2
      <4> QED
        BY <1>5, <2>1, <4>1, <4>2
    <3> QED
      BY <3>1, <3>2
  <2>3. Sound(g[1..i]) /\ Within(g[1..i], seen(i))
    BY <1>4, <1>12, <2>1, <2>2 DEF tock
  <2> QED
    BY <2>1, <2>3
<1>16. n \in T
  <2> HIDE DEF T
  <2> QED
    BY <1>1, <1>14, <1>15, Stepwise
<1>17. rows # <<>> => n # 0
  <2>1. n = 0 => DOMAIN rows = {}
    BY <1>1
  <2> QED
    BY <1>1, <2>1
<1>18. g[DOMAIN rows] = g[1..n]
  BY <1>1
<1> QED
  BY <1>16, <1>17, <1>18 DEF g, seen

LEMMA TicksInSeries ==
  ASSUME Typed, Taped, NEW w \in Windows, tape.windows[w] # None
  PROVE  Series(TicksOf(tape, w), tape)
<1> DEFINE rows == TicksOf(tape, w)
           at == Ascending(Hits(w))
           c == Cardinality(Hits(w))
<1>1. /\ Len(rows) = c /\ c \in Nat /\ DOMAIN rows = 1..c
      /\ Lists(at, Hits(w)) /\ \A k \in 1..c : rows[k] = tape.ticks[at[k]]
  BY TicksListed
<1> HIDE DEF rows, at, c
<1>2. \A i, j \in 1..c : at[i] \in Hits(w) /\ (i < j => at[i] < at[j])
  BY <1>1 DEF Lists, c
<1>3. ASSUME NEW i \in 1..c
      PROVE  /\ rows[i] \in Recorded /\ rows[i].tick \in Obs /\ rows[i].tick.window = w
             /\ ReadBack(tape, rows[i]) \in Sights /\ ReadBack(tape, rows[i]).window = w
             /\ ReadBack(tape, rows[i]).left = 2 * ((rows[i].tick.left + 1) \div 2)
  <2> DEFINE t == rows[i].tick
             u == ReadBack(tape, rows[i])
             m == 2 * ((t.left + 1) \div 2)
             price == tape.windows[w]
  <2>1. rows[i] \in Recorded /\ t \in Obs /\ t.window = w
    BY <1>1, <1>2, TapeTicks DEF Hits
  <2>2. price \in 1..Par
    BY TapeTicks
  <2>3. t = [window |-> t.window, spot |-> t.spot, up |-> t.up, left |-> t.left] /\ t.spot \in 1..Par
    BY <2>1 DEF Obs
  <2>4. t.left \in Int /\ w \in Int
    BY <2>1, ObsNumbers
  <2>5. m \in Int
    BY <2>4
  <2>6. u = [t EXCEPT !.up = price, !.left = m]
    BY <2>1 DEF ReadBack
  <2> HIDE DEF t, u, m, price
  <2>7. u = [window |-> w, spot |-> t.spot, up |-> price, left |-> m]
    BY <2>1, <2>3, <2>6
  <2>8. u \in Sights
    BY <2>2, <2>3, <2>4, <2>5, <2>7 DEF Sights, Par
  <2> QED
    BY <2>1, <2>7, <2>8 DEF t, u, m
<1>4. ASSUME NEW i \in 1..c, NEW j \in 1..c, i <= j PROVE rows[i].tick.left >= rows[j].tick.left
  <2>1. rows[i].tick.left \in Int /\ rows[j].tick.left \in Int
    BY <1>3, ObsNumbers
  <2>2. CASE i = j
    BY <2>1, <2>2
  <2>3. CASE i # j
    <3>1. i < j
      BY <1>4, <2>3
    <3>2. at[i] < at[j] /\ at[i] \in Hits(w) /\ at[j] \in Hits(w)
      BY <1>2, <3>1
    <3>3. tape.ticks[at[i]].tick.left >= tape.ticks[at[j]].tick.left
      BY <3>2 DEF Hits, Taped, InTime
    <3> QED
      BY <1>1, <3>3
  <2> QED
    BY <2>2, <2>3
<1>5. ASSUME NEW i \in 1..c, NEW j \in 1..c, i <= j
      PROVE  ReadBack(tape, rows[i]).left >= ReadBack(tape, rows[j]).left
  <2> DEFINE a == rows[i].tick.left
             b == rows[j].tick.left
  <2>1. a \in Int /\ b \in Int /\ a >= b
    BY <1>3, <1>4, <1>5, ObsNumbers
  <2>2. ReadBack(tape, rows[i]).left = 2 * ((a + 1) \div 2) /\ ReadBack(tape, rows[j]).left = 2 * ((b + 1) \div 2)
    BY <1>3
  <2> HIDE DEF a, b
  <2>3. 2 * ((a + 1) \div 2) >= 2 * ((b + 1) \div 2)
    BY <2>1
  <2> QED
    BY <2>2, <2>3
<1>6. Series(rows, tape)
  BY <1>1, <1>3, <1>5 DEF Series
<1> QED
  BY <1>6 DEF rows

\* A run between two windows.
Resting == {run \in RunType : Sound(run) /\ run.open = None}

LEMMA WindowRests ==
  ASSUME Typed, Taped, NEW w \in Windows, tape.windows[w] # None, NEW unfilled, NEW run \in Resting
  PROVE  BacktestWindow(tape, w, unfilled, run) \in Resting
<1> DEFINE rows == TicksOf(tape, w)
           after == BacktestTicks(tape, w, unfilled, run)
           final == ReadBack(tape, rows[Len(rows)])
<1>1. Series(rows, tape) /\ rows \in Seq(Recorded)
  BY TicksInSeries, TicksListed
<1>2. Sound(run) /\ run.open = None
  BY DEF Resting
<1>3. after = (CHOOSE g : Ticking(g, tape, rows, unfilled, run))[DOMAIN rows]
  BY TicksAreFold
<1> HIDE DEF rows, after
<1>4. Sound(after) /\ (rows # <<>> => Within(after, final)) /\ (Len(rows) = 0 => after = run)
  <2> HIDE DEF final
  <2> QED
    BY <1>1, <1>2, <1>3, TicksSound DEF final
<1>5. BacktestWindow(tape, w, unfilled, run) = IF after.open = None THEN after ELSE Closed(after, "TIME", final)
  BY DEF BacktestWindow, Last, rows, after
<1>6. CASE after.open = None
  BY <1>4, <1>5, <1>6 DEF Resting, Sound
<1>7. CASE after.open # None
  <2>1. rows # <<>>
    BY <1>2, <1>4, <1>7
  <2>2. Len(rows) \in 1..Len(rows)
    BY <1>1, <2>1, EmptySeq
  <2>3. final \in Sights /\ Within(after, final)
    BY <1>1, <1>4, <2>1, <2>2 DEF Series
  <2>4. "TIME" \in Reasons
    BY DEF Reasons
  <2> HIDE DEF final
  <2>5. Sound(Closed(after, "TIME", final)) /\ Closed(after, "TIME", final).open = None
    BY <1>4, <1>7, <2>3, <2>4, ClosedSound
  <2> QED
    BY <1>5, <1>7, <2>5 DEF Resting, Sound
<1> QED
  BY <1>6, <1>7

Touring(g, tape0, listed, unfilled) ==
    g = [s \in SUBSET DOMAIN listed |->
            IF s = {} THEN [open |-> None, taken |-> 0, trades |-> <<>>]
            ELSE BacktestWindow(tape0, listed[Max(s)], unfilled, g[s \ {Max(s)}])]

LEMMA BacktestIsFold ==
  ASSUME NEW tape0, NEW unfilled
  PROVE  LET listed == Ascending({w \in DOMAIN tape0.windows : tape0.windows[w] # None})
         IN  Backtest(tape0, unfilled) = (CHOOSE g : Touring(g, tape0, listed, unfilled))[DOMAIN listed]
  BY DEF Backtest, FoldLeft, MapThenFoldSet, Touring

LEMMA BlankRun == [open |-> None, taken |-> 0, trades |-> <<>>] \in Resting
<1> DEFINE run == [open |-> None, taken |-> 0, trades |-> <<>>]
<1>1. <<>> \in Seq(Trades) /\ Len(<<>>) = 0
  BY EmptySeq
<1>2. run \in RunType /\ run.open = None /\ run.taken = 0 /\ run.trades = <<>>
  BY <1>1 DEF RunType
<1> HIDE DEF run
<1>3. \A i \in DOMAIN run.trades : Rounded(run.trades[i])
  BY <1>2
<1>4. run.taken = Len(run.trades) + (IF run.open = None THEN 0 ELSE 1)
  <2>1. Len(run.trades) = 0
    BY <1>1, <1>2
  <2> QED
    BY <1>2, <2>1
<1>5. run \in Resting
  BY <1>2, <1>3, <1>4 DEF Resting, Sound
<1> QED
  BY <1>5 DEF run

LEMMA BacktestRests ==
  ASSUME Typed, Taped, NEW unfilled
  PROVE  Backtest(tape, unfilled) \in Resting
<1> DEFINE recorded == {w \in Windows : tape.windows[w] # None}
           listed == Ascending(recorded)
           n == Cardinality(recorded)
           S == 1..n
           blank == [open |-> None, taken |-> 0, trades |-> <<>>]
           step == [i \in S |-> [acc \in Resting |-> BacktestWindow(tape, listed[i], unfilled, acc)]]
           g == CHOOSE h : Touring(h, tape, listed, unfilled)
<1>1. DOMAIN tape.windows = Windows
  BY TapeTicks
<1>2. Backtest(tape, unfilled) = g[DOMAIN listed]
  BY <1>1, BacktestIsFold
<1>3. Lists(listed, recorded)
  BY TimesType, AscendingLists DEF Windows
<1> HIDE DEF listed
<1>4. n \in Nat /\ DOMAIN listed = S /\ \A i \in S : listed[i] \in recorded
  BY <1>3 DEF Lists
<1>5. \A i \in S : \A acc \in Resting : BacktestWindow(tape, listed[i], unfilled, acc) \in Resting
  BY <1>4, WindowRests
<1>6. step \in [S -> [Resting -> Resting]]
      /\ \A i \in S : \A acc \in Resting : step[i][acc] = BacktestWindow(tape, listed[i], unfilled, acc)
  BY <1>5
<1>7. blank \in Resting
  BY BlankRun
<1> HIDE DEF step, blank, n
<1>8. Walked(Resting, blank, step, S)
  <2>1. S \in SUBSET (1..n)
    OBVIOUS
  <2> QED
    BY <1>4, <1>6, <1>7, <2>1, WalkExists, Zenon
<1>9. PICK h \in [SUBSET S -> Resting] : Walks(h, blank, step, S)
  BY <1>8 DEF Walked
<1>10. ASSUME NEW s \in SUBSET S, s # {} PROVE Max(s) \in S /\ Max(s) \in s
  BY <1>4, <1>10, LatestIn
<1>11. Touring(h, tape, listed, unfilled)
  <2>1. ASSUME NEW s \in SUBSET S
        PROVE  h[s] = IF s = {} THEN blank ELSE BacktestWindow(tape, listed[Max(s)], unfilled, h[s \ {Max(s)}])
    <3>1. h[s] = IF s = {} THEN blank ELSE step[Max(s)][h[s \ {Max(s)}]]
      BY <1>9 DEF Walks
    <3>2. s # {} => Max(s) \in S /\ h[s \ {Max(s)}] \in Resting
      BY <1>10
    <3> QED
      BY <1>6, <3>1, <3>2
  <2>2. h = [s \in SUBSET S |-> h[s]]
    OBVIOUS
  <2> QED
    BY <1>4, <2>1, <2>2 DEF Touring, blank
<1>12. Touring(g, tape, listed, unfilled)
  BY <1>11
<1> HIDE DEF g
<1>13. \A s \in SUBSET S : g[s] = IF s = {} THEN blank ELSE BacktestWindow(tape, listed[Max(s)], unfilled, g[s \ {Max(s)}])
  BY <1>4, <1>12 DEF Touring, blank
<1> DEFINE Good == {s \in SUBSET S : g[s] \in Resting}
<1>14. ASSUME NEW s \in SUBSET S, \A x \in s : s \ {x} \in Good PROVE s \in Good
  <2>1. s # {} => Max(s) \in S /\ g[s \ {Max(s)}] \in Resting
    BY <1>10, <1>14
  <2>2. CASE s = {}
    BY <1>7, <1>13, <2>2
  <2>3. CASE s # {}
    <3>1. g[s] = BacktestWindow(tape, listed[Max(s)], unfilled, g[s \ {Max(s)}])
      BY <1>13, <2>3
    <3>2. g[s] \in Resting
      BY <1>5, <2>1, <2>3, <3>1
    <3> QED
      BY <3>2
  <2> QED
    BY <2>2, <2>3
<1>15. S \in Good
  <2>1. IsFiniteSet(S)
    BY <1>4, FS_Interval
  <2> HIDE DEF Good
  <2> QED
    BY <1>14, <2>1, SubsetInduction
<1> QED
  BY <1>2, <1>4, <1>15

-----------------------------------------------------------------------------
(* The result of a backtest.                                               *)

Accounts == {m \in [sum : Int, peak : Int, drawdown : Int] : m.peak >= 0 /\ m.drawdown >= 0 /\ m.drawdown >= m.peak - m.sum}
Booking(m, t) ==
    LET sum == m.sum + t.pnl
        peak == IF sum > m.peak THEN sum ELSE m.peak
    IN  [sum |-> sum, peak |-> peak,
         drawdown |-> IF peak - sum > m.drawdown THEN peak - sum ELSE m.drawdown]
Flat == [sum |-> 0, peak |-> 0, drawdown |-> 0]

Tallying(g, trades) == g = [s \in SUBSET DOMAIN trades |-> IF s = {} THEN Flat ELSE Booking(g[s \ {Max(s)}], trades[Max(s)])]
Equity(trades) == (CHOOSE g : Tallying(g, trades))[DOMAIN trades]

LEMMA ResultIs ==
  ASSUME NEW run
  PROVE  /\ Result(run).pnl = Equity(run.trades).sum /\ Result(run).drawdown = Equity(run.trades).drawdown
         /\ Result(run).wins = Cardinality({i \in DOMAIN run.trades : run.trades[i].pnl > 0})
         /\ Result(run).losses = Len(run.trades) - Result(run).wins
         /\ Result(run).traded = Cardinality({run.trades[i].entered.window : i \in DOMAIN run.trades})
  BY DEF Result, Equity, FoldLeft, MapThenFoldSet, Tallying, Booking, Flat

\* What holds of the empty account and is kept by every trade holds of the result.
LEMMA EquityIn ==
  ASSUME NEW n \in Nat, NEW trades, DOMAIN trades = 1..n, NEW V, Flat \in V,
         \A i \in 1..n : \A m \in V : Booking(m, trades[i]) \in V
  PROVE  Equity(trades) \in V
<1> DEFINE S == 1..n
           step == [i \in S |-> [m \in V |-> Booking(m, trades[i])]]
           g == CHOOSE h : Tallying(h, trades)
<1>1. step \in [S -> [V -> V]] /\ \A i \in S : \A m \in V : step[i][m] = Booking(m, trades[i])
  OBVIOUS
<1> HIDE DEF step
<1>2. Walked(V, Flat, step, S)
  <2>1. S \in SUBSET (1..n)
    OBVIOUS
  <2> QED
    BY <1>1, <2>1, WalkExists, Zenon
<1>3. PICK h \in [SUBSET S -> V] : Walks(h, Flat, step, S)
  BY <1>2 DEF Walked
<1>4. ASSUME NEW s \in SUBSET S, s # {} PROVE Max(s) \in S /\ Max(s) \in s
  BY <1>4, LatestIn
<1>5. Tallying(h, trades)
  <2>1. ASSUME NEW s \in SUBSET S PROVE h[s] = IF s = {} THEN Flat ELSE Booking(h[s \ {Max(s)}], trades[Max(s)])
    <3>1. h[s] = IF s = {} THEN Flat ELSE step[Max(s)][h[s \ {Max(s)}]]
      BY <1>3 DEF Walks
    <3>2. s # {} => Max(s) \in S /\ h[s \ {Max(s)}] \in V
      BY <1>4
    <3> QED
      BY <1>1, <3>1, <3>2
  <2>2. h = [s \in SUBSET S |-> h[s]]
    OBVIOUS
  <2> QED
    BY <2>1, <2>2 DEF Tallying
<1>6. Tallying(g, trades)
  BY <1>5
<1> HIDE DEF g
<1>7. \A s \in SUBSET S : g[s] = IF s = {} THEN Flat ELSE Booking(g[s \ {Max(s)}], trades[Max(s)])
  BY <1>6 DEF Tallying
<1> DEFINE Good == {s \in SUBSET S : g[s] \in V}
<1>8. ASSUME NEW s \in SUBSET S, \A x \in s : s \ {x} \in Good PROVE s \in Good
  <2>1. s # {} => Max(s) \in S /\ g[s \ {Max(s)}] \in V
    BY <1>4, <1>8
  <2>2. CASE s = {}
    BY <1>7, <2>2
  <2>3. CASE s # {}
    <3>1. g[s] = Booking(g[s \ {Max(s)}], trades[Max(s)])
      BY <1>7, <2>3
    <3> QED
      BY <2>1, <2>3, <3>1
  <2> QED
    BY <2>2, <2>3
<1>9. S \in Good
  <2>1. IsFiniteSet(S)
    BY FS_Interval
  <2> HIDE DEF Good
  <2> QED
    BY <1>8, <2>1, SubsetInduction
<1> QED
  BY <1>9 DEF Equity, g

LEMMA BookingKeeps ==
  ASSUME NEW m \in Accounts, NEW t \in Trades
  PROVE  /\ Booking(m, t) \in Accounts
         /\ (t.pnl > 0 /\ m.peak = m.sum /\ m.drawdown = 0) => Booking(m, t).peak = Booking(m, t).sum /\ Booking(m, t).drawdown = 0
<1> DEFINE sum == m.sum + t.pnl
           peak == IF sum > m.peak THEN sum ELSE m.peak
           drawdown == IF peak - sum > m.drawdown THEN peak - sum ELSE m.drawdown
<1>1. m.sum \in Int /\ m.peak \in Int /\ m.drawdown \in Int /\ t.pnl \in Int /\ m.peak >= 0 /\ m.drawdown >= 0
  BY DEF Accounts, Trades
<1>2. sum \in Int /\ peak \in Int /\ drawdown \in Int /\ peak >= 0 /\ drawdown >= 0 /\ drawdown >= peak - sum
  BY <1>1
<1>3. (t.pnl > 0 /\ m.peak = m.sum /\ m.drawdown = 0) => peak = sum /\ drawdown = 0
  BY <1>1
<1>4. Booking(m, t) = [sum |-> sum, peak |-> peak, drawdown |-> drawdown]
  BY DEF Booking
<1> HIDE DEF sum, peak, drawdown
<1> QED
  BY <1>2, <1>3, <1>4 DEF Accounts

LEMMA FlatAccount == Flat \in Accounts /\ Flat.peak = Flat.sum /\ Flat.drawdown = 0
  BY DEF Flat, Accounts

LEMMA ResultSound ==
  ASSUME NEW run \in RunType
  PROVE  /\ Result(run).wins + Result(run).losses = Len(run.trades) /\ Result(run).traded <= Len(run.trades)
         /\ Result(run).drawdown >= -Result(run).pnl /\ (Result(run).losses = 0 => Result(run).drawdown = 0)
<1> DEFINE trades == run.trades
           n == Len(trades)
           won == {i \in 1..n : trades[i].pnl > 0}
           e == Equity(trades)
<1>1. n \in Nat /\ DOMAIN trades = 1..n /\ \A i \in 1..n : trades[i] \in Trades
  BY LenProperties, ElementOfSeq DEF RunType
<1>2. /\ Result(run).pnl = e.sum /\ Result(run).drawdown = e.drawdown
      /\ Result(run).wins = Cardinality(won) /\ Result(run).losses = n - Cardinality(won)
      /\ Result(run).traded = Cardinality({trades[i].entered.window : i \in 1..n})
  BY <1>1, ResultIs
<1>3. IsFiniteSet(1..n) /\ Cardinality(1..n) = n
  BY <1>1, FS_Interval
<1>4. Cardinality(won) \in Nat
  BY <1>1, PlacesAreFinite
<1>5. Cardinality({trades[i].entered.window : i \in 1..n}) <= n
  <2> DEFINE T == {trades[i].entered.window : i \in 1..n}
             f == [i \in 1..n |-> trades[i].entered.window]
  <2>1. f \in Surjection(1..n, T)
    BY DEF Surjection
  <2> HIDE DEF T, f
  <2>2. Cardinality(T) <= Cardinality(1..n)
    BY <1>3, <2>1, FS_Surjection
  <2> QED
    BY <1>3, <2>2 DEF T
<1> HIDE DEF trades, won
<1>6. e \in Accounts
  <2>1. \A i \in 1..n : \A m \in Accounts : Booking(m, trades[i]) \in Accounts
    BY <1>1, BookingKeeps
  <2> QED
    BY <1>1, <2>1, FlatAccount, EquityIn
<1>7. e.drawdown >= -e.sum
  <2>1. e.sum \in Int /\ e.peak \in Int /\ e.drawdown \in Int /\ e.peak >= 0 /\ e.drawdown >= e.peak - e.sum
    BY <1>6 DEF Accounts
  <2> HIDE DEF e
  <2> QED
    BY <2>1
<1>8. ASSUME n - Cardinality(won) = 0 PROVE e.drawdown = 0
  <2> DEFINE V == {m \in Accounts : m.peak = m.sum /\ m.drawdown = 0}
  <2>1. won = 1..n
    <3>1. won \in SUBSET (1..n)
      BY DEF won
    <3>2. Cardinality(won) = Cardinality(1..n)
      BY <1>1, <1>3, <1>4, <1>8
    <3> QED
      BY <1>3, <3>1, <3>2, FS_Subset
  <2>2. \A i \in 1..n : \A m \in V : Booking(m, trades[i]) \in V
    <3>1. \A i \in 1..n : trades[i].pnl > 0
      BY <2>1 DEF won
    <3> QED
      BY <1>1, <3>1, BookingKeeps
  <2>3. Flat \in V
    BY FlatAccount
  <2>4. e \in V
    <3> HIDE DEF V
    <3> QED
      BY <1>1, <2>2, <2>3, EquityIn
  <2> QED
    BY <2>4
<1> HIDE DEF e, n
<1>9. Cardinality(won) + (n - Cardinality(won)) = n
  BY <1>1, <1>4
<1> QED
  BY <1>2, <1>5, <1>7, <1>8, <1>9 DEF n, trades

LEMMA BacktestHolds == ASSUME Typed, Taped PROVE BacktestCloses
<1> SUFFICES ASSUME NEW unfilled
             PROVE  LET run == Backtest(tape, unfilled)
                        result == Result(run)
                    IN  /\ result.wins + result.losses = run.taken /\ result.traded <= run.taken
                        /\ result.drawdown >= -result.pnl /\ (result.losses = 0 => result.drawdown = 0)
                        /\ run.open = None /\ Len(run.trades) = run.taken
                        /\ \A i \in DOMAIN run.trades :
                            /\ run.trades[i].entered.window = run.trades[i].left.window
                            /\ run.trades[i].entered.left >= run.trades[i].left.left
  BY DEF BacktestCloses
<1> DEFINE run == Backtest(tape, unfilled)
<1>1. run \in RunType /\ Sound(run) /\ run.open = None
  BY BacktestRests DEF Resting
<1> HIDE DEF run
<1>2. run.taken = Len(run.trades)
  <2>1. run.taken = Len(run.trades) + 0 /\ run.trades \in Seq(Trades)
    BY <1>1 DEF Sound, RunType
  <2>2. Len(run.trades) \in Nat
    BY <2>1, LenProperties
  <2> QED
    BY <2>1, <2>2
<1>3. \A i \in DOMAIN run.trades : /\ run.trades[i].entered.window = run.trades[i].left.window
                                   /\ run.trades[i].entered.left >= run.trades[i].left.left
  BY <1>1 DEF Sound, Rounded
<1> QED
  BY <1>1, <1>2, <1>3, ResultSound DEF run

\* Whatever died or failed, and whatever the desk recorded: the last tick of a window replays to the
\* signal the desk traded on; a backtest of the tape closes every position it takes, in the window it
\* was taken in, whichever entries friction drops, and its result counts them and shows no drawdown
\* smaller than the loss; and both coverage reports agree on what was recorded
\* (storage/replay.py:51-96, 123-141; backtest/harness.py:99-238; storage/recorder.py:285-316).
THEOREM TapeAlwaysReplays == Spec => []TapeReplays
<1>1. Typed /\ Taped => TapeReplays
  BY LastReplays, BacktestHolds, CoverageAgrees DEF TapeReplays
<1> QED
  BY <1>1, StaysTaped, PTL
=============================================================================
