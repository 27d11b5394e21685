---------------------------- MODULE TuningProofs ----------------------------
(***************************************************************************)
(* What is proved of Tuning: the feed's series is the exchange's, the      *)
(* control of the shadow race is the loop's decision, a calibrator keeps   *)
(* its order and is the least-squares fit, and a proposal keeps its        *)
(* promises.                                                               *)
(***************************************************************************)
EXTENDS Tuning, DataLemmas

-----------------------------------------------------------------------------
(* The feed.                                                               *)

Point == [ts : 1..Len(Prices), value : Int]

\* Points in the order of time with the exchange's prices, of which the feed keeps so many.
InOrder(series) ==
    /\ series \in Seq(Point) /\ Len(series) <= MaxPoints
    /\ \A i \in DOMAIN series : series[i].value = Prices[series[i].ts]
    /\ \A i, j \in DOMAIN series : i < j => series[i].ts < series[j].ts

\* What a series may become: one in order whose latest point is not earlier.
Later(series) == {s \in Seq(Point) : InOrder(s) /\ (series # <<>> => s # <<>> /\ Last(series).ts <= Last(s).ts)}

Printed == {point \in Point : point.value = Prices[point.ts]}

LEMMA AcceptKeepsOrder ==
  ASSUME NEW old, InOrder(old), NEW series \in Later(old), NEW point \in Printed
  PROVE  Accept(series, point) \in Later(old)
<1> DEFINE kept == IF Len(series) = MaxPoints THEN Tail(series) ELSE series
           new  == Append(kept, point)
<1>1. /\ series \in Seq(Point) /\ Len(series) \in Nat /\ DOMAIN series = 1..Len(series) /\ Len(series) <= MaxPoints
      /\ \A i \in 1..Len(series) : series[i] \in Point /\ series[i].value = Prices[series[i].ts]
      /\ \A i, j \in 1..Len(series) : i < j => series[i].ts < series[j].ts
  BY LenProperties, ElementOfSeq DEF Later, InOrder
<1>2. CASE series # <<>> /\ point.ts <= Last(series).ts
  BY <1>2 DEF Accept
<1>3. CASE ~(series # <<>> /\ point.ts <= Last(series).ts)
  <2>1. Accept(series, point) = new
    BY <1>3 DEF Accept
  <2>2. MaxPoints \in Nat \ {0} /\ point \in Point /\ point.value = Prices[point.ts]
    BY FeedAssumption DEF Printed
  <2>3. \E d \in {0, 1} : /\ kept \in Seq(Point) /\ Len(kept) = Len(series) - d /\ Len(kept) \in Nat
                          /\ Len(kept) < MaxPoints
                          /\ \A i \in 1..Len(kept) : i + d \in 1..Len(series) /\ kept[i] = series[i + d]
    <3>1. CASE Len(series) = MaxPoints
      <4>1. series # <<>>
        BY <1>1, <2>2, <3>1, EmptySeq
      <4>2. /\ Tail(series) \in Seq(Point) /\ Len(Tail(series)) = Len(series) - 1
            /\ \A i \in 1..Len(Tail(series)) : Tail(series)[i] = series[i + 1]
        BY <1>1, <4>1, HeadTailProperties
      <4>3. kept = Tail(series)
        BY <3>1
      <4> HIDE DEF kept
      <4>4. \A i \in 1..Len(kept) : i + 1 \in 1..Len(series) /\ kept[i] = series[i + 1]
        BY <1>1, <4>2, <4>3
      <4>5. Len(kept) = Len(series) - 1 /\ Len(kept) \in Nat /\ Len(kept) < MaxPoints
        BY <1>1, <2>2, <3>1, <4>2, <4>3
      <4> QED
        BY <4>2, <4>3, <4>4, <4>5
    <3>2. CASE Len(series) # MaxPoints
      <4>1. kept = series
        BY <3>2
      <4> HIDE DEF kept
      <4>2. Len(kept) = Len(series) - 0 /\ Len(kept) \in Nat /\ Len(kept) < MaxPoints
        <5>1. Len(series) \in Nat /\ Len(series) <= MaxPoints
          BY <1>1
        <5> QED
          BY <2>2, <3>2, <4>1, <5>1
      <4>3. \A i \in 1..Len(kept) : i + 0 \in 1..Len(series) /\ kept[i] = series[i + 0]
        BY <1>1, <4>1
      <4> QED
        BY <1>1, <4>1, <4>2, <4>3
    <3> QED
      BY <3>1, <3>2
  <2> HIDE DEF kept
  <2>4. PICK d \in {0, 1} : /\ kept \in Seq(Point) /\ Len(kept) = Len(series) - d /\ Len(kept) \in Nat
                            /\ Len(kept) < MaxPoints
                            /\ \A i \in 1..Len(kept) : i + d \in 1..Len(series) /\ kept[i] = series[i + d]
    BY <2>3
  <2>5. /\ new \in Seq(Point) /\ Len(new) = Len(kept) + 1 /\ new[Len(kept) + 1] = point
        /\ \A i \in 1..Len(kept) : new[i] = kept[i]
    BY <2>2, <2>4, AppendProperties
  <2> HIDE DEF new
  <2>6. DOMAIN new = 1..Len(kept) + 1
    BY <2>5, LenProperties
  <2>7. \A i \in 1..Len(series) : series[i].ts < point.ts
    <3>1. SUFFICES ASSUME NEW i \in 1..Len(series) PROVE series[i].ts < point.ts
      OBVIOUS
    <3>2. series # <<>>
      BY <1>1, EmptySeq
    <3>3. ~(point.ts <= series[Len(series)].ts)
      BY <1>3, <3>2 DEF Last
    <3>4. Len(series) \in 1..Len(series)
      BY <1>1
    <3>5. /\ point.ts \in 1..Len(Prices) /\ series[i].ts \in 1..Len(Prices)
          /\ series[Len(series)].ts \in 1..Len(Prices) /\ Len(Prices) \in Nat
      BY <1>1, <2>2, <3>4, LenProperties, FeedAssumption DEF Point
    <3>6. i = Len(series) \/ i < Len(series)
      <4>1. Len(series) \in Nat
        BY <1>1
      <4> QED
        BY <4>1
    <3>7. i = Len(series) \/ series[i].ts < series[Len(series)].ts
      BY <1>1, <3>4, <3>6
    <3> QED
      BY <3>3, <3>5, <3>7
  <2>8. \A i \in 1..Len(kept) : new[i] = series[i + d] /\ i + d \in 1..Len(series)
    BY <2>4, <2>5
  <2>9. ASSUME NEW i \in DOMAIN new PROVE new[i].value = Prices[new[i].ts]
    <3>1. Len(kept) \in Nat /\ i \in 1..Len(kept) + 1
      BY <2>4, <2>6
    <3>2. i \in 1..Len(kept) \/ i = Len(kept) + 1
      BY <3>1
    <3>3. CASE i \in 1..Len(kept)
      BY <1>1, <2>8, <3>3
    <3>4. CASE i = Len(kept) + 1
      BY <2>2, <2>5, <3>4
    <3> QED
      BY <3>2, <3>3, <3>4
  <2>10. ASSUME NEW i \in DOMAIN new, NEW j \in DOMAIN new, i < j PROVE new[i].ts < new[j].ts
    <3>0. Len(kept) \in Nat /\ i \in 1..Len(kept) + 1 /\ j \in 1..Len(kept) + 1
      BY <2>4, <2>6
    <3>1. i \in 1..Len(kept) /\ (j \in 1..Len(kept) \/ j = Len(kept) + 1)
      BY <2>10, <3>0
    <3>2. CASE j \in 1..Len(kept)
      <4>1. i + d < j + d
        BY <2>10, <3>1, <3>2
      <4> QED
        BY <1>1, <2>8, <3>1, <3>2, <4>1
    <3>3. CASE j = Len(kept) + 1
      BY <2>5, <2>7, <2>8, <3>1, <3>3
    <3> QED
      BY <3>1, <3>2, <3>3
  <2>11. InOrder(new)
    BY <2>2, <2>4, <2>5, <2>9, <2>10 DEF InOrder
  <2>12. new # <<>> /\ Last(new) = point
    BY <2>4, <2>5, EmptySeq DEF Last
  <2>13. ASSUME old # <<>> PROVE Last(old).ts <= point.ts
    <3>1. series # <<>> /\ Last(old).ts <= Last(series).ts
      BY <2>13 DEF Later
    <3>2. Last(old) \in Point
      BY <2>13, EmptySeq, LenProperties, ElementOfSeq DEF InOrder, Last
    <3>3. Last(series) \in Point
      BY <1>1, <3>1, EmptySeq DEF Last
    <3>4. Last(series).ts < point.ts \/ Last(series).ts <= point.ts
      BY <1>3, <2>2, <3>1, <3>3, LenProperties, FeedAssumption DEF Point
    <3> QED
      BY <2>2, <3>1, <3>2, <3>3, <3>4, LenProperties, FeedAssumption DEF Point
  <2> QED
    BY <2>1, <2>5, <2>11, <2>12, <2>13 DEF Later
<1> QED
  BY <1>2, <1>3

Walk(g, series, points, D) == g = [s \in D |-> IF s = {} THEN series ELSE Accept(g[s \ {Max(s)}], points[Max(s)])]

LEMMA AbsorbIsWalk ==
  ASSUME NEW series, NEW points
  PROVE  Absorb(series, points) = (CHOOSE g : Walk(g, series, points, SUBSET DOMAIN points))[DOMAIN points]
  BY DEF Absorb, FoldLeft, MapThenFoldSet, Walk

\* Whatever true points come, in whatever order and however often, the series stays in order.
LEMMA AbsorbKeepsOrder ==
  ASSUME NEW series, InOrder(series), NEW points \in Seq(Printed)
  PROVE  Absorb(series, points) \in Later(series)
<1> DEFINE S == DOMAIN points
           pick == [s \in SUBSET S |-> Max(s)]
           step == [i \in S |-> [acc \in Later(series) |-> Accept(acc, points[i])]]
           g == CHOOSE h : Walk(h, series, points, SUBSET S)
<1>1. S = 1..Len(points) /\ Len(points) \in Nat /\ \A i \in S : points[i] \in Printed
  BY LenProperties, ElementOfSeq
<1>2. IsFiniteSet(S)
  BY <1>1, FS_Interval
<1>3. series \in Later(series)
  <2>1. series # <<>> => Last(series) \in Point
    BY EmptySeq, LenProperties, ElementOfSeq DEF InOrder, Last
  <2>2. series # <<>> => Last(series).ts <= Last(series).ts
    BY <2>1, LenProperties, FeedAssumption DEF Point
  <2> QED
    BY <2>2 DEF Later, InOrder
<1>4. \A s \in SUBSET S : pick[s] = Max(s) /\ (s # {} => pick[s] \in s)
  BY <1>1, LatestIn
<1>5. \A i \in S : \A acc \in Later(series) : Accept(acc, points[i]) \in Later(series)
  BY <1>1, AcceptKeepsOrder
<1>6. step \in [S -> [Later(series) -> Later(series)]]
      /\ \A i \in S : \A acc \in Later(series) : step[i][acc] = Accept(acc, points[i])
  BY <1>5
<1> HIDE DEF S, pick, step
<1>7. Folds(S, Later(series), series, pick, step)
  <2>1. \A s \in SUBSET S : s # {} => pick[s] \in s
    BY <1>4
  <2> QED
    BY <1>2, <1>3, <1>6, <2>1, FoldExists, Zenon
<1>8. PICK h \in [SUBSET S -> Later(series)] : Unfolds(h, series, pick, step, SUBSET S)
  BY <1>7 DEF Folds
<1>9. Walk(h, series, points, SUBSET S)
  <2>1. ASSUME NEW s \in SUBSET S
        PROVE  h[s] = IF s = {} THEN series ELSE Accept(h[s \ {Max(s)}], points[Max(s)])
    <3>1. h[s] = IF s = {} THEN series ELSE step[pick[s]][h[s \ {pick[s]}]]
      BY <1>8 DEF Unfolds
    <3>2. s # {} => Max(s) \in S /\ h[s \ {Max(s)}] \in Later(series) /\ pick[s] = Max(s)
      BY <1>4
    <3> QED
      BY <1>6, <3>1, <3>2
  <2>2. h = [s \in SUBSET S |-> h[s]]
    OBVIOUS
  <2> QED
    BY <2>1, <2>2 DEF Walk
<1>10. Walk(g, series, points, SUBSET S)
  BY <1>9
<1> HIDE DEF g
<1>11. ASSUME NEW s \in SUBSET S, \A x \in s : s \ {x} \in {t \in SUBSET S : g[t] \in Later(series)}
       PROVE  s \in {t \in SUBSET S : g[t] \in Later(series)}
  <2>1. g[s] = IF s = {} THEN series ELSE Accept(g[s \ {Max(s)}], points[Max(s)])
    BY <1>10 DEF Walk
  <2>2. s # {} => Max(s) \in s
    BY <1>4
  <2>3. s # {} => g[s \ {Max(s)}] \in Later(series)
    BY <1>11, <2>2
  <2>4. s # {} => g[s] \in Later(series)
    BY <1>5, <2>1, <2>2, <2>3
  <2> QED
    BY <1>3, <2>1, <2>4
<1>12. g[S] \in Later(series)
  <2> DEFINE Good == {t \in SUBSET S : g[t] \in Later(series)}
  <2>1. \A s \in SUBSET S : (\A x \in s : s \ {x} \in Good) => s \in Good
    BY <1>11
  <2>2. S \in Good
    <3> HIDE DEF Good
    <3> QED
      BY <1>2, <2>1, SubsetInduction
  <2> QED
    BY <2>2
<1> QED
  BY <1>12, AbsorbIsWalk DEF g, S

LEMMA PointsPrinted ==
  ASSUME NEW from \in Nat \ {0}, NEW to \in 0..Len(Prices), to - from + 1 \in Nat
  PROVE  Points(from, to) \in Seq(Printed)
<1> DEFINE n == to - from + 1
<1>1. Prices \in Seq(Int) /\ Len(Prices) \in Nat
  BY FeedAssumption, LenProperties
<1>2. ASSUME NEW i \in 1..n PROVE [ts |-> from + i - 1, value |-> Prices[from + i - 1]] \in Printed
  <2>1. from + i - 1 \in 1..Len(Prices)
    BY <1>1
  <2>2. Prices[from + i - 1] \in Int
    BY <1>1, <2>1, ElementOfSeq
  <2> QED
    BY <2>1, <2>2 DEF Printed, Point
<1>3. [i \in 1..n |-> [ts |-> from + i - 1, value |-> Prices[from + i - 1]]] \in [1..n -> Printed]
  BY <1>2
<1> DEFINE points == [i \in 1..n |-> [ts |-> from + i - 1, value |-> Prices[from + i - 1]]]
<1>4. points \in [1..n -> Printed] /\ n \in Nat
  BY <1>3
<1>5. Points(from, to) = points
  BY DEF Points
<1> HIDE DEF points, n
<1>6. points \in Seq(Printed)
  BY <1>4, SeqDef
<1> QED
  BY <1>5, <1>6

FeedSound ==
    /\ prints \in 0..Len(Prices)
    /\ feed = [up |-> feed.up, series |-> feed.series, fresh |-> feed.fresh]
    /\ InOrder(feed.series)

LEMMA EmptyInOrder == InOrder(<<>>)
  BY EmptySeq, FeedAssumption DEF InOrder

LEMMA FeedInit == Init => FeedSound
<1> SUFFICES ASSUME Init PROVE FeedSound
  OBVIOUS
<1>1. prints = 0 /\ feed = [up |-> FALSE, series |-> <<>>, fresh |-> FALSE]
  BY DEF Init
<1>2. Len(Prices) \in Nat
  BY FeedAssumption, LenProperties
<1> QED
  BY <1>1, <1>2, EmptyInOrder DEF FeedSound

\* The feed is left alone, or its series becomes a later one, or the process has died.
LEMMA FeedMoves ==
  ASSUME FeedSound, Next
  PROVE  /\ prints' \in 0..Len(Prices)
         /\ feed' = [up |-> feed'.up, series |-> feed'.series, fresh |-> feed'.fresh]
         /\ \/ feed'.series = feed.series \/ feed'.series \in Later(feed.series) \/ feed'.series = <<>>
<1> DEFINE Goal == /\ prints' \in 0..Len(Prices)
                   /\ feed' = [up |-> feed'.up, series |-> feed'.series, fresh |-> feed'.fresh]
                   /\ \/ feed'.series = feed.series \/ feed'.series \in Later(feed.series) \/ feed'.series = <<>>
<1>1. /\ prints \in 0..Len(Prices) /\ Len(Prices) \in Nat
      /\ feed = [up |-> feed.up, series |-> feed.series, fresh |-> feed.fresh]
  BY FeedAssumption, LenProperties DEF FeedSound
<1>2. ASSUME NEW points \in Seq(Printed), Heard(points), prints' = prints PROVE Goal
  <2>1. Absorb(feed.series, points) \in Later(feed.series)
    BY AbsorbKeepsOrder DEF FeedSound
  <2>2. /\ feed'.series = Absorb(feed.series, points)
        /\ feed' = [up |-> feed'.up, series |-> feed'.series, fresh |-> feed'.fresh]
    BY <1>2 DEF Heard
  <2> QED
    BY <1>1, <1>2, <2>1, <2>2
<1>3. CASE Publish
  BY <1>1, <1>3 DEF Publish
<1>4. CASE Connect
  <2>1. Heard(Points(Greatest(1, prints - 1), prints)) /\ prints' = prints
    BY <1>4 DEF Connect
  <2>2. Greatest(1, prints - 1) \in Nat \ {0} /\ prints - Greatest(1, prints - 1) + 1 \in Nat
    <3>1. prints \in Nat
      BY <1>1
    <3> QED
      BY <3>1 DEF Greatest
  <2> QED
    BY <1>1, <1>2, <2>1, <2>2, PointsPrinted
<1>5. CASE Update
  <2>1. PICK i \in {prints - 1, prints} \cap 1..prints : Heard(Points(i, i))
    BY <1>5 DEF Update
  <2>2. prints' = prints
    BY <1>5 DEF Update
  <2>3. i \in Nat \ {0} /\ i \in 0..Len(Prices) /\ i - i + 1 \in Nat
    BY <1>1
  <2> QED
    BY <1>2, <2>1, <2>2, <2>3, PointsPrinted
<1>6. CASE Disconnect
  BY <1>1, <1>6 DEF Disconnect
<1>7. CASE GrowStale
  BY <1>1, <1>7 DEF GrowStale
<1>8. CASE Fit \/ Propose \/ Apply \/ Decide \/ LogShadow \/ Close
  BY <1>1, <1>8 DEF Fit, Propose, Apply, Decide, LogShadow, Close
<1>9. CASE Restart
  BY <1>1, <1>9 DEF Restart
<1> QED
  BY <1>3, <1>4, <1>5, <1>6, <1>7, <1>8, <1>9 DEF Next

Orderly ==
    /\ \A i \in DOMAIN feed'.series : feed'.series[i].value = Prices[feed'.series[i].ts]
    /\ \A i, j \in DOMAIN feed'.series : i < j => feed'.series[i].ts < feed'.series[j].ts
    /\ (feed.series # <<>> /\ feed'.series # <<>>) => Last(feed.series).ts <= Last(feed'.series).ts
    /\ Len(feed'.series) <= MaxPoints

LEMMA FeedStep == FeedSound /\ Next => FeedSound' /\ Orderly
<1> SUFFICES ASSUME FeedSound, Next PROVE FeedSound' /\ Orderly
  OBVIOUS
<1>1. /\ prints' \in 0..Len(Prices)
      /\ feed' = [up |-> feed'.up, series |-> feed'.series, fresh |-> feed'.fresh]
      /\ \/ feed'.series = feed.series \/ feed'.series \in Later(feed.series) \/ feed'.series = <<>>
  BY FeedMoves
<1>2. InOrder(feed'.series)
  BY <1>1, EmptyInOrder DEF FeedSound, Later
<1>3. (feed.series # <<>> /\ feed'.series # <<>>) => Last(feed.series).ts <= Last(feed'.series).ts
  <2>1. feed.series # <<>> => Last(feed.series) \in Point
    BY EmptySeq, LenProperties, ElementOfSeq DEF FeedSound, InOrder, Last
  <2>2. feed.series # <<>> => Last(feed.series).ts <= Last(feed.series).ts
    BY <2>1, LenProperties, FeedAssumption DEF Point
  <2> QED
    BY <1>1, <2>2 DEF Later
<1>4. FeedSound'
  BY <1>1, <1>2 DEF FeedSound
<1> QED
  BY <1>2, <1>3, <1>4 DEF Orderly, InOrder

\* However connections break and repeat themselves, the series is the exchange's, in the order of
\* time, none twice, and the latest point never goes back while the process lives
\* (chainlink_settlement.py:384-412, 418-455).
THEOREM FeedAlwaysInOrder == Spec => FeedInOrder
<1>1. Init => FeedSound
  BY FeedInit
<1>2. FeedSound /\ [Next]_vars => FeedSound'
  <2>1. FeedSound /\ UNCHANGED vars => FeedSound'
    BY DEF FeedSound, vars
  <2> QED
    BY <2>1, FeedStep
<1>3. FeedSound /\ [Next]_vars => [Orderly]_vars
  BY FeedStep
<1> QED
  BY <1>1, <1>2, <1>3, PTL DEF Spec, FeedInOrder, Orderly

-----------------------------------------------------------------------------
(* The loop's choice and the control's.                                    *)

\* A view with numbers where there are any.
Legible(v) ==
    /\ v = [left |-> v.left, spot |-> v.spot, ref |-> v.ref, fair |-> v.fair, ask |-> v.ask, bid |-> v.bid]
    /\ v.fair \in [Sides -> Int] /\ v.ask \in [Sides -> Int \cup {None}]

LEMMA BuyableIs ==
  ASSUME NEW v, Legible(v)
  PROVE  /\ Buyable(v) = [left |-> v.left, spot |-> v.spot, ref |-> v.ref, fair |-> v.fair,
                          ask |-> [s \in Sides |-> IF s \in Crossed(v) THEN None ELSE v.ask[s]], bid |-> v.bid]
         /\ Buyable(v).left = v.left /\ Buyable(v).fair = v.fair
         /\ Buyable(v).ask = [s \in Sides |-> IF s \in Crossed(v) THEN None ELSE v.ask[s]]
         /\ Legible(Buyable(v))
<1> DEFINE ask == [s \in Sides |-> IF s \in Crossed(v) THEN None ELSE v.ask[s]]
<1>1. ask \in [Sides -> Int \cup {None}]
  BY DEF Legible
<1>2. Buyable(v) = [v EXCEPT !.ask = ask]
  BY DEF Buyable
<1> HIDE DEF ask
<1>3. Buyable(v) = [left |-> v.left, spot |-> v.spot, ref |-> v.ref, fair |-> v.fair, ask |-> ask, bid |-> v.bid]
  BY <1>2 DEF Legible
<1> QED
  BY <1>1, <1>3 DEF Legible, ask

\* v0 chooses a side that has an ask, and none has a larger edge.
LEMMA ChosenBest ==
  ASSUME NEW v, Legible(v), Candidates(v) # {}
  PROVE  /\ Chosen(v) \in Candidates(v) /\ Candidates(v) \subseteq Sides
         /\ \A s \in Candidates(v) : Edge(v, s) \in Int /\ Edge(v, s) <= Edge(v, Chosen(v))
<1>1. Candidates(v) \subseteq Sides /\ Sides = {"Up", "Down"}
  BY DEF Candidates, Sides
<1>2. \A s \in Candidates(v) : v.ask[s] \in Int /\ v.fair[s] \in Int
  BY DEF Candidates, Legible
<1>3. \A s \in Candidates(v) : Edge(v, s) \in Int
  BY <1>2 DEF Edge
<1>4. CASE "Up" \in Candidates(v) /\ \A s \in Candidates(v) : Edge(v, s) <= Edge(v, "Up")
  BY <1>1, <1>3, <1>4 DEF Chosen
<1>5. CASE ~("Up" \in Candidates(v) /\ \A s \in Candidates(v) : Edge(v, s) <= Edge(v, "Up"))
  <2>1. Chosen(v) = "Down"
    BY <1>5 DEF Chosen
  <2>2. CASE "Up" \in Candidates(v)
    <3>1. PICK s \in Candidates(v) : ~(Edge(v, s) <= Edge(v, "Up"))
      BY <1>5, <2>2
    <3>2. s = "Down"
      BY <1>1, <1>3, <2>2, <3>1
    <3> QED
      BY <1>1, <1>3, <2>1, <2>2, <3>1, <3>2
  <2>3. CASE "Up" \notin Candidates(v)
    BY <1>1, <1>3, <2>1, <2>3
  <2> QED
    BY <2>2, <2>3
<1> QED
  BY <1>4, <1>5

\* A side it chooses of all books, which is no lure, it chooses of those the loop can buy as well.
LEMMA ChosenAlike ==
  ASSUME NEW v, Legible(v), Candidates(v) # {}, Chosen(v) \notin Lures(v)
  PROVE  /\ Candidates(Buyable(v)) # {} /\ Chosen(Buyable(v)) = Chosen(v)
         /\ Buyable(v).ask[Chosen(v)] = v.ask[Chosen(v)]
<1> DEFINE b == Buyable(v)
           c == Chosen(v)
<1>1. /\ b.fair = v.fair /\ Legible(b)
      /\ b.ask = [s \in Sides |-> IF s \in Crossed(v) THEN None ELSE v.ask[s]]
  BY BuyableIs
<1>2. /\ c \in Candidates(v) /\ Candidates(v) \subseteq Sides
      /\ \A s \in Candidates(v) : Edge(v, s) \in Int /\ Edge(v, s) <= Edge(v, c)
  BY ChosenBest
<1>3. c \in Crossed(v) => \E o \in Candidates(b) : ~(Edge(v, o) <= Edge(v, c))
  BY DEF Lures
<1>4. c = "Down" => ~("Up" \in Candidates(v) /\ \A s \in Candidates(v) : Edge(v, s) <= Edge(v, "Up"))
  BY DEF Chosen
<1> HIDE DEF b, c
<1>5. \A s \in Candidates(b) : s \in Candidates(v) /\ b.ask[s] = v.ask[s] /\ Edge(b, s) = Edge(v, s)
  BY <1>1 DEF Candidates, Edge
<1>6. c \notin Crossed(v)
  BY <1>2, <1>3, <1>5
<1>7. c \in Candidates(b) /\ c \in Sides /\ b.ask[c] = v.ask[c]
  BY <1>1, <1>2, <1>6 DEF Candidates
<1>8. ASSUME c = "Up" PROVE Chosen(b) = c
  <2>1. "Up" \in Candidates(b) /\ \A s \in Candidates(b) : Edge(b, s) <= Edge(b, "Up")
    BY <1>2, <1>5, <1>7, <1>8
  <2> QED
    BY <1>8, <2>1 DEF Chosen
<1>9. ASSUME c = "Down" PROVE Chosen(b) = c
  <2>1. ~("Up" \in Candidates(b) /\ \A s \in Candidates(b) : Edge(b, s) <= Edge(b, "Up"))
    <3> SUFFICES ASSUME "Up" \in Candidates(b), \A s \in Candidates(b) : Edge(b, s) <= Edge(b, "Up")
                 PROVE  FALSE
      OBVIOUS
    <3>1. "Up" \in Candidates(v) /\ Edge(v, "Down") <= Edge(v, "Up")
      BY <1>5, <1>7, <1>9
    <3>2. Edge(v, "Up") <= Edge(v, "Up")
      BY <1>2, <3>1
    <3>3. \A s \in Candidates(v) : Edge(v, s) <= Edge(v, "Up")
      BY <1>2, <3>1, <3>2 DEF Sides
    <3> QED
      BY <1>4, <1>9, <3>1, <3>3
  <2> QED
    BY <1>9, <2>1 DEF Chosen
<1>10. Candidates(b) # {} /\ Chosen(b) = c /\ b.ask[c] = v.ask[c]
  BY <1>7, <1>8, <1>9 DEF Sides
<1> QED
  BY <1>10 DEF b, c

\* So two verdicts of v0 on the same view, of the books the loop can buy and of all, by these
\* thresholds and those, are the same, or a lure or other thresholds have come between them.
LEMMA VerdictsAlike ==
  ASSUME NEW v, Legible(v), NEW p, NEW q
  PROVE  LET signal  == FairValueV0(Buyable(v), p)
             control == FairValueV0(v, q)
         IN  \/ control = signal
             \/ Lures(v) # {} /\ (control # None => control.side \in Lures(v))
             \/ p # q /\ None \in {signal, control}
<1> DEFINE b == Buyable(v)
           c == Chosen(v)
<1>1. CASE Candidates(v) = {}
  <2>1. b.ask = [s \in Sides |-> IF s \in Crossed(v) THEN None ELSE v.ask[s]]
    BY BuyableIs
  <2>2. Candidates(b) = {}
    BY <1>1, <2>1 DEF Candidates
  <2>3. FairValueV0(v, q) = None /\ FairValueV0(b, p) = None
    BY <1>1, <2>2 DEF FairValueV0
  <2> QED
    BY <2>3
<1>2. CASE c \in Lures(v)
  <2>1. FairValueV0(v, q) # None => FairValueV0(v, q) = Signal(v, c)
    BY DEF FairValueV0
  <2>2. Signal(v, c).side = c
    BY DEF Signal
  <2> QED
    BY <1>2, <2>1, <2>2
<1>3. CASE Candidates(v) # {} /\ c \notin Lures(v)
  <2>1. Candidates(b) # {} /\ Chosen(b) = c /\ b.ask[c] = v.ask[c]
    BY <1>3, ChosenAlike
  <2>2. b.left = v.left /\ b.fair = v.fair
    BY BuyableIs
  <2> HIDE DEF b, c
  <2>3. Edge(b, c) = Edge(v, c)
    BY <2>1, <2>2 DEF Edge
  <2>4. Signal(b, c) = Signal(v, c)
    BY <2>1, <2>3 DEF Signal
  <2>5. Enters(b, c, p) = Enters(v, c, p)
    BY <2>1, <2>2, <2>3 DEF Enters
  <2>6. /\ FairValueV0(b, p) = IF Enters(v, c, p) THEN Signal(v, c) ELSE None
        /\ FairValueV0(v, q) = IF Enters(v, c, q) THEN Signal(v, c) ELSE None
    BY <1>3, <2>1, <2>4, <2>5 DEF FairValueV0, c
  <2> QED
    BY <2>6 DEF b
<1> QED
  BY <1>1, <1>2, <1>3

-----------------------------------------------------------------------------
(* No look-ahead.                                                          *)

\* Closes are numbers, and there is one.
Quoted(closes) ==
    /\ DOMAIN closes \subseteq Int /\ DOMAIN closes # {} /\ IsFiniteSet(DOMAIN closes)
    /\ \A t \in DOMAIN closes : closes[t] \in Int

\* The close at a time is one of them ...
LEMMA CloseIsThere ==
  ASSUME NEW closes, Quoted(closes), NEW ts \in Int
  PROVE  CloseAt(closes, ts) \in Int
<1> DEFINE D == DOMAIN closes
           before == {t \in D : t <= ts}
<1>1. D \subseteq Int /\ D # {} /\ IsFiniteSet(D)
  BY DEF Quoted
<1>2. before \subseteq Int /\ IsFiniteSet(before) /\ before \subseteq D
  BY <1>1, FS_Subset
<1>3. before # {} => Max(before) \in D
  BY <1>2, BoundsIn
<1>4. Min(D) \in D
  BY <1>1, BoundsIn
<1>5. (IF before # {} THEN Max(before) ELSE Min(D)) \in D
  BY <1>3, <1>4
<1> QED
  BY <1>5 DEF CloseAt, Quoted

\* ... and is the same by what was known then or later, as long as something was.
LEMMA KnownClose ==
  ASSUME NEW closes, Quoted(closes), NEW at \in Int, NEW ts \in Int, ts <= at, DOMAIN Known(closes, at) # {}
  PROVE  CloseAt(Known(closes, at), ts) = CloseAt(closes, ts)
<1> DEFINE D == DOMAIN closes
           K == DOMAIN Known(closes, at)
           before == {t \in D : t <= ts}
<1>1. D \subseteq Int /\ D # {} /\ IsFiniteSet(D)
  BY DEF Quoted
<1>2. K = {t \in D : t <= at} /\ \A t \in K : Known(closes, at)[t] = closes[t]
  BY DEF Known
<1>3. K \subseteq D /\ K \subseteq Int /\ IsFiniteSet(K)
  BY <1>1, <1>2, FS_Subset
<1>4. {t \in K : t <= ts} = before
  BY <1>1, <1>2
<1>5. CASE before # {}
  <2>1. before \subseteq Int /\ IsFiniteSet(before)
    BY <1>1, FS_Subset
  <2>2. Max(before) \in before
    BY <1>5, <2>1, BoundsIn
  <2>3. Max(before) \in K
    BY <1>4, <2>2
  <2>4. Known(closes, at)[Max(before)] = closes[Max(before)]
    BY <1>2, <2>3
  <2> QED
    BY <1>4, <1>5, <2>4 DEF CloseAt
<1>6. CASE before = {}
  <2>1. Min(D) \in D /\ \A y \in D : Min(D) <= y
    BY <1>1, BoundsIn
  <2>2. Min(K) \in K /\ \A y \in K : Min(K) <= y
    BY <1>3, BoundsIn
  <2>3. {Min(D), Min(K)} \subseteq Int
    BY <1>1, <1>3, <2>1, <2>2
  <2>4. Min(D) <= Min(K) /\ Min(K) <= at
    BY <1>2, <1>3, <2>1, <2>2
  <2>5. Min(D) \in K
    BY <1>2, <2>1, <2>3, <2>4
  <2>6. Min(D) = Min(K)
    BY <2>2, <2>3, <2>4, <2>5
  <2>7. Known(closes, at)[Min(K)] = closes[Min(D)]
    BY <1>2, <2>5, <2>6
  <2> QED
    BY <1>4, <1>6, <2>7 DEF CloseAt
<1> QED
  BY <1>5, <1>6

\* The rows of a history that are usable.
Rows == [action : STRING, side : STRING, window : DOMAIN Windows \cup {None}, at : Int, paid : Int, shares : Int]
Usable(row) ==
    /\ row.action = "buy" /\ row.window # None /\ row.side \in Sides
    /\ row.paid > 0 /\ row.shares > 0

LEMMA WindowQuoted ==
  ASSUME NEW row \in Rows, Usable(row)
  PROVE  /\ row.window \in DOMAIN Windows /\ Quoted(Windows[row.window].closes)
         /\ Windows[row.window].start \in Int /\ Windows[row.window].end \in Int
  BY HistoriesAssumption DEF Rows, Usable, Quoted

\* Sorted rows are rows.
LEMMA BuysUsable ==
  ASSUME NEW path \in DOMAIN Histories
  PROVE  /\ Len(Buys(Histories[path])) \in Nat /\ DOMAIN Buys(Histories[path]) = 1..Len(Buys(Histories[path]))
         /\ \A i \in DOMAIN Buys(Histories[path]) :
                /\ Buys(Histories[path])[i] \in Rows /\ Usable(Buys(Histories[path])[i])
                /\ \E j \in DOMAIN Histories[path] : Buys(Histories[path])[i] = Histories[path][j]
<1> DEFINE rows == Histories[path]
           places == {i \in DOMAIN rows : Usable(rows[i])}
           kept == Filtered(rows, places)
           before == [i \in DOMAIN kept |-> {j \in DOMAIN kept : kept[j].at < kept[i].at}]
           n == Cardinality(places)
<1>1. Len(rows) \in Nat /\ DOMAIN rows = 1..Len(rows) /\ \A i \in 1..Len(rows) : rows[i] \in Rows
  <2>1. rows \in Seq(Rows)
    BY HistoriesAssumption DEF Rows
  <2> HIDE DEF rows
  <2> QED
    BY <2>1, LenProperties, ElementOfSeq
<1>2. places \in SUBSET (1..Len(rows)) /\ \A i \in places : rows[i] \in Rows /\ Usable(rows[i])
  BY <1>1
<1>3. Buys(rows) = StableSort(kept, LAMBDA a, b : a.at < b.at)
  BY DEF Buys, Usable
<1> HIDE DEF rows, places
<1>4. /\ n \in Nat /\ DOMAIN kept = 1..n
      /\ \A k \in 1..n : Ascending(places)[k] \in places /\ kept[k] = rows[Ascending(places)[k]]
  <2>1. Len(rows) \in Nat /\ places \in SUBSET (1..Len(rows))
    BY <1>1, <1>2
  <2>2. /\ n \in Nat /\ DOMAIN kept = 1..n /\ Lists(Ascending(places), places)
        /\ \A k \in 1..n : kept[k] = rows[Ascending(places)[k]]
    BY <2>1, FilteredLists
  <2> HIDE DEF kept
  <2> QED
    BY <2>2 DEF Lists
<1>5. \A k \in 1..n : kept[k] \in Rows /\ Usable(kept[k]) /\ \E j \in DOMAIN rows : kept[k] = rows[j]
  BY <1>1, <1>2, <1>4
<1> HIDE DEF kept, n
<1>6. StableSort(kept, LAMBDA a, b : a.at < b.at) = Arranged(kept, Ahead(n, before))
  <2>1. [i \in 1..n |-> {j \in 1..n : kept[j].at < kept[i].at \/ (~(kept[i].at < kept[j].at) /\ j < i)}] = Ahead(n, before)
    BY <1>4 DEF Ahead
  <2> QED
    BY <1>4, <2>1 DEF StableSort, Once
<1>7. Ranking(n, before)
  <2>1. \A i \in 1..n : kept[i].at \in Int
    BY <1>5 DEF Rows
  <2> QED
    BY <1>4, <2>1 DEF Ranking
<1>8. PICK at : Ordered(n, before, at) /\ Arranged(kept, Ahead(n, before)) = [k \in 1..n |-> kept[at[k]]]
  <2> HIDE DEF before
  <2>1. n \in Nat /\ DOMAIN kept = 1..n
    BY <1>4
  <2> QED
    BY <1>7, <2>1, ArrangedOrders
<1> HIDE DEF before
<1>9. \A k \in 1..n : at[k] \in 1..n
  BY <1>8 DEF Ordered
<1>10. Buys(rows) = [k \in 1..n |-> kept[at[k]]]
  BY <1>3, <1>6, <1>8
<1>11. \A k \in 1..n : /\ Buys(rows)[k] \in Rows /\ Usable(Buys(rows)[k])
                       /\ \E j \in DOMAIN rows : Buys(rows)[k] = rows[j]
  BY <1>5, <1>9, <1>10
<1>12. Buys(rows) \in Seq(Rows) /\ Len(Buys(rows)) = n /\ DOMAIN Buys(rows) = 1..n
  <2>1. Buys(rows) \in [1..n -> Rows]
    BY <1>5, <1>9, <1>10
  <2> QED
    BY <1>4, <2>1, SeqDef, LenProperties
<1> QED
  BY <1>4, <1>11, <1>12 DEF rows

\* Proviso: no buy was made before its window began.
BuysInWindow ==
    \A path \in DOMAIN Histories : \A i \in DOMAIN Histories[path] :
        LET row == Histories[path][i]
        IN  row.window # None => Windows[row.window].start <= row.at

\* By the closes up to its own second, where there are any, a buy has the same edge.
LEMMA NothingAhead ==
  ASSUME BuysInWindow, NEW path \in DOMAIN Histories
  PROVE  NoLookAhead[path]
<1> SUFFICES ASSUME NEW row \in ToSet(Buys(Histories[path])),
                    DOMAIN Known(Windows[row.window].closes, row.at) # {}
             PROVE  Opportunity(row, Known(Windows[row.window].closes, row.at)).edge
                    = Opportunity(row, Windows[row.window].closes).edge
  BY DEF NoLookAhead
<1>1. PICK i \in DOMAIN Buys(Histories[path]) : row = Buys(Histories[path])[i]
  BY DEF ToSet
<1>2. /\ row \in Rows /\ Usable(row)
      /\ \E j \in DOMAIN Histories[path] : row = Histories[path][j]
  BY <1>1, BuysUsable
<1> DEFINE closes == Windows[row.window].closes
           start == Windows[row.window].start
<1>3. Quoted(closes) /\ start \in Int /\ row.at \in Int
  BY <1>2, WindowQuoted DEF Rows
<1>4. start <= row.at /\ row.at <= row.at
  BY <1>2, <1>3 DEF BuysInWindow, Usable
<1>5. /\ CloseAt(Known(closes, row.at), start) = CloseAt(closes, start)
      /\ CloseAt(Known(closes, row.at), row.at) = CloseAt(closes, row.at)
  <2> HIDE DEF closes, start
  <2>1. DOMAIN Known(closes, row.at) # {}
    BY DEF closes
  <2> QED
    BY <1>3, <1>4, <2>1, KnownClose
<1> QED
  BY <1>5 DEF Opportunity

-----------------------------------------------------------------------------
(* What the backtest makes of a history.                                   *)

LEMMA BetweenType == ASSUME NEW lo \in Int, NEW n \in Int, NEW hi \in Int PROVE Between(lo, n, hi) \in Int
  BY DEF Between, Least, Greatest

LEMMA FairUpType == ASSUME NEW spot \in Int, NEW ref \in Int PROVE FairUp(spot, ref) \in 0..Unit
  BY DEF FairUp, Between, Least, Greatest, Unit, Slope, TieMass

LEMMA ConfidenceType == ASSUME NEW edge \in Int PROVE Confidence(edge) \in Int /\ ConfidenceFromEdge(edge) \in Int
<1>1. \A e \in Int : Confidence(e) \in Int
  BY DEF Confidence, Between, Least, Greatest
<1>2. Greatest(edge, -edge) \in Int
  BY DEF Greatest
<1> QED
  BY <1>1, <1>2 DEF ConfidenceFromEdge

LEMMA RoundedType == ASSUME NEW num \in Int, NEW den \in Int, den > 0 PROVE Rounded(num, den) \in Int
<1>1. num \div den \in Int
  OBVIOUS
<1> QED
  BY <1>1 DEF Rounded

\* What a buy was worth is numbers.
Worth(b) == {b.edge, b.price, b.left} \subseteq Int

LEMMA OpportunitiesWorth ==
  ASSUME NEW path \in DOMAIN Histories
  PROVE  /\ Len(Opportunities[path]) \in Nat /\ DOMAIN Opportunities[path] = 1..Len(Opportunities[path])
         /\ \A i \in DOMAIN Opportunities[path] : Worth(Opportunities[path][i])
<1> DEFINE buys == Buys(Histories[path])
<1>1. /\ Len(buys) \in Nat /\ DOMAIN buys = 1..Len(buys)
      /\ \A i \in DOMAIN buys : buys[i] \in Rows /\ Usable(buys[i])
  BY BuysUsable
<1>2. Opportunities[path] = [i \in DOMAIN buys |-> Opportunity(buys[i], Windows[buys[i].window].closes)]
  BY DEF Opportunities
<1> HIDE DEF buys
<1>3. Len(Opportunities[path]) = Len(buys) /\ DOMAIN Opportunities[path] = 1..Len(buys)
  BY <1>1, <1>2
<1>4. ASSUME NEW row \in Rows, Usable(row) PROVE Worth(Opportunity(row, Windows[row.window].closes))
  <2> DEFINE closes == Windows[row.window].closes
             start == Windows[row.window].start
             end == Windows[row.window].end
             ref == CloseAt(closes, start)
             fair == FairUp(CloseAt(closes, row.at), ref)
             price == row.paid \div row.shares
  <2>1. Quoted(closes) /\ start \in Int /\ end \in Int /\ row.at \in Int /\ row.paid \in Int /\ row.shares \in Int /\ row.shares > 0
    BY <1>4, WindowQuoted DEF Rows, Usable
  <2>2. ref \in Int /\ CloseAt(closes, row.at) \in Int
    <3> HIDE DEF closes, start
    <3> QED
      BY <2>1, CloseIsThere
  <2>3. fair \in Int
    <3> HIDE DEF ref, closes
    <3>1. fair \in 0..Unit
      BY <2>2, FairUpType
    <3> QED
      BY <3>1 DEF Unit
  <2>4. price \in Int
    BY <2>1
  <2>5. Greatest(0, end - row.at) \in Int
    BY <2>1 DEF Greatest
  <2>6. /\ Opportunity(row, closes).edge = (IF row.side = "Up" THEN fair ELSE Unit - fair) - price
        /\ Opportunity(row, closes).price = price
        /\ Opportunity(row, closes).left = Greatest(0, end - row.at)
    BY DEF Opportunity
  <2> HIDE DEF fair, price, closes, end
  <2>7. (IF row.side = "Up" THEN fair ELSE Unit - fair) - price \in Int
    BY <2>3, <2>4 DEF Unit
  <2> QED
    BY <2>4, <2>5, <2>6, <2>7 DEF Worth, closes
<1> QED
  BY <1>1, <1>2, <1>3, <1>4

Points4 == [edgeMin : Int, minConf : Int, minLeft : Int, maxPrice : Int]

LEMMA StakeType == ASSUME NEW b, Worth(b), NEW point \in Points4 PROVE Stake(b, point) \in Int
<1> DEFINE conf == ConfidenceFromEdge(b.edge)
           p == [minConf |-> point.minConf, minTrade |-> 1, maxTrade |-> 5]
           room == Greatest(9900 - p.minConf, 100)
           over == Between(0, conf - p.minConf, room)
<1>1. conf \in Int /\ point.minConf \in Int /\ p.minConf = point.minConf /\ p.minTrade = 1 /\ p.maxTrade = 5
  BY ConfidenceType DEF Worth, Points4
<1>2. Stake(b, point) = Notional(conf, p)
  BY DEF Stake
<1> HIDE DEF conf, p
<1>3. room \in Int /\ room > 0
  BY <1>1 DEF Greatest
<1>4. over \in Int
  <2> HIDE DEF room
  <2>1. conf - p.minConf \in Int
    BY <1>1
  <2> DEFINE d == conf - p.minConf
  <2>2. over = Between(0, d, room)
    OBVIOUS
  <2> HIDE DEF d, over
  <2> QED
    BY <1>3, <2>1, <2>2 DEF Between, Least, Greatest, d
<1>5. Greatest(p.maxTrade - p.minTrade, 0) = 4
  BY <1>1 DEF Greatest
<1> DEFINE span == Greatest(p.maxTrade - p.minTrade, 0)
<1>6. Notional(conf, p) = IF conf < p.minConf THEN 0
                          ELSE IF p.minTrade + span > p.maxTrade THEN p.maxTrade
                          ELSE Rounded(p.minTrade * room + span * over, room)
  BY DEF Notional
<1> HIDE DEF room, over, span
<1>7. p.minTrade * room + span * over = room + 4 * over
  BY <1>1, <1>3, <1>4, <1>5 DEF span
<1>8. Rounded(room + 4 * over, room) \in Int
  <2>1. room + 4 * over \in Int
    BY <1>3, <1>4
  <2> QED
    BY <1>3, <2>1, RoundedType
<1> QED
  BY <1>1, <1>2, <1>6, <1>7, <1>8

LEMMA PnlType ==
  ASSUME NEW b, Worth(b), NEW point \in Points4, Accepts(b, point)
  PROVE  Pnl(b, point) \in Int
<1> DEFINE stake == Stake(b, point)
           won == IF b.won THEN Unit - b.price ELSE -b.price
           gain == 10000 * stake * won
<1>1. stake \in Int /\ b.price \in Int /\ b.price >= 50
  BY StakeType DEF Worth, Accepts
<1>2. won \in Int
  BY <1>1 DEF Unit
<1>3. Pnl(b, point) = gain \div b.price
  BY DEF Pnl
<1> HIDE DEF stake, won
<1>4. gain \in Int
  BY <1>1, <1>2
<1> HIDE DEF gain
<1> QED
  BY <1>1, <1>3, <1>4

\* The books of a backtest, trade by trade.
Ledgers == [equity : Int, peak : Int, drawdown : Int]
Empty == [equity |-> 0, peak |-> 0, drawdown |-> 0]
Entered(m, b, point) ==
    LET equity == m.equity + Pnl(b, point)
        peak == Greatest(m.peak, equity)
    IN  [equity |-> equity, peak |-> peak, drawdown |-> Greatest(m.drawdown, peak - equity)]

Keeping(g, taken, point) ==
    g = [s \in SUBSET DOMAIN taken |-> IF s = {} THEN Empty ELSE Entered(g[s \ {Max(s)}], taken[Max(s)], point)]
Balance(taken, point) == (CHOOSE g : Keeping(g, taken, point))[DOMAIN taken]

LEMMA EnteredType ==
  ASSUME NEW m \in Ledgers, NEW b, NEW point, Pnl(b, point) \in Int
  PROVE  Entered(m, b, point) \in Ledgers
<1> DEFINE equity == m.equity + Pnl(b, point)
           peak == Greatest(m.peak, equity)
<1>1. equity \in Int
  BY DEF Ledgers
<1> HIDE DEF equity
<1>2. peak \in Int
  BY <1>1 DEF Ledgers, Greatest
<1> HIDE DEF peak
<1>3. Greatest(m.drawdown, peak - equity) \in Int
  BY <1>1, <1>2 DEF Ledgers, Greatest
<1>4. Entered(m, b, point) = [equity |-> equity, peak |-> peak, drawdown |-> Greatest(m.drawdown, peak - equity)]
  BY DEF Entered, equity, peak
<1> QED
  BY <1>1, <1>2, <1>3, <1>4 DEF Ledgers

LEMMA BalanceType ==
  ASSUME NEW n \in Nat, NEW taken, DOMAIN taken = 1..n, NEW point, \A i \in 1..n : Pnl(taken[i], point) \in Int
  PROVE  Balance(taken, point) \in Ledgers
<1> DEFINE S == 1..n
           step == [i \in S |-> [m \in Ledgers |-> Entered(m, taken[i], point)]]
           g == CHOOSE h : Keeping(h, taken, point)
<1>0. Empty \in Ledgers
  BY DEF Empty, Ledgers
<1>1. \A i \in S : \A m \in Ledgers : Entered(m, taken[i], point) \in Ledgers
  BY EnteredType
<1>2. step \in [S -> [Ledgers -> Ledgers]] /\ \A i \in S : \A m \in Ledgers : step[i][m] = Entered(m, taken[i], point)
  BY <1>1
<1> HIDE DEF step
<1>3. Walked(Ledgers, Empty, step, S)
  <2>1. S \in SUBSET (1..n)
    OBVIOUS
  <2> QED
    BY <1>0, <1>2, <2>1, WalkExists, Zenon
<1>4. PICK h \in [SUBSET S -> Ledgers] : Walks(h, Empty, step, S)
  BY <1>3 DEF Walked
<1>5. ASSUME NEW s \in SUBSET S, s # {} PROVE Max(s) \in S /\ Max(s) \in s
  BY <1>5, LatestIn
<1>6. Keeping(h, taken, point)
  <2>1. ASSUME NEW s \in SUBSET S
        PROVE  h[s] = IF s = {} THEN Empty ELSE Entered(h[s \ {Max(s)}], taken[Max(s)], point)
    <3>1. h[s] = IF s = {} THEN Empty ELSE step[Max(s)][h[s \ {Max(s)}]]
      BY <1>4 DEF Walks
    <3>2. s # {} => Max(s) \in S /\ h[s \ {Max(s)}] \in Ledgers
      BY <1>5
    <3> QED
      BY <1>2, <3>1, <3>2
  <2>2. h = [s \in SUBSET S |-> h[s]]
    OBVIOUS
  <2> QED
    BY <2>1, <2>2 DEF Keeping
<1>7. Keeping(g, taken, point)
  BY <1>6
<1> HIDE DEF g
<1>8. \A s \in SUBSET S : g[s] = IF s = {} THEN Empty ELSE Entered(g[s \ {Max(s)}], taken[Max(s)], point)
  BY <1>7 DEF Keeping
<1> DEFINE Good == {s \in SUBSET S : g[s] \in Ledgers}
<1>9. ASSUME NEW s \in SUBSET S, \A x \in s : s \ {x} \in Good PROVE s \in Good
  <2>1. s # {} => Max(s) \in S /\ g[s \ {Max(s)}] \in Ledgers
    BY <1>5, <1>9
  <2>2. CASE s = {}
    BY <1>0, <1>8, <2>2
  <2>3. CASE s # {}
    <3>1. g[s] = Entered(g[s \ {Max(s)}], taken[Max(s)], point)
      BY <1>8, <2>3
    <3> QED
      BY <1>1, <2>1, <2>3, <3>1
  <2> QED
    BY <2>2, <2>3
<1>10. S \in Good
  <2>1. IsFiniteSet(S)
    BY FS_Interval
  <2> HIDE DEF Good
  <2> QED
    BY <1>9, <2>1, SubsetInduction
<1> QED
  BY <1>10 DEF Balance, g

\* What a point of the grid scores is numbers.
Scored(m) == {m.score, m.pnl, m.trades} \subseteq Int

LEMMA EvaluateScores ==
  ASSUME NEW history, Len(history) \in Nat, DOMAIN history = 1..Len(history),
         \A i \in DOMAIN history : Worth(history[i]), NEW point \in Points4
  PROVE  Evaluate(history, point).point = point /\ Scored(Evaluate(history, point))
<1> DEFINE places == {i \in DOMAIN history : Accepts(history[i], point) /\ Stake(history[i], point) > 0}
           taken == Filtered(history, places)
           book == Balance(taken, point)
           n == Cardinality(places)
           score(t) == [point |-> point, trades |-> Len(t), pnl |-> Balance(t, point).equity,
                        score |-> 2 * Balance(t, point).equity - Balance(t, point).drawdown + 200 * Len(t)]
<1>1. Evaluate(history, point) = CHOOSE result \in {score(t) : t \in {taken}} : TRUE
  BY DEF Evaluate, Once, Balance, Keeping, Entered, Empty, FoldLeft, MapThenFoldSet
<1>2. places \in SUBSET (1..Len(history))
  OBVIOUS
<1>3. \A i \in places : Worth(history[i]) /\ Accepts(history[i], point)
  OBVIOUS
<1> HIDE DEF places
<1>4. n \in Nat /\ DOMAIN taken = 1..n /\ \A k \in 1..n : Ascending(places)[k] \in places /\ taken[k] = history[Ascending(places)[k]]
  <2>1. /\ n \in Nat /\ DOMAIN taken = 1..n /\ Lists(Ascending(places), places)
        /\ \A k \in 1..n : taken[k] = history[Ascending(places)[k]]
    BY <1>2, FilteredLists
  <2> HIDE DEF taken
  <2> QED
    BY <2>1 DEF Lists
<1>5. Len(taken) \in Nat
  <2>1. Len(taken) = n
    <3>1. \A i \in places : history[i] \in {history[i0] : i0 \in places}
      OBVIOUS
    <3> QED
      BY <1>2, <3>1, FilteredType
  <2> QED
    BY <1>4, <2>1
<1> HIDE DEF taken, n
<1>6. \A k \in 1..n : Pnl(taken[k], point) \in Int
  BY <1>3, <1>4, PnlType
<1>7. book \in Ledgers
  BY <1>4, <1>6, BalanceType
<1>8. Evaluate(history, point) = score(taken)
  <2>1. {score(t) : t \in {taken}} = {score(taken)}
    OBVIOUS
  <2> HIDE DEF score
  <2> QED
    BY <1>1, <2>1
<1> HIDE DEF book
<1>9. score(taken) = [point |-> point, trades |-> Len(taken), pnl |-> book.equity,
                      score |-> 2 * book.equity - book.drawdown + 200 * Len(taken)]
  BY DEF book
<1>10. book.equity \in Int /\ 2 * book.equity - book.drawdown + 200 * Len(taken) \in Int /\ Len(taken) \in Int
  BY <1>5, <1>7 DEF Ledgers
<1> HIDE DEF score
<1> QED
  BY <1>8, <1>9, <1>10 DEF Scored

-----------------------------------------------------------------------------
(* What is recommended.                                                    *)

\* A history of trades that are worth numbers.
Sane(history) ==
    /\ Len(history) \in Nat /\ DOMAIN history = 1..Len(history)
    /\ \A i \in DOMAIN history : Worth(history[i])

LEMMA GridPoints == Len(Grid) \in Nat /\ DOMAIN Grid = 1..Len(Grid) /\ \A i \in DOMAIN Grid : Grid[i] \in Points4
<1>1. Grid \in Seq(Points4)
  BY NumbersAssumption DEF Points4
<1> QED
  BY <1>1, LenProperties, ElementOfSeq

\* Scores are ranked: a strict weak order.
LEMMA BetterRanks ==
  ASSUME NEW n \in Nat, NEW s, \A i \in 1..n : Scored(s[i])
  PROVE  Ranking(n, [i \in 1..n |-> {j \in 1..n : Better(s[j], s[i])}])
<1> DEFINE before == [i \in 1..n |-> {j \in 1..n : Better(s[j], s[i])}]
<1>1. ASSUME NEW a, NEW b, NEW c, Scored(a), Scored(b), Scored(c)
      PROVE  /\ ~Better(a, a)
             /\ Better(b, a) /\ Better(c, b) => Better(c, a)
             /\ Better(b, a) => Better(b, c) \/ Better(c, a)
  BY <1>1 DEF Better, Scored
<1>2. before \in [1..n -> SUBSET (1..n)]
  OBVIOUS
<1>3. \A i, j \in 1..n : j \in before[i] <=> Better(s[j], s[i])
  OBVIOUS
<1> HIDE DEF before
<1>4. \A i \in 1..n : i \notin before[i]
  BY <1>1, <1>3
<1>5. ASSUME NEW i \in 1..n, NEW j \in 1..n, NEW k \in 1..n
      PROVE  /\ j \in before[i] /\ k \in before[j] => k \in before[i]
             /\ j \in before[i] => j \in before[k] \/ k \in before[i]
  BY <1>1, <1>3
<1> QED
  BY <1>2, <1>4, <1>5 DEF Ranking, before

Tried(history, i) == Evaluate(history, Grid[i])

\* The results are the points with enough trades, all of them, none after a worse one.
Results(history, results) ==
    /\ \A k \in DOMAIN results : \E i \in DOMAIN Grid :
            results[k] = Tried(history, i) /\ Tried(history, i).trades >= Enough(history)
    /\ \A i \in DOMAIN Grid : Tried(history, i).trades >= Enough(history) => \E k \in DOMAIN results : results[k] = Tried(history, i)
    /\ \A k, l \in DOMAIN results : k < l => ~Better(results[l], results[k])

LEMMA OptimizedResults ==
  ASSUME NEW history, Sane(history)
  PROVE  /\ Results(history, Optimized(history))
         /\ \E n \in Nat : Optimized(history) = [k \in 1..n |-> Optimized(history)[k]]
<1> DEFINE tried == [i \in DOMAIN Grid |-> Evaluate(history, Grid[i])]
           places == {i \in DOMAIN tried : tried[i].trades >= Enough(history)}
           kept == Filtered(tried, places)
           at == Ascending(places)
           n == Cardinality(places)
           before == [i \in 1..n |-> {j \in 1..n : Better(kept[j], kept[i])}]
           sorted(t) == StableSort(Filtered(t, {i \in DOMAIN t : t[i].trades >= Enough(history)}), Better)
<1>1. Optimized(history) = sorted(tried)
  <2>1. Optimized(history) = CHOOSE result \in {sorted(t) : t \in {tried}} : TRUE
    BY DEF Optimized, Once
  <2> HIDE DEF tried, sorted
  <2>2. {sorted(t) : t \in {tried}} = {sorted(tried)}
    OBVIOUS
  <2> QED
    BY <2>1, <2>2
<1>2. sorted(tried) = StableSort(kept, Better)
  OBVIOUS
<1>3. /\ Len(Grid) \in Nat /\ DOMAIN Grid = 1..Len(Grid) /\ DOMAIN tried = 1..Len(Grid)
      /\ \A i \in DOMAIN Grid : tried[i] = Tried(history, i) /\ Scored(tried[i])
  <2>1. \A i \in DOMAIN Grid : Scored(Tried(history, i))
    BY GridPoints, EvaluateScores DEF Tried, Sane
  <2> QED
    BY <2>1, GridPoints DEF Tried
<1> HIDE DEF sorted, tried
<1>4. places \in SUBSET (1..Len(Grid)) /\ \A i \in DOMAIN Grid : i \in places <=> Tried(history, i).trades >= Enough(history)
  BY <1>3
<1> HIDE DEF places
<1>5. /\ n \in Nat /\ DOMAIN kept = 1..n /\ Lists(at, places)
      /\ \A k \in 1..n : kept[k] = tried[at[k]]
  BY <1>3, <1>4, FilteredLists
<1> HIDE DEF kept, at
<1>6. /\ \A k \in 1..n : at[k] \in places
      /\ \A i \in places : \E k \in 1..n : at[k] = i
  BY <1>5 DEF Lists, n
<1> HIDE DEF n
<1>7. \A k \in 1..n : at[k] \in DOMAIN Grid /\ kept[k] = Tried(history, at[k]) /\ Scored(kept[k])
  BY <1>3, <1>4, <1>5, <1>6
<1>8. Ranking(n, before)
  BY <1>5, <1>7, BetterRanks
<1>9. StableSort(kept, Better) = Arranged(kept, Ahead(n, before))
  <2>1. [i \in 1..n |-> {j \in 1..n : Better(kept[j], kept[i]) \/ (~Better(kept[i], kept[j]) /\ j < i)}] = Ahead(n, before)
    BY DEF Ahead
  <2> DEFINE arranged(t) == Arranged(t, [i \in DOMAIN t |-> {j \in DOMAIN t : Better(t[j], t[i]) \/ (~Better(t[i], t[j]) /\ j < i)}])
  <2>2. StableSort(kept, Better) = CHOOSE result \in {arranged(t) : t \in {kept}} : TRUE
    BY DEF StableSort, Once
  <2>3. arranged(kept) = Arranged(kept, Ahead(n, before))
    BY <1>5, <2>1
  <2> HIDE DEF arranged
  <2>4. {arranged(t) : t \in {kept}} = {arranged(kept)}
    OBVIOUS
  <2> QED
    BY <2>2, <2>3, <2>4
<1>10. \A i, j \in 1..n : j \in before[i] <=> Better(kept[j], kept[i])
  OBVIOUS
<1> HIDE DEF before
<1>11. PICK turn : Ordered(n, before, turn) /\ Arranged(kept, Ahead(n, before)) = [k \in 1..n |-> kept[turn[k]]]
  BY <1>5, <1>8, ArrangedOrders
<1> DEFINE results == Optimized(history)
<1>12. results = [k \in 1..n |-> kept[turn[k]]]
  BY <1>1, <1>2, <1>9, <1>11
<1> HIDE DEF results
<1>13. /\ \A k \in 1..n : turn[k] \in 1..n
       /\ \A i \in 1..n : \E k \in 1..n : turn[k] = i
       /\ \A k, l \in 1..n : k < l => turn[l] \notin before[turn[k]]
  BY <1>11 DEF Ordered
<1>14. ASSUME NEW k \in 1..n
       PROVE  \E i \in DOMAIN Grid : results[k] = Tried(history, i) /\ Tried(history, i).trades >= Enough(history)
  <2>1. results[k] = kept[turn[k]] /\ turn[k] \in 1..n
    BY <1>12, <1>13
  <2>2. at[turn[k]] \in DOMAIN Grid /\ at[turn[k]] \in places
    BY <1>6, <1>7, <2>1
  <2> QED
    BY <1>4, <1>7, <2>1, <2>2
<1>15. ASSUME NEW i \in DOMAIN Grid, Tried(history, i).trades >= Enough(history)
       PROVE  \E k \in 1..n : results[k] = Tried(history, i)
  <2>1. PICK j \in 1..n : at[j] = i
    BY <1>4, <1>6, <1>15
  <2>2. PICK k \in 1..n : turn[k] = j
    BY <1>13
  <2> QED
    BY <1>7, <1>12, <2>1, <2>2
<1>16. ASSUME NEW k \in 1..n, NEW l \in 1..n, k < l PROVE ~Better(results[l], results[k])
  <2> DEFINE i == turn[k]
             j == turn[l]
  <2>1. i \in 1..n /\ j \in 1..n /\ j \notin before[i]
    BY <1>13, <1>16
  <2>2. results[k] = kept[i] /\ results[l] = kept[j]
    BY <1>12
  <2> HIDE DEF i, j
  <2> QED
    BY <1>10, <2>1, <2>2
<1>17. results = [k \in 1..n |-> results[k]] /\ DOMAIN results = 1..n
  BY <1>12
<1> QED
  BY <1>5, <1>14, <1>15, <1>16, <1>17 DEF Results, results

\* The disciplined points with enough trades.
WorthyOf(history) ==
    {m \in {Evaluate(history, Grid[i]) : i \in DOMAIN Grid} : Disciplined(m.point) /\ m.trades >= Enough(history)}

LEMMA RecommendedIsBest ==
  ASSUME NEW history, Sane(history)
  PROVE  /\ Recommended(history) \in Points4
         /\ WorthyOf(history) # {} =>
                \E m \in WorthyOf(history) : m.point = Recommended(history) /\ \A other \in WorthyOf(history) : ~Better(other, m)
<1> DEFINE results == Optimized(history)
           places == {i \in DOMAIN results : Disciplined(results[i].point)}
           eligible == Filtered(results, places)
           first == Ascending(places)[1]
<1>1. Results(history, results)
  BY OptimizedResults
<1>2. PICK n \in Nat : results = [k \in 1..n |-> results[k]]
  BY OptimizedResults
<1>3. Recommended(history) = IF eligible # <<>> THEN eligible[1].point ELSE IF results # <<>> THEN results[1].point ELSE Current
  BY DEF Recommended
<1> HIDE DEF results
<1>4. \A i \in DOMAIN Grid : Tried(history, i).point = Grid[i] /\ Grid[i] \in Points4
  BY GridPoints, EvaluateScores DEF Tried, Sane
<1>5. \A k \in 1..n : results[k].point \in Points4
  BY <1>1, <1>2, <1>4 DEF Results
<1>6. places \in SUBSET (1..n) /\ \A k \in 1..n : k \in places <=> Disciplined(results[k].point)
  BY <1>2
<1> HIDE DEF places
<1>71. eligible = [k \in DOMAIN Ascending(places) |-> results[Ascending(places)[k]]]
  BY FilteredIs
<1>7. /\ DOMAIN eligible = 1..Cardinality(places) /\ Cardinality(places) \in Nat
      /\ \A k \in 1..Cardinality(places) : eligible[k] = results[Ascending(places)[k]]
  BY <1>2, <1>6, FilteredLists
<1> HIDE DEF eligible
<1>8. CASE places # {}
  <2>1. 1 \in 1..Cardinality(places) /\ first \in places /\ \A x \in places : first <= x
    BY <1>6, <1>8, FirstListed
  <2>2. eligible # <<>> /\ eligible[1] = results[first]
    <3>1. eligible[1] = results[first] /\ 1 \in DOMAIN eligible
      BY <1>7, <2>1
    <3> QED
      BY <3>1
  <2>3. Recommended(history) = results[first].point
    BY <1>3, <2>2
  <2> HIDE DEF first
  <2>4. first \in 1..n /\ Disciplined(results[first].point)
    BY <1>6, <2>1
  <2>5. PICK i \in DOMAIN Grid : results[first] = Tried(history, i) /\ Tried(history, i).trades >= Enough(history)
    BY <1>1, <1>2, <2>4 DEF Results
  <2>6. results[first] \in WorthyOf(history)
    BY <2>4, <2>5 DEF WorthyOf, Tried
  <2>7. ASSUME NEW other \in WorthyOf(history) PROVE ~Better(other, results[first])
    <3>1. PICK j \in DOMAIN Grid : other = Tried(history, j)
      BY DEF WorthyOf, Tried
    <3>2. other.trades >= Enough(history) /\ Disciplined(other.point)
      BY DEF WorthyOf
    <3>3. PICK k \in 1..n : results[k] = other
      BY <1>1, <1>2, <3>1, <3>2 DEF Results
    <3>4. k \in places
      BY <1>6, <3>2, <3>3
    <3>5. k = first \/ first < k
      BY <1>6, <2>1, <2>4, <3>4
    <3>6. CASE k = first
      <4>1. Scored(other)
        BY <3>1, GridPoints, EvaluateScores DEF Tried, Sane
      <4>2. ~Better(other, other)
        BY <4>1 DEF Scored, Better
      <4> QED
        BY <3>3, <3>6, <4>2
    <3>7. CASE first < k
      BY <1>1, <1>2, <2>4, <3>3, <3>7 DEF Results
    <3> QED
      BY <3>5, <3>6, <3>7
  <2> QED
    BY <1>5, <2>3, <2>4, <2>6, <2>7
<1>9. CASE places = {}
  <2>1. WorthyOf(history) = {}
    <3>1. ASSUME NEW m \in WorthyOf(history) PROVE FALSE
      <4>1. PICK j \in DOMAIN Grid : m = Tried(history, j)
        BY DEF WorthyOf, Tried
      <4>2. m.trades >= Enough(history) /\ Disciplined(m.point)
        BY DEF WorthyOf
      <4>3. PICK k \in 1..n : results[k] = m
        BY <1>1, <1>2, <4>1, <4>2 DEF Results
      <4> QED
        BY <1>6, <1>9, <4>2, <4>3
    <3> QED
      BY <3>1
  <2>2. Current \in Points4
    BY NumbersAssumption DEF Current, Points4
  <2>3. results # <<>> => results[1].point \in Points4
    <3>1. n = 0 => results = <<>>
      <4>1. ASSUME n = 0 PROVE results = <<>>
        <5>1. DOMAIN results = {}
          BY <1>2, <4>1
        <5> QED
          BY <1>2, <4>1, <5>1
      <4> QED
        BY <4>1
    <3>2. n # 0 => 1 \in 1..n
      OBVIOUS
    <3> QED
      BY <1>5, <3>1, <3>2
  <2>4. eligible = <<>>
    <3>1. Cardinality({}) = 0
      BY FS_EmptySet
    <3>2. DOMAIN eligible = {}
      BY <1>7, <1>9, <3>1
    <3>3. DOMAIN Ascending(places) = {}
      BY <1>71, <3>2
    <3> QED
      BY <1>71, <3>3
  <2> QED
    BY <1>3, <2>1, <2>2, <2>3, <2>4
<1> QED
  BY <1>8, <1>9

-----------------------------------------------------------------------------
(* The blocks of a calibrator.                                             *)

\* So many trades, of which so many were right, the last of them at x.
Block == {b \in [sum : Nat, n : Nat \ {0}, x : Int] : b.sum <= b.n}

\* Of the lower mean.
Below(a, b) == a.sum * b.n < b.sum * a.n

LEMMA BelowTransitive ==
  ASSUME NEW a \in Block, NEW b \in Block, NEW c \in Block, Below(a, b), Below(b, c)
  PROVE  Below(a, c)
<1>1. \A p, q, r, s, t, u \in Nat : q > 0 /\ s > 0 /\ u > 0 /\ p * s < r * q /\ r * u < t * s => p * u < t * q
  <2>1. ASSUME NEW p \in Nat, NEW q \in Nat, NEW r \in Nat, NEW s \in Nat, NEW t \in Nat, NEW u \in Nat,
               q > 0, s > 0, u > 0, p * s < r * q, r * u < t * s
        PROVE  p * u < t * q
    <3>1. (p * s) * u < (r * q) * u
      BY <2>1
    <3>2. (r * u) * q < (t * s) * q
      BY <2>1
    <3>3. (p * s) * u < (t * s) * q
      BY <3>1, <3>2
    <3>4. (p * u) * s < (t * q) * s
      BY <3>3
    <3> QED
      BY <2>1, <3>4
  <2> QED
    BY <2>1
<1> QED
  BY <1>1 DEF Below, Block

Pools == [kept : Seq(Block), block : Block]
Met(top, pool) ==
    IF pool.kept = <<>> /\ top.sum * pool.block.n >= pool.block.sum * top.n
    THEN [pool EXCEPT !.block.sum = @ + top.sum, !.block.n = @ + top.n]
    ELSE [pool EXCEPT !.kept = <<top>> \o @]

Pooling(g, stack, block) ==
    g = [s \in SUBSET DOMAIN stack |-> IF s = {} THEN [kept |-> <<>>, block |-> block]
                                       ELSE Met(stack[Min(s)], g[s \ {Min(s)}])]
Pooled(stack, block) == (CHOOSE g : Pooling(g, stack, block))[DOMAIN stack]

LEMMA PoolIsFold ==
  ASSUME NEW stack, NEW block
  PROVE  Pool(stack, block) = Append(Pooled(stack, block).kept, Pooled(stack, block).block)
  BY DEF Pool, FoldRight, MapThenFoldSet, Pooling, Pooled, Met

LEMMA MetType ==
  ASSUME NEW top \in Block, NEW pool \in Pools
  PROVE  /\ Met(top, pool) \in Pools
         /\ Met(top, pool) =
                IF pool.kept = <<>> /\ ~Below(top, pool.block)
                THEN [kept |-> <<>>, block |-> [sum |-> pool.block.sum + top.sum, n |-> pool.block.n + top.n, x |-> pool.block.x]]
                ELSE [kept |-> <<top>> \o pool.kept, block |-> pool.block]
<1> DEFINE b == pool.block
           merges == pool.kept = <<>> /\ top.sum * b.n >= b.sum * top.n
           wide == [sum |-> b.sum + top.sum, n |-> b.n + top.n, x |-> b.x]
<1>1. b \in Block /\ pool.kept \in Seq(Block) /\ pool = [kept |-> pool.kept, block |-> b]
  BY DEF Pools
<1>2. b = [sum |-> b.sum, n |-> b.n, x |-> b.x] /\ {b.sum, b.n, top.sum, top.n} \subseteq Nat
  BY <1>1 DEF Block
<1>3. [pool EXCEPT !.block.sum = @ + top.sum, !.block.n = @ + top.n] = [kept |-> pool.kept, block |-> wide]
  <2>1. pool = [kept |-> pool.kept, block |-> [sum |-> b.sum, n |-> b.n, x |-> b.x]]
    BY <1>1, <1>2
  <2> HIDE DEF b
  <2> DEFINE p == [kept |-> pool.kept, block |-> [sum |-> b.sum, n |-> b.n, x |-> b.x]]
             q == [kept |-> pool.kept, block |-> [sum |-> b.sum + top.sum, n |-> b.n, x |-> b.x]]
  <2>2. [p EXCEPT !.block.sum = @ + top.sum, !.block.n = @ + top.n]
        = [[p EXCEPT !.block.sum = @ + top.sum] EXCEPT !.block.n = @ + top.n]
    OBVIOUS
  <2>3. [p EXCEPT !.block.sum = @ + top.sum] = q
    OBVIOUS
  <2>4. [q EXCEPT !.block.n = @ + top.n] = [kept |-> pool.kept, block |-> wide]
    OBVIOUS
  <2>5. pool = p
    BY <2>1
  <2> HIDE DEF p, q
  <2>6. [[p EXCEPT !.block.sum = @ + top.sum] EXCEPT !.block.n = @ + top.n] = [q EXCEPT !.block.n = @ + top.n]
    BY <2>3
  <2> QED
    BY <2>2, <2>4, <2>5, <2>6
<1>4. [pool EXCEPT !.kept = <<top>> \o @] = [kept |-> <<top>> \o pool.kept, block |-> b]
  <2> DEFINE p == [kept |-> pool.kept, block |-> b]
             new == <<top>> \o pool.kept
  <2>1. [pool EXCEPT !.kept = <<top>> \o @] = [pool EXCEPT !.kept = new]
    OBVIOUS
  <2> HIDE DEF new, b
  <2>3. [p EXCEPT !.kept = new] = [kept |-> new, block |-> b]
    OBVIOUS
  <2>4. pool = p
    BY <1>1 DEF b
  <2> HIDE DEF p
  <2>5. [pool EXCEPT !.kept = new] = [kept |-> new, block |-> b]
    BY <2>3, <2>4, Zenon
  <2> QED
    BY <2>1, <2>5 DEF new
<1>5. (top.sum * b.n >= b.sum * top.n) <=> ~Below(top, b)
  BY <1>2 DEF Below
<1>6. wide \in Block
  BY <1>1 DEF Block
<1>7. <<top>> \o pool.kept \in Seq(Block)
  BY <1>1
<1>8. Met(top, pool) = IF merges THEN [kept |-> pool.kept, block |-> wide] ELSE [kept |-> <<top>> \o pool.kept, block |-> b]
  BY <1>3, <1>4 DEF Met
<1>9. <<>> \in Seq(Block)
  OBVIOUS
<1> HIDE DEF b, wide
<1>10. CASE merges
  <2>1. Met(top, pool) = [kept |-> <<>>, block |-> wide]
    BY <1>8, <1>10
  <2>2. pool.kept = <<>> /\ ~Below(top, b)
    BY <1>5, <1>10
  <2> QED
    BY <1>6, <1>9, <2>1, <2>2 DEF Pools, b, wide
<1>11. CASE ~merges
  <2>1. Met(top, pool) = [kept |-> <<top>> \o pool.kept, block |-> b]
    BY <1>8, <1>11
  <2>2. ~(pool.kept = <<>> /\ ~Below(top, b))
    BY <1>5, <1>11
  <2> QED
    BY <1>1, <1>7, <2>1, <2>2 DEF Pools, b
<1> QED
  BY <1>10, <1>11

\* The first of the last places.
LEMMA FirstOfLast ==
  ASSUME NEW n \in Nat, NEW i \in 1..n
  PROVE  Min(i..n) = i /\ (i..n) \ {i} = i + 1..n /\ i..n \in SUBSET (1..n) /\ i..n # {}
<1>1. i..n \in SUBSET (1..n) /\ i \in i..n /\ (i..n) \ {i} = i + 1..n
  OBVIOUS
<1>2. IsFiniteSet(i..n) /\ i..n \subseteq Int
  BY FS_Interval
<1>3. Min(i..n) \in i..n /\ Min(i..n) <= i
  BY <1>1, <1>2, BoundsIn
<1>4. Min(i..n) = i
  BY <1>3
<1> QED
  BY <1>1, <1>4

\* The pools there are from the last block to the first.
PoolWalks(stack, block) ==
    \E g \in [SUBSET DOMAIN stack -> Pools] :
        /\ Pooled(stack, block) = g[DOMAIN stack]
        /\ g[{}] = [kept |-> <<>>, block |-> block]
        /\ \A s \in SUBSET DOMAIN stack : s # {} => g[s] = Met(stack[Min(s)], g[s \ {Min(s)}])

LEMMA PooledIsWalk ==
  ASSUME NEW stack \in Seq(Block), NEW block \in Block
  PROVE  PoolWalks(stack, block)
<1> DEFINE S == DOMAIN stack
           base == [kept |-> <<>>, block |-> block]
           pick == [s \in SUBSET S |-> Min(s)]
           step == [i \in S |-> [pool \in Pools |-> Met(stack[i], pool)]]
           g == CHOOSE h : Pooling(h, stack, block)
<1>1. S = 1..Len(stack) /\ Len(stack) \in Nat /\ \A i \in S : stack[i] \in Block
  BY LenProperties, ElementOfSeq
<1>2. IsFiniteSet(S) /\ S \subseteq Int
  BY <1>1, FS_Interval
<1>3. base \in Pools
  BY DEF Pools
<1>4. ASSUME NEW s \in SUBSET S PROVE pick[s] = Min(s) /\ (s # {} => pick[s] \in s)
  <2>1. IsFiniteSet(s) /\ s \subseteq Int
    BY <1>2, FS_Subset
  <2> QED
    BY <2>1, BoundsIn
<1>5. \A i \in S : \A pool \in Pools : Met(stack[i], pool) \in Pools
  BY <1>1, MetType
<1>6. step \in [S -> [Pools -> Pools]] /\ \A i \in S : \A pool \in Pools : step[i][pool] = Met(stack[i], pool)
  BY <1>5
<1> HIDE DEF S, pick, step, base
<1>7. Folds(S, Pools, base, pick, step)
  <2>1. \A s \in SUBSET S : s # {} => pick[s] \in s
    BY <1>4
  <2> QED
    BY <1>2, <1>3, <1>6, <2>1, FoldExists, Zenon
<1>8. PICK h \in [SUBSET S -> Pools] : Unfolds(h, base, pick, step, SUBSET S)
  BY <1>7 DEF Folds
<1>9. Pooling(h, stack, block)
  <2>1. ASSUME NEW s \in SUBSET S PROVE h[s] = IF s = {} THEN base ELSE Met(stack[Min(s)], h[s \ {Min(s)}])
    <3>1. h[s] = IF s = {} THEN base ELSE step[pick[s]][h[s \ {pick[s]}]]
      BY <1>8 DEF Unfolds
    <3>2. s # {} => pick[s] \in S /\ h[s \ {pick[s]}] \in Pools /\ pick[s] = Min(s)
      BY <1>4
    <3> QED
      BY <1>6, <3>1, <3>2
  <2>2. h = [s \in SUBSET S |-> h[s]]
    OBVIOUS
  <2> QED
    BY <2>1, <2>2 DEF Pooling, S, base
<1>10. Pooling(g, stack, block)
  BY <1>9
<1>11. Pooled(stack, block) = g[S]
  BY DEF Pooled, S
<1> HIDE DEF g
<1>12. g = [s \in SUBSET S |-> g[s]]
       /\ \A s \in SUBSET S : g[s] = IF s = {} THEN base ELSE Met(stack[Min(s)], g[s \ {Min(s)}])
  BY <1>10 DEF Pooling, S, base
<1> DEFINE Good == {s \in SUBSET S : g[s] \in Pools}
<1>13. ASSUME NEW s \in SUBSET S, \A x \in s : s \ {x} \in Good PROVE s \in Good
  <2>1. s # {} => Min(s) \in s /\ Min(s) \in S
    BY <1>4
  <2>2. CASE s = {}
    BY <1>3, <1>12, <2>2
  <2>3. CASE s # {}
    <3>1. g[s] = Met(stack[Min(s)], g[s \ {Min(s)}]) /\ g[s \ {Min(s)}] \in Pools
      BY <1>12, <1>13, <2>1, <2>3
    <3> QED
      BY <1>5, <2>1, <2>3, <3>1
  <2> QED
    BY <2>2, <2>3
<1>14. \A s \in SUBSET S : g[s] \in Pools
  <2>1. ASSUME NEW t \in SUBSET S PROVE t \in Good
    <3>1. IsFiniteSet(t)
      BY <1>2, FS_Subset
    <3>2. \A s \in SUBSET t : (\A x \in s : s \ {x} \in Good) => s \in Good
      BY <1>13
    <3> HIDE DEF Good
    <3> QED
      BY <3>1, <3>2, SubsetInduction
  <2> QED
    BY <2>1
<1>15. g \in [SUBSET S -> Pools]
  BY <1>12, <1>14
<1> QED
  BY <1>11, <1>12, <1>15 DEF PoolWalks, S, base

-----------------------------------------------------------------------------
(* Pooling leaves the first blocks and merges the others.                  *)

Sizes(blocks) == [k \in DOMAIN blocks |-> blocks[k].n]
Rights(blocks) == [k \in DOMAIN blocks |-> blocks[k].sum]
Total(blocks, a, b) == SumFunctionOnSet(Sizes(blocks), a..b)
Right(blocks, a, b) == SumFunctionOnSet(Rights(blocks), a..b)

\* Blocks from a place on: the first one and the others.
LEMMA TotalsSplit ==
  ASSUME NEW blocks \in Seq(Block), NEW a \in 1..Len(blocks), NEW b \in a..Len(blocks)
  PROVE  /\ Total(blocks, a, b) = blocks[a].n + Total(blocks, a + 1, b)
         /\ Right(blocks, a, b) = blocks[a].sum + Right(blocks, a + 1, b)
         /\ Total(blocks, a, b) = Total(blocks, a, b - 1) + blocks[b].n
         /\ Right(blocks, a, b) = Right(blocks, a, b - 1) + blocks[b].sum
<1>1. Len(blocks) \in Nat /\ DOMAIN blocks = 1..Len(blocks) /\ \A k \in 1..Len(blocks) : blocks[k] \in Block
  BY LenProperties, ElementOfSeq
<1>2. \A k \in a..b : Sizes(blocks)[k] = blocks[k].n /\ Rights(blocks)[k] = blocks[k].sum /\ blocks[k].n \in Int /\ blocks[k].sum \in Int
  BY <1>1 DEF Sizes, Rights, Block
<1>3. IsFiniteSet(a..b) /\ a \in a..b /\ b \in a..b /\ (a..b) \ {a} = a + 1..b /\ (a..b) \ {b} = a..b - 1
  <2>1. a \in Int /\ b \in Int /\ a <= b
    BY <1>1
  <2>2. IsFiniteSet(a..b)
    BY <2>1, FS_Interval
  <2>3. a \in a..b /\ b \in a..b /\ (a..b) \ {a} = a + 1..b /\ (a..b) \ {b} = a..b - 1
    BY <2>1
  <2> QED
    BY <2>2, <2>3
<1>4. \A k \in a..b : Sizes(blocks)[k] \in Int /\ Rights(blocks)[k] \in Int
  BY <1>2
<1>5. /\ SumFunctionOnSet(Sizes(blocks), a..b) = Sizes(blocks)[a] + SumFunctionOnSet(Sizes(blocks), (a..b) \ {a})
      /\ SumFunctionOnSet(Rights(blocks), a..b) = Rights(blocks)[a] + SumFunctionOnSet(Rights(blocks), (a..b) \ {a})
      /\ SumFunctionOnSet(Sizes(blocks), a..b) = Sizes(blocks)[b] + SumFunctionOnSet(Sizes(blocks), (a..b) \ {b})
      /\ SumFunctionOnSet(Rights(blocks), a..b) = Rights(blocks)[b] + SumFunctionOnSet(Rights(blocks), (a..b) \ {b})
  <2>1. /\ SumFunctionOnSet(Sizes(blocks), a..b) = Sizes(blocks)[a] + SumFunctionOnSet(Sizes(blocks), (a..b) \ {a})
        /\ SumFunctionOnSet(Sizes(blocks), a..b) = Sizes(blocks)[b] + SumFunctionOnSet(Sizes(blocks), (a..b) \ {b})
    BY <1>3, <1>4, SumSplits
  <2>2. /\ SumFunctionOnSet(Rights(blocks), a..b) = Rights(blocks)[a] + SumFunctionOnSet(Rights(blocks), (a..b) \ {a})
        /\ SumFunctionOnSet(Rights(blocks), a..b) = Rights(blocks)[b] + SumFunctionOnSet(Rights(blocks), (a..b) \ {b})
    BY <1>3, <1>4, SumSplits
  <2> QED
    BY <2>1, <2>2
<1>6. SumFunctionOnSet(Sizes(blocks), a..b - 1) \in Int /\ SumFunctionOnSet(Rights(blocks), a..b - 1) \in Int
  <2>1. IsFiniteSet(a..b - 1) /\ \A k \in a..b - 1 : Sizes(blocks)[k] \in Int /\ Rights(blocks)[k] \in Int
    <3>1. a..b - 1 \in SUBSET (a..b)
      BY <1>3
    <3>2. IsFiniteSet(a..b - 1)
      BY <1>3, <3>1, FS_Subset
    <3> QED
      BY <1>4, <3>1, <3>2
  <2> QED
    BY <2>1, SumType
<1>7. /\ Total(blocks, a, b) = Sizes(blocks)[a] + Total(blocks, a + 1, b)
      /\ Right(blocks, a, b) = Rights(blocks)[a] + Right(blocks, a + 1, b)
      /\ Total(blocks, a, b) = Sizes(blocks)[b] + Total(blocks, a, b - 1)
      /\ Right(blocks, a, b) = Rights(blocks)[b] + Right(blocks, a, b - 1)
  BY <1>3, <1>5 DEF Total, Right
<1>8. Total(blocks, a, b - 1) \in Int /\ Right(blocks, a, b - 1) \in Int
  BY <1>6 DEF Total, Right
<1>9. /\ Sizes(blocks)[a] = blocks[a].n /\ Rights(blocks)[a] = blocks[a].sum
      /\ Sizes(blocks)[b] = blocks[b].n /\ Rights(blocks)[b] = blocks[b].sum
      /\ blocks[b].n \in Int /\ blocks[b].sum \in Int
  BY <1>2, <1>3
<1>10. /\ Sizes(blocks)[b] + Total(blocks, a, b - 1) = Total(blocks, a, b - 1) + blocks[b].n
       /\ Rights(blocks)[b] + Right(blocks, a, b - 1) = Right(blocks, a, b - 1) + blocks[b].sum
  BY <1>8, <1>9
<1> QED
  BY <1>7, <1>9, <1>10

LEMMA TotalsType ==
  ASSUME NEW blocks \in Seq(Block), NEW a \in Nat \ {0}, NEW b \in 0..Len(blocks)
  PROVE  Total(blocks, a, b) \in Int /\ Right(blocks, a, b) \in Int
<1>1. Len(blocks) \in Nat /\ DOMAIN blocks = 1..Len(blocks) /\ \A k \in 1..Len(blocks) : blocks[k] \in Block
  BY LenProperties, ElementOfSeq
<1>2. a..b \in SUBSET (1..Len(blocks))
  BY <1>1
<1>3. IsFiniteSet(a..b)
  BY <1>1, <1>2, PlacesAreFinite
<1>4. \A k \in a..b : Sizes(blocks)[k] \in Int /\ Rights(blocks)[k] \in Int
  BY <1>1, <1>2 DEF Sizes, Rights, Block
<1> QED
  BY <1>3, <1>4, SumType DEF Total, Right

\* A block with all those of the stack after the first so many.
Merged(stack, block, m) ==
    [sum |-> block.sum + Right(stack, m + 1, Len(stack)),
     n   |-> block.n + Total(stack, m + 1, Len(stack)),
     x   |-> block.x]

\* Of the stack from a place on, some are kept, and the others are merged.
Shape(pool, stack, block, i) ==
    \E m \in i - 1..Len(stack) :
        /\ pool.kept = [k \in 1..m - i + 1 |-> stack[i + k - 1]]
        /\ pool.block = Merged(stack, block, m)
        /\ m >= i => Below(stack[m], pool.block)
        /\ \A t \in m + 1..Len(stack) : ~Below(stack[t], Merged(stack, block, t))

LEMMA ShapeAtEnd ==
  ASSUME NEW stack \in Seq(Block), NEW block \in Block
  PROVE  Shape([kept |-> <<>>, block |-> block], stack, block, Len(stack) + 1)
<1> DEFINE n == Len(stack)
<1>1. n \in Nat
  BY LenProperties
<1>2. n + 1..n = {}
  BY <1>1
<1>3. Total(stack, n + 1, n) = 0 /\ Right(stack, n + 1, n) = 0
  BY <1>2, EmptySum DEF Total, Right
<1>4. Merged(stack, block, n) = block
  <2>1. block.sum + 0 = block.sum /\ block.n + 0 = block.n /\ block = [sum |-> block.sum, n |-> block.n, x |-> block.x]
    BY DEF Block
  <2> QED
    BY <1>3, <2>1 DEF Merged
<1> HIDE DEF n
<1>5. n \in (n + 1) - 1..n /\ n - (n + 1) + 1 = 0 /\ ~(n >= n + 1)
  BY <1>1
<1>6. <<>> = [k \in 1..0 |-> stack[n + 1 + k - 1]]
  OBVIOUS
<1>7. [kept |-> <<>>, block |-> block].kept = [k \in 1..n - (n + 1) + 1 |-> stack[n + 1 + k - 1]]
  BY <1>5, <1>6
<1> QED
  BY <1>2, <1>4, <1>5, <1>7 DEF Shape, n

LEMMA ShapeBefore ==
  ASSUME NEW stack \in Seq(Block), NEW block \in Block, NEW i \in 1..Len(stack),
         NEW pool \in Pools, Shape(pool, stack, block, i + 1)
  PROVE  Shape(Met(stack[i], pool), stack, block, i)
<1> DEFINE n == Len(stack)
           top == stack[i]
           new == Met(top, pool)
<1>1. n \in Nat /\ top \in Block /\ i \in 1..n /\ \A k \in 1..n : stack[k] \in Block
  BY LenProperties, ElementOfSeq
<1>2. PICK m \in i..n : /\ pool.kept = [k \in 1..m - i |-> stack[i + k]]
                        /\ pool.block = Merged(stack, block, m)
                        /\ m >= i + 1 => Below(stack[m], pool.block)
                        /\ \A t \in m + 1..n : ~Below(stack[t], Merged(stack, block, t))
  <2>1. PICK m \in (i + 1) - 1..n : /\ pool.kept = [k \in 1..m - (i + 1) + 1 |-> stack[(i + 1) + k - 1]]
                                    /\ pool.block = Merged(stack, block, m)
                                    /\ m >= i + 1 => Below(stack[m], pool.block)
                                    /\ \A t \in m + 1..n : ~Below(stack[t], Merged(stack, block, t))
    BY DEF Shape
  <2>2. m \in i..n /\ m - (i + 1) + 1 = m - i
    BY <1>1
  <2>3. pool.kept = [k \in 1..m - i |-> stack[i + k]]
    <3>1. \A k \in 1..m - i : (i + 1) + k - 1 = i + k
      BY <1>1, <2>2
    <3> QED
      BY <2>1, <2>2, <3>1
  <2> QED
    BY <2>1, <2>2, <2>3
<1>3. new = IF pool.kept = <<>> /\ ~Below(top, pool.block)
            THEN [kept |-> <<>>, block |-> [sum |-> pool.block.sum + top.sum, n |-> pool.block.n + top.n, x |-> pool.block.x]]
            ELSE [kept |-> <<top>> \o pool.kept, block |-> pool.block]
  BY <1>1, MetType
<1>4. pool.kept \in Seq(Block) /\ DOMAIN pool.kept = 1..m - i /\ m - i \in Nat /\ Len(pool.kept) = m - i
  <2>1. pool.kept \in Seq(Block) /\ DOMAIN pool.kept = 1..m - i /\ m - i \in Nat
    BY <1>1, <1>2 DEF Pools
  <2> QED
    BY <2>1, LenProperties
<1>5. pool.kept = <<>> <=> m = i
  <2>1. m \in Int /\ i \in Int
    BY <1>1
  <2> QED
    BY <1>4, <2>1
<1> HIDE DEF new, top
<1>6. CASE pool.kept = <<>> /\ ~Below(top, pool.block)
  <2>1. m = i /\ i - 1 \in i - 1..n /\ (i - 1) - i + 1 = 0 /\ ~(i - 1 >= i) /\ (i - 1) + 1 = i
    BY <1>1, <1>5, <1>6
  <2>2. new.kept = [k \in 1..0 |-> stack[i + k - 1]] /\ new.block = [sum |-> pool.block.sum + top.sum, n |-> pool.block.n + top.n, x |-> pool.block.x]
    BY <1>3, <1>6
  <2>3. /\ Total(stack, i, n) = top.n + Total(stack, i + 1, n)
        /\ Right(stack, i, n) = top.sum + Right(stack, i + 1, n)
    BY <1>1, TotalsSplit DEF top, n
  <2>4. /\ pool.block.sum = block.sum + Right(stack, i + 1, n) /\ pool.block.n = block.n + Total(stack, i + 1, n)
        /\ pool.block.x = block.x
    BY <1>2, <2>1 DEF Merged, n
  <2>5. Total(stack, i + 1, n) \in Int /\ Right(stack, i + 1, n) \in Int
    BY <1>1, TotalsType DEF n
  <2>6. {block.sum, block.n, top.sum, top.n} \subseteq Int
    BY <1>1 DEF Block
  <2>7. /\ pool.block.sum + top.sum = block.sum + Right(stack, i, n)
        /\ pool.block.n + top.n = block.n + Total(stack, i, n)
    BY <2>3, <2>4, <2>5, <2>6
  <2>8. new.block = Merged(stack, block, i - 1)
    BY <2>1, <2>2, <2>4, <2>7 DEF Merged, n
  <2>9. ASSUME NEW t \in (i - 1) + 1..n PROVE ~Below(stack[t], Merged(stack, block, t))
    <3>1. t = i \/ t \in m + 1..n
      BY <1>1, <2>1
    <3>2. CASE t = i
      BY <1>2, <1>6, <2>1, <3>2 DEF top
    <3> QED
      BY <1>2, <3>1, <3>2
  <2> QED
    BY <2>1, <2>2, <2>8, <2>9 DEF Shape, new, top, n
<1>7. CASE ~(pool.kept = <<>> /\ ~Below(top, pool.block))
  <2>1. new.kept = <<top>> \o pool.kept /\ new.block = pool.block
    BY <1>3, <1>7
  <2>2. new.kept = [k \in 1..m - i + 1 |-> stack[i + k - 1]]
    <3> DEFINE h == <<top>> \o pool.kept
    <3>1. h \in Seq(Block) /\ Len(h) = m - i + 1 /\ DOMAIN h = 1..m - i + 1 /\ h[1] = top
          /\ \A k \in 1..m - i : h[k + 1] = pool.kept[k]
      <4>1. <<top>> \in Seq(Block) /\ Len(<<top>>) = 1 /\ <<top>>[1] = top
        BY <1>1
      <4> DEFINE one == <<top>>
                 kept == pool.kept
                 l == m - i
      <4>2. one \in Seq(Block) /\ Len(one) = 1 /\ one[1] = top
        BY <4>1
      <4>3. kept \in Seq(Block) /\ Len(kept) = l /\ l \in Nat
        BY <1>4
      <4> HIDE DEF one, kept, l
      <4>4. one \o kept \in Seq(Block) /\ Len(one \o kept) = l + 1
            /\ \A k \in 1..l + 1 : (one \o kept)[k] = IF k <= 1 THEN one[k] ELSE kept[k - 1]
        <5>1. /\ one \o kept \in Seq(Block) /\ Len(one \o kept) = Len(one) + Len(kept)
              /\ \A k \in 1..Len(one) + Len(kept) : (one \o kept)[k] = IF k <= Len(one) THEN one[k] ELSE kept[k - Len(one)]
          BY <4>2, <4>3, ConcatProperties
        <5>2. Len(one) + Len(kept) = l + 1 /\ Len(one) = 1
          BY <4>2, <4>3
        <5> QED
          BY <5>1, <5>2
      <4>5. DOMAIN (one \o kept) = 1..l + 1
        BY <4>4, LenProperties
      <4>6. (one \o kept)[1] = top /\ \A k \in 1..l : (one \o kept)[k + 1] = kept[k]
        <5>1. \A k \in 1..l : k + 1 \in 1..l + 1 /\ ~(k + 1 <= 1) /\ (k + 1) - 1 = k
          BY <4>3
        <5>2. 1 \in 1..l + 1
          BY <4>3
        <5>3. ASSUME NEW k \in 1..l PROVE (one \o kept)[k + 1] = kept[k]
          BY <4>4, <5>1
        <5>4. (one \o kept)[1] = top
          BY <4>2, <4>4, <5>2
        <5> QED
          BY <5>3, <5>4
      <4> QED
        BY <4>4, <4>5, <4>6 DEF one, kept, l
    <3> HIDE DEF h
    <3>2. ASSUME NEW k \in 1..m - i + 1 PROVE h[k] = stack[i + k - 1]
      <4>1. CASE k = 1
        BY <1>1, <3>1, <4>1 DEF top
      <4>2. CASE k # 1
        <5>1. k - 1 \in 1..m - i /\ (k - 1) + 1 = k /\ i + (k - 1) = i + k - 1
          BY <1>1, <4>2
        <5>2. h[k] = pool.kept[k - 1] /\ pool.kept[k - 1] = stack[i + (k - 1)]
          BY <1>2, <3>1, <5>1
        <5> QED
          BY <5>1, <5>2
      <4> QED
        BY <4>1, <4>2
    <3>3. h = [k \in 1..m - i + 1 |-> h[k]]
      <4>1. h = [k \in DOMAIN h |-> h[k]]
        BY <3>1
      <4> QED
        BY <3>1, <4>1
    <3> QED
      BY <2>1, <3>2, <3>3 DEF h
  <2>3. Below(stack[m], new.block)
    <3>1. CASE m = i
      BY <1>5, <1>7, <2>1, <3>1 DEF top
    <3>2. CASE m # i
      <4>1. m >= i + 1
        BY <1>1, <3>2
      <4> QED
        BY <1>2, <2>1, <4>1
    <3> QED
      BY <3>1, <3>2
  <2>4. m \in i - 1..n
    BY <1>1
  <2> QED
    BY <1>2, <2>1, <2>2, <2>3, <2>4 DEF Shape, new, top, n
<1> QED
  BY <1>6, <1>7 DEF new, top

\* What a pool is in the end.
LEMMA PoolShape ==
  ASSUME NEW stack \in Seq(Block), NEW block \in Block
  PROVE  \E m \in 0..Len(stack) :
            /\ Pool(stack, block) \in Seq(Block) /\ Len(Pool(stack, block)) = m + 1
            /\ \A k \in 1..m : Pool(stack, block)[k] = stack[k]
            /\ Pool(stack, block)[m + 1] = Merged(stack, block, m)
            /\ m >= 1 => Below(stack[m], Merged(stack, block, m))
            /\ \A t \in m + 1..Len(stack) : ~Below(stack[t], Merged(stack, block, t))
<1> DEFINE n == Len(stack)
           last == [kept |-> <<>>, block |-> block]
<1>1. n \in Nat /\ DOMAIN stack = 1..n
  BY LenProperties
<1>2. PICK g \in [SUBSET (1..n) -> Pools] :
        /\ Pooled(stack, block) = g[1..n]
        /\ g[{}] = last
        /\ \A s \in SUBSET (1..n) : s # {} => g[s] = Met(stack[Min(s)], g[s \ {Min(s)}])
  <2>1. PoolWalks(stack, block)
    BY PooledIsWalk
  <2>2. DOMAIN stack = 1..n
    BY <1>1
  <2> HIDE DEF n
  <2> QED
    BY <2>1, <2>2 DEF PoolWalks
<1> DEFINE T == {t \in 0..n : Shape(g[n + 1 - t..n], stack, block, n + 1 - t)}
<1>3. 0 \in T
  <2>1. n + 1 - 0 = n + 1 /\ n + 1..n = {} /\ 0 \in 0..n
    BY <1>1
  <2>2. Shape(g[n + 1..n], stack, block, n + 1)
    BY <1>2, <2>1, ShapeAtEnd
  <2> QED
    BY <2>1, <2>2
<1>4. ASSUME NEW t \in 1..n, t - 1 \in T PROVE t \in T
  <2> DEFINE i == n + 1 - t
  <2>1. i \in 1..n /\ n + 1 - (t - 1) = i + 1 /\ t \in 0..n
    BY <1>1
  <2>2. Shape(g[i + 1..n], stack, block, i + 1)
    BY <1>4, <2>1
  <2> HIDE DEF i
  <2>3. Min(i..n) = i /\ (i..n) \ {i} = i + 1..n /\ i..n \in SUBSET (1..n) /\ i..n # {}
    BY <1>1, <2>1, FirstOfLast
  <2>4. g[i..n] = Met(stack[i], g[i + 1..n])
    BY <1>2, <2>3
  <2>5. g[i + 1..n] \in Pools
    <3>1. i + 1..n \in SUBSET (1..n)
      BY <2>3
    <3> QED
      BY <1>2, <3>1
  <2>6. Shape(g[i..n], stack, block, i)
    BY <2>1, <2>2, <2>4, <2>5, ShapeBefore
  <2> QED
    BY <2>1, <2>6 DEF i
<1>5. n \in T
  <2> HIDE DEF T
  <2> QED
    BY <1>1, <1>3, <1>4, Stepwise
<1> DEFINE pool == Pooled(stack, block)
<1>6. Shape(pool, stack, block, 1) /\ pool \in Pools
  <2>1. n + 1 - n = 1
    BY <1>1
  <2> QED
    BY <1>2, <1>5, <2>1
<1>7. Pool(stack, block) = Append(pool.kept, pool.block)
  BY PoolIsFold
<1> HIDE DEF pool
<1>8. PICK m \in 0..n : /\ pool.kept = [k \in 1..m |-> stack[k]]
                        /\ pool.block = Merged(stack, block, m)
                        /\ m >= 1 => Below(stack[m], pool.block)
                        /\ \A t \in m + 1..n : ~Below(stack[t], Merged(stack, block, t))
  <2>1. PICK m \in 1 - 1..n : /\ pool.kept = [k \in 1..m - 1 + 1 |-> stack[1 + k - 1]]
                              /\ pool.block = Merged(stack, block, m)
                              /\ m >= 1 => Below(stack[m], pool.block)
                              /\ \A t \in m + 1..n : ~Below(stack[t], Merged(stack, block, t))
    BY <1>6 DEF Shape
  <2>2. m \in 0..n /\ m - 1 + 1 = m /\ \A k \in 1..m : 1 + k - 1 = k
    BY <1>1
  <2> QED
    BY <2>1, <2>2
<1>9. pool.kept \in Seq(Block) /\ Len(pool.kept) = m /\ pool.block \in Block
  <2>1. pool.kept \in Seq(Block) /\ DOMAIN pool.kept = 1..m /\ m \in Nat /\ pool.block \in Block
    BY <1>1, <1>6, <1>8 DEF Pools
  <2> QED
    BY <2>1, LenProperties
<1>10. /\ Append(pool.kept, pool.block) \in Seq(Block) /\ Len(Append(pool.kept, pool.block)) = m + 1
       /\ Append(pool.kept, pool.block)[m + 1] = pool.block
       /\ \A k \in 1..m : Append(pool.kept, pool.block)[k] = pool.kept[k]
  BY <1>9, AppendProperties
<1> QED
  BY <1>7, <1>8, <1>10 DEF n

-----------------------------------------------------------------------------
(* A stack of blocks.                                                      *)

LEMMA TotalsJoin ==
  ASSUME NEW blocks \in Seq(Block), NEW m \in 0..Len(blocks)
  PROVE  Total(blocks, 1, m) + Total(blocks, m + 1, Len(blocks)) = Total(blocks, 1, Len(blocks))
<1> DEFINE n == Len(blocks)
           T == {t \in 0..n : Total(blocks, 1, n - t) + Total(blocks, n - t + 1, n) = Total(blocks, 1, n)}
<1>1. n \in Nat
  BY LenProperties
<1>2. \A a \in Nat \ {0} : \A b \in 0..n : Total(blocks, a, b) \in Int
  BY TotalsType DEF n
<1>3. 0 \in T
  <2>1. n + 1..n = {} /\ n - 0 = n /\ 0 \in 0..n /\ n \in 0..n
    BY <1>1
  <2>2. Total(blocks, n + 1, n) = 0
    BY <2>1, EmptySum DEF Total
  <2>3. Total(blocks, 1, n) \in Int
    BY <1>2, <2>1
  <2>4. Total(blocks, 1, n - 0) + Total(blocks, n - 0 + 1, n) = Total(blocks, 1, n)
    BY <2>1, <2>2, <2>3
  <2> QED
    BY <2>1, <2>4
<1>4. ASSUME NEW t \in 1..n, t - 1 \in T PROVE t \in T
  <2> DEFINE i == n - t + 1
  <2>1. /\ i \in 1..n /\ t \in 0..n /\ n - (t - 1) = i /\ n - t = i - 1 /\ n - (t - 1) + 1 = i + 1
        /\ i - 1 \in 0..n /\ i \in Nat \ {0} /\ i \in 1..i /\ n \in i..n /\ 1 \in Nat \ {0} /\ i + 1 \in Nat \ {0} /\ n \in 0..n
        /\ 1 \in 1..n
    BY <1>1
  <2>2. Total(blocks, 1, i) + Total(blocks, i + 1, n) = Total(blocks, 1, n)
    BY <1>4, <2>1
  <2> HIDE DEF i
  <2>3. Total(blocks, i, n) = blocks[i].n + Total(blocks, i + 1, n)
    BY <2>1, TotalsSplit DEF n
  <2>4. Total(blocks, 1, i) = Total(blocks, 1, i - 1) + blocks[i].n
    BY <2>1, TotalsSplit DEF n
  <2>5. blocks[i].n \in Int
    <3>1. blocks[i] \in Block
      BY <2>1, ElementOfSeq DEF n
    <3> QED
      BY <3>1 DEF Block
  <2>6. /\ Total(blocks, 1, i - 1) \in Int /\ Total(blocks, i + 1, n) \in Int
    BY <1>2, <2>1
  <2>7. Total(blocks, 1, i - 1) + Total(blocks, i, n) = Total(blocks, 1, n)
    BY <2>2, <2>3, <2>4, <2>5, <2>6
  <2> QED
    BY <2>1, <2>7 DEF i
<1>5. n \in T
  <2> HIDE DEF T
  <2> QED
    BY <1>1, <1>3, <1>4, Stepwise
<1> QED
  <2> DEFINE t == n - m
  <2>1. \A k \in 0..n : k \in T
    <3>1. ASSUME NEW k \in 0..n PROVE k \in T
      <4>1. k \in Nat /\ \A j \in 1..k : j \in 1..n
        BY <1>1
      <4> HIDE DEF T
      <4> QED
        BY <1>3, <1>4, <4>1, Stepwise
    <3> QED
      BY <3>1
  <2>2. n - m \in 0..n /\ n - (n - m) = m
    BY <1>1
  <2>3. n - m \in T
    BY <2>1, <2>2
  <2> QED
    BY <2>2, <2>3 DEF n

\* Blocks of ever higher means, none of which ends before another that stands before it.
Rising(blocks) ==
    /\ blocks \in Seq(Block)
    /\ \A i, j \in 1..Len(blocks) : i < j => Below(blocks[i], blocks[j]) /\ blocks[i].x <= blocks[j].x

LEMMA PoolRises ==
  ASSUME NEW stack, Rising(stack), NEW block \in Block, \A i \in 1..Len(stack) : stack[i].x <= block.x
  PROVE  /\ Rising(Pool(stack, block)) /\ Len(Pool(stack, block)) >= 1
         /\ \A i \in 1..Len(Pool(stack, block)) : Pool(stack, block)[i].x <= block.x
         /\ Total(Pool(stack, block), 1, Len(Pool(stack, block))) = Total(stack, 1, Len(stack)) + block.n
<1> DEFINE n == Len(stack)
           new == Pool(stack, block)
<1>1. /\ n \in Nat /\ stack \in Seq(Block) /\ DOMAIN stack = 1..n /\ \A i \in 1..n : stack[i] \in Block
      /\ \A i, j \in 1..n : i < j => Below(stack[i], stack[j]) /\ stack[i].x <= stack[j].x
  BY LenProperties, ElementOfSeq DEF Rising
<1>2. PICK m \in 0..n : /\ new \in Seq(Block) /\ Len(new) = m + 1
                        /\ \A k \in 1..m : new[k] = stack[k]
                        /\ new[m + 1] = Merged(stack, block, m)
                        /\ m >= 1 => Below(stack[m], Merged(stack, block, m))
  BY <1>1, PoolShape
<1> HIDE DEF new
<1>3. m \in Nat /\ m <= n /\ DOMAIN new = 1..m + 1 /\ new[m + 1] \in Block /\ new[m + 1].x = block.x /\ m + 1 \in 1..m + 1
  <2>1. m \in Nat /\ m <= n /\ m + 1 \in 1..m + 1
    BY <1>1
  <2>2. DOMAIN new = 1..m + 1
    BY <1>2, LenProperties
  <2>3. new[m + 1] \in Block
    BY <1>2, <2>1, ElementOfSeq
  <2>4. new[m + 1].x = block.x
    BY <1>2 DEF Merged
  <2> QED
    BY <2>1, <2>2, <2>3, <2>4
<1>4. ASSUME NEW i \in 1..m PROVE new[i] = stack[i] /\ i \in 1..n /\ new[i].x <= block.x /\ stack[i] \in Block
  <2>1. i \in 1..n
    BY <1>3
  <2> QED
    BY <1>1, <1>2, <2>1
<1>5. ASSUME NEW i \in 1..m PROVE Below(new[i], new[m + 1])
  <2>1. m \in 1..n /\ m >= 1 /\ (i = m \/ i < m)
    BY <1>1, <1>3
  <2>2. Below(stack[m], new[m + 1])
    BY <1>2, <2>1
  <2>3. CASE i = m
    BY <1>4, <2>2, <2>3
  <2>4. CASE i < m
    <3>1. Below(stack[i], stack[m]) /\ stack[i] \in Block /\ stack[m] \in Block
      BY <1>1, <1>4, <2>1, <2>4
    <3>2. Below(stack[i], new[m + 1])
      BY <1>3, <2>2, <3>1, BelowTransitive
    <3> QED
      BY <1>4, <3>2
  <2> QED
    BY <2>1, <2>3, <2>4
<1>6. \A i \in 1..m + 1 : i \in 1..m \/ i = m + 1
  BY <1>3
<1>7. ASSUME NEW i \in 1..m + 1 PROVE new[i].x <= block.x
  <2>1. block.x <= block.x
    BY DEF Block
  <2> QED
    BY <1>3, <1>4, <1>6, <2>1
<1>8. ASSUME NEW i \in 1..m + 1, NEW j \in 1..m + 1, i < j
      PROVE  Below(new[i], new[j]) /\ new[i].x <= new[j].x
  <2>1. i \in 1..m
    BY <1>3, <1>8
  <2>2. CASE j \in 1..m
    <3>1. Below(stack[i], stack[j]) /\ stack[i].x <= stack[j].x
      BY <1>1, <1>4, <1>8, <2>1, <2>2
    <3> QED
      BY <1>4, <2>1, <2>2, <3>1
  <2>3. CASE j = m + 1
    BY <1>3, <1>5, <1>7, <2>1, <2>3
  <2> QED
    BY <1>6, <2>2, <2>3
<1>9. Rising(new)
  BY <1>2, <1>8 DEF Rising
<1>10. Total(new, 1, m + 1) = Total(stack, 1, n) + block.n
  <2>1. Total(new, 1, m) = Total(stack, 1, m)
    <3>1. \A k \in 1..m : Sizes(stack)[k] = stack[k].n /\ Sizes(new)[k] = new[k].n /\ stack[k].n \in Int /\ new[k] = stack[k]
      <4>1. \A k \in 1..m : k \in DOMAIN stack /\ k \in DOMAIN new
        BY <1>1, <1>3
      <4> QED
        BY <1>4, <4>1 DEF Sizes, Block
    <3>2. IsFiniteSet(1..m)
      BY <1>3, FS_Interval
    <3>3. \A k \in 1..m : Sizes(stack)[k] \in Int /\ Sizes(new)[k] = Sizes(stack)[k]
      BY <3>1
    <3> QED
      BY <3>2, <3>3, SumAgrees DEF Total
  <2>2. Total(new, 1, m + 1) = Total(new, 1, m) + new[m + 1].n
    <3>1. 1 \in 1..Len(new) /\ m + 1 \in 1..Len(new) /\ (m + 1) - 1 = m
      BY <1>2, <1>3
    <3> QED
      BY <1>2, <3>1, TotalsSplit
  <2>3. new[m + 1].n = block.n + Total(stack, m + 1, n)
    BY <1>2 DEF Merged
  <2>4. Total(stack, 1, m) + Total(stack, m + 1, n) = Total(stack, 1, n)
    BY <1>1, TotalsJoin
  <2>5. Total(stack, 1, m) \in Int /\ Total(stack, m + 1, n) \in Int /\ block.n \in Int
    <3>1. m \in 0..Len(stack) /\ n \in 0..Len(stack) /\ m + 1 \in Nat \ {0} /\ 1 \in Nat \ {0}
      BY <1>1, <1>3
    <3>2. block.n \in Int
      BY DEF Block
    <3> HIDE DEF n
    <3> QED
      BY <1>1, <3>1, <3>2, TotalsType
  <2> QED
    BY <2>1, <2>2, <2>3, <2>4, <2>5
<1>11. Len(new) >= 1
  BY <1>2, <1>3
<1> QED
  BY <1>2, <1>7, <1>9, <1>10, <1>11 DEF new, n

-----------------------------------------------------------------------------
(* The calibrator of some trades.                                          *)

Trades == [p : Int, y : {0, 1}]

LEMMA SortedTrades ==
  ASSUME NEW pairs \in Seq(Trades)
  PROVE  /\ Sorted(pairs) \in Seq(Trades) /\ Len(Sorted(pairs)) = Len(pairs)
         /\ \A i, j \in 1..Len(pairs) : i < j => Sorted(pairs)[i].p <= Sorted(pairs)[j].p
<1> DEFINE n == Len(pairs)
           before == [i \in DOMAIN pairs |-> {j \in DOMAIN pairs : pairs[j].p < pairs[i].p}]
<1>1. n \in Nat /\ DOMAIN pairs = 1..n /\ \A i \in 1..n : pairs[i] \in Trades
  BY LenProperties, ElementOfSeq
<1>2. \A i \in 1..n : pairs[i].p \in Int
  BY <1>1 DEF Trades
<1>3. Sorted(pairs) = StableSort(pairs, LAMBDA q, r : q.p < r.p)
  BY DEF Sorted
<1> HIDE DEF n
<1>4. StableSort(pairs, LAMBDA q, r : q.p < r.p) = Arranged(pairs, Ahead(n, before))
  <2>1. [i \in 1..n |-> {j \in 1..n : pairs[j].p < pairs[i].p \/ (~(pairs[i].p < pairs[j].p) /\ j < i)}] = Ahead(n, before)
    BY <1>1 DEF Ahead
  <2> QED
    BY <1>1, <2>1 DEF StableSort, Once
<1>5. Ranking(n, before)
  BY <1>1, <1>2 DEF Ranking
<1>6. \A i, j \in 1..n : j \in before[i] <=> pairs[j].p < pairs[i].p
  BY <1>1
<1> HIDE DEF before
<1>7. PICK at : Ordered(n, before, at) /\ Arranged(pairs, Ahead(n, before)) = [k \in 1..n |-> pairs[at[k]]]
  <2>1. n \in Nat /\ DOMAIN pairs = 1..n
    BY <1>1
  <2> QED
    BY <1>5, <2>1, ArrangedOrders
<1>8. Sorted(pairs) = [k \in 1..n |-> pairs[at[k]]]
  BY <1>3, <1>4, <1>7
<1>9. \A k \in 1..n : at[k] \in 1..n
  BY <1>7 DEF Ordered
<1>10. Sorted(pairs) \in Seq(Trades) /\ Len(Sorted(pairs)) = n
  <2>1. Sorted(pairs) \in [1..n -> Trades]
    BY <1>1, <1>8, <1>9
  <2>2. DOMAIN Sorted(pairs) = 1..n
    BY <1>8
  <2>3. Sorted(pairs) \in Seq(Trades)
    BY <1>1, <2>1, SeqDef
  <2> QED
    BY <1>1, <2>2, <2>3, LenProperties
<1>11. ASSUME NEW i \in 1..n, NEW j \in 1..n, i < j PROVE Sorted(pairs)[i].p <= Sorted(pairs)[j].p
  <2> DEFINE a == at[i]
             b == at[j]
  <2>1. a \in 1..n /\ b \in 1..n /\ b \notin before[a]
    BY <1>7, <1>9, <1>11 DEF Ordered
  <2>2. Sorted(pairs)[i] = pairs[a] /\ Sorted(pairs)[j] = pairs[b]
    BY <1>8
  <2> HIDE DEF a, b
  <2>3. ~(pairs[b].p < pairs[a].p) /\ pairs[a].p \in Int /\ pairs[b].p \in Int
    BY <1>2, <1>6, <2>1
  <2> QED
    BY <2>2, <2>3
<1> QED
  BY <1>10, <1>11 DEF n

Single(q) == [sum |-> q.y, n |-> 1, x |-> q.p]
Stacking(g, q) ==
    g = [s \in SUBSET DOMAIN q |-> IF s = {} THEN <<>> ELSE Pool(g[s \ {Max(s)}], Single(q[Max(s)]))]
Stacked(q) == (CHOOSE g : Stacking(g, q))[DOMAIN q]

LEMMA PavIsFold == ASSUME NEW pairs PROVE Pav(pairs) = Stacked(Sorted(pairs))
  BY DEF Pav, FoldLeft, MapThenFoldSet, Stacking, Stacked, Single

\* The stacks there are from the first trade to the last.
StackWalks(q) ==
    \E g : /\ Stacked(q) = g[DOMAIN q]
           /\ g[{}] = <<>>
           /\ \A s \in SUBSET DOMAIN q : s # {} => g[s] = Pool(g[s \ {Max(s)}], Single(q[Max(s)]))

LEMMA SingleType == ASSUME NEW q \in Trades PROVE Single(q) \in Block /\ Single(q).n = 1 /\ Single(q).x = q.p
  BY DEF Single, Block, Trades

LEMMA StackedIsWalk == ASSUME NEW q \in Seq(Trades) PROVE StackWalks(q)
<1> DEFINE n == Len(q)
           S == DOMAIN q
           V == Seq(Block)
           step == [i \in S |-> [stack \in V |-> Pool(stack, Single(q[i]))]]
           g == CHOOSE h : Stacking(h, q)
<1>1. S = 1..n /\ n \in Nat /\ \A i \in S : q[i] \in Trades
  BY LenProperties, ElementOfSeq
<1>2. \A i \in S : \A stack \in V : Pool(stack, Single(q[i])) \in V
  <2>1. ASSUME NEW i \in S, NEW stack \in V PROVE Pool(stack, Single(q[i])) \in V
    <3>1. Single(q[i]) \in Block
      BY <1>1, SingleType
    <3> QED
      BY <3>1, PoolShape
  <2> QED
    BY <2>1
<1>3. step \in [S -> [V -> V]] /\ \A i \in S : \A stack \in V : step[i][stack] = Pool(stack, Single(q[i]))
  BY <1>2
<1>4. <<>> \in V
  OBVIOUS
<1> HIDE DEF step, V, n
<1>5. Walked(V, <<>>, step, S)
  <2>1. S \in SUBSET (1..n)
    BY <1>1
  <2> HIDE DEF S
  <2> QED
    BY <1>1, <1>3, <1>4, <2>1, WalkExists, Zenon
<1>6. PICK h \in [SUBSET S -> V] : Walks(h, <<>>, step, S)
  BY <1>5 DEF Walked
<1>7. ASSUME NEW s \in SUBSET S, s # {} PROVE Max(s) \in S /\ Max(s) \in s
  <2>1. s \in SUBSET (1..n)
    BY <1>1
  <2> QED
    BY <1>1, <1>7, <2>1, LatestIn
<1>8. Stacking(h, q)
  <2>1. ASSUME NEW s \in SUBSET S PROVE h[s] = IF s = {} THEN <<>> ELSE Pool(h[s \ {Max(s)}], Single(q[Max(s)]))
    <3>1. h[s] = IF s = {} THEN <<>> ELSE step[Max(s)][h[s \ {Max(s)}]]
      BY <1>6 DEF Walks
    <3>2. s # {} => Max(s) \in S /\ h[s \ {Max(s)}] \in V
      BY <1>7
    <3> QED
      BY <1>3, <3>1, <3>2
  <2>2. h = [s \in SUBSET S |-> h[s]]
    OBVIOUS
  <2> QED
    BY <2>1, <2>2 DEF Stacking
<1>9. Stacking(g, q)
  BY <1>8
<1>10. Stacked(q) = g[S]
  BY DEF Stacked
<1> HIDE DEF g
<1>11. \A s \in SUBSET S : g[s] = IF s = {} THEN <<>> ELSE Pool(g[s \ {Max(s)}], Single(q[Max(s)]))
  BY <1>9 DEF Stacking
<1> QED
  BY <1>10, <1>11 DEF StackWalks

-----------------------------------------------------------------------------
(* The blocks are the lower hull of the running count of right trades.     *)

\* How many of the first so many trades were right.
Ups(q) == [k \in 0..Len(q) |-> SumFunctionOnSet([i \in DOMAIN q |-> q[i].y], 1..k)]

LEMMA UpsStep ==
  ASSUME NEW q \in Seq(Trades)
  PROVE  /\ Ups(q) \in [0..Len(q) -> Int] /\ Ups(q)[0] = 0
         /\ \A k \in 1..Len(q) : Ups(q)[k] = Ups(q)[k - 1] + q[k].y
<1> DEFINE n == Len(q)
           y == [i \in DOMAIN q |-> q[i].y]
<1>1. n \in Nat /\ DOMAIN q = 1..n /\ \A i \in 1..n : q[i] \in Trades
  BY LenProperties, ElementOfSeq
<1>2. \A i \in 1..n : y[i] = q[i].y /\ y[i] \in Int
  BY <1>1 DEF Trades
<1> HIDE DEF y, n
<1>3. \A k \in 0..n : IsFiniteSet(1..k) /\ \A i \in 1..k : y[i] \in Int
  <2>1. \A k \in 0..n : 1 \in Int /\ k \in Int /\ 1..k \subseteq 1..n
    BY <1>1
  <2>2. \A k \in 0..n : IsFiniteSet(1..k)
    BY <2>1, FS_Interval
  <2> QED
    BY <1>2, <2>1, <2>2
<1>4. \A k \in 0..n : SumFunctionOnSet(y, 1..k) \in Int
  BY <1>3, SumType
<1>5. \A k \in 0..n : Ups(q)[k] = SumFunctionOnSet(y, 1..k)
  BY DEF Ups, y, n
<1>6. Ups(q) \in [0..n -> Int]
  <2>1. Ups(q) = [k \in 0..n |-> Ups(q)[k]]
    BY DEF Ups, n
  <2> QED
    BY <1>4, <1>5, <2>1
<1>7. Ups(q)[0] = 0
  <2>1. 1..0 = {} /\ 0 \in 0..n
    BY <1>1
  <2> QED
    BY <1>5, <2>1, EmptySum
<1>8. ASSUME NEW k \in 1..n PROVE Ups(q)[k] = Ups(q)[k - 1] + q[k].y
  <2>1. k \in 0..n /\ k - 1 \in 0..n /\ k \in 1..k /\ (1..k) \ {k} = 1..k - 1
    BY <1>1
  <2>2. SumFunctionOnSet(y, 1..k) = y[k] + SumFunctionOnSet(y, (1..k) \ {k})
    <3>1. IsFiniteSet(1..k) /\ \A i \in 1..k : y[i] \in Int
      BY <1>3, <2>1
    <3> QED
      BY <2>1, <3>1, SumSplits
  <2>3. SumFunctionOnSet(y, 1..k - 1) \in Int /\ y[k] \in Int /\ y[k] = q[k].y
    BY <1>2, <1>4, <2>1
  <2>4. Ups(q)[k] = y[k] + SumFunctionOnSet(y, 1..k - 1) /\ Ups(q)[k - 1] = SumFunctionOnSet(y, 1..k - 1)
    <3>1. Ups(q)[k] = SumFunctionOnSet(y, 1..k) /\ Ups(q)[k - 1] = SumFunctionOnSet(y, 1..k - 1)
      BY <1>5, <2>1
    <3>2. SumFunctionOnSet(y, (1..k) \ {k}) = SumFunctionOnSet(y, 1..k - 1)
      BY <2>1
    <3> QED
      BY <2>2, <3>1, <3>2
  <2> QED
    BY <2>3, <2>4
<1> QED
  BY <1>6, <1>7, <1>8 DEF n

\* A point of the count is not below the line through another one with the mean of a block.
Above(u, b, from, c) == b.sum * (c - from) <= (u[c] - u[from]) * b.n

\* Blocks of the first k trades end at the places e: each counts the trades between, and the line of none
\* is above the count anywhere.
Hull(e, blocks, k, q) ==
    LET u == Ups(q)
    IN  /\ e \in [0..Len(blocks) -> 0..k] /\ e[0] = 0 /\ e[Len(blocks)] = k
        /\ \A j \in 1..Len(blocks) :
            /\ blocks[j].n = e[j] - e[j - 1] /\ blocks[j].sum = u[e[j]] - u[e[j - 1]]
            /\ blocks[j].x = q[e[j]].p
            /\ \A c \in 0..k : Above(u, blocks[j], e[j - 1], c)
Hulled(blocks, k, q) == \E e : Hull(e, blocks, k, q)

\* A line of mean a / n1 over one of no lower mean joined with the next one: what is above the first ...
LEMMA AboveFirst ==
  ASSUME NEW a \in Int, NEW n1 \in Nat \ {0}, NEW b \in Int, NEW n2 \in Nat \ {0}, a * n2 >= b * n1,
         NEW d \in Nat, NEW s \in Int, a * d <= s * n1
  PROVE  (a + b) * d <= s * (n1 + n2)
<1>1. (a * n2) * d >= (b * n1) * d
  OBVIOUS
<1>2. (a * d) * n2 <= (s * n1) * n2
  OBVIOUS
<1>3. (b * d) * n1 <= (s * n2) * n1
  <2>1. (b * n1) * d <= (a * d) * n2
    BY <1>1
  <2>2. (b * n1) * d <= (s * n1) * n2
    BY <1>2, <2>1
  <2> QED
    BY <2>2
<1>4. b * d <= s * n2
  BY <1>3
<1>5. (a + b) * d = a * d + b * d /\ s * (n1 + n2) = s * n1 + s * n2
  OBVIOUS
<1> QED
  BY <1>4, <1>5

\* ... and above the second is above the whole.
LEMMA AboveSecond ==
  ASSUME NEW a \in Int, NEW n1 \in Nat \ {0}, NEW b \in Int, NEW n2 \in Nat \ {0}, a * n2 >= b * n1,
         NEW d \in 0..n2, NEW s \in Int, b * d <= s * n2
  PROVE  (a + b) * (n1 + d) <= (s + a) * (n1 + n2)
<1> DEFINE r == n2 - d
<1>1. r \in Nat /\ d = n2 - r /\ d \in Nat
  OBVIOUS
<1>2. (a * n2) * r >= (b * n1) * r
  BY <1>1
<1>3. b * (n2 - r) <= s * n2
  BY <1>1
<1> HIDE DEF r
<1>4. b * n2 - b * r <= s * n2
  BY <1>1, <1>3
<1>5. (b * n2 - b * r) * n1 <= (s * n2) * n1
  BY <1>1, <1>4
<1>6. (b * n1) * n2 <= (s * n1 + a * r) * n2
  <2>1. (b * n2 - b * r) * n1 = (b * n1) * n2 - (b * n1) * r
    BY <1>1
  <2>2. (b * n1) * n2 <= (s * n2) * n1 + (a * n2) * r
    BY <1>1, <1>2, <1>5, <2>1
  <2>3. (s * n2) * n1 + (a * n2) * r = (s * n1 + a * r) * n2
    BY <1>1
  <2> QED
    BY <1>1, <2>2, <2>3
<1>7. b * n1 <= s * n1 + a * r
  BY <1>1, <1>6
<1>8. (a + b) * (n1 + d) = a * n1 + b * n1 + a * d + b * d /\ (s + a) * (n1 + n2) = s * n1 + s * n2 + a * n1 + a * n2
  BY <1>1
<1>9. a * n2 = a * d + a * r
  BY <1>1
<1> QED
  BY <1>1, <1>7, <1>8, <1>9

\* Before a point, a lower line through it is above a higher one.
LEMMA AboveBefore ==
  ASSUME NEW a \in Int, NEW n1 \in Nat \ {0}, NEW b \in Int, NEW n2 \in Nat \ {0}, a * n2 < b * n1,
         NEW d \in Nat, NEW s \in Int, a * (n1 - d) <= (s + a) * n1
  PROVE  b * (-d) <= s * n2
<1>1. -(a * d) <= s * n1
  <2>1. a * (n1 - d) = a * n1 - a * d /\ (s + a) * n1 = s * n1 + a * n1
    OBVIOUS
  <2> QED
    BY <2>1
<1>2. (-(a * d)) * n2 <= (s * n1) * n2
  BY <1>1
<1>3. (a * n2) * d <= (b * n1) * d
  OBVIOUS
<1>4. (-(b * d)) * n1 <= (s * n2) * n1
  <2>1. (-(a * d)) * n2 = -((a * n2) * d) /\ (-(b * d)) * n1 = -((b * n1) * d) /\ (s * n1) * n2 = (s * n2) * n1
    OBVIOUS
  <2> QED
    BY <1>2, <1>3, <2>1
<1>5. -(b * d) <= s * n2
  BY <1>4
<1> QED
  BY <1>5

\* Beyond a point a higher line from it is above a lower one.
LEMMA AboveAfter ==
  ASSUME NEW a \in Int, NEW n1 \in Nat \ {0}, NEW b \in Int, NEW n2 \in Nat \ {0}, a * n2 < b * n1,
         NEW d \in Int, NEW s \in Int, a * d <= s * n1
  PROVE  a * (d + n2) <= (s + b) * n1
<1>1. a * (d + n2) = a * d + a * n2 /\ (s + b) * n1 = s * n1 + b * n1
  OBVIOUS
<1> QED
  BY <1>1

\* A merged block is the next one of the stack and what was merged before.
LEMMA MergedSplits ==
  ASSUME NEW stack \in Seq(Block), NEW block \in Block
  PROVE  /\ Merged(stack, block, Len(stack)).n = block.n /\ Merged(stack, block, Len(stack)).sum = block.sum
         /\ \A t \in 1..Len(stack) :
                /\ Merged(stack, block, t - 1).n = stack[t].n + Merged(stack, block, t).n
                /\ Merged(stack, block, t - 1).sum = stack[t].sum + Merged(stack, block, t).sum
<1> DEFINE n == Len(stack)
<1>1. n \in Nat /\ (\A t \in 1..n : stack[t].n \in Int /\ stack[t].sum \in Int) /\ block.n \in Int /\ block.sum \in Int
  <2>1. n \in Nat /\ \A t \in 1..n : stack[t] \in Block
    BY LenProperties, ElementOfSeq
  <2> QED
    BY <2>1 DEF Block
<1>2. \A t \in 0..n : /\ Merged(stack, block, t).n = block.n + Total(stack, t + 1, n)
                      /\ Merged(stack, block, t).sum = block.sum + Right(stack, t + 1, n)
  BY DEF Merged
<1>3. \A t \in 0..n : Total(stack, t + 1, n) \in Int /\ Right(stack, t + 1, n) \in Int
  <2>1. \A t \in 0..n : t + 1 \in Nat \ {0} /\ n \in 0..Len(stack)
    BY <1>1
  <2> HIDE DEF n
  <2> QED
    BY <2>1, TotalsType
<1>4. Total(stack, n + 1, n) = 0 /\ Right(stack, n + 1, n) = 0
  <2>1. n + 1..n = {}
    BY <1>1
  <2> QED
    BY <2>1, EmptySum DEF Total, Right
<1>5. ASSUME NEW t \in 1..n
      PROVE  /\ Merged(stack, block, t - 1).n = stack[t].n + Merged(stack, block, t).n
             /\ Merged(stack, block, t - 1).sum = stack[t].sum + Merged(stack, block, t).sum
  <2>1. t \in 1..Len(stack) /\ n \in t..Len(stack) /\ t - 1 \in 0..n /\ t \in 0..n /\ (t - 1) + 1 = t
    BY <1>1
  <2>2. /\ Total(stack, t, n) = stack[t].n + Total(stack, t + 1, n)
        /\ Right(stack, t, n) = stack[t].sum + Right(stack, t + 1, n)
    <3> HIDE DEF n
    <3> QED
      BY <2>1, TotalsSplit
  <2>3. /\ Merged(stack, block, t - 1).n = block.n + Total(stack, t, n)
        /\ Merged(stack, block, t - 1).sum = block.sum + Right(stack, t, n)
    BY <1>2, <2>1
  <2>4. /\ Merged(stack, block, t).n = block.n + Total(stack, t + 1, n)
        /\ Merged(stack, block, t).sum = block.sum + Right(stack, t + 1, n)
        /\ Total(stack, t + 1, n) \in Int /\ Right(stack, t + 1, n) \in Int
    BY <1>2, <1>3, <2>1
  <2>5. \A x, y, z \in Int : x + (y + z) = y + (x + z)
    OBVIOUS
  <2>6. stack[t].n \in Int /\ stack[t].sum \in Int
    BY <1>1
  <2> HIDE DEF n
  <2>7. /\ block.n + (stack[t].n + Total(stack, t + 1, n)) = stack[t].n + (block.n + Total(stack, t + 1, n))
        /\ block.sum + (stack[t].sum + Right(stack, t + 1, n)) = stack[t].sum + (block.sum + Right(stack, t + 1, n))
    BY <1>1, <2>4, <2>5, <2>6, Zenon
  <2> QED
    BY <2>2, <2>3, <2>4, <2>7, Zenon
<1>6. Merged(stack, block, n).n = block.n /\ Merged(stack, block, n).sum = block.sum
  <2>1. n \in 0..n
    BY <1>1
  <2> HIDE DEF n
  <2> QED
    BY <1>1, <1>2, <1>4, <2>1
<1> QED
  BY <1>5, <1>6 DEF n

\* What the next trade is merged with counts the trades since its place.
LEMMA MergedCounts ==
  ASSUME NEW q \in Seq(Trades), NEW k \in 1..Len(q), NEW stack \in Seq(Block), NEW e, Hull(e, stack, k - 1, q)
  PROVE  \A t \in 0..Len(stack) :
            /\ Merged(stack, Single(q[k]), t).n = k - e[t]
            /\ Merged(stack, Single(q[k]), t).sum = Ups(q)[k] - Ups(q)[e[t]]
            /\ Merged(stack, Single(q[k]), t).x = q[k].p
            /\ e[t] \in 0..k - 1
<1> DEFINE n == Len(stack)
           u == Ups(q)
           block == Single(q[k])
           big(t) == Merged(stack, block, t)
           T == {i \in 0..n : big(n - i).n = k - e[n - i] /\ big(n - i).sum = u[k] - u[e[n - i]]}
<1>1. /\ n \in Nat /\ k \in Nat /\ k - 1 \in Nat /\ k \in 0..Len(q) /\ Len(q) \in Nat /\ q[k] \in Trades
      /\ \A t \in 1..n : stack[t] \in Block
  BY LenProperties, ElementOfSeq
<1>2. u[k] = u[k - 1] + q[k].y /\ \A c \in 0..k : u[c] \in Int
  <2>1. u \in [0..Len(q) -> Int] /\ u[k] = u[k - 1] + q[k].y
    BY UpsStep
  <2>2. \A c \in 0..k : c \in 0..Len(q)
    BY <1>1
  <2> HIDE DEF u
  <2> QED
    BY <2>1, <2>2
<1>3. block \in Block /\ block.n = 1 /\ block.sum = q[k].y /\ block.x = q[k].p
  BY <1>1, SingleType DEF Single
<1>4. /\ e \in [0..n -> 0..k - 1] /\ e[n] = k - 1
      /\ \A j \in 1..n : stack[j].n = e[j] - e[j - 1] /\ stack[j].sum = u[e[j]] - u[e[j - 1]]
  BY DEF Hull
<1> HIDE DEF u, block, n
<1>5. /\ big(n).n = block.n /\ big(n).sum = block.sum
      /\ \A t \in 1..n : big(t - 1).n = stack[t].n + big(t).n /\ big(t - 1).sum = stack[t].sum + big(t).sum
  BY <1>3, MergedSplits DEF n
<1>6. \A t \in 0..n : e[t] \in 0..k - 1 /\ e[t] \in Int /\ u[e[t]] \in Int
  BY <1>1, <1>2, <1>4
<1> HIDE DEF big
<1>7. 0 \in T
  <2>1. q[k].y \in Int /\ u[k - 1] \in Int /\ u[k] \in Int
    BY <1>1, <1>2 DEF Trades
  <2>2. n - 0 = n /\ 0 \in 0..n
    BY <1>1
  <2>3. big(n).n = k - e[n] /\ big(n).sum = u[k] - u[e[n]]
    BY <1>1, <1>2, <1>3, <1>4, <1>5, <2>1
  <2> QED
    BY <2>2, <2>3
<1>8. ASSUME NEW i \in 1..n, i - 1 \in T PROVE i \in T
  <2> DEFINE t == n - (i - 1)
  <2>1. t \in 1..n /\ t - 1 = n - i /\ i \in 0..n /\ t \in 0..n /\ t - 1 \in 0..n
    BY <1>1
  <2>2. big(t).n = k - e[t] /\ big(t).sum = u[k] - u[e[t]]
    BY <1>8
  <2> HIDE DEF t
  <2>3. big(t - 1).n = (e[t] - e[t - 1]) + (k - e[t]) /\ big(t - 1).sum = (u[e[t]] - u[e[t - 1]]) + (u[k] - u[e[t]])
    BY <1>4, <1>5, <2>1, <2>2
  <2>4. /\ k \in Int /\ e[t] \in Int /\ e[t - 1] \in Int
        /\ u[k] \in Int /\ u[e[t]] \in Int /\ u[e[t - 1]] \in Int
    <3>1. k \in 0..k
      BY <1>1
    <3> QED
      BY <1>1, <1>2, <1>6, <2>1, <3>1
  <2>5. big(t - 1).n = k - e[t - 1] /\ big(t - 1).sum = u[k] - u[e[t - 1]]
    <3>1. \A x, y, z \in Int : (y - x) + (z - y) = z - x
      OBVIOUS
    <3>2. (e[t] - e[t - 1]) + (k - e[t]) = k - e[t - 1]
      <4>1. k \in Int /\ e[t] \in Int /\ e[t - 1] \in Int
        BY <2>4
      <4> QED
        BY <3>1, <4>1, Zenon
    <3>3. (u[e[t]] - u[e[t - 1]]) + (u[k] - u[e[t]]) = u[k] - u[e[t - 1]]
      <4>1. u[k] \in Int /\ u[e[t]] \in Int /\ u[e[t - 1]] \in Int
        BY <2>4
      <4> QED
        BY <3>1, <4>1, Zenon
    <3> QED
      BY <2>3, <3>2, <3>3, Zenon
  <2> QED
    BY <2>1, <2>5
<1>9. \A i \in 0..n : i \in T
  <2>1. ASSUME NEW i \in 0..n PROVE i \in T
    <3>1. i \in Nat /\ \A j \in 1..i : j \in 1..n
      BY <1>1
    <3>2. \A j \in 1..i : j - 1 \in T => j \in T
      BY <1>8, <3>1
    <3> HIDE DEF T
    <3> QED
      BY <1>7, <3>1, <3>2, Stepwise
  <2> QED
    BY <2>1
<1>10. ASSUME NEW t \in 0..n PROVE big(t).n = k - e[t] /\ big(t).sum = u[k] - u[e[t]]
  <2>1. n - t \in 0..n /\ n - (n - t) = t
    BY <1>1
  <2>2. n - t \in T
    BY <1>9, <2>1
  <2> QED
    BY <2>1, <2>2
<1>11. \A t \in 0..n : big(t).x = q[k].p
  BY <1>3 DEF big, Merged
<1> QED
  BY <1>6, <1>10, <1>11 DEF big, block, u, n

\* Two places, the count at each and at a third, and what lies between.
Spanned(k, d0, d1, v0, v1, w) ==
    /\ k - d1 \in Nat \ {0} /\ w - v1 \in Int
    /\ (d1 - d0) + (k - d1) = k - d0 /\ (v1 - v0) + (w - v1) = w - v0
    /\ \A c \in d0..k : /\ (d1 - d0) + (c - d1) = c - d0
                        /\ c <= d1 => c \in 0..k - 1 /\ c - d0 \in Nat
                        /\ ~(c <= d1) => c \in d1..k /\ c - d1 \in 0..k - d1
    /\ \A s \in Int : s - v0 \in Int /\ s - v1 \in Int /\ (s - v1) + (v1 - v0) = s - v0

LEMMA Spans ==
  ASSUME NEW k \in Nat, NEW d0 \in 0..k - 1, NEW d1 \in 0..k - 1, NEW v0 \in Int, NEW v1 \in Int, NEW w \in Int
  PROVE  Spanned(k, d0, d1, v0, v1, w)
  BY DEF Spanned

\* The line of a merged block is not above the count since its place.
LEMMA MergedAbove ==
  ASSUME NEW q \in Seq(Trades), NEW k \in 1..Len(q), NEW stack, Rising(stack), NEW e, Hull(e, stack, k - 1, q),
         NEW m \in 0..Len(stack), \A t \in m + 1..Len(stack) : ~Below(stack[t], Merged(stack, Single(q[k]), t))
  PROVE  \A t \in m..Len(stack) : \A c \in e[t]..k : Above(Ups(q), Merged(stack, Single(q[k]), t), e[t], c)
<1> DEFINE n == Len(stack)
           u == Ups(q)
           big(t) == Merged(stack, Single(q[k]), t)
           T == {i \in 0..n - m : \A c \in e[n - i]..k : Above(u, big(n - i), e[n - i], c)}
<1>1. /\ n \in Nat /\ k \in Nat /\ k - 1 \in Nat /\ m \in Nat /\ m <= n /\ Len(q) \in Nat /\ q[k] \in Trades
      /\ stack \in Seq(Block) /\ \A t \in 1..n : stack[t] \in Block
  BY LenProperties, ElementOfSeq DEF Rising
<1>0. k \in Nat
  BY <1>1
<1>2. u[k] = u[k - 1] + q[k].y /\ \A c \in 0..k : u[c] \in Int
  <2>1. u \in [0..Len(q) -> Int] /\ u[k] = u[k - 1] + q[k].y
    BY UpsStep
  <2>2. \A c \in 0..k : c \in 0..Len(q)
    BY <1>1
  <2> HIDE DEF u
  <2> QED
    BY <2>1, <2>2
<1>3. \A t \in 0..n : big(t).n = k - e[t] /\ big(t).sum = u[k] - u[e[t]] /\ e[t] \in 0..k - 1
  BY <1>1, MergedCounts
<1>4. /\ e[n] = k - 1
      /\ \A j \in 1..n : /\ stack[j].n = e[j] - e[j - 1] /\ stack[j].sum = u[e[j]] - u[e[j - 1]]
                         /\ \A c \in 0..k - 1 : Above(u, stack[j], e[j - 1], c)
  BY DEF Hull
<1>5. \A t \in 1..n : t \in m + 1..n => ~Below(stack[t], big(t))
  OBVIOUS
<1>6. \A t \in 0..n : u[e[t]] \in Int
  BY <1>1, <1>2, <1>3
<1> HIDE DEF u, n, big
<1>7. 0 \in T
  <2>1. n - 0 = n /\ n \in 0..n /\ 0 \in 0..n - m
    BY <1>1
  <2>2. ASSUME NEW c \in k - 1..k PROVE Above(u, big(n), k - 1, c)
    <3>1. big(n).n = 1 /\ big(n).sum = u[k] - u[k - 1] /\ u[k] \in Int /\ u[k - 1] \in Int
      <4>1. k \in 0..k /\ k - 1 \in 0..k /\ k - (k - 1) = 1
        BY <1>1
      <4>2. big(n).n = k - (k - 1) /\ big(n).sum = u[k] - u[k - 1]
        BY <1>3, <1>4, <2>1, Zenon
      <4> QED
        BY <1>2, <4>1, <4>2, Zenon
    <3>2. c = k \/ c = k - 1
      BY <1>1
    <3>3. CASE c = k
      <4>1. (u[k] - u[k - 1]) * (k - (k - 1)) <= (u[k] - u[k - 1]) * 1
        BY <1>1, <3>1
      <4> QED
        BY <3>1, <3>3, <4>1 DEF Above
    <3>4. CASE c = k - 1
      <4>1. (u[k] - u[k - 1]) * ((k - 1) - (k - 1)) <= (u[k - 1] - u[k - 1]) * 1
        BY <1>1, <3>1
      <4> QED
        BY <3>1, <3>4, <4>1 DEF Above
    <3> QED
      BY <3>2, <3>3, <3>4
  <2> QED
    BY <1>4, <2>1, <2>2
<1>8. ASSUME NEW i \in 1..n - m, i - 1 \in T PROVE i \in T
  <2> DEFINE t == n - (i - 1)
             a == stack[t].sum
             n1 == stack[t].n
             b == big(t).sum
             n2 == big(t).n
  <2>1. t \in 1..n /\ t \in m + 1..n /\ t - 1 = n - i /\ i \in 0..n - m /\ t \in 0..n /\ t - 1 \in 0..n
    BY <1>1
  <2>2. \A c \in e[t]..k : Above(u, big(t), e[t], c)
    BY <1>8
  <2> HIDE DEF t
  <2>3. n1 = e[t] - e[t - 1] /\ a = u[e[t]] - u[e[t - 1]] /\ n2 = k - e[t] /\ b = u[k] - u[e[t]]
    BY <1>3, <1>4, <2>1
  <2>4. e[t] \in 0..k - 1 /\ e[t - 1] \in 0..k - 1 /\ u[e[t]] \in Int /\ u[e[t - 1]] \in Int /\ u[k] \in Int
    <3>1. k \in 0..k
      BY <1>1
    <3> QED
      BY <1>2, <1>3, <1>6, <2>1, <3>1
  <2>5. n1 \in Nat \ {0} /\ a \in Int
    <3>1. stack[t] \in Block
      BY <1>1, <2>1
    <3> QED
      BY <3>1 DEF Block
  <2>6. /\ n2 \in Nat \ {0} /\ b \in Int /\ n1 + n2 = k - e[t - 1] /\ a + b = u[k] - u[e[t - 1]]
        /\ \A c \in e[t - 1]..k : /\ n1 + (c - e[t]) = c - e[t - 1]
                                  /\ c <= e[t] => c \in 0..k - 1 /\ c - e[t - 1] \in Nat
                                  /\ ~(c <= e[t]) => c \in e[t]..k /\ c - e[t] \in 0..n2
        /\ \A s \in Int : s - u[e[t - 1]] \in Int /\ s - u[e[t]] \in Int /\ (s - u[e[t]]) + a = s - u[e[t - 1]]
    <3>1. Spanned(k, e[t - 1], e[t], u[e[t - 1]], u[e[t]], u[k])
      BY <1>0, <2>4, Spans, Zenon
    <3> HIDE DEF n1, n2, a, b
    <3> QED
      BY <2>3, <3>1, Zenon DEF Spanned
  <2>7. a * n2 >= b * n1
    <3>1. ~(a * n2 < b * n1)
      BY <1>5, <2>1 DEF Below
    <3>2. a * n2 \in Int /\ b * n1 \in Int
      <4> HIDE DEF a, b, n1, n2
      <4> QED
        BY <2>5, <2>6
    <3> HIDE DEF a, b, n1, n2
    <3> QED
      BY <3>1, <3>2
  <2>8. big(t - 1).n = n1 + n2 /\ big(t - 1).sum = a + b
    <3>1. big(t - 1).n = k - e[t - 1] /\ big(t - 1).sum = u[k] - u[e[t - 1]]
      BY <1>3, <2>1
    <3> HIDE DEF a, b, n1, n2
    <3> QED
      BY <2>6, <3>1
  <2>9. \A c \in 0..k - 1 : a * (c - e[t - 1]) <= (u[c] - u[e[t - 1]]) * n1
    BY <1>4, <2>1 DEF Above
  <2>10. \A c \in e[t]..k : b * (c - e[t]) <= (u[c] - u[e[t]]) * n2
    BY <2>2 DEF Above
  <2> HIDE DEF a, b, n1, n2
  <2>11. ASSUME NEW c \in e[t - 1]..k PROVE (a + b) * (c - e[t - 1]) <= (u[c] - u[e[t - 1]]) * (n1 + n2)
    <3>1. c \in Int /\ c \in 0..k /\ u[c] \in Int
      <4>1. c \in 0..k
        BY <1>1, <2>4
      <4> QED
        BY <1>2, <4>1
    <3>2. CASE c <= e[t]
      <4>1. c \in 0..k - 1 /\ c - e[t - 1] \in Nat /\ u[c] - u[e[t - 1]] \in Int
        BY <2>6, <3>1, <3>2, Zenon
      <4>2. a * (c - e[t - 1]) <= (u[c] - u[e[t - 1]]) * n1
        BY <2>9, <4>1
      <4> QED
        BY <2>5, <2>6, <2>7, <4>1, <4>2, AboveFirst
    <3>3. CASE ~(c <= e[t])
      <4>1. c \in e[t]..k /\ c - e[t] \in 0..n2 /\ u[c] - u[e[t]] \in Int
        BY <2>6, <3>1, <3>3, Zenon
      <4>2. b * (c - e[t]) <= (u[c] - u[e[t]]) * n2
        BY <2>10, <4>1
      <4>3. (a + b) * (n1 + (c - e[t])) <= ((u[c] - u[e[t]]) + a) * (n1 + n2)
        BY <2>5, <2>6, <2>7, <4>1, <4>2, AboveSecond
      <4>4. n1 + (c - e[t]) = c - e[t - 1] /\ (u[c] - u[e[t]]) + a = u[c] - u[e[t - 1]]
        BY <2>6, <3>1, Zenon
      <4> QED
        BY <4>3, <4>4
    <3> QED
      BY <3>2, <3>3
  <2>12. \A c \in e[t - 1]..k : Above(u, big(t - 1), e[t - 1], c)
    BY <2>8, <2>11 DEF Above
  <2> QED
    BY <2>1, <2>12
<1>9. ASSUME NEW t \in m..n PROVE \A c \in e[t]..k : Above(u, big(t), e[t], c)
  <2> DEFINE i == n - t
  <2>1. i \in Nat /\ n - i = t /\ \A j \in 1..i : j \in 1..n - m
    BY <1>1
  <2>2. \A j \in 1..i : j - 1 \in T => j \in T
    BY <1>8, <2>1
  <2>3. i \in T
    <3> HIDE DEF T, i
    <3> QED
      BY <1>7, <2>1, <2>2, Stepwise
  <2> HIDE DEF i
  <2> QED
    BY <2>1, <2>3
<1> QED
  BY <1>9 DEF u, n, big

\* A block of a hull over more trades: what it took is not below its line from there either.
LEMMA HullGrows ==
  ASSUME NEW q \in Seq(Trades), NEW k \in 1..Len(q), NEW stack, Rising(stack), Hulled(stack, k - 1, q)
  PROVE  Hulled(Pool(stack, Single(q[k])), k, q)
<1> DEFINE n == Len(stack)
           u == Ups(q)
           block == Single(q[k])
           new == Pool(stack, block)
<1>1. PICK e : Hull(e, stack, k - 1, q)
  BY DEF Hulled
<1>2. /\ n \in Nat /\ k - 1 \in Nat /\ Len(q) \in Nat /\ q[k] \in Trades
      /\ stack \in Seq(Block) /\ \A t \in 1..n : stack[t] \in Block
  BY LenProperties, ElementOfSeq DEF Rising
<1>3. k \in Nat
  BY <1>2
<1>4. \A c \in 0..k : u[c] \in Int
  <2>1. u \in [0..Len(q) -> Int]
    BY UpsStep
  <2>2. \A c \in 0..k : c \in 0..Len(q)
    BY <1>2
  <2> HIDE DEF u
  <2> QED
    BY <2>1, <2>2
<1>5. block \in Block
  BY <1>2, SingleType
<1>6. PICK m \in 0..n : /\ new \in Seq(Block) /\ Len(new) = m + 1
                        /\ \A j \in 1..m : new[j] = stack[j]
                        /\ new[m + 1] = Merged(stack, block, m)
                        /\ m >= 1 => Below(stack[m], Merged(stack, block, m))
                        /\ \A t \in m + 1..n : ~Below(stack[t], Merged(stack, block, t))
  BY <1>2, <1>5, PoolShape
<1> DEFINE last == Merged(stack, block, m)
           e2 == [j \in 0..m + 1 |-> IF j <= m THEN e[j] ELSE k]
<1>7. m \in Nat /\ n \in Nat /\ m <= n /\ m + 1 \in 1..m + 1
  BY <1>2
<1>8. last.n = k - e[m] /\ last.sum = u[k] - u[e[m]] /\ last.x = q[k].p /\ e[m] \in 0..k - 1
  BY <1>1, <1>2, MergedCounts
<1>9. \A c \in e[m]..k : Above(u, last, e[m], c)
  <2>1. m \in m..n
    BY <1>7
  <2> QED
    BY <1>1, <1>6, <2>1, MergedAbove
<1>10. /\ e \in [0..n -> 0..k - 1] /\ e[0] = 0
       /\ \A j \in 1..n : /\ stack[j].n = e[j] - e[j - 1] /\ stack[j].sum = u[e[j]] - u[e[j - 1]]
                          /\ stack[j].x = q[e[j]].p
                          /\ \A c \in 0..k - 1 : Above(u, stack[j], e[j - 1], c)
  BY <1>1 DEF Hull
<1>11. last \in Block
  <2>1. new[m + 1] \in Block
    BY <1>6, <1>7, ElementOfSeq
  <2> QED
    BY <1>6, <2>1
<1> HIDE DEF new, last, block, u, n
<1>12. ASSUME NEW j \in 1..m PROVE Below(stack[j], last) /\ j \in 1..n /\ j - 1 \in 0..n /\ j - 1 \in 0..m
  <2>1. j \in 1..n /\ j - 1 \in 0..n /\ j - 1 \in 0..m /\ m >= 1 /\ m \in 1..n /\ (j = m \/ j < m)
    BY <1>7
  <2>2. Below(stack[m], last)
    BY <1>6, <2>1 DEF last
  <2>3. CASE j = m
    BY <2>1, <2>2, <2>3
  <2>4. CASE j < m
    <3>1. Below(stack[j], stack[m])
      BY <2>1, <2>4 DEF Rising, n
    <3> QED
      BY <1>2, <1>11, <2>1, <2>2, <3>1, BelowTransitive
  <2> QED
    BY <2>1, <2>3, <2>4
<1>13. \A t \in 0..n : e[t] \in 0..k - 1 /\ e[t] \in Int /\ u[e[t]] \in Int
  <2>1. \A t \in 0..n : e[t] \in 0..k - 1
    BY <1>10
  <2>2. \A c \in 0..k - 1 : c \in 0..k /\ c \in Int
    BY <1>3
  <2> QED
    BY <1>4, <2>1, <2>2
<1>14. last.n \in Nat \ {0} /\ last.sum \in Int
  BY <1>11 DEF Block
<1>15. \A j \in 1..n : stack[j].n \in Nat \ {0} /\ stack[j].sum \in Int
  BY <1>2 DEF Block
<1>16. k \in 0..k /\ u[k] \in Int /\ \A c \in 0..k : c \in Int /\ (c \in 0..k - 1 \/ c = k)
  BY <1>3, <1>4
\* The kept blocks: beyond the last place as well.
<1>17. ASSUME NEW j \in 1..m, NEW c \in 0..k PROVE Above(u, stack[j], e[j - 1], c)
  <2>1. CASE c \in 0..k - 1
    BY <1>10, <1>12, <2>1
  <2>2. CASE c = k
    <3> DEFINE a == stack[j].sum
               n1 == stack[j].n
               b == last.sum
               n2 == last.n
               d == e[m] - e[j - 1]
               s == u[e[m]] - u[e[j - 1]]
    <3>1. Above(u, stack[j], e[j - 1], e[m])
      BY <1>8, <1>10, <1>12
    <3>2. a * d <= s * n1
      BY <3>1 DEF Above
    <3>3. a * n2 < b * n1
      BY <1>12 DEF Below
    <3>4. a \in Int /\ n1 \in Nat \ {0} /\ b \in Int /\ n2 \in Nat \ {0}
      BY <1>12, <1>14, <1>15
    <3>5. e[m] \in Int /\ e[j - 1] \in Int /\ u[e[m]] \in Int /\ u[e[j - 1]] \in Int /\ m \in 0..n
      BY <1>7, <1>12, <1>13
    <3>6. d \in Int /\ s \in Int
      BY <3>5
    <3>7. n2 = k - e[m] /\ b = u[k] - u[e[m]]
      BY <1>8
    <3> HIDE DEF a, b, n1, n2
    <3>8. d + n2 = k - e[j - 1] /\ s + b = u[k] - u[e[j - 1]]
      <4>1. \A x, y, z \in Int : (x - y) + (z - x) = z - y
        OBVIOUS
      <4> QED
        BY <1>3, <1>16, <3>5, <3>7, <4>1
    <3> HIDE DEF d, s
    <3>9. a * (d + n2) <= (s + b) * n1
      BY <3>2, <3>3, <3>4, <3>6, AboveAfter
    <3>10. a * (k - e[j - 1]) <= (u[k] - u[e[j - 1]]) * n1
      BY <3>8, <3>9
    <3> QED
      BY <2>2, <3>10 DEF Above, a, n1
  <2> QED
    BY <1>16, <2>1, <2>2
\* The merged block: before its first place as well.
<1>18. ASSUME NEW c \in 0..k PROVE Above(u, last, e[m], c)
  <2>1. CASE c \in e[m]..k
    BY <1>9, <2>1
  <2>2. CASE c \notin e[m]..k
    <3>1. c < e[m] /\ c \in 0..k - 1 /\ m # 0 /\ c \in Int
      <4>1. c \in Int /\ c >= 0 /\ c <= k
        BY <1>3
      <4>2. e[m] \in Int /\ e[m] <= k - 1
        BY <1>3, <1>8
      <4>3. c < e[m] /\ c \in 0..k - 1
        BY <1>3, <2>2, <4>1, <4>2
      <4>4. m # 0
        BY <1>10, <4>1, <4>3
      <4> QED
        BY <4>1, <4>3, <4>4
    <3>2. m \in 1..m /\ m \in 1..n
      BY <1>7, <3>1
    <3> DEFINE a == stack[m].sum
               n1 == stack[m].n
               b == last.sum
               n2 == last.n
               d == e[m] - c
               s == u[c] - u[e[m]]
    <3>3. a * (c - e[m - 1]) <= (u[c] - u[e[m - 1]]) * n1
      BY <1>10, <3>1, <3>2 DEF Above
    <3>4. a * n2 < b * n1
      BY <1>12, <3>2 DEF Below
    <3>5. a \in Int /\ n1 \in Nat \ {0} /\ b \in Int /\ n2 \in Nat \ {0}
      BY <1>14, <1>15, <3>2
    <3>6. n1 = e[m] - e[m - 1] /\ a = u[e[m]] - u[e[m - 1]]
      BY <1>10, <3>2
    <3>7. e[m] \in Int /\ e[m - 1] \in Int /\ u[e[m]] \in Int /\ u[e[m - 1]] \in Int /\ u[c] \in Int
      <4>1. m \in 0..n /\ m - 1 \in 0..n
        BY <1>12, <3>2
      <4> QED
        BY <1>4, <1>13, <4>1
    <3>8. d \in Nat /\ s \in Int
      <4>1. \A x, y \in Int : x < y => y - x \in Nat
        OBVIOUS
      <4>2. \A x, y \in Int : x - y \in Int
        OBVIOUS
      <4> QED
        BY <3>1, <3>7, <4>1, <4>2
    <3> HIDE DEF a, b, n1, n2
    <3>9. n1 - d = c - e[m - 1] /\ s + a = u[c] - u[e[m - 1]] /\ -d = c - e[m]
      <4>1. c \in Int
        BY <3>1
      <4>2. e[m] \in Int /\ e[m - 1] \in Int
        BY <3>7
      <4>3. u[c] \in Int /\ u[e[m]] \in Int /\ u[e[m - 1]] \in Int
        BY <3>7
      <4>4. \A x, y, z \in Int : (x - y) - (x - z) = z - y
        OBVIOUS
      <4>5. \A x, y, z \in Int : (z - x) + (x - y) = z - y
        OBVIOUS
      <4>6. \A x, z \in Int : -(x - z) = z - x
        OBVIOUS
      <4>7. (e[m] - e[m - 1]) - (e[m] - c) = c - e[m - 1]
        BY <4>1, <4>2, <4>4, Zenon
      <4>8. -(e[m] - c) = c - e[m]
        BY <4>1, <4>2, <4>6, Zenon
      <4>9. (u[c] - u[e[m]]) + (u[e[m]] - u[e[m - 1]]) = u[c] - u[e[m - 1]]
        BY <4>3, <4>5, Zenon
      <4> QED
        BY <3>6, <4>7, <4>8, <4>9
    <3> HIDE DEF d, s
    <3>10. a * (n1 - d) <= (s + a) * n1
      BY <3>3, <3>9
    <3>11. b * (-d) <= s * n2
      BY <3>4, <3>5, <3>8, <3>10, AboveBefore
    <3>12. b * (c - e[m]) <= (u[c] - u[e[m]]) * n2
      BY <3>9, <3>11 DEF s
    <3> QED
      BY <3>12 DEF Above, b, n2
  <2> QED
    BY <2>1, <2>2
<1>19. /\ e2 \in [0..m + 1 -> 0..k] /\ e2[0] = 0 /\ e2[m + 1] = k
       /\ \A j \in 0..m : e2[j] = e[j]
  <2>1. \A j \in 0..m : j \in 0..n /\ j \in 0..m + 1 /\ j <= m
    BY <1>7
  <2>2. \A j \in 0..m + 1 : j \in 0..m \/ (j = m + 1 /\ ~(j <= m))
    BY <1>7
  <2>3. \A j \in 0..m : e2[j] = e[j]
    BY <2>1
  <2>4. m + 1 \in 0..m + 1 /\ ~(m + 1 <= m) /\ 0 \in 0..m
    BY <1>7
  <2>5. e2[m + 1] = k
    BY <2>4
  <2>6. \A j \in 0..n : e[j] \in 0..k
    BY <1>3, <1>10
  <2>7. ASSUME NEW j \in 0..m + 1 PROVE (IF j <= m THEN e[j] ELSE k) \in 0..k
    BY <1>16, <2>1, <2>2, <2>6
  <2>8. e2 \in [0..m + 1 -> 0..k]
    BY <2>7
  <2> QED
    BY <1>10, <2>3, <2>4, <2>5, <2>8
<1> HIDE DEF e2
<1>20. ASSUME NEW j \in 1..m + 1
       PROVE  /\ new[j].n = e2[j] - e2[j - 1] /\ new[j].sum = u[e2[j]] - u[e2[j - 1]]
              /\ new[j].x = q[e2[j]].p
              /\ \A c \in 0..k : Above(u, new[j], e2[j - 1], c)
  <2>1. j \in 1..m \/ j = m + 1
    BY <1>7
  <2>2. CASE j \in 1..m
    <3>1. new[j] = stack[j] /\ j \in 1..n /\ j \in 0..m /\ j - 1 \in 0..m
      BY <1>6, <1>7, <1>12, <2>2
    <3>2. e2[j] = e[j] /\ e2[j - 1] = e[j - 1]
      BY <1>19, <3>1
    <3> QED
      BY <1>10, <1>17, <2>2, <3>1, <3>2
  <2>3. CASE j = m + 1
    <3>1. j - 1 = m /\ m \in 0..m
      BY <1>7, <2>3
    <3>2. new[j] = last /\ e2[j] = k /\ e2[j - 1] = e[m]
      BY <1>6, <1>19, <2>3, <3>1 DEF last
    <3> QED
      BY <1>8, <1>18, <3>2
  <2> QED
    BY <2>1, <2>2, <2>3
<1>21. Hull(e2, new, k, q)
  <2>1. Len(new) = m + 1
    BY <1>6
  <2> QED
    BY <1>19, <1>20, <2>1 DEF Hull, u
<1> QED
  BY <1>21 DEF Hulled, new, block

-----------------------------------------------------------------------------
(* All the trades of a calibrator.                                        *)

\* The blocks rise, every trade is in one of them, and no line of a block is above the count of right trades.
LEMMA PavRises ==
  ASSUME NEW pairs \in Seq(Trades)
  PROVE  /\ Rising(Pav(pairs))
         /\ Total(Pav(pairs), 1, Len(Pav(pairs))) = Len(pairs)
         /\ Hulled(Pav(pairs), Len(pairs), Sorted(pairs))
<1> DEFINE q == Sorted(pairs)
           n == Len(pairs)
<1>1. /\ q \in Seq(Trades) /\ Len(q) = n /\ n \in Nat /\ DOMAIN q = 1..n
      /\ \A i, j \in 1..n : i < j => q[i].p <= q[j].p
  <2>1. /\ q \in Seq(Trades) /\ Len(q) = n
        /\ \A i, j \in 1..n : i < j => q[i].p <= q[j].p
    BY SortedTrades
  <2> QED
    BY <2>1, LenProperties
<1>2. Pav(pairs) = Stacked(q)
  BY PavIsFold
<1> HIDE DEF q, n
<1>3. \A i \in 1..n : q[i] \in Trades /\ q[i].p \in Int
  <2>1. \A i \in 1..n : q[i] \in Trades
    BY <1>1, ElementOfSeq
  <2> QED
    BY <2>1 DEF Trades
<1>4. PICK g : /\ Stacked(q) = g[1..n]
               /\ g[{}] = <<>>
               /\ \A s \in SUBSET (1..n) : s # {} => g[s] = Pool(g[s \ {Max(s)}], Single(q[Max(s)]))
  <2>1. StackWalks(q) /\ DOMAIN q = 1..n
    BY <1>1, StackedIsWalk
  <2> QED
    BY <2>1 DEF StackWalks
<1> DEFINE Fine(blocks, t) ==
                /\ Rising(blocks) /\ Total(blocks, 1, Len(blocks)) = t
                /\ \A i \in 1..Len(blocks) : t >= 1 /\ blocks[i].x <= q[t].p
                /\ Hulled(blocks, t, q)
           T == {t \in 0..n : Fine(g[1..t], t)}
<1>5. 0 \in T
  <2>1. 1..0 = {} /\ 0 \in 0..n
    BY <1>1
  <2>2. g[1..0] = <<>>
    BY <1>4, <2>1
  <2>3. <<>> \in Seq(Block) /\ Len(<<>>) = 0
    OBVIOUS
  <2>4. Rising(<<>>)
    BY <2>1, <2>3 DEF Rising
  <2>5. Total(<<>>, 1, Len(<<>>)) = 0
    BY <2>1, <2>3, EmptySum DEF Total
  <2>6. Hulled(<<>>, 0, q)
    <3> DEFINE e == [j \in 0..0 |-> 0]
    <3>1. e \in [0..0 -> 0..0] /\ e[0] = 0
      OBVIOUS
    <3> HIDE DEF e
    <3>2. Hull(e, <<>>, 0, q)
      BY <2>1, <2>3, <3>1 DEF Hull
    <3> QED
      BY <3>2 DEF Hulled
  <2> QED
    BY <2>1, <2>2, <2>3, <2>4, <2>5, <2>6
<1>6. ASSUME NEW t \in 1..n, t - 1 \in T PROVE t \in T
  <2> DEFINE stack == g[1..t - 1]
             block == Single(q[t])
             new == g[1..t]
  <2>1. t \in 0..n /\ t >= 1 /\ Max(1..t) = t /\ (1..t) \ {t} = 1..t - 1 /\ 1..t \in SUBSET (1..n) /\ 1..t # {}
    BY <1>1, LastOfFirst
  <2>2. new = Pool(stack, block)
    <3>1. new = Pool(g[(1..t) \ {Max(1..t)}], Single(q[Max(1..t)]))
      BY <1>4, <2>1
    <3> QED
      BY <2>1, <3>1
  <2>3. block \in Block /\ block.n = 1 /\ block.x = q[t].p
    BY <1>3, SingleType
  <2>4. /\ Rising(stack) /\ Total(stack, 1, Len(stack)) = t - 1
        /\ \A i \in 1..Len(stack) : t - 1 >= 1 /\ stack[i].x <= q[t - 1].p
        /\ Hulled(stack, t - 1, q)
    BY <1>6
  <2>5. ASSUME NEW i \in 1..Len(stack) PROVE stack[i].x <= block.x
    <3>1. t - 1 \in 1..n /\ t - 1 < t
      BY <1>1, <2>4
    <3>2. stack[i].x <= q[t - 1].p /\ q[t - 1].p <= q[t].p /\ q[t - 1].p \in Int /\ q[t].p \in Int
      BY <1>1, <1>3, <2>4, <3>1
    <3>3. stack[i].x \in Int
      <4>1. stack[i] \in Block
        BY <2>4, ElementOfSeq DEF Rising
      <4> QED
        BY <4>1 DEF Block
    <3> QED
      BY <2>3, <3>2, <3>3
  <2> HIDE DEF stack, block
  <2>6. /\ Rising(Pool(stack, block))
        /\ \A i \in 1..Len(Pool(stack, block)) : Pool(stack, block)[i].x <= block.x
        /\ Total(Pool(stack, block), 1, Len(Pool(stack, block))) = Total(stack, 1, Len(stack)) + block.n
    BY <2>3, <2>4, <2>5, PoolRises
  <2>7. (t - 1) + 1 = t
    BY <1>1
  <2>8. Hulled(Pool(stack, block), t, q)
    <3>1. t \in 1..Len(q)
      BY <1>1
    <3> QED
      BY <1>1, <2>4, <3>1, HullGrows DEF block
  <2>9. Fine(new, t)
    BY <2>1, <2>2, <2>3, <2>4, <2>6, <2>7, <2>8
  <2> QED
    BY <2>1, <2>9
<1>7. n \in T
  <2> HIDE DEF T
  <2> QED
    BY <1>1, <1>5, <1>6, Stepwise
<1> QED
  BY <1>2, <1>4, <1>7 DEF n, q

-----------------------------------------------------------------------------
(* Rounding and fractions.                                                 *)

\* A whole number no farther than a half from a fraction, and even if it is a half.
Nearest(r, num, den) ==
    /\ (2 * r - 1) * den <= 2 * num /\ 2 * num <= (2 * r + 1) * den
    /\ (2 * r - 1) * den = 2 * num \/ 2 * num = (2 * r + 1) * den => r % 2 = 0

LEMMA RoundedNearest ==
  ASSUME NEW num \in Int, NEW den \in Nat \ {0}
  PROVE  Rounded(num, den) \in Int /\ Nearest(Rounded(num, den), num, den)
<1> DEFINE q == num \div den
           m == num % den
<1>1. q \in Int /\ m \in 0..den - 1 /\ num = den * q + m
  OBVIOUS
<1>2. Rounded(num, den) = IF 2 * m < den \/ (2 * m = den /\ q % 2 = 0) THEN q ELSE q + 1
  BY DEF Rounded
<1> HIDE DEF q, m
<1> DEFINE w == den * q
<1>3. w \in Int /\ num = w + m /\ m \in Int /\ 0 <= m /\ m < den
  BY <1>1
<1>4. /\ (2 * q - 1) * den = 2 * w - den /\ (2 * q + 1) * den = 2 * w + den
      /\ (2 * (q + 1) - 1) * den = 2 * w + den /\ (2 * (q + 1) + 1) * den = 2 * w + 3 * den
  <2>1. \A a, b \in Int : /\ (2 * a - 1) * b = 2 * (b * a) - b /\ (2 * a + 1) * b = 2 * (b * a) + b
                          /\ (2 * (a + 1) - 1) * b = 2 * (b * a) + b /\ (2 * (a + 1) + 1) * b = 2 * (b * a) + 3 * b
    OBVIOUS
  <2> QED
    BY <1>1, <2>1
<1> HIDE DEF w
<1>5. CASE 2 * m < den \/ (2 * m = den /\ q % 2 = 0)
  <2>1. Rounded(num, den) = q
    BY <1>2, <1>5
  <2>2. /\ 2 * w - den <= 2 * num /\ 2 * num <= 2 * w + den
        /\ 2 * w - den # 2 * num
        /\ 2 * num = 2 * w + den => q % 2 = 0
    BY <1>3, <1>5
  <2> QED
    BY <1>1, <1>4, <2>1, <2>2 DEF Nearest
<1>6. CASE ~(2 * m < den \/ (2 * m = den /\ q % 2 = 0))
  <2>1. Rounded(num, den) = q + 1
    BY <1>2, <1>6
  <2>2. 2 * m >= den /\ (2 * m = den => q % 2 # 0)
    BY <1>3, <1>6
  <2>3. /\ 2 * w + den <= 2 * num /\ 2 * num <= 2 * w + 3 * den
        /\ 2 * w + 3 * den # 2 * num
        /\ 2 * num = 2 * w + den => q % 2 # 0
    BY <1>3, <2>2
  <2>4. q % 2 # 0 => (q + 1) % 2 = 0
    BY <1>1
  <2> QED
    <3> DEFINE r == q + 1
               low == (2 * r - 1) * den
               high == (2 * r + 1) * den
    <3>1. low = 2 * w + den /\ high = 2 * w + 3 * den
      BY <1>4
    <3> HIDE DEF low, high
    <3>2. /\ low <= 2 * num /\ 2 * num <= high
          /\ low = 2 * num \/ 2 * num = high => r % 2 = 0
      BY <2>3, <2>4, <3>1
    <3> HIDE DEF r
    <3>3. Nearest(r, num, den)
      BY <3>2 DEF Nearest, low, high
    <3>4. Rounded(num, den) = r /\ r \in Int
      BY <1>1, <2>1 DEF r
    <3> QED
      BY <3>3, <3>4
<1> QED
  BY <1>5, <1>6

\* Of two fractions the lower one is not rounded to more.
LEMMA NearestRises ==
  ASSUME NEW m \in Int, NEW c \in Nat \ {0}, NEW n \in Int, NEW d \in Nat \ {0}, m * d <= n * c,
         NEW r \in Int, NEW s \in Int, Nearest(r, m, c), Nearest(s, n, d)
  PROVE  r <= s
<1> SUFFICES ASSUME s < r PROVE FALSE
  OBVIOUS
<1> DEFINE u == 2 * r - 1
           v == 2 * s + 1
<1>1. u \in Int /\ v \in Int /\ v <= u
  OBVIOUS
<1>2. u * c <= 2 * m /\ 2 * n <= v * d
  BY DEF Nearest
<1> HIDE DEF u, v
<1>3. (u * c) * d <= (2 * m) * d /\ (2 * n) * c <= (v * d) * c
  BY <1>1, <1>2
<1>4. (2 * m) * d <= (2 * n) * c
  OBVIOUS
<1>5. u * (c * d) <= v * (c * d)
  <2>1. (u * c) * d = u * (c * d) /\ (v * d) * c = v * (c * d)
    BY <1>1
  <2>2. {(u * c) * d, (2 * m) * d, (2 * n) * c, (v * d) * c} \subseteq Int
    BY <1>1
  <2> QED
    BY <1>3, <1>4, <2>1, <2>2
<1>6. c * d \in Nat \ {0}
  OBVIOUS
<1>7. u = v
  <2>1. \A a, b, e \in Int : e > 0 /\ a * e <= b * e => a <= b
    OBVIOUS
  <2>2. u <= v
    BY <1>1, <1>5, <1>6, <2>1
  <2> QED
    BY <1>1, <2>2
<1>8. u * c = 2 * m /\ 2 * n = v * d
  <2>1. (u * c) * d = u * (c * d) /\ (v * d) * c = u * (c * d)
    BY <1>1, <1>7
  <2>2. (2 * m) * d = u * (c * d) /\ (2 * n) * c = u * (c * d)
    <3>1. {(u * c) * d, (2 * m) * d, (2 * n) * c, (v * d) * c} \subseteq Int
      BY <1>1
    <3> QED
      BY <1>3, <1>4, <2>1, <3>1
  <2>3. (u * c) * d = (2 * m) * d /\ (v * d) * c = (2 * n) * c
    BY <2>1, <2>2
  <2>4. \A a, b, e \in Int : e > 0 /\ a * e = b * e => a = b
    OBVIOUS
  <2>5. u * c \in Int /\ 2 * m \in Int /\ v * d \in Int /\ 2 * n \in Int /\ c > 0 /\ d > 0
    BY <1>1
  <2> QED
    BY <2>3, <2>4, <2>5
<1>9. r % 2 = 0 /\ s % 2 = 0
  BY <1>8 DEF Nearest, u, v
<1>10. r = s + 1
  BY <1>7 DEF u, v
<1> QED
  BY <1>9, <1>10

LEMMA RoundedIs ==
  ASSUME NEW num \in Int, NEW den \in Nat \ {0}, NEW r \in Int, Nearest(r, num, den)
  PROVE  Rounded(num, den) = r
<1> DEFINE s == Rounded(num, den)
<1>1. s \in Int /\ Nearest(s, num, den)
  BY RoundedNearest
<1>2. num * den <= num * den
  OBVIOUS
<1> HIDE DEF s
<1>3. r <= s /\ s <= r
  BY <1>1, <1>2, NearestRises
<1>4. r = s
  BY <1>1, <1>3
<1> QED
  BY <1>4 DEF s

\* What is left of a whole number of units is rounded to what is left.
LEMMA NearestRest ==
  ASSUME NEW num \in Int, NEW den \in Nat \ {0}, NEW r \in Int, Nearest(r, num, den)
  PROVE  Nearest(Unit - r, Unit * den - num, den)
<1> DEFINE w == r * den
           h == Unit * den - num
<1>1. w \in Int /\ (2 * r - 1) * den = 2 * w - den /\ (2 * r + 1) * den = 2 * w + den
  <2>1. \A a, b \in Int : (2 * a - 1) * b = 2 * (a * b) - b /\ (2 * a + 1) * b = 2 * (a * b) + b
    OBVIOUS
  <2> QED
    BY <2>1
<1>2. /\ (2 * (Unit - r) - 1) * den = 2000 * den - 2 * w - den
      /\ (2 * (Unit - r) + 1) * den = 2000 * den - 2 * w + den
      /\ 2 * h = 2000 * den - 2 * num
  <2>1. \A a, b \in Int : /\ (2 * (1000 - a) - 1) * b = 2000 * b - 2 * (a * b) - b
                          /\ (2 * (1000 - a) + 1) * b = 2000 * b - 2 * (a * b) + b
    OBVIOUS
  <2> QED
    BY <2>1 DEF Unit
<1> HIDE DEF w
<1>3. /\ 2 * w - den <= 2 * num /\ 2 * num <= 2 * w + den
      /\ 2 * w - den = 2 * num \/ 2 * num = 2 * w + den => r % 2 = 0
  BY <1>1 DEF Nearest
<1>4. r % 2 = 0 => (Unit - r) % 2 = 0
  BY DEF Unit
<1>5. /\ 2000 * den - 2 * w - den <= 2000 * den - 2 * num /\ 2000 * den - 2 * num <= 2000 * den - 2 * w + den
      /\ 2000 * den - 2 * w - den = 2000 * den - 2 * num => 2 * num = 2 * w + den
      /\ 2000 * den - 2 * num = 2000 * den - 2 * w + den => 2 * w - den = 2 * num
  BY <1>1, <1>3
<1> HIDE DEF h
<1>6. Nearest(Unit - r, h, den)
  BY <1>2, <1>3, <1>4, <1>5 DEF Nearest
<1> QED
  BY <1>6 DEF h

-----------------------------------------------------------------------------
(* What a calibrator makes of a probability.                               *)

\* The block a probability falls into: the first that does not end below it, or else the last.
Falls(blocks, p, k) ==
    /\ k \in 1..Len(blocks)
    /\ \A j \in 1..Len(blocks) : j < k => blocks[j].x < p
    /\ p <= blocks[k].x \/ k = Len(blocks)

LEMMA TransformFalls ==
  ASSUME NEW cal, Rising(cal.blocks), cal.blocks # <<>>, NEW p \in Int
  PROVE  \E k : Falls(cal.blocks, p, k) /\ Transform(cal, p) = [num |-> cal.blocks[k].sum, den |-> cal.blocks[k].n]
<1> DEFINE n == Len(cal.blocks)
           b == cal.blocks
           above == {i \in DOMAIN cal.blocks : p <= cal.blocks[i].x}
           first == CHOOSE i \in above : \A j \in above : i <= j
           block == IF above = {} THEN Last(cal.blocks) ELSE cal.blocks[first]
<1>1. n \in Nat /\ DOMAIN b = 1..n /\ (\A i \in 1..n : b[i] \in Block) /\ b \in Seq(Block)
  BY LenProperties, ElementOfSeq DEF Rising
<1>2. n # 0
  <2>1. Len(cal.blocks) = 0 => cal.blocks = <<>>
    BY <1>1, EmptySeq
  <2> QED
    BY <2>1
<1>3. Transform(cal, p) = [num |-> block.sum, den |-> block.n]
  BY DEF Transform
<1>4. above \in SUBSET (1..n) /\ \A i \in 1..n : i \in above <=> p <= b[i].x
  BY <1>1
<1>5. \A i \in 1..n : b[i].x \in Int
  BY <1>1 DEF Block
<1> HIDE DEF above
<1>6. CASE above = {}
  <2>1. block = b[n] /\ n \in 1..n
    BY <1>1, <1>2, <1>6 DEF Last
  <2>2. \A j \in 1..n : b[j].x < p
    BY <1>4, <1>5, <1>6
  <2> QED
    BY <1>3, <2>1, <2>2 DEF Falls
<1>7. CASE above # {}
  <2>1. \E i \in above : \A j \in above : i <= j
    BY <1>4, <1>7, LeastNumber
  <2>2. first \in above /\ \A j \in above : first <= j
    BY <2>1
  <2> HIDE DEF first
  <2>3. block = b[first] /\ first \in 1..n /\ p <= b[first].x
    BY <1>4, <1>7, <2>2
  <2>4. ASSUME NEW j \in 1..n, j < first PROVE b[j].x < p
    <3>1. j \notin above
      BY <2>2, <2>3, <2>4
    <3> QED
      BY <1>4, <1>5, <3>1
  <2> QED
    BY <1>3, <2>3, <2>4 DEF Falls
<1> QED
  BY <1>6, <1>7

\* Fractions of one.
Part == {v \in [num : Nat, den : Nat \ {0}] : v.num <= v.den}

LEMMA TransformType ==
  ASSUME NEW cal, Rising(cal.blocks), NEW p \in 0..Unit
  PROVE  Transform(cal, p) \in Part
<1>1. CASE cal.blocks = <<>>
  <2>1. Transform(cal, p) = [num |-> p, den |-> Unit]
    BY <1>1 DEF Transform
  <2> QED
    BY <2>1 DEF Part, Unit
<1>2. CASE cal.blocks # <<>>
  <2>1. p \in Int
    BY DEF Unit
  <2>2. PICK k : Falls(cal.blocks, p, k) /\ Transform(cal, p) = [num |-> cal.blocks[k].sum, den |-> cal.blocks[k].n]
    BY <1>2, <2>1, TransformFalls
  <2>3. cal.blocks[k] \in Block
    BY <2>2, ElementOfSeq DEF Falls, Rising
  <2> QED
    BY <2>2, <2>3 DEF Block, Part
<1> QED
  BY <1>1, <1>2

LEMMA TransformRises ==
  ASSUME NEW cal, Rising(cal.blocks), NEW p \in 0..Unit, NEW q \in 0..Unit, p <= q
  PROVE  AtMost(Transform(cal, p), Transform(cal, q))
<1>1. CASE cal.blocks = <<>>
  <2>1. Transform(cal, p) = [num |-> p, den |-> Unit] /\ Transform(cal, q) = [num |-> q, den |-> Unit]
    BY <1>1 DEF Transform
  <2> QED
    BY <2>1 DEF AtMost, Unit
<1>2. CASE cal.blocks # <<>>
  <2> DEFINE n == Len(cal.blocks)
             b == cal.blocks
  <2>1. p \in Int /\ q \in Int
    BY DEF Unit
  <2>2. PICK k : Falls(b, p, k) /\ Transform(cal, p) = [num |-> b[k].sum, den |-> b[k].n]
    BY <1>2, <2>1, TransformFalls
  <2>3. PICK l : Falls(b, q, l) /\ Transform(cal, q) = [num |-> b[l].sum, den |-> b[l].n]
    BY <1>2, <2>1, TransformFalls
  <2>4. n \in Nat /\ k \in 1..n /\ l \in 1..n /\ b[k] \in Block /\ b[l] \in Block
    BY <2>2, <2>3, LenProperties, ElementOfSeq DEF Falls, Rising
  <2>5. k <= l
    <3>1. SUFFICES ASSUME l < k PROVE FALSE
      BY <2>4
    <3>2. b[l].x < p /\ l # n /\ b[l].x \in Int
      BY <2>2, <2>4, <3>1 DEF Falls, Block
    <3>3. q <= b[l].x
      BY <2>3, <3>2 DEF Falls
    <3> QED
      BY <2>1, <3>2, <3>3
  <2>6. CASE k = l
    <3>1. b[k].sum * b[k].n <= b[k].sum * b[k].n
      BY <2>4 DEF Block
    <3> QED
      BY <2>2, <2>3, <2>6, <3>1 DEF AtMost
  <2>7. CASE k < l
    <3>1. Below(b[k], b[l])
      BY <2>4, <2>7 DEF Rising
    <3>2. b[k].sum * b[l].n \in Int /\ b[l].sum * b[k].n \in Int
      BY <2>4 DEF Block
    <3>3. b[k].sum * b[l].n <= b[l].sum * b[k].n
      BY <3>1, <3>2 DEF Below
    <3> QED
      BY <2>2, <2>3, <3>3 DEF AtMost
  <2> QED
    BY <2>4, <2>5, <2>6, <2>7
<1> QED
  BY <1>1, <1>2

\* The share of the first of two parts, which are not both nothing.
Share(up, down) == Rounded(Unit * up.num * down.den, up.num * down.den + down.num * up.den)

LEMMA CalibratedIs ==
  ASSUME NEW cal, NEW p
  PROVE  Calibrated(cal, p) = IF Transform(cal, p).num + Transform(cal, Unit - p).num <= 0 THEN p
                              ELSE Share(Transform(cal, p), Transform(cal, Unit - p))
  BY DEF Calibrated, Share

Whole(up, down) == up.num * down.den + down.num * up.den

LEMMA WholeType ==
  ASSUME NEW up \in Part, NEW down \in Part, ~(up.num + down.num <= 0)
  PROVE  /\ Whole(up, down) \in Nat \ {0} /\ Unit * up.num * down.den \in Int
         /\ Unit * Whole(up, down) - Unit * up.num * down.den = Unit * down.num * up.den
         /\ Whole(down, up) = Whole(up, down)
<1>1. {up.num, up.den, down.num, down.den} \subseteq Nat /\ up.den > 0 /\ down.den > 0
  BY DEF Part
<1> DEFINE a == up.num * down.den
           c == down.num * up.den
<1>2. \A x, y \in Nat : y > 0 => x * y \in Nat /\ (x > 0 => x * y > 0)
  OBVIOUS
<1>3. a \in Nat /\ c \in Nat /\ (up.num > 0 => a > 0) /\ (down.num > 0 => c > 0)
  BY <1>1, <1>2
<1>4. up.num > 0 \/ down.num > 0
  BY <1>1
<1>5. Unit * up.num * down.den = 1000 * a /\ Unit * down.num * up.den = 1000 * c
  <2>1. \A x, y \in Nat : 1000 * x * y = 1000 * (x * y)
    OBVIOUS
  <2> QED
    BY <1>1, <2>1 DEF Unit
<1> HIDE DEF a, c
<1>6. a + c \in Nat \ {0} /\ c + a = a + c /\ 1000 * a \in Int /\ 1000 * (a + c) - 1000 * a = 1000 * c
  BY <1>3, <1>4
<1>7. Whole(up, down) = a + c /\ Whole(down, up) = c + a
  BY DEF Whole, a, c
<1> QED
  BY <1>5, <1>6, <1>7 DEF Unit

LEMMA ShareNearest ==
  ASSUME NEW up \in Part, NEW down \in Part, ~(up.num + down.num <= 0)
  PROVE  Share(up, down) \in Int /\ Nearest(Share(up, down), Unit * up.num * down.den, Whole(up, down))
  BY WholeType, RoundedNearest DEF Share, Whole

\* What a pair becomes still sums to one.
LEMMA SharesSum ==
  ASSUME NEW up \in Part, NEW down \in Part, ~(up.num + down.num <= 0)
  PROVE  Share(up, down) + Share(down, up) = Unit
<1> DEFINE r == Share(up, down)
           num == Unit * up.num * down.den
           rest == Unit * down.num * up.den
           w == Whole(up, down)
<1>1. r \in Int /\ Nearest(r, num, w)
  BY ShareNearest
<1>2. w \in Nat \ {0} /\ num \in Int /\ Unit * w - num = rest /\ Whole(down, up) = w
  BY WholeType
<1>3. ~(down.num + up.num <= 0)
  BY DEF Part
<1>4. rest \in Int
  BY <1>3, WholeType
<1>5. Share(down, up) = Rounded(rest, w)
  BY <1>2 DEF Share, Whole
<1> HIDE DEF r, num, rest, w
<1>6. Nearest(Unit - r, rest, w)
  <2>1. Nearest(Unit - r, Unit * w - num, w)
    BY <1>1, <1>2, NearestRest
  <2> QED
    BY <1>2, <2>1
<1>7. Unit - r \in Int
  BY <1>1 DEF Unit
<1>8. Rounded(rest, w) = Unit - r
  BY <1>2, <1>4, <1>6, <1>7, RoundedIs
<1>9. r + (Unit - r) = Unit
  BY <1>1 DEF Unit
<1> QED
  BY <1>5, <1>8, <1>9 DEF r

LEMMA CalibratedType ==
  ASSUME NEW cal, Rising(cal.blocks), NEW p \in 0..Unit
  PROVE  Calibrated(cal, p) \in Int
<1>1. Unit - p \in 0..Unit
  BY DEF Unit
<1>2. Transform(cal, p) \in Part /\ Transform(cal, Unit - p) \in Part
  BY <1>1, TransformType
<1>3. p \in Int
  BY DEF Unit
<1> QED
  BY <1>2, <1>3, CalibratedIs, ShareNearest

LEMMA CalibratedSums ==
  ASSUME NEW cal, Rising(cal.blocks), NEW p \in 0..Unit
  PROVE  Calibrated(cal, p) + Calibrated(cal, Unit - p) = Unit
<1> DEFINE up == Transform(cal, p)
           down == Transform(cal, Unit - p)
<1>1. Unit - p \in 0..Unit /\ Unit - (Unit - p) = p /\ p + (Unit - p) = Unit
  BY DEF Unit
<1>2. up \in Part /\ down \in Part
  BY <1>1, TransformType
<1>3. /\ Calibrated(cal, p) = IF up.num + down.num <= 0 THEN p ELSE Share(up, down)
      /\ Calibrated(cal, Unit - p) = IF down.num + up.num <= 0 THEN Unit - p ELSE Share(down, up)
  BY <1>1, CalibratedIs
<1> HIDE DEF up, down
<1>4. down.num + up.num = up.num + down.num
  BY <1>2 DEF Part
<1>5. CASE up.num + down.num <= 0
  BY <1>1, <1>3, <1>4, <1>5
<1>6. CASE ~(up.num + down.num <= 0)
  BY <1>2, <1>3, <1>4, <1>6, SharesSum
<1> QED
  BY <1>5, <1>6

LEMMA AtMostIs ==
  ASSUME NEW f \in Part, NEW g \in Part
  PROVE  AtMost(f, g) <=> f.num * g.den <= g.num * f.den
  BY DEF AtMost

\* Products of what is not negative keep their order.
LEMMA ProductsRise ==
  ASSUME NEW a \in Nat, NEW b \in Nat, NEW c \in Nat, NEW d \in Nat, a <= b, c <= d
  PROVE  a * c <= b * d
<1>1. a * c <= b * c
  OBVIOUS
<1>2. b * c <= b * d
  OBVIOUS
<1>3. a * c \in Nat /\ b * c \in Nat /\ b * d \in Nat
  OBVIOUS
<1> QED
  BY <1>1, <1>2, <1>3

\* The share rises with the part and falls with the other.
LEMMA ShareRises ==
  ASSUME NEW up \in Part, NEW down \in Part, NEW higher \in Part, NEW lower \in Part,
         AtMost(up, higher), AtMost(lower, down),
         ~(up.num + down.num <= 0), ~(higher.num + lower.num <= 0)
  PROVE  Share(up, down) <= Share(higher, lower)
<1> DEFINE a == up.num
           b == up.den
           c == down.num
           d == down.den
           e == higher.num
           f == higher.den
           g == lower.num
           h == lower.den
           m == Unit * a * d
           v == Whole(up, down)
           n == Unit * e * h
           w == Whole(higher, lower)
<1>1. {a, b, c, d, e, f, g, h} \subseteq Nat
  BY DEF Part
<1>2. a * f <= e * b /\ g * d <= c * h
  BY AtMostIs
<1>3. /\ m \in Int /\ v \in Nat \ {0} /\ n \in Int /\ w \in Nat \ {0}
      /\ Share(up, down) \in Int /\ Nearest(Share(up, down), m, v)
      /\ Share(higher, lower) \in Int /\ Nearest(Share(higher, lower), n, w)
  BY WholeType, ShareNearest
<1>4. m * w <= n * v
  <2>1. v = a * d + c * b /\ w = e * h + g * f /\ m = 1000 * a * d /\ n = 1000 * e * h
    BY DEF Whole, Unit
  <2> HIDE DEF a, b, c, d, e, f, g, h
  <2>2. (a * f) * (g * d) <= (e * b) * (c * h)
    <3>1. a * f \in Nat /\ e * b \in Nat /\ g * d \in Nat /\ c * h \in Nat
      BY <1>1
    <3> QED
      BY <1>2, <3>1, ProductsRise
  <2>3. (a * d) * (g * f) <= (e * h) * (c * b)
    <3>1. (a * d) * (g * f) = (a * f) * (g * d) /\ (e * h) * (c * b) = (e * b) * (c * h)
      BY <1>1
    <3> QED
      BY <2>2, <3>1
  <2> DEFINE x == a * d
             y == c * b
             s == e * h
             t == g * f
  <2>4. {x, y, s, t} \subseteq Nat /\ x * t <= s * y
    BY <1>1, <2>3
  <2>5. v = x + y /\ w = s + t /\ m = 1000 * x /\ n = 1000 * s
    <3>1. \A i, j \in Nat : 1000 * i * j = 1000 * (i * j)
      OBVIOUS
    <3> QED
      BY <1>1, <2>1, <3>1
  <2> HIDE DEF x, y, s, t, m, n, v, w
  <2>6. m * w = 1000 * (x * s) + 1000 * (x * t) /\ n * v = 1000 * (x * s) + 1000 * (s * y)
    <3>1. \A i, j, k \in Nat : (1000 * i) * (j + k) = 1000 * (i * j) + 1000 * (i * k)
      OBVIOUS
    <3>2. s * x = x * s
      BY <2>4
    <3> QED
      BY <2>4, <2>5, <3>1, <3>2
  <2>7. x * s \in Int /\ x * t \in Int /\ s * y \in Int
    BY <2>4
  <2> QED
    BY <2>4, <2>6, <2>7
<1> HIDE DEF m, n, v, w
<1> QED
  BY <1>3, <1>4, NearestRises

\* With nothing against it, it is the whole; with nothing for it, nothing.
LEMMA ShareOfAll ==
  ASSUME NEW up \in Part, NEW down \in Part, ~(up.num + down.num <= 0)
  PROVE  /\ down.num = 0 => Share(up, down) = Unit
         /\ up.num = 0 => Share(up, down) = 0
<1> DEFINE m == Unit * up.num * down.den
           w == Whole(up, down)
<1>1. w \in Nat \ {0} /\ m \in Int /\ Share(up, down) = Rounded(m, w)
  BY WholeType DEF Share, Whole
<1>2. {up.num, up.den, down.num, down.den} \subseteq Nat
  BY DEF Part
<1>3. ASSUME down.num = 0 PROVE Share(up, down) = Unit
  <2>1. m = 1000 * w
    <3>1. 0 * up.den = 0 /\ up.num * down.den \in Nat
      BY <1>2
    <3>2. w = up.num * down.den
      BY <1>3, <3>1 DEF Whole
    <3>3. m = 1000 * (up.num * down.den)
      <4>1. \A i, j \in Nat : 1000 * i * j = 1000 * (i * j)
        OBVIOUS
      <4> QED
        BY <1>2, <4>1 DEF Unit
    <3> QED
      BY <3>2, <3>3
  <2> HIDE DEF m, w
  <2>2. (2 * 1000 - 1) * w <= 2 * (1000 * w) /\ 2 * (1000 * w) <= (2 * 1000 + 1) * w
    BY <1>1
  <2>3. 1000 % 2 = 0 /\ 1000 \in Int
    OBVIOUS
  <2>4. Nearest(1000, m, w)
    BY <2>1, <2>2, <2>3 DEF Nearest
  <2> QED
    BY <1>1, <2>3, <2>4, RoundedIs DEF Unit
<1>4. ASSUME up.num = 0 PROVE Share(up, down) = 0
  <2>1. m = 0
    <3>1. \A j \in Nat : 1000 * 0 * j = 0
      OBVIOUS
    <3> QED
      BY <1>2, <1>4, <3>1 DEF Unit
  <2> HIDE DEF m, w
  <2>2. (2 * 0 - 1) * w <= 2 * 0 /\ 2 * 0 <= (2 * 0 + 1) * w
    BY <1>1
  <2>3. 0 % 2 = 0 /\ 0 \in Int
    OBVIOUS
  <2>4. Nearest(0, m, w)
    BY <2>1, <2>2, <2>3 DEF Nearest
  <2> QED
    BY <1>1, <2>3, <2>4, RoundedIs
<1> QED
  BY <1>3, <1>4

LEMMA CalibratedRises ==
  ASSUME NEW cal, Rising(cal.blocks), NEW p \in 0..Unit, NEW q \in 0..Unit, p <= q
  PROVE  Calibrated(cal, p) <= Calibrated(cal, q)
<1> DEFINE up == Transform(cal, p)
           down == Transform(cal, Unit - p)
           higher == Transform(cal, q)
           lower == Transform(cal, Unit - q)
<1>1. Unit - p \in 0..Unit /\ Unit - q \in 0..Unit /\ Unit - q <= Unit - p
  BY DEF Unit
<1>2. up \in Part /\ down \in Part /\ higher \in Part /\ lower \in Part
  BY <1>1, TransformType
<1>3. AtMost(up, higher) /\ AtMost(lower, down)
  BY <1>1, TransformRises
<1>4. /\ Calibrated(cal, p) = IF up.num + down.num <= 0 THEN p ELSE Share(up, down)
      /\ Calibrated(cal, q) = IF higher.num + lower.num <= 0 THEN q ELSE Share(higher, lower)
  BY CalibratedIs
<1> HIDE DEF up, down, higher, lower
<1>5. /\ {up.num, up.den, down.num, down.den, higher.num, higher.den, lower.num, lower.den} \subseteq Nat
      /\ up.den > 0 /\ down.den > 0 /\ higher.den > 0 /\ lower.den > 0
  BY <1>2 DEF Part
<1>6. \A i, j, k, l \in Nat : i * j <= k * l /\ k = 0 /\ j > 0 => i = 0
  <2>1. \A i, j, k, l \in Nat : i * j <= k * l /\ k = 0 /\ j > 0 => i * j <= 0
    OBVIOUS
  <2>2. \A i, j \in Nat : j > 0 /\ i > 0 => i * j > 0
    OBVIOUS
  <2> QED
    BY <2>1, <2>2
<1>7. higher.num = 0 => up.num = 0
  BY <1>2, <1>3, <1>5, <1>6, AtMostIs
<1>8. down.num = 0 => lower.num = 0
  BY <1>2, <1>3, <1>5, <1>6, AtMostIs
<1>9. CASE up.num + down.num <= 0 /\ higher.num + lower.num <= 0
  BY <1>4, <1>9
<1>10. CASE up.num + down.num <= 0 /\ ~(higher.num + lower.num <= 0)
  <2>1. lower.num = 0
    BY <1>5, <1>8, <1>10
  <2>2. Share(higher, lower) = Unit
    BY <1>2, <1>10, <2>1, ShareOfAll
  <2> QED
    BY <1>4, <1>10, <2>2 DEF Unit
<1>11. CASE ~(up.num + down.num <= 0) /\ higher.num + lower.num <= 0
  <2>1. up.num = 0
    BY <1>5, <1>7, <1>11
  <2>2. Share(up, down) = 0
    BY <1>2, <1>11, <2>1, ShareOfAll
  <2> QED
    BY <1>4, <1>11, <2>2 DEF Unit
<1>12. CASE ~(up.num + down.num <= 0) /\ ~(higher.num + lower.num <= 0)
  BY <1>2, <1>3, <1>4, <1>12, ShareRises
<1> QED
  BY <1>9, <1>10, <1>11, <1>12

-----------------------------------------------------------------------------
(* The calibrator, always.                                                 *)

\* How FoldLeft counts the trades of blocks.
Counting(g, blocks) ==
    g = [s \in SUBSET DOMAIN blocks |-> IF s = {} THEN 0 ELSE g[s \ {Max(s)}] + blocks[Max(s)].n]
CountedIn(blocks) == (CHOOSE g : Counting(g, blocks))[DOMAIN blocks]

LEMMA CountIsFold ==
  ASSUME NEW blocks
  PROVE  FoldLeft(LAMBDA sum, b : sum + b.n, 0, blocks) = CountedIn(blocks)
  BY DEF FoldLeft, MapThenFoldSet, Counting, CountedIn

LEMMA CountIsTotal ==
  ASSUME NEW blocks \in Seq(Block)
  PROVE  CountedIn(blocks) = Total(blocks, 1, Len(blocks))
<1> DEFINE n == Len(blocks)
           S == DOMAIN blocks
           step == [i \in S |-> [sum \in Int |-> sum + blocks[i].n]]
           sizes == Sizes(blocks)
           g == CHOOSE h : Counting(h, blocks)
<1>1. S = 1..n /\ n \in Nat /\ \A i \in S : blocks[i].n \in Int /\ sizes[i] = blocks[i].n
  <2>1. S = 1..n /\ n \in Nat /\ \A i \in S : blocks[i] \in Block
    BY LenProperties, ElementOfSeq
  <2> QED
    BY <2>1 DEF Block, Sizes
<1>2. step \in [S -> [Int -> Int]] /\ \A i \in S : \A sum \in Int : step[i][sum] = sum + blocks[i].n
  BY <1>1
<1> HIDE DEF step, sizes
<1>3. Walked(Int, 0, step, S)
  <2>1. S \in SUBSET (1..n) /\ 0 \in Int
    BY <1>1
  <2> HIDE DEF S
  <2> QED
    BY <1>1, <1>2, <2>1, WalkExists, Zenon
<1>4. PICK h \in [SUBSET S -> Int] : Walks(h, 0, step, S)
  BY <1>3 DEF Walked
<1>5. ASSUME NEW s \in SUBSET S, s # {} PROVE Max(s) \in S /\ Max(s) \in s
  <2>1. s \in SUBSET (1..n)
    BY <1>1
  <2> QED
    BY <1>1, <1>5, <2>1, LatestIn
<1>6. Counting(h, blocks)
  <2>1. ASSUME NEW s \in SUBSET S PROVE h[s] = IF s = {} THEN 0 ELSE h[s \ {Max(s)}] + blocks[Max(s)].n
    <3>1. h[s] = IF s = {} THEN 0 ELSE step[Max(s)][h[s \ {Max(s)}]]
      BY <1>4 DEF Walks
    <3>2. s # {} => Max(s) \in S /\ h[s \ {Max(s)}] \in Int
      BY <1>5
    <3> QED
      BY <1>2, <3>1, <3>2
  <2>2. h = [s \in SUBSET S |-> h[s]]
    OBVIOUS
  <2> QED
    BY <2>1, <2>2 DEF Counting
<1>7. Counting(g, blocks)
  BY <1>6
<1>8. CountedIn(blocks) = g[S]
  BY DEF CountedIn
<1> HIDE DEF g
<1>9. \A s \in SUBSET S : g[s] = IF s = {} THEN 0 ELSE g[s \ {Max(s)}] + blocks[Max(s)].n
  BY <1>7 DEF Counting
<1> DEFINE Good == {s \in SUBSET S : g[s] = SumFunctionOnSet(sizes, s)}
<1>10. IsFiniteSet(S)
  BY <1>1, FS_Interval
<1>11. ASSUME NEW s \in SUBSET S, \A x \in s : s \ {x} \in Good PROVE s \in Good
  <2>1. CASE s = {}
    BY <1>9, <2>1, EmptySum
  <2>2. CASE s # {}
    <3>1. Max(s) \in S /\ Max(s) \in s
      BY <1>5, <2>2
    <3>2. g[s] = g[s \ {Max(s)}] + blocks[Max(s)].n /\ g[s \ {Max(s)}] = SumFunctionOnSet(sizes, s \ {Max(s)})
      BY <1>9, <1>11, <2>2, <3>1
    <3>3. IsFiniteSet(s) /\ IsFiniteSet(s \ {Max(s)}) /\ \A x \in s : sizes[x] \in Int
      BY <1>1, <1>10, FS_Subset
    <3>4. SumFunctionOnSet(sizes, s) = sizes[Max(s)] + SumFunctionOnSet(sizes, s \ {Max(s)})
      BY <3>1, <3>3, SumSplits
    <3>5. SumFunctionOnSet(sizes, s \ {Max(s)}) \in Int
      BY <3>3, SumType
    <3>6. sizes[Max(s)] = blocks[Max(s)].n /\ blocks[Max(s)].n \in Int
      BY <1>1, <3>1
    <3>7. g[s] = SumFunctionOnSet(sizes, s)
      BY <3>2, <3>4, <3>5, <3>6
    <3> QED
      BY <3>7
  <2> QED
    BY <2>1, <2>2
<1>12. S \in Good
  <2> HIDE DEF Good
  <2> QED
    BY <1>10, <1>11, SubsetInduction
<1> QED
  BY <1>1, <1>8, <1>12 DEF Total, sizes

-----------------------------------------------------------------------------
(* What FoldLeft sums up.                                                  *)

Summing(g, f) == g = [s \in SUBSET DOMAIN f |-> IF s = {} THEN 0 ELSE g[s \ {Max(s)}] + f[Max(s)]]
Summed(f) == (CHOOSE g : Summing(g, f))[DOMAIN f]

\* The sums there are from the first value to the last.
Runs(run, f, n) == run[0] = 0 /\ run[n] = Summed(f) /\ \A t \in 1..n : run[t] = run[t - 1] + f[t]

LEMMA SummedRuns ==
  ASSUME NEW n \in Nat, NEW f \in [1..n -> Int]
  PROVE  \E run \in [0..n -> Int] : Runs(run, f, n)
<1> DEFINE S == 1..n
           step == [i \in S |-> [sum \in Int |-> sum + f[i]]]
           g == CHOOSE h : Summing(h, f)
<1>1. step \in [S -> [Int -> Int]] /\ \A i \in S : \A sum \in Int : step[i][sum] = sum + f[i]
  OBVIOUS
<1> HIDE DEF step
<1>2. Walked(Int, 0, step, S)
  <2>1. S \in SUBSET (1..n) /\ 0 \in Int
    OBVIOUS
  <2> HIDE DEF S
  <2> QED
    BY <1>1, <2>1, WalkExists, Zenon
<1>3. PICK h \in [SUBSET S -> Int] : Walks(h, 0, step, S)
  BY <1>2 DEF Walked
<1>4. ASSUME NEW s \in SUBSET S, s # {} PROVE Max(s) \in S /\ Max(s) \in s
  BY <1>4, LatestIn
<1>5. ASSUME NEW s \in SUBSET S PROVE h[s] = IF s = {} THEN 0 ELSE h[s \ {Max(s)}] + f[Max(s)]
  <2>1. h[s] = IF s = {} THEN 0 ELSE step[Max(s)][h[s \ {Max(s)}]]
    BY <1>3 DEF Walks
  <2>2. s # {} => Max(s) \in S /\ h[s \ {Max(s)}] \in Int
    BY <1>4
  <2> QED
    BY <1>1, <2>1, <2>2
<1>6. Summing(h, f)
  <2>1. h = [s \in SUBSET S |-> h[s]] /\ DOMAIN f = S
    OBVIOUS
  <2> HIDE DEF S
  <2> QED
    BY <1>5, <2>1 DEF Summing
<1>7. Summing(g, f)
  BY <1>6
<1>8. Summed(f) = g[S] /\ DOMAIN f = S
  BY DEF Summed
<1> HIDE DEF g, S
<1>9. \A s \in SUBSET S : g[s] = IF s = {} THEN 0 ELSE g[s \ {Max(s)}] + f[Max(s)]
  BY <1>7, <1>8 DEF Summing
<1>10. g[{}] = 0 /\ \A t \in 1..n : g[1..t] = g[1..t - 1] + f[t]
  <2>1. ASSUME NEW t \in 1..n PROVE g[1..t] = g[1..t - 1] + f[t]
    <3>1. Max(1..t) = t /\ (1..t) \ {t} = 1..t - 1 /\ 1..t \in SUBSET (1..n) /\ 1..t # {}
      BY LastOfFirst
    <3>2. g[1..t] = g[(1..t) \ {Max(1..t)}] + f[Max(1..t)]
      BY <1>9, <3>1 DEF S
    <3> QED
      BY <3>1, <3>2
  <2> QED
    BY <1>9, <2>1
<1> DEFINE T == {t \in 0..n : g[1..t] \in Int}
<1>11. 0 \in T
  <2>1. 1..0 = {} /\ 0 \in 0..n
    OBVIOUS
  <2> QED
    BY <1>10, <2>1
<1>12. ASSUME NEW t \in 1..n, t - 1 \in T PROVE t \in T
  <2>1. t \in 0..n /\ f[t] \in Int /\ g[1..t - 1] \in Int
    BY <1>12
  <2> QED
    BY <1>10, <2>1
<1>13. \A i \in 0..n : g[1..i] \in Int
  <2>1. ASSUME NEW i \in 0..n PROVE g[1..i] \in Int
    <3>1. i \in Nat /\ \A j \in 1..i : j - 1 \in T => j \in T
      <4>1. i \in Nat /\ \A j \in 1..i : j \in 1..n
        OBVIOUS
      <4> QED
        BY <1>12, <4>1
    <3>2. i \in T
      <4> HIDE DEF T
      <4> QED
        BY <1>11, <3>1, Stepwise
    <3> QED
      BY <3>2
  <2> QED
    BY <2>1
<1> DEFINE run == [t \in 0..n |-> g[1..t]]
<1>14. run \in [0..n -> Int]
  BY <1>13
<1>15. Runs(run, f, n)
  <2>1. 1..0 = {} /\ 0 \in 0..n /\ n \in 0..n /\ \A t \in 1..n : t \in 0..n /\ t - 1 \in 0..n
    OBVIOUS
  <2>2. run[0] = 0 /\ run[n] = Summed(f)
    BY <1>8, <1>10, <2>1 DEF S
  <2>3. \A t \in 1..n : run[t] = run[t - 1] + f[t]
    BY <1>10, <2>1
  <2> QED
    BY <2>2, <2>3 DEF Runs
<1> QED
  BY <1>14, <1>15

-----------------------------------------------------------------------------
(* The minimax of means.                                                   *)

Adding(g, r) == g = [s \in SUBSET DOMAIN r |-> IF s = {} THEN 0 ELSE g[s \ {Max(s)}] + r[Max(s)].y]
LEMMA RightIsSum ==
  ASSUME NEW r \in Seq(Trades)
  PROVE  FoldLeft(LAMBDA sum, q : sum + q.y, 0, r) = Summed([i \in DOMAIN r |-> r[i].y])
<1> DEFINE f == [i \in DOMAIN r |-> r[i].y]
<1>1. DOMAIN r = 1..Len(r) /\ Len(r) \in Nat
  BY LenProperties
<1>2. FoldLeft(LAMBDA sum, q : sum + q.y, 0, r) = (CHOOSE g : Adding(g, r))[DOMAIN r]
  BY DEF FoldLeft, MapThenFoldSet, Adding
<1>3. ASSUME NEW g PROVE Adding(g, r) <=> Summing(g, f)
  <2>1. ASSUME NEW s \in SUBSET DOMAIN r, s # {} PROVE r[Max(s)].y = f[Max(s)]
    <3>1. Max(s) \in DOMAIN r
      BY <1>1, <2>1, LatestIn
    <3> QED
      BY <3>1
  <2>2. DOMAIN f = DOMAIN r
    OBVIOUS
  <2> HIDE DEF f
  <2>3. [s \in SUBSET DOMAIN r |-> IF s = {} THEN 0 ELSE g[s \ {Max(s)}] + r[Max(s)].y]
            = [s \in SUBSET DOMAIN r |-> IF s = {} THEN 0 ELSE g[s \ {Max(s)}] + f[Max(s)]]
    BY <2>1
  <2> QED
    BY <2>2, <2>3 DEF Adding, Summing
<1>4. DOMAIN f = DOMAIN r
  OBVIOUS
<1> HIDE DEF f
<1>5. (CHOOSE g : Adding(g, r)) = CHOOSE g : Summing(g, f)
  BY <1>3
<1> QED
  BY <1>2, <1>4, <1>5 DEF Summed, f

\* The mean of some trades in a row.
LEMMA MeanCounts ==
  ASSUME NEW q \in Seq(Trades), NEW a \in 1..Len(q), NEW b \in a..Len(q)
  PROVE  Mean(q, a, b) = [num |-> Ups(q)[b] - Ups(q)[a - 1], den |-> b - a + 1]
<1> DEFINE N == Len(q)
           r == SubSeq(q, a, b)
           n == b - a + 1
           u == Ups(q)
<1>1. N \in Nat /\ n \in Nat /\ a \in Int /\ b \in Int /\ \A i \in 1..N : q[i] \in Trades
  BY LenProperties, ElementOfSeq
<1>2. r \in Seq(Trades) /\ Len(r) = n /\ DOMAIN r = 1..n /\ \A i \in 1..n : r[i] = q[a + i - 1]
  <2>1. \A i \in a..b : q[i] \in Trades
    BY <1>1
  <2>2. /\ r \in Seq(Trades) /\ Len(r) = IF a <= b THEN b - a + 1 ELSE 0
        /\ \A i \in 1..b - a + 1 : r[i] = q[a + i - 1]
    BY <1>1, <2>1, SubSeqProperties
  <2> HIDE DEF r
  <2>3. Len(r) = n
    BY <1>1, <2>2
  <2>4. DOMAIN r = 1..Len(r)
    BY <2>2, LenProperties
  <2> QED
    BY <2>2, <2>3, <2>4
<1> HIDE DEF r
<1>3. u \in [0..N -> Int] /\ \A k \in 1..N : u[k] = u[k - 1] + q[k].y
  BY UpsStep
<1> HIDE DEF u
<1>4. \A t \in 1..n : r[t].y = q[a + t - 1].y /\ r[t].y \in Int
  <2>1. \A t \in 1..n : r[t] \in Trades
    BY <1>2, ElementOfSeq
  <2>2. \A t \in 1..n : r[t].y \in Int
    <3>1. \A x \in Trades : x.y \in Int
      BY DEF Trades
    <3> QED
      BY <2>1, <3>1, Zenon
  <2> QED
    BY <1>2, <2>2, Zenon
<1> DEFINE f == [t \in DOMAIN r |-> r[t].y]
<1>5. f \in [1..n -> Int] /\ \A t \in 1..n : f[t] = q[a + t - 1].y
  <2> HIDE DEF n
  <2>1. f = [t \in 1..n |-> r[t].y]
    BY <1>2
  <2> HIDE DEF f
  <2> QED
    BY <1>4, <2>1
<1> HIDE DEF f, n
<1>6. PICK run \in [0..n -> Int] : Runs(run, f, n)
  BY <1>1, <1>5, SummedRuns
<1>7. run[0] = 0 /\ run[n] = Summed(f) /\ \A t \in 1..n : run[t] = run[t - 1] + q[a + t - 1].y
  BY <1>5, <1>6 DEF Runs
<1> DEFINE T == {t \in 0..n : run[t] = u[(a - 1) + t] - u[a - 1]}
<1>8. a - 1 \in 0..N /\ u[a - 1] \in Int
  <2>1. a - 1 \in 0..N
    BY <1>1
  <2> QED
    BY <1>3, <2>1
<1>9. 0 \in T
  <2>1. 0 \in 0..n /\ (a - 1) + 0 = a - 1 /\ u[a - 1] - u[a - 1] = 0
    BY <1>1, <1>8
  <2> QED
    BY <1>7, <2>1
<1>10. ASSUME NEW t \in 1..n, t - 1 \in T PROVE t \in T
  <2> DEFINE k == (a - 1) + t
  <2>1. k \in 1..N /\ a + t - 1 = k /\ k - 1 = (a - 1) + (t - 1) /\ k \in 0..N /\ k - 1 \in 0..N /\ t \in 0..n
    BY <1>1 DEF n
  <2>2. run[t] = run[t - 1] + q[k].y /\ run[t - 1] = u[k - 1] - u[a - 1]
    BY <1>7, <1>10, <2>1
  <2> HIDE DEF k
  <2>3. q[k].y \in Int
    <3>1. q[k] \in Trades
      BY <1>1, <2>1
    <3> QED
      BY <3>1 DEF Trades
  <2>4. u[k] = u[k - 1] + q[k].y /\ u[k] \in Int /\ u[k - 1] \in Int
    BY <1>3, <2>1
  <2>5. run[t] = u[k] - u[a - 1]
    <3>1. \A x, y, z \in Int : (x - z) + y = (x + y) - z
      OBVIOUS
    <3>2. (u[k - 1] - u[a - 1]) + q[k].y = (u[k - 1] + q[k].y) - u[a - 1]
      BY <1>8, <2>3, <2>4, <3>1, Zenon
    <3> QED
      BY <2>2, <2>4, <3>2, Zenon
  <2> QED
    BY <2>1, <2>5 DEF k
<1>11. n \in T
  <2> HIDE DEF T
  <2> QED
    BY <1>1, <1>9, <1>10, Stepwise
<1>12. (a - 1) + n = b
  BY <1>1 DEF n
<1>13. Summed(f) = u[b] - u[a - 1]
  BY <1>7, <1>11, <1>12
<1>14. FoldLeft(LAMBDA sum, t : sum + t.y, 0, SubSeq(q, a, b)) = Summed(f)
  BY <1>2, RightIsSum DEF r, f
<1> QED
  BY <1>13, <1>14 DEF Mean, u, n

\* A number over a positive one.
Fraction == [num : Int, den : Nat \ {0}]

LEMMA AtMostOrders ==
  ASSUME NEW f \in Fraction, NEW g \in Fraction, NEW h \in Fraction
  PROVE  /\ AtMost(f, f) /\ (AtMost(f, g) \/ AtMost(g, f))
         /\ AtMost(f, g) /\ AtMost(g, h) => AtMost(f, h)
<1>1. ASSUME NEW p \in Int, NEW q \in Nat \ {0}, NEW r \in Int, NEW s \in Nat \ {0}, NEW t \in Int, NEW u \in Nat \ {0},
             p * s <= r * q, r * u <= t * s
      PROVE  p * u <= t * q
  <2>1. (p * s) * u <= (r * q) * u /\ (r * u) * q <= (t * s) * q
    BY <1>1
  <2>2. (p * u) * s <= (t * q) * s
    BY <2>1
  <2> QED
    BY <2>2
<1>2. /\ f.num \in Int /\ f.den \in Nat \ {0} /\ g.num \in Int /\ g.den \in Nat \ {0}
      /\ h.num \in Int /\ h.den \in Nat \ {0}
  BY DEF Fraction
<1>3. AtMost(f, g) /\ AtMost(g, h) => AtMost(f, h)
  BY <1>1, <1>2 DEF AtMost
<1>4. f.num * g.den \in Int /\ g.num * f.den \in Int /\ f.num * f.den \in Int
  BY <1>2
<1>5. AtMost(f, f) /\ (AtMost(f, g) \/ AtMost(g, f))
  BY <1>4 DEF AtMost
<1> QED
  BY <1>3, <1>5

\* Among finitely many fractions there is a least one, and a greatest one.
LEMMA FractionBounds ==
  ASSUME NEW S, IsFiniteSet(S), S # {}, NEW f, \A x \in S : f[x] \in Fraction
  PROVE  /\ \E x \in S : \A y \in S : AtMost(f[x], f[y])
         /\ \E x \in S : \A y \in S : AtMost(f[y], f[x])
<1> DEFINE Bounded(s) == /\ \E x \in s : \A y \in s : AtMost(f[x], f[y])
                         /\ \E x \in s : \A y \in s : AtMost(f[y], f[x])
           Good == {s \in SUBSET S : s # {} => Bounded(s)}
<1>1. \A x, y, z \in S : /\ AtMost(f[x], f[x]) /\ (AtMost(f[x], f[y]) \/ AtMost(f[y], f[x]))
                         /\ AtMost(f[x], f[y]) /\ AtMost(f[y], f[z]) => AtMost(f[x], f[z])
  <2>1. ASSUME NEW x \in S, NEW y \in S, NEW z \in S
        PROVE  /\ AtMost(f[x], f[x]) /\ (AtMost(f[x], f[y]) \/ AtMost(f[y], f[x]))
               /\ AtMost(f[x], f[y]) /\ AtMost(f[y], f[z]) => AtMost(f[x], f[z])
    <3>1. f[x] \in Fraction /\ f[y] \in Fraction /\ f[z] \in Fraction
      OBVIOUS
    <3> QED
      BY <3>1, AtMostOrders
  <2> QED
    BY <2>1
<1>2. ASSUME NEW s \in SUBSET S, \A x \in s : s \ {x} \in Good PROVE s \in Good
  <2>1. SUFFICES ASSUME s # {} PROVE Bounded(s)
    OBVIOUS
  <2>2. PICK x \in s : TRUE
    BY <2>1
  <2>3. CASE s \ {x} = {}
    <3>1. \A y \in s : y = x
      BY <2>3
    <3>2. AtMost(f[x], f[x])
      BY <1>1
    <3> QED
      BY <3>1, <3>2
  <2>4. CASE s \ {x} # {}
    <3>1. Bounded(s \ {x})
      BY <1>2, <2>4
    <3>2. PICK a \in s \ {x} : \A y \in s \ {x} : AtMost(f[a], f[y])
      BY <3>1
    <3>3. PICK b \in s \ {x} : \A y \in s \ {x} : AtMost(f[y], f[b])
      BY <3>1
    <3>4. \E z \in s : \A y \in s : AtMost(f[z], f[y])
      <4>1. CASE AtMost(f[a], f[x])
        <5>1. \A y \in s : AtMost(f[a], f[y])
          BY <3>2, <4>1
        <5> QED
          BY <5>1
      <4>2. CASE AtMost(f[x], f[a])
        <5>1. \A y \in s : AtMost(f[x], f[y])
          BY <1>1, <3>2, <4>2
        <5> QED
          BY <5>1
      <4> QED
        BY <1>1, <4>1, <4>2
    <3>5. \E z \in s : \A y \in s : AtMost(f[y], f[z])
      <4>1. CASE AtMost(f[x], f[b])
        <5>1. \A y \in s : AtMost(f[y], f[b])
          BY <3>3, <4>1
        <5> QED
          BY <5>1
      <4>2. CASE AtMost(f[b], f[x])
        <5>1. \A y \in s : AtMost(f[y], f[x])
          BY <1>1, <3>3, <4>2
        <5> QED
          BY <5>1
      <4> QED
        BY <1>1, <4>1, <4>2
    <3> QED
      BY <3>4, <3>5
  <2> QED
    BY <2>3, <2>4
<1>3. S \in Good
  <2> HIDE DEF Good
  <2> QED
    BY <1>2, SubsetInduction
<1> QED
  BY <1>3

\* The lowest mean of the trades from one place to another or beyond.
Lowest(q, i, a) ==
    CHOOSE m \in {Mean(q, a, b) : b \in i..Len(q)} : \A b \in i..Len(q) : AtMost(m, Mean(q, a, b))

LEMMA MinimaxIs ==
  ASSUME NEW q, NEW i
  PROVE  Minimax(q, i) = CHOOSE m \in {Lowest(q, i, a) : a \in 1..i} : \A a \in 1..i : AtMost(Lowest(q, i, a), m)
  BY DEF Minimax, Lowest

LEMMA LowestIsLeast ==
  ASSUME NEW q \in Seq(Trades), NEW i \in 1..Len(q), NEW a \in 1..i
  PROVE  /\ \E b \in i..Len(q) : Lowest(q, i, a) = Mean(q, a, b)
         /\ \A b \in i..Len(q) : AtMost(Lowest(q, i, a), Mean(q, a, b))
         /\ Lowest(q, i, a) \in Fraction
<1> DEFINE N == Len(q)
           f == [b \in i..N |-> Mean(q, a, b)]
<1>1. N \in Nat /\ i \in Nat /\ a \in Nat /\ a <= i /\ i <= N
  BY LenProperties
<1>2. ASSUME NEW b \in i..N PROVE Mean(q, a, b) \in Fraction
  <2>1. a \in 1..N /\ b \in a..N /\ b - a + 1 \in Nat \ {0} /\ b \in 0..N /\ a - 1 \in 0..N
    BY <1>1
  <2>2. Mean(q, a, b) = [num |-> Ups(q)[b] - Ups(q)[a - 1], den |-> b - a + 1]
    BY <2>1, MeanCounts
  <2>3. Ups(q)[b] \in Int /\ Ups(q)[a - 1] \in Int
    <3>1. Ups(q) \in [0..N -> Int]
      BY UpsStep
    <3> QED
      BY <2>1, <3>1
  <2>4. Ups(q)[b] - Ups(q)[a - 1] \in Int
    BY <2>3
  <2> QED
    BY <2>1, <2>2, <2>4 DEF Fraction
<1>3. PICK c \in i..N : \A b \in i..N : AtMost(Mean(q, a, c), Mean(q, a, b))
  <2>1. IsFiniteSet(i..N) /\ i..N # {}
    <3>1. i \in i..N /\ i \in Int /\ N \in Int
      BY <1>1
    <3> QED
      BY <3>1, FS_Interval
  <2>2. \A b \in i..N : f[b] = Mean(q, a, b) /\ f[b] \in Fraction
    BY <1>2
  <2> HIDE DEF f
  <2>3. \E x \in i..N : \A y \in i..N : AtMost(f[x], f[y])
    <3> HIDE DEF N
    <3> QED
      BY <2>1, <2>2, FractionBounds
  <2> QED
    BY <2>2, <2>3
<1> HIDE DEF f
<1>4. \E m \in {Mean(q, a, b) : b \in i..N} : \A b \in i..N : AtMost(m, Mean(q, a, b))
  BY <1>3
<1>5. Lowest(q, i, a) \in {Mean(q, a, b) : b \in i..N} /\ \A b \in i..N : AtMost(Lowest(q, i, a), Mean(q, a, b))
  BY <1>4 DEF Lowest
<1> QED
  BY <1>2, <1>5

\* A point of the count before the end of a block is not below its line, so what is left is not above it.
LEMMA AboveRest ==
  ASSUME NEW a \in Int, NEW n \in Int, NEW d \in Int, NEW s \in Int, a * d <= s * n
  PROVE  (a - s) * n <= a * (n - d)
<1>1. (a - s) * n = a * n - s * n /\ a * (n - d) = a * n - a * d
  OBVIOUS
<1> QED
  BY <1>1

\* Where a trade is counted by a block of a hull, the minimax there is the mean of the block.
LEMMA MinimaxOfBlock ==
  ASSUME NEW q \in Seq(Trades), NEW blocks \in Seq(Block), NEW e, Hull(e, blocks, Len(q), q),
         NEW k \in 1..Len(blocks), NEW i \in 1..Len(q), e[k - 1] < i, i <= e[k]
  PROVE  LET v == [num |-> blocks[k].sum, den |-> blocks[k].n]
         IN  AtMost(v, Minimax(q, i)) /\ AtMost(Minimax(q, i), v)
<1> DEFINE N == Len(q)
           u == Ups(q)
           low == [a \in 1..i |-> Lowest(q, i, a)]
           top == Minimax(q, i)
           v == [num |-> blocks[k].sum, den |-> blocks[k].n]
           from == e[k - 1]
           to == e[k]
<1>1. N \in Nat /\ i \in Nat /\ i \in 1..N /\ Len(blocks) \in Nat /\ k \in Nat /\ blocks[k] \in Block
  BY LenProperties, ElementOfSeq
<1>2. u \in [0..N -> Int]
  BY UpsStep
<1>3. /\ from \in 0..N /\ to \in 0..N
      /\ blocks[k].n = to - from /\ blocks[k].sum = u[to] - u[from]
      /\ \A c \in 0..N : blocks[k].sum * (c - from) <= (u[c] - u[from]) * blocks[k].n
  <2>1. k \in 0..Len(blocks) /\ k - 1 \in 0..Len(blocks)
    BY <1>1
  <2>2. /\ e \in [0..Len(blocks) -> 0..N]
        /\ blocks[k].n = to - from /\ blocks[k].sum = u[to] - u[from]
        /\ \A c \in 0..N : Above(u, blocks[k], from, c)
    BY DEF Hull
  <2> QED
    BY <2>1, <2>2 DEF Above
<1>4. from < i /\ i <= to
  OBVIOUS
<1>5. v \in Fraction /\ v.num = blocks[k].sum /\ v.den = blocks[k].n
  BY <1>1 DEF Fraction, Block
<1>6. \A a \in 1..i : /\ low[a] \in Fraction
                      /\ \E b \in i..N : low[a] = Mean(q, a, b)
                      /\ \A b \in i..N : AtMost(low[a], Mean(q, a, b))
  BY LowestIsLeast
<1>7. PICK a \in 1..i : top = low[a] /\ \A c \in 1..i : AtMost(low[c], top)
  <2>1. IsFiniteSet(1..i) /\ 1..i # {}
    <3>1. 1 \in 1..i /\ 1 \in Int /\ i \in Int
      BY <1>1
    <3> QED
      BY <3>1, FS_Interval
  <2>2. top = CHOOSE m \in {low[c] : c \in 1..i} : \A c \in 1..i : AtMost(low[c], m)
    <3>1. top = CHOOSE m \in {Lowest(q, i, c) : c \in 1..i} : \A c \in 1..i : AtMost(Lowest(q, i, c), m)
      BY MinimaxIs
    <3>2. {Lowest(q, i, c) : c \in 1..i} = {low[c] : c \in 1..i}
      OBVIOUS
    <3>3. \A m : (\A c \in 1..i : AtMost(Lowest(q, i, c), m)) <=> \A c \in 1..i : AtMost(low[c], m)
      OBVIOUS
    <3> QED
      BY <3>1, <3>2, <3>3
  <2> HIDE DEF low, top
  <2>3. \E x \in 1..i : \A y \in 1..i : AtMost(low[y], low[x])
    BY <1>6, <2>1, FractionBounds
  <2>4. \E m \in {low[c] : c \in 1..i} : \A c \in 1..i : AtMost(low[c], m)
    BY <2>3
  <2>5. top \in {low[c] : c \in 1..i} /\ \A c \in 1..i : AtMost(low[c], top)
    BY <2>2, <2>4
  <2> QED
    BY <2>5
<1> HIDE DEF low, top, v, u, N, from, to
\* From the first trade of the block on no mean is lower.
<1>8. AtMost(v, top)
  <2> DEFINE c == from + 1
  <2>1. c \in 1..i /\ c - 1 = from /\ from \in Int
    BY <1>1, <1>3, <1>4
  <2>2. PICK b \in i..N : low[c] = Mean(q, c, b)
    BY <1>6, <2>1
  <2>3. c \in 1..N /\ b \in c..N /\ b \in 0..N /\ b - c + 1 = b - from
    BY <1>1, <1>3, <2>1
  <2>4. Mean(q, c, b) = [num |-> u[b] - u[from], den |-> b - from]
    <3> HIDE DEF c
    <3> QED
      BY <2>1, <2>3, MeanCounts DEF u, N
  <2>5. AtMost(v, low[c])
    BY <1>3, <1>5, <2>2, <2>3, <2>4 DEF AtMost
  <2>6. low[c] \in Fraction /\ top \in Fraction /\ AtMost(low[c], top)
    BY <1>6, <1>7, <2>1
  <2> QED
    BY <1>5, <2>5, <2>6, AtMostOrders
\* From wherever it is to the last trade of the block the mean is not higher.
<1>9. AtMost(top, v)
  <2>1. to \in i..N /\ a \in 1..N /\ to \in a..N /\ a - 1 \in 0..N /\ to \in Int /\ from \in Int /\ a \in Int
    BY <1>1, <1>3, <1>4
  <2>2. Mean(q, a, to) = [num |-> u[to] - u[a - 1], den |-> to - a + 1]
    BY <2>1, MeanCounts DEF u, N
  <2>3. AtMost(top, Mean(q, a, to))
    BY <1>6, <1>7, <2>1
  <2> DEFINE x == blocks[k].sum
             n == blocks[k].n
             d == (a - 1) - from
             s == u[a - 1] - u[from]
  <2>4. x * d <= s * n
    BY <1>3, <2>1
  <2>5. u[to] \in Int /\ u[from] \in Int /\ u[a - 1] \in Int
    BY <1>2, <1>3, <2>1
  <2>6. x \in Int /\ n \in Int
    BY <1>1 DEF Block
  <2>7. d \in Int /\ s \in Int
    BY <2>1, <2>5
  <2>8. x = u[to] - u[from] /\ n = to - from
    BY <1>3
  <2> HIDE DEF x, n
  <2>9. n - d = to - a + 1
    BY <2>1, <2>8
  <2>10. x - s = u[to] - u[a - 1]
    BY <2>5, <2>8
  <2> HIDE DEF d, s
  <2>11. (x - s) * n <= x * (n - d)
    BY <2>4, <2>6, <2>7, AboveRest
  <2>12. (u[to] - u[a - 1]) * n <= x * (to - a + 1)
    BY <2>9, <2>10, <2>11
  <2>13. AtMost(Mean(q, a, to), v)
    BY <1>5, <2>2, <2>12 DEF AtMost, x, n
  <2>14. Mean(q, a, to) \in Fraction /\ top \in Fraction
    <3>1. to - a + 1 \in Nat \ {0} /\ u[to] - u[a - 1] \in Int
      BY <2>1, <2>5
    <3> QED
      BY <1>6, <1>7, <2>2, <3>1 DEF Fraction
  <2> QED
    BY <1>5, <2>3, <2>13, <2>14, AtMostOrders
<1> QED
  BY <1>8, <1>9 DEF v, top

\* Trades in the order of their probabilities, none of which two share, fall into the blocks they are counted by.
LEMMA FallsWhereCounted ==
  ASSUME NEW q \in Seq(Trades), \A i, j \in 1..Len(q) : i < j => q[i].p < q[j].p,
         NEW blocks \in Seq(Block), NEW e, Hull(e, blocks, Len(q), q),
         NEW i \in 1..Len(q), NEW k, Falls(blocks, q[i].p, k)
  PROVE  k \in 1..Len(blocks) /\ e[k - 1] < i /\ i <= e[k]
<1> DEFINE N == Len(q)
           n == Len(blocks)
<1>1. N \in Nat /\ n \in Nat /\ i \in 1..N
  BY LenProperties
<1>2. \A j \in 1..N : q[j].p \in Int
  <2>1. \A j \in 1..N : q[j] \in Trades
    BY ElementOfSeq
  <2> QED
    BY <2>1 DEF Trades
<1>3. /\ e \in [0..n -> 0..N] /\ e[0] = 0 /\ e[n] = N
      /\ \A j \in 1..n : blocks[j].x = q[e[j]].p /\ blocks[j].n = e[j] - e[j - 1]
  BY DEF Hull
<1>4. /\ k \in 1..n
      /\ \A j \in 1..n : j < k => blocks[j].x < q[i].p
      /\ q[i].p <= blocks[k].x \/ k = n
  BY DEF Falls
<1>5. \A j \in 1..n : e[j] \in 1..N
  <2>1. ASSUME NEW j \in 1..n PROVE e[j] \in 1..N
    <3>1. blocks[j] \in Block
      BY ElementOfSeq
    <3>2. blocks[j].n \in Nat \ {0} /\ blocks[j].n = e[j] - e[j - 1]
      BY <1>3, <3>1 DEF Block
    <3>3. e[j] \in 0..N /\ e[j - 1] \in 0..N
      <4>1. j \in 0..n /\ j - 1 \in 0..n
        BY <1>1
      <4> QED
        BY <1>3, <4>1
    <3> HIDE DEF n
    <3> QED
      BY <1>1, <3>2, <3>3
  <2> QED
    BY <2>1
<1> HIDE DEF N, n
<1>6. e[k - 1] < i
  <2>1. CASE k - 1 = 0
    BY <1>1, <1>3, <2>1
  <2>2. CASE k - 1 # 0
    <3> DEFINE j == k - 1
    <3>1. j \in 1..n /\ j < k
      BY <1>1, <1>4, <2>2
    <3> HIDE DEF j
    <3>2. q[e[j]].p < q[i].p /\ e[j] \in 1..N
      BY <1>3, <1>4, <1>5, <3>1
    <3>3. ~(i < e[j]) /\ i # e[j]
      <4>1. i < e[j] => q[i].p < q[e[j]].p
        BY <1>1, <3>2 DEF N
      <4>2. q[i].p \in Int /\ q[e[j]].p \in Int
        BY <1>1, <1>2, <3>2
      <4> QED
        BY <3>2, <4>1, <4>2
    <3>4. e[j] < i
      BY <1>1, <3>2, <3>3
    <3> QED
      BY <3>4 DEF j
  <2> QED
    BY <2>1, <2>2
<1>7. i <= e[k]
  <2>1. e[k] \in 1..N
    BY <1>4, <1>5
  <2>2. CASE k = n
    BY <1>1, <1>3, <2>2
  <2>3. CASE q[i].p <= blocks[k].x
    <3>1. q[i].p <= q[e[k]].p
      BY <1>3, <1>4, <2>3
    <3>2. e[k] < i => q[e[k]].p < q[i].p
      BY <1>1, <2>1 DEF N
    <3>3. q[i].p \in Int /\ q[e[k]].p \in Int
      BY <1>1, <1>2, <2>1
    <3>4. ~(e[k] < i)
      BY <3>1, <3>2, <3>3
    <3> QED
      BY <1>1, <2>1, <3>4
  <2> QED
    BY <1>4, <2>2, <2>3
<1> QED
  BY <1>4, <1>6, <1>7 DEF n

-----------------------------------------------------------------------------
(* The least-squares fit.                                                  *)

\* Sorted trades of which no two share a probability rise strictly.
LEMMA StrictlySorted ==
  ASSUME NEW pairs \in Seq(Trades), Distinct(Sorted(pairs))
  PROVE  /\ Sorted(pairs) \in Seq(Trades) /\ Len(Sorted(pairs)) = Len(pairs)
         /\ \A i, j \in 1..Len(Sorted(pairs)) : i < j => Sorted(pairs)[i].p < Sorted(pairs)[j].p
<1> DEFINE q == Sorted(pairs)
           n == Len(pairs)
<1>1. q \in Seq(Trades) /\ Len(q) = n /\ \A i, j \in 1..n : i < j => q[i].p <= q[j].p
  BY SortedTrades
<1>2. \A i, j \in DOMAIN q : i # j => q[i].p # q[j].p
  BY DEF Distinct
<1> HIDE DEF q
<1>3. n \in Nat /\ DOMAIN q = 1..n /\ \A i \in 1..n : q[i] \in Trades
  BY <1>1, LenProperties, ElementOfSeq
<1>4. \A i \in 1..n : q[i].p \in Int
  BY <1>3 DEF Trades
<1>5. ASSUME NEW i \in 1..n, NEW j \in 1..n, i < j PROVE q[i].p < q[j].p
  <2>1. i # j
    BY <1>3, <1>5
  <2>2. q[i].p <= q[j].p /\ q[i].p # q[j].p
    BY <1>1, <1>2, <1>3, <1>5, <2>1
  <2>3. q[i].p \in Int /\ q[j].p \in Int
    BY <1>4
  <2> QED
    BY <2>2, <2>3
<1> QED
  BY <1>1, <1>5 DEF q

\* Where the trade at i is counted, and what the calibrator makes of its probability.
Counts(e, cal, q, i, k) ==
    /\ k \in 1..Len(cal.blocks) /\ e[k - 1] < i /\ i <= e[k]
    /\ Transform(cal, q[i].p) = [num |-> cal.blocks[k].sum, den |-> cal.blocks[k].n]

LEMMA ValueOfBlock ==
  ASSUME NEW q \in Seq(Trades), \A i, j \in 1..Len(q) : i < j => q[i].p < q[j].p,
         NEW cal, Rising(cal.blocks), NEW e, Hull(e, cal.blocks, Len(q), q), NEW i \in 1..Len(q)
  PROVE  \E k : Counts(e, cal, q, i, k)
<1>1. Len(q) \in Nat /\ i \in Nat /\ q[i] \in Trades
  BY LenProperties, ElementOfSeq
<1>2. q[i].p \in Int
  BY <1>1 DEF Trades
<1>3. cal.blocks \in Seq(Block)
  BY DEF Rising
<1>4. cal.blocks # <<>>
  <2>1. SUFFICES ASSUME cal.blocks = <<>> PROVE FALSE
    OBVIOUS
  <2>2. Len(cal.blocks) = 0
    BY <2>1
  <2>3. e[0] = 0 /\ e[Len(cal.blocks)] = Len(q)
    BY DEF Hull
  <2> QED
    BY <1>1, <2>2, <2>3
<1>5. PICK k : Falls(cal.blocks, q[i].p, k) /\ Transform(cal, q[i].p) = [num |-> cal.blocks[k].sum, den |-> cal.blocks[k].n]
  BY <1>2, <1>4, TransformFalls
<1>6. k \in 1..Len(cal.blocks) /\ e[k - 1] < i /\ i <= e[k]
  <2> DEFINE blocks == cal.blocks
  <2>1. blocks \in Seq(Block) /\ Hull(e, blocks, Len(q), q) /\ Falls(blocks, q[i].p, k)
    BY <1>3, <1>5
  <2> HIDE DEF blocks
  <2>2. k \in 1..Len(blocks) /\ e[k - 1] < i /\ i <= e[k]
    BY <2>1, FallsWhereCounted
  <2> QED
    BY <2>2 DEF blocks
<1> QED
  BY <1>5, <1>6 DEF Counts

\* A fitted calibrator takes every trade to the minimax of means there.
LEMMA FittedIsotonic ==
  ASSUME NEW q \in Seq(Trades), \A i, j \in 1..Len(q) : i < j => q[i].p < q[j].p,
         NEW cal, Rising(cal.blocks), NEW e, Hull(e, cal.blocks, Len(q), q), NEW i \in 1..Len(q)
  PROVE  AtMost(Transform(cal, q[i].p), Minimax(q, i)) /\ AtMost(Minimax(q, i), Transform(cal, q[i].p))
<1>1. PICK k : Counts(e, cal, q, i, k)
  BY ValueOfBlock
<1> DEFINE blocks == cal.blocks
           v == [num |-> blocks[k].sum, den |-> blocks[k].n]
<1>2. blocks \in Seq(Block) /\ Hull(e, blocks, Len(q), q) /\ k \in 1..Len(blocks) /\ e[k - 1] < i /\ i <= e[k]
  BY <1>1 DEF Rising, Counts
<1>3. Transform(cal, q[i].p) = v
  BY <1>1 DEF Counts
<1> HIDE DEF blocks
<1>4. AtMost(v, Minimax(q, i)) /\ AtMost(Minimax(q, i), v)
  BY <1>2, MinimaxOfBlock
<1> QED
  BY <1>3, <1>4

-----------------------------------------------------------------------------
(* The sums of squares.                                                    *)

\* Values X that rise are no nearer to Y, summed up in squares, than values W that are the means of Y
\* over stretches on each of which W stays the same: S sums up W - Y, E the difference of the squares.
LEMMA StepOfSquares ==
  ASSUME NEW x \in Int, NEW x0 \in Int, NEW w \in Int, NEW y \in Int, NEW s0 \in Int, NEW e0 \in Int,
         s0 <= 0, x0 <= x, e0 >= 2 * s0 * (x0 - w)
  PROVE  e0 + ((x - y) * (x - y) - (w - y) * (w - y)) >= 2 * (s0 + (w - y)) * (x - w)
<1>1. (x - y) * (x - y) - (w - y) * (w - y) = (x - w) * (x - w) + 2 * (w - y) * (x - w)
  OBVIOUS
<1>2. (x - w) * (x - w) >= 0
  <2>1. \A a \in Int : a * a >= 0
    OBVIOUS
  <2> QED
    BY <2>1
<1>3. s0 * (x0 - w) >= s0 * (x - w)
  <2>1. s0 * (x - x0) <= 0
    <3>1. \A a, b \in Int : a <= 0 /\ b >= 0 => a * b <= 0
      OBVIOUS
    <3> QED
      BY <3>1
  <2>2. s0 * (x - w) = s0 * (x0 - w) + s0 * (x - x0)
    OBVIOUS
  <2> QED
    BY <2>1, <2>2
<1>4. 2 * (s0 + (w - y)) * (x - w) = 2 * (s0 * (x - w)) + 2 * (w - y) * (x - w)
  OBVIOUS
<1>5. 2 * s0 * (x0 - w) = 2 * (s0 * (x0 - w))
  OBVIOUS
<1> DEFINE A == s0 * (x0 - w)
           B == s0 * (x - w)
           C == 2 * (w - y) * (x - w)
           G == (x - w) * (x - w)
<1>6. A \in Int /\ B \in Int /\ C \in Int /\ G \in Int
  OBVIOUS
<1> HIDE DEF A, B, C, G
<1>7. e0 + (G + C) >= 2 * B + C
  BY <1>2, <1>3, <1>5, <1>6 DEF A, B, G
<1> QED
  BY <1>1, <1>4, <1>7 DEF A, B, C, G

Squares(n, X, W, Y, S, E) ==
    /\ S \in [0..n -> Int] /\ E \in [0..n -> Int] /\ S[0] = 0 /\ E[0] = 0 /\ S[n] = 0
    /\ \A t \in 1..n : /\ S[t] = S[t - 1] + (W[t] - Y[t]) /\ S[t] <= 0
                       /\ E[t] = E[t - 1] + ((X[t] - Y[t]) * (X[t] - Y[t]) - (W[t] - Y[t]) * (W[t] - Y[t]))
    /\ \A t \in 2..n : X[t - 1] <= X[t] /\ (S[t - 1] = 0 \/ W[t - 1] = W[t])

LEMMA MeansAreNearest ==
  ASSUME NEW n \in Nat, NEW X \in [1..n -> Int], NEW W \in [1..n -> Int], NEW Y \in [1..n -> Int],
         NEW S, NEW E, Squares(n, X, W, Y, S, E)
  PROVE  E[n] >= 0
<1> DEFINE T == {t \in 0..n : /\ S[t] = 0 => E[t] >= 0
                              /\ t >= 1 => E[t] >= 2 * S[t] * (X[t] - W[t])}
<1>1. /\ S \in [0..n -> Int] /\ E \in [0..n -> Int] /\ S[0] = 0 /\ E[0] = 0 /\ S[n] = 0
      /\ \A t \in 1..n : /\ S[t] = S[t - 1] + (W[t] - Y[t]) /\ S[t] <= 0
                         /\ E[t] = E[t - 1] + ((X[t] - Y[t]) * (X[t] - Y[t]) - (W[t] - Y[t]) * (W[t] - Y[t]))
      /\ \A t \in 2..n : X[t - 1] <= X[t] /\ (S[t - 1] = 0 \/ W[t - 1] = W[t])
  BY DEF Squares
<1>2. 0 \in T
  <2>1. 0 \in 0..n /\ ~(0 >= 1) /\ E[0] >= 0
    BY <1>1
  <2> QED
    BY <2>1
<1>3. ASSUME NEW t \in 1..n, t - 1 \in T PROVE t \in T
  <2>1. t \in 0..n /\ t - 1 \in 0..n /\ t \in Int
    OBVIOUS
  <2>2. S[t - 1] \in Int /\ E[t - 1] \in Int /\ X[t] \in Int /\ W[t] \in Int /\ Y[t] \in Int /\ S[t] \in Int
    BY <1>1, <2>1
  <2> DEFINE x == X[t]
             w == W[t]
             y == Y[t]
             s0 == S[t - 1]
             e0 == E[t - 1]
  <2>3. \E x0 \in Int : s0 <= 0 /\ x0 <= x /\ e0 >= 2 * s0 * (x0 - w)
    <3>1. CASE S[t - 1] = 0
      <4>1. e0 >= 0
        BY <1>3, <3>1
      <4>2. 2 * s0 * (x - w) = 0 /\ s0 <= 0 /\ x <= x
        BY <2>2, <3>1
      <4> QED
        BY <2>2, <4>1, <4>2
    <3>2. CASE S[t - 1] # 0
      <4>1. t # 1
        BY <1>1, <3>2
      <4>2. t \in 2..n /\ t - 1 \in 1..n /\ t - 1 >= 1
        BY <4>1
      <4>3. X[t - 1] <= x /\ W[t - 1] = w /\ s0 <= 0
        BY <1>1, <3>2, <4>2
      <4>4. e0 >= 2 * s0 * (X[t - 1] - w)
        BY <1>3, <4>2, <4>3
      <4>5. X[t - 1] \in Int
        BY <4>2
      <4> QED
        BY <4>3, <4>4, <4>5
    <3> QED
      BY <3>1, <3>2
  <2>4. E[t] = e0 + ((x - y) * (x - y) - (w - y) * (w - y)) /\ S[t] = s0 + (w - y)
    BY <1>1
  <2>5. x \in Int /\ w \in Int /\ y \in Int /\ s0 \in Int /\ e0 \in Int
    BY <2>2
  <2> HIDE DEF x, w, y, s0, e0
  <2>6. e0 + ((x - y) * (x - y) - (w - y) * (w - y)) >= 2 * (s0 + (w - y)) * (x - w)
    BY <2>3, <2>5, StepOfSquares
  <2>7. E[t] >= 2 * S[t] * (x - w)
    BY <2>4, <2>6
  <2>8. S[t] = 0 => 2 * S[t] * (x - w) = 0
    BY <2>5
  <2>9. S[t] = 0 => E[t] >= 0
    BY <2>7, <2>8
  <2> QED
    BY <2>1, <2>7, <2>9 DEF x, w
<1>4. n \in T
  <2> HIDE DEF T
  <2> QED
    BY <1>2, <1>3, Stepwise
<1> QED
  BY <1>1, <1>4

-----------------------------------------------------------------------------
(* The multiple of the sizes.                                              *)

Multiplying(g, blocks) == g = [s \in SUBSET DOMAIN blocks |-> IF s = {} THEN 1 ELSE g[s \ {Max(s)}] * blocks[Max(s)].n]

\* It is a positive number, and each of the sizes divides it.
LEMMA MultipleOfSizes ==
  ASSUME NEW cal, cal.blocks \in Seq(Block)
  PROVE  Multiple(cal) \in Nat \ {0} /\ \A j \in 1..Len(cal.blocks) : \E c \in Nat : Multiple(cal) = c * cal.blocks[j].n
<1> DEFINE b == cal.blocks
           n == Len(b)
           S == 1..n
           V == Nat \ {0}
           step == [i \in S |-> [v \in V |-> v * b[i].n]]
           g == CHOOSE h : Multiplying(h, b)
<1>1. n \in Nat /\ DOMAIN b = S /\ \A i \in S : b[i].n \in V
  <2>1. n \in Nat /\ DOMAIN b = S /\ \A i \in S : b[i] \in Block
    BY LenProperties, ElementOfSeq
  <2> QED
    BY <2>1 DEF Block
<1>2. Multiple(cal) = g[S]
  <2>1. Multiple(cal) = (CHOOSE h : Multiplying(h, cal.blocks))[DOMAIN cal.blocks]
    BY DEF Multiple, FoldLeft, MapThenFoldSet, Multiplying
  <2> QED
    BY <1>1, <2>1
<1> HIDE DEF b, n
<1>3. \A v, m \in V : v * m \in V
  OBVIOUS
<1>4. step \in [S -> [V -> V]] /\ \A i \in S : \A v \in V : step[i][v] = v * b[i].n
  <2> HIDE DEF V
  <2> QED
    BY <1>1, <1>3
<1> HIDE DEF step
<1>5. Walked(V, 1, step, S)
  <2>1. S \in SUBSET (1..n) /\ 1 \in V
    OBVIOUS
  <2> HIDE DEF S, V
  <2> QED
    BY <1>1, <1>4, <2>1, WalkExists, Zenon
<1>6. PICK h \in [SUBSET S -> V] : Walks(h, 1, step, S)
  BY <1>5 DEF Walked
<1>7. ASSUME NEW s \in SUBSET S PROVE h[s] = IF s = {} THEN 1 ELSE h[s \ {Max(s)}] * b[Max(s)].n
  <2>1. h[s] = IF s = {} THEN 1 ELSE step[Max(s)][h[s \ {Max(s)}]]
    BY <1>6 DEF Walks
  <2>2. s # {} => Max(s) \in S /\ h[s \ {Max(s)}] \in V
    <3>1. s # {} => Max(s) \in s
      BY <1>1, LatestIn
    <3> HIDE DEF V, S
    <3> QED
      BY <1>6, <3>1
  <2> QED
    BY <1>4, <2>1, <2>2
<1>8. Multiplying(h, b)
  <2>1. h = [s \in SUBSET S |-> h[s]]
    OBVIOUS
  <2> HIDE DEF S
  <2> QED
    BY <1>1, <1>7, <2>1 DEF Multiplying
<1>9. Multiplying(g, b)
  BY <1>8
<1> HIDE DEF g
<1>10. \A s \in SUBSET S : g[s] = IF s = {} THEN 1 ELSE g[s \ {Max(s)}] * b[Max(s)].n
  <2> HIDE DEF S
  <2> QED
    BY <1>1, <1>9 DEF Multiplying
<1>11. g[{}] = 1 /\ \A t \in 1..n : g[1..t] = g[1..t - 1] * b[t].n
  <2>1. ASSUME NEW t \in 1..n PROVE g[1..t] = g[1..t - 1] * b[t].n
    <3>1. Max(1..t) = t /\ (1..t) \ {t} = 1..t - 1 /\ 1..t \in SUBSET (1..n) /\ 1..t # {}
      BY <1>1, LastOfFirst
    <3>2. g[1..t] = g[(1..t) \ {Max(1..t)}] * b[Max(1..t)].n
      BY <1>10, <3>1
    <3> QED
      BY <3>1, <3>2
  <2> QED
    BY <1>10, <2>1
<1> DEFINE Divides(m, v) == \E c \in Nat : v = c * m
           T == {t \in 0..n : g[1..t] \in V /\ \A j \in 1..t : Divides(b[j].n, g[1..t])}
<1>12. 0 \in T
  <2>1. 1..0 = {} /\ 0 \in 0..n /\ 1 \in V
    BY <1>1
  <2> QED
    BY <1>11, <2>1
<1>13. ASSUME NEW t \in 1..n, t - 1 \in T PROVE t \in T
  <2>1. t \in 0..n /\ g[1..t - 1] \in V /\ b[t].n \in V /\ g[1..t] = g[1..t - 1] * b[t].n
    BY <1>1, <1>11, <1>13
  <2>2. g[1..t] \in V
    BY <1>3, <2>1
  <2>3. ASSUME NEW j \in 1..t PROVE Divides(b[j].n, g[1..t])
    <3>1. CASE j = t
      <4>1. g[1..t - 1] \in Nat
        BY <2>1
      <4> QED
        BY <2>1, <3>1, <4>1
    <3>2. CASE j # t
      <4>1. j \in 1..t - 1 /\ j \in 1..n
        BY <1>1, <3>2
      <4>2. Divides(b[j].n, g[1..t - 1])
        BY <1>13, <4>1
      <4>3. PICK c \in Nat : g[1..t - 1] = c * b[j].n
        BY <4>2
      <4>4. b[j].n \in Nat /\ b[t].n \in Nat
        BY <1>1, <4>1
      <4>5. \A c1, m, k \in Nat : (c1 * m) * k = (c1 * k) * m /\ c1 * k \in Nat
        OBVIOUS
      <4>6. g[1..t] = (c * b[t].n) * b[j].n /\ c * b[t].n \in Nat
        <5>1. (c * b[j].n) * b[t].n = (c * b[t].n) * b[j].n /\ c * b[t].n \in Nat
          BY <4>4, <4>5, Zenon
        <5> QED
          BY <2>1, <4>3, <5>1, Zenon
      <4> QED
        BY <4>6
    <3> QED
      BY <3>1, <3>2
  <2> HIDE DEF Divides, V
  <2> QED
    BY <2>1, <2>2, <2>3
<1>14. n \in T
  <2> HIDE DEF T
  <2> QED
    BY <1>1, <1>12, <1>13, Stepwise
<1> QED
  BY <1>2, <1>14 DEF b, n

-----------------------------------------------------------------------------
(* The calibrator is no worse than the raw probabilities.                  *)

\* What a trade adds to the sums of squares.
RawSquares(q) == [i \in DOMAIN q |-> (q[i].p - Unit * q[i].y) * (q[i].p - Unit * q[i].y)]
CalMiss(cal, trade) ==
    LET v == Transform(cal, trade.p) IN (Multiple(cal) * v.num) \div v.den - Multiple(cal) * trade.y
CalSquares(cal, q) == [i \in DOMAIN q |-> CalMiss(cal, q[i]) * CalMiss(cal, q[i])]

AddingRaw(g, q) ==
    g = [s \in SUBSET DOMAIN q |-> IF s = {} THEN 0
            ELSE g[s \ {Max(s)}] + (q[Max(s)].p - Unit * q[Max(s)].y) * (q[Max(s)].p - Unit * q[Max(s)].y)]
LEMMA BrierRawIsSum ==
  ASSUME NEW q \in Seq(Trades)
  PROVE  BrierRaw(q) = Summed(RawSquares(q))
<1> DEFINE f == RawSquares(q)
<1>1. DOMAIN q = 1..Len(q) /\ Len(q) \in Nat
  BY LenProperties
<1>2. BrierRaw(q) = (CHOOSE g : AddingRaw(g, q))[DOMAIN q]
  BY DEF BrierRaw, FoldLeft, MapThenFoldSet, AddingRaw
<1>3. DOMAIN f = DOMAIN q
  BY DEF RawSquares
<1>4. ASSUME NEW g PROVE AddingRaw(g, q) <=> Summing(g, f)
  <2>1. ASSUME NEW s \in SUBSET DOMAIN q, s # {}
        PROVE  (q[Max(s)].p - Unit * q[Max(s)].y) * (q[Max(s)].p - Unit * q[Max(s)].y) = f[Max(s)]
    <3>1. Max(s) \in DOMAIN q
      BY <1>1, <2>1, LatestIn
    <3> QED
      BY <3>1 DEF RawSquares
  <2> HIDE DEF f
  <2>2. [s \in SUBSET DOMAIN q |-> IF s = {} THEN 0
            ELSE g[s \ {Max(s)}] + (q[Max(s)].p - Unit * q[Max(s)].y) * (q[Max(s)].p - Unit * q[Max(s)].y)]
            = [s \in SUBSET DOMAIN q |-> IF s = {} THEN 0 ELSE g[s \ {Max(s)}] + f[Max(s)]]
    BY <2>1
  <2> QED
    BY <1>3, <2>2 DEF AddingRaw, Summing
<1> HIDE DEF f
<1>5. (CHOOSE g : AddingRaw(g, q)) = CHOOSE g : Summing(g, f)
  BY <1>4
<1> QED
  BY <1>2, <1>3, <1>5 DEF Summed, f

AddingCal(g, cal, q) ==
    g = [s \in SUBSET DOMAIN q |-> IF s = {} THEN 0
            ELSE g[s \ {Max(s)}] + CalMiss(cal, q[Max(s)]) * CalMiss(cal, q[Max(s)])]
LEMMA BrierCalIsSum ==
  ASSUME NEW q \in Seq(Trades), NEW cal
  PROVE  BrierCal(cal, q) = Summed(CalSquares(cal, q))
<1> DEFINE f == CalSquares(cal, q)
<1>1. DOMAIN q = 1..Len(q) /\ Len(q) \in Nat
  BY LenProperties
<1>2. BrierCal(cal, q) = (CHOOSE g : AddingCal(g, cal, q))[DOMAIN q]
  BY DEF BrierCal, FoldLeft, MapThenFoldSet, AddingCal, CalMiss
<1>3. DOMAIN f = DOMAIN q
  BY DEF CalSquares
<1>4. ASSUME NEW g PROVE AddingCal(g, cal, q) <=> Summing(g, f)
  <2>1. ASSUME NEW s \in SUBSET DOMAIN q, s # {}
        PROVE  CalMiss(cal, q[Max(s)]) * CalMiss(cal, q[Max(s)]) = f[Max(s)]
    <3>1. Max(s) \in DOMAIN q
      BY <1>1, <2>1, LatestIn
    <3> QED
      BY <3>1 DEF CalSquares
  <2> HIDE DEF f
  <2>2. [s \in SUBSET DOMAIN q |-> IF s = {} THEN 0
            ELSE g[s \ {Max(s)}] + CalMiss(cal, q[Max(s)]) * CalMiss(cal, q[Max(s)])]
            = [s \in SUBSET DOMAIN q |-> IF s = {} THEN 0 ELSE g[s \ {Max(s)}] + f[Max(s)]]
    BY <2>1
  <2> QED
    BY <1>3, <2>2 DEF AddingCal, Summing
<1> HIDE DEF f
<1>5. (CHOOSE g : AddingCal(g, cal, q)) = CHOOSE g : Summing(g, f)
  BY <1>4
<1> QED
  BY <1>2, <1>3, <1>5 DEF Summed, f

LEMMA ExactShare ==
  ASSUME NEW c \in Nat, NEW n \in Nat \ {0}, NEW sum \in Nat
  PROVE  ((c * n) * sum) \div n = c * sum /\ (c * sum) * n = (c * n) * sum
<1> DEFINE m == c * sum
<1>1. (c * n) * sum = m * n /\ m \in Nat
  OBVIOUS
<1> HIDE DEF m
<1>2. (m * n) \div n = m
  <2> DEFINE k == (m * n) \div n
  <2>1. m * n \in Nat
    BY <1>1
  <2>2. \A a \in Nat : n * (a \div n) <= a /\ a < n * (a \div n) + n /\ a \div n \in Nat
    OBVIOUS
  <2>3. n * k <= m * n /\ m * n < n * k + n /\ k \in Nat
    BY <2>1, <2>2
  <2> HIDE DEF k
  <2>4. n * (m - k) >= 0 /\ n * (m - k) < n
    BY <1>1, <2>3
  <2>5. \A d \in Int : n * d >= 0 /\ n * d < n => d = 0
    <3>1. ASSUME NEW d \in Int, d >= 1 PROVE n * d >= n
      BY <3>1
    <3>2. ASSUME NEW d \in Int, d <= -1 PROVE n * d < 0
      BY <3>2
    <3> QED
      BY <3>1, <3>2
  <2>6. m - k = 0
    BY <1>1, <2>3, <2>4, <2>5
  <2> QED
    BY <1>1, <2>3, <2>6 DEF k
<1> QED
  BY <1>1, <1>2 DEF m

\* A line of slope w / D under a count, as far as it goes.
LEMMA LagBelow ==
  ASSUME NEW w \in Int, NEW n \in Nat \ {0}, NEW D \in Nat, NEW sum \in Int, w * n = D * sum,
         NEW d \in Int, NEW s \in Int, sum * d <= s * n
  PROVE  w * d - D * s <= 0
<1>1. (w * d) * n = D * (sum * d)
  <2>1. (w * d) * n = (w * n) * d /\ D * (sum * d) = (D * sum) * d
    OBVIOUS
  <2> QED
    BY <2>1
<1>2. D * (sum * d) <= D * (s * n)
  <2>1. \A a, b \in Int : a <= b => D * a <= D * b
    OBVIOUS
  <2> QED
    BY <2>1
<1>3. D * (s * n) = (D * s) * n
  OBVIOUS
<1>4. (w * d) * n <= (D * s) * n
  BY <1>1, <1>2, <1>3
<1>5. \A a, b \in Int : a * n <= b * n => a <= b
  OBVIOUS
<1>6. w * d <= D * s
  BY <1>4, <1>5
<1> QED
  BY <1>6

\* The ends of the blocks follow each other.
LEMMA HullOrder ==
  ASSUME NEW q, NEW N \in Nat, NEW blocks \in Seq(Block), NEW e, Hull(e, blocks, N, q)
  PROVE  /\ \A k \in 1..Len(blocks) : e[k - 1] < e[k]
         /\ \A k \in 0..Len(blocks) : \A j \in 0..k : e[j] <= e[k]
<1> DEFINE n == Len(blocks)
<1>1. n \in Nat /\ \A k \in 1..n : blocks[k].n \in Nat \ {0}
  <2>1. n \in Nat /\ \A k \in 1..n : blocks[k] \in Block
    BY LenProperties, ElementOfSeq
  <2> QED
    BY <2>1 DEF Block
<1>2. e \in [0..n -> 0..N] /\ \A k \in 1..n : blocks[k].n = e[k] - e[k - 1]
  BY DEF Hull
<1> HIDE DEF n
<1>3. ASSUME NEW k \in 1..n PROVE e[k - 1] < e[k] /\ e[k - 1] \in 0..N /\ e[k] \in 0..N
  <2>1. k \in 0..n /\ k - 1 \in 0..n
    BY <1>1
  <2>2. e[k] \in 0..N /\ e[k - 1] \in 0..N
    BY <1>2, <2>1
  <2>3. e[k] - e[k - 1] \in Nat \ {0}
    BY <1>1, <1>2
  <2> QED
    BY <2>2, <2>3
<1>4. ASSUME NEW k \in 0..n PROVE \A j \in 0..k : e[j] <= e[k]
  <2> DEFINE T == {i \in 0..n : \A j \in 0..i : e[j] <= e[i]}
  <2>1. 0 \in T
    <3>1. e[0] \in 0..N /\ 0 \in 0..n /\ \A j \in 0..0 : j = 0
      BY <1>1, <1>2
    <3> QED
      BY <3>1
  <2>2. ASSUME NEW i \in 1..k, i - 1 \in T PROVE i \in T
    <3>1. i \in 1..n /\ i \in 0..n /\ i \in Int
      BY <1>1
    <3>2. e[i - 1] < e[i] /\ e[i - 1] \in 0..N /\ e[i] \in 0..N
      BY <1>3, <3>1
    <3>3. ASSUME NEW j \in 0..i PROVE e[j] <= e[i]
      <4>1. CASE j = i
        BY <3>2, <4>1
      <4>2. CASE j # i
        <5>1. j \in 0..i - 1 /\ j \in 0..n
          BY <1>1, <3>1, <4>2
        <5>2. e[j] <= e[i - 1] /\ e[j] \in 0..N
          BY <1>2, <2>2, <5>1
        <5> QED
          BY <3>2, <5>2
      <4> QED
        BY <4>1, <4>2
    <3> QED
      BY <3>1, <3>3
  <2>3. k \in Nat
    BY <1>1
  <2>4. k \in T
    <3> HIDE DEF T
    <3> QED
      BY <2>1, <2>2, <2>3, Stepwise
  <2> QED
    BY <2>4
<1> QED
  BY <1>3, <1>4 DEF n

\* So each trade is counted by one block.
LEMMA CountedOnce ==
  ASSUME NEW q, NEW N \in Nat, NEW blocks \in Seq(Block), NEW e, Hull(e, blocks, N, q), NEW t \in Int,
         NEW j \in 1..Len(blocks), NEW k \in 1..Len(blocks), e[j - 1] < t, t <= e[j], e[k - 1] < t, t <= e[k]
  PROVE  j = k
<1> DEFINE n == Len(blocks)
<1>1. n \in Nat
  BY LenProperties
<1>2. e \in [0..n -> 0..N]
  BY DEF Hull
<1>3. ASSUME NEW a \in 1..n, NEW b \in 1..n, t <= e[a], e[b - 1] < t PROVE ~(a < b)
  <2>1. SUFFICES ASSUME a < b PROVE FALSE
    OBVIOUS
  <2>2. b - 1 \in 0..n /\ a \in 0..b - 1 /\ a \in 0..n
    BY <1>1, <2>1
  <2>3. e[a] <= e[b - 1]
    BY <2>2, HullOrder
  <2>4. e[a] \in Int /\ e[b - 1] \in Int
    <3>1. e[a] \in 0..N /\ e[b - 1] \in 0..N
      <4> HIDE DEF n
      <4> QED
        BY <1>2, <2>2
    <3> QED
      BY <3>1
  <2> QED
    BY <1>3, <2>3, <2>4
<1>4. ~(j < k) /\ ~(k < j)
  BY <1>3
<1> QED
  BY <1>1, <1>4

\* What the calibrator makes of a block, in units of 1 / Multiple(cal), and how far what it makes of
\* the trades of a block up to one is ahead of how many of them were right.
Given(cal, k) == (Multiple(cal) * cal.blocks[k].sum) \div cal.blocks[k].n
Lead(e, cal, q, t, k) == Given(cal, k) * (t - e[k - 1]) - Multiple(cal) * (Ups(q)[t] - Ups(q)[e[k - 1]])

LEMMA GivenIsExact ==
  ASSUME NEW cal, cal.blocks \in Seq(Block), NEW k \in 1..Len(cal.blocks)
  PROVE  Given(cal, k) \in Int /\ Given(cal, k) * cal.blocks[k].n = Multiple(cal) * cal.blocks[k].sum
<1> DEFINE n == cal.blocks[k].n
           sum == cal.blocks[k].sum
<1>1. n \in Nat \ {0} /\ sum \in Nat
  <2>1. cal.blocks[k] \in Block
    BY ElementOfSeq
  <2> QED
    BY <2>1 DEF Block
<1>2. PICK c \in Nat : Multiple(cal) = c * n
  BY MultipleOfSizes
<1>3. Given(cal, k) = (Multiple(cal) * sum) \div n
  BY DEF Given
<1> HIDE DEF n, sum
<1>4. ((c * n) * sum) \div n = c * sum /\ (c * sum) * n = (c * n) * sum
  BY <1>1, ExactShare
<1>5. c * sum \in Int
  BY <1>1
<1> QED
  BY <1>2, <1>3, <1>4, <1>5 DEF n, sum

LEMMA LeadOfBlock ==
  ASSUME NEW q \in Seq(Trades), NEW cal, cal.blocks \in Seq(Block), NEW e, Hull(e, cal.blocks, Len(q), q),
         NEW k \in 1..Len(cal.blocks)
  PROVE  /\ \A t \in 0..Len(q) : Lead(e, cal, q, t, k) \in Int /\ Lead(e, cal, q, t, k) <= 0
         /\ Lead(e, cal, q, e[k - 1], k) = 0 /\ Lead(e, cal, q, e[k], k) = 0
         /\ \A t \in 1..Len(q) :
                Lead(e, cal, q, t, k) = Lead(e, cal, q, t - 1, k) + (Given(cal, k) - Multiple(cal) * q[t].y)
<1> DEFINE N == Len(q)
           u == Ups(q)
           w == Given(cal, k)
           D == Multiple(cal)
           n == cal.blocks[k].n
           sum == cal.blocks[k].sum
           from == e[k - 1]
           lead(t) == w * (t - from) - D * (u[t] - u[from])
<1>1. N \in Nat /\ Len(cal.blocks) \in Nat /\ cal.blocks[k] \in Block /\ \A t \in 1..N : q[t] \in Trades
  BY LenProperties, ElementOfSeq
<1>2. u \in [0..N -> Int] /\ \A t \in 1..N : u[t] = u[t - 1] + q[t].y
  BY UpsStep
<1>3. /\ from \in 0..N /\ e[k] \in 0..N
      /\ n = e[k] - from /\ sum = u[e[k]] - u[from]
      /\ \A c \in 0..N : sum * (c - from) <= (u[c] - u[from]) * n
  <2>1. k \in 0..Len(cal.blocks) /\ k - 1 \in 0..Len(cal.blocks)
    BY <1>1
  <2>2. /\ e \in [0..Len(cal.blocks) -> 0..N]
        /\ n = e[k] - from /\ sum = u[e[k]] - u[from]
        /\ \A c \in 0..N : Above(u, cal.blocks[k], from, c)
    BY DEF Hull
  <2> QED
    BY <2>1, <2>2 DEF Above
<1>4. n \in Nat \ {0} /\ sum \in Nat
  BY <1>1 DEF Block
<1>5. D \in Nat
  BY MultipleOfSizes
<1>6. w \in Int /\ w * n = D * sum
  BY GivenIsExact
<1>7. \A t : Lead(e, cal, q, t, k) = lead(t)
  BY DEF Lead
<1>8. \A t \in 1..N : q[t].y \in Int
  BY <1>1 DEF Trades
<1>9. u[from] \in Int /\ from \in Int
  BY <1>2, <1>3
<1> HIDE DEF N, u, w, D, n, sum, from
<1>10. ASSUME NEW t \in 0..N PROVE lead(t) \in Int /\ lead(t) <= 0
  <2> DEFINE d == t - from
             s == u[t] - u[from]
  <2>1. d \in Int /\ s \in Int
    BY <1>1, <1>2, <1>9
  <2>2. sum * d <= s * n
    BY <1>3
  <2> HIDE DEF d, s
  <2>3. w * d - D * s <= 0 /\ w * d - D * s \in Int
    BY <1>4, <1>5, <1>6, <2>1, <2>2, LagBelow
  <2> QED
    BY <2>3 DEF d, s
<1>11. lead(from) = 0
  <2>1. from - from = 0 /\ u[from] - u[from] = 0
    BY <1>9
  <2> QED
    BY <1>5, <1>6, <2>1
<1>12. lead(e[k]) = 0
  <2>1. lead(e[k]) = w * n - D * sum
    BY <1>3
  <2>2. D * sum \in Int
    BY <1>4, <1>5
  <2> QED
    BY <1>6, <2>1, <2>2
<1>13. ASSUME NEW t \in 1..N PROVE lead(t) = lead(t - 1) + (w - D * q[t].y)
  <2>1. u[t - 1] \in Int /\ u[t] = u[t - 1] + q[t].y /\ q[t].y \in Int /\ t \in Int
    <3>1. t - 1 \in 0..N /\ t \in Int
      BY <1>1
    <3>2. u[t - 1] \in Int
      BY <1>2, <3>1
    <3> QED
      BY <1>2, <1>8, <3>1, <3>2, Zenon
  <2>2. /\ \A f \in Int : w * (t - f) = w * ((t - 1) - f) + w
        /\ \A g, v, y \in Int : D * ((v + y) - g) = D * (v - g) + D * y
    BY <1>5, <1>6, <2>1
  <2>3. w * (t - from) = w * ((t - 1) - from) + w
    BY <1>9, <2>2
  <2>4. D * (u[t] - u[from]) = D * (u[t - 1] - u[from]) + D * q[t].y
    <3>1. D * ((u[t - 1] + q[t].y) - u[from]) = D * (u[t - 1] - u[from]) + D * q[t].y
      BY <1>9, <2>1, <2>2, Zenon
    <3> QED
      BY <2>1, <3>1
  <2> DEFINE A == w * ((t - 1) - from)
             B == D * (u[t - 1] - u[from])
             C == D * q[t].y
  <2>5. A \in Int /\ B \in Int /\ C \in Int
    <3>1. D \in Int /\ w \in Int /\ (t - 1) - from \in Int /\ u[t - 1] - u[from] \in Int /\ q[t].y \in Int
      BY <1>5, <1>6, <1>9, <2>1
    <3>2. \A a, b \in Int : a * b \in Int
      OBVIOUS
    <3> QED
      BY <3>1, <3>2, Zenon
  <2> HIDE DEF A, B, C
  <2>6. (A + w) - (B + C) = (A - B) + (w - C)
    BY <1>6, <2>5
  <2> QED
    BY <2>3, <2>4, <2>6 DEF A, B, C
<1> QED
  BY <1>7, <1>10, <1>11, <1>12, <1>13 DEF N, w, D, from

\* The lead over all trades so far: nothing where a block ends.
LEMMA LeadSteps ==
  ASSUME NEW q \in Seq(Trades), NEW cal, cal.blocks \in Seq(Block), NEW e, Hull(e, cal.blocks, Len(q), q),
         NEW at \in [1..Len(q) -> 1..Len(cal.blocks)],
         \A t \in 1..Len(q) : e[at[t] - 1] < t /\ t <= e[at[t]],
         NEW lead, lead = [t \in 0..Len(q) |-> IF t = 0 THEN 0 ELSE Lead(e, cal, q, t, at[t])]
  PROVE  /\ lead \in [0..Len(q) -> Int] /\ lead[0] = 0 /\ lead[Len(q)] = 0
         /\ \A t \in 1..Len(q) :
                /\ lead[t] = lead[t - 1] + (Given(cal, at[t]) - Multiple(cal) * q[t].y)
                /\ lead[t] <= 0
                /\ t - 1 # 0 => lead[t - 1] = 0 \/ at[t - 1] = at[t]
<1> DEFINE N == Len(q)
           n == Len(cal.blocks)
<1>1. N \in Nat /\ n \in Nat
  BY LenProperties
<1>2. e \in [0..n -> 0..N] /\ e[0] = 0 /\ e[n] = N
  BY DEF Hull
<1>3. \A k \in 1..n : e[k - 1] < e[k]
  BY <1>1, HullOrder
<1>4. \A t \in Int : \A j, k \in 1..n : e[j - 1] < t /\ t <= e[j] /\ e[k - 1] < t /\ t <= e[k] => j = k
  BY <1>1, CountedOnce
<1>5. \A k \in 1..n :
          /\ \A t \in 0..N : Lead(e, cal, q, t, k) \in Int /\ Lead(e, cal, q, t, k) <= 0
          /\ Lead(e, cal, q, e[k - 1], k) = 0 /\ Lead(e, cal, q, e[k], k) = 0
          /\ \A t \in 1..N : Lead(e, cal, q, t, k) = Lead(e, cal, q, t - 1, k) + (Given(cal, k) - Multiple(cal) * q[t].y)
  BY LeadOfBlock
<1>6. /\ at \in [1..N -> 1..n] /\ \A t \in 1..N : e[at[t] - 1] < t /\ t <= e[at[t]]
      /\ lead = [t \in 0..N |-> IF t = 0 THEN 0 ELSE Lead(e, cal, q, t, at[t])]
  OBVIOUS
<1>7. \A k \in 1..n : e[k] \in 0..N /\ e[k - 1] \in 0..N
  <2>1. \A k \in 1..n : k \in 0..n /\ k - 1 \in 0..n
    BY <1>1
  <2> QED
    BY <1>2, <2>1
<1> HIDE DEF N, n
<1>8. \A t \in 1..N : t \in 0..N /\ t - 1 \in 0..N /\ t \in Int /\ t # 0 /\ (t - 1 # 0 => t - 1 \in 1..N)
  BY <1>1
<1>9. lead \in [0..N -> Int] /\ lead[0] = 0 /\ \A t \in 1..N : lead[t] = Lead(e, cal, q, t, at[t]) /\ lead[t] <= 0
  <2>1. 0 \in 0..N
    BY <1>1
  <2>2. \A t \in 0..N : t # 0 => t \in 1..N
    BY <1>1
  <2>3. \A t \in 1..N : Lead(e, cal, q, t, at[t]) \in Int /\ Lead(e, cal, q, t, at[t]) <= 0
    BY <1>5, <1>6, <1>8
  <2> DEFINE value(t) == IF t = 0 THEN 0 ELSE Lead(e, cal, q, t, at[t])
  <2>4. lead = [t \in 0..N |-> value(t)]
    BY <1>6
  <2>5. value(0) = 0 /\ \A t \in 1..N : value(t) = Lead(e, cal, q, t, at[t])
    BY <1>8
  <2> HIDE DEF value
  <2>6. \A t \in 0..N : value(t) \in Int
    BY <2>2, <2>3, <2>5
  <2>7. lead \in [0..N -> Int]
    BY <2>4, <2>6
  <2>8. lead[0] = 0 /\ \A t \in 1..N : lead[t] = value(t)
    BY <1>8, <2>1, <2>4, <2>5
  <2> QED
    BY <2>3, <2>5, <2>7, <2>8
<1>10. lead[N] = 0
  <2>1. CASE N = 0
    BY <1>9, <2>1
  <2>2. CASE N # 0
    <3>1. N \in 1..N /\ at[N] \in 1..n
      BY <1>1, <1>6, <2>2
    <3>2. e[at[N]] = N
      <4>1. N <= e[at[N]] /\ e[at[N]] \in 0..N
        BY <1>6, <1>7, <3>1
      <4> QED
        BY <1>1, <4>1
    <3> QED
      BY <1>5, <1>9, <3>1, <3>2
  <2> QED
    BY <2>1, <2>2
<1>11. ASSUME NEW t \in 1..N
       PROVE  /\ lead[t] = lead[t - 1] + (Given(cal, at[t]) - Multiple(cal) * q[t].y)
              /\ t - 1 # 0 => lead[t - 1] = 0 \/ at[t - 1] = at[t]
  <2> DEFINE k == at[t]
  <2>1. k \in 1..n /\ e[k - 1] < t /\ t <= e[k] /\ e[k] \in 0..N /\ e[k - 1] \in 0..N
    BY <1>6, <1>7
  <2>2. lead[t] = Lead(e, cal, q, t - 1, k) + (Given(cal, k) - Multiple(cal) * q[t].y)
    BY <1>5, <1>9, <2>1
  <2>3. t - 1 \in 0..N /\ t \in Int
    BY <1>8
  <2> HIDE DEF k
  <2>4. CASE t - 1 = e[k - 1]
    <3>1. Lead(e, cal, q, t - 1, k) = 0
      BY <1>5, <2>1, <2>4
    <3>2. lead[t - 1] = 0
      <4>1. CASE t - 1 = 0
        BY <1>9, <4>1
      <4>2. CASE t - 1 # 0
        <5> DEFINE j == k - 1
                   s == t - 1
        <5>1. s \in 1..N /\ s \in Int
          BY <1>8, <4>2
        <5>2. k # 1
          BY <1>2, <2>4, <4>2
        <5>3. j \in 1..n
          BY <1>1, <2>1, <5>2
        <5>4. e[j] = s
          BY <2>4
        <5>5. at[s] \in 1..n /\ e[at[s] - 1] < s /\ s <= e[at[s]]
          BY <1>6, <5>1
        <5> HIDE DEF j, s
        <5>6. e[j - 1] < s /\ s <= e[j]
          BY <1>3, <5>1, <5>3, <5>4
        <5>7. at[s] = j
          BY <1>4, <5>1, <5>3, <5>5, <5>6
        <5>8. lead[s] = Lead(e, cal, q, e[j], j)
          BY <1>9, <5>1, <5>4, <5>7
        <5>9. lead[s] = 0
          BY <1>5, <5>3, <5>8
        <5> QED
          BY <5>9 DEF s
      <4> QED
        BY <4>1, <4>2
    <3> QED
      BY <2>2, <3>1, <3>2 DEF k
  <2>5. CASE t - 1 # e[k - 1]
    <3> DEFINE s == t - 1
    <3>1. e[k - 1] < s /\ s <= e[k]
      BY <2>1, <2>3, <2>5
    <3>2. s \in 1..N /\ s \in Int /\ s # 0
      BY <2>1, <2>3, <3>1
    <3>3. at[s] \in 1..n /\ e[at[s] - 1] < s /\ s <= e[at[s]]
      BY <1>6, <3>2
    <3> HIDE DEF s
    <3>4. at[s] = k
      BY <1>4, <2>1, <3>1, <3>2, <3>3
    <3>5. lead[s] = Lead(e, cal, q, s, k)
      BY <1>9, <3>2, <3>4
    <3> QED
      BY <2>2, <3>4, <3>5 DEF s, k
  <2> QED
    BY <2>4, <2>5
<1> QED
  BY <1>9, <1>10, <1>11 DEF N, n

\* One trade's squares on the scale of Unit * Multiple(cal).
LEMMA ScaledSquares ==
  ASSUME NEW D \in Int, NEW m \in Int, NEW d \in Int, NEW r \in Int, NEW c \in Int, NEW U \in Int
  PROVE  D * D * (r + d * d) - U * U * (c + m * m)
            = (D * D * r - U * U * c) + ((D * d) * (D * d) - (U * m) * (U * m))
<1>1. \A a, b, x \in Int : a * a * (b + x * x) = a * a * b + (a * x) * (a * x)
  OBVIOUS
<1>2. D * D * (r + d * d) = D * D * r + (D * d) * (D * d)
  BY <1>1
<1>3. U * U * (c + m * m) = U * U * c + (U * m) * (U * m)
  BY <1>1
<1> DEFINE A == D * D * r
           B == (D * d) * (D * d)
           C == U * U * c
           G == (U * m) * (U * m)
<1>4. A \in Int /\ B \in Int /\ C \in Int /\ G \in Int
  OBVIOUS
<1> HIDE DEF A, B, C, G
<1>5. (A + B) - (C + G) = (A - C) + (B - G)
  BY <1>4
<1> QED
  BY <1>2, <1>3, <1>5 DEF A, B, C, G

LEMMA NoWorse ==
  ASSUME NEW q \in Seq(Trades), \A i, j \in 1..Len(q) : i < j => q[i].p < q[j].p,
         NEW cal, Rising(cal.blocks), NEW e, Hull(e, cal.blocks, Len(q), q)
  PROVE  Unit * Unit * BrierCal(cal, q) <= Multiple(cal) * Multiple(cal) * BrierRaw(q)
<1> DEFINE N == Len(q)
           D == Multiple(cal)
           at == [t \in 1..N |-> CHOOSE k : Counts(e, cal, q, t, k)]
           given == [t \in 1..N |-> Given(cal, at[t])]
           lead == [t \in 0..N |-> IF t = 0 THEN 0 ELSE Lead(e, cal, q, t, at[t])]
<1>1. N \in Nat /\ DOMAIN q = 1..N /\ (\A t \in 1..N : q[t] \in Trades) /\ cal.blocks \in Seq(Block)
  BY LenProperties, ElementOfSeq DEF Rising
<1>2. \A t \in 1..N : q[t].p \in Int /\ q[t].y \in Int
  BY <1>1 DEF Trades
<1>3. D \in Nat
  BY <1>1, MultipleOfSizes
<1>4. \A t \in 1..N : Counts(e, cal, q, t, at[t])
  <2>1. \A t \in 1..N : \E k : Counts(e, cal, q, t, k)
    BY <1>1, ValueOfBlock
  <2> QED
    BY <2>1
<1>5. at \in [1..N -> 1..Len(cal.blocks)] /\ \A t \in 1..N : e[at[t] - 1] < t /\ t <= e[at[t]]
  <2>1. \A t \in 1..N : at[t] \in 1..Len(cal.blocks) /\ e[at[t] - 1] < t /\ t <= e[at[t]]
    BY <1>4 DEF Counts
  <2>2. at = [t \in 1..N |-> at[t]]
    OBVIOUS
  <2> HIDE DEF at
  <2> QED
    BY <2>1, <2>2
<1>6. \A t \in 1..N : given[t] \in Int /\ CalMiss(cal, q[t]) = given[t] - D * q[t].y
  <2>1. ASSUME NEW t \in 1..N PROVE given[t] \in Int /\ CalMiss(cal, q[t]) = given[t] - D * q[t].y
    <3>1. at[t] \in 1..Len(cal.blocks) /\ given[t] = Given(cal, at[t])
      BY <1>5
    <3>2. Transform(cal, q[t].p) = [num |-> cal.blocks[at[t]].sum, den |-> cal.blocks[at[t]].n]
      BY <1>4 DEF Counts
    <3> HIDE DEF at, given
    <3>3. given[t] \in Int
      BY <1>1, <3>1, GivenIsExact
    <3>4. CalMiss(cal, q[t]) = (D * cal.blocks[at[t]].sum) \div cal.blocks[at[t]].n - D * q[t].y
      BY <3>2 DEF CalMiss
    <3> QED
      BY <3>1, <3>3, <3>4 DEF Given
  <2> QED
    BY <2>1
<1>7. \A t \in 1..N : given[t] = Given(cal, at[t])
  OBVIOUS
<1>8. given \in [1..N -> Int]
  <2>1. given = [t \in 1..N |-> given[t]]
    OBVIOUS
  <2> HIDE DEF given
  <2> QED
    BY <1>6, <2>1
<1>9. lead = [t \in 0..N |-> IF t = 0 THEN 0 ELSE Lead(e, cal, q, t, at[t])]
  OBVIOUS
<1> HIDE DEF at, lead, N
<1>10. /\ lead \in [0..N -> Int] /\ lead[0] = 0 /\ lead[N] = 0
       /\ \A t \in 1..N : /\ lead[t] = lead[t - 1] + (Given(cal, at[t]) - D * q[t].y)
                          /\ lead[t] <= 0
                          /\ t - 1 # 0 => lead[t - 1] = 0 \/ at[t - 1] = at[t]
  BY <1>1, <1>5, <1>9, LeadSteps DEF N
<1> HIDE DEF given, D
<1>11. PICK r \in [0..N -> Int] : Runs(r, RawSquares(q), N)
  <2>1. RawSquares(q) \in [1..N -> Int]
    <3>1. \A t \in 1..N : (q[t].p - Unit * q[t].y) * (q[t].p - Unit * q[t].y) \in Int
      BY <1>2 DEF Unit
    <3> QED
      BY <1>1, <3>1 DEF RawSquares
  <2> QED
    BY <1>1, <2>1, SummedRuns
<1>12. PICK c \in [0..N -> Int] : Runs(c, CalSquares(cal, q), N)
  <2>1. CalSquares(cal, q) \in [1..N -> Int]
    <3>1. \A t \in 1..N : CalMiss(cal, q[t]) \in Int
      BY <1>2, <1>3, <1>6
    <3>2. \A t \in 1..N : CalMiss(cal, q[t]) * CalMiss(cal, q[t]) \in Int
      BY <3>1
    <3> QED
      BY <1>1, <3>2 DEF CalSquares
  <2> QED
    BY <1>1, <2>1, SummedRuns
<1>13. /\ r[0] = 0 /\ r[N] = BrierRaw(q)
       /\ \A t \in 1..N : r[t] = r[t - 1] + (q[t].p - Unit * q[t].y) * (q[t].p - Unit * q[t].y)
  BY <1>1, <1>11, BrierRawIsSum DEF Runs, RawSquares
<1>14. /\ c[0] = 0 /\ c[N] = BrierCal(cal, q)
       /\ \A t \in 1..N : c[t] = c[t - 1] + CalMiss(cal, q[t]) * CalMiss(cal, q[t])
  BY <1>1, <1>12, BrierCalIsSum DEF Runs, CalSquares
<1> DEFINE X == [t \in 1..N |-> D * q[t].p]
           W == [t \in 1..N |-> Unit * given[t]]
           Y == [t \in 1..N |-> Unit * (D * q[t].y)]
           S == [t \in 0..N |-> Unit * lead[t]]
           E == [t \in 0..N |-> D * D * r[t] - Unit * Unit * c[t]]
<1>15. X \in [1..N -> Int] /\ W \in [1..N -> Int] /\ Y \in [1..N -> Int]
  BY <1>2, <1>3, <1>8 DEF Unit
<1>16. S \in [0..N -> Int] /\ E \in [0..N -> Int] /\ S[0] = 0 /\ E[0] = 0 /\ S[N] = 0
  <2>1. 0 \in 0..N /\ N \in 0..N
    BY <1>1
  <2>2. \A t \in 0..N : Unit * lead[t] \in Int /\ D * D * r[t] - Unit * Unit * c[t] \in Int
    BY <1>3, <1>10 DEF Unit
  <2>3. D * D * 0 - Unit * Unit * 0 = 0 /\ Unit * 0 = 0
    BY <1>3 DEF Unit
  <2>4. S[0] = 0 /\ E[0] = 0 /\ S[N] = 0
    BY <1>10, <1>13, <1>14, <2>1, <2>3
  <2> QED
    BY <2>2, <2>4
<1>17. ASSUME NEW t \in 1..N
       PROVE  /\ S[t] = S[t - 1] + (W[t] - Y[t]) /\ S[t] <= 0
              /\ E[t] = E[t - 1] + ((X[t] - Y[t]) * (X[t] - Y[t]) - (W[t] - Y[t]) * (W[t] - Y[t]))
  <2> DEFINE s == t - 1
             p == q[t].p
             y == q[t].y
             g == given[t]
             m == g - D * y
             d == p - Unit * y
  <2>1. t \in 0..N /\ s \in 0..N
    BY <1>1
  <2>2. p \in Int /\ y \in Int /\ g \in Int /\ lead[t] \in Int /\ lead[s] \in Int /\ r[s] \in Int /\ c[s] \in Int
    BY <1>2, <1>8, <1>10, <2>1
  <2>3. lead[t] = lead[s] + m /\ lead[t] <= 0
    BY <1>7, <1>10
  <2>4. r[t] = r[s] + d * d /\ c[t] = c[s] + m * m
    BY <1>6, <1>13, <1>14
  <2>5. /\ S[t] = Unit * lead[t] /\ S[s] = Unit * lead[s]
        /\ E[t] = D * D * r[t] - Unit * Unit * c[t] /\ E[s] = D * D * r[s] - Unit * Unit * c[s]
        /\ X[t] = D * p /\ W[t] = Unit * g /\ Y[t] = Unit * (D * y)
    BY <2>1
  <2>6. m \in Int /\ d \in Int /\ D \in Int /\ Unit \in Int
    <3>1. D \in Int /\ Unit \in Int
      BY <1>3 DEF Unit
    <3>2. \A a, b, f \in Int : a - f * b \in Int
      OBVIOUS
    <3> QED
      BY <2>2, <3>1, <3>2, Zenon
  <2>7. W[t] - Y[t] = Unit * m /\ X[t] - Y[t] = D * d
    <3>1. \A a, b \in Int : Unit * a - Unit * b = Unit * (a - b)
      BY DEF Unit
    <3>2. \A a, b \in Int : D * a - Unit * (D * b) = D * (a - Unit * b)
      BY <1>3 DEF Unit
    <3>3. D * y \in Int
      BY <1>3, <2>2
    <3>4. Unit * g - Unit * (D * y) = Unit * (g - D * y)
      BY <2>2, <3>1, <3>3, Zenon
    <3>5. D * p - Unit * (D * y) = D * (p - Unit * y)
      BY <2>2, <3>2, Zenon
    <3> QED
      BY <2>5, <3>4, <3>5
  <2> HIDE DEF X, W, Y, S, E, m, d, g, s
  <2>8. S[t] = S[s] + Unit * m /\ S[t] <= 0
    <3>1. \A a, b \in Int : Unit * (a + b) = Unit * a + Unit * b
      BY DEF Unit
    <3>2. \A a \in Int : a <= 0 => Unit * a <= 0
      BY DEF Unit
    <3>3. Unit * (lead[s] + m) = Unit * lead[s] + Unit * m /\ Unit * lead[t] <= 0
      BY <2>2, <2>3, <2>6, <3>1, <3>2, Zenon
    <3> QED
      BY <2>3, <2>5, <3>3, Zenon
  <2>9. D * D * (r[s] + d * d) - Unit * Unit * (c[s] + m * m)
            = (D * D * r[s] - Unit * Unit * c[s]) + ((D * d) * (D * d) - (Unit * m) * (Unit * m))
    <3> DEFINE r0 == r[s]
               c0 == c[s]
               U == Unit
    <3>1. D \in Int /\ m \in Int /\ d \in Int /\ r0 \in Int /\ c0 \in Int /\ U \in Int
      BY <2>2, <2>6
    <3> HIDE DEF r0, c0, U
    <3>2. D * D * (r0 + d * d) - U * U * (c0 + m * m)
            = (D * D * r0 - U * U * c0) + ((D * d) * (D * d) - (U * m) * (U * m))
      BY <3>1, ScaledSquares
    <3> QED
      BY <3>2 DEF r0, c0, U
  <2>10. E[t] = E[s] + ((D * d) * (D * d) - (Unit * m) * (Unit * m))
    BY <2>4, <2>5, <2>9
  <2> QED
    BY <2>7, <2>8, <2>10 DEF s
<1>18. ASSUME NEW t \in 2..N PROVE X[t - 1] <= X[t] /\ (S[t - 1] = 0 \/ W[t - 1] = W[t])
  <2> DEFINE s == t - 1
  <2>1. s \in 1..N /\ t \in 1..N /\ s < t /\ s # 0 /\ s \in 0..N
    BY <1>1
  <2>2. q[s].p < q[t].p /\ q[s].p \in Int /\ q[t].p \in Int
    BY <1>2, <2>1 DEF N
  <2>3. lead[s] = 0 \/ at[s] = at[t]
    BY <1>10, <2>1
  <2>4. X[s] = D * q[s].p /\ X[t] = D * q[t].p /\ W[s] = Unit * given[s] /\ W[t] = Unit * given[t] /\ S[s] = Unit * lead[s]
    BY <2>1
  <2>5. given[s] = Given(cal, at[s]) /\ given[t] = Given(cal, at[t])
    BY <1>7, <2>1
  <2> HIDE DEF s, X, W, S
  <2>6. \A a, b \in Int : a < b => D * a <= D * b
    BY <1>3
  <2>7. X[s] <= X[t]
    BY <2>2, <2>4, <2>6
  <2>8. lead[s] = 0 => S[s] = 0
    BY <2>4 DEF Unit
  <2>9. at[s] = at[t] => W[s] = W[t]
    BY <2>4, <2>5
  <2> QED
    BY <2>3, <2>7, <2>8, <2>9 DEF s
<1>19. E[N] = D * D * BrierRaw(q) - Unit * Unit * BrierCal(cal, q)
  <2>1. N \in 0..N
    BY <1>1
  <2> QED
    BY <1>13, <1>14, <2>1
<1>20. D * D * BrierRaw(q) \in Int /\ Unit * Unit * BrierCal(cal, q) \in Int
  <2>1. N \in 0..N
    BY <1>1
  <2>2. BrierRaw(q) \in Int /\ BrierCal(cal, q) \in Int
    BY <1>13, <1>14, <2>1
  <2> QED
    BY <1>3, <2>2 DEF Unit
<1> HIDE DEF X, W, Y, S, E
<1>21. Squares(N, X, W, Y, S, E)
  BY <1>16, <1>17, <1>18 DEF Squares
<1>22. E[N] >= 0
  BY <1>1, <1>15, <1>21, MeansAreNearest
<1>23. Unit * Unit * BrierCal(cal, q) <= D * D * BrierRaw(q)
  BY <1>19, <1>20, <1>22
<1> QED
  BY <1>23 DEF D

-----------------------------------------------------------------------------
(* The calibrators of the loop.                                            *)

\* A calibrator of so many trades at most.
Fits(cal, most) ==
    /\ cal = [blocks |-> cal.blocks, n |-> cal.n]
    /\ Rising(cal.blocks) /\ cal.n \in Nat /\ cal.n <= most
    /\ Total(cal.blocks, 1, Len(cal.blocks)) = cal.n

LEMMA FittedFits ==
  ASSUME NEW pairs \in Seq(Trades)
  PROVE  Fits(Fitted(pairs), Len(pairs))
<1>1. /\ Fitted(pairs) = [blocks |-> Fitted(pairs).blocks, n |-> Fitted(pairs).n]
      /\ Fitted(pairs).blocks = Pav(pairs) /\ Fitted(pairs).n = Len(pairs)
  BY DEF Fitted
<1>2. Len(pairs) \in Nat /\ Len(pairs) <= Len(pairs)
  BY LenProperties
<1> QED
  BY <1>1, <1>2, PavRises DEF Fits

LEMMA IdentityFits == ASSUME NEW most \in Nat PROVE Fits(Identity, most)
<1>1. Identity = [blocks |-> Identity.blocks, n |-> Identity.n] /\ Identity.blocks = <<>> /\ Identity.n = 0
  BY DEF Identity
<1>2. <<>> \in Seq(Block) /\ Len(<<>>) = 0 /\ 1..0 = {}
  OBVIOUS
<1>3. Rising(<<>>)
  BY <1>2 DEF Rising
<1>4. Total(<<>>, 1, Len(<<>>)) = 0
  BY <1>2, EmptySum DEF Total
<1> QED
  BY <1>1, <1>3, <1>4 DEF Fits

\* What a fit made of the first trades of the ledger.
Made(cal, trades) == \E m \in 0..Len(trades) : cal = Fitted(SubSeq(trades, 1, m))

LEMMA FirstTrades ==
  ASSUME NEW trades \in Seq(Trades), NEW m \in 0..Len(trades)
  PROVE  SubSeq(trades, 1, m) \in Seq(Trades) /\ Len(SubSeq(trades, 1, m)) = m /\ m \in Nat
<1>1. Len(trades) \in Nat /\ \A i \in 1..Len(trades) : trades[i] \in Trades
  BY LenProperties, ElementOfSeq
<1>2. m \in Nat /\ \A i \in 1..m : trades[i] \in Trades
  BY <1>1
<1>3. SubSeq(trades, 1, m) \in Seq(Trades) /\ Len(SubSeq(trades, 1, m)) = IF 1 <= m THEN m - 1 + 1 ELSE 0
  <2>1. 1 \in Int /\ m \in Int
    BY <1>2
  <2> QED
    BY <1>2, <2>1, SubSeqProperties
<1> QED
  BY <1>2, <1>3

LEMMA FitsMore ==
  ASSUME NEW cal, NEW a \in Nat, NEW b \in Nat, a <= b, Fits(cal, a)
  PROVE  Fits(cal, b)
<1>1. cal.n \in Nat /\ cal.n <= b
  BY DEF Fits
<1> QED
  BY <1>1 DEF Fits

LEMMA MadeFits ==
  ASSUME NEW trades \in Seq(Trades), NEW cal, Made(cal, trades)
  PROVE  Fits(cal, Len(trades))
<1>1. PICK m \in 0..Len(trades) : cal = Fitted(SubSeq(trades, 1, m))
  BY DEF Made
<1>2. SubSeq(trades, 1, m) \in Seq(Trades) /\ Len(SubSeq(trades, 1, m)) = m /\ m \in Nat
  BY FirstTrades
<1>3. Fits(cal, m)
  BY <1>1, <1>2, FittedFits
<1>4. Len(trades) \in Nat /\ m <= Len(trades)
  BY LenProperties
<1> QED
  BY <1>2, <1>3, <1>4, FitsMore

LEMMA MadeNow ==
  ASSUME NEW trades \in Seq(Trades)
  PROVE  Made(Fitted(trades), trades)
<1>1. Len(trades) \in 0..Len(trades)
  BY LenProperties
<1>2. SubSeq(trades, 1, Len(trades)) = trades
  BY SubSeqFull
<1> QED
  BY <1>1, <1>2 DEF Made

LEMMA MadeStill ==
  ASSUME NEW trades \in Seq(Trades), NEW trade \in Trades, NEW cal, Made(cal, trades)
  PROVE  Made(cal, Append(trades, trade))
<1> DEFINE more == Append(trades, trade)
<1>1. PICK m \in 0..Len(trades) : cal = Fitted(SubSeq(trades, 1, m))
  BY DEF Made
<1>2. /\ more \in Seq(Trades) /\ Len(more) = Len(trades) + 1 /\ Len(trades) \in Nat
      /\ \A i \in 1..Len(trades) : more[i] = trades[i]
  BY AppendProperties, LenProperties
<1> HIDE DEF more
<1>3. m \in 0..Len(more)
  BY <1>2
<1>4. /\ SubSeq(trades, 1, m) \in Seq(Trades) /\ Len(SubSeq(trades, 1, m)) = m
      /\ SubSeq(more, 1, m) \in Seq(Trades) /\ Len(SubSeq(more, 1, m)) = m
  BY <1>2, <1>3, FirstTrades
<1>5. SubSeq(more, 1, m) = SubSeq(trades, 1, m)
  <2>1. SubSeq(more, 1, m) = [i \in 1..m |-> more[i]]
    BY <1>2
  <2>2. SubSeq(trades, 1, m) = [i \in 1..m |-> trades[i]]
    OBVIOUS
  <2>3. \A i \in 1..m : more[i] = trades[i]
    BY <1>2
  <2> QED
    BY <2>1, <2>2, <2>3
<1> QED
  BY <1>1, <1>3, <1>5 DEF Made, more

\* The trades closed are trades, and the calibrators are fitted on the first so many of them.
Trusted ==
    /\ closed \in Seq(Trades)
    /\ file = None \/ Made(file, closed)
    /\ cached = None \/ cached = Identity \/ Made(cached, closed)

LEMMA CalibratorFits == ASSUME Trusted PROVE Fits(Calibrator, Len(closed))
<1>1. Len(closed) \in Nat
  BY LenProperties DEF Trusted
<1>2. Calibrator = Identity \/ Made(Calibrator, closed)
  BY DEF Trusted, Calibrator, Load
<1>3. closed \in Seq(Trades)
  BY DEF Trusted
<1> QED
  BY <1>1, <1>2, <1>3, IdentityFits, MadeFits

Staked == open = None \/ \E p \in Int : open = [p |-> p]

LEMMA TrustedStep == ASSUME Trusted, Staked, Next PROVE Trusted'
<1>1. Len(closed) \in Nat /\ closed \in Seq(Trades)
  BY LenProperties DEF Trusted
<1>2. CASE Publish \/ Connect \/ Update \/ Disconnect \/ GrowStale \/ Propose \/ Apply \/ LogShadow
  <2>1. UNCHANGED <<closed, file, cached>>
    BY <1>2 DEF Publish, Connect, Update, Disconnect, GrowStale, Propose, Apply, LogShadow, loop, tools
  <2> QED
    BY <2>1 DEF Trusted
<1>3. CASE Fit
  <2>1. file' = Fitted(closed) /\ UNCHANGED <<closed, cached>>
    BY <1>3 DEF Fit, loop
  <2> QED
    BY <1>1, <2>1, MadeNow DEF Trusted
<1>4. CASE Decide
  <2>1. cached' = Calibrator /\ UNCHANGED <<closed, file>>
    BY <1>4 DEF Decide, tools
  <2> QED
    BY <2>1 DEF Trusted, Calibrator, Load
<1>5. CASE Close
  <2>1. PICK y \in {0, 1} : closed' = Append(closed, [p |-> Between(0, open.p, Unit), y |-> y])
    BY <1>5 DEF Close
  <2>2. UNCHANGED <<file, cached>> /\ open # None
    BY <1>5 DEF Close, tools
  <2>3. [p |-> Between(0, open.p, Unit), y |-> y] \in Trades
    <3>1. open.p \in Int
      BY <2>2 DEF Staked
    <3>2. Between(0, open.p, Unit) \in Int
      <4>1. 0 \in Int /\ Unit \in Int
        BY DEF Unit
      <4> QED
        BY <3>1, <4>1, BetweenType
    <3> QED
      BY <3>2 DEF Trades
  <2>4. closed' \in Seq(Trades)
    BY <1>1, <2>1, <2>3, AppendProperties
  <2>5. \A cal : Made(cal, closed) => Made(cal, closed')
    BY <1>1, <2>1, <2>3, MadeStill
  <2> QED
    BY <2>2, <2>4, <2>5 DEF Trusted
<1>6. CASE Restart
  <2>1. cached' = None /\ UNCHANGED <<closed, file>>
    BY <1>6 DEF Restart, tools
  <2> QED
    BY <2>1 DEF Trusted
<1> QED
  BY <1>2, <1>3, <1>4, <1>5, <1>6 DEF Next

LEMMA TrustedOrders == ASSUME Trusted PROVE CalibratorOrdered
<1> DEFINE raw == {FairUp(spot, Ref) : spot \in Levels} \cup {0, 500, Unit}
<1>1. raw \subseteq 0..Unit
  <2>1. \A spot \in Levels : FairUp(spot, Ref) \in 0..Unit
    BY NumbersAssumption, FairUpType
  <2> QED
    BY <2>1 DEF Unit
<1> HIDE DEF raw
<1>2. SUFFICES ASSUME NEW cal \in {file, cached} \ {None, Identity}
               PROVE  /\ cal.n = FoldLeft(LAMBDA sum, b : sum + b.n, 0, cal.blocks) /\ cal.n <= Len(closed)
                      /\ \A i \in DOMAIN cal.blocks : cal.blocks[i].sum \in 0..cal.blocks[i].n
                      /\ \A i, j \in DOMAIN cal.blocks : i < j =>
                            /\ cal.blocks[i].x <= cal.blocks[j].x
                            /\ cal.blocks[i].sum * cal.blocks[j].n < cal.blocks[j].sum * cal.blocks[i].n
                      /\ \A p, q \in raw : p <= q => Calibrated(cal, p) <= Calibrated(cal, q)
                      /\ \A p \in raw : Calibrated(cal, p) + Calibrated(cal, Unit - p) = Unit
  BY DEF CalibratorOrdered, raw
<1>3. Fits(cal, Len(closed))
  BY MadeFits DEF Trusted
<1>4. /\ Rising(cal.blocks) /\ cal.blocks \in Seq(Block) /\ cal.n <= Len(closed)
      /\ cal.n = Total(cal.blocks, 1, Len(cal.blocks))
  BY <1>3 DEF Fits, Rising
<1>5. DOMAIN cal.blocks = 1..Len(cal.blocks) /\ \A i \in DOMAIN cal.blocks : cal.blocks[i] \in Block
  BY <1>4, LenProperties, ElementOfSeq
<1>6. cal.n = FoldLeft(LAMBDA sum, b : sum + b.n, 0, cal.blocks)
  <2>1. CountedIn(cal.blocks) = cal.n
    BY <1>4, CountIsTotal
  <2> QED
    BY <2>1, CountIsFold
<1>7. \A i \in DOMAIN cal.blocks : cal.blocks[i].sum \in 0..cal.blocks[i].n
  BY <1>5 DEF Block
<1>8. \A i, j \in DOMAIN cal.blocks : i < j =>
            /\ cal.blocks[i].x <= cal.blocks[j].x
            /\ cal.blocks[i].sum * cal.blocks[j].n < cal.blocks[j].sum * cal.blocks[i].n
  BY <1>4, <1>5 DEF Rising, Below
<1>9. \A p, q \in raw : p <= q => Calibrated(cal, p) <= Calibrated(cal, q)
  BY <1>1, <1>4, CalibratedRises
<1>10. \A p \in raw : Calibrated(cal, p) + Calibrated(cal, Unit - p) = Unit
  BY <1>1, <1>4, CalibratedSums
<1> QED
  BY <1>4, <1>6, <1>7, <1>8, <1>9, <1>10

LEMMA MadeIsBest ==
  ASSUME NEW trades \in Seq(Trades), NEW cal, Made(cal, trades), NEW pairs, pairs = Sorted(SubSeq(trades, 1, cal.n)),
         Distinct(pairs)
  PROVE  /\ \A i \in DOMAIN pairs :
                /\ AtMost(Transform(cal, pairs[i].p), Minimax(pairs, i))
                /\ AtMost(Minimax(pairs, i), Transform(cal, pairs[i].p))
         /\ Unit * Unit * BrierCal(cal, pairs) <= Multiple(cal) * Multiple(cal) * BrierRaw(pairs)
<1>1. PICK m \in 0..Len(trades) : cal = Fitted(SubSeq(trades, 1, m))
  BY DEF Made
<1> DEFINE first == SubSeq(trades, 1, m)
<1>2. first \in Seq(Trades) /\ Len(first) = m
  BY FirstTrades
<1>3. cal.n = m /\ cal.blocks = Pav(first)
  BY <1>1, <1>2 DEF Fitted
<1>4. pairs = Sorted(first)
  BY <1>3
<1> HIDE DEF first
<1>5. /\ pairs \in Seq(Trades) /\ Len(pairs) = Len(first)
      /\ \A i, j \in 1..Len(pairs) : i < j => pairs[i].p < pairs[j].p
  <2>1. Distinct(Sorted(first))
    BY <1>4
  <2> QED
    BY <1>2, <1>4, <2>1, StrictlySorted
<1>6. Rising(cal.blocks) /\ Hulled(cal.blocks, Len(pairs), pairs)
  BY <1>2, <1>3, <1>4, <1>5, PavRises
<1>7. PICK e : Hull(e, cal.blocks, Len(pairs), pairs)
  BY <1>6 DEF Hulled
<1>8. DOMAIN pairs = 1..Len(pairs)
  BY <1>5, LenProperties
<1>9. \A i \in DOMAIN pairs :
          /\ AtMost(Transform(cal, pairs[i].p), Minimax(pairs, i))
          /\ AtMost(Minimax(pairs, i), Transform(cal, pairs[i].p))
  BY <1>5, <1>6, <1>7, <1>8, FittedIsotonic
<1>10. Unit * Unit * BrierCal(cal, pairs) <= Multiple(cal) * Multiple(cal) * BrierRaw(pairs)
  BY <1>5, <1>6, <1>7, NoWorse
<1> QED
  BY <1>9, <1>10

LEMMA TrustedBest == ASSUME Trusted PROVE LeastSquares
<1>1. SUFFICES ASSUME NEW cal \in {file, cached} \ {None, Identity}, NEW pairs, pairs = Sorted(SubSeq(closed, 1, cal.n)),
                      Distinct(pairs)
               PROVE  /\ \A i \in DOMAIN pairs :
                            /\ AtMost(Transform(cal, pairs[i].p), Minimax(pairs, i))
                            /\ AtMost(Minimax(pairs, i), Transform(cal, pairs[i].p))
                      /\ Unit * Unit * BrierCal(cal, pairs) <= Multiple(cal) * Multiple(cal) * BrierRaw(pairs)
  BY DEF LeastSquares
<1>2. closed \in Seq(Trades) /\ Made(cal, closed)
  BY DEF Trusted
<1> QED
  BY <1>1, <1>2, MadeIsBest

-----------------------------------------------------------------------------
(* What is proposed.                                                       *)

\* A recommendation, and beside it what the environment says.
Offer(path) ==
    [edgeMin |-> Recommendation[path].edgeMin, minConf |-> Recommendation[path].minConf,
     minLeft |-> Recommendation[path].minLeft, maxPrice |-> Recommendation[path].maxPrice,
     edgeMax |-> Env.edgeMax, minPrice |-> Env.minPrice, history |-> path]
Offered(f) == f = None \/ \E path \in DOMAIN Histories : f = Offer(path)

LEMMA Recommends ==
  ASSUME NEW path \in DOMAIN Histories
  PROVE  /\ Recommendation[path] \in Points4
         /\ Worthy[path] # {} => \E m \in Worthy[path] :
                m.point = Recommendation[path] /\ \A other \in Worthy[path] : ~Better(other, m)
<1> DEFINE history == Opportunities[path]
<1>1. Sane(history)
  BY OpportunitiesWorth DEF Sane
<1>2. Recommendation[path] = Recommended(history) /\ Worthy[path] = WorthyOf(history)
  BY DEF Recommendation, Worthy, WorthyOf
<1> HIDE DEF history
<1> QED
  BY <1>1, <1>2, RecommendedIsBest

\* The thresholds in force are numbers, and those the grid does not tune are the environment's.
Rules == [edgeMin : Int, minConf : Int, minLeft : Int, maxPrice : Int, edgeMax : Int, minPrice : Int]

LEMMA ActiveRules ==
  ASSUME Offered(active)
  PROVE  Active \in Rules /\ Active.edgeMax = Env.edgeMax /\ Active.minPrice = Env.minPrice
<1>1. /\ Env.edgeMin \in Int /\ Env.minConf \in Int /\ Env.minLeft \in Int /\ Env.edgeMax \in Int /\ Env.minPrice \in Int
  BY NumbersAssumption
<1>2. CASE active = None
  <2>1. /\ [Env EXCEPT !.maxPrice = 950].edgeMin = Env.edgeMin /\ [Env EXCEPT !.maxPrice = 950].minConf = Env.minConf
        /\ [Env EXCEPT !.maxPrice = 950].minLeft = Env.minLeft /\ [Env EXCEPT !.maxPrice = 950].maxPrice = 950
        /\ [Env EXCEPT !.maxPrice = 950].edgeMax = Env.edgeMax /\ [Env EXCEPT !.maxPrice = 950].minPrice = Env.minPrice
    BY NumbersAssumption
  <2>2. Active = [edgeMin |-> Env.edgeMin, minConf |-> Env.minConf, minLeft |-> Env.minLeft, maxPrice |-> 950,
                  edgeMax |-> Env.edgeMax, minPrice |-> Env.minPrice]
    BY <1>2, <2>1 DEF Active, FromEnv, Loaded
  <2> QED
    BY <1>1, <2>2 DEF Rules
<1>3. CASE active # None
  <2>1. PICK path \in DOMAIN Histories : active = Offer(path)
    BY <1>3 DEF Offered
  <2> DEFINE best == Recommendation[path]
  <2>2. best \in Points4
    BY Recommends
  <2>3. Active = [edgeMin |-> best.edgeMin, minConf |-> best.minConf, minLeft |-> best.minLeft, maxPrice |-> best.maxPrice,
                  edgeMax |-> Env.edgeMax, minPrice |-> Env.minPrice]
    BY <1>3, <2>1 DEF Active, Loaded, Offer
  <2> HIDE DEF best
  <2> QED
    BY <1>1, <2>2, <2>3 DEF Rules, Points4
<1> QED
  BY <1>2, <1>3

LEMMA OfferedStep == ASSUME Offered(proposed), Offered(active), Next PROVE Offered(proposed') /\ Offered(active')
<1>1. CASE Publish \/ Connect \/ Update \/ Disconnect \/ GrowStale \/ Fit \/ Decide \/ LogShadow \/ Close \/ Restart
  <2>1. UNCHANGED <<proposed, active>>
    BY <1>1 DEF Publish, Connect, Update, Disconnect, GrowStale, Fit, Decide, LogShadow, Close, Restart, tools
  <2> QED
    BY <2>1
<1>2. CASE Propose
  <2>1. PICK path \in DOMAIN Histories :
            proposed' = [edgeMin |-> Recommendation[path].edgeMin, minConf |-> Recommendation[path].minConf,
                         minLeft |-> Recommendation[path].minLeft, maxPrice |-> Recommendation[path].maxPrice,
                         edgeMax |-> Active.edgeMax, minPrice |-> Active.minPrice, history |-> path]
    BY <1>2 DEF Propose
  <2>2. Active.edgeMax = Env.edgeMax /\ Active.minPrice = Env.minPrice
    BY ActiveRules
  <2>3. proposed' = Offer(path)
    BY <2>1, <2>2 DEF Offer
  <2>4. active' = active
    BY <1>2 DEF Propose
  <2> QED
    BY <2>3, <2>4 DEF Offered
<1>3. CASE Apply
  <2>1. active' = proposed /\ proposed' = proposed
    BY <1>3 DEF Apply
  <2> QED
    BY <2>1
<1> QED
  BY <1>1, <1>2, <1>3 DEF Next

-----------------------------------------------------------------------------
(* What is signalled.                                                      *)

\* The signal of a tick that is not logged yet, by its rules.
Heeded(view, signal, rules) ==
    signal # None =>
        /\ signal.edge \in Int /\ signal.price \in Int
        /\ view.left > rules.minLeft
        /\ signal.edge >= rules.edgeMin /\ Confidence(Greatest(signal.edge, 0)) >= rules.minConf
        /\ rules.minPrice <= signal.price

LEMMA V0Heeds ==
  ASSUME NEW v, NEW p, Legible(v)
  PROVE  Heeded(v, FairValueV0(v, p), p)
<1> SUFFICES ASSUME FairValueV0(v, p) # None
             PROVE  /\ FairValueV0(v, p).edge \in Int /\ FairValueV0(v, p).price \in Int
                    /\ v.left > p.minLeft
                    /\ FairValueV0(v, p).edge >= p.edgeMin /\ Confidence(Greatest(FairValueV0(v, p).edge, 0)) >= p.minConf
                    /\ p.minPrice <= FairValueV0(v, p).price
  BY DEF Heeded
<1> DEFINE side == Chosen(v)
<1>1. Candidates(v) # {} /\ Enters(v, side, p) /\ FairValueV0(v, p) = Signal(v, side)
  BY DEF FairValueV0
<1>2. \A s \in Candidates(v) : v.ask[s] \in Int /\ Edge(v, s) \in Int
  BY <1>1, ChosenBest DEF Candidates, Legible
<1>3. side \in Candidates(v)
  BY <1>1, ChosenBest
<1> HIDE DEF side
<1>4. Signal(v, side).edge = Edge(v, side) /\ Signal(v, side).price = v.ask[side]
  BY DEF Signal
<1>5. /\ v.left > p.minLeft
      /\ Edge(v, side) >= p.edgeMin /\ Confidence(Greatest(Edge(v, side), 0)) >= p.minConf
      /\ p.minPrice <= v.ask[side]
  BY <1>1 DEF Enters
<1> QED
  BY <1>1, <1>2, <1>3, <1>4, <1>5

\* What is confident of an edge that counts only if it is one is no less so of its size.
LEMMA ConfidenceOfSize ==
  ASSUME NEW edge \in Int, NEW least \in Int, Confidence(Greatest(edge, 0)) >= least
  PROVE  ConfidenceFromEdge(edge) >= least
<1> DEFINE a == Greatest(edge, 0)
           b == Greatest(edge, -edge)
<1>1. a \in Int /\ b \in Int /\ a <= b
  BY DEF Greatest
<1>2. \A x, y \in Int : x <= y => Confidence(x) <= Confidence(y) /\ Confidence(x) \in Int /\ Confidence(y) \in Int
  BY DEF Confidence, Between, Least, Greatest
<1> HIDE DEF a, b
<1>3. Confidence(a) <= Confidence(b) /\ Confidence(a) \in Int /\ Confidence(b) \in Int
  BY <1>1, <1>2
<1>4. Confidence(a) >= least /\ ConfidenceFromEdge(edge) = Confidence(b)
  BY DEF a, b, ConfidenceFromEdge
<1> QED
  BY <1>3, <1>4

\* The tick in progress keeps to the rules it was decided by.
Ruled ==
    tick.step = "log" =>
        /\ tick.rules \in Rules /\ tick.rules.minPrice = Env.minPrice
        /\ Heeded(tick.view, tick.signal, tick.rules)

LEMMA RuledCounts ==
  ASSUME Ruled, Env.minPrice >= 50
  PROVE  (tick.step = "log" /\ tick.signal # None /\ tick.signal.price <= tick.rules.maxPrice) =>
            Accepts([edge |-> tick.signal.edge, left |-> tick.view.left, price |-> tick.signal.price], tick.rules)
<1> SUFFICES ASSUME tick.step = "log", tick.signal # None, tick.signal.price <= tick.rules.maxPrice
             PROVE  Accepts([edge |-> tick.signal.edge, left |-> tick.view.left, price |-> tick.signal.price], tick.rules)
  OBVIOUS
<1> DEFINE edge == tick.signal.edge
           price == tick.signal.price
           left == tick.view.left
           rules == tick.rules
<1>1. /\ rules \in Rules /\ rules.minPrice = Env.minPrice
      /\ edge \in Int /\ price \in Int /\ left > rules.minLeft
      /\ edge >= rules.edgeMin /\ Confidence(Greatest(edge, 0)) >= rules.minConf
      /\ rules.minPrice <= price
  BY DEF Ruled, Heeded
<1>2. rules.minConf \in Int /\ rules.minPrice \in Int
  BY <1>1 DEF Rules
<1>3. price <= rules.maxPrice
  OBVIOUS
<1> HIDE DEF edge, price, left, rules
<1>4. ConfidenceFromEdge(edge) >= rules.minConf
  BY <1>1, <1>2, ConfidenceOfSize
<1>5. 50 <= price
  BY <1>1, <1>2
<1>6. Accepts([edge |-> edge, left |-> left, price |-> price], rules)
  BY <1>1, <1>3, <1>4, <1>5 DEF Accepts
<1> QED
  BY <1>6 DEF edge, price, left, rules

\* The thresholds of the strategy are those in force.
LEMMA ThresholdsAreActive ==
         /\ Thresholds.minLeft = Active.minLeft /\ Thresholds.edgeMin = Active.edgeMin
         /\ Thresholds.minConf = Active.minConf /\ Thresholds.minPrice = Active.minPrice
<1> DEFINE Names == {"edgeMin", "edgeMax", "minConf", "minLeft", "minPrice", "maxPrice", "minTrade", "maxTrade"}
<1>1. DOMAIN Env = Names
  BY NumbersAssumption
<1>2. Thresholds = [x \in Names |->
                      CASE x = "edgeMin" -> Active.edgeMin [] x = "edgeMax" -> Active.edgeMax
                        [] x = "minConf" -> Active.minConf [] x = "minLeft" -> Active.minLeft
                        [] x = "minPrice" -> Active.minPrice [] OTHER -> Env[x]]
  BY <1>1 DEF Thresholds
<1> QED
  BY <1>2

\* A spot is a number, whether the feed's or what REST says.
LEMMA SpotsType == ASSUME FeedSound PROVE Spots \subseteq Int
<1>1. Levels \subseteq Int
  BY NumbersAssumption
<1>2. feed.series # <<>> => Last(feed.series).value \in Int
  <2>1. feed.series # <<>> => Last(feed.series) \in Point
    BY EmptySeq, LenProperties, ElementOfSeq DEF FeedSound, InOrder, Last
  <2> QED
    BY <2>1 DEF Point
<1>3. CASE feed.fresh /\ feed.series # <<>>
  BY <1>2, <1>3 DEF Spots
<1>4. CASE ~(feed.fresh /\ feed.series # <<>>)
  <2>1. Spots = Levels \cup {0}
    BY <1>4 DEF Spots
  <2> QED
    BY <1>1, <2>1
<1> QED
  BY <1>3, <1>4

\* The pair the loop compares with the asks sums to one.
LEMMA PairSums ==
  ASSUME Trusted, NEW spot \in Int
  PROVE  LET fair == CalibratedPair(Calibrator, FairUp(spot, Ref))
         IN  fair \in [Sides -> Int] /\ fair = Pair(fair["Up"])
<1> DEFINE up == FairUp(spot, Ref)
           cal == Calibrator
<1>1. up \in 0..Unit /\ Unit - up \in 0..Unit
  <2>1. up \in 0..Unit
    BY FairUpType, NumbersAssumption
  <2> HIDE DEF up
  <2> QED
    BY <2>1 DEF Unit
<1>2. Rising(cal.blocks)
  BY CalibratorFits DEF Fits
<1> HIDE DEF up, cal
<1>3. /\ Calibrated(cal, up) \in Int /\ Calibrated(cal, Unit - up) \in Int
      /\ Calibrated(cal, up) + Calibrated(cal, Unit - up) = Unit
  BY <1>1, <1>2, CalibratedType, CalibratedSums
<1>4. Calibrated(cal, Unit - up) = Unit - Calibrated(cal, up)
  BY <1>3 DEF Unit
<1>5. Pair(up) = [s \in Sides |-> IF s = "Up" THEN up ELSE Unit - up]
  BY DEF Pair
<1>6. CalibratedPair(cal, up) = [s \in Sides |-> IF s = "Up" THEN Calibrated(cal, up) ELSE Calibrated(cal, Unit - up)]
  BY <1>5 DEF CalibratedPair
<1>7. CalibratedPair(cal, up) \in [Sides -> Int] /\ CalibratedPair(cal, up)["Up"] = Calibrated(cal, up)
  BY <1>3, <1>6 DEF Sides
<1>8. CalibratedPair(cal, up) = Pair(CalibratedPair(cal, up)["Up"])
  BY <1>4, <1>6, <1>7 DEF Pair
<1> QED
  BY <1>7, <1>8 DEF up, cal

-----------------------------------------------------------------------------
(* The control.                                                            *)

\* A signal is v0's of the books of a view that the loop can buy, by some thresholds: these ones,
\* unless they have moved.
Said(v, signal, moved, rules) ==
    \E p : /\ signal = IF v.spot = 0 THEN None ELSE FairValueV0(Buyable(v), p)
           /\ ~moved => p = rules

\* Between the decision and the log, the loop's signal is what v0 said of the books it can buy, by
\* thresholds that are still in force unless others were applied meanwhile; and the pair sums to one.
Agreed ==
    /\ tick = [step |-> tick.step, view |-> tick.view, signal |-> tick.signal,
               control |-> tick.control, rules |-> tick.rules, moved |-> tick.moved]
    /\ tick.step \in {"idle", "log"}
    /\ tick.step = "log" =>
        /\ Legible(tick.view) /\ tick.view.fair = Pair(tick.view.fair["Up"])
        /\ Said(tick.view, tick.signal, tick.moved, Thresholds)

LEMMA AgreedInit == Init => Agreed
  BY DEF Init, Agreed, Ready

LEMMA DecideAgrees == ASSUME Decide, FeedSound, Trusted PROVE Agreed'
<1>1. UNCHANGED active
  BY DEF Decide, tools
<1>2. PICK spot \in Spots, book \in Books :
        LET view == [left |-> Left, spot |-> spot, ref |-> Ref,
                     fair |-> CalibratedPair(Calibrator, FairUp(spot, Ref)), ask |-> book.ask, bid |-> book.bid]
            signal == IF spot = 0 THEN None ELSE FairValueV0(Buyable(view), Thresholds)
        IN  tick' = [Ready EXCEPT !.step = "log", !.view = view, !.signal = signal, !.rules = Active]
  BY Zenon DEF Decide
<1> DEFINE fair == CalibratedPair(Calibrator, FairUp(spot, Ref))
           view == [left |-> Left, spot |-> spot, ref |-> Ref, fair |-> fair, ask |-> book.ask, bid |-> book.bid]
           signal == IF view.spot = 0 THEN None ELSE FairValueV0(Buyable(view), Thresholds)
<1>3. tick' = [Ready EXCEPT !.step = "log", !.view = view, !.signal = signal, !.rules = Active]
  BY <1>2
<1>4. fair \in [Sides -> Int] /\ fair = Pair(fair["Up"])
  BY SpotsType, PairSums
<1> HIDE DEF fair
<1>5. Legible(view) /\ view.fair = Pair(view.fair["Up"])
  BY <1>4, BooksAssumption DEF Legible
<1> HIDE DEF view, signal
<1>6. /\ tick' = [step |-> tick'.step, view |-> tick'.view, signal |-> tick'.signal,
                  control |-> tick'.control, rules |-> tick'.rules, moved |-> tick'.moved]
      /\ tick'.step = "log" /\ tick'.view = view /\ tick'.signal = signal
  BY <1>3 DEF Ready
<1>7. Thresholds' = Thresholds
  BY <1>1 DEF Thresholds, Active
<1>8. Said(tick'.view, tick'.signal, tick'.moved, Thresholds')
  BY <1>6, <1>7 DEF signal, Said
<1>9. tick'.step = "log" => Legible(tick'.view) /\ tick'.view.fair = Pair(tick'.view.fair["Up"])
  BY <1>5, <1>6
<1> QED
  BY <1>6, <1>8, <1>9 DEF Agreed

LEMMA AgreedStep == Agreed /\ FeedSound /\ Trusted /\ [Next]_vars => Agreed'
<1> SUFFICES ASSUME Agreed, FeedSound, Trusted, [Next]_vars PROVE Agreed'
  OBVIOUS
<1>1. ASSUME UNCHANGED <<tick, active>> PROVE Agreed'
  BY <1>1 DEF Agreed, Thresholds, Active
<1>2. CASE Publish \/ Connect \/ Update \/ Disconnect \/ GrowStale \/ Fit \/ Propose \/ Close \/ UNCHANGED vars
  <2>1. UNCHANGED <<tick, active>>
    BY <1>2 DEF Publish, Connect, Update, Disconnect, GrowStale, Fit, Propose, Close, vars, loop, tools
  <2> QED
    BY <1>1, <2>1
<1>3. CASE Apply
  <2>1. tick' = [tick EXCEPT !.moved = @ \/ tick.step # "idle"]
    BY <1>3 DEF Apply
  <2>2. /\ tick' = [step |-> tick'.step, view |-> tick'.view, signal |-> tick'.signal,
                    control |-> tick'.control, rules |-> tick'.rules, moved |-> tick'.moved]
        /\ tick'.step = tick.step /\ tick'.view = tick.view /\ tick'.signal = tick.signal
    BY <2>1 DEF Agreed
  <2>3. tick'.step = "log" => tick'.moved
    BY <2>1 DEF Agreed
  <2>4. tick'.step = "log" => Said(tick'.view, tick'.signal, tick'.moved, Thresholds')
    BY <2>2, <2>3 DEF Agreed, Said
  <2> QED
    BY <2>2, <2>4 DEF Agreed
<1>4. CASE Decide
  BY <1>4, DecideAgrees
<1>5. CASE LogShadow
  <2>1. tick' = [tick EXCEPT !.step = "idle", !.view = None, !.rules = None, !.control = tick'.control]
    BY <1>5 DEF LogShadow, Agreed
  <2>2. /\ tick' = [step |-> tick'.step, view |-> tick'.view, signal |-> tick'.signal,
                    control |-> tick'.control, rules |-> tick'.rules, moved |-> tick'.moved]
        /\ tick'.step = "idle"
    BY <2>1 DEF Agreed
  <2> QED
    BY <2>2 DEF Agreed
<1>6. CASE Restart
  BY <1>6 DEF Restart, Ready, Agreed
<1> QED
  BY <1>2, <1>3, <1>4, <1>5, <1>6 DEF Next

\* What is logged of a tick, next to what the loop decided in it.
Follows ==
    LogShadow =>
      LET signal  == tick.signal
          control == tick'.control
      IN  \/ control = signal
          \/ Lures(tick.view) # {} /\ (control # None => control.side \in Lures(tick.view))
          \/ tick.moved /\ None \in {signal, control}

LEMMA LogFollows == Agreed => Follows
<1> SUFFICES ASSUME Agreed, LogShadow
             PROVE  LET signal  == tick.signal
                        control == tick'.control
                    IN  \/ control = signal
                        \/ Lures(tick.view) # {} /\ (control # None => control.side \in Lures(tick.view))
                        \/ tick.moved /\ None \in {signal, control}
  BY DEF Follows
<1> DEFINE v == tick.view
<1>1. Legible(v) /\ v.fair = Pair(v.fair["Up"])
  BY DEF LogShadow, Agreed
<1>2. PICK p : /\ tick.signal = IF v.spot = 0 THEN None ELSE FairValueV0(Buyable(v), p)
               /\ ~tick.moved => p = Thresholds
  BY DEF LogShadow, Agreed, Said
<1>3. tick'.control = IF v.spot = 0 THEN None ELSE Control(v, Thresholds)
  BY DEF LogShadow, Agreed
<1> HIDE DEF v
<1>4. [v EXCEPT !.fair = Pair(@["Up"])] = v
  BY <1>1 DEF Legible
<1>5. Control(v, Thresholds) = FairValueV0(v, Thresholds)
  BY <1>4 DEF Control
<1>6. CASE v.spot = 0
  BY <1>2, <1>3, <1>6
<1>7. CASE v.spot # 0
  <2>1. tick.signal = FairValueV0(Buyable(v), p) /\ tick'.control = FairValueV0(v, Thresholds)
    BY <1>2, <1>3, <1>5, <1>7
  <2>2. LET signal  == FairValueV0(Buyable(v), p)
            control == FairValueV0(v, Thresholds)
        IN  \/ control = signal
            \/ Lures(v) # {} /\ (control # None => control.side \in Lures(v))
            \/ p # Thresholds /\ None \in {signal, control}
    BY <1>1, VerdictsAlike
  <2> QED
    BY <1>2, <2>1, <2>2 DEF v
<1> QED
  BY <1>6, <1>7

LEMMA DecideRules ==
  ASSUME Decide, FeedSound, Trusted, Staked, Offered(active)
  PROVE  Ruled' /\ Staked'
<1>1. PICK spot \in Spots, book \in Books :
        LET view == [left |-> Left, spot |-> spot, ref |-> Ref,
                     fair |-> CalibratedPair(Calibrator, FairUp(spot, Ref)), ask |-> book.ask, bid |-> book.bid]
            signal == IF spot = 0 THEN None ELSE FairValueV0(Buyable(view), Thresholds)
        IN  /\ tick' = [Ready EXCEPT !.step = "log", !.view = view, !.signal = signal, !.rules = Active]
            /\ open' \in IF signal # None /\ open = None THEN {None, [p |-> signal.edge + signal.price]} ELSE {open}
  BY Zenon DEF Decide
<1> DEFINE fair == CalibratedPair(Calibrator, FairUp(spot, Ref))
           view == [left |-> Left, spot |-> spot, ref |-> Ref, fair |-> fair, ask |-> book.ask, bid |-> book.bid]
           seen == Buyable(view)
           signal == IF spot = 0 THEN None ELSE FairValueV0(seen, Thresholds)
<1>2. /\ tick' = [Ready EXCEPT !.step = "log", !.view = view, !.signal = signal, !.rules = Active]
      /\ open' \in IF signal # None /\ open = None THEN {None, [p |-> signal.edge + signal.price]} ELSE {open}
  BY <1>1, Zenon
<1>3. fair \in [Sides -> Int]
  BY SpotsType, PairSums
<1> HIDE DEF fair
<1>4. Legible(seen) /\ seen.left = view.left
  <2>1. Legible(view)
    BY <1>3, BooksAssumption DEF Legible
  <2> QED
    BY <2>1, BuyableIs
<1> HIDE DEF view, seen
<1>5. Heeded(seen, FairValueV0(seen, Thresholds), Thresholds)
  BY <1>4, V0Heeds
<1>6. Heeded(view, signal, Active)
  <2>1. Heeded(seen, signal, Thresholds)
    BY <1>5 DEF Heeded
  <2> HIDE DEF signal
  <2> QED
    BY <1>4, <2>1, ThresholdsAreActive DEF Heeded
<1> HIDE DEF signal
<1>7. Active \in Rules /\ Active.minPrice = Env.minPrice
  BY ActiveRules
<1>8. tick'.step = "log" /\ tick'.view = view /\ tick'.signal = signal /\ tick'.rules = Active
  BY <1>2 DEF Ready
<1>9. Ruled'
  BY <1>6, <1>7, <1>8 DEF Ruled, Heeded
<1>10. Staked'
  <2>1. signal # None => signal.edge + signal.price \in Int
    BY <1>6 DEF Heeded
  <2> QED
    BY <1>2, <2>1 DEF Staked
<1> QED
  BY <1>9, <1>10

LEMMA RuledStep ==
  ASSUME Ruled, Staked, Agreed, FeedSound, Trusted, Offered(active), Next
  PROVE  Ruled' /\ Staked'
<1>1. ASSUME UNCHANGED tick PROVE Ruled'
  BY <1>1 DEF Ruled, Heeded
<1>2. CASE Publish \/ Connect \/ Update \/ Disconnect \/ GrowStale \/ Fit \/ Propose
  <2>1. UNCHANGED <<tick, open>>
    BY <1>2 DEF Publish, Connect, Update, Disconnect, GrowStale, Fit, Propose, loop
  <2> QED
    BY <1>1, <2>1 DEF Staked
<1>3. CASE Apply
  <2>1. tick' = [tick EXCEPT !.moved = @ \/ tick.step # "idle"] /\ open' = open
    BY <1>3 DEF Apply
  <2>2. /\ tick'.step = tick.step /\ tick'.view = tick.view
        /\ tick'.signal = tick.signal /\ tick'.rules = tick.rules
    BY <2>1 DEF Agreed
  <2> QED
    BY <2>1, <2>2 DEF Ruled, Heeded, Staked
<1>4. CASE Decide
  BY <1>4, DecideRules
<1>5. CASE LogShadow
  <2>1. open' = open /\ tick' = [tick EXCEPT !.step = "idle", !.view = None, !.rules = None, !.control = tick'.control]
    BY <1>5 DEF LogShadow, Agreed
  <2>2. tick'.step = "idle"
    BY <2>1 DEF Agreed
  <2> QED
    BY <2>1, <2>2 DEF Ruled, Staked
<1>6. CASE Close
  <2>1. open' = None /\ UNCHANGED tick
    BY <1>6 DEF Close
  <2> QED
    BY <1>1, <2>1 DEF Staked
<1>7. CASE Restart
  <2>1. open' = open /\ tick'.step = "idle"
    BY <1>7 DEF Restart, Ready
  <2> QED
    BY <2>1 DEF Ruled, Staked
<1> QED
  BY <1>2, <1>3, <1>4, <1>5, <1>6, <1>7 DEF Next

-----------------------------------------------------------------------------
(* The invariant.                                                          *)

TuningInv ==
    /\ FeedSound /\ Agreed
    /\ Trusted /\ Staked
    /\ Offered(proposed) /\ Offered(active) /\ Ruled

LEMMA TuningInit == Init => TuningInv
<1> SUFFICES ASSUME Init PROVE TuningInv
  OBVIOUS
<1>1. FeedSound /\ Agreed
  BY FeedInit, AgreedInit
<1>2. /\ closed = <<>> /\ open = None /\ cached = None /\ file = None
      /\ proposed = None /\ active = None /\ tick.step = "idle"
  BY DEF Init, Ready
<1>3. Trusted
  BY <1>2 DEF Trusted
<1>4. Staked /\ Offered(proposed) /\ Offered(active) /\ Ruled
  BY <1>2 DEF Staked, Offered, Ruled
<1> QED
  BY <1>1, <1>3, <1>4 DEF TuningInv

LEMMA TuningStep == TuningInv /\ [Next]_vars => TuningInv'
<1> SUFFICES ASSUME TuningInv, [Next]_vars PROVE TuningInv'
  OBVIOUS
<1>1. CASE Next
  <2>1. /\ FeedSound /\ Agreed /\ Trusted /\ Staked
        /\ Offered(proposed) /\ Offered(active) /\ Ruled
    BY DEF TuningInv
  <2>2. FeedSound' /\ Agreed'
    BY <1>1, <2>1, FeedStep, AgreedStep
  <2>3. Trusted'
    BY <1>1, <2>1, TrustedStep
  <2>4. Ruled' /\ Staked'
    BY <1>1, <2>1, RuledStep
  <2>5. Offered(proposed') /\ Offered(active')
    BY <1>1, <2>1, OfferedStep
  <2>6. Offered(proposed)' /\ Offered(active)'
    BY <2>5 DEF Offered, Offer
  <2> QED
    BY <2>2, <2>3, <2>4, <2>6 DEF TuningInv
<1>2. CASE UNCHANGED vars
  <2>1. UNCHANGED <<prints, feed, closed, open, cached, tick, file, proposed, active>>
    BY <1>2 DEF vars, loop, tools
  <2>2. FeedSound' /\ Agreed'
    <3>1. FeedSound'
      BY <2>1 DEF TuningInv, FeedSound
    <3> QED
      BY <3>1, AgreedStep DEF TuningInv
  <2>3. Trusted' /\ Staked'
    BY <2>1 DEF TuningInv, Trusted, Staked
  <2>4. Offered(proposed)' /\ Offered(active)'
    BY <2>1 DEF TuningInv, Offered, Offer
  <2>5. Ruled'
    BY <2>1 DEF TuningInv, Ruled, Heeded
  <2> QED
    BY <2>2, <2>3, <2>4, <2>5 DEF TuningInv
<1> QED
  BY <1>1, <1>2

\* Whatever calibrator, thresholds, feed and book a tick met, the control the shadow race logs is the
\* loop's own signal, side, price and edge, unless a crossed side with no less of an edge led it away,
\* which is then what it claims, or thresholds applied in the midst of the tick made one of the two
\* refuse (btc_bot/paper.py:238-248, 934-947, 982, 1676; shadow/runner.py:9-12, 74-104).
THEOREM ControlAlwaysFollows == Spec => ControlFollows
<1>1. Init => TuningInv
  BY TuningInit
<1>2. TuningInv /\ [Next]_vars => TuningInv'
  BY TuningStep
<1>3. TuningInv /\ [Next]_vars => [Follows]_vars
  BY LogFollows DEF TuningInv
<1> QED
  BY <1>1, <1>2, <1>3, PTL DEF Spec, ControlFollows, Follows

\* Whatever trades were closed and whenever the tool is run, a calibrator counts every trade it was
\* fitted on once, rises from block to block, and what the loop makes of a pair of probabilities with
\* it rises too and sums to one; and where no two of the trades share a probability it is the
\* least-squares isotonic fit to them, the minimax of their means, and its squared error on them is not
\* above that of the raw probabilities (btc_bot/calibration.py:28-52, 74-88, 114-140, 189-203).
THEOREM CalibratorAlwaysSound == Spec => []CalibratorSound
<1>1. TuningInv => CalibratorSound
  BY TrustedOrders, TrustedBest DEF TuningInv, CalibratorSound
<1> QED
  BY <1>1, TuningInit, TuningStep, PTL DEF Spec

LEMMA OfferedSound ==
  ASSUME BuysInWindow, NEW f, f # None, Offered(f)
  PROVE  LET point == [edgeMin |-> f.edgeMin, minConf |-> f.minConf, minLeft |-> f.minLeft, maxPrice |-> f.maxPrice]
         IN  /\ NoLookAhead[f.history]
             /\ f.edgeMax = Env.edgeMax /\ f.minPrice = Env.minPrice
             /\ Worthy[f.history] # {} =>
                 \E m \in Worthy[f.history] : m.point = point /\ \A other \in Worthy[f.history] : ~Better(other, m)
<1> DEFINE point == [edgeMin |-> f.edgeMin, minConf |-> f.minConf, minLeft |-> f.minLeft, maxPrice |-> f.maxPrice]
<1>1. PICK path \in DOMAIN Histories : f = Offer(path)
  BY DEF Offered
<1> DEFINE best == Recommendation[path]
<1>2. /\ best \in Points4
      /\ Worthy[path] # {} => \E m \in Worthy[path] : m.point = best /\ \A other \in Worthy[path] : ~Better(other, m)
  BY Recommends
<1>3. f.history = path /\ f.edgeMax = Env.edgeMax /\ f.minPrice = Env.minPrice
      /\ point = [edgeMin |-> best.edgeMin, minConf |-> best.minConf, minLeft |-> best.minLeft, maxPrice |-> best.maxPrice]
  BY <1>1 DEF Offer
<1> HIDE DEF best, point
<1>4. point = best
  BY <1>2, <1>3 DEF Points4
<1>5. NoLookAhead[path]
  BY NothingAhead
<1> QED
  BY <1>2, <1>3, <1>4, <1>5 DEF point

\* Where no buy of an exported history was made before its window began and the environment's lowest
\* price is not below the backtest's, whatever is proposed and applied, however often and in
\* whatever order: the edges the proposal rests on come from prices known at the time, the limits the
\* grid does not tune stay the environment's, a disciplined point with enough trades is neither passed
\* over nor beaten by another such point, and what the loop signals is what the backtest would have
\* counted (btc_bot/backtest.py:178-246, 294-314, 384-401, params_propose.py:37-47, strategy.py:113-158).
THEOREM ProposalsAlwaysSound ==
  ASSUME BuysInWindow, Env.minPrice >= 50
  PROVE  Spec => []ProposalSound
<1>1. TuningInv => ProposalSound
  <2> SUFFICES ASSUME TuningInv PROVE ProposalSound
    OBVIOUS
  <2>1. Offered(proposed) /\ Offered(active) /\ Ruled
    BY DEF TuningInv
  <2>2. \A f \in {proposed, active} \ {None} : Offered(f) /\ f # None
    BY <2>1
  <2>3. \A f \in {proposed, active} \ {None} :
            LET point == [edgeMin |-> f.edgeMin, minConf |-> f.minConf, minLeft |-> f.minLeft, maxPrice |-> f.maxPrice]
            IN  /\ NoLookAhead[f.history]
                /\ f.edgeMax = Env.edgeMax /\ f.minPrice = Env.minPrice
                /\ Worthy[f.history] # {} =>
                    \E m \in Worthy[f.history] : m.point = point /\ \A other \in Worthy[f.history] : ~Better(other, m)
    BY <2>2, OfferedSound
  <2>4. (tick.step = "log" /\ tick.signal # None /\ tick.signal.price <= tick.rules.maxPrice) =>
            Accepts([edge |-> tick.signal.edge, left |-> tick.view.left, price |-> tick.signal.price], tick.rules)
    BY <2>1, RuledCounts
  <2> QED
    BY <2>3, <2>4 DEF ProposalSound
<1> QED
  BY <1>1, TuningInit, TuningStep, PTL DEF Spec
=============================================================================
