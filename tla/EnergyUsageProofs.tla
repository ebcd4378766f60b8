-------------------------- MODULE EnergyUsageProofs --------------------------
(***************************************************************************)
(* Theorems about EnergyUsage, for any calendar, any length of a month and *)
(* any number of loads and choices: type correctness, weeks and totals in  *)
(* step with the days and the month, and which days can be seen.           *)
(***************************************************************************)
EXTENDS EnergyUsage, SequenceTheorems, WellFoundedInduction, TLAPS

-----------------------------------------------------------------------------
(* What TypeOK leaves to the calendar, the queue and the counters.         *)
Typed ==
    /\ weekdayOf1 \in 0..6 /\ firstWeekday \in 1..7
    /\ mainq \in Seq(Block)
    /\ used \in [Counters -> Nat]

(* The weeks that the screen should offer.                                 *)
Current == WeeksOf(dailyUsages, selectedMonth)

(* No block with weeks stands behind position i of queue q.                *)
LastWeeks(q, i) ==
    q[i].kind = "weeks" /\ \A j \in 1 .. Len(q) : j > i => q[j].kind # "weeks"

(* The last block with weeks that waits brings W; without one A is W.      *)
OnTheWay(q, A, W) ==
    /\ \A i \in 1 .. Len(q) : LastWeeks(q, i) => q[i].weeks = W
    /\ (\A i \in 1 .. Len(q) : q[i].kind # "weeks") => A = W

Selected ==
    selectedWeek \in availableWeeks \/ (selectedWeek = Nil /\ availableWeeks = {})

Weekly ==
    /\ totals = OfMonth(dailyUsages, selectedMonth)
    /\ OnTheWay(mainq, availableWeeks, Current)
    /\ Selected

IInv == TypeOK /\ Typed /\ Weekly

-----------------------------------------------------------------------------
(* The calendar.                                                           *)

LEMMA Sevens ==
    ASSUME NEW x \in Nat
    PROVE  /\ x % 7 \in 0..6
           /\ (x - (x % 7)) % 7 = 0
           /\ (x + 7 - (x % 7)) % 7 = 0
OBVIOUS

LEMMA SevensBack ==
    ASSUME NEW x \in Nat, NEW k \in 0..6, x % 7 = k,
           NEW j \in Nat, j <= k + 7, j <= x
    PROVE  (x - j) % 7 = IF j <= k THEN k - j ELSE k - j + 7
OBVIOUS

(* The weekday of a day, of the Mondays next to it and of the days before  *)
(* it, back to the Monday before the last one.                             *)
LEMMA WeekdayOf ==
    ASSUME weekdayOf1 \in 0..6, NEW d \in Int, d >= 1
    PROVE  /\ Weekday(d) \in 0..6
           /\ Weekday(d - Weekday(d)) = 0
           /\ Weekday(d + 7 - Weekday(d)) = 0
           /\ \A e \in Int : 1 <= e /\ e <= d /\ d - e <= Weekday(d) + 7 =>
                Weekday(e) = IF d - e <= Weekday(d) THEN Weekday(d) - (d - e)
                             ELSE Weekday(d) - (d - e) + 7
<1> DEFINE x == d + weekdayOf1 - 1
           k == x % 7
<1>1. x \in Nat
  OBVIOUS
<1>2. Weekday(d) = k
  BY DEF Weekday
<1>3. k \in 0..6 /\ (x - k) % 7 = 0 /\ (x + 7 - k) % 7 = 0
  BY <1>1, Sevens
<1> HIDE DEF k
<1>4. (d - k) + weekdayOf1 - 1 = x - k /\ (d + 7 - k) + weekdayOf1 - 1 = x + 7 - k
  BY <1>3
<1>5. Weekday(d - k) = 0 /\ Weekday(d + 7 - k) = 0
  BY <1>3, <1>4 DEF Weekday
<1>6. ASSUME NEW e \in Int, 1 <= e, e <= d, d - e <= k + 7
      PROVE  Weekday(e) = IF d - e <= k THEN k - (d - e) ELSE k - (d - e) + 7
  <2>1. /\ e + weekdayOf1 - 1 = x - (d - e) /\ d - e \in Nat
        /\ d - e <= x
    BY <1>6
  <2>2. x % 7 = k
    BY DEF k
  <2> DEFINE j == d - e
  <2>3. j \in Nat /\ j <= k + 7 /\ j <= x
    BY <1>6, <2>1
  <2> HIDE DEF x, j
  <2>4. (x - j) % 7 = IF j <= k THEN k - j ELSE k - j + 7
    BY <1>1, <1>3, <2>2, <2>3, SevensBack
  <2>5. QED
    BY <2>1, <2>4 DEF Weekday, j
<1>7. QED
  BY <1>2, <1>3, <1>5, <1>6

(* The place of a weekday in the calendar's week.                          *)
LEMMA WeekMath ==
    ASSUME firstWeekday \in 1..7, NEW k \in 0..6
    PROVE  LET s == (firstWeekday + 5) % 7 IN
           /\ s \in 0..6 /\ (s = 0 <=> firstWeekday = 2)
           /\ (k + 9 - firstWeekday) % 7 = IF k >= s THEN k - s ELSE k - s + 7
           /\ (9 - firstWeekday) % 7 = IF s = 0 THEN 0 ELSE 7 - s
<1> DEFINE f == firstWeekday
<1>1. f = 1 \/ f = 2 \/ f = 3 \/ f = 4 \/ f = 5 \/ f = 6 \/ f = 7
  OBVIOUS
<1>2. k = 0 \/ k = 1 \/ k = 2 \/ k = 3 \/ k = 4 \/ k = 5 \/ k = 6
  OBVIOUS
<1>3. QED
  BY <1>1, <1>2

(* The range of a day starts on the Monday of its calendar week.  The day  *)
(* is in it, but for an early day, which comes before that Monday.         *)
LEMMA RangeOfDay ==
    ASSUME ConstantsAssumption, weekdayOf1 \in 0..6, firstWeekday \in 1..7,
           NEW d \in Days
    PROVE  /\ RangeOf(d) \in Mondays
           /\ RangeOf(d) = IF Early(d) THEN d + 7 - Weekday(d) ELSE d - Weekday(d)
           /\ Early(d) => d \in (RangeOf(d) - 6)..(RangeOf(d) - 1)
           /\ ~Early(d) => InWeek(d, RangeOf(d))
<1>1. d \in Int /\ d >= 1 /\ d <= LastDay /\ LastDay \in Nat
  BY DEF Days, ConstantsAssumption
<1> DEFINE k == Weekday(d)
           s == (firstWeekday + 5) % 7
           a == (k + 9 - firstWeekday) % 7
           b == (9 - firstWeekday) % 7
<1>2. k \in 0..6 /\ Weekday(d - k) = 0 /\ Weekday(d + 7 - k) = 0
  BY <1>1, WeekdayOf
<1>3. RangeOf(d) = d - a + b /\ (Early(d) <=> firstWeekday # 2 /\ k >= s)
  BY DEF RangeOf, WeekStart, Early
<1> HIDE DEF k
<1>4. /\ s \in 0..6 /\ (s = 0 <=> firstWeekday = 2)
      /\ a = IF k >= s THEN k - s ELSE k - s + 7
      /\ b = IF s = 0 THEN 0 ELSE 7 - s
  BY <1>2, WeekMath
<1> HIDE DEF s, a, b
<1>5. RangeOf(d) = IF Early(d) THEN d + 7 - k ELSE d - k
  <2>1. CASE firstWeekday = 2
    BY <1>1, <1>2, <1>3, <1>4, <2>1
  <2>2. CASE firstWeekday # 2 /\ k >= s
    BY <1>1, <1>2, <1>3, <1>4, <2>2
  <2>3. CASE firstWeekday # 2 /\ ~(k >= s)
    BY <1>1, <1>2, <1>3, <1>4, <2>3
  <2>4. QED
    BY <2>1, <2>2, <2>3
<1>6. Early(d) => k # 0
  BY <1>2, <1>3, <1>4
<1>7. RangeOf(d) \in -6..(LastDay + 6) /\ Weekday(RangeOf(d)) = 0
  BY <1>1, <1>2, <1>5, <1>6
<1>8. Early(d) => d \in (RangeOf(d) - 6)..(RangeOf(d) - 1)
  BY <1>1, <1>2, <1>5, <1>6
<1>9. ~Early(d) => InWeek(d, RangeOf(d))
  BY <1>1, <1>2, <1>5 DEF InWeek
<1>10. QED
  BY <1>5, <1>7, <1>8, <1>9 DEF Mondays, k

-----------------------------------------------------------------------------
(* Queues and least elements.                                              *)

LEMMA Rest ==
    ASSUME NEW S, NEW s \in Seq(S), s # <<>>
    PROVE  /\ Tail(s) \in Seq(S) /\ Head(s) = s[1] /\ s[1] \in S
           /\ Len(s) \in Nat \ {0} /\ Len(Tail(s)) = Len(s) - 1
           /\ \A i \in 1 .. Len(s) - 1 : Tail(s)[i] = s[i + 1]
<1>1. Len(s) \in Nat /\ Len(s) # 0
  BY LenProperties, EmptySeq
<1>2. 1 \in 1 .. Len(s)
  BY <1>1
<1>3. QED
  BY <1>1, <1>2, HeadTailProperties, ElementOfSeq

LEMMA OneMore ==
    ASSUME NEW S, NEW s \in Seq(S), NEW e \in S
    PROVE  /\ Append(s, e) \in Seq(S)
           /\ Len(s) \in Nat /\ Len(Append(s, e)) = Len(s) + 1
           /\ \A i \in 1 .. Len(s) : Append(s, e)[i] = s[i]
           /\ Append(s, e)[Len(s) + 1] = e
BY AppendProperties, LenProperties

LEMMA Joined ==
    ASSUME NEW S, NEW s \in Seq(S), NEW t \in Seq(S)
    PROVE  /\ s \o t \in Seq(S)
           /\ Len(s) \in Nat /\ Len(s \o t) \in Nat /\ Len(s) <= Len(s \o t)
           /\ \A i \in 1 .. Len(s) : (s \o t)[i] = s[i]
           /\ \A k \in 1 .. Len(t) :
                /\ Len(s) + k \in 1 .. Len(s \o t) /\ Len(s) + k > Len(s)
                /\ (s \o t)[Len(s) + k] = t[k]
           /\ \A i \in 1 .. Len(s \o t) : i > Len(s) =>
                i - Len(s) \in 1 .. Len(t) /\ (s \o t)[i] = t[i - Len(s)]
<1> DEFINE e == s \o t
           m == Len(s)
           n == Len(t)
<1>1. m \in Nat /\ n \in Nat
  BY LenProperties
<1>2. /\ e \in Seq(S) /\ Len(e) = m + n
      /\ \A i \in 1 .. m + n : e[i] = IF i <= m THEN s[i] ELSE t[i - m]
  BY ConcatProperties
<1> HIDE DEF e, m, n
<1>3. m <= m + n /\ m + n \in Nat /\ \A i \in 1 .. m : i \in 1 .. m + n /\ i <= m
  BY <1>1
<1>4. \A k \in 1 .. n : m + k \in 1 .. m + n /\ m + k > m /\ ~(m + k <= m) /\ (m + k) - m = k
  BY <1>1
<1>5. \A i \in 1 .. m + n : i > m => i - m \in 1 .. n /\ ~(i <= m)
  BY <1>1
<1>6. \A i \in 1 .. m : e[i] = s[i]
  BY <1>2, <1>3
<1>7. \A k \in 1 .. n : e[m + k] = t[k]
  BY <1>2, <1>4
<1>8. \A i \in 1 .. m + n : i > m => e[i] = t[i - m]
  BY <1>2, <1>5
<1>9. QED
  BY <1>1, <1>2, <1>3, <1>4, <1>5, <1>6, <1>7, <1>8, Zenon DEF e, m, n

LEMMA Least ==
    ASSUME NEW S \in SUBSET Nat, S # {}
    PROVE  \E m \in S : \A k \in S : m <= k
<1>1. IsWellFoundedOn(OpToRel(<, Nat), Nat)
  BY NatLessThanWellFounded
<1>2. PICK m \in S : \A k \in S : ~(<<k, m>> \in OpToRel(<, Nat))
  BY <1>1, WFMin
<1>3. \A k \in S : ~(k < m)
  BY <1>2 DEF OpToRel
<1>4. QED
  BY <1>3

LEMMA FirstIsThere ==
    ASSUME ConstantsAssumption, NEW S \in SUBSET Mondays, S # {}
    PROVE  First(S) \in S
<1> DEFINE T == {x + 6 : x \in S}
<1>1. \A x \in S : x \in Int /\ x >= -6 /\ x + 6 \in Nat
  BY DEF Mondays, ConstantsAssumption
<1>2. PICK m \in T : \A k \in T : m <= k
  <2>1. T \in SUBSET Nat /\ T # {}
    BY <1>1
  <2> HIDE DEF T
  <2>2. QED
    BY <2>1, Least
<1>3. PICK x \in S : m = x + 6
  BY <1>2
<1>4. \A y \in S : x <= y
  <2>1. \A y \in S : x + 6 <= y + 6
    BY <1>2, <1>3
  <2>2. QED
    BY <1>1, <2>1
<1>5. (CHOOSE z \in S : \A y \in S : z <= y) \in S
  BY <1>4
<1>6. QED
  BY <1>5 DEF First, Min

LEMMA WeeksAreMondays ==
    ASSUME ConstantsAssumption, weekdayOf1 \in 0..6, firstWeekday \in 1..7,
           NEW days \in SUBSET Days, NEW m
    PROVE  WeeksOf(days, m) \in SUBSET Mondays
BY RangeOfDay DEF WeeksOf, OfMonth

-----------------------------------------------------------------------------
(* Weeks on their way through the queue.                                   *)

LEMMA BlockKinds ==
    /\ \A days \in SUBSET Days : Usages(days) \in Block /\ Usages(days).kind = "usages"
    /\ \A W \in SUBSET Mondays : /\ Weeks(W) \in Block /\ Weeks(W).kind = "weeks"
                                 /\ Weeks(W).weeks = W
    /\ Loaded \in Block /\ Loaded.kind = "loaded"
    /\ \A b \in Block :
         /\ b.kind = "usages" => b.days \in SUBSET Days
         /\ b.kind = "weeks" => b.weeks \in SUBSET Mondays
BY DEF Usages, Weeks, Loaded, Block

LEMMA OnTheWayOthers ==
    ASSUME NEW q \in Seq(Block), NEW t \in Seq(Block), NEW A, NEW W,
           OnTheWay(q, A, W), \A k \in 1 .. Len(t) : t[k].kind # "weeks"
    PROVE  OnTheWay(q \o t, A, W)
<1> DEFINE e == q \o t
<1>1. /\ Len(q) \in Nat /\ Len(e) \in Nat /\ Len(q) <= Len(e)
      /\ \A i \in 1 .. Len(q) : e[i] = q[i]
      /\ \A i \in 1 .. Len(e) : i > Len(q) =>
                i - Len(q) \in 1 .. Len(t) /\ e[i] = t[i - Len(q)]
  BY Joined
<1> HIDE DEF e
<1>2. \A i \in 1 .. Len(q) : i \in 1 .. Len(e)
  BY <1>1
<1>3. \A i \in 1 .. Len(e) : i > Len(q) => e[i].kind # "weeks"
  BY <1>1
<1>4. \A i \in 1 .. Len(e) : i \in 1 .. Len(q) \/ i > Len(q)
  BY <1>1
<1>5. ASSUME NEW i \in 1 .. Len(e), LastWeeks(e, i)
      PROVE  e[i].weeks = W
  <2>1. i \in 1 .. Len(q)
    BY <1>3, <1>4, <1>5 DEF LastWeeks
  <2>2. LastWeeks(q, i)
    BY <1>1, <1>2, <1>5, <2>1 DEF LastWeeks
  <2>3. QED
    BY <1>1, <2>1, <2>2 DEF OnTheWay
<1>6. (\A i \in 1 .. Len(e) : e[i].kind # "weeks") => A = W
  BY <1>1, <1>2 DEF OnTheWay
<1>7. QED
  BY <1>5, <1>6 DEF OnTheWay, e

LEMMA OnTheWayWeeks ==
    ASSUME NEW q \in Seq(Block), NEW A, NEW W \in SUBSET Mondays
    PROVE  OnTheWay(Append(q, Weeks(W)), A, W)
<1> DEFINE b == Weeks(W)
           e == Append(q, b)
<1>1. b \in Block /\ b.kind = "weeks" /\ b.weeks = W
  BY BlockKinds
<1> HIDE DEF b
<1>2. /\ Len(q) \in Nat /\ Len(e) = Len(q) + 1
      /\ e[Len(q) + 1] = b
  BY <1>1, OneMore
<1> HIDE DEF e
<1>3. Len(e) \in 1 .. Len(e) /\ e[Len(e)] = b
  BY <1>2
<1>4. ASSUME NEW i \in 1 .. Len(e), LastWeeks(e, i)
      PROVE  e[i].weeks = W
  <2>1. ~(Len(e) > i)
    BY <1>1, <1>3, <1>4 DEF LastWeeks
  <2>2. i = Len(e)
    BY <1>2, <2>1
  <2>3. QED
    BY <1>1, <1>3, <2>2
<1>5. QED
  BY <1>1, <1>3, <1>4 DEF OnTheWay, e, b

(* The first block is run; weeks replace what is on offer.                 *)
LEMMA OnTheWayTail ==
    ASSUME NEW q \in Seq(Block), q # <<>>, NEW A, NEW B, NEW W, OnTheWay(q, A, W),
           IF Head(q).kind = "weeks" THEN B = Head(q).weeks ELSE B = A
    PROVE  OnTheWay(Tail(q), B, W)
<1> DEFINE t == Tail(q)
<1>1. /\ Head(q) = q[1] /\ Len(q) \in Nat \ {0} /\ Len(t) = Len(q) - 1
      /\ \A i \in 1 .. Len(q) - 1 : t[i] = q[i + 1]
  BY Rest
<1> HIDE DEF t
<1>2. \A i \in 1 .. Len(t) : i + 1 \in 1 .. Len(q) /\ t[i] = q[i + 1]
  BY <1>1
<1>3. \A j \in 1 .. Len(q) : j = 1 \/ (j - 1 \in 1 .. Len(t) /\ q[j] = t[j - 1])
  BY <1>1
<1>4. 1 \in 1 .. Len(q)
  BY <1>1
<1>5. ASSUME NEW i \in 1 .. Len(t), LastWeeks(t, i)
      PROVE  t[i].weeks = W
  <2>1. ASSUME NEW j \in 1 .. Len(q), j > i + 1
        PROVE  q[j].kind # "weeks"
    <3>1. j # 1 /\ j - 1 > i
      BY <2>1
    <3>2. QED
      BY <1>3, <1>5, <3>1 DEF LastWeeks
  <2>2. LastWeeks(q, i + 1)
    BY <1>2, <1>5, <2>1 DEF LastWeeks
  <2>3. QED
    BY <1>2, <2>2 DEF OnTheWay
<1>6. ASSUME \A i \in 1 .. Len(t) : t[i].kind # "weeks"
      PROVE  B = W
  <2>1. \A j \in 1 .. Len(q) : j > 1 => q[j].kind # "weeks"
    BY <1>3, <1>6
  <2>2. CASE q[1].kind = "weeks"
    BY <1>1, <1>4, <2>1, <2>2 DEF OnTheWay, LastWeeks
  <2>3. CASE q[1].kind # "weeks"
    <3>1. \A j \in 1 .. Len(q) : q[j].kind # "weeks"
      BY <1>3, <1>6, <2>3
    <3>2. QED
      BY <1>1, <2>3, <3>1 DEF OnTheWay
  <2>4. QED
    BY <2>2, <2>3
<1>7. QED
  BY <1>5, <1>6 DEF OnTheWay, t

-----------------------------------------------------------------------------
(* What a step leaves alone.                                               *)

LEMMA CalendarFrame ==
    ASSUME UNCHANGED calendar
    PROVE  /\ Mondays' = Mondays
           /\ \A days, m : WeeksOf(days, m)' = WeeksOf(days, m)
<1>1. \A d : Weekday(d)' = Weekday(d)
  BY DEF Weekday, calendar
<1>2. \A d : RangeOf(d)' = RangeOf(d)
  BY <1>1 DEF RangeOf, WeekStart, calendar
<1>3. QED
  BY <1>1, <1>2 DEF Mondays, WeeksOf

LEMMA BlockFrame ==
    ASSUME UNCHANGED calendar
    PROVE  Block' = Block
BY CalendarFrame DEF Block, Loaded

LEMMA WeeklyFrame ==
    ASSUME Weekly, UNCHANGED <<calendar, dailyUsages, selectedMonth, weekVars, totals>>,
           OnTheWay(mainq', availableWeeks, Current)
    PROVE  Weekly'
<1>1. Current' = Current
  BY CalendarFrame DEF Current, WeeksOf, RangeOf, WeekStart, Weekday, calendar
<1>2. OnTheWay(mainq, availableWeeks, Current)'
  BY <1>1 DEF weekVars, OnTheWay, LastWeeks
<1>3. QED
  BY <1>2 DEF Weekly, Selected, weekVars

LEMMA BumpType ==
    ASSUME used \in [Counters -> Nat], NEW k \in Counters, Bump(k)
    PROVE  used' \in [Counters -> Nat]
BY DEF Bump

LEMMA InitInv ==
    ASSUME ConstantsAssumption, Init
    PROVE  IInv
<1>1. mainq \in Seq(Block) /\ Len(mainq) = 0
  BY EmptySeq DEF Init
<1>2. DOMAIN mainq = 1 .. Len(mainq)
  BY <1>1, LenProperties
<1>3. Month(Today) \in Months /\ Today \in Days
  BY DEF Months, Days, ConstantsAssumption
<1>4. TypeOK
  BY <1>1, <1>2, <1>3 DEF Init, TypeOK, ConstantsAssumption, Days
<1>5. Typed
  BY <1>1 DEF Init, Typed, ConstantsAssumption
<1>6. Weekly
  <2>1. OfMonth(dailyUsages, selectedMonth) = {}
    BY DEF Init, OfMonth
  <2>2. Current = {}
    BY <2>1 DEF Current, WeeksOf
  <2>3. QED
    BY <1>1, <2>1, <2>2 DEF Init, Weekly, OnTheWay, Selected
<1>7. QED
  BY <1>4, <1>5, <1>6 DEF IInv

-----------------------------------------------------------------------------
(* One lemma for each action.                                              *)

LEMMA AppearStep ==
    ASSUME ConstantsAssumption, IInv, Appear
    PROVE  IInv'
<1>1. UNCHANGED <<calendar, stored, cache, hourVars, mainq, dailyUsages,
                  selectedMonth, weekVars, totals, viewVars>>
      /\ isLoading' = TRUE /\ loads' = loads + 1
  BY DEF Appear
<1>2. used' \in [Counters -> Nat]
  BY BumpType DEF Appear, IInv, Typed, Counters
<1>3. Mondays' = Mondays /\ Block' = Block
  BY <1>1, CalendarFrame, BlockFrame
<1>loads. loads' \in Nat
  <2>1. loads \in Nat
    BY DEF IInv, TypeOK
  <2>2. QED
    BY <1>1, <2>1
<1>4. TypeOK'
  BY <1>1, <1>3, <1>loads DEF IInv, TypeOK, hourVars, weekVars, viewVars
<1>5. Typed'
  BY <1>1, <1>2, <1>3 DEF IInv, Typed, calendar
<1>6. Weekly'
  BY <1>1, WeeklyFrame DEF IInv, Weekly
<1>7. QED
  BY <1>4, <1>5, <1>6 DEF IInv

LEMMA ControllerAddsStep ==
    ASSUME ConstantsAssumption, IInv, ControllerAdds
    PROVE  IInv'
<1>1. UNCHANGED <<calendar, cache, loads, hourVars, mainq, isLoading,
                  dailyUsages, selectedMonth, weekVars, totals, viewVars, used>>
      /\ stored' = stored \cup {Today}
  BY DEF ControllerAdds
<1>2. Today \in Days
  BY DEF Days, ConstantsAssumption
<1>3. Mondays' = Mondays /\ Block' = Block
  BY <1>1, CalendarFrame, BlockFrame
<1>4. TypeOK'
  BY <1>1, <1>2, <1>3 DEF IInv, TypeOK, hourVars, weekVars, viewVars
<1>5. Typed'
  BY <1>1, <1>3 DEF IInv, Typed, calendar
<1>6. Weekly'
  BY <1>1, WeeklyFrame DEF IInv, Weekly
<1>7. QED
  BY <1>4, <1>5, <1>6 DEF IInv

(* A get is answered with some days or with none.                          *)
LEMMA AnswerStep ==
    ASSUME ConstantsAssumption, IInv, NEW days \in SUBSET Days, Answer(days),
           cache' \subseteq stored, used' \in [Counters -> Nat]
    PROVE  IInv'
<1> DEFINE t == IF days = {} THEN <<Loaded>> ELSE <<Loaded, Usages(days)>>
<1>1. UNCHANGED <<calendar, stored, hourVars, isLoading, dailyUsages,
                  selectedMonth, weekVars, totals, viewVars>>
      /\ loads > 0 /\ loads' = loads - 1 /\ mainq' = mainq \o t
  BY DEF Answer
<1>2. t \in Seq(Block) /\ \A k \in 1 .. Len(t) : t[k].kind # "weeks"
  <2>1. /\ Loaded \in Block /\ Loaded.kind = "loaded"
        /\ Usages(days) \in Block /\ Usages(days).kind = "usages"
    BY BlockKinds
  <2>2. CASE days = {}
    BY <2>1, <2>2
  <2>3. CASE days # {}
    BY <2>1, <2>3
  <2>4. QED
    BY <2>2, <2>3
<1>3. mainq \in Seq(Block) /\ OnTheWay(mainq, availableWeeks, Current)
  BY DEF IInv, Typed, Weekly
<1> HIDE DEF t
<1>4. OnTheWay(mainq', availableWeeks, Current)
  BY <1>1, <1>2, <1>3, OnTheWayOthers
<1>5. mainq' \in Seq(Block)
  BY <1>1, <1>2, <1>3, Joined
<1>6. Mondays' = Mondays /\ Block' = Block
  BY <1>1, CalendarFrame, BlockFrame
<1>7. \A i \in DOMAIN mainq' : mainq'[i] \in Block
  BY <1>5, LenProperties, ElementOfSeq
<1>loads. loads' \in Nat
  <2>1. loads \in Nat
    BY DEF IInv, TypeOK
  <2>2. QED
    BY <1>1, <2>1
<1>8. TypeOK'
  BY <1>1, <1>6, <1>7, <1>loads DEF IInv, TypeOK, hourVars, weekVars, viewVars
<1>9. Typed'
  BY <1>1, <1>5, <1>6 DEF IInv, Typed, calendar
<1>10. Weekly'
  BY <1>1, <1>4, WeeklyFrame DEF IInv
<1>11. QED
  BY <1>8, <1>9, <1>10 DEF IInv

LEMMA LoadStep ==
    ASSUME ConstantsAssumption, IInv, Load
    PROVE  IInv'
<1>1. stored \in SUBSET Days /\ cache \in SUBSET Days /\ cache \subseteq stored
      /\ used \in [Counters -> Nat] /\ {} \in SUBSET Days
  BY DEF IInv, TypeOK, Typed
<1>2. CASE LoadFromServer
  BY <1>1, <1>2, AnswerStep DEF LoadFromServer
<1>3. CASE LoadFromCache
  BY <1>1, <1>3, AnswerStep DEF LoadFromCache
<1>4. CASE LoadFails
  <2>1. used' \in [Counters -> Nat]
    BY <1>1, <1>4, BumpType DEF LoadFails, Counters
  <2>2. QED
    BY <1>1, <1>4, <2>1, AnswerStep DEF LoadFails
<1>5. QED
  BY <1>2, <1>3, <1>4 DEF Load

(* The first block leaves the queue. *)
LEMMA Taken ==
    ASSUME IInv, mainq # <<>>, mainq' = Tail(mainq)
    PROVE  /\ mainq' \in Seq(Block) /\ Head(mainq) \in Block
           /\ \A i \in DOMAIN mainq' : mainq'[i] \in Block
<1>1. mainq \in Seq(Block)
  BY DEF IInv, Typed
<1>2. mainq' \in Seq(Block) /\ Head(mainq) \in Block
  BY <1>1, Rest
<1>3. QED
  BY <1>2, LenProperties, ElementOfSeq

LEMMA RunLoadedStep ==
    ASSUME ConstantsAssumption, IInv, RunLoaded
    PROVE  IInv'
<1>1. UNCHANGED <<calendar, stored, cache, loads, hourVars, dailyUsages,
                  selectedMonth, weekVars, totals, viewVars, used>>
      /\ isLoading' = FALSE
  BY DEF RunLoaded
<1>2. mainq # <<>> /\ mainq' = Tail(mainq) /\ Head(mainq).kind = "loaded"
  BY DEF RunLoaded
<1>3. mainq \in Seq(Block) /\ OnTheWay(mainq, availableWeeks, Current)
  BY DEF IInv, Typed, Weekly
<1>4. OnTheWay(mainq', availableWeeks, Current)
  BY <1>2, <1>3, OnTheWayTail
<1>5. mainq' \in Seq(Block) /\ \A i \in DOMAIN mainq' : mainq'[i] \in Block
  BY <1>2, Taken
<1>6. Mondays' = Mondays /\ Block' = Block
  BY <1>1, CalendarFrame, BlockFrame
<1>7. TypeOK'
  BY <1>1, <1>5, <1>6 DEF IInv, TypeOK, hourVars, weekVars, viewVars
<1>8. Typed'
  BY <1>1, <1>5, <1>6 DEF IInv, Typed, calendar
<1>9. Weekly'
  BY <1>1, <1>4, WeeklyFrame DEF IInv
<1>10. QED
  BY <1>7, <1>8, <1>9 DEF IInv

(* New days or a new month: their weeks are put at the end of the queue.   *)
LEMMA ComputeStep ==
    ASSUME ConstantsAssumption, IInv, NEW q \in Seq(Block),
           Compute(q, dailyUsages', selectedMonth'),
           dailyUsages' \in SUBSET Days, selectedMonth' \in Months,
           UNCHANGED <<calendar, stored, cache, loads, hourVars, isLoading,
                       weekVars, viewVars>>,
           used' \in [Counters -> Nat]
    PROVE  IInv'
<1> DEFINE W == WeeksOf(dailyUsages', selectedMonth')
<1>1. mainq' = Append(q, Weeks(W)) /\ totals' = OfMonth(dailyUsages', selectedMonth')
  BY DEF Compute
<1>2. W \in SUBSET Mondays
  BY WeeksAreMondays DEF IInv, Typed
<1>3. totals' \in SUBSET Days
  BY <1>1 DEF OfMonth
<1>4. Current' = W
  BY CalendarFrame DEF Current, WeeksOf, RangeOf, WeekStart, Weekday, calendar
<1> HIDE DEF W
<1>5. Weeks(W) \in Block
  BY <1>2, BlockKinds
<1>6. mainq' \in Seq(Block)
  BY <1>1, <1>5, OneMore
<1>7. \A i \in DOMAIN mainq' : mainq'[i] \in Block
  BY <1>6, LenProperties, ElementOfSeq
<1>8. OnTheWay(mainq', availableWeeks', W)
  BY <1>1, <1>2, OnTheWayWeeks
<1>9. Mondays' = Mondays /\ Block' = Block
  BY CalendarFrame, BlockFrame
<1>10. TypeOK'
  BY <1>3, <1>7, <1>9 DEF IInv, TypeOK, hourVars, weekVars, viewVars
<1>11. Typed'
  BY <1>6, <1>9 DEF IInv, Typed, calendar
<1>12. Weekly'
  <2>1. OnTheWay(mainq, availableWeeks, Current)'
    BY <1>4, <1>8 DEF OnTheWay, LastWeeks
  <2>2. (totals = OfMonth(dailyUsages, selectedMonth))'
    BY <1>1 DEF OfMonth, Month
  <2>3. QED
    BY <2>1, <2>2 DEF IInv, Weekly, Selected, weekVars
<1>13. QED
  BY <1>10, <1>11, <1>12 DEF IInv

LEMMA RunUsagesStep ==
    ASSUME ConstantsAssumption, IInv, RunUsages
    PROVE  IInv'
<1>1. UNCHANGED <<calendar, stored, cache, loads, hourVars, isLoading,
                  selectedMonth, weekVars, viewVars, used>>
      /\ dailyUsages' = Head(mainq).days
      /\ Compute(Tail(mainq), dailyUsages', selectedMonth)
  BY DEF RunUsages
<1>2. mainq # <<>> /\ Head(mainq).kind = "usages"
  BY DEF RunUsages
<1>3. Tail(mainq) \in Seq(Block) /\ Head(mainq) \in Block
  BY <1>2, Rest DEF IInv, Typed
<1>4. dailyUsages' \in SUBSET Days
  BY <1>1, <1>2, <1>3, BlockKinds
<1>5. selectedMonth' \in Months /\ used' \in [Counters -> Nat]
  BY <1>1 DEF IInv, TypeOK, Typed
<1>6. Compute(Tail(mainq), dailyUsages', selectedMonth')
  BY <1>1
<1>7. QED
  BY <1>1, <1>3, <1>4, <1>5, <1>6, ComputeStep

LEMMA SelectMonthStep ==
    ASSUME ConstantsAssumption, IInv, NEW m \in Months, SelectMonth(m)
    PROVE  IInv'
<1>1. UNCHANGED <<calendar, stored, cache, loads, hourVars, isLoading,
                  dailyUsages, weekVars, viewVars>>
      /\ selectedMonth' = m /\ Compute(mainq, dailyUsages, m)
  BY DEF SelectMonth
<1>2. used' \in [Counters -> Nat]
  BY BumpType DEF SelectMonth, IInv, Typed, Counters
<1>3. mainq \in Seq(Block) /\ dailyUsages' \in SUBSET Days
  BY <1>1 DEF IInv, TypeOK, Typed
<1>4. Compute(mainq, dailyUsages', selectedMonth')
  BY <1>1
<1>5. QED
  BY <1>1, <1>2, <1>3, <1>4, ComputeStep

LEMMA RunWeeksStep ==
    ASSUME ConstantsAssumption, IInv, RunWeeks
    PROVE  IInv'
<1> DEFINE W == Head(mainq).weeks
<1>1. UNCHANGED <<calendar, stored, cache, loads, hourVars, isLoading,
                  dailyUsages, selectedMonth, totals, viewVars, used>>
      /\ availableWeeks' = W
      /\ selectedWeek' = IF selectedWeek \in W THEN selectedWeek ELSE First(W)
  BY DEF RunWeeks
<1>2. mainq # <<>> /\ mainq' = Tail(mainq) /\ Head(mainq).kind = "weeks"
  BY DEF RunWeeks
<1>3. mainq \in Seq(Block) /\ OnTheWay(mainq, availableWeeks, Current)
  BY DEF IInv, Typed, Weekly
<1>4. W \in SUBSET Mondays
  BY <1>2, Taken, BlockKinds
<1>5. OnTheWay(mainq', W, Current)
  BY <1>2, <1>3, OnTheWayTail
<1>6. mainq' \in Seq(Block) /\ \A i \in DOMAIN mainq' : mainq'[i] \in Block
  BY <1>2, Taken
<1> HIDE DEF W
<1>7. selectedWeek' \in W \/ (selectedWeek' = Nil /\ W = {})
  <2>1. CASE W = {}
    BY <1>1, <2>1 DEF First
  <2>2. CASE W # {}
    BY <1>1, <1>4, <2>2, FirstIsThere
  <2>3. QED
    BY <2>1, <2>2
<1>8. Mondays' = Mondays /\ Block' = Block
  BY <1>1, CalendarFrame, BlockFrame
<1>9. TypeOK'
  BY <1>1, <1>4, <1>6, <1>7, <1>8 DEF IInv, TypeOK, hourVars, viewVars
<1>10. Typed'
  BY <1>1, <1>6, <1>8 DEF IInv, Typed, calendar
<1>11. Current' = Current
  BY <1>1, CalendarFrame DEF Current, WeeksOf, RangeOf, WeekStart, Weekday, calendar
<1>12. OnTheWay(mainq, availableWeeks, Current)'
  BY <1>1, <1>5, <1>11 DEF OnTheWay, LastWeeks
<1>13. Weekly'
  BY <1>1, <1>7, <1>12 DEF IInv, Weekly, Selected
<1>14. QED
  BY <1>9, <1>10, <1>13 DEF IInv

LEMMA SelectWeekStep ==
    ASSUME ConstantsAssumption, IInv, NEW w \in availableWeeks, SelectWeek(w)
    PROVE  IInv'
<1>1. UNCHANGED <<calendar, stored, cache, loads, hourVars, mainq, isLoading,
                  dailyUsages, selectedMonth, availableWeeks, totals, viewVars, used>>
      /\ selectedWeek' = w
  BY DEF SelectWeek
<1>2. Mondays' = Mondays /\ Block' = Block
  BY <1>1, CalendarFrame, BlockFrame
<1>3. TypeOK'
  BY <1>1, <1>2 DEF IInv, TypeOK, hourVars, viewVars
<1>4. Typed'
  BY <1>1, <1>2 DEF IInv, Typed, calendar
<1>5. Current' = Current
  BY <1>1, CalendarFrame DEF Current, WeeksOf, RangeOf, WeekStart, Weekday, calendar
<1>6. Weekly'
  BY <1>1, <1>5 DEF IInv, Weekly, Selected, OnTheWay, LastWeeks
<1>7. QED
  BY <1>3, <1>4, <1>6 DEF IInv

LEMMA RedrawStep ==
    ASSUME ConstantsAssumption, IInv, Redraw
    PROVE  IInv'
<1>1. UNCHANGED <<calendar, stored, cache, loads, hourVars, mainq, isLoading,
                  dailyUsages, selectedMonth, weekVars, totals, chartType, used>>
  BY DEF Redraw
<1>2. selectedDate' \in Days
  BY DEF Redraw, IInv, TypeOK, Days, ConstantsAssumption
<1>3. drawn' \in {"progress", "no data", "daily", "hourly"}
  BY DEF Redraw, Body, IInv, TypeOK
<1>4. Mondays' = Mondays /\ Block' = Block
  BY <1>1, CalendarFrame, BlockFrame
<1>5. TypeOK'
  BY <1>1, <1>2, <1>3, <1>4 DEF IInv, TypeOK, hourVars, weekVars
<1>6. Typed'
  BY <1>1, <1>4 DEF IInv, Typed, calendar
<1>7. Weekly'
  BY <1>1, WeeklyFrame DEF IInv, Weekly
<1>8. QED
  BY <1>5, <1>6, <1>7 DEF IInv

(* A step that only concerns the hourly chart.                             *)
LEMMA HourStep ==
    ASSUME ConstantsAssumption, IInv,
           UNCHANGED <<calendar, stored, cache, loads, mainq, isLoading, dailyUsages,
                       selectedMonth, weekVars, totals, drawn>>,
           hourlyAsked' \subseteq [id : 1..MaxHourly, day : Days],
           hourlyUsage' \in Days \cup {0},
           chartType' \in {"daily", "hourly"}, selectedDate' \in Days,
           used' \in [Counters -> Nat]
    PROVE  IInv'
<1>1. Mondays' = Mondays /\ Block' = Block
  BY CalendarFrame, BlockFrame
<1>2. TypeOK'
  BY <1>1 DEF IInv, TypeOK, weekVars
<1>3. Typed'
  BY <1>1 DEF IInv, Typed, calendar
<1>4. Weekly'
  BY WeeklyFrame DEF IInv, Weekly
<1>5. QED
  BY <1>2, <1>3, <1>4 DEF IInv

LEMMA FetchHourlyUsageType ==
    ASSUME ConstantsAssumption, IInv, NEW d \in Days, FetchHourlyUsage(d)
    PROVE  /\ hourlyAsked' \subseteq [id : 1..MaxHourly, day : Days]
           /\ used' \in [Counters -> Nat]
<1>1. used["hourly"] \in Nat /\ used["hourly"] < MaxHourly /\ MaxHourly \in Nat
  BY DEF IInv, Typed, Counters, FetchHourlyUsage, ConstantsAssumption
<1>2. used["hourly"] + 1 \in 1..MaxHourly
  BY <1>1
<1>3. used' \in [Counters -> Nat]
  BY BumpType DEF FetchHourlyUsage, IInv, Typed, Counters
<1>4. hourlyAsked' = hourlyAsked \cup {[id |-> used["hourly"] + 1, day |-> d]}
      /\ hourlyAsked \subseteq [id : 1..MaxHourly, day : Days]
  BY DEF FetchHourlyUsage, IInv, TypeOK
<1>5. QED
  BY <1>2, <1>3, <1>4

LEMMA SelectChartStep ==
    ASSUME ConstantsAssumption, IInv, NEW k \in {"daily", "hourly"}, SelectChart(k)
    PROVE  IInv'
<1>1. UNCHANGED <<calendar, stored, cache, loads, hourlyUsage, mainq, isLoading,
                  dailyUsages, selectedMonth, weekVars, totals, drawn, selectedDate>>
      /\ chartType' = k
  BY DEF SelectChart
<1>2. Today \in Days
  BY DEF Days, ConstantsAssumption
<1>3. /\ hourlyAsked' \subseteq [id : 1..MaxHourly, day : Days]
      /\ used' \in [Counters -> Nat]
  BY <1>2, FetchHourlyUsageType DEF SelectChart, IInv, TypeOK, Typed
<1>4. hourlyUsage' \in Days \cup {0} /\ selectedDate' \in Days
  BY <1>1 DEF IInv, TypeOK
<1>5. QED
  BY <1>1, <1>3, <1>4, HourStep

LEMMA PickDateStep ==
    ASSUME ConstantsAssumption, IInv, NEW d \in Days, PickDate(d)
    PROVE  IInv'
<1>1. UNCHANGED <<calendar, stored, cache, loads, hourlyUsage, mainq, isLoading,
                  dailyUsages, selectedMonth, weekVars, totals, chartType, drawn>>
      /\ selectedDate' = d /\ FetchHourlyUsage(d)
  BY DEF PickDate
<1>2. hourlyUsage' \in Days \cup {0} /\ chartType' \in {"daily", "hourly"}
  BY <1>1 DEF IInv, TypeOK
<1>3. QED
  BY <1>1, <1>2, FetchHourlyUsageType, HourStep

LEMMA HourlyFailsStep ==
    ASSUME ConstantsAssumption, IInv, NEW r \in hourlyAsked, HourlyFails(r)
    PROVE  IInv'
<1>1. UNCHANGED <<calendar, stored, cache, loads, hourlyUsage, mainq, isLoading,
                  dailyUsages, selectedMonth, weekVars, totals, viewVars>>
      /\ hourlyAsked' = hourlyAsked \ {r}
  BY DEF HourlyFails
<1>2. used' \in [Counters -> Nat]
  BY BumpType DEF HourlyFails, IInv, Typed, Counters
<1>3. /\ hourlyAsked' \subseteq [id : 1..MaxHourly, day : Days]
      /\ hourlyUsage' \in Days \cup {0}
      /\ chartType' \in {"daily", "hourly"} /\ selectedDate' \in Days
  BY <1>1 DEF IInv, TypeOK, viewVars
<1>4. QED
  BY <1>1, <1>2, <1>3, HourStep DEF viewVars

LEMMA HourlyAnsweredStep ==
    ASSUME ConstantsAssumption, IInv, NEW r \in hourlyAsked, HourlyAnswered(r)
    PROVE  IInv'
<1>1. UNCHANGED <<calendar, stored, cache, loads, mainq, isLoading, dailyUsages,
                  selectedMonth, weekVars, totals, viewVars, used>>
      /\ hourlyAsked' = hourlyAsked \ {r} /\ hourlyUsage' = r.day
  BY DEF HourlyAnswered
<1>2. r.day \in Days
  BY DEF IInv, TypeOK
<1>3. /\ hourlyAsked' \subseteq [id : 1..MaxHourly, day : Days]
      /\ hourlyUsage' \in Days \cup {0}
      /\ chartType' \in {"daily", "hourly"} /\ selectedDate' \in Days
      /\ used' \in [Counters -> Nat]
  BY <1>1, <1>2 DEF IInv, TypeOK, Typed, viewVars
<1>4. QED
  BY <1>1, <1>3, HourStep DEF viewVars

LEMMA StutterStep ==
    ASSUME ConstantsAssumption, IInv, UNCHANGED vars
    PROVE  IInv'
<1>1. UNCHANGED <<calendar, stored, cache, loads, mainq, isLoading, dailyUsages,
                  selectedMonth, weekVars, totals, drawn>>
  BY DEF vars, calendar, weekVars
<1>2. /\ hourlyAsked' \subseteq [id : 1..MaxHourly, day : Days]
      /\ hourlyUsage' \in Days \cup {0}
      /\ chartType' \in {"daily", "hourly"} /\ selectedDate' \in Days
      /\ used' \in [Counters -> Nat]
  BY DEF IInv, TypeOK, Typed, vars
<1>3. QED
  BY <1>1, <1>2, HourStep

LEMMA StepInv ==
    ASSUME ConstantsAssumption, IInv, [Next]_vars
    PROVE  IInv'
<1>1. CASE RunBlock
  BY <1>1, RunLoadedStep, RunUsagesStep, RunWeeksStep DEF RunBlock
<1>2. CASE Hour
  BY <1>2, HourlyAnsweredStep, HourlyFailsStep DEF Hour
<1>3. CASE Next
  BY <1>1, <1>2, <1>3, AppearStep, LoadStep, RedrawStep, ControllerAddsStep,
     PickDateStep, SelectMonthStep, SelectWeekStep, SelectChartStep DEF Next
<1>4. QED
  BY <1>3, StutterStep

-----------------------------------------------------------------------------
(* The invariant holds in every behaviour.                                 *)
THEOREM Invariance == Spec => []IInv
<1>1. Init => IInv
  BY ConstantsAssumption, InitInv
<1>2. IInv /\ [Next]_vars => IInv'
  BY ConstantsAssumption, StepInv
<1>3. QED
  BY <1>1, <1>2, PTL DEF Spec

(* Every variable has its type: in every calendar a week range that is     *)
(* offered or chosen starts on a Monday.                                   *)
THEOREM TypeCorrect == Spec => []TypeOK
<1>1. IInv => TypeOK
  BY DEF IInv
<1>2. QED
  BY <1>1, Invariance, PTL

(* However loads, choices of month and the published weeks overlap, the    *)
(* totals are those of the month and days on the screen, and so are the    *)
(* weeks once none is waiting to be published.                             *)
THEOREM InStepHolds == Spec => []InStep
<1>1. ASSUME IInv PROVE InStep
  <2>1. DOMAIN mainq = 1 .. Len(mainq)
    BY <1>1, LenProperties DEF IInv, Typed
  <2>2. WeeksSettled => availableWeeks = Current
    BY <1>1, <2>1 DEF IInv, Weekly, OnTheWay, WeeksSettled
  <2>3. QED
    BY <1>1, <2>2 DEF IInv, Weekly, Selected, InStep, Current
<1>2. QED
  BY <1>1, Invariance, PTL

(* An early day is in the range of every day of the week before it.        *)
LEMMA EarlySeen ==
    ASSUME ConstantsAssumption, weekdayOf1 \in 0..6, firstWeekday \in 1..7,
           NEW d \in Days, Early(d), NEW e \in Days, e \in WeekBefore(d)
    PROVE  InWeek(d, RangeOf(e))
<1>1. d \in Int /\ e \in Int /\ 1 <= d /\ 1 <= e
  BY DEF Days, ConstantsAssumption
<1> DEFINE k == Weekday(d)
           s == (firstWeekday + 5) % 7
           a == (k + 9 - firstWeekday) % 7
           l == Weekday(e)
<1>2. k \in 0..6 /\ l \in 0..6
  BY <1>1, WeekdayOf
<1>3. s \in 1..6 /\ k >= s /\ a = k - s
  BY <1>2, WeekMath DEF Early
<1>4. d - a - 7 <= e /\ e <= d - a - 1
  BY <1>1, <1>2, <1>3 DEF WeekBefore, WeekStart
<1>5. e <= d /\ d - e <= k + 7
  <2> HIDE DEF k, s, a
  <2>1. QED
    BY <1>1, <1>2, <1>3, <1>4
<1>6. l = IF d - e <= k THEN k - (d - e) ELSE k - (d - e) + 7
  BY <1>1, <1>5, WeekdayOf
<1>7. /\ RangeOf(e) = IF Early(e) THEN e + 7 - l ELSE e - l
      /\ Early(e) <=> (firstWeekday # 2 /\ l >= s)
  BY RangeOfDay DEF Early
<1>8. firstWeekday # 2
  BY DEF Early
<1> HIDE DEF k, s, a, l
<1>9. RangeOf(e) = d - k
  <2>1. CASE d - e <= k
    BY <1>1, <1>2, <1>3, <1>4, <1>6, <1>7, <2>1
  <2>2. CASE ~(d - e <= k)
    BY <1>1, <1>2, <1>3, <1>4, <1>6, <1>7, <1>8, <2>2
  <2>3. QED
    BY <2>1, <2>2
<1>10. QED
  BY <1>1, <1>2, <1>9 DEF InWeek

(* Whatever day weeks start on, every day of the month can be seen and no  *)
(* chosen week is empty, but for the days between the first day of the     *)
(* week and its Monday: the calendar's week decides which range is made,   *)
(* the range from Monday to Sunday which days                              *)
(* getFilteredUsageForSelectedWeek shows.                                  *)
THEOREM EveryDaySeenHolds == Spec => []EveryDaySeen
<1>1. ASSUME IInv PROVE EveryDaySeen
  <2>1. DOMAIN mainq = 1 .. Len(mainq)
    BY <1>1, LenProperties DEF IInv, Typed
  <2>2. WeeksSettled => availableWeeks = Current
    BY <1>1, <2>1 DEF IInv, Weekly, OnTheWay, WeeksSettled
  <2>3. weekdayOf1 \in 0..6 /\ firstWeekday \in 1..7 /\ dailyUsages \in SUBSET Days
    BY <1>1 DEF IInv, Typed, TypeOK
  <2>4. ASSUME availableWeeks = Current, NEW d \in OfMonth(dailyUsages, selectedMonth)
        PROVE  \/ \E w \in availableWeeks : InWeek(d, w)
               \/ /\ Early(d)
                  /\ OfMonth(dailyUsages, selectedMonth) \cap WeekBefore(d) = {}
    <3>1. d \in Days /\ RangeOf(d) \in availableWeeks
      BY <2>3, <2>4 DEF OfMonth, Current, WeeksOf
    <3>2. CASE ~Early(d)
      BY <2>3, <3>1, <3>2, ConstantsAssumption, RangeOfDay
    <3>3. CASE Early(d)
      <4>1. ASSUME NEW e \in OfMonth(dailyUsages, selectedMonth), e \in WeekBefore(d)
            PROVE  \E w \in availableWeeks : InWeek(d, w)
        <5>1. e \in Days /\ RangeOf(e) \in availableWeeks
          BY <2>3, <2>4 DEF OfMonth, Current, WeeksOf
        <5>2. InWeek(d, RangeOf(e))
          BY <2>3, <3>1, <3>3, <4>1, <5>1, ConstantsAssumption, EarlySeen
        <5>3. QED
          BY <5>1, <5>2
      <4>2. QED
        BY <3>3, <4>1
    <3>4. QED
      BY <3>2, <3>3
  <2>5. ASSUME availableWeeks = Current, selectedWeek # Nil, FilteredUsage = {}
        PROVE  \E d \in dailyUsages :
                 Early(d) /\ d \in (selectedWeek - 6)..(selectedWeek - 1)
    <3>1. selectedWeek \in Current
      BY <1>1, <2>5 DEF IInv, Weekly, Selected
    <3>2. PICK d \in OfMonth(dailyUsages, selectedMonth) : selectedWeek = RangeOf(d)
      BY <3>1 DEF Current, WeeksOf
    <3>3. d \in dailyUsages /\ d \in Days /\ d \in Int
      BY <2>3, <3>2 DEF OfMonth, Days, ConstantsAssumption
    <3>4. ~InWeek(d, selectedWeek)
      BY <2>5, <3>3 DEF FilteredUsage
    <3>5. Early(d) /\ d \in (selectedWeek - 6)..(selectedWeek - 1)
      BY <2>3, <3>2, <3>3, <3>4, ConstantsAssumption, RangeOfDay
    <3>6. QED
      BY <3>3, <3>5
  <2>6. QED
    BY <2>2, <2>4, <2>5 DEF EveryDaySeen
<1>2. QED
  BY <1>1, Invariance, PTL

=============================================================================
