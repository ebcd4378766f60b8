--------------------------- MODULE PredictionProofs ---------------------------
(***************************************************************************)
(* Theorems about Prediction, for any stored days, any calendar's length   *)
(* of the year and week rules, and any number of appearances, requests and *)
(* failures: type correctness, chains that settle, the only way in which a *)
(* range is longer than a week, and the notifications.                     *)
(***************************************************************************)
EXTENDS Prediction, FiniteSetTheorems, WellFoundedInduction, TLAPS

(* A range goes from one day of its week to another. *)
Keyed == \A w \in availableWeeks : WeekKey(w.startDate) = WeekKey(w.endDate)

(* The count of the next notification is that of the predictions on hand.  *)
Counted == lastKnownPredictionCount = Cardinality(dailyPredictions)

IInv ==
    /\ TypeOK
    /\ used \in [Counters -> Nat]
    /\ offset \in Offsets /\ minimalDays \in MinimalDays
    /\ cache \in [predictions : SUBSET Days, measured : SUBSET Days]
    /\ Keyed /\ Counted /\ ChainsSettle

-----------------------------------------------------------------------------
(* The calendar.                                                           *)

LEMMA Sevens ==
    ASSUME NEW x \in Int
    PROVE  x % 7 \in 0 .. 6 /\ x \div 7 \in Int /\ x = 7 * (x \div 7) + (x % 7)
OBVIOUS

Calendar == offset \in 0 .. 6 /\ minimalDays \in 1 .. 7

(* Weeks start 7 days apart; k is the number of a week. *)
Starts(x, k) == k \in Int /\ x = 7 * k + 1 - offset

LEMMA WeekStartOf ==
    ASSUME Calendar, NEW d \in Int
    PROVE  /\ WeekStart(d) \in Int /\ WeekStart(d) <= d /\ d <= WeekStart(d) + 6
           /\ \E k \in Int : Starts(WeekStart(d), k)
<1> DEFINE x == d - 1 + offset
<1>1. x \in Int
  BY DEF Calendar
<1>2. x % 7 \in 0 .. 6 /\ x \div 7 \in Int /\ x = 7 * (x \div 7) + (x % 7)
  BY <1>1, Sevens
<1>3. WeekStart(d) = d - (x % 7)
  BY DEF WeekStart
<1> DEFINE m == x % 7
           k == x \div 7
<1>4. m \in 0 .. 6 /\ k \in Int /\ x = 7 * k + m /\ WeekStart(d) = d - m /\ d = x + 1 - offset
  BY <1>1, <1>2, <1>3 DEF Calendar
<1> HIDE DEF m, k, x
<1>5. WeekStart(d) = 7 * k + 1 - offset
  BY <1>1, <1>4 DEF Calendar
<1>6. QED
  BY <1>4, <1>5 DEF Starts

LEMMA FirstWeekOf ==
    ASSUME Calendar, NEW y \in Int, NewYear(y) \in Int
    PROVE  /\ FirstWeek(y) \in Int
           /\ NewYear(y) - 6 <= FirstWeek(y) /\ FirstWeek(y) <= NewYear(y) + 6
           /\ \E k \in Int : Starts(FirstWeek(y), k)
<1> DEFINE n == NewYear(y)
           s == WeekStart(n)
<1>1. s \in Int /\ s <= n /\ n <= s + 6 /\ n \in Int
  BY WeekStartOf
<1>2. PICK k \in Int : Starts(s, k)
  BY WeekStartOf
<1>3. FirstWeek(y) = IF s + 7 - n >= minimalDays THEN s ELSE s + 7
  BY DEF FirstWeek
<1> HIDE DEF n, s
<1>4. CASE s + 7 - n >= minimalDays
  BY <1>1, <1>2, <1>3, <1>4 DEF n
<1>5. CASE ~(s + 7 - n >= minimalDays)
  <2>1. FirstWeek(y) = s + 7 /\ s + 7 <= n + 6
    BY <1>1, <1>3, <1>5 DEF Calendar
  <2>2. Starts(s + 7, k + 1)
    BY <1>1, <1>2 DEF Starts, Calendar
  <2>3. QED
    BY <1>1, <2>1, <2>2 DEF n
<1>6. QED
  BY <1>4, <1>5

LEMMA NewYears ==
    ASSUME ConstantsAssumption, NEW y \in Int
    PROVE  /\ NewYear(y) \in Int
           /\ NewYear(y + 1) = NewYear(y) + YearLength
           /\ NewYear(y - 1) = NewYear(y) - YearLength
<1>1. YearLength \in Int
  BY DEF ConstantsAssumption
<1> DEFINE m == (y - 1) * YearLength
<1>2. m \in Int
  BY <1>1
<1>3. ((y + 1) - 1) * YearLength = m + YearLength
  BY <1>1
<1>4. ((y - 1) - 1) * YearLength = m - YearLength
  BY <1>1
<1> HIDE DEF m
<1>5. NewYear(y) = m + 1
  BY DEF NewYear, m
<1>6. QED
  BY <1>1, <1>2, <1>3, <1>4, <1>5 DEF NewYear

LEMMA YearOf ==
    ASSUME ConstantsAssumption, NEW d \in Nat \ {0}
    PROVE  /\ Year(d) \in Nat \ {0} /\ Year(d) <= d
           /\ NewYear(Year(d)) <= d /\ d < NewYear(Year(d)) + YearLength
<1> DEFINE n == d - 1
           q == n \div YearLength
           r == n % YearLength
<1>1. YearLength \in Nat \ {0} /\ n \in Nat
  BY DEF ConstantsAssumption
<1>2. q \in Nat /\ r \in 0 .. YearLength - 1 /\ n = YearLength * q + r
  BY <1>1
<1>3. Year(d) = q + 1
  BY DEF Year
<1> HIDE DEF q, r
<1>4. NewYear(Year(d)) = q * YearLength + 1
  BY <1>2, <1>3 DEF NewYear
<1>5. q * YearLength = YearLength * q /\ q * YearLength \in Nat /\ q <= q * YearLength
  BY <1>1, <1>2
<1>6. QED
  BY <1>1, <1>2, <1>3, <1>4, <1>5

(* The week number of a day counts from the first week of the year before, *)
(* of its own year or of the next, y - 1, y or y + 1.                      *)
CountsFrom(d, z) == 7 * (WeekOfYear(d) - 1) = WeekStart(d) - FirstWeek(z)

LEMMA WeekNumber ==
    ASSUME ConstantsAssumption, Calendar, NEW d \in Nat \ {0}, NEW y, y = Year(d)
    PROVE  /\ WeekOfYear(d) \in Int
           /\ \/ CountsFrom(d, y + 1) /\ FirstWeek(y + 1) <= d
              \/ CountsFrom(d, y - 1) /\ d < FirstWeek(y)
              \/ CountsFrom(d, y) /\ FirstWeek(y) <= d /\ d < FirstWeek(y + 1)
<1>1. y \in Int /\ y + 1 \in Int /\ y - 1 \in Int
  BY YearOf
<1>2. \A z \in {y - 1, y, y + 1} : z \in Int /\ FirstWeek(z) \in Int /\ \E k \in Int : Starts(FirstWeek(z), k)
  BY <1>1, NewYears, FirstWeekOf
<1>3. PICK k \in Int : Starts(WeekStart(d), k)
  BY WeekStartOf
<1>4. ASSUME NEW z \in {y - 1, y, y + 1},
             WeekOfYear(d) = (WeekStart(d) - FirstWeek(z)) \div 7 + 1
      PROVE  WeekOfYear(d) \in Int /\ CountsFrom(d, z)
  <2>1. PICK j \in Int : Starts(FirstWeek(z), j)
    BY <1>2
  <2>2. WeekStart(d) - FirstWeek(z) = 7 * (k - j) /\ k - j \in Int
    BY <1>3, <2>1 DEF Starts, Calendar
  <2> DEFINE m == k - j
  <2>3. m \in Int /\ (7 * m) \div 7 = m
    OBVIOUS
  <2>4. WeekOfYear(d) = m + 1
    BY <1>4, <2>2, <2>3
  <2> HIDE DEF m
  <2>5. WeekStart(d) - FirstWeek(z) = 7 * m
    BY <2>2 DEF m
  <2>6. WeekOfYear(d) \in Int /\ 7 * (WeekOfYear(d) - 1) = 7 * m
    BY <2>3, <2>4
  <2>7. QED
    BY <2>5, <2>6 DEF CountsFrom
<1> DEFINE W(z) == (WeekStart(d) - FirstWeek(z)) \div 7 + 1
<1>5. FirstWeek(y) <= FirstWeek(y + 1)
  <2>1. NewYear(y) \in Int /\ NewYear(y + 1) \in Int /\ NewYear(y + 1) = NewYear(y) + YearLength
    BY <1>1, NewYears
  <2>2. FirstWeek(y) <= NewYear(y) + 6 /\ NewYear(y + 1) - 6 <= FirstWeek(y + 1)
    BY <1>1, <2>1, FirstWeekOf
  <2>3. YearLength \in Int /\ 350 <= YearLength
    BY DEF ConstantsAssumption
  <2>4. QED
    BY <1>2, <2>1, <2>2, <2>3
<1>6. WeekOfYear(d) = LET z == CASE d >= FirstWeek(y + 1) -> y + 1
                                  [] d < FirstWeek(y)      -> y - 1
                                  [] OTHER                 -> y
                       IN W(z)
  BY DEF WeekOfYear
<1>7. CASE FirstWeek(y + 1) <= d
  <2>1. WeekOfYear(d) = W(y + 1)
    <3>1. d >= FirstWeek(y + 1) /\ ~(d < FirstWeek(y))
      BY <1>2, <1>7, <1>5
    <3>2. QED
      BY <1>6, <3>1
  <2>2. QED
    BY <1>4, <1>7, <2>1
<1>8. CASE ~(FirstWeek(y + 1) <= d) /\ d < FirstWeek(y)
  <2>1. WeekOfYear(d) = W(y - 1)
    <3>1. ~(d >= FirstWeek(y + 1))
      BY <1>2, <1>8
    <3>2. QED
      BY <1>8, <1>6, <3>1
  <2>2. QED
    BY <1>4, <1>8, <2>1
<1>9. CASE ~(FirstWeek(y + 1) <= d) /\ ~(d < FirstWeek(y))
  <2>1. WeekOfYear(d) = W(y)
    <3>1. ~(d >= FirstWeek(y + 1))
      BY <1>2, <1>9
    <3>2. QED
      BY <1>9, <1>6, <3>1
  <2>2. QED
    BY <1>2, <1>4, <1>9, <2>1
<1>10. QED
  BY <1>7, <1>8, <1>9

(* What is known of a day, as numbers: its year starts at n and the next   *)
(* at n + l, the first weeks of the years around it start at f0, f1, f2.   *)
Dated(d, s, w, n, l, f0, f1, f2) ==
    /\ {d, s, w, n, l, f0, f1, f2} \subseteq Int
    /\ s <= d /\ d <= s + 6 /\ n <= d /\ d < n + l /\ 350 <= l /\ l <= 390
    /\ n - l - 6 <= f0 /\ f0 <= n - l + 6
    /\ n - 6 <= f1 /\ f1 <= n + 6 /\ n + l - 6 <= f2 /\ f2 <= n + l + 6
    /\ \/ 7 * (w - 1) = s - f2 /\ f2 <= d
       \/ 7 * (w - 1) = s - f0 /\ d < f1
       \/ 7 * (w - 1) = s - f1 /\ f1 <= d /\ d < f2

LEMMA DayIsDated ==
    ASSUME ConstantsAssumption, Calendar, NEW d \in Nat \ {0}, NEW y, y = Year(d)
    PROVE  Dated(d, WeekStart(d), WeekOfYear(d), NewYear(y), YearLength,
                 FirstWeek(y - 1), FirstWeek(y), FirstWeek(y + 1))
<1>1. y \in Int /\ y + 1 \in Int /\ y - 1 \in Int
  BY YearOf
<1>2. /\ NewYear(y) \in Int /\ NewYear(y + 1) = NewYear(y) + YearLength
      /\ NewYear(y - 1) = NewYear(y) - YearLength
      /\ NewYear(y + 1) \in Int /\ NewYear(y - 1) \in Int
  BY <1>1, NewYears
<1>3. \A z \in {y - 1, y, y + 1} :
        /\ FirstWeek(z) \in Int
        /\ NewYear(z) - 6 <= FirstWeek(z) /\ FirstWeek(z) <= NewYear(z) + 6
  BY <1>1, <1>2, FirstWeekOf
<1>4. YearLength \in Int /\ 350 <= YearLength /\ YearLength <= 390
  BY DEF ConstantsAssumption
<1>5. /\ WeekStart(d) \in Int /\ WeekStart(d) <= d /\ d <= WeekStart(d) + 6
      /\ NewYear(y) <= d /\ d < NewYear(y) + YearLength
  BY WeekStartOf, YearOf
<1>6. WeekOfYear(d) \in Int
  BY WeekNumber
<1>7. \/ 7 * (WeekOfYear(d) - 1) = WeekStart(d) - FirstWeek(y + 1) /\ FirstWeek(y + 1) <= d
      \/ 7 * (WeekOfYear(d) - 1) = WeekStart(d) - FirstWeek(y - 1) /\ d < FirstWeek(y)
      \/ /\ 7 * (WeekOfYear(d) - 1) = WeekStart(d) - FirstWeek(y)
         /\ FirstWeek(y) <= d /\ d < FirstWeek(y + 1)
  BY WeekNumber DEF CountsFrom
<1>8. {d, WeekStart(d), WeekOfYear(d), NewYear(y), YearLength, FirstWeek(y - 1),
       FirstWeek(y), FirstWeek(y + 1)} \subseteq Int
  BY <1>2, <1>3, <1>4, <1>5, <1>6
<1>9. /\ NewYear(y) - YearLength - 6 <= FirstWeek(y - 1)
      /\ FirstWeek(y - 1) <= NewYear(y) - YearLength + 6
      /\ NewYear(y) - 6 <= FirstWeek(y) /\ FirstWeek(y) <= NewYear(y) + 6
      /\ NewYear(y) + YearLength - 6 <= FirstWeek(y + 1)
      /\ FirstWeek(y + 1) <= NewYear(y) + YearLength + 6
  BY <1>2, <1>3
<1>10. QED
  BY <1>4, <1>5, <1>7, <1>8, <1>9 DEF Dated

(* A year has week numbers of two digits. *)
LEMMA TwoDigits ==
    ASSUME NEW d, NEW s, NEW w, NEW n, NEW l, NEW f0, NEW f1, NEW f2,
           Dated(d, s, w, n, l, f0, f1, f2)
    PROVE  w \in 0 .. 99
<1>1. d \in Int /\ s \in Int /\ w \in Int /\ n \in Int /\ l \in Int /\ f0 \in Int
      /\ f1 \in Int /\ f2 \in Int
  BY DEF Dated
<1>2. 0 <= w /\ w <= 99
  BY <1>1 DEF Dated
<1>3. QED
  BY <1>1, <1>2

(* Two days of a year with one week number are of one week, or the week of *)
(* one of them belongs to the year next to it.                             *)
LEMMA SameNumber ==
    ASSUME NEW d, NEW s, NEW e, NEW t, NEW w, NEW n, NEW l, NEW f0, NEW f1, NEW f2,
           Dated(d, s, w, n, l, f0, f1, f2), Dated(e, t, w, n, l, f0, f1, f2),
           e - d > 6
    PROVE  /\ d < f1 \/ f2 <= e
           /\ d < n + 14 /\ n + l - 14 <= e
<1>1. d \in Int /\ s \in Int /\ w \in Int /\ n \in Int /\ l \in Int /\ f0 \in Int
      /\ f1 \in Int /\ f2 \in Int /\ e \in Int /\ t \in Int
  BY DEF Dated
<1>2. d < f1 \/ f2 <= e
  BY <1>1 DEF Dated
<1>3. d < n + 14
  BY <1>1 DEF Dated
<1>4. n + l - 14 <= e
  BY <1>1 DEF Dated
<1>5. QED
  BY <1>2, <1>3, <1>4

(* Keys are positive, and bounded. *)
LEMMA KeyOf ==
    ASSUME ConstantsAssumption, Calendar, NEW d \in Days
    PROVE  /\ WeekOfYear(d) \in 0 .. 99 /\ Year(d) \in Nat \ {0}
           /\ WeekKey(d) \in 1 .. 100 * LastDay + 99
<1>1. d \in Nat \ {0} /\ d <= LastDay /\ LastDay \in Nat
  BY DEF Days, ConstantsAssumption
<1>2. WeekOfYear(d) \in 0 .. 99
  BY <1>1, DayIsDated, TwoDigits
<1>3. Year(d) \in Nat \ {0} /\ Year(d) <= d
  BY <1>1, YearOf
<1> DEFINE y == Year(d)
           w == WeekOfYear(d)
<1>4. WeekKey(d) = y * 100 + w
  BY DEF WeekKey
<1> HIDE DEF y, w
<1>5. y \in Nat \ {0} /\ y <= LastDay /\ w \in 0 .. 99
  BY <1>1, <1>2, <1>3 DEF y, w
<1>6. y * 100 + w \in 1 .. 100 * LastDay + 99
  BY <1>1, <1>5
<1>7. QED
  BY <1>2, <1>3, <1>4, <1>6

(* Days with one key are of one year and of one week number. *)
LEMMA SameKey ==
    ASSUME ConstantsAssumption, Calendar, NEW d \in Days, NEW e \in Days,
           WeekKey(d) = WeekKey(e)
    PROVE  Year(d) = Year(e) /\ WeekOfYear(d) = WeekOfYear(e)
<1> DEFINE y == Year(d)
           z == Year(e)
           v == WeekOfYear(d)
           w == WeekOfYear(e)
<1>1. y * 100 + v = z * 100 + w
  BY DEF WeekKey
<1>2. v \in 0 .. 99 /\ w \in 0 .. 99 /\ y \in Nat /\ z \in Nat
  BY KeyOf
<1> HIDE DEF y, z, v, w
<1>3. y = z /\ v = w
  BY <1>1, <1>2
<1>4. QED
  BY <1>3 DEF y, z, v, w

LEMMA LongRange ==
    ASSUME ConstantsAssumption, Calendar, NEW d \in Days, NEW e \in Days,
           WeekKey(d) = WeekKey(e), e - d > 6
    PROVE  LET y == Year(d) IN
           /\ y = Year(e)
           /\ d < NewYear(y) + 14 /\ NewYear(y + 1) - 14 <= e
           /\ d < FirstWeek(y) \/ FirstWeek(y + 1) <= e
<1> DEFINE y == Year(d)
<1>1. y = Year(e) /\ WeekOfYear(d) = WeekOfYear(e) /\ d \in Nat \ {0} /\ e \in Nat \ {0}
  BY SameKey DEF Days
<1>2. NewYear(y) \in Int /\ NewYear(y + 1) = NewYear(y) + YearLength
  <2>1. y \in Int
    BY <1>1, YearOf
  <2> HIDE DEF y
  <2>2. QED
    BY <2>1, NewYears
<1>3. /\ Dated(d, WeekStart(d), WeekOfYear(d), NewYear(y), YearLength,
               FirstWeek(y - 1), FirstWeek(y), FirstWeek(y + 1))
      /\ Dated(e, WeekStart(e), WeekOfYear(d), NewYear(y), YearLength,
               FirstWeek(y - 1), FirstWeek(y), FirstWeek(y + 1))
  BY <1>1, DayIsDated
<1> HIDE DEF y
<1>4. /\ d < FirstWeek(y) \/ FirstWeek(y + 1) <= e
      /\ d < NewYear(y) + 14 /\ NewYear(y) + YearLength - 14 <= e
  BY <1>3, SameNumber
<1>5. NewYear(y + 1) - 14 <= e
  BY <1>2, <1>4
<1>6. y = Year(e)
  BY <1>1
<1>7. QED
  BY <1>4, <1>5, <1>6 DEF y

-----------------------------------------------------------------------------
(* The week ranges.                                                        *)

(* A set of natural numbers with an element has a least one. *)
LEMMA Least ==
    ASSUME NEW S \in SUBSET Nat, S # {}
    PROVE  \E m \in S : \A k \in S : m <= k
<1>1. IsWellFoundedOn(OpToRel(<, Nat), Nat)
  BY NatLessThanWellFounded
<1>2. PICK m \in S : \A k \in S : ~(<<k, m>> \in OpToRel(<, Nat))
  BY <1>1, WFMin
<1>3. \A k \in S : ~(k < m)
  BY <1>2 DEF OpToRel
<1>4. QED
  BY <1>3

(* A set of numbers up to n with an element has a greatest one. *)
LEMMA Greatest ==
    ASSUME NEW n \in Nat, NEW S \in SUBSET (1 .. n), S # {}
    PROVE  \E i \in S : \A j \in S : j <= i
<1> DEFINE bounds == {m \in Nat : \A j \in S : j <= m}
<1>1. n \in bounds
  OBVIOUS
<1>2. PICK m \in bounds : \A k \in bounds : m <= k
  <2>1. bounds \in SUBSET Nat /\ bounds # {}
    BY <1>1
  <2> HIDE DEF bounds
  <2>2. QED
    BY <2>1, Least
<1>3. m \in S
  <2>1. SUFFICES ASSUME m \notin S PROVE FALSE
    OBVIOUS
  <2>2. m - 1 \in Nat /\ \A j \in S : j <= m - 1
    <3>1. PICK j \in S : j \in 1 .. n /\ j <= m
      BY <1>2
    <3>2. m \in Nat /\ \A k \in S : k \in Nat /\ k <= m /\ k # m
      BY <1>2, <2>1
    <3>3. QED
      BY <3>1, <3>2
  <2>3. m - 1 \in bounds
    BY <2>2
  <2>4. QED
    BY <1>2, <2>3
<1>4. QED
  BY <1>2, <1>3

LEMMA Ends ==
    ASSUME ConstantsAssumption, NEW group \in SUBSET Days, group # {}
    PROVE  /\ Min(group) \in group /\ Max(group) \in group
           /\ \A d \in group : Min(group) <= d /\ d <= Max(group)
<1>1. group \in SUBSET Nat /\ LastDay \in Nat /\ group \in SUBSET (1 .. LastDay)
  BY DEF Days, ConstantsAssumption
<1>2. \E m \in group : \A d \in group : m <= d
  BY <1>1, Least
<1>3. \E m \in group : \A d \in group : m >= d
  <2>1. PICK m \in group : \A d \in group : d <= m
    BY <1>1, Greatest
  <2>2. \A d \in group : m >= d
    BY <1>1, <2>1
  <2>3. QED
    BY <2>2
<1>4. Min(group) \in group /\ \A d \in group : Min(group) <= d
  BY <1>2 DEF Min
<1>5. Max(group) \in group /\ \A d \in group : Max(group) >= d
  BY <1>3 DEF Max
<1>6. \A d \in group : d <= Max(group)
  BY <1>1, <1>5
<1>7. QED
  BY <1>4, <1>5, <1>6

(* A range of a set of days, and its key. *)
RangeOf(days, w) ==
    /\ w \in Week /\ w.startDate \in days /\ w.endDate \in days
    /\ w.key \in 1 .. 100 * LastDay + 99
    /\ WeekKey(w.startDate) = w.key /\ WeekKey(w.endDate) = w.key

(* Every range is of the days, and every day is in a range. *)
LEMMA RangesCover ==
    ASSUME ConstantsAssumption, Calendar, NEW days \in SUBSET Days
    PROVE  /\ \A w \in WeekRanges(days) : RangeOf(days, w)
           /\ \A d \in days : \E w \in WeekRanges(days) : InWeek(d, w)
<1> DEFINE keys == [d \in days |-> WeekKey(d)]
           group(k) == {d \in days : keys[d] = k}
           span(k) == [key |-> k, startDate |-> Min(group(k)), endDate |-> Max(group(k))]
<1>1. WeekRanges(days) = {span(k) : k \in {keys[d] : d \in days}}
  BY DEF WeekRanges
<1>2. \A d \in days : keys[d] = WeekKey(d) /\ keys[d] \in 1 .. 100 * LastDay + 99
  BY KeyOf
<1>3. ASSUME NEW e \in days
      PROVE  /\ RangeOf(days, span(keys[e])) /\ InWeek(e, span(keys[e]))
  <2> DEFINE k == keys[e]
             g == group(k)
  <2>1. g \in SUBSET Days /\ e \in g /\ \A d \in g : d \in days /\ WeekKey(d) = k
    BY <1>2
  <2>2. k \in 1 .. 100 * LastDay + 99
    BY <1>2
  <2> HIDE DEF k, g
  <2>3. Min(g) \in g /\ Max(g) \in g /\ Min(g) <= e /\ e <= Max(g)
    BY <2>1, Ends
  <2>4. k \in Nat
    BY <2>2
  <2>5. [key |-> k, startDate |-> Min(g), endDate |-> Max(g)] \in Week
    BY <2>1, <2>3, <2>4 DEF Week
  <2>6. /\ RangeOf(days, [key |-> k, startDate |-> Min(g), endDate |-> Max(g)])
        /\ InWeek(e, [key |-> k, startDate |-> Min(g), endDate |-> Max(g)])
    BY <2>1, <2>2, <2>3, <2>5 DEF RangeOf, InWeek
  <2>7. QED
    BY <2>6 DEF k, g
<1> HIDE DEF span, keys
<1>4. QED
  BY <1>1, <1>3

LEMMA MostRecentOf ==
    ASSUME ConstantsAssumption, NEW weeks, NEW days, \A w \in weeks : RangeOf(days, w)
    PROVE  IF weeks = {} THEN MostRecent(weeks) = NoWeek ELSE MostRecent(weeks) \in weeks
<1>1. CASE weeks = {}
  BY <1>1 DEF MostRecent
<1>2. CASE weeks # {}
  <2> DEFINE S == {w.key : w \in weeks}
             n == 100 * LastDay + 99
  <2>1. n \in Nat
    BY DEF ConstantsAssumption
  <2>2. S \in SUBSET (1 .. n) /\ S # {}
    BY <1>2 DEF RangeOf
  <2> HIDE DEF n, S
  <2>3. \E i \in S : \A j \in S : j <= i
    BY <2>1, <2>2, Greatest
  <2>4. \E w \in weeks : \A v \in weeks : v.key <= w.key
    BY <2>3 DEF S
  <2>5. QED
    BY <1>2, <2>4 DEF MostRecent
<1>3. QED
  BY <1>1, <1>2

LEMMA KeyFrame ==
    ASSUME UNCHANGED calendar
    PROVE  \A d : WeekKey(d)' = WeekKey(d) /\ Year(d)' = Year(d)
BY DEF calendar, WeekKey, WeekOfYear, FirstWeek, WeekStart, Year, NewYear

-----------------------------------------------------------------------------
(* The invariant: the start.                                               *)

LEMMA DaysFinite ==
    ASSUME ConstantsAssumption, NEW S \in SUBSET Days
    PROVE  IsFiniteSet(S) /\ Cardinality(S) \in Nat
<1>1. 1 \in Int /\ LastDay \in Int
  BY DEF ConstantsAssumption
<1>2. IsFiniteSet(Days)
  BY <1>1, FS_Interval DEF Days
<1>3. IsFiniteSet(S)
  BY <1>2, FS_Subset
<1>4. QED
  BY <1>3, FS_CardinalityType

LEMMA BumpType ==
    ASSUME used \in [Counters -> Nat], NEW k \in Counters, Bump(k)
    PROVE  /\ used' \in [Counters -> Nat] /\ used'[k] = used[k] + 1
           /\ \A j \in Counters : j # k => used'[j] = used[j]
BY DEF Bump

LEMMA InitInv ==
    ASSUME ConstantsAssumption, Init
    PROVE  IInv
<1>1. /\ predictions \subseteq Days /\ measured \subseteq Days /\ Today \in Dates
  BY DEF Init, ConstantsAssumption, Days
<1>2. cache \in [predictions : SUBSET Days, measured : SUBSET Days]
  <2>1. \/ cache = [predictions |-> {}, measured |-> {}]
        \/ cache = [predictions |-> predictions, measured |-> measured]
    BY DEF Init
  <2>2. QED
    BY <1>1, <2>1
<1>3. cache.predictions \subseteq predictions /\ cache.measured \subseteq measured
  BY DEF Init
<1>4. used \in [Counters -> Nat] /\ used["appear"] = 0
  BY DEF Init, Counters
<1>5. TypeOK
  BY <1>1, <1>3 DEF Init, TypeOK
<1>6. Keyed /\ Counted
  BY FS_EmptySet DEF Init, Keyed, Counted
<1>7. ChainsSettle
  BY <1>4 DEF ChainsSettle
<1>8. QED
  BY <1>2, <1>4, <1>5, <1>6, <1>7 DEF IInv, Init

LEMMA IsCalendar ==
    ASSUME ConstantsAssumption, IInv
    PROVE  Calendar
BY DEF ConstantsAssumption, IInv, Calendar

(* The end of a chain with some days of predictions and of usages. *)
Shows(p, u) ==
    /\ availableWeeks' \subseteq Week
    /\ \A w \in availableWeeks' : WeekKey(w.startDate) = WeekKey(w.endDate)
    /\ selectedWeek' \in Week \cup {NoWeek}
    /\ ~isLoading' /\ isLoading' \in BOOLEAN
    /\ \A d \in p \cup u : \E w \in availableWeeks' : InWeek(d, w)
    /\ \A w \in availableWeeks' : {w.startDate, w.endDate} \subseteq p \cup u
    /\ selectedWeek' \in availableWeeks' \/ (selectedWeek' = NoWeek /\ availableWeeks' = {})

LEMMA EndShows ==
    ASSUME ConstantsAssumption, Calendar, NEW p \in SUBSET Days, NEW u \in SUBSET Days,
           EndOfChain(p, u)
    PROVE  Shows(p, u)
<1> DEFINE days == p \cup u
           weeks == WeekRanges(days)
<1>1. days \in SUBSET Days /\ availableWeeks' = weeks /\ selectedWeek' = MostRecent(weeks)
      /\ isLoading' = FALSE
  BY DEF EndOfChain
<1>2. /\ \A w \in weeks : RangeOf(days, w)
      /\ \A d \in days : \E w \in weeks : InWeek(d, w)
  BY <1>1, RangesCover
<1> HIDE DEF days, weeks
<1>3. IF weeks = {} THEN MostRecent(weeks) = NoWeek ELSE MostRecent(weeks) \in weeks
  BY <1>2, MostRecentOf
<1>4. \A w \in weeks : /\ w \in Week /\ WeekKey(w.startDate) = WeekKey(w.endDate)
                       /\ {w.startDate, w.endDate} \subseteq days
  BY <1>2 DEF RangeOf
<1>5. QED
  BY <1>1, <1>2, <1>3, <1>4 DEF Shows, days

-----------------------------------------------------------------------------
(* The invariant in parts: the store, the daily chart, the hourly chart.   *)
Store ==
    /\ offset \in Offsets /\ minimalDays \in MinimalDays
    /\ predictions \subseteq Days /\ measured \subseteq Days
    /\ cache \in [predictions : SUBSET Days, measured : SUBSET Days]
    /\ cache.predictions \subseteq predictions /\ cache.measured \subseteq measured

Daily ==
    /\ userId \in BOOLEAN
    /\ chains \subseteq [id : 1..MaxAppear, get : {"predictions", "usages"}]
    /\ isLoading \in BOOLEAN
    /\ dailyPredictions \subseteq Days /\ dailyEnergyUsages \subseteq Days
    /\ availableWeeks \subseteq Week /\ selectedWeek \in Week \cup {NoWeek}
    /\ lastKnownPredictionCount \in Nat /\ notified \in Nat
    /\ Keyed /\ Counted /\ ChainsSettle

Hourly ==
    /\ hourlyAsked \subseteq [id : 1..MaxHourly, day : Dates,
                              of : {"predictions", "usages"}]
    /\ hourlyPredictions \in Dates \cup {0} /\ hourlyEnergyUsages \in Dates \cup {0}
    /\ chartType \in {"daily", "hourly"} /\ selectedDate \in Dates

LEMMA Parts == IInv <=> Store /\ Daily /\ Hourly /\ used \in [Counters -> Nat]
BY DEF IInv, TypeOK, Store, Daily, Hourly

LEMMA PartsNext ==
    ASSUME Store', Daily', Hourly', used' \in [Counters -> Nat]
    PROVE  IInv'
BY DEF IInv, TypeOK, Store, Daily, Hourly

LEMMA StoreFrame ==
    ASSUME Store, UNCHANGED <<calendar, storeVars>>
    PROVE  Store'
BY DEF Store, calendar, storeVars

LEMMA HourlyFrame ==
    ASSUME Hourly, UNCHANGED hourVars
    PROVE  Hourly'
BY DEF Hourly, hourVars

LEMMA KeyedFrame ==
    ASSUME UNCHANGED calendar,
           \A w \in availableWeeks' : WeekKey(w.startDate) = WeekKey(w.endDate)
    PROVE  Keyed'
BY KeyFrame DEF Keyed

LEMMA DailyFrame ==
    ASSUME Daily, UNCHANGED <<calendar, userId, chains, dailyVars>>,
           used'["appear"] = used["appear"]
    PROVE  Daily'
<1>1. UNCHANGED <<isLoading, dailyPredictions, dailyEnergyUsages, availableWeeks,
                  selectedWeek, lastKnownPredictionCount, notified>>
  BY DEF dailyVars
<1>2. Keyed'
  BY <1>1, KeyedFrame DEF Daily, Keyed
<1>3. Counted'
  BY <1>1 DEF Daily, Counted
<1>4. ChainsSettle'
  BY <1>1 DEF Daily, ChainsSettle, InWeek
<1>5. QED
  BY <1>1, <1>2, <1>3, <1>4 DEF Daily

(* A chain has ended. *)
LEMMA DailyEnds ==
    ASSUME ConstantsAssumption, Calendar, Daily, UNCHANGED <<calendar, userId>>,
           chains' \subseteq [id : 1..MaxAppear, get : {"predictions", "usages"}],
           dailyPredictions' \subseteq Days, dailyEnergyUsages' \subseteq Days,
           EndOfChain(dailyPredictions', dailyEnergyUsages'),
           UNCHANGED <<dailyPredictions, lastKnownPredictionCount, notified>>
    PROVE  Daily'
<1>1. Shows(dailyPredictions', dailyEnergyUsages')
  BY EndShows
<1>2. Keyed'
  BY <1>1, KeyedFrame DEF Shows
<1>3. Counted'
  BY DEF Daily, Counted
<1>4. ChainsSettle'
  BY <1>1 DEF Shows, ChainsSettle, InWeek
<1>5. QED
  BY <1>1, <1>2, <1>3, <1>4 DEF Daily, Shows

(* A chain is under way. *)
LEMMA DailyLoads ==
    ASSUME Daily, UNCHANGED <<calendar, userId, availableWeeks, selectedWeek>>,
           chains' \subseteq [id : 1..MaxAppear, get : {"predictions", "usages"}],
           chains' # {}, isLoading' \in BOOLEAN,
           dailyPredictions' \subseteq Days, dailyEnergyUsages' \subseteq Days,
           lastKnownPredictionCount' = Cardinality(dailyPredictions'),
           lastKnownPredictionCount' \in Nat, notified' \in Nat
    PROVE  Daily'
<1>1. Keyed'
  BY KeyedFrame DEF Daily, Keyed
<1>2. Counted' /\ ChainsSettle'
  BY DEF Counted, ChainsSettle
<1>3. QED
  BY <1>1, <1>2 DEF Daily

-----------------------------------------------------------------------------
(* The invariant: each action keeps it.                                    *)
LEMMA ReopenInv ==
    ASSUME ConstantsAssumption, IInv, Reopen
    PROVE  IInv'
<1>1. Store'
  BY Parts, StoreFrame DEF Reopen
<1>2. used' \in [Counters -> Nat] /\ used'["appear"] = 0
  BY Parts DEF Reopen, Counters
<1>3. Hourly'
  BY DEF Reopen, Hourly, ConstantsAssumption
<1>4. Keyed' /\ Counted'
  BY FS_EmptySet DEF Reopen, Keyed, Counted
<1>5. ChainsSettle'
  BY <1>2 DEF ChainsSettle
<1>6. Daily'
  BY <1>4, <1>5 DEF Reopen, Daily
<1>7. QED
  BY <1>1, <1>2, <1>3, <1>6, PartsNext

LEMMA ServiceAddsInv ==
    ASSUME ConstantsAssumption, IInv, ServiceAdds
    PROVE  IInv'
<1>1. Added \subseteq Days
  BY DEF ConstantsAssumption, Days
<1>2. Store'
  BY <1>1, Parts DEF ServiceAdds, Store, calendar
<1>3. Daily'
  BY Parts, DailyFrame DEF ServiceAdds
<1>4. Hourly'
  BY Parts, HourlyFrame DEF ServiceAdds
<1>5. QED
  BY <1>2, <1>3, <1>4, Parts, PartsNext DEF ServiceAdds

LEMMA AppearInv ==
    ASSUME ConstantsAssumption, IInv, Appear
    PROVE  IInv'
<1>1. Store' /\ Hourly'
  BY Parts, StoreFrame, HourlyFrame DEF Appear
<1>2. /\ used' \in [Counters -> Nat]
      /\ used["appear"] \in Nat /\ used["appear"] < MaxAppear
  BY Parts, BumpType DEF Appear, Counters
<1>3. /\ UNCHANGED <<calendar, userId, dailyPredictions, dailyEnergyUsages,
                     lastKnownPredictionCount, notified>>
      /\ Daily
  BY Parts DEF Appear
<1>4. CASE userId
  <2> DEFINE c == [id |-> used["appear"] + 1, get |-> "predictions"]
  <2>1. chains' = chains \cup {c} /\ isLoading' = TRUE
        /\ UNCHANGED <<availableWeeks, selectedWeek>>
    BY <1>4 DEF Appear
  <2>2. used["appear"] + 1 \in 1..MaxAppear
    BY <1>2 DEF ConstantsAssumption
  <2>3. c \in [id : 1..MaxAppear, get : {"predictions", "usages"}]
    BY <2>2
  <2> HIDE DEF c
  <2>4. chains' \subseteq [id : 1..MaxAppear, get : {"predictions", "usages"}]
        /\ chains' # {}
    BY <1>3, <2>1, <2>3 DEF Daily
  <2>5. /\ dailyPredictions' \subseteq Days /\ dailyEnergyUsages' \subseteq Days
        /\ lastKnownPredictionCount' = Cardinality(dailyPredictions')
        /\ lastKnownPredictionCount' \in Nat /\ notified' \in Nat
    BY <1>3 DEF Daily, Counted
  <2>6. Daily'
    BY <1>3, <2>1, <2>4, <2>5, DailyLoads
  <2>7. QED
    BY <1>1, <1>2, <2>6, PartsNext
<1>5. CASE ~userId
  <2>1. EndOfChain(dailyPredictions, dailyEnergyUsages) /\ chains' = chains
    BY <1>5 DEF Appear
  <2>2. /\ EndOfChain(dailyPredictions', dailyEnergyUsages')
        /\ dailyPredictions' \subseteq Days /\ dailyEnergyUsages' \subseteq Days
        /\ chains' \subseteq [id : 1..MaxAppear, get : {"predictions", "usages"}]
    BY <1>3, <2>1 DEF Daily
  <2>3. Daily'
    BY <1>3, <2>2, DailyEnds, IsCalendar
  <2>4. QED
    BY <1>1, <1>2, <2>3, PartsNext
<1>6. QED
  BY <1>4, <1>5

LEMMA NextGet ==
    ASSUME Daily, NEW c \in chains
    PROVE  LET goesOn == (chains \ {c}) \cup {[c EXCEPT !.get = "usages"]}
               types  == [id : 1..MaxAppear, get : {"predictions", "usages"}]
           IN  goesOn \subseteq types /\ goesOn # {} /\ (chains \ {c}) \subseteq types
BY DEF Daily

(* The answer to either get, from the server or from the cache. *)
LEMMA PredictionsAnsweredInv ==
    ASSUME ConstantsAssumption, IInv, NEW c \in chains, NEW days \in SUBSET Days,
           PredictionsAnswered(c, days)
    PROVE  Daily' /\ Hourly' /\ UNCHANGED <<calendar, predictions, measured, used>>
<1>1. Cardinality(days) \in Nat
  BY DaysFinite
<1>2. chains' \subseteq [id : 1..MaxAppear, get : {"predictions", "usages"}]
      /\ chains' # {}
  BY NextGet, Parts DEF PredictionsAnswered
<1>3. isLoading' \in BOOLEAN /\ notified' \in Nat
  BY Parts DEF PredictionsAnswered, Daily
<1>4. /\ UNCHANGED <<calendar, userId, availableWeeks, selectedWeek, dailyEnergyUsages,
                     predictions, measured, used>>
      /\ dailyPredictions' = days /\ lastKnownPredictionCount' = Cardinality(days)
      /\ UNCHANGED hourVars
  BY DEF PredictionsAnswered
<1>5. dailyPredictions' \subseteq Days /\ dailyEnergyUsages' \subseteq Days
  BY <1>4, Parts DEF Daily
<1>6. Daily'
  BY <1>1, <1>2, <1>3, <1>4, <1>5, Parts, DailyLoads
<1>7. QED
  BY <1>4, <1>6, Parts, HourlyFrame

LEMMA UsagesAnsweredInv ==
    ASSUME ConstantsAssumption, IInv, NEW c \in chains, NEW days \in SUBSET Days,
           UsagesAnswered(c, days)
    PROVE  Daily' /\ Hourly' /\ UNCHANGED <<calendar, predictions, measured, used>>
<1>1. /\ UNCHANGED <<calendar, userId, dailyPredictions, lastKnownPredictionCount,
                     notified, predictions, measured, used>>
      /\ dailyEnergyUsages' = days /\ EndOfChain(dailyPredictions, days)
      /\ UNCHANGED hourVars /\ chains' = chains \ {c}
  BY DEF UsagesAnswered
<1>2. /\ EndOfChain(dailyPredictions', dailyEnergyUsages')
      /\ dailyPredictions' \subseteq Days /\ dailyEnergyUsages' \subseteq Days
  BY <1>1, Parts DEF Daily
<1>3. chains' \subseteq [id : 1..MaxAppear, get : {"predictions", "usages"}]
  BY <1>1, NextGet, Parts
<1>4. Daily'
  BY <1>1, <1>2, <1>3, Parts, DailyEnds, IsCalendar
<1>5. QED
  BY <1>1, <1>4, Parts, HourlyFrame

LEMMA CacheUpdate ==
    ASSUME Store, UNCHANGED <<calendar, predictions, measured>>,
           \/ cache' = cache
           \/ cache' = [cache EXCEPT !.predictions = predictions]
           \/ cache' = [cache EXCEPT !.measured = measured]
    PROVE  Store'
BY DEF Store, calendar

LEMMA AnsweredInv ==
    ASSUME ConstantsAssumption, IInv, NEW c \in chains, FromServer(c) \/ FromCache(c)
    PROVE  IInv'
<1>1. /\ predictions \in SUBSET Days /\ measured \in SUBSET Days
      /\ cache.predictions \in SUBSET Days /\ cache.measured \in SUBSET Days
  BY Parts DEF Store
<1>2. PICK days \in SUBSET Days : PredictionsAnswered(c, days) \/ UsagesAnswered(c, days)
  BY <1>1 DEF FromServer, FromCache
<1>3. Daily' /\ Hourly' /\ UNCHANGED <<calendar, predictions, measured, used>>
  BY <1>2, PredictionsAnsweredInv, UsagesAnsweredInv
<1>4. \/ cache' = cache
      \/ cache' = [cache EXCEPT !.predictions = predictions]
      \/ cache' = [cache EXCEPT !.measured = measured]
  BY DEF FromServer, FromCache
<1>5. Store'
  BY <1>3, <1>4, Parts, CacheUpdate
<1>6. QED
  BY <1>3, <1>5, Parts, PartsNext

LEMMA GetFailsInv ==
    ASSUME ConstantsAssumption, IInv, NEW c \in chains, GetFails(c)
    PROVE  IInv'
<1>1. Store' /\ Hourly' /\ used' \in [Counters -> Nat]
  BY Parts, StoreFrame, HourlyFrame, BumpType DEF GetFails, Counters
<1>2. /\ UNCHANGED <<calendar, userId, dailyPredictions, dailyEnergyUsages,
                     lastKnownPredictionCount, notified>>
      /\ Daily
  BY Parts DEF GetFails
<1>3. /\ dailyPredictions' \subseteq Days /\ dailyEnergyUsages' \subseteq Days
      /\ lastKnownPredictionCount' = Cardinality(dailyPredictions')
      /\ lastKnownPredictionCount' \in Nat /\ notified' \in Nat
  BY <1>2 DEF Daily, Counted
<1>4. CASE c.get = "predictions"
  <2>1. /\ chains' = (chains \ {c}) \cup {[c EXCEPT !.get = "usages"]}
        /\ UNCHANGED <<isLoading, availableWeeks, selectedWeek>>
    BY <1>4 DEF GetFails
  <2>2. chains' \subseteq [id : 1..MaxAppear, get : {"predictions", "usages"}]
        /\ chains' # {} /\ isLoading' \in BOOLEAN
    BY <1>2, <2>1, NextGet DEF Daily
  <2>3. Daily'
    BY <1>2, <1>3, <2>1, <2>2, DailyLoads
  <2>4. QED
    BY <1>1, <2>3, PartsNext
<1>5. CASE c.get # "predictions"
  <2>1. /\ chains' = chains \ {c}
        /\ EndOfChain(dailyPredictions', dailyEnergyUsages')
    BY <1>2, <1>5 DEF GetFails
  <2>2. chains' \subseteq [id : 1..MaxAppear, get : {"predictions", "usages"}]
    BY <1>2, <2>1, NextGet
  <2>3. Daily'
    BY <1>2, <1>3, <2>1, <2>2, DailyEnds, IsCalendar
  <2>4. QED
    BY <1>1, <2>3, PartsNext
<1>6. QED
  BY <1>4, <1>5

LEMMA SelectWeekInv ==
    ASSUME ConstantsAssumption, IInv, NEW w \in availableWeeks, SelectWeek(w)
    PROVE  IInv'
<1>1. Store' /\ Hourly' /\ used' \in [Counters -> Nat]
  BY Parts, StoreFrame, HourlyFrame DEF SelectWeek
<1>2. /\ UNCHANGED <<calendar, userId, chains, isLoading, dailyPredictions,
                     dailyEnergyUsages, availableWeeks, lastKnownPredictionCount,
                     notified, used>>
      /\ selectedWeek' = w
  BY DEF SelectWeek
<1>3. Keyed' /\ Counted'
  BY <1>2, Parts, KeyedFrame DEF Daily, Keyed, Counted
<1>4. ChainsSettle'
  BY <1>2, Parts DEF Daily, ChainsSettle, InWeek
<1>5. Daily'
  BY <1>2, <1>3, <1>4, Parts DEF Daily
<1>6. QED
  BY <1>1, <1>5, PartsNext

LEMMA FetchesHourly ==
    ASSUME ConstantsAssumption, Hourly, used \in [Counters -> Nat],
           NEW d \in Dates, FetchHourlyData(d)
    PROVE  /\ hourlyAsked' \subseteq [id : 1..MaxHourly, day : Dates,
                                      of : {"predictions", "usages"}]
           /\ used' \in [Counters -> Nat] /\ used'["appear"] = used["appear"]
<1>1. /\ used' \in [Counters -> Nat] /\ used'["appear"] = used["appear"]
      /\ used["hourly"] \in Nat /\ used["hourly"] < MaxHourly
  BY BumpType DEF FetchHourlyData, Counters
<1>2. used["hourly"] + 1 \in 1..MaxHourly
  BY <1>1 DEF ConstantsAssumption
<1> DEFINE n == used["hourly"] + 1
<1>3. \/ hourlyAsked' = hourlyAsked
      \/ hourlyAsked' = hourlyAsked \cup [id : {n}, day : {d}, of : {"predictions", "usages"}]
  BY DEF FetchHourlyData
<1>4. n \in 1..MaxHourly
  BY <1>2
<1> HIDE DEF n
<1>5. [id : {n}, day : {d}, of : {"predictions", "usages"}]
          \subseteq [id : 1..MaxHourly, day : Dates, of : {"predictions", "usages"}]
  BY <1>4
<1>6. QED
  BY <1>1, <1>3, <1>5 DEF Hourly

LEMMA ShowHourlyInv ==
    ASSUME ConstantsAssumption, IInv, ShowHourly
    PROVE  IInv'
<1>1. Today \in Dates /\ FetchHourlyData(Today)
  BY DEF ConstantsAssumption, ShowHourly
<1>2. /\ hourlyAsked' \subseteq [id : 1..MaxHourly, day : Dates,
                                 of : {"predictions", "usages"}]
      /\ used' \in [Counters -> Nat] /\ used'["appear"] = used["appear"]
  BY <1>1, FetchesHourly, Parts
<1>3. Hourly'
  BY <1>1, <1>2, Parts DEF ShowHourly, Hourly
<1>4. Store' /\ Daily'
  BY <1>2, Parts, StoreFrame, DailyFrame DEF ShowHourly
<1>5. QED
  BY <1>2, <1>3, <1>4, PartsNext

LEMMA PickDateInv ==
    ASSUME ConstantsAssumption, IInv, NEW d \in Dates, PickDate(d)
    PROVE  IInv'
<1>1. /\ hourlyAsked' \subseteq [id : 1..MaxHourly, day : Dates,
                                 of : {"predictions", "usages"}]
      /\ used' \in [Counters -> Nat] /\ used'["appear"] = used["appear"]
  BY FetchesHourly, Parts DEF PickDate
<1>2. Hourly'
  BY <1>1, Parts DEF PickDate, Hourly
<1>3. Store' /\ Daily'
  BY <1>1, Parts, StoreFrame, DailyFrame DEF PickDate
<1>4. QED
  BY <1>1, <1>2, <1>3, PartsNext

LEMMA ShowDailyInv ==
    ASSUME ConstantsAssumption, IInv, ShowDaily
    PROVE  IInv'
<1>1. Store' /\ Daily'
  BY Parts, StoreFrame, DailyFrame DEF ShowDaily
<1>2. Hourly' /\ used' \in [Counters -> Nat]
  BY Parts DEF ShowDaily, Hourly
<1>3. QED
  BY <1>1, <1>2, PartsNext

LEMMA HourInv ==
    ASSUME ConstantsAssumption, IInv, Hour
    PROVE  IInv'
<1>1. PICK r \in hourlyAsked : HourlyAnswered(r) \/ HourlyFails(r)
  BY DEF Hour
<1>2. r.day \in Dates
  BY Parts DEF Hourly
<1>3. CASE HourlyAnswered(r)
  <2>1. Store' /\ Daily'
    BY <1>3, Parts, StoreFrame, DailyFrame DEF HourlyAnswered
  <2>2. Hourly' /\ used' \in [Counters -> Nat]
    BY <1>2, <1>3, Parts DEF HourlyAnswered, Hourly
  <2>3. QED
    BY <2>1, <2>2, PartsNext
<1>4. CASE HourlyFails(r)
  <2>1. used' \in [Counters -> Nat] /\ used'["appear"] = used["appear"]
    BY <1>4, Parts, BumpType DEF HourlyFails, Counters
  <2>2. Store' /\ Daily'
    BY <1>4, <2>1, Parts, StoreFrame, DailyFrame DEF HourlyFails
  <2>3. Hourly'
    BY <1>4, Parts DEF HourlyFails, Hourly
  <2>4. QED
    BY <2>1, <2>2, <2>3, PartsNext
<1>5. QED
  BY <1>1, <1>3, <1>4

LEMMA StepInv ==
    ASSUME ConstantsAssumption, IInv, [Next]_vars
    PROVE  IInv'
<1>1. CASE Appear
  BY <1>1, AppearInv
<1>2. CASE Reopen
  BY <1>2, ReopenInv
<1>3. CASE ServiceAdds
  BY <1>3, ServiceAddsInv
<1>4. CASE ShowHourly
  BY <1>4, ShowHourlyInv
<1>5. CASE ShowDaily
  BY <1>5, ShowDailyInv
<1>6. CASE Hour
  BY <1>6, HourInv
<1>7. ASSUME NEW c \in chains, Get(c)
      PROVE  IInv'
  BY <1>7, AnsweredInv, GetFailsInv DEF Get
<1>8. ASSUME NEW w \in availableWeeks, SelectWeek(w)
      PROVE  IInv'
  BY <1>8, SelectWeekInv
<1>9. ASSUME NEW d \in Dates, PickDate(d)
      PROVE  IInv'
  BY <1>9, PickDateInv
<1>10. CASE UNCHANGED vars
  <2>1. UNCHANGED <<calendar, storeVars, userId, chains, dailyVars, hourVars, used>>
    BY <1>10 DEF vars, calendar, storeVars, dailyVars, hourVars
  <2>2. QED
    BY <2>1, Parts, PartsNext, StoreFrame, DailyFrame, HourlyFrame
<1>11. QED
  BY <1>1, <1>2, <1>3, <1>4, <1>5, <1>6, <1>7, <1>8, <1>9, <1>10 DEF Next

(* The invariant holds in every behaviour.                                 *)
THEOREM Invariance == Spec => []IInv
<1>1. Init => IInv
  BY InitInv, ConstantsAssumption
<1>2. IInv /\ [Next]_vars => IInv'
  BY StepInv, ConstantsAssumption
<1>3. QED
  BY <1>1, <1>2, PTL DEF Spec

-----------------------------------------------------------------------------
(* The types of the state, for any data, calendar and bounds.              *)
THEOREM TypeCorrect == Spec => []TypeOK
<1>1. IInv => TypeOK
  BY DEF IInv
<1>2. QED
  BY <1>1, Invariance, PTL

(* Whenever no chain is under way, however the answers, failures and       *)
(* cached answers of overlapping chains came, the ranges are those of the  *)
(* days on hand and the progress view is gone.                             *)
THEOREM ChainsSettleHolds == Spec => []ChainsSettle
<1>1. IInv => ChainsSettle
  BY DEF IInv
<1>2. QED
  BY <1>1, Invariance, PTL

(* A range longer than a week joins the two ends of one calendar year,     *)
(* whatever the calendar's week rules and the days with data.              *)
THEOREM LongRangeIsAYearHolds == Spec => []LongRangeIsAYear
<1>1. IInv => LongRangeIsAYear
  <2>1. SUFFICES ASSUME IInv, NEW w \in availableWeeks, w.endDate - w.startDate > 6
                 PROVE  LET y == Year(w.startDate) IN
                        /\ y = Year(w.endDate)
                        /\ w.startDate < NewYear(y) + 14 /\ NewYear(y + 1) - 14 <= w.endDate
                        /\ w.startDate < FirstWeek(y) \/ FirstWeek(y + 1) <= w.endDate
    BY DEF LongRangeIsAYear
  <2>2. ConstantsAssumption /\ Calendar
    BY <2>1, ConstantsAssumption, IsCalendar
  <2>3. /\ w.startDate \in Days /\ w.endDate \in Days
        /\ WeekKey(w.startDate) = WeekKey(w.endDate)
    BY <2>1 DEF IInv, TypeOK, Week, Keyed
  <2>4. QED
    BY <2>1, <2>2, <2>3, LongRange
<1>2. QED
  BY <1>1, Invariance, PTL

(* A notification comes with at least two predictions that the view model  *)
(* did not hold: the count it compares with is that of the days on hand.   *)
LEMMA MoreAreNew ==
    ASSUME ConstantsAssumption, NEW old \in SUBSET Days, NEW new \in SUBSET Days,
           Cardinality(new) > Cardinality(old) + 1
    PROVE  Cardinality(new \ old) > 1
<1>1. /\ IsFiniteSet(old) /\ IsFiniteSet(new)
      /\ Cardinality(old) \in Nat /\ Cardinality(new) \in Nat
      /\ Cardinality(new \ old) \in Nat /\ Cardinality(new \cap old) \in Nat
  BY DaysFinite
<1>2. Cardinality(new \ old) = Cardinality(new) - Cardinality(new \cap old)
  BY <1>1, FS_Difference
<1>3. Cardinality(new \cap old) <= Cardinality(old)
  BY <1>1, FS_Subset
<1>4. QED
  BY <1>1, <1>2, <1>3

LEMMA StepNotifies ==
    ASSUME ConstantsAssumption, IInv, [Next]_vars, notified' > notified
    PROVE  Cardinality(dailyPredictions' \ dailyPredictions) > 1
<1>1. notified \in Nat
  BY Parts DEF Daily
<1>2. ~Reopen
  BY <1>1 DEF Reopen
<1>3. notified' # notified
  BY <1>1
<1>4. PICK c \in chains : \E days \in SUBSET Days : PredictionsAnswered(c, days)
  <2>1. PICK c \in chains : FromServer(c) \/ FromCache(c)
    BY <1>2, <1>3 DEF Next, vars, Appear, ServiceAdds, ShowHourly, ShowDaily, Hour,
                      HourlyAnswered, HourlyFails, Get, GetFails, SelectWeek, PickDate,
                      dailyVars
  <2>2. \/ PredictionsAnswered(c, predictions) \/ PredictionsAnswered(c, cache.predictions)
    BY <1>3, <2>1 DEF FromServer, FromCache, UsagesAnswered
  <2>3. predictions \in SUBSET Days /\ cache.predictions \in SUBSET Days
    BY Parts DEF Store
  <2>4. QED
    BY <2>2, <2>3
<1>5. PICK days \in SUBSET Days : PredictionsAnswered(c, days)
  BY <1>4
<1>6. /\ dailyPredictions' = days /\ dailyPredictions \in SUBSET Days
      /\ Cardinality(days) > Cardinality(dailyPredictions) + 1
  BY <1>3, <1>5, Parts DEF PredictionsAnswered, Daily, Counted
<1>7. QED
  BY <1>6, MoreAreNew

(* "Notify only if user receives more than 1 new prediction": whenever the *)
(* app notifies, the view model has just received at least two predictions *)
(* it did not hold, whatever chains overlap and whatever the cache answers.*)
THEOREM NotifiesNewHolds == Spec => NotifiesNew
<1>1. IInv /\ [Next]_vars =>
          [notified' > notified =>
              Cardinality(dailyPredictions' \ dailyPredictions) > 1]_vars
  BY StepNotifies, ConstantsAssumption
<1>2. QED
  BY <1>1, Invariance, PTL DEF Spec, NotifiesNew

=============================================================================
