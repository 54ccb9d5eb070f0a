------------------------ MODULE DeferredCallsProofs ------------------------
(***************************************************************************)
(* What holds of the deferred calls for every set of delays and of times   *)
(* the clock may be set to, and for any number of calls and restarts.      *)
(*                                                                         *)
(* The module has four parts: the calendar, which is shown to count the    *)
(* days as people do; records and lists of calls, with what each operation *)
(* makes of them; the invariant of the records, step by step; and the      *)
(* seconds that the calls wait for.                                        *)
(***************************************************************************)
EXTENDS DeferredCalls, FiniteSetTheorems, SequenceTheorems, WellFoundedInduction, TLAPS

-----------------------------------------------------------------------------
(* The days of the calendar before a year, counted from 1601, and what is  *)
(* meant by the date of a full time: a day of a month of a year, as far    *)
(* from the first day of 1601 as the full time says.                       *)
DaysTo(years) == 365 * years + LeapDays(years)
MonthLength(year, month) == MonthLengths(year)[month]
IsDateOf(dt, ft) ==
    /\ dt \in [year : Nat, month : 1..12, day : Nat \ {0}, sec : Nat]
    /\ dt.year >= FirstYear
    /\ dt.day <= MonthLength(dt.year, dt.month)
    /\ ft.day = DaysTo(dt.year - FirstYear) + DaysBefore(dt.year, dt.month) + dt.day - 1
    /\ ft.sec = dt.sec
FullTimes == [day : Nat, sec : Nat]

-----------------------------------------------------------------------------
(* A leap day is added exactly with a leap year.                           *)
LEMMA LeapDaysLemma ==
    ASSUME NEW n \in Nat
    PROVE  /\ LeapDays(n) \in Nat
           /\ LeapDays(n + 1) = LeapDays(n) + IF Leap(n + 1) THEN 1 ELSE 0
<1>1. (n + 1) \div 4 = n \div 4 + IF (n + 1) % 4 = 0 THEN 1 ELSE 0
  OBVIOUS
<1>2. (n + 1) \div 100 = n \div 100 + IF (n + 1) % 100 = 0 THEN 1 ELSE 0
  OBVIOUS
<1>3. (n + 1) \div 400 = n \div 400 + IF (n + 1) % 400 = 0 THEN 1 ELSE 0
  OBVIOUS
<1>4. (n + 1) % 400 = 0 => (n + 1) % 100 = 0
  OBVIOUS
<1>5. (n + 1) % 100 = 0 => (n + 1) % 4 = 0
  OBVIOUS
<1>6. LeapDays(n) \in Nat
  BY DEF LeapDays
<1>7. QED
  BY <1>1, <1>2, <1>3, <1>4, <1>5, <1>6 DEF LeapDays, Leap

LEMMA LeapShift ==
    ASSUME NEW n \in Nat
    PROVE  Leap(n + FirstYear) <=> Leap(n + 1)
<1>1. (n + 1601) % 400 = (n + 1) % 400
  OBVIOUS
<1>2. (n + 1601) % 4 = (n + 1) % 4
  OBVIOUS
<1>3. (n + 1601) % 100 = (n + 1) % 100
  OBVIOUS
<1>4. QED
  BY <1>1, <1>2, <1>3 DEF Leap, FirstYear

LEMMA YearLength ==
    ASSUME NEW n \in Nat
    PROVE  /\ DaysTo(n) \in Nat
           /\ DaysTo(n + 1) = DaysTo(n) + 365 + IF Leap(n + FirstYear) THEN 1 ELSE 0
  BY LeapDaysLemma, LeapShift DEF DaysTo

(* Years follow each other.                                                *)
LEMMA DaysToGrows ==
    ASSUME NEW n \in Nat, NEW m \in Nat, n <= m
    PROVE  /\ DaysTo(n) + 365 * (m - n) <= DaysTo(m)
           /\ LeapDays(n) <= LeapDays(m)
<1> DEFINE bad == {k \in Nat : /\ n <= k
                               /\ ~ (/\ DaysTo(n) + 365 * (k - n) <= DaysTo(k)
                                     /\ LeapDays(n) <= LeapDays(k))}
<1>1. SUFFICES ASSUME bad # {} PROVE FALSE
  OBVIOUS
<1>2. PICK k \in bad : \A i \in bad : ~(<<i, k>> \in OpToRel(<, Nat))
  <2>1. bad \subseteq Nat
    OBVIOUS
  <2>2. QED
    BY <1>1, <2>1, NatLessThanWellFounded, WFMin
<1>3. \A i \in bad : ~(i < k)
  BY <1>2 DEF OpToRel
<1>4. /\ k \in Nat /\ n <= k
      /\ ~(DaysTo(n) + 365 * (k - n) <= DaysTo(k) /\ LeapDays(n) <= LeapDays(k))
  OBVIOUS
<1> HIDE DEF bad
<1>a. k # n
  BY <1>4, YearLength, LeapDaysLemma
<1>5. k - 1 \in Nat /\ n <= k - 1 /\ k - 1 \notin bad
  BY <1>3, <1>4, <1>a
<1>6. DaysTo(n) + 365 * (k - 1 - n) <= DaysTo(k - 1) /\ LeapDays(n) <= LeapDays(k - 1)
  BY <1>5 DEF bad
<1>7. DaysTo(k) >= DaysTo(k - 1) + 365 /\ DaysTo(k - 1) \in Nat /\ DaysTo(n) \in Nat
  <2>1. k - 1 + 1 = k
    BY <1>4
  <2>2. QED
    BY <1>5, <2>1, YearLength
<1>8. LeapDays(k) >= LeapDays(k - 1) /\ LeapDays(k - 1) \in Nat /\ LeapDays(n) \in Nat /\ LeapDays(k) \in Nat
  <2>1. k - 1 + 1 = k
    BY <1>4
  <2>2. QED
    BY <1>4, <1>5, <2>1, LeapDaysLemma
<1>9. LeapDays(n) <= LeapDays(k)
  BY <1>6, <1>8
<1>10. DaysTo(n) + 365 * (k - n) <= DaysTo(k)
  <2>1. 365 * (k - n) = 365 * (k - 1 - n) + 365
    BY <1>4
  <2>2. DaysTo(k) \in Int /\ 365 * (k - 1 - n) \in Int
    BY <1>4, YearLength
  <2>3. QED
    BY <1>6, <1>7, <2>1, <2>2
<1>11. QED
  BY <1>4, <1>9, <1>10

(* The leap years among the last b of n years, as FullTimeToDateTime       *)
(* counts them.                                                            *)
LEMMA LeapYearsLemma ==
    ASSUME NEW n \in Nat, NEW b \in 0..n
    PROVE  Cardinality({y \in n - b + 1 .. n : Leap(y)}) = LeapDays(n) - LeapDays(n - b)
<1> DEFINE years(k) == {y \in n - k + 1 .. n : Leap(y)}
           bad == {k \in 0..n : Cardinality(years(k)) # LeapDays(n) - LeapDays(n - k)}
<1>1. SUFFICES ASSUME bad # {} PROVE FALSE
  OBVIOUS
<1>2. bad \subseteq Nat
  OBVIOUS
<1>3. PICK k \in bad : \A i \in bad : ~(i < k)
  <2> HIDE DEF bad
  <2>1. \E k \in bad : \A i \in bad : ~(<<i, k>> \in OpToRel(<, Nat))
    BY <1>1, <1>2, NatLessThanWellFounded, WFMin
  <2>2. QED
    BY <1>2, <2>1 DEF OpToRel
<1>4. \A m \in 0..n : LeapDays(m) \in Nat
  BY LeapDaysLemma
<1>5. k # 0
  <2>1. years(0) = {}
    OBVIOUS
  <2>2. Cardinality(years(0)) = 0
    BY <2>1, FS_EmptySet
  <2>3. LeapDays(n) - LeapDays(n - 0) = 0
    BY <1>4
  <2>4. QED
    BY <2>2, <2>3
<1>6. k - 1 \in 0..n /\ Cardinality(years(k - 1)) = LeapDays(n) - LeapDays(n - (k - 1))
  <2>1. k - 1 \in 0..n /\ k - 1 < k
    BY <1>5
  <2>2. k - 1 \notin bad
    BY <1>3, <2>1
  <2>3. QED
    BY <2>1, <2>2
<1>7. IsFiniteSet(years(k - 1))
  <2>1. IsFiniteSet(n - (k - 1) + 1 .. n) /\ years(k - 1) \subseteq n - (k - 1) + 1 .. n
    BY <1>6, FS_Interval
  <2>2. QED
    BY <2>1, FS_Subset
<1>8. n - k + 1 \notin years(k - 1)
  BY <1>6
<1>9. LeapDays(n - k + 1) = LeapDays(n - k) + IF Leap(n - k + 1) THEN 1 ELSE 0
  <2>1. n - k \in Nat
    OBVIOUS
  <2>2. QED
    BY <2>1, LeapDaysLemma
<1>10. n - (k - 1) = n - k + 1 /\ n - k + 1 \in 0..n
  BY <1>5
<1>11. CASE Leap(n - k + 1)
  <2>1. years(k) = years(k - 1) \cup {n - k + 1}
    BY <1>5, <1>11
  <2>2. Cardinality(years(k)) = Cardinality(years(k - 1)) + 1
    BY <1>7, <1>8, <2>1, FS_AddElement
  <2>3. Cardinality(years(k)) = LeapDays(n) - LeapDays(n - k)
    BY <1>4, <1>6, <1>9, <1>10, <1>11, <2>2
  <2>4. QED
    BY <2>3
<1>12. CASE ~Leap(n - k + 1)
  <2>1. years(k) = years(k - 1)
    BY <1>5, <1>12
  <2>2. LeapDays(n - (k - 1)) = LeapDays(n - k)
    <3>1. n - k \in 0..n
      OBVIOUS
    <3>2. QED
      BY <1>4, <1>9, <1>10, <1>12, <3>1
  <2>3. Cardinality(years(k)) = LeapDays(n) - LeapDays(n - k)
    BY <1>6, <2>1, <2>2
  <2>4. QED
    BY <2>3
<1>13. QED
  BY <1>11, <1>12

-----------------------------------------------------------------------------
(* The months of a year follow each other, the last one ends with it.      *)
LEMMA MonthsLemma ==
    ASSUME NEW year \in Nat, NEW month \in 1..12
    PROVE  /\ DaysBefore(year, 1) = 0
           /\ DaysBefore(year, month) \in Nat
           /\ MonthLength(year, month) \in 28..31
           /\ month < 12 => DaysBefore(year, month + 1) = DaysBefore(year, month) + MonthLength(year, month)
           /\ DaysBefore(year, 12) + MonthLength(year, 12) = 365 + IF Leap(year) THEN 1 ELSE 0
<1> USE DEF DaysBefore, Count, MonthLength, MonthLengths
<1>1. month \in {1, 2, 3, 4, 5, 6, 7, 8, 9, 10, 11, 12}
  OBVIOUS
<1>2. DaysBefore(year, 1) = 0
  OBVIOUS
<1>3. DaysBefore(year, 12) + MonthLength(year, 12) = 365 + IF Leap(year) THEN 1 ELSE 0
  OBVIOUS
<1>4. DaysBefore(year, month) \in Nat /\ MonthLength(year, month) \in 28..31
  BY <1>1
<1>5. ASSUME month < 12
      PROVE  DaysBefore(year, month + 1) = DaysBefore(year, month) + MonthLength(year, month)
  BY <1>1, <1>5
<1>6. QED
  BY <1>2, <1>3, <1>4, <1>5

LEMMA MonthsOrdered ==
    ASSUME NEW year \in Nat, NEW m1 \in 1..12, NEW m2 \in 1..12, m1 < m2
    PROVE  DaysBefore(year, m1) + MonthLength(year, m1) <= DaysBefore(year, m2)
<1> USE DEF DaysBefore, Count, MonthLength, MonthLengths
<1>1. m1 \in {1, 2, 3, 4, 5, 6, 7, 8, 9, 10, 11, 12} /\ m2 \in {1, 2, 3, 4, 5, 6, 7, 8, 9, 10, 11, 12}
  OBVIOUS
<1>2. QED
  BY <1>1

-----------------------------------------------------------------------------
(* A full time has one date.                                               *)
LEMMA DateUnique ==
    ASSUME NEW ft, NEW d1, NEW d2, IsDateOf(d1, ft), IsDateOf(d2, ft)
    PROVE  d1 = d2
<1> DEFINE y(d) == d.year - FirstYear
           in(d) == DaysBefore(d.year, d.month) + d.day - 1
<1>1. ASSUME NEW d, IsDateOf(d, ft)
      PROVE  /\ y(d) \in Nat /\ d.year = y(d) + FirstYear /\ d.year \in Nat /\ d.month \in 1..12 /\ d.day \in Nat
             /\ ft.day = DaysTo(y(d)) + in(d)
             /\ in(d) \in Nat
             /\ in(d) < DaysBefore(d.year, d.month) + MonthLength(d.year, d.month)
             /\ DaysTo(y(d)) <= ft.day /\ ft.day < DaysTo(y(d) + 1)
             /\ DaysTo(y(d)) \in Nat /\ DaysTo(y(d) + 1) \in Nat
  <2>1. /\ y(d) \in Nat /\ d.year = y(d) + FirstYear /\ d.year \in Nat /\ d.month \in 1..12
        /\ d.day \in Nat \ {0} /\ d.day <= MonthLength(d.year, d.month)
        /\ ft.day = DaysTo(y(d)) + DaysBefore(d.year, d.month) + d.day - 1
    BY <1>1 DEF IsDateOf, FirstYear
  <2>2. DaysBefore(d.year, d.month) \in Nat /\ MonthLength(d.year, d.month) \in 28..31
    BY <2>1, MonthsLemma
  <2>3. in(d) < 365 + IF Leap(d.year) THEN 1 ELSE 0
    <3>0. /\ DaysBefore(d.year, 12) \in Nat /\ MonthLength(d.year, 12) \in 28..31
          /\ DaysBefore(d.year, 12) + MonthLength(d.year, 12) = 365 + IF Leap(d.year) THEN 1 ELSE 0
      <4>1. 12 \in 1..12
        OBVIOUS
      <4>2. QED
        BY <2>1, <4>1, MonthsLemma
    <3>1. CASE d.month = 12
      BY <2>1, <2>2, <3>0, <3>1
    <3>2. CASE d.month < 12
      <4>1. DaysBefore(d.year, d.month) + MonthLength(d.year, d.month) <= DaysBefore(d.year, 12)
        BY <2>1, <3>2, MonthsOrdered
      <4>2. QED
        BY <2>1, <2>2, <3>0, <4>1
    <3>3. QED
      BY <2>1, <3>1, <3>2
  <2>4. /\ DaysTo(y(d)) \in Nat
        /\ DaysTo(y(d) + 1) = DaysTo(y(d)) + 365 + IF Leap(d.year) THEN 1 ELSE 0
    BY <2>1, YearLength
  <2>5. QED
    BY <2>1, <2>2, <2>3, <2>4
<1> HIDE DEF y, in
<1>2. y(d1) = y(d2)
  <2>1. ASSUME NEW n \in Nat, NEW m \in Nat, n < m, DaysTo(m) <= ft.day, ft.day < DaysTo(n + 1),
               ft.day \in Nat
        PROVE  FALSE
    <3>1. DaysTo(n + 1) + 365 * (m - (n + 1)) <= DaysTo(m)
      BY <2>1, DaysToGrows
    <3>2. DaysTo(n + 1) \in Nat /\ DaysTo(m) \in Nat
      BY YearLength
    <3>3. QED
      BY <2>1, <3>1, <3>2
  <2>2. ft.day \in Nat
    BY <1>1
  <2>3. QED
    BY <1>1, <2>1, <2>2
<1>3. d1.year = d2.year /\ in(d1) = in(d2)
  BY <1>1, <1>2
<1>4. d1.month = d2.month
  <2>1. ASSUME NEW a, NEW b, IsDateOf(a, ft), IsDateOf(b, ft), a.year = b.year, in(a) = in(b), a.month < b.month
        PROVE  FALSE
    <3>1. DaysBefore(a.year, a.month) + MonthLength(a.year, a.month) <= DaysBefore(b.year, b.month)
      BY <1>1, <2>1, MonthsOrdered
    <3>2. in(b) >= DaysBefore(b.year, b.month)
      <4>1. DaysBefore(b.year, b.month) \in Nat
        BY <1>1, <2>1, MonthsLemma
      <4>2. QED
        BY <2>1, <4>1 DEF IsDateOf, in
    <3>3. /\ in(a) \in Nat /\ in(a) < DaysBefore(a.year, a.month) + MonthLength(a.year, a.month)
      BY <1>1, <2>1
    <3>4. /\ DaysBefore(b.year, b.month) \in Nat
          /\ DaysBefore(a.year, a.month) \in Nat /\ MonthLength(a.year, a.month) \in Nat
      <4>1. a.year \in Nat /\ a.month \in 1..12 /\ b.year \in Nat /\ b.month \in 1..12
        BY <1>1, <2>1
      <4>2. DaysBefore(a.year, a.month) \in Nat /\ MonthLength(a.year, a.month) \in 28..31
        BY <4>1, MonthsLemma
      <4>3. DaysBefore(b.year, b.month) \in Nat
        BY <4>1, MonthsLemma
      <4>4. QED
        BY <4>2, <4>3
    <3>5. QED
      BY <2>1, <3>1, <3>2, <3>3, <3>4
  <2>2. d1.month \in 1..12 /\ d2.month \in 1..12
    BY <1>1
  <2>3. QED
    BY <1>3, <2>1, <2>2
<1>5. d1.day = d2.day
  <2>1. DaysBefore(d1.year, d1.month) \in Nat
    BY <1>1, MonthsLemma
  <2>2. d1.day \in Nat /\ d2.day \in Nat
    BY <1>1
  <2>3. DaysBefore(d1.year, d1.month) + d1.day - 1 = DaysBefore(d1.year, d1.month) + d2.day - 1
    BY <1>3, <1>4 DEF in
  <2>4. QED
    BY <2>1, <2>2, <2>3
<1>6. QED
  <2>1. /\ d1 \in [year : Nat, month : 1..12, day : Nat \ {0}, sec : Nat]
        /\ d2 \in [year : Nat, month : 1..12, day : Nat \ {0}, sec : Nat]
        /\ d1.sec = d2.sec
    BY DEF IsDateOf
  <2>2. QED
    BY <1>3, <1>4, <1>5, <2>1

(* FullTimeToDateTime finds it.                                            *)
LEMMA FullTimeLemma ==
    ASSUME NEW ft \in FullTimes
    PROVE  IsDateOf(FullTimeToDateTime(ft), ft)
<1> DEFINE years    == ft.day \div 365
           rest     == (ft.day % 365) - LeapDays(years)
           Given(b) == 365 * b + Cardinality({y \in years - b + 1 .. years : Leap(y)})
           options  == {b \in 0..1 + LeapDays(years) \div 365 : rest + Given(b) >= 0}
           borrowed == Min(options)
           year     == FirstYear + years - borrowed
           day      == rest + Given(borrowed)
           fitting  == {m \in 1..12 : DaysBefore(year, m) <= day}
           month    == Max(fitting)
<1>1. /\ ft.day \in Nat /\ years \in Nat /\ ft.day % 365 \in 0..364
      /\ ft.day = 365 * years + (ft.day % 365) /\ ft.sec \in Nat
  <2>1. ft.day \in Nat /\ ft.sec \in Nat
    BY DEF FullTimes
  <2>2. ASSUME NEW n \in Nat
        PROVE  n \div 365 \in Nat /\ n % 365 \in 0..364 /\ n = 365 * (n \div 365) + (n % 365)
    OBVIOUS
  <2>3. QED
    BY <2>1, <2>2 DEF years
<1> HIDE DEF years, rest, Given, options, borrowed, year, day, fitting, month
<1>2. LeapDays(years) \in Nat
  BY <1>1, LeapDaysLemma
<1>3. \A b \in 0..years : rest + Given(b) = ft.day - DaysTo(years - b)
  <2>1. TAKE b \in 0..years
  <2>2. Cardinality({y \in years - b + 1 .. years : Leap(y)}) = LeapDays(years) - LeapDays(years - b)
    BY <1>1, LeapYearsLemma
  <2>3. years - b \in Nat
    BY <1>1
  <2>4. LeapDays(years - b) \in Nat
    BY <2>3, LeapDaysLemma
  <2>5. QED
    <3>1. Given(b) = 365 * b + (LeapDays(years) - LeapDays(years - b))
      BY <2>2 DEF Given
    <3>2. DaysTo(years - b) = 365 * (years - b) + LeapDays(years - b)
      BY DEF DaysTo
    <3>3. rest = (ft.day - 365 * years) - LeapDays(years)
      BY <1>1, <1>2 DEF rest
    <3>4. b \in Nat
      BY <1>1
    <3>5. QED
      BY <1>1, <1>2, <2>4, <3>1, <3>2, <3>3, <3>4
<1>5. \A b \in 0..years : years - b \in Nat /\ DaysTo(years - b) \in Nat
  <2>1. TAKE b \in 0..years
  <2>2. years - b \in Nat
    BY <1>1
  <2>3. QED
    BY <2>2, YearLength
<1>6. \E b \in options : b \in 0..years
  <2>1. CASE years = 0
    <3>1. LeapDays(0) = 0
      BY DEF LeapDays
    <3>2. 0 \in 0..1 + LeapDays(years) \div 365
      BY <1>2
    <3>3. DaysTo(years - 0) = 0
      BY <2>1, <3>1 DEF DaysTo
    <3>4. rest + Given(0) >= 0
      <4>1. 0 \in 0..years
        BY <1>1
      <4>2. rest + Given(0) = ft.day - 0
        BY <1>3, <3>3, <4>1
      <4>3. QED
        BY <1>1, <4>2
    <3>5. 0 \in options
      BY <3>2, <3>4 DEF options
    <3>6. 0 \in 0..years
      BY <1>1
    <3>7. QED
      BY <3>5, <3>6
  <2>2. CASE years > 0
    <3> DEFINE most == 1 + LeapDays(years) \div 365
    <3>1. LeapDays(years) <= 365 * most /\ most \in Nat /\ most \in 0..most
      BY <1>2
    <3>2. most <= years
      <4>1. LeapDays(years) <= years
        BY <1>1 DEF LeapDays
      <4>2. QED
        BY <1>1, <1>2, <2>2, <4>1
    <3> HIDE DEF most
    <3>a. most \in 0..years
      BY <1>1, <3>1, <3>2
    <3>3. DaysTo(years - most) + 365 * most <= DaysTo(years)
      <4>1. years - most \in Nat /\ years - most <= years /\ years - (years - most) = most
        BY <1>1, <3>1, <3>2
      <4>2. QED
        BY <1>1, <4>1, DaysToGrows
    <3>4. rest + Given(most) >= 0
      <4>1. DaysTo(years) = 365 * years + LeapDays(years)
        BY DEF DaysTo
      <4>2. rest + Given(most) = ft.day - DaysTo(years - most)
        BY <1>3, <3>a
      <4>3. DaysTo(years - most) \in Nat
        BY <1>5, <3>a
      <4>4. DaysTo(years - most) <= 365 * years
        BY <1>1, <1>2, <3>1, <3>3, <4>1, <4>3
      <4>5. 365 * years <= ft.day
        BY <1>1
      <4>6. ft.day - DaysTo(years - most) >= 0
        BY <1>1, <4>3, <4>4, <4>5
      <4>7. QED
        BY <4>2, <4>6
    <3>5. QED
      BY <3>1, <3>a, <3>4 DEF options, most
  <2>3. QED
    BY <1>1, <2>1, <2>2
<1>7. options \subseteq Nat
  BY <1>2 DEF options
<1>8. borrowed \in options /\ \A b \in options : borrowed <= b
  <2>1. \E b \in options : \A c \in options : ~(<<c, b>> \in OpToRel(<, Nat))
    BY <1>6, <1>7, NatLessThanWellFounded, WFMin
  <2>2. PICK b \in options : \A c \in options : ~(<<c, b>> \in OpToRel(<, Nat))
    BY <2>1
  <2>3. \A c \in options : b =< c
    <3>1. TAKE c \in options
    <3>2. b \in Nat /\ c \in Nat
      BY <1>7
    <3>3. ~(c < b)
      BY <2>2, <3>2 DEF OpToRel
    <3>4. QED
      BY <3>2, <3>3
  <2>4. QED
    BY <2>3 DEF borrowed, Min
<1>9. borrowed \in 0..years
  BY <1>1, <1>6, <1>7, <1>8
<1>10. /\ years - borrowed \in Nat /\ DaysTo(years - borrowed) \in Nat
       /\ year = FirstYear + (years - borrowed) /\ year \in Nat
       /\ day \in Nat /\ ft.day = DaysTo(years - borrowed) + day
  <2>1. rest + Given(borrowed) >= 0
    BY <1>8 DEF options
  <2>2. rest + Given(borrowed) = ft.day - DaysTo(years - borrowed)
    BY <1>3, <1>9
  <2>3. years - borrowed \in Nat /\ DaysTo(years - borrowed) \in Nat
    BY <1>5, <1>9
  <2>4. day = ft.day - DaysTo(years - borrowed)
    BY <2>2 DEF day
  <2>5. year = FirstYear + (years - borrowed) /\ year \in Nat
    BY <1>1, <1>9, <2>3 DEF year, FirstYear
  <2>6. day \in Nat /\ ft.day = DaysTo(years - borrowed) + day
    <3>1. day >= 0
      BY <2>1, <2>2, <2>4
    <3>2. ft.day \in Nat
      BY <1>1
    <3>3. QED
      BY <2>3, <2>4, <3>1, <3>2
  <2>7. QED
    BY <2>3, <2>5, <2>6
<1>11. ft.day < DaysTo(years - borrowed + 1)
  <2>1. CASE borrowed = 0
    <3>1. DaysTo(years + 1) >= 365 * (years + 1)
      <4>1. years + 1 \in Nat
        BY <1>1
      <4>2. LeapDays(years + 1) \in Nat
        BY <4>1, LeapDaysLemma
      <4>3. QED
        BY <1>1, <4>2 DEF DaysTo
    <3>2. DaysTo(years + 1) \in Nat
      <4>1. years + 1 \in Nat
        BY <1>1
      <4>2. QED
        BY <4>1, YearLength
    <3>3. ft.day < 365 * (years + 1)
      BY <1>1
    <3>4. QED
      BY <1>1, <2>1, <3>1, <3>2, <3>3
  <2>2. CASE borrowed > 0
    <3>1. borrowed - 1 \in 0..years /\ years - (borrowed - 1) = years - borrowed + 1
      BY <1>1, <1>9, <2>2
    <3>2. borrowed - 1 \notin options
      BY <1>8, <1>9, <2>2
    <3>3. borrowed - 1 \in 0..1 + LeapDays(years) \div 365
      <4>1. borrowed \in 0..1 + LeapDays(years) \div 365
        BY <1>8 DEF options
      <4>2. QED
        BY <1>2, <3>1, <4>1
    <3>4. ~(rest + Given(borrowed - 1) >= 0)
      BY <3>2, <3>3 DEF options
    <3>5. rest + Given(borrowed - 1) = ft.day - DaysTo(years - borrowed + 1)
      BY <1>3, <3>1
    <3>6. DaysTo(years - borrowed + 1) \in Nat
      BY <1>5, <3>1
    <3>7. QED
      BY <1>1, <3>4, <3>5, <3>6
  <2>3. QED
    BY <1>9, <2>1, <2>2
<1>12. day < 365 + IF Leap(year) THEN 1 ELSE 0
  <2>1. /\ DaysTo(years - borrowed + 1) = DaysTo(years - borrowed) + 365
                                              + IF Leap(years - borrowed + FirstYear) THEN 1 ELSE 0
    BY <1>10, YearLength
  <2>2. years - borrowed + FirstYear = year
    BY <1>10 DEF FirstYear
  <2>3. QED
    BY <1>1, <1>10, <1>11, <2>1, <2>2
<1>13. /\ month \in fitting /\ \A m \in fitting : month >= m
  <2>1. 1 \in fitting
    <3>1. 1 \in 1..12 /\ DaysBefore(year, 1) = 0
      BY <1>10, MonthsLemma
    <3>2. QED
      BY <1>10, <3>1 DEF fitting
  <2>2. {12 - m : m \in fitting} \subseteq Nat /\ {12 - m : m \in fitting} # {}
    BY <2>1 DEF fitting
  <2>3. PICK n \in {12 - m : m \in fitting} : \A k \in {12 - m : m \in fitting} :
                                                    ~(<<k, n>> \in OpToRel(<, Nat))
    BY <2>2, NatLessThanWellFounded, WFMin
  <2>4. PICK m \in fitting : n = 12 - m
    OBVIOUS
  <2>5. \A k \in fitting : m >= k
    <3>1. TAKE k \in fitting
    <3>2. m \in 1..12 /\ k \in 1..12 /\ 12 - k \in Nat /\ n \in Nat
      BY <2>4 DEF fitting
    <3>3. ~(12 - k < n)
      BY <2>3, <3>2 DEF OpToRel
    <3>4. QED
      BY <2>4, <3>2, <3>3
  <2>6. QED
    BY <2>5 DEF month, Max
<1>14. /\ month \in 1..12 /\ DaysBefore(year, month) <= day
       /\ DaysBefore(year, month) \in Nat /\ MonthLength(year, month) \in 28..31
  <2>1. month \in 1..12 /\ DaysBefore(year, month) <= day
    BY <1>13 DEF fitting
  <2>2. QED
    BY <1>10, <2>1, MonthsLemma
<1>15. day < DaysBefore(year, month) + MonthLength(year, month)
  <2>1. CASE month = 12
    BY <1>10, <1>12, <1>14, <2>1, MonthsLemma
  <2>2. CASE month < 12
    <3>1. month + 1 \in 1..12 /\ month + 1 \notin fitting
      BY <1>13, <1>14, <2>2
    <3>2. ~(DaysBefore(year, month + 1) <= day)
      BY <3>1 DEF fitting
    <3>3. DaysBefore(year, month + 1) = DaysBefore(year, month) + MonthLength(year, month)
      BY <1>10, <1>14, <2>2, MonthsLemma
    <3>4. QED
      BY <1>10, <1>14, <3>2, <3>3
  <2>3. QED
    BY <1>14, <2>1, <2>2
<1>16. FullTimeToDateTime(ft) = [year |-> year, month |-> month, day |-> day - DaysBefore(year, month) + 1,
                                 sec |-> ft.sec]
  BY DEF FullTimeToDateTime, years, rest, Given, options, borrowed, year, day, fitting, month
<1>17. year - FirstYear = years - borrowed /\ year >= FirstYear
  BY <1>10 DEF FirstYear
<1> DEFINE dt == [year |-> year, month |-> month, day |-> day - DaysBefore(year, month) + 1, sec |-> ft.sec]
<1>18. dt.day \in Nat \ {0} /\ dt.day <= MonthLength(year, month)
       /\ ft.day = DaysTo(years - borrowed) + DaysBefore(year, month) + dt.day - 1
  <2>1. dt.day = day - DaysBefore(year, month) + 1
    OBVIOUS
  <2> HIDE DEF dt
  <2>2. QED
    <3>1. DaysBefore(year, month) \in Nat /\ MonthLength(year, month) \in Nat
      BY <1>14
    <3>2. dt.day \in Nat \ {0} /\ dt.day <= MonthLength(year, month)
      BY <1>10, <1>14, <1>15, <2>1, <3>1
    <3>3. QED
      BY <1>1, <1>10, <2>1, <3>1, <3>2
<1>19. IsDateOf(dt, ft)
  BY <1>1, <1>10, <1>14, <1>17, <1>18 DEF IsDateOf
<1>20. QED
  BY <1>16, <1>19

(* DateTimeToFullTime says when the first day of a month is, for the day   *)
(* of the month is lost.                                                   *)
LEMMA DateTimeLemma ==
    ASSUME NEW dt \in [year : Nat, month : 1..12, day : Nat \ {0}, sec : Nat], dt.year >= FirstYear
    PROVE  /\ DateTimeToFullTime(dt) \in FullTimes
           /\ IsDateOf([dt EXCEPT !.day = 1], DateTimeToFullTime(dt))
<1> DEFINE years == dt.year - FirstYear
<1>1. /\ years \in Nat /\ dt.month \in 1..12 /\ dt.year \in Nat /\ dt.sec \in Nat
  BY DEF FirstYear
<1>2. /\ DaysBefore(dt.year, dt.month) \in Nat /\ MonthLength(dt.year, dt.month) \in 28..31
  BY <1>1, MonthsLemma
<1>3. DaysTo(years) \in Nat
  BY <1>1, YearLength
<1>4. LeapDays(years) \in Nat
  BY <1>1, LeapDaysLemma
<1>5. DateTimeToFullTime(dt) = [day |-> DaysTo(years) + DaysBefore(dt.year, dt.month), sec |-> dt.sec]
  BY <1>1, <1>2, <1>4 DEF DateTimeToFullTime, DaysTo
<1>6. QED
  BY <1>1, <1>2, <1>3, <1>5 DEF IsDateOf, FullTimes

(* The day after a date is a day further from the first day of 1601.       *)
LEMMA NextDayLemma ==
    ASSUME NEW ft \in FullTimes, NEW dt, IsDateOf(dt, ft)
    PROVE  IsDateOf(NextDay(dt), [ft EXCEPT !.day = @ + 1])
<1> DEFINE y == dt.year - FirstYear
           next == [ft EXCEPT !.day = @ + 1]
<1>1. /\ dt \in [year : Nat, month : 1..12, day : Nat \ {0}, sec : Nat]
      /\ dt.year >= FirstYear /\ dt.day <= MonthLength(dt.year, dt.month)
      /\ ft.day = DaysTo(y) + DaysBefore(dt.year, dt.month) + dt.day - 1
      /\ ft.sec = dt.sec
  BY DEF IsDateOf
<1>2. /\ dt.year \in Nat /\ dt.month \in 1..12 /\ dt.day \in Nat \ {0} /\ y \in Nat
  BY <1>1 DEF FirstYear
<1>3. /\ DaysBefore(dt.year, dt.month) \in Nat /\ MonthLength(dt.year, dt.month) \in 28..31
      /\ dt.month < 12 => DaysBefore(dt.year, dt.month + 1)
                             = DaysBefore(dt.year, dt.month) + MonthLength(dt.year, dt.month)
  BY <1>2, MonthsLemma
<1>4. DaysTo(y) \in Nat /\ DaysTo(y + 1) = DaysTo(y) + 365 + IF Leap(dt.year) THEN 1 ELSE 0
  <2>1. y + FirstYear = dt.year
    BY <1>2 DEF FirstYear
  <2>2. QED
    BY <1>2, <2>1, YearLength
<1>5. next.day = ft.day + 1 /\ next.sec = ft.sec
  BY DEF FullTimes
<1> HIDE DEF y, next
<1>6. CASE dt.day < MonthLength(dt.year, dt.month)
  <2>1. NextDay(dt) = [dt EXCEPT !.day = @ + 1]
    BY <1>6 DEF NextDay, MonthLength
  <2>2. QED
    BY <1>1, <1>2, <1>3, <1>4, <1>5, <1>6, <2>1 DEF IsDateOf, y
<1>7. CASE dt.day = MonthLength(dt.year, dt.month) /\ dt.month < 12
  <2>1. NextDay(dt) = [dt EXCEPT !.month = @ + 1, !.day = 1]
    BY <1>2, <1>7 DEF NextDay, MonthLength
  <2>2. dt.month + 1 \in 1..12
    BY <1>2, <1>7
  <2>3. MonthLength(dt.year, dt.month + 1) \in 28..31
    BY <1>2, <2>2, MonthsLemma
  <2>4. next.day = DaysTo(y) + DaysBefore(dt.year, dt.month + 1) + 1 - 1
    BY <1>1, <1>2, <1>3, <1>4, <1>5, <1>7
  <2> DEFINE d == NextDay(dt)
  <2>5. /\ d \in [year : Nat, month : 1..12, day : Nat \ {0}, sec : Nat]
        /\ d.year = dt.year /\ d.month = dt.month + 1 /\ d.day = 1 /\ d.sec = dt.sec
    <3>1. /\ dt.sec \in Nat
          /\ d = [year |-> dt.year, month |-> dt.month + 1, day |-> 1, sec |-> dt.sec]
      BY <1>1, <2>1
    <3> HIDE DEF d
    <3>2. QED
      BY <1>2, <2>2, <3>1
  <2> HIDE DEF d
  <2>6. IsDateOf(d, next)
    BY <1>1, <1>5, <2>3, <2>4, <2>5 DEF IsDateOf, y
  <2>7. QED
    BY <2>6 DEF d, next
<1>8. CASE dt.day = MonthLength(dt.year, dt.month) /\ dt.month = 12
  <2>1. NextDay(dt) = [dt EXCEPT !.year = @ + 1, !.month = 1, !.day = 1]
    BY <1>2, <1>8 DEF NextDay, MonthLength
  <2>2. DaysBefore(dt.year, 12) + MonthLength(dt.year, 12) = 365 + IF Leap(dt.year) THEN 1 ELSE 0
    BY <1>2, <1>8, MonthsLemma
  <2>3. dt.year + 1 \in Nat /\ dt.year + 1 >= FirstYear /\ dt.year + 1 - FirstYear = y + 1
    BY <1>1, <1>2 DEF y, FirstYear
  <2>4. 1 \in 1..12
    OBVIOUS
  <2>5. DaysBefore(dt.year + 1, 1) = 0 /\ MonthLength(dt.year + 1, 1) \in 28..31
    BY <2>3, <2>4, MonthsLemma
  <2>6. next.day = DaysTo(y + 1) + 0 + 1 - 1
    BY <1>1, <1>2, <1>3, <1>4, <1>5, <1>8, <2>2
  <2> DEFINE d == NextDay(dt)
  <2>7. /\ d \in [year : Nat, month : 1..12, day : Nat \ {0}, sec : Nat]
        /\ d.year = dt.year + 1 /\ d.month = 1 /\ d.day = 1 /\ d.sec = dt.sec
    <3>1. /\ dt.sec \in Nat
          /\ d = [year |-> dt.year + 1, month |-> 1, day |-> 1, sec |-> dt.sec]
      BY <1>1, <2>1
    <3> HIDE DEF d
    <3>2. QED
      BY <1>2, <2>3, <2>4, <3>1
  <2> HIDE DEF d
  <2>8. IsDateOf(d, next)
    <3>1. /\ d.year >= FirstYear /\ d.day <= MonthLength(d.year, d.month)
          /\ next.day = DaysTo(d.year - FirstYear) + DaysBefore(d.year, d.month) + d.day - 1
          /\ next.sec = d.sec
      <4>1. d.year - FirstYear = y + 1 /\ DaysBefore(d.year, d.month) = 0
            /\ MonthLength(d.year, d.month) \in 28..31 /\ d.day = 1
        <5>1. d.year = dt.year + 1 /\ d.month = 1 /\ d.day = 1
          BY <2>7
        <5>2. DaysBefore(d.year, d.month) = 0 /\ MonthLength(d.year, d.month) \in 28..31
          BY <2>5, <5>1
        <5>3. d.year - FirstYear = y + 1
          BY <1>2, <5>1 DEF y, FirstYear
        <5>4. QED
          BY <5>1, <5>2, <5>3
      <4>2. DaysTo(y + 1) \in Nat
        BY <1>4
      <4>3. next.day = DaysTo(d.year - FirstYear) + DaysBefore(d.year, d.month) + d.day - 1
        BY <2>6, <4>1, <4>2
      <4>4. QED
        BY <1>1, <1>5, <2>3, <2>7, <4>1, <4>3
    <3>2. QED
      BY <2>7, <3>1 DEF IsDateOf
  <2>9. QED
    BY <2>8 DEF d, next
<1>9. \/ dt.day < MonthLength(dt.year, dt.month)
      \/ dt.day = MonthLength(dt.year, dt.month) /\ dt.month < 12
      \/ dt.day = MonthLength(dt.year, dt.month) /\ dt.month = 12
  BY <1>1, <1>2, <1>3
<1>10. IsDateOf(NextDay(dt), next)
  BY <1>6, <1>7, <1>8, <1>9 DEF next
<1>11. QED
  BY <1>10 DEF next

(* Days later.                                                             *)
LEMMA DaysOnLemma ==
    ASSUME NEW ft \in FullTimes, NEW dt, IsDateOf(dt, ft), NEW days \in Nat
    PROVE  IsDateOf(DaysOn(dt, days), [ft EXCEPT !.day = @ + days])
<1> DEFINE at(n) == [ft EXCEPT !.day = @ + n]
           date == [n \in 0..days |-> FullTimeToDateTime(at(n))]
           Counts(f) == f = [n \in 0..days |-> IF n = 0 THEN dt ELSE NextDay(f[n - 1])]
           step == CHOOSE f : Counts(f)
<1>1. \A n \in Nat : at(n) \in FullTimes /\ at(n).day = ft.day + n /\ at(n).sec = ft.sec
  BY DEF FullTimes
<1>2. ASSUME NEW n \in Nat
      PROVE  [at(n) EXCEPT !.day = @ + 1] = at(n + 1)
  <2>1. ft.day \in Nat /\ (ft.day + n) + 1 = ft.day + (n + 1)
    BY DEF FullTimes
  <2>2. QED
    BY <2>1 DEF FullTimes
<1>3. at(0) = ft
  BY DEF FullTimes
<1> HIDE DEF at
<1>4. \A n \in 0..days : IsDateOf(date[n], at(n))
  BY <1>1, FullTimeLemma
<1>5. date[0] = dt
  BY <1>3, <1>4, DateUnique
<1>6. \A n \in 1..days : date[n] = NextDay(date[n - 1])
  <2>1. TAKE n \in 1..days
  <2>2. n - 1 \in Nat /\ n - 1 \in 0..days /\ n - 1 + 1 = n /\ n \in 0..days
    OBVIOUS
  <2>3. IsDateOf(NextDay(date[n - 1]), [at(n - 1) EXCEPT !.day = @ + 1])
    BY <1>1, <1>4, <2>2, NextDayLemma
  <2>4. [at(n - 1) EXCEPT !.day = @ + 1] = at(n)
    BY <1>2, <2>2
  <2>5. QED
    BY <1>4, <2>2, <2>3, <2>4, DateUnique
<1>7. Counts(date)
  <2>1. \A n \in 0..days : date[n] = IF n = 0 THEN dt ELSE NextDay(date[n - 1])
    BY <1>5, <1>6
  <2>2. QED
    BY <2>1
<1>8. Counts(step)
  BY <1>7
<1>9. DaysOn(dt, days) = step[days]
  BY DEF DaysOn
<1>10. \A n \in 0..days : step[n] = IF n = 0 THEN dt ELSE NextDay(step[n - 1])
  BY <1>8
<1> HIDE DEF step, date, Counts
<1>11. step[days] = date[days]
  <2> DEFINE bad == {n \in 0..days : step[n] # date[n]}
  <2>1. SUFFICES ASSUME bad # {} PROVE FALSE
    OBVIOUS
  <2>2. bad \subseteq Nat
    OBVIOUS
  <2>3. \E n \in bad : \A i \in bad : ~(<<i, n>> \in OpToRel(<, Nat))
    <3> HIDE DEF bad
    <3>1. QED
      BY <2>1, <2>2, NatLessThanWellFounded, WFMin
  <2>4. PICK n \in bad : \A i \in bad : ~(<<i, n>> \in OpToRel(<, Nat))
    BY <2>3
  <2>5. n \in 0..days /\ step[n] # date[n] /\ n # 0
    BY <1>5, <1>10
  <2>6. n - 1 \in 0..days /\ n - 1 \in Nat /\ n - 1 < n
    BY <2>5
  <2>7. n - 1 \notin bad
    <3>1. <<n - 1, n>> \in OpToRel(<, Nat)
      BY <2>5, <2>6 DEF OpToRel
    <3>2. QED
      BY <2>4, <3>1
  <2>8. step[n - 1] = date[n - 1]
    BY <2>6, <2>7
  <2>9. QED
    BY <1>6, <1>10, <2>5, <2>8
<1>12. IsDateOf(step[days], at(days))
  BY <1>4, <1>11
<1>13. QED
  BY <1>9, <1>12 DEF at

(* Seconds later: the code's own sum and way back give the date that       *)
(* people read from their calendars.                                       *)
LEMMA DateAfterLemma ==
    ASSUME NEW ft \in FullTimes, NEW dt, IsDateOf(dt, ft), NEW seconds \in Nat
    PROVE  FullTimeToDateTime(Later(ft, seconds)) = DateAfter(dt, seconds)
<1> DEFINE days == (dt.sec + seconds) \div DaySeconds
           sec == (dt.sec + seconds) % DaySeconds
           later == [ft EXCEPT !.day = @ + days]
<1>1. ft.sec = dt.sec /\ dt.sec \in Nat
  BY DEF IsDateOf, FullTimes
<1>2. days \in Nat /\ sec \in Nat
  <2>1. dt.sec + seconds \in Nat
    BY <1>1
  <2>2. QED
    BY <2>1 DEF DaySeconds
<1>3. Later(ft, seconds) = [day |-> ft.day + days, sec |-> sec]
  BY <1>1 DEF Later
<1>4. DateAfter(dt, seconds) = [DaysOn(dt, days) EXCEPT !.sec = sec]
  BY DEF DateAfter
<1> HIDE DEF days, sec
<1>5. IsDateOf(DaysOn(dt, days), later)
  BY <1>2, DaysOnLemma
<1>6. /\ later = [day |-> ft.day + days, sec |-> ft.sec] /\ ft.day + days \in Nat /\ ft.sec \in Nat
      /\ [later EXCEPT !.sec = sec] = [day |-> ft.day + days, sec |-> sec]
      /\ [later EXCEPT !.sec = sec] \in FullTimes
  <2>1. ft.day \in Nat /\ ft.sec \in Nat /\ ft = [day |-> ft.day, sec |-> ft.sec]
    BY DEF FullTimes
  <2>2. later = [day |-> ft.day + days, sec |-> ft.sec] /\ ft.day + days \in Nat
    BY <1>2, <2>1
  <2>3. [later EXCEPT !.sec = sec] = [day |-> ft.day + days, sec |-> sec]
    <3> HIDE DEF later
    <3>1. QED
      BY <2>2
  <2>4. QED
    BY <1>2, <2>1, <2>2, <2>3 DEF FullTimes
<1>7. IsDateOf([DaysOn(dt, days) EXCEPT !.sec = sec], [later EXCEPT !.sec = sec])
  BY <1>2, <1>5, <1>6 DEF IsDateOf, FullTimes
<1>8. QED
  BY <1>3, <1>4, <1>6, <1>7, FullTimeLemma, DateUnique

(* What the server writes into the record of the game when the full second *)
(* moves is what people read from their calendars so many seconds after    *)
(* the first day of the month in which the clock was set.                  *)
THEOREM CalendarTheorem ==
    ASSUME NEW dt \in [year : Nat, month : 1..12, day : Nat \ {0}, sec : 0..DaySeconds - 1],
           dt.year >= FirstYear, NEW seconds \in Nat
    PROVE  FullTimeToDateTime(Later(DateTimeToFullTime(dt), seconds))
             = DateAfter([dt EXCEPT !.day = 1], seconds)
<1>1. dt \in [year : Nat, month : 1..12, day : Nat \ {0}, sec : Nat]
  OBVIOUS
<1>2. QED
  BY <1>1, DateTimeLemma, DateAfterLemma

(* The date that comes out is one that a record may hold.                  *)
LEMMA DateType ==
    ASSUME NEW ft \in FullTimes, ft.sec < DaySeconds
    PROVE  /\ FullTimeToDateTime(ft) \in [year : Nat, month : 1..12, day : 1..31, sec : 0..DaySeconds - 1]
           /\ FullTimeToDateTime(ft).year >= FirstYear
<1> DEFINE dt == FullTimeToDateTime(ft)
<1>1. /\ dt \in [year : Nat, month : 1..12, day : Nat \ {0}, sec : Nat]
      /\ dt.year >= FirstYear /\ dt.day <= MonthLength(dt.year, dt.month) /\ ft.sec = dt.sec
  BY FullTimeLemma DEF IsDateOf
<1> HIDE DEF dt
<1>2. dt.day \in 1..31
  <2>1. MonthLength(dt.year, dt.month) \in 28..31
    BY <1>1, MonthsLemma
  <2>2. QED
    BY <1>1, <2>1
<1>3. dt.sec \in 0..DaySeconds - 1
  <2>1. DaySeconds \in Nat
    BY DEF DaySeconds
  <2>2. QED
    BY <1>1, <2>1
<1>4. dt \in [year : Nat, month : 1..12, day : 1..31, sec : 0..DaySeconds - 1]
  BY <1>1, <1>2, <1>3
<1>5. QED
  BY <1>1, <1>4 DEF dt

LEMMA LaterType ==
    ASSUME NEW ft \in FullTimes, NEW seconds \in Nat
    PROVE  Later(ft, seconds) \in FullTimes /\ Later(ft, seconds).sec < DaySeconds
<1>1. ft.day \in Nat /\ ft.sec + seconds \in Nat
  BY DEF FullTimes
<1>2. (ft.sec + seconds) \div DaySeconds \in Nat /\ (ft.sec + seconds) % DaySeconds \in 0..DaySeconds - 1
  <2>1. DaySeconds \in Nat \ {0}
    BY DEF DaySeconds
  <2>2. \A n \in Nat, m \in Nat \ {0} : n \div m \in Nat /\ n % m \in 0..m - 1
    OBVIOUS
  <2>3. QED
    BY <1>1, <2>1, <2>2
<1>3. DaySeconds \in Nat
  BY DEF DaySeconds
<1>4. QED
  BY <1>1, <1>2, <1>3 DEF Later, FullTimes

(* The clock goes on from a full second a: its date goes on as in the      *)
(* calendar.                                                               *)
LEMMA LaterDate ==
    ASSUME NEW ft \in FullTimes, NEW a \in Nat, NEW c \in Nat, c > a
    PROVE  FullTimeToDateTime(Later(ft, c)) = DateAfter(FullTimeToDateTime(Later(ft, a)), c - a)
<1>0. PICK b \in Nat : b = c - a /\ a + b = c
  <2>1. c - a \in Nat /\ a + (c - a) = c
    OBVIOUS
  <2>2. QED
    BY <2>1
<1>1. Later(ft, a) \in FullTimes
  BY LaterType
<1>2. Later(Later(ft, a), b) = Later(ft, a + b)
  <2>1. PICK d \in Nat, x \in Nat : d = ft.day /\ x = ft.sec + a
    BY DEF FullTimes
  <2>2. ft.sec \in Nat
    BY DEF FullTimes
  <2>3. /\ Later(ft, a) = [day |-> d + x \div 86400, sec |-> x % 86400]
        /\ Later(ft, a + b) = [day |-> d + (x + b) \div 86400, sec |-> (x + b) % 86400]
    <3>1. ft.sec + (a + b) = x + b /\ DaySeconds = 86400
      BY <2>1, <2>2 DEF DaySeconds
    <3>2. QED
      BY <2>1, <3>1 DEF Later
  <2>4. Later(Later(ft, a), b) = [day |-> d + (x \div 86400) + ((x % 86400) + b) \div 86400,
                                  sec |-> ((x % 86400) + b) % 86400]
    BY <2>3 DEF Later, DaySeconds
  <2>5. /\ (x \div 86400) + ((x % 86400) + b) \div 86400 = (x + b) \div 86400
        /\ ((x % 86400) + b) % 86400 = (x + b) % 86400
    OBVIOUS
  <2>6. d + (x \div 86400) + ((x % 86400) + b) \div 86400 = d + (x + b) \div 86400
    BY <2>5
  <2>7. QED
    BY <2>3, <2>4, <2>5, <2>6
<1>3. QED
  BY <1>0, <1>1, <1>2, FullTimeLemma, DateAfterLemma

(* What Reset makes the clock count from.                                  *)
LEMMA BaseType ==
    ASSUME NEW dt \in Dates, dt.year >= FirstYear
    PROVE  DateTimeToFullTime(dt) \in FullTimes
<1>1. DaySeconds \in Nat
  BY DEF DaySeconds
<1>2. 1..31 \subseteq Nat \ {0} /\ 0..DaySeconds - 1 \subseteq Nat
  BY <1>1
<1>3. dt \in [year : Nat, month : 1..12, day : Nat \ {0}, sec : Nat]
  BY <1>2 DEF Dates
<1>4. QED
  BY <1>3, DateTimeLemma

-----------------------------------------------------------------------------
(***************************************************************************)
(* Records and calls.  What is said of them is said of a state of the      *)
(* records s and of a list q of calls; n is how many calls were added so   *)
(* far, d are the serials that must not run again, and f says what was     *)
(* added with each serial: its identifier and whether it repeats.          *)
(***************************************************************************)
Records == GameRecords \cup CallRecords \cup {NoRecord}
States == [RecordIds -> Records]
CallSet == [id : Serials, fire : Nat, delay : Delays \cup {0}, repeating : BOOLEAN, serial : Serials]
Origins == [Serials -> [id : Serials, repeating : BOOLEAN]]

(* Whatever state of the records a record comes from, it is one of its     *)
(* kind, and that of a call is where the call was saved.                   *)
RecordOK(n, f, id, rec) ==
    IF id = Game THEN rec \in GameRecords /\ rec.date.year >= FirstYear /\ rec.lastId <= n
    ELSE rec # NoRecord => /\ rec \in CallRecords
                           /\ rec.serial \in 1..n
                           /\ f[rec.serial] = [id |-> id, repeating |-> FALSE]
StateOK(n, f, s) == s \in States /\ \A id \in RecordIds : RecordOK(n, f, id, s[id])

(* No serial is in the list twice, and none that must not run again.       *)
CallsOK(n, f, d, q) ==
    /\ q \in Seq(CallSet)
    /\ \A i \in 1..Len(q) : /\ q[i].serial \in (1..n) \ d
                            /\ f[q[i].serial] = [id |-> q[i].id, repeating |-> q[i].repeating]
    /\ \A i, j \in 1..Len(q) : q[i].serial = q[j].serial => i = j

(* Identifiers are given out once, and every record has its call.          *)
Match(s, q) ==
    /\ \A i, j \in 1..Len(q) : q[i].id = q[j].id => i = j
    /\ \A i \in 1..Len(q) : q[i].id <= s[Game].lastId
    /\ \A id \in SavedIn(s) : \E i \in 1..Len(q) :
          q[i].id = id /\ s[id] = [fire |-> q[i].fire, serial |-> q[i].serial]

(* The states of the records that the server may ever come to work with.   *)
Kept == {store, disk} \cup {snaps[k] : k \in 1..Len(snaps)}

Typed ==
    /\ snaps \in Seq(States)
    /\ failed \in BOOLEAN /\ stale \in BOOLEAN /\ skewed \in BOOLEAN
    /\ skip \in SUBSET Serials
    /\ pc \in {"idle", "loop", "script"}
    /\ full \in 0..Word - 1 /\ passFull \in 0..Word - 1
    /\ left \in [Serials -> Nat]
    /\ base \in FullTimes
    /\ adds \in 0..MaxAdds

OriginInv == \E f \in Origins :
                /\ \A s \in Kept : StateOK(adds, f, s)
                /\ CallsOK(adds, f, done, calls)

SavedInv ==
    /\ done \subseteq 1..adds
    /\ savedCalls = SavedIn(store)
    /\ \A id \in SavedIn(store) : store[id].serial \notin done

MatchInv ==
    ~skewed => /\ ~failed
               /\ Match(store, calls)
               /\ \A k \in 1..Len(snaps) : Consistent(snaps[k])

IInv == Typed /\ OriginInv /\ SavedInv /\ MatchInv

-----------------------------------------------------------------------------
LEMMA FirstPosition ==
    ASSUME NEW n \in Nat, NEW P \in SUBSET (1..n), P # {}
    PROVE  Min(P) \in P /\ \A i \in P : Min(P) <= i
<1>1. P \subseteq Nat
  OBVIOUS
<1>2. \E k \in P : \A i \in P : ~(<<i, k>> \in OpToRel(<, Nat))
  BY <1>1, NatLessThanWellFounded, WFMin
<1>3. PICK k \in P : \A i \in P : ~(<<i, k>> \in OpToRel(<, Nat))
  BY <1>2
<1>4. \A i \in P : k <= i
  <2>1. TAKE i \in P
  <2>2. k \in Nat /\ i \in Nat
    BY <1>1
  <2>3. ~(i < k)
    BY <1>3, <2>2 DEF OpToRel
  <2>4. QED
    BY <2>2, <2>3
<1>5. QED
  BY <1>4 DEF Min

(* A list without the element at a position.                               *)
LEMMA RemoveAtLemma ==
    ASSUME NEW S, NEW q \in Seq(S), NEW p \in 1..Len(q)
    PROVE  /\ RemoveAt(q, p) \in Seq(S)
           /\ Len(RemoveAt(q, p)) = Len(q) - 1
           /\ \A k \in 1..Len(q) - 1 : RemoveAt(q, p)[k] = IF k < p THEN q[k] ELSE q[k + 1]
<1> DEFINE front == SubSeq(q, 1, p - 1)
           back == SubSeq(q, p + 1, Len(q))
<1>1. Len(q) \in Nat /\ \A k \in 1..Len(q) : q[k] \in S
  BY LenProperties
<1>2. /\ front \in Seq(S) /\ Len(front) = p - 1
      /\ \A k \in 1..(p - 1) : front[k] = q[k]
  <2>1. \A k \in 1..(p - 1) : q[k] \in S
    BY <1>1
  <2>2. QED
    BY <1>1, <2>1, SubSeqProperties
<1>3. /\ back \in Seq(S) /\ Len(back) = Len(q) - p
      /\ \A k \in 1..(Len(q) - p) : back[k] = q[p + k]
  <2>1. \A k \in (p + 1)..Len(q) : q[k] \in S
    BY <1>1
  <2>2. /\ back \in Seq(S)
        /\ Len(back) = IF p + 1 <= Len(q) THEN Len(q) - (p + 1) + 1 ELSE 0
        /\ \A k \in 1..(Len(q) - (p + 1) + 1) : back[k] = q[(p + 1) + k - 1]
    BY <1>1, <2>1, SubSeqProperties
  <2>3. \A k \in 1..(Len(q) - p) : (p + 1) + k - 1 = p + k
    BY <1>1
  <2>4. QED
    BY <1>1, <2>2, <2>3
<1> HIDE DEF front, back
<1> DEFINE joined == front \o back
<1>4. /\ joined \in Seq(S)
      /\ Len(joined) = Len(front) + Len(back)
      /\ \A k \in 1..(Len(front) + Len(back)) :
            joined[k] = IF k <= Len(front) THEN front[k] ELSE back[k - Len(front)]
  BY <1>2, <1>3, ConcatProperties
<1>5. RemoveAt(q, p) = joined
  BY DEF RemoveAt, front, back
<1> HIDE DEF joined
<1>6. Len(joined) = Len(q) - 1
  BY <1>1, <1>2, <1>3, <1>4
<1>7. ASSUME NEW k \in 1..Len(q) - 1
      PROVE  joined[k] = IF k < p THEN q[k] ELSE q[k + 1]
  <2>1. CASE k < p
    BY <1>1, <1>2, <1>3, <1>4, <2>1
  <2>2. CASE k >= p
    <3>1. joined[k] = back[k - (p - 1)]
      <4>1. k \in 1..(Len(front) + Len(back)) /\ ~(k <= Len(front)) /\ Len(front) = p - 1
        BY <1>1, <1>2, <1>3, <2>2
      <4>2. QED
        BY <1>4, <4>1
    <3>2. k - (p - 1) \in 1..(Len(q) - p) /\ p + (k - (p - 1)) = k + 1
      BY <1>1, <1>6, <2>2
    <3>3. back[k - (p - 1)] = q[p + (k - (p - 1))]
      BY <1>3, <3>2
    <3>4. QED
      BY <2>2, <3>1, <3>2, <3>3
  <2>3. QED
    BY <1>1, <2>1, <2>2
<1>8. QED
  BY <1>4, <1>5, <1>6, <1>7

(* Each element of the shorter list was in the longer one, at a position   *)
(* of its own, and only the removed one is gone.                           *)
LEMMA RemovedLemma ==
    ASSUME NEW S, NEW q \in Seq(S), NEW p \in 1..Len(q)
    PROVE  /\ RemoveAt(q, p) \in Seq(S)
           /\ \A k \in 1..Len(RemoveAt(q, p)) : \E i \in (1..Len(q)) \ {p} :
                 i = (IF k < p THEN k ELSE k + 1) /\ RemoveAt(q, p)[k] = q[i]
           /\ \A i \in (1..Len(q)) \ {p} : \E k \in 1..Len(RemoveAt(q, p)) : RemoveAt(q, p)[k] = q[i]
<1> DEFINE r == RemoveAt(q, p)
<1>1. /\ r \in Seq(S) /\ Len(r) = Len(q) - 1 /\ Len(q) \in Nat
      /\ \A k \in 1..Len(q) - 1 : r[k] = IF k < p THEN q[k] ELSE q[k + 1]
  BY RemoveAtLemma, LenProperties
<1> HIDE DEF r
<1>2. ASSUME NEW k \in 1..Len(r)
      PROVE  \E i \in (1..Len(q)) \ {p} : i = (IF k < p THEN k ELSE k + 1) /\ r[k] = q[i]
  BY <1>1
<1>3. ASSUME NEW i \in (1..Len(q)) \ {p}
      PROVE  \E k \in 1..Len(r) : r[k] = q[i]
  <2>1. CASE i < p
    <3>1. i \in 1..Len(r) /\ r[i] = q[i]
      BY <1>1, <2>1
    <3>2. QED
      BY <3>1
  <2>2. CASE i > p
    <3>1. i - 1 \in 1..Len(r) /\ r[i - 1] = q[i]
      BY <1>1, <2>2
    <3>2. QED
      BY <3>1
  <2>3. QED
    BY <2>1, <2>2
<1>4. QED
  BY <1>1, <1>2, <1>3 DEF r

-----------------------------------------------------------------------------
(* Lists of calls and states of the records after the changes that the     *)
(* operations make.                                                        *)
LEMMA GrowLemma ==
    ASSUME NEW n \in Nat, NEW m \in Nat, n <= m, NEW f, NEW g, \A k \in 1..n : g[k] = f[k]
    PROVE  /\ \A s : StateOK(n, f, s) => StateOK(m, g, s)
           /\ \A d, q : CallsOK(n, f, d, q) => CallsOK(m, g, d, q)
<1>1. ASSUME NEW s, StateOK(n, f, s)
      PROVE  StateOK(m, g, s)
  <2>1. SUFFICES ASSUME NEW id \in RecordIds
                 PROVE  RecordOK(m, g, id, s[id])
    BY <1>1 DEF StateOK
  <2>2. RecordOK(n, f, id, s[id])
    BY <1>1 DEF StateOK
  <2>3. CASE id = Game
    BY <2>2, <2>3 DEF RecordOK, GameRecords
  <2>4. CASE id # Game
    BY <2>2, <2>4 DEF RecordOK
  <2>5. QED
    BY <2>3, <2>4
<1>2. ASSUME NEW d, NEW q, CallsOK(n, f, d, q)
      PROVE  CallsOK(m, g, d, q)
  BY <1>2 DEF CallsOK
<1>3. QED
  BY <1>1, <1>2

LEMMA WriteLemma ==
    ASSUME NEW n, NEW f, NEW s, StateOK(n, f, s), NEW id \in RecordIds, NEW rec \in Records,
           RecordOK(n, f, id, rec)
    PROVE  StateOK(n, f, [s EXCEPT ![id] = rec])
  BY DEF StateOK, States

LEMMA AppendLemma ==
    ASSUME NEW n \in Nat, NEW f, NEW d, NEW q, CallsOK(n, f, d, q), d \subseteq 1..n,
           NEW call \in CallSet, call.serial = n + 1,
           f[n + 1] = [id |-> call.id, repeating |-> call.repeating]
    PROVE  CallsOK(n + 1, f, d, Append(q, call))
<1> DEFINE r == Append(q, call)
<1>1. /\ q \in Seq(CallSet) /\ Len(q) \in Nat
      /\ \A i \in 1..Len(q) : q[i].serial \in (1..n) \ d
      /\ \A i \in 1..Len(q) : f[q[i].serial] = [id |-> q[i].id, repeating |-> q[i].repeating]
      /\ \A i, j \in 1..Len(q) : q[i].serial = q[j].serial => i = j
  BY LenProperties DEF CallsOK
<1>2. /\ r \in Seq(CallSet) /\ Len(r) = Len(q) + 1
      /\ \A i \in 1..Len(q) : r[i] = q[i]
      /\ r[Len(q) + 1] = call
  BY <1>1, AppendProperties
<1> HIDE DEF r
<1>3. ASSUME NEW i \in 1..Len(r)
      PROVE  /\ r[i].serial \in (1..n + 1) \ d
             /\ f[r[i].serial] = [id |-> r[i].id, repeating |-> r[i].repeating]
  <2>1. CASE i \in 1..Len(q)
    BY <1>1, <1>2, <2>1
  <2>2. CASE i = Len(q) + 1
    BY <1>1, <1>2, <2>2
  <2>3. QED
    BY <1>1, <1>2, <2>1, <2>2
<1>4. ASSUME NEW i \in 1..Len(r), NEW j \in 1..Len(r), r[i].serial = r[j].serial
      PROVE  i = j
  <2>1. CASE i \in 1..Len(q) /\ j \in 1..Len(q)
    BY <1>1, <1>2, <1>4, <2>1
  <2>2. \A k \in 1..Len(q) : r[k].serial # n + 1
    BY <1>1, <1>2
  <2>3. r[Len(q) + 1].serial = n + 1
    BY <1>2
  <2>4. QED
    BY <1>1, <1>2, <1>4, <2>1, <2>2, <2>3
<1>5. QED
  BY <1>2, <1>3, <1>4 DEF CallsOK, r

LEMMA RemovedCalls ==
    ASSUME NEW q \in Seq(CallSet), NEW p \in 1..Len(q)
    PROVE  /\ RemoveAt(q, p) \in Seq(CallSet) /\ Len(RemoveAt(q, p)) \in Nat
           /\ \A k \in 1..Len(RemoveAt(q, p)) : /\ (IF k < p THEN k ELSE k + 1) \in (1..Len(q)) \ {p}
                                                /\ RemoveAt(q, p)[k] = q[IF k < p THEN k ELSE k + 1]
           /\ \A i \in (1..Len(q)) \ {p} : \E k \in 1..Len(RemoveAt(q, p)) : RemoveAt(q, p)[k] = q[i]
  BY RemovedLemma, LenProperties

LEMMA RemoveLemma ==
    ASSUME NEW n, NEW f, NEW d, NEW q, CallsOK(n, f, d, q), NEW p \in 1..Len(q)
    PROVE  /\ CallsOK(n, f, d, RemoveAt(q, p))
           /\ CallsOK(n, f, d \cup {q[p].serial}, RemoveAt(q, p))
<1> DEFINE r == RemoveAt(q, p)
           from(k) == IF k < p THEN k ELSE k + 1
<1>1. q \in Seq(CallSet) /\ \A i, j \in 1..Len(q) : q[i].serial = q[j].serial => i = j
  BY DEF CallsOK
<1>2. /\ r \in Seq(CallSet) /\ Len(r) \in Nat
      /\ \A k \in 1..Len(r) : from(k) \in (1..Len(q)) \ {p} /\ r[k] = q[from(k)]
  BY <1>1, RemovedCalls
<1> HIDE DEF r
<1>3. \A i, j \in 1..Len(r) : from(i) = from(j) => i = j
  BY <1>2
<1> HIDE DEF from
<1>4. ASSUME NEW k \in 1..Len(r)
      PROVE  /\ r[k].serial \in (1..n) \ (d \cup {q[p].serial})
             /\ f[r[k].serial] = [id |-> r[k].id, repeating |-> r[k].repeating]
  BY <1>1, <1>2 DEF CallsOK
<1>5. ASSUME NEW i \in 1..Len(r), NEW j \in 1..Len(r), r[i].serial = r[j].serial
      PROVE  i = j
  BY <1>1, <1>2, <1>3, <1>5
<1>6. QED
  BY <1>2, <1>4, <1>5 DEF CallsOK, r

(* The time of a call that repeats.                                        *)
LEMMA FireLemma ==
    ASSUME NEW n, NEW f, NEW d, NEW q, CallsOK(n, f, d, q), NEW p \in 1..Len(q), NEW fire \in Nat
    PROVE  CallsOK(n, f, d, [q EXCEPT ![p].fire = fire])
<1> DEFINE r == [q EXCEPT ![p].fire = fire]
<1>1. q \in Seq(CallSet) /\ Len(q) \in Nat /\ \A i \in 1..Len(q) : q[i] \in CallSet
  BY LenProperties DEF CallsOK
<1>2. [q[p] EXCEPT !.fire = fire] \in CallSet
  BY <1>1 DEF CallSet
<1>3. r \in Seq(CallSet) /\ Len(r) = Len(q)
      /\ \A i \in 1..Len(q) : r[i] = IF i = p THEN [q[p] EXCEPT !.fire = fire] ELSE q[i]
  <2>1. r = [q EXCEPT ![p] = [q[p] EXCEPT !.fire = fire]]
    OBVIOUS
  <2>2. QED
    BY <1>1, <1>2, <2>1, ExceptSeq
<1> HIDE DEF r
<1>4. \A i \in 1..Len(q) : r[i].serial = q[i].serial /\ r[i].id = q[i].id /\ r[i].repeating = q[i].repeating
  BY <1>1, <1>3 DEF CallSet
<1>5. QED
  BY <1>3, <1>4 DEF CallsOK, r

(* The calls that LoadDeferredCalls makes of the records.                  *)
CallOf(s, id) == [id |-> id, fire |-> s[id].fire, delay |-> 0, repeating |-> FALSE, serial |-> s[id].serial]
Loaded(s, ids) == [i \in DOMAIN ids |-> [id |-> ids[i], fire |-> s[ids[i]].fire, delay |-> 0,
                                          repeating |-> FALSE, serial |-> s[ids[i]].serial]]

LEMMA SavedLemma ==
    ASSUME NEW n, NEW f, NEW s, StateOK(n, f, s)
    PROVE  /\ SavedIn(s) \subseteq Serials
           /\ \A id \in SavedIn(s) : /\ s[id] \in CallRecords
                                     /\ s[id].serial \in 1..n
                                     /\ f[s[id].serial] = [id |-> id, repeating |-> FALSE]
           /\ s[Game] \in GameRecords /\ s[Game].date.year >= FirstYear /\ s[Game].lastId <= n
<1>1. \A id \in RecordIds : RecordOK(n, f, id, s[id])
  BY DEF StateOK
<1>2. Game \in RecordIds /\ RecordOK(n, f, Game, s[Game])
  BY <1>1 DEF RecordIds
<1>3. ASSUME NEW id \in SavedIn(s)
      PROVE  id \in Serials /\ id # Game /\ id \in RecordIds /\ s[id] # NoRecord /\ RecordOK(n, f, id, s[id])
  BY <1>1, BoundsAssumption DEF SavedIn, Serials, Game, RecordIds
<1>4. QED
  BY <1>2, <1>3 DEF RecordOK

LEMMA LoadLemma ==
    ASSUME NEW n \in Nat, NEW f, NEW s, StateOK(n, f, s),
           NEW d, \A id \in SavedIn(s) : s[id].serial \notin d,
           NEW ids \in SetToSeqs(SavedIn(s))
    PROVE  /\ CallsOK(n, f, d, Loaded(s, ids))
           /\ Consistent(s) => Match(s, Loaded(s, ids))
           /\ \A i \in 1..Len(Loaded(s, ids)) : \E id \in SavedIn(s) : Loaded(s, ids)[i] = CallOf(s, id)
<1> DEFINE saved == SavedIn(s)
           N == Cardinality(saved)
           r == Loaded(s, ids)
<1>1. /\ saved \subseteq 1..MaxAdds
      /\ \A id \in saved : s[id] \in CallRecords /\ s[id].serial \in 1..n
                           /\ f[s[id].serial] = [id |-> id, repeating |-> FALSE]
  BY SavedLemma DEF Serials
<1>2. IsFiniteSet(saved) /\ N \in Nat
  <2>1. IsFiniteSet(1..MaxAdds)
    BY FS_Interval, BoundsAssumption
  <2>2. QED
    BY <1>1, <2>1, FS_Subset, FS_CardinalityType
<1>3. ids \in [1..N -> saved] /\ \A i, j \in 1..N : i # j => ids[i] # ids[j]
  BY DEF SetToSeqs
<1>4. \A id \in saved : \E i \in 1..N : ids[i] = id
  <2>1. ids \in Injection(1..N, saved)
    BY <1>3 DEF Injection, IsInjective
  <2>2. Cardinality(1..N) = N
    BY <1>2, FS_Interval
  <2>3. ids \in Surjection(1..N, saved)
    BY <1>2, <2>1, <2>2, FS_Injection
  <2>4. QED
    BY <2>3 DEF Surjection
<1> HIDE DEF saved, N
<1>5. r = [i \in 1..N |-> [id |-> ids[i], fire |-> s[ids[i]].fire, delay |-> 0, repeating |-> FALSE,
                           serial |-> s[ids[i]].serial]]
  BY <1>3 DEF Loaded
<1>6. ASSUME NEW i \in 1..N
      PROVE  /\ r[i] \in CallSet /\ ids[i] \in saved
             /\ r[i] = [id |-> ids[i], fire |-> s[ids[i]].fire, delay |-> 0, repeating |-> FALSE,
                        serial |-> s[ids[i]].serial]
  <2>1. /\ ids[i] \in saved /\ s[ids[i]] \in CallRecords
        /\ s[ids[i]].fire \in Nat /\ s[ids[i]].serial \in Serials
    BY <1>1, <1>3 DEF CallRecords
  <2>2. r[i] = [id |-> ids[i], fire |-> s[ids[i]].fire, delay |-> 0, repeating |-> FALSE,
                serial |-> s[ids[i]].serial]
    BY <1>5
  <2>3. ids[i] \in Serials
    BY <1>1, <2>1 DEF Serials
  <2>4. r[i] \in CallSet
    BY <2>1, <2>2, <2>3 DEF CallSet
  <2>5. QED
    BY <2>1, <2>2, <2>4
<1>a. ASSUME NEW i \in 1..N
      PROVE  r[i].id = ids[i] /\ r[i].serial = s[ids[i]].serial /\ r[i].fire = s[ids[i]].fire
             /\ r[i].repeating = FALSE
  BY <1>5
<1> HIDE DEF r
<1>7. r \in Seq(CallSet) /\ Len(r) = N
  <2>1. r \in [1..N -> CallSet]
    <3>1. DOMAIN r = 1..N /\ r = [i \in 1..N |-> r[i]]
      BY <1>5
    <3>2. QED
      BY <1>6, <3>1
  <2>2. QED
    BY <1>2, <2>1, SeqDef, LenProperties
<1>8. ASSUME NEW i \in 1..Len(r), NEW j \in 1..Len(r), r[i].serial = r[j].serial \/ r[i].id = r[j].id
      PROVE  i = j
  <2>1. i \in 1..N /\ j \in 1..N
    BY <1>7
  <2>2. /\ ids[i] \in saved /\ ids[j] \in saved
        /\ r[i].serial = s[ids[i]].serial /\ r[j].serial = s[ids[j]].serial
        /\ r[i].id = ids[i] /\ r[j].id = ids[j]
    BY <1>6, <1>a, <2>1
  <2>3. ids[i] = ids[j]
    <3>1. CASE r[i].id = r[j].id
      BY <2>2, <3>1
    <3>2. CASE r[i].serial = r[j].serial
      <4>1. [id |-> ids[i], repeating |-> FALSE] = [id |-> ids[j], repeating |-> FALSE]
        BY <1>1, <2>2, <3>2
      <4>2. [id |-> ids[i], repeating |-> FALSE].id = [id |-> ids[j], repeating |-> FALSE].id
        BY <4>1
      <4>3. QED
        BY <4>2
    <3>3. QED
      BY <1>8, <3>1, <3>2
  <2>4. QED
    BY <1>3, <2>1, <2>3
<1>9. CallsOK(n, f, d, r)
  <2>1. ASSUME NEW i \in 1..Len(r)
        PROVE  /\ r[i].serial \in (1..n) \ d
               /\ f[r[i].serial] = [id |-> r[i].id, repeating |-> r[i].repeating]
    <3>1. i \in 1..N
      BY <1>7
    <3>2. /\ ids[i] \in saved /\ r[i].serial = s[ids[i]].serial /\ r[i].id = ids[i] /\ r[i].repeating = FALSE
      BY <1>6, <1>a, <3>1
    <3>3. QED
      BY <1>1, <3>2 DEF saved
  <2>2. QED
    BY <1>7, <1>8, <2>1 DEF CallsOK
<1>10. ASSUME Consistent(s)
       PROVE  Match(s, r)
  <2>1. ASSUME NEW i \in 1..Len(r)
        PROVE  r[i].id <= s[Game].lastId
    <3>1. i \in 1..N
      BY <1>7
    <3>2. ids[i] \in saved /\ r[i].id = ids[i]
      BY <1>6, <1>a, <3>1
    <3>3. QED
      BY <1>10, <3>2 DEF Consistent, saved
  <2>2. ASSUME NEW id \in SavedIn(s)
        PROVE  \E i \in 1..Len(r) : r[i].id = id /\ s[id] = [fire |-> r[i].fire, serial |-> r[i].serial]
    <3>1. PICK i \in 1..N : ids[i] = id
      BY <1>4 DEF saved
    <3>2. r[i].id = id /\ r[i].fire = s[id].fire /\ r[i].serial = s[id].serial
      BY <1>6, <1>a, <3>1
    <3>3. s[id] = [fire |-> s[id].fire, serial |-> s[id].serial]
      BY <1>1 DEF CallRecords, saved
    <3>4. QED
      BY <1>7, <3>2, <3>3
  <2>3. QED
    BY <1>8, <2>1, <2>2 DEF Match
<1>11. ASSUME NEW i \in 1..Len(r)
       PROVE  \E id \in SavedIn(s) : r[i] = CallOf(s, id)
  <2>1. i \in 1..N
    BY <1>7
  <2>2. r[i] = CallOf(s, ids[i]) /\ ids[i] \in SavedIn(s)
    BY <1>6, <2>1 DEF saved, CallOf
  <2>3. QED
    BY <2>2
<1>12. QED
  BY <1>9, <1>10, <1>11 DEF r

-----------------------------------------------------------------------------
(* What matters of two states of the records to the calls.                 *)
SameSaved(s, r) ==
    /\ r[Game].lastId = s[Game].lastId
    /\ \A id \in SavedIn(r) : id \in SavedIn(s) /\ r[id] = s[id]

LEMMA SameMatch ==
    ASSUME NEW s, NEW r, NEW q, Match(s, q), SameSaved(s, r)
    PROVE  Match(r, q)
  BY DEF Match, SameSaved

LEMMA RemoveMatch ==
    ASSUME NEW s, NEW r, NEW q \in Seq(CallSet), NEW p \in 1..Len(q),
           Match(s, q), SameSaved(s, r), q[p].id \notin SavedIn(r)
    PROVE  Match(r, RemoveAt(q, p))
<1> DEFINE z == RemoveAt(q, p)
           from(k) == IF k < p THEN k ELSE k + 1
<1>1. /\ z \in Seq(CallSet) /\ Len(z) \in Nat
      /\ \A k \in 1..Len(z) : from(k) \in (1..Len(q)) \ {p} /\ z[k] = q[from(k)]
      /\ \A i \in (1..Len(q)) \ {p} : \E k \in 1..Len(z) : z[k] = q[i]
  <2>1. z \in Seq(CallSet) /\ Len(z) \in Nat
    BY RemovedCalls
  <2>2. \A k \in 1..Len(z) : from(k) \in (1..Len(q)) \ {p} /\ z[k] = q[from(k)]
    BY RemovedCalls
  <2>3. \A i \in (1..Len(q)) \ {p} : \E k \in 1..Len(z) : z[k] = q[i]
    BY RemovedCalls
  <2>4. QED
    BY <2>1, <2>2, <2>3
<1> HIDE DEF z
<1>2. \A i, j \in 1..Len(z) : from(i) = from(j) => i = j
  BY <1>1
<1> HIDE DEF from
<1>3. ASSUME NEW i \in 1..Len(z), NEW j \in 1..Len(z), z[i].id = z[j].id
      PROVE  i = j
  <2>1. q[from(i)].id = q[from(j)].id /\ from(i) \in 1..Len(q) /\ from(j) \in 1..Len(q)
    BY <1>1, <1>3
  <2>2. from(i) = from(j)
    BY <2>1 DEF Match
  <2>3. QED
    BY <1>2, <2>2
<1>4. \A i \in 1..Len(z) : z[i].id <= r[Game].lastId
  BY <1>1 DEF Match, SameSaved
<1>5. ASSUME NEW id \in SavedIn(r)
      PROVE  \E i \in 1..Len(z) : z[i].id = id /\ r[id] = [fire |-> z[i].fire, serial |-> z[i].serial]
  <2>1. id \in SavedIn(s) /\ r[id] = s[id]
    BY DEF SameSaved
  <2>2. PICK i \in 1..Len(q) : q[i].id = id /\ s[id] = [fire |-> q[i].fire, serial |-> q[i].serial]
    BY <2>1 DEF Match
  <2>3. i # p
    BY <2>2
  <2>4. QED
    BY <1>1, <2>1, <2>2, <2>3
<1>6. QED
  BY <1>3, <1>4, <1>5 DEF Match, z

LEMMA FireMatch ==
    ASSUME NEW n, NEW f, NEW d, NEW s, NEW q, Match(s, q), StateOK(n, f, s), CallsOK(n, f, d, q),
           NEW p \in 1..Len(q), q[p].repeating, NEW fire \in Nat
    PROVE  Match(s, [q EXCEPT ![p].fire = fire])
<1> DEFINE z == [q EXCEPT ![p].fire = fire]
<1>1. q \in Seq(CallSet) /\ Len(q) \in Nat /\ \A i \in 1..Len(q) : q[i] \in CallSet
  BY LenProperties DEF CallsOK
<1>2. [q[p] EXCEPT !.fire = fire] \in CallSet
  BY <1>1 DEF CallSet
<1>3. Len(z) = Len(q) /\ \A i \in 1..Len(q) : z[i] = IF i = p THEN [q[p] EXCEPT !.fire = fire] ELSE q[i]
  <2>1. z = [q EXCEPT ![p] = [q[p] EXCEPT !.fire = fire]]
    OBVIOUS
  <2>2. QED
    BY <1>1, <1>2, <2>1, ExceptSeq
<1> HIDE DEF z
<1>4. \A i \in 1..Len(q) : z[i].id = q[i].id
  BY <1>1, <1>3 DEF CallSet
<1>5. ASSUME NEW id \in SavedIn(s)
      PROVE  \E i \in 1..Len(z) : z[i].id = id /\ s[id] = [fire |-> z[i].fire, serial |-> z[i].serial]
  <2>1. PICK i \in 1..Len(q) : q[i].id = id /\ s[id] = [fire |-> q[i].fire, serial |-> q[i].serial]
    BY DEF Match
  <2>2. f[q[i].serial] = [id |-> id, repeating |-> FALSE]
    <3>1. s[id].serial = q[i].serial
      BY <2>1
    <3>2. QED
      BY <3>1, SavedLemma
  <2>3. f[q[p].serial].repeating = TRUE
    <3>1. f[q[p].serial] = [id |-> q[p].id, repeating |-> q[p].repeating]
      BY DEF CallsOK
    <3>2. q[p].repeating = TRUE
      BY <1>1 DEF CallSet
    <3>3. QED
      BY <3>1, <3>2
  <2>4. i # p
    BY <2>2, <2>3
  <2>5. QED
    BY <1>3, <2>1, <2>4
<1>6. QED
  BY <1>3, <1>4, <1>5 DEF Match, z

LEMMA AddMatch ==
    ASSUME NEW s, NEW r, NEW q \in Seq(CallSet), NEW call \in CallSet, Match(s, q),
           s[Game].lastId \in Nat, call.id = s[Game].lastId + 1, r[Game].lastId = call.id,
           \A id \in SavedIn(r) :
              \/ id \in SavedIn(s) /\ r[id] = s[id]
              \/ id = call.id /\ r[id] = [fire |-> call.fire, serial |-> call.serial]
    PROVE  Match(r, Append(q, call))
<1> DEFINE z == Append(q, call)
<1>1. /\ Len(q) \in Nat /\ Len(z) = Len(q) + 1
      /\ \A i \in 1..Len(q) : z[i] = q[i] /\ q[i] \in CallSet
      /\ z[Len(q) + 1] = call
  BY AppendProperties, LenProperties
<1> HIDE DEF z
<1>2. \A i \in 1..Len(q) : z[i].id \in Nat /\ z[i].id <= s[Game].lastId
  <2>1. TAKE i \in 1..Len(q)
  <2>2. z[i] = q[i] /\ q[i].id \in Serials
    BY <1>1 DEF CallSet
  <2>3. q[i].id <= s[Game].lastId
    BY DEF Match
  <2>4. QED
    BY <2>2, <2>3 DEF Serials
<1>3. ASSUME NEW i \in 1..Len(z)
      PROVE  z[i].id <= r[Game].lastId
  <2>1. CASE i \in 1..Len(q)
    BY <1>2, <2>1
  <2>2. CASE i = Len(q) + 1
    BY <1>1, <2>2
  <2>3. QED
    BY <1>1, <2>1, <2>2
<1>4. ASSUME NEW i \in 1..Len(z), NEW j \in 1..Len(z), z[i].id = z[j].id
      PROVE  i = j
  <2>1. CASE i \in 1..Len(q) /\ j \in 1..Len(q)
    BY <1>1, <1>4, <2>1 DEF Match
  <2>2. \A k \in 1..Len(q) : z[k].id # call.id
    BY <1>2
  <2>3. QED
    BY <1>1, <1>4, <2>1, <2>2
<1>5. ASSUME NEW id \in SavedIn(r)
      PROVE  \E i \in 1..Len(z) : z[i].id = id /\ r[id] = [fire |-> z[i].fire, serial |-> z[i].serial]
  <2>1. CASE id \in SavedIn(s) /\ r[id] = s[id]
    <3>1. PICK i \in 1..Len(q) : q[i].id = id /\ s[id] = [fire |-> q[i].fire, serial |-> q[i].serial]
      BY <2>1 DEF Match
    <3>2. QED
      BY <1>1, <2>1, <3>1
  <2>2. CASE id = call.id /\ r[id] = [fire |-> call.fire, serial |-> call.serial]
    <3>1. Len(q) + 1 \in 1..Len(z)
      BY <1>1
    <3>2. QED
      BY <1>1, <2>2, <3>1
  <2>3. QED
    BY <2>1, <2>2
<1>6. QED
  BY <1>3, <1>4, <1>5 DEF Match, z

(* The records of a state in which every call has its identifier.          *)
LEMMA MatchConsistent ==
    ASSUME NEW s, NEW q, Match(s, q)
    PROVE  Consistent(s)
<1>1. ASSUME NEW id \in SavedIn(s)
      PROVE  id <= s[Game].lastId
  <2>1. PICK i \in 1..Len(q) : q[i].id = id
    BY DEF Match
  <2>2. QED
    BY <2>1 DEF Match
<1>2. QED
  BY <1>1 DEF Consistent

-----------------------------------------------------------------------------
(* The numbers stay in their ranges.                                       *)
LEMMA MaxOfTwo ==
    ASSUME NEW a \in Int, NEW b \in Int
    PROVE  Max({a, b}) = IF a >= b THEN a ELSE b
<1> DEFINE m == IF a >= b THEN a ELSE b
<1>1. m \in {a, b} /\ \A y \in {a, b} : m >= y
  OBVIOUS
<1>2. \A x \in {a, b} : (\A y \in {a, b} : x >= y) => x = m
  OBVIOUS
<1>3. QED
  BY <1>1, <1>2 DEF Max

LEMMA NumbersLemma ==
    ASSUME store[Game] \in GameRecords
    PROVE  /\ \A delay \in Delays \cup {0} : /\ Span(delay) \in Nat
                                             /\ \A now : ExactSpan(now, delay) \in Nat
                                             /\ (full \in Nat => FireAfter(delay) \in Nat)
                                             /\ (passFull \in Nat => (passFull + Span(delay)) % Word \in Nat)
           /\ \A ms \in Nat : FullSeconds(ms) \in 0..Word - 1
<1>1. TimeMultiplier \in Nat
  BY TimesAssumption DEF TimeMultiplier, GameRecords
<1>2. \A a \in Nat : a % Word \in 0..Word - 1
  BY BoundsAssumption
<1>3. ASSUME NEW delay \in Delays \cup {0}
      PROVE  Span(delay) \in Nat
  <2>1. delay * TimeMultiplier \in Nat
    BY <1>1, MillisecondsAssumption
  <2>2. QED
    BY <1>2, <2>1 DEF Span
<1>4. ASSUME NEW ms \in Nat
      PROVE  FullSeconds(ms) \in 0..Word - 1
  <2> DEFINE dt == ms % Word
             a == (dt \div 1000) * TimeMultiplier
             b == (dt % 1000) * TimeMultiplier
  <2>1. dt \in Nat
    BY <1>2
  <2> HIDE DEF dt
  <2>2. a \in Nat /\ b \in Nat
    BY <1>1, <2>1
  <2> HIDE DEF a, b
  <2>3. b % Word \in Nat
    BY <1>2, <2>2
  <2>4. a + (b % Word) \div 1000 \in Nat
    BY <2>2, <2>3
  <2>5. FullSeconds(ms) = (a + (b % Word) \div 1000) % Word
    BY DEF FullSeconds, a, b, dt
  <2>6. QED
    BY <1>2, <2>4, <2>5
<1>5. QED
  BY <1>2, <1>3, <1>4 DEF FireAfter, ExactSpan

-----------------------------------------------------------------------------
(* Every state of the records that a step makes is one that was kept, the  *)
(* one the server writes, or one kept with a record taken from another.    *)
LEMMA KeptLemma ==
    ASSUME Next, snaps \in Seq(States), store \in States
    PROVE  /\ snaps' \in Seq(States)
           /\ \A s \in Kept' : \/ s \in Kept \/ s = store'
                              \/ \E a, b \in Kept, id \in RecordIds : s = [a EXCEPT ![id] = b[id]]
<1>1. Len(snaps) \in Nat /\ \A k \in 1..Len(snaps) : snaps[k] \in States
  BY LenProperties
<1>2. CASE UNCHANGED <<snaps, disk>>
  BY <1>2 DEF Kept
<1>3. CASE CommitChanges
  <2>1. snaps' = Append(snaps, store) /\ store' = store /\ disk' = disk
    BY <1>3 DEF CommitChanges, DB!Commit
  <2>2. /\ snaps' \in Seq(States) /\ Len(snaps') = Len(snaps) + 1
        /\ \A k \in 1..Len(snaps) : snaps'[k] = snaps[k]
        /\ snaps'[Len(snaps) + 1] = store
    BY <2>1, AppendProperties
  <2>3. \A k \in 1..Len(snaps') : snaps'[k] \in Kept
    <3>1. TAKE k \in 1..Len(snaps')
    <3>2. CASE k \in 1..Len(snaps)
      BY <2>2, <3>2 DEF Kept
    <3>3. CASE k = Len(snaps) + 1
      BY <2>2, <3>3 DEF Kept
    <3>4. QED
      BY <1>1, <2>2, <3>2, <3>3
  <2>4. \A s \in Kept' : s \in Kept
    BY <2>1, <2>3 DEF Kept
  <2>5. QED
    BY <2>2, <2>4
<1>4. CASE CommitThread
  <2>1. snaps # <<>> /\ store' = store
    BY <1>4 DEF CommitThread, DB!StoreRecord, DB!Stored
  <2>2. 1 \in 1..Len(snaps) /\ Head(snaps) = snaps[1] /\ snaps[1] \in Kept
    BY <1>1, <2>1, HeadTailProperties DEF Kept
  <2>3. CASE \E id \in RecordIds : disk[id] # Head(snaps)[id] /\ DB!StoreRecord(id)
    <3>1. PICK id \in RecordIds : disk' = [disk EXCEPT ![id] = snaps[1][id]] /\ snaps' = snaps
      BY <2>2, <2>3 DEF DB!StoreRecord
    <3>2. disk \in Kept
      BY DEF Kept
    <3>3. \A s \in Kept' : s \in Kept \/ s = disk'
      BY <2>1, <3>1 DEF Kept
    <3>4. QED
      BY <2>2, <3>1, <3>2, <3>3
  <2>4. CASE DB!Stored
    <3>1. snaps' = Tail(snaps) /\ disk' = disk
      BY <2>4 DEF DB!Stored
    <3>2. /\ snaps' \in Seq(States) /\ Len(snaps') = Len(snaps) - 1
          /\ \A k \in 1..Len(snaps') : snaps'[k] = snaps[k + 1]
      BY <2>1, <3>1, HeadTailProperties
    <3>3. \A k \in 1..Len(snaps') : snaps'[k] \in Kept
      BY <1>1, <3>2 DEF Kept
    <3>4. \A s \in Kept' : s \in Kept
      BY <2>1, <3>1, <3>3 DEF Kept
    <3>5. QED
      BY <3>2, <3>4
  <2>5. QED
    BY <1>4, <2>3, <2>4 DEF CommitThread
<1>5. ASSUME snaps' = <<>>, store' \in Kept, disk' \in Kept
      PROVE  snaps' \in Seq(States) /\ \A s \in Kept' : s \in Kept
  <2>1. snaps' \in Seq(States) /\ Len(snaps') = 0
    BY <1>5, EmptySeq
  <2>2. QED
    BY <1>5, <2>1 DEF Kept
<1>6. CASE Restart \/ Crash
  <2>1. snaps' = <<>> /\ store' \in Kept /\ disk' \in Kept
    BY <1>6 DEF Restart, Crash, DB!CleanCrash, Kept
  <2>2. QED
    BY <1>5, <2>1
<1>7. UNCHANGED <<snaps, disk>> \/ CommitChanges \/ CommitThread \/ Restart \/ Crash
  <2>1. CASE Scripts
    BY <2>1 DEF Scripts, AddSavedDeferredCall, AddDeferredCall, CancelDeferredCall, SetGameTime, Added
  <2>2. CASE Pass
    BY <2>2 DEF Pass, StartPass, RunDue, ScriptReturns, EndPass, records
  <2>3. CASE \E ms \in Moments : FrameTimeJob(ms)
    BY <2>3 DEF FrameTimeJob
  <2>4. QED
    BY <2>1, <2>2, <2>3 DEF Next
<1>8. QED
  BY <1>2, <1>3, <1>4, <1>6, <1>7

(* OriginInv after a step, from what the step makes of the records that    *)
(* the server works with and of its list.                                  *)
LEMMA OriginStep ==
    ASSUME Next, snaps \in Seq(States), adds \in Nat, adds' \in Nat, adds <= adds',
           NEW f \in Origins, \A s \in Kept : StateOK(adds, f, s),
           NEW g \in Origins, \A k \in 1..adds : g[k] = f[k],
           StateOK(adds', g, store'), CallsOK(adds', g, done', calls')
    PROVE  OriginInv' /\ snaps' \in Seq(States)
<1>1. \A s \in Kept : StateOK(adds', g, s)
  BY GrowLemma
<1>2. store \in States
  BY DEF Kept, StateOK
<1>3. ASSUME NEW a \in Kept, NEW b \in Kept, NEW id \in RecordIds
      PROVE  StateOK(adds', g, [a EXCEPT ![id] = b[id]])
  <2>1. StateOK(adds', g, a) /\ StateOK(adds', g, b)
    BY <1>1
  <2>2. b[id] \in Records /\ RecordOK(adds', g, id, b[id])
    BY <2>1 DEF StateOK, States
  <2>3. QED
    BY <2>1, <2>2, WriteLemma
<1>4. \A s \in Kept' : StateOK(adds', g, s)
  <2>1. TAKE s \in Kept'
  <2>2. \/ s \in Kept \/ s = store'
        \/ \E a, b \in Kept, id \in RecordIds : s = [a EXCEPT ![id] = b[id]]
    BY <1>2, KeptLemma
  <2>3. QED
    BY <1>1, <1>3, <2>2
<1>5. QED
  BY <1>2, <1>4, KeptLemma DEF OriginInv

-----------------------------------------------------------------------------
(* What every step starts from.                                            *)
LEMMA FactsLemma ==
    ASSUME Typed, OriginInv
    PROVE  /\ store \in States /\ store[Game] \in GameRecords /\ store[Game].date.year >= FirstYear
           /\ store[Game].lastId \in Nat /\ store[Game].lastId <= adds
           /\ adds \in Nat /\ MaxAdds \in Nat /\ full \in Nat /\ passFull \in Nat
           /\ calls \in Seq(CallSet) /\ Len(calls) \in Nat /\ DOMAIN calls = 1..Len(calls)
           /\ \A i \in 1..Len(calls) : calls[i] \in CallSet
           /\ \A id \in SavedIn(store) : id \in Serials /\ store[id] \in CallRecords /\ store[id].serial <= adds
<1>1. PICK f \in Origins : StateOK(adds, f, store) /\ CallsOK(adds, f, done, calls)
  BY DEF OriginInv, Kept
<1>2. store \in States
  BY <1>1 DEF StateOK
<1>3. calls \in Seq(CallSet)
  BY <1>1 DEF CallsOK
<1>4. Len(calls) \in Nat /\ DOMAIN calls = 1..Len(calls) /\ \A i \in 1..Len(calls) : calls[i] \in CallSet
  BY <1>3, LenProperties
<1>5. adds \in Nat /\ MaxAdds \in Nat /\ full \in Nat /\ passFull \in Nat
  BY BoundsAssumption DEF Typed
<1>6. /\ store[Game] \in GameRecords /\ store[Game].date.year >= FirstYear
      /\ store[Game].lastId <= adds
      /\ \A id \in SavedIn(store) : id \in Serials /\ store[id] \in CallRecords /\ store[id].serial <= adds
  <2>1. /\ SavedIn(store) \subseteq Serials
        /\ \A id \in SavedIn(store) : store[id] \in CallRecords /\ store[id].serial \in 1..adds
        /\ store[Game] \in GameRecords /\ store[Game].date.year >= FirstYear /\ store[Game].lastId <= adds
    BY <1>1, SavedLemma
  <2>2. QED
    BY <1>5, <2>1
<1>7. store[Game].lastId \in Nat
  BY <1>5, <1>6 DEF GameRecords
<1>8. QED
  BY <1>2, <1>3, <1>4, <1>5, <1>6, <1>7

(* A call is added, saved or not: what both share.                         *)
AddedCall(delay, repeating, d) ==
    [id |-> NextCallId, fire |-> FireAfter(delay), delay |-> d, repeating |-> repeating, serial |-> adds + 1]

LEMMA AddedLemma ==
    ASSUME Typed, OriginInv, NEW delay \in Delays, Added(delay), NEW repeating \in BOOLEAN,
           NEW d \in {delay, 0}
    PROVE  /\ NextCallId \in Serials /\ adds + 1 \in Serials /\ FireAfter(delay) \in Nat
           /\ NextCallId # Game
           /\ AddedCall(delay, repeating, d) \in CallSet
           /\ [store[Game] EXCEPT !.lastId = NextCallId] \in GameRecords
           /\ [store[Game] EXCEPT !.lastId = NextCallId].lastId = NextCallId
           /\ [store[Game] EXCEPT !.lastId = NextCallId].date.year >= FirstYear
           /\ snaps' \in Seq(States) => Typed' \/ failed' \notin BOOLEAN
<1>1. /\ store[Game] \in GameRecords /\ store[Game].lastId \in Nat /\ store[Game].lastId <= adds
      /\ adds \in Nat /\ MaxAdds \in Nat /\ adds < MaxAdds /\ full \in Nat
      /\ store[Game].date.year >= FirstYear
  BY FactsLemma DEF Added
<1>2. NextCallId \in Serials /\ adds + 1 \in Serials /\ NextCallId \in 0..MaxAdds /\ NextCallId # Game
  BY <1>1 DEF NextCallId, Serials, Game
<1>3. FireAfter(delay) \in Nat /\ ExactSpan(full, delay) \in Nat
  BY <1>1, NumbersLemma
<1>4. AddedCall(delay, repeating, d) \in CallSet
  BY <1>2, <1>3 DEF AddedCall, CallSet
<1>5. /\ [store[Game] EXCEPT !.lastId = NextCallId] \in GameRecords
      /\ [store[Game] EXCEPT !.lastId = NextCallId].lastId = NextCallId
      /\ [store[Game] EXCEPT !.lastId = NextCallId].date.year >= FirstYear
  BY <1>1, <1>2 DEF GameRecords
<1>6. ASSUME snaps' \in Seq(States), failed' \in BOOLEAN
      PROVE  Typed'
  <2>1. left' \in [Serials -> Nat] /\ adds' \in 0..MaxAdds
    BY <1>1, <1>2, <1>3 DEF Typed, Added
  <2>2. QED
    BY <1>6, <2>1 DEF Typed, Added, clock, process
<1>7. QED
  BY <1>2, <1>3, <1>4, <1>5, <1>6

LEMMA AddDeferredCallStep ==
    ASSUME IInv, NEW delay \in Delays, NEW repeating \in BOOLEAN, AddDeferredCall(delay, repeating)
    PROVE  IInv'
<1> DEFINE call == AddedCall(delay, repeating, delay)
           game == [store[Game] EXCEPT !.lastId = NextCallId]
<1>1. Added(delay) /\ Typed /\ OriginInv /\ SavedInv /\ MatchInv
  BY DEF AddDeferredCall, IInv
<1>2. Next
  BY DEF Next, Scripts
<1>3. /\ NextCallId \in Serials /\ adds + 1 \in Serials /\ NextCallId # Game /\ call \in CallSet
      /\ game \in GameRecords /\ game.lastId = NextCallId /\ game.date.year >= FirstYear
      /\ snaps' \in Seq(States) => Typed' \/ failed' \notin BOOLEAN
  BY <1>1, AddedLemma
<1>4. /\ adds \in Nat /\ store \in States /\ store[Game].lastId \in Nat /\ store[Game].lastId <= adds
      /\ calls \in Seq(CallSet)
  BY <1>1, FactsLemma
<1>5. /\ store' = [store EXCEPT ![Game] = game] /\ calls' = Append(calls, call)
      /\ adds' = adds + 1 /\ done' = done /\ savedCalls' = savedCalls /\ failed' = failed
      /\ snaps' = snaps /\ skewed' = skewed
  BY DEF AddDeferredCall, Added, AddedCall, process
<1>6. PICK f \in Origins : (\A s \in Kept : StateOK(adds, f, s)) /\ CallsOK(adds, f, done, calls)
  BY <1>1 DEF OriginInv
<1> DEFINE g == [f EXCEPT ![adds + 1] = [id |-> NextCallId, repeating |-> repeating]]
<1>7. /\ g \in Origins /\ \A k \in 1..adds : g[k] = f[k]
      /\ g[adds + 1] = [id |-> call.id, repeating |-> call.repeating]
      /\ call.serial = adds + 1 /\ call.id = NextCallId
  BY <1>3, <1>4 DEF Origins, AddedCall
<1> HIDE DEF g, call, game
<1>8. StateOK(adds + 1, g, store) /\ CallsOK(adds, g, done, calls)
  <2>1. store \in Kept
    BY DEF Kept
  <2>2. StateOK(adds, f, store) /\ adds + 1 \in Nat /\ adds <= adds + 1
    BY <1>4, <1>6, <2>1
  <2>3. StateOK(adds + 1, g, store)
    BY <1>4, <1>7, <2>2, GrowLemma
  <2>4. CallsOK(adds, g, done, calls)
    <3>1. CallsOK(adds, f, done, calls) /\ adds \in Nat /\ adds <= adds
      BY <1>4, <1>6
    <3>2. \A d, q : CallsOK(adds, f, d, q) => CallsOK(adds, g, d, q)
      BY <1>7, <3>1, GrowLemma
    <3>3. QED
      BY <3>1, <3>2
  <2>5. QED
    BY <2>3, <2>4
<1>9. StateOK(adds + 1, g, store')
  <2>1. RecordOK(adds + 1, g, Game, game) /\ game \in Records /\ Game \in RecordIds
    BY <1>3, <1>4 DEF RecordOK, Records, RecordIds, NextCallId
  <2>2. QED
    BY <1>5, <1>8, <2>1, WriteLemma
<1>10. CallsOK(adds + 1, g, done, Append(calls, call))
  BY <1>1, <1>3, <1>4, <1>7, <1>8, AppendLemma DEF SavedInv
<1>11. OriginInv' /\ snaps' \in Seq(States)
  <2>1. /\ StateOK(adds', g, store') /\ CallsOK(adds', g, done', calls')
        /\ adds' \in Nat /\ adds <= adds' /\ snaps \in Seq(States)
    BY <1>1, <1>4, <1>5, <1>9, <1>10 DEF Typed
  <2>2. QED
    BY <1>2, <1>4, <1>6, <1>7, <2>1, OriginStep
<1>12. Typed'
  BY <1>1, <1>3, <1>5, <1>11 DEF Typed
<1>13. /\ SavedIn(store') = SavedIn(store) /\ \A id \in SavedIn(store) : store'[id] = store[id]
       /\ store'[Game] = game
  BY <1>4, <1>5, BoundsAssumption DEF SavedIn, States, RecordIds, Serials, Game
<1>14. SavedInv'
  <2>1. done' \subseteq 1..adds'
    BY <1>1, <1>4, <1>5 DEF SavedInv
  <2>2. savedCalls' = SavedIn(store')
    BY <1>1, <1>5, <1>13 DEF SavedInv
  <2>3. \A id \in SavedIn(store') : store'[id].serial \notin done'
    BY <1>1, <1>5, <1>13 DEF SavedInv
  <2>4. QED
    BY <2>1, <2>2, <2>3 DEF SavedInv
<1>15. MatchInv'
  <2>1. SUFFICES ASSUME ~skewed
                 PROVE  Match(store', calls')
    BY <1>1, <1>5 DEF MatchInv
  <2>2. Match(store, calls)
    BY <1>1, <2>1 DEF MatchInv
  <2>3. call.id = store[Game].lastId + 1 /\ store'[Game].lastId = call.id
    BY <1>3, <1>7, <1>13 DEF NextCallId
  <2>4. ASSUME NEW id \in SavedIn(store')
        PROVE  id \in SavedIn(store) /\ store'[id] = store[id]
    BY <1>13
  <2>5. Match(store', Append(calls, call))
    <3> DEFINE r == store'
    <3>1. /\ call.id = store[Game].lastId + 1 /\ r[Game].lastId = call.id /\ store[Game].lastId \in Nat
          /\ \A id \in SavedIn(r) : id \in SavedIn(store) /\ r[id] = store[id]
      BY <1>4, <2>3, <2>4
    <3> HIDE DEF r
    <3>2. Match(r, Append(calls, call))
      BY <1>3, <1>4, <2>2, <3>1, AddMatch
    <3>3. QED
      BY <3>2 DEF r
  <2>6. QED
    BY <1>5, <2>5
<1>16. QED
  BY <1>11, <1>12, <1>14, <1>15 DEF IInv

(* A saved call takes a new record, unless a crash has left one with its   *)
(* identifier.                                                             *)
LEMMA AddSavedDeferredCallStep ==
    ASSUME IInv, NEW delay \in Delays, AddSavedDeferredCall(delay)
    PROVE  IInv'
<1> DEFINE call == AddedCall(delay, FALSE, 0)
           game == [store[Game] EXCEPT !.lastId = NextCallId]
           rec == [fire |-> FireAfter(delay), serial |-> adds + 1]
           once == [store EXCEPT ![Game] = game]
           id0 == NextCallId
<1>1. Added(delay) /\ Typed /\ OriginInv /\ SavedInv /\ MatchInv
  BY DEF AddSavedDeferredCall, IInv
<1>2. Next
  BY DEF Next, Scripts
<1>3. /\ id0 \in Serials /\ adds + 1 \in Serials /\ id0 # Game /\ call \in CallSet /\ FireAfter(delay) \in Nat
      /\ game \in GameRecords /\ game.lastId = id0 /\ game.date.year >= FirstYear
      /\ snaps' \in Seq(States) => Typed' \/ failed' \notin BOOLEAN
  BY <1>1, AddedLemma
<1>4. /\ adds \in Nat /\ store \in States /\ store[Game].lastId \in Nat /\ store[Game].lastId <= adds
      /\ calls \in Seq(CallSet)
  BY <1>1, FactsLemma
<1>5. /\ store' = [once EXCEPT ![id0] = rec] /\ calls' = Append(calls, call)
      /\ adds' = adds + 1 /\ done' = done /\ savedCalls' = savedCalls \cup {id0}
      /\ failed' = (store[id0] # NoRecord) /\ snaps' = snaps /\ skewed' = skewed
  BY DEF AddSavedDeferredCall, Added, AddedCall, process
<1>6. PICK f \in Origins : (\A s \in Kept : StateOK(adds, f, s)) /\ CallsOK(adds, f, done, calls)
  BY <1>1 DEF OriginInv
<1> DEFINE g == [f EXCEPT ![adds + 1] = [id |-> id0, repeating |-> FALSE]]
<1>7. /\ g \in Origins /\ \A k \in 1..adds : g[k] = f[k]
      /\ g[adds + 1] = [id |-> id0, repeating |-> FALSE]
      /\ call.serial = adds + 1 /\ call.id = id0 /\ call.repeating = FALSE /\ call.fire = FireAfter(delay)
  BY <1>3, <1>4 DEF Origins, AddedCall
<1>8. rec \in CallRecords /\ rec # NoRecord /\ rec.serial = adds + 1 /\ rec = [fire |-> call.fire, serial |-> call.serial]
  <2>1. rec \in CallRecords
    BY <1>3 DEF CallRecords
  <2>2. rec # NoRecord
    BY <2>1, RecordsAssumption
  <2>3. QED
    BY <1>7, <2>1, <2>2
<1> HIDE DEF g, call, game, rec, once, id0
<1>9. StateOK(adds + 1, g, store) /\ CallsOK(adds, g, done, calls)
  <2>1. store \in Kept
    BY DEF Kept
  <2>2. StateOK(adds, f, store) /\ adds + 1 \in Nat /\ adds <= adds + 1
    BY <1>4, <1>6, <2>1
  <2>3. StateOK(adds + 1, g, store)
    BY <1>4, <1>7, <2>2, GrowLemma
  <2>4. CallsOK(adds, g, done, calls)
    <3>1. CallsOK(adds, f, done, calls) /\ adds \in Nat /\ adds <= adds
      BY <1>4, <1>6
    <3>2. \A d, q : CallsOK(adds, f, d, q) => CallsOK(adds, g, d, q)
      BY <1>7, <3>1, GrowLemma
    <3>3. QED
      BY <3>1, <3>2
  <2>5. QED
    BY <2>3, <2>4
<1>10. StateOK(adds + 1, g, store')
  <2>1. RecordOK(adds + 1, g, Game, game) /\ game \in Records /\ Game \in RecordIds
    BY <1>3, <1>4 DEF RecordOK, Records, RecordIds, NextCallId, id0
  <2>2. StateOK(adds + 1, g, once)
    BY <1>9, <2>1, WriteLemma DEF once
  <2>3. RecordOK(adds + 1, g, id0, rec) /\ rec \in Records /\ id0 \in RecordIds
    BY <1>3, <1>4, <1>7, <1>8 DEF RecordOK, Records, RecordIds
  <2>4. QED
    BY <1>5, <2>2, <2>3, WriteLemma
<1>11. CallsOK(adds + 1, g, done, Append(calls, call))
  <2>1. g[adds + 1] = [id |-> call.id, repeating |-> call.repeating]
    BY <1>7
  <2>2. QED
    BY <1>1, <1>3, <1>4, <1>7, <1>9, <2>1, AppendLemma DEF SavedInv
<1>12. OriginInv' /\ snaps' \in Seq(States)
  <2>1. /\ StateOK(adds', g, store') /\ CallsOK(adds', g, done', calls')
        /\ adds' \in Nat /\ adds <= adds' /\ snaps \in Seq(States)
    BY <1>1, <1>4, <1>5, <1>10, <1>11 DEF Typed
  <2>2. QED
    BY <1>2, <1>4, <1>6, <1>7, <2>1, OriginStep
<1>13. Typed'
  BY <1>3, <1>5, <1>12
<1>14. /\ SavedIn(store') = SavedIn(store) \cup {id0}
       /\ \A id \in SavedIn(store) \ {id0} : store'[id] = store[id]
       /\ store'[Game] = game /\ store'[id0] = rec
  <2>1. store \in [RecordIds -> Records] /\ id0 \in RecordIds /\ Game \in RecordIds /\ Game \notin Serials
    BY <1>3, <1>4, BoundsAssumption DEF States, RecordIds, Game, Serials
  <2>2. \A id \in RecordIds : store'[id] = IF id = id0 THEN rec ELSE IF id = Game THEN game ELSE store[id]
    BY <1>5, <2>1 DEF once
  <2>3. \A id \in Serials : id \in RecordIds /\ id # Game
    BY <2>1 DEF RecordIds
  <2>4. QED
    BY <1>3, <1>8, <2>1, <2>2, <2>3 DEF SavedIn
<1>15. SavedInv'
  <2>1. done' \subseteq 1..adds'
    BY <1>1, <1>4, <1>5 DEF SavedInv
  <2>2. savedCalls' = SavedIn(store')
    BY <1>1, <1>5, <1>14 DEF SavedInv
  <2>3. ASSUME NEW id \in SavedIn(store')
        PROVE  store'[id].serial \notin done'
    <3>1. CASE id = id0
      <4>1. store'[id].serial = adds + 1
        BY <1>8, <1>14, <3>1
      <4>2. QED
        BY <1>1, <1>4, <1>5, <4>1 DEF SavedInv
    <3>2. CASE id # id0
      <4>1. id \in SavedIn(store) /\ store'[id] = store[id]
        BY <1>14, <2>3, <3>2
      <4>2. store[id].serial \notin done
        BY <1>1, <4>1 DEF SavedInv
      <4>3. QED
        BY <1>5, <4>1, <4>2
    <3>3. QED
      BY <3>1, <3>2
  <2>4. QED
    BY <2>1, <2>2, <2>3 DEF SavedInv
<1>16. MatchInv'
  <2>1. SUFFICES ASSUME ~skewed
                 PROVE  ~failed' /\ Match(store', calls') /\ \A k \in 1..Len(snaps') : Consistent(snaps'[k])
    BY <1>5 DEF MatchInv
  <2>2. Match(store, calls) /\ \A k \in 1..Len(snaps) : Consistent(snaps[k])
    BY <1>1, <2>1 DEF MatchInv
  <2>3. id0 = store[Game].lastId + 1
    BY DEF id0, NextCallId
  <2>4. id0 \notin SavedIn(store)
    <3>1. Consistent(store)
      BY <2>2, MatchConsistent
    <3>2. QED
      BY <1>4, <2>3, <3>1 DEF Consistent
  <2>5. ~failed'
    BY <1>3, <1>5, <2>4 DEF SavedIn
  <2>6. Match(store', Append(calls, call))
    <3> DEFINE r == store'
    <3>1. /\ call.id = store[Game].lastId + 1 /\ r[Game].lastId = call.id
          /\ \A id \in SavedIn(r) :
                \/ id \in SavedIn(store) /\ r[id] = store[id]
                \/ id = call.id /\ r[id] = [fire |-> call.fire, serial |-> call.serial]
      BY <1>3, <1>7, <1>8, <1>14, <2>3
    <3> HIDE DEF r
    <3>2. Match(r, Append(calls, call))
      BY <1>3, <1>4, <2>2, <3>1, AddMatch
    <3>3. QED
      BY <3>2 DEF r
  <2>7. QED
    BY <1>5, <2>2, <2>5, <2>6
<1>17. QED
  BY <1>12, <1>13, <1>15, <1>16 DEF IInv

(* A step that leaves the calls and their records alone.                   *)
LEMMA ClockStep ==
    ASSUME IInv, Next, UNCHANGED <<calls, savedCalls, done, adds, skewed, failed>>,
           NEW game \in GameRecords, game.date.year >= FirstYear, game.lastId = store[Game].lastId,
           store' = [store EXCEPT ![Game] = game],
           \A k \in 1..Len(snaps') : snaps'[k] = store \/ \E j \in 1..Len(snaps) : snaps'[k] = snaps[j]
    PROVE  OriginInv' /\ SavedInv' /\ MatchInv' /\ snaps' \in Seq(States)
<1>1. Typed /\ OriginInv /\ SavedInv /\ MatchInv
  BY DEF IInv
<1>2. /\ adds \in Nat /\ store \in States /\ store[Game].lastId <= adds
  BY <1>1, FactsLemma
<1>3. PICK f \in Origins : (\A s \in Kept : StateOK(adds, f, s)) /\ CallsOK(adds, f, done, calls)
  BY <1>1 DEF OriginInv
<1>4. StateOK(adds, f, store')
  <2>1. RecordOK(adds, f, Game, game) /\ game \in Records /\ Game \in RecordIds
    BY <1>2 DEF RecordOK, Records, RecordIds
  <2>2. StateOK(adds, f, store)
    BY <1>3 DEF Kept
  <2>3. QED
    BY <2>1, <2>2, WriteLemma
<1>5. OriginInv' /\ snaps' \in Seq(States)
  <2>1. /\ StateOK(adds', f, store') /\ CallsOK(adds', f, done', calls')
        /\ adds' \in Nat /\ adds <= adds' /\ snaps \in Seq(States)
    BY <1>1, <1>2, <1>3, <1>4 DEF Typed
  <2>2. QED
    BY <1>2, <1>3, <2>1, OriginStep
<1>6. /\ SavedIn(store') = SavedIn(store) /\ \A id \in SavedIn(store) : store'[id] = store[id]
      /\ store'[Game] = game
  BY <1>2, BoundsAssumption DEF SavedIn, States, RecordIds, Serials, Game
<1>7. SavedInv'
  <2>1. done' \subseteq 1..adds' /\ savedCalls' = SavedIn(store')
    BY <1>1, <1>6 DEF SavedInv
  <2>2. \A id \in SavedIn(store') : store'[id].serial \notin done'
    BY <1>1, <1>6 DEF SavedInv
  <2>3. QED
    BY <2>1, <2>2 DEF SavedInv
<1>8. MatchInv'
  <2>1. SUFFICES ASSUME ~skewed
                 PROVE  ~failed' /\ Match(store', calls') /\ \A k \in 1..Len(snaps') : Consistent(snaps'[k])
    BY DEF MatchInv
  <2>2. ~failed /\ Match(store, calls) /\ \A k \in 1..Len(snaps) : Consistent(snaps[k])
    BY <1>1, <2>1 DEF MatchInv
  <2>3. Match(store', calls)
    <3> DEFINE r == store'
    <3>1. SameSaved(store, r)
      BY <1>6 DEF SameSaved
    <3> HIDE DEF r
    <3>2. Match(r, calls)
      BY <2>2, <3>1, SameMatch
    <3>3. QED
      BY <3>2 DEF r
  <2>4. Consistent(store)
    BY <2>2, MatchConsistent
  <2>5. \A k \in 1..Len(snaps') : Consistent(snaps'[k])
    BY <2>2, <2>4
  <2>6. QED
    BY <2>2, <2>3, <2>5
<1>9. QED
  BY <1>5, <1>7, <1>8

(* A call leaves the list, and its record, if it has one, the store.       *)
LEMMA RemovedStep ==
    ASSUME IInv, Next, UNCHANGED <<adds, skewed, failed, snaps>>, NEW i \in 1..Len(calls),
           done' = done \cup {calls[i].serial},
           calls' = RemoveAt(calls, i), OnDeferredCallRemoved(calls[i].id)
    PROVE  OriginInv' /\ SavedInv' /\ MatchInv' /\ snaps' \in Seq(States)
<1> DEFINE id0 == calls[i].id
<1>1. Typed /\ OriginInv /\ SavedInv /\ MatchInv
  BY DEF IInv
<1>2. /\ adds \in Nat /\ store \in States /\ calls \in Seq(CallSet) /\ calls[i] \in CallSet
  BY <1>1, FactsLemma
<1>3. id0 \in Serials /\ id0 # Game /\ id0 \in RecordIds
  BY <1>2, BoundsAssumption DEF CallSet, Serials, Game, RecordIds
<1>4. PICK f \in Origins : (\A s \in Kept : StateOK(adds, f, s)) /\ CallsOK(adds, f, done, calls)
  BY <1>1 DEF OriginInv
<1>5. StateOK(adds, f, store)
  BY <1>4 DEF Kept
<1>6. /\ store' = IF id0 \in savedCalls THEN [store EXCEPT ![id0] = NoRecord] ELSE store
      /\ savedCalls' = savedCalls \ {id0}
  BY DEF OnDeferredCallRemoved
<1>7. savedCalls = SavedIn(store)
  BY <1>1 DEF SavedInv
<1> HIDE DEF id0
<1>8. /\ SavedIn(store') = SavedIn(store) \ {id0} /\ \A id \in SavedIn(store) \ {id0} : store'[id] = store[id]
      /\ store'[Game] = store[Game]
  <2>1. CASE id0 \in savedCalls
    <3>1. \A id \in RecordIds : store'[id] = IF id = id0 THEN NoRecord ELSE store[id]
      BY <1>2, <1>6, <2>1 DEF States
    <3>2. Game \in RecordIds /\ Serials \subseteq RecordIds
      BY DEF RecordIds
    <3>3. QED
      BY <1>3, <3>1, <3>2 DEF SavedIn
  <2>2. CASE id0 \notin savedCalls
    BY <1>6, <1>7, <2>2
  <2>3. QED
    BY <2>1, <2>2
<1>9. StateOK(adds, f, store')
  <2>1. CASE id0 \in savedCalls
    <3>1. RecordOK(adds, f, id0, NoRecord) /\ NoRecord \in Records
      BY <1>3 DEF RecordOK, Records
    <3>2. QED
      BY <1>3, <1>5, <1>6, <2>1, <3>1, WriteLemma
  <2>2. CASE id0 \notin savedCalls
    BY <1>5, <1>6, <2>2
  <2>3. QED
    BY <2>1, <2>2
<1>10. CallsOK(adds, f, done', calls')
  BY <1>4, RemoveLemma
<1>11. OriginInv' /\ snaps' \in Seq(States)
  <2>1. adds' \in Nat /\ adds <= adds' /\ snaps \in Seq(States) /\ StateOK(adds', f, store')
        /\ CallsOK(adds', f, done', calls')
    BY <1>1, <1>2, <1>9, <1>10 DEF Typed
  <2>2. QED
    BY <1>2, <1>4, <2>1, OriginStep
<1>12. SavedInv'
  <2>1. calls[i].serial \in 1..adds /\ f[calls[i].serial] = [id |-> id0, repeating |-> calls[i].repeating]
    BY <1>4 DEF CallsOK, id0
  <2>2. done' \subseteq 1..adds'
    BY <1>1, <2>1 DEF SavedInv
  <2>3. savedCalls' = SavedIn(store')
    BY <1>6, <1>7, <1>8
  <2>4. ASSUME NEW id \in SavedIn(store')
        PROVE  store'[id].serial \notin done'
    <3>1. id \in SavedIn(store) /\ id # id0 /\ store'[id] = store[id]
      BY <1>8, <2>4
    <3>2. store[id].serial \notin done
      BY <1>1, <3>1 DEF SavedInv
    <3>3. store[id].serial # calls[i].serial
      <4>1. f[store[id].serial] = [id |-> id, repeating |-> FALSE]
        BY <1>5, <3>1, SavedLemma
      <4>2. f[store[id].serial].id = id /\ f[calls[i].serial].id = id0
        BY <2>1, <4>1
      <4>3. QED
        BY <3>1, <4>2
    <3>4. QED
      BY <3>1, <3>2, <3>3
  <2>5. QED
    BY <2>2, <2>3, <2>4 DEF SavedInv
<1>13. MatchInv'
  <2>1. SUFFICES ASSUME ~skewed
                 PROVE  ~failed' /\ Match(store', calls') /\ \A k \in 1..Len(snaps') : Consistent(snaps'[k])
    BY DEF MatchInv
  <2>2. ~failed /\ Match(store, calls) /\ \A k \in 1..Len(snaps) : Consistent(snaps[k])
    BY <1>1, <2>1 DEF MatchInv
  <2>3. Match(store', calls')
    <3> DEFINE r == store'
    <3>1. SameSaved(store, r) /\ calls[i].id \notin SavedIn(r)
      BY <1>8 DEF SameSaved, id0
    <3> HIDE DEF r
    <3>2. Match(r, RemoveAt(calls, i))
      BY <1>2, <2>2, <3>1, RemoveMatch
    <3>3. QED
      BY <3>2 DEF r
  <2>4. QED
    BY <2>2, <2>3
<1>14. QED
  BY <1>11, <1>12, <1>13

LEMMA CancelDeferredCallStep ==
    ASSUME IInv, NEW id \in Serials, CancelDeferredCall(id)
    PROVE  IInv'
<1> DEFINE found == {i \in DOMAIN calls : calls[i].id = id}
           i == Min(found)
<1>1. Next
  BY DEF Next, Scripts
<1>2. Len(calls) \in Nat /\ DOMAIN calls = 1..Len(calls)
  BY FactsLemma DEF IInv
<1>3. i \in 1..Len(calls) /\ calls[i].id = id
  <2>1. found # {} /\ found \in SUBSET (1..Len(calls))
    BY <1>2 DEF CancelDeferredCall
  <2>2. i \in found
    BY <1>2, <2>1, FirstPosition
  <2>3. QED
    BY <1>2, <2>2
<1>4. /\ calls' = RemoveAt(calls, i) /\ OnDeferredCallRemoved(id)
      /\ done' = done \cup {calls[i].serial}
      /\ UNCHANGED <<snaps, disk, failed, clock, pass, left, last, adds, process>>
  BY DEF CancelDeferredCall
<1> HIDE DEF found, i
<1>5. OriginInv' /\ SavedInv' /\ MatchInv' /\ snaps' \in Seq(States)
  <2>1. UNCHANGED <<adds, skewed, failed, snaps>>
    BY <1>4 DEF process
  <2>2. QED
    BY <1>1, <1>3, <1>4, <2>1, RemovedStep
<1>6. Typed'
  BY <1>4, <1>5 DEF IInv, Typed, clock, pass, process
<1>7. QED
  BY <1>5, <1>6 DEF IInv

(* Reset leaves a clock of the kind that the invariant asks for.           *)
LEMMA SetGameTimeStep ==
    ASSUME IInv, NEW time \in Times, SetGameTime(time)
    PROVE  IInv'
<1> DEFINE game == [store[Game] EXCEPT !.mul = time.mul, !.date = time.date]
<1>1. Next
  BY DEF Next, Scripts
<1>2. Typed /\ OriginInv
  BY DEF IInv
<1>3. /\ store[Game] \in GameRecords /\ adds \in 0..MaxAdds /\ store \in States
      /\ time.mul \in Nat /\ time.date \in Dates /\ time.date.year >= FirstYear
  BY <1>2, FactsLemma, TimesAssumption DEF Typed
<1>4. game \in GameRecords /\ game.lastId = store[Game].lastId /\ game.date.year >= FirstYear
  BY <1>3 DEF GameRecords
<1>5. /\ store' = [store EXCEPT ![Game] = game]
      /\ UNCHANGED <<snaps, failed, calls, savedCalls, done, adds, skewed, left, skip, pc, passFull>>
      /\ stale' \in BOOLEAN /\ full' = 0
      /\ base' = DateTimeToFullTime(time.date)
  BY DEF SetGameTime, Reset, list, process
<1> HIDE DEF game
<1>6. OriginInv' /\ SavedInv' /\ MatchInv' /\ snaps' \in Seq(States)
  BY <1>1, <1>4, <1>5, ClockStep
<1>7. Typed'
  <2>1. full' \in 0..Word - 1 /\ base' \in FullTimes
    BY <1>3, <1>5, BaseType, BoundsAssumption
  <2>2. QED
    BY <1>2, <1>3, <1>5, <1>6, <2>1 DEF Typed
<1>8. QED
  BY <1>6, <1>7 DEF IInv

LEMMA FrameTimeJobStep ==
    ASSUME IInv, NEW ms \in Moments, FrameTimeJob(ms)
    PROVE  IInv'
<1> DEFINE game == IF full' = full THEN store[Game]
                   ELSE [store[Game] EXCEPT !.date = FullTimeToDateTime(Later(base, full'))]
<1>1. Next
  BY DEF Next
<1>2. Typed /\ OriginInv
  BY DEF IInv
<1>3. /\ store[Game] \in GameRecords /\ store[Game].date.year >= FirstYear /\ store \in States
      /\ full' \in 0..Word - 1
  <2>1. store[Game] \in GameRecords /\ store[Game].date.year >= FirstYear /\ store \in States
    BY <1>2, FactsLemma
  <2>2. full' \in 0..Word - 1
    BY <2>1, MillisecondsAssumption, NumbersLemma DEF FrameTimeJob
  <2>3. QED
    BY <2>1, <2>2
<1>4. /\ FullTimeToDateTime(Later(base, full')) \in Dates
      /\ FullTimeToDateTime(Later(base, full')).year >= FirstYear
  <2>1. base \in FullTimes
    BY <1>2 DEF Typed
  <2>2. full' \in Nat
    BY <1>3, BoundsAssumption
  <2>3. Later(base, full') \in FullTimes /\ Later(base, full').sec < DaySeconds
    BY <2>1, <2>2, LaterType
  <2>4. QED
    BY <2>3, DateType DEF Dates
<1>5. game \in GameRecords /\ game.lastId = store[Game].lastId /\ game.date.year >= FirstYear
  BY <1>3, <1>4 DEF GameRecords
<1>6. store' = [store EXCEPT ![Game] = game]
  BY <1>3 DEF FrameTimeJob, States
<1>7. /\ left' = [s \in Serials |-> Max({0, left[s] - Max({0, full' - full})})]
      /\ UNCHANGED <<base, resets, snaps, disk, failed, list, pass, done, last, adds, process>>
  BY DEF FrameTimeJob
<1> HIDE DEF game
<1>8. OriginInv' /\ SavedInv' /\ MatchInv' /\ snaps' \in Seq(States)
  <2>1. UNCHANGED <<calls, savedCalls, done, adds, skewed, failed, snaps>>
    BY <1>7 DEF list, process
  <2>2. QED
    BY <1>1, <1>5, <1>6, <2>1, ClockStep
<1>9. left' \in [Serials -> Nat]
  <2>1. ASSUME NEW s \in Serials
        PROVE  Max({0, left[s] - Max({0, full' - full})}) \in Nat
    <3>1. left[s] \in Nat /\ full' - full \in Int
      BY <1>2, <1>3, BoundsAssumption DEF Typed
    <3>2. Max({0, full' - full}) \in Int
      BY <3>1, MaxOfTwo
    <3>3. left[s] - Max({0, full' - full}) \in Int
      BY <3>1, <3>2
    <3>4. QED
      BY <3>3, MaxOfTwo
  <2>2. QED
    BY <1>7, <2>1
<1>10. Typed'
  BY <1>2, <1>3, <1>7, <1>8, <1>9 DEF Typed, pass, process
<1>11. QED
  BY <1>8, <1>10 DEF IInv

(* A step that leaves what the server works with alone.                    *)
LEMMA QuietStep ==
    ASSUME IInv, Next, UNCHANGED <<store, calls, savedCalls, done, adds, skewed, failed>>,
           \A k \in 1..Len(snaps') : snaps'[k] = store \/ \E j \in 1..Len(snaps) : snaps'[k] = snaps[j]
    PROVE  OriginInv' /\ SavedInv' /\ MatchInv' /\ snaps' \in Seq(States)
<1>1. /\ store \in States /\ store[Game] \in GameRecords /\ store[Game].date.year >= FirstYear
  BY FactsLemma DEF IInv
<1> DEFINE game == store[Game]
<1>2. store' = [store EXCEPT ![Game] = game]
  BY <1>1 DEF States
<1>3. game.lastId = store[Game].lastId /\ game \in GameRecords /\ game.date.year >= FirstYear
  BY <1>1
<1>4. UNCHANGED <<calls, savedCalls, done, adds, skewed, failed>>
  OBVIOUS
<1> HIDE DEF game
<1>5. QED
  BY <1>2, <1>3, <1>4, ClockStep

LEMMA PassSteps ==
    ASSUME IInv, StartPass \/ ScriptReturns \/ EndPass
    PROVE  IInv'
<1>1. Next
  BY DEF Next, Pass
<1>2. /\ UNCHANGED <<records, clock, list, left, done, adds, process>>
      /\ pc' \in {"idle", "loop", "script"} /\ skip' \in {skip, {}} /\ passFull' \in {passFull, full, 0}
      /\ stale' \in {stale, FALSE}
  BY DEF StartPass, ScriptReturns, EndPass, ghosts
<1>3. OriginInv' /\ SavedInv' /\ MatchInv' /\ snaps' \in Seq(States)
  <2>1. UNCHANGED <<store, calls, savedCalls, done, adds, skewed, failed>> /\ snaps' = snaps
    BY <1>2 DEF records, list, process
  <2>2. QED
    BY <1>1, <2>1, QuietStep
<1>4. Typed'
  <2>1. Typed
    BY DEF IInv
  <2>2. passFull' \in 0..Word - 1
    BY <1>2, <2>1, BoundsAssumption DEF Typed
  <2>3. skip' \in SUBSET Serials /\ stale' \in BOOLEAN
    BY <1>2, <2>1 DEF Typed
  <2>4. QED
    BY <1>2, <1>3, <2>1, <2>2, <2>3 DEF Typed, records, clock, process
<1>5. QED
  BY <1>3, <1>4 DEF IInv

LEMMA RunDueStep ==
    ASSUME IInv, RunDue
    PROVE  IInv'
<1> DEFINE i == Min(Due)
           call == calls[i]
           fire == IF call.delay = 0 THEN call.fire ELSE (passFull + Span(call.delay)) % Word
<1>1. Next
  BY DEF Next, Pass
<1>2. Typed /\ OriginInv /\ SavedInv /\ MatchInv
  BY DEF IInv
<1>3. /\ store \in States /\ store[Game] \in GameRecords
      /\ adds \in Nat /\ passFull \in Nat /\ snaps \in Seq(States)
      /\ calls \in Seq(CallSet) /\ Len(calls) \in Nat /\ DOMAIN calls = 1..Len(calls)
      /\ \A k \in 1..Len(calls) : calls[k] \in CallSet
  BY <1>2, FactsLemma DEF Typed
<1>4. i \in 1..Len(calls) /\ i \in Due
  <2>1. Due # {} /\ Due \in SUBSET (1..Len(calls))
    BY <1>3 DEF RunDue, Due
  <2>2. Min(Due) \in Due
    BY <1>3, <2>1, FirstPosition
  <2>3. QED
    BY <2>1, <2>2
<1>5. call \in CallSet /\ call.serial \in Serials /\ call.id \in Serials
  BY <1>3, <1>4 DEF CallSet
<1>6. fire \in Nat /\ ExactSpan(passFull, call.delay) \in Nat
  <2>1. call.delay \in Delays \cup {0} /\ call.fire \in Nat
    BY <1>5 DEF CallSet
  <2>2. QED
    BY <1>3, <2>1, NumbersLemma
<1>7. /\ pc' = "script"
      /\ UNCHANGED <<snaps, disk, failed, clock, passFull, stale, adds, process>>
  BY DEF RunDue
<1>8. \/ /\ call.repeating
         /\ calls' = [calls EXCEPT ![i].fire = fire]
         /\ skip' = skip \cup {call.id}
         /\ left' = [left EXCEPT ![call.serial] = ExactSpan(passFull, call.delay)]
         /\ UNCHANGED <<store, savedCalls, done>>
      \/ /\ ~call.repeating
         /\ calls' = RemoveAt(calls, i)
         /\ OnDeferredCallRemoved(call.id)
         /\ done' = done \cup {call.serial}
         /\ UNCHANGED <<skip, left>>
  BY DEF RunDue
<1>9. CASE /\ call.repeating
           /\ calls' = [calls EXCEPT ![i].fire = fire]
           /\ skip' = skip \cup {call.id}
           /\ left' = [left EXCEPT ![call.serial] = ExactSpan(passFull, call.delay)]
           /\ UNCHANGED <<store, savedCalls, done>>
  <2>1. PICK f \in Origins : (\A s \in Kept : StateOK(adds, f, s)) /\ CallsOK(adds, f, done, calls)
    BY <1>2 DEF OriginInv
  <2>2. StateOK(adds, f, store)
    BY <2>1 DEF Kept
  <2> HIDE DEF fire, i
  <2>3. CallsOK(adds, f, done, [calls EXCEPT ![i].fire = fire])
    BY <1>4, <1>6, <2>1, FireLemma
  <2>4. OriginInv' /\ snaps' \in Seq(States)
    <3>1. /\ adds' = adds /\ adds <= adds /\ StateOK(adds, f, store') /\ CallsOK(adds, f, done', calls')
      BY <1>3, <1>7, <1>9, <2>2, <2>3
    <3>2. QED
      BY <1>1, <1>3, <2>1, <3>1, OriginStep
  <2>5. SavedInv'
    BY <1>2, <1>7, <1>9 DEF SavedInv
  <2>6. MatchInv'
    <3>1. SUFFICES ASSUME ~skewed
                   PROVE  ~failed' /\ Match(store', calls') /\ \A k \in 1..Len(snaps') : Consistent(snaps'[k])
      BY <1>7 DEF MatchInv, process
    <3>2. ~failed /\ Match(store, calls) /\ \A k \in 1..Len(snaps) : Consistent(snaps[k])
      BY <1>2, <3>1 DEF MatchInv
    <3>3. Match(store, [calls EXCEPT ![i].fire = fire])
      BY <1>4, <1>6, <1>9, <2>1, <2>2, <3>2, FireMatch
    <3>4. QED
      BY <1>7, <1>9, <3>2, <3>3
  <2>7. Typed'
    <3>1. skip' \in SUBSET Serials /\ left' \in [Serials -> Nat]
      BY <1>2, <1>5, <1>6, <1>9 DEF Typed
    <3>2. QED
      BY <1>2, <1>7, <2>4, <3>1 DEF Typed, clock, process
  <2>8. QED
    BY <2>4, <2>5, <2>6, <2>7 DEF IInv
<1>10. CASE /\ ~call.repeating
            /\ calls' = RemoveAt(calls, i)
            /\ OnDeferredCallRemoved(call.id)
            /\ done' = done \cup {call.serial}
            /\ UNCHANGED <<skip, left>>
  <2> HIDE DEF fire, i
  <2>1. OriginInv' /\ SavedInv' /\ MatchInv' /\ snaps' \in Seq(States)
    <3>1. UNCHANGED <<adds, skewed, failed, snaps>>
      BY <1>7 DEF process
    <3>2. done' = done \cup {calls[i].serial} /\ calls' = RemoveAt(calls, i) /\ OnDeferredCallRemoved(calls[i].id)
      BY <1>10
    <3>3. QED
      BY <1>1, <1>4, <3>1, <3>2, RemovedStep
  <2>2. Typed'
    BY <1>2, <1>7, <1>10, <2>1 DEF Typed, clock, process
  <2>3. QED
    BY <2>1, <2>2 DEF IInv
<1>11. QED
  BY <1>8, <1>9, <1>10

(* The commit thread and the job that commits.                             *)
LEMMA CommitSteps ==
    ASSUME IInv, CommitChanges \/ CommitThread
    PROVE  IInv'
<1>1. Next
  BY DEF Next
<1>2. Typed /\ snaps \in Seq(States) /\ Len(snaps) \in Nat /\ store \in States
  BY FactsLemma, LenProperties DEF IInv, Typed
<1>3. UNCHANGED <<store, failed, clock, pass, list, ghosts, process>>
  BY DEF CommitChanges, CommitThread, DB!Commit, DB!StoreRecord, DB!Stored
<1>4. \A k \in 1..Len(snaps') : snaps'[k] = store \/ \E j \in 1..Len(snaps) : snaps'[k] = snaps[j]
  <2>1. CASE snaps' = Append(snaps, store)
    <3>1. /\ Len(snaps') = Len(snaps) + 1 /\ \A k \in 1..Len(snaps) : snaps'[k] = snaps[k]
          /\ snaps'[Len(snaps) + 1] = store
      BY <1>2, <2>1, AppendProperties
    <3>2. QED
      BY <1>2, <3>1
  <2>2. CASE snaps' = snaps
    BY <2>2
  <2>3. CASE snaps # <<>> /\ snaps' = Tail(snaps)
    <3>1. Len(snaps') = Len(snaps) - 1 /\ \A k \in 1..Len(snaps') : snaps'[k] = snaps[k + 1]
      BY <1>2, <2>3, HeadTailProperties
    <3>2. QED
      BY <1>2, <3>1
  <2>4. QED
    BY <2>1, <2>2, <2>3 DEF CommitChanges, CommitThread, DB!Commit, DB!StoreRecord, DB!Stored
<1>5. OriginInv' /\ SavedInv' /\ MatchInv' /\ snaps' \in Seq(States)
  <2>1. UNCHANGED <<store, calls, savedCalls, done, adds, skewed, failed>>
    BY <1>3 DEF list, ghosts, process
  <2>2. QED
    BY <1>1, <1>4, <2>1, QuietStep
<1>6. Typed'
  BY <1>2, <1>3, <1>5 DEF Typed, clock, pass, ghosts, process
<1>7. QED
  BY <1>5, <1>6 DEF IInv

(* A server that starts loads the calls from the records, and its list is  *)
(* as the records are.                                                     *)
LEMMA LoadStep ==
    ASSUME IInv, Next, NEW s \in Kept, InitGameLogic(s), store' = s, snaps' = <<>>, failed' = failed,
           done' \subseteq done, \A id \in SavedIn(s) : s[id].serial \notin done',
           skewed' \in BOOLEAN, ~skewed' => ~skewed /\ Consistent(s)
    PROVE  IInv'
<1>1. Typed /\ OriginInv /\ SavedInv /\ MatchInv /\ adds \in Nat /\ snaps \in Seq(States)
  BY FactsLemma DEF IInv, Typed
<1>2. PICK f \in Origins : (\A r \in Kept : StateOK(adds, f, r)) /\ CallsOK(adds, f, done, calls)
  BY <1>1 DEF OriginInv
<1>3. StateOK(adds, f, s) /\ s[Game] \in GameRecords /\ s[Game].date.year >= FirstYear
  BY <1>2, SavedLemma
<1>4. PICK ids \in SetToSeqs(SavedIn(s)) : calls' = Loaded(s, ids)
  BY DEF InitGameLogic, Loaded
<1>5. CallsOK(adds, f, done', calls') /\ (Consistent(s) => Match(s, calls'))
  <2> DEFINE d == done'
  <2>1. \A id \in SavedIn(s) : s[id].serial \notin d
    OBVIOUS
  <2> HIDE DEF d
  <2>2. CallsOK(adds, f, d, Loaded(s, ids)) /\ (Consistent(s) => Match(s, Loaded(s, ids)))
    BY <1>1, <1>3, <2>1, LoadLemma
  <2>3. QED
    BY <1>4, <2>2 DEF d
<1>6. /\ savedCalls' = SavedIn(s) /\ base' = DateTimeToFullTime(s[Game].date) /\ full' = 0
      /\ pc' = "idle" /\ passFull' = 0 /\ skip' = {}
      /\ stale' = FALSE /\ left' = left /\ adds' = adds
  BY DEF InitGameLogic, Reset
<1>7. OriginInv' /\ snaps' \in Seq(States)
  <2>1. adds' \in Nat /\ adds <= adds' /\ StateOK(adds', f, store') /\ CallsOK(adds', f, done', calls')
    BY <1>1, <1>3, <1>5, <1>6
  <2>2. QED
    BY <1>1, <1>2, <2>1, OriginStep
<1>8. SavedInv'
  BY <1>1, <1>6 DEF SavedInv
<1>9. MatchInv'
  <2>1. SUFFICES ASSUME ~skewed'
                 PROVE  ~failed' /\ Match(store', calls') /\ \A k \in 1..Len(snaps') : Consistent(snaps'[k])
    BY DEF MatchInv
  <2>2. ~failed /\ Match(s, calls')
    BY <1>1, <1>5, <2>1 DEF MatchInv
  <2>3. Len(snaps') = 0
    BY EmptySeq
  <2>4. QED
    BY <2>2, <2>3
<1>10. Typed'
  <2>1. 0 \in 0..Word - 1 /\ 0 \in Nat /\ {} \in SUBSET Serials
    BY BoundsAssumption
  <2>2. s[Game].date \in Dates
    BY <1>3 DEF GameRecords
  <2>3. base' \in FullTimes
    BY <1>3, <1>6, <2>2, BaseType
  <2>4. QED
    BY <1>1, <1>6, <1>7, <2>1, <2>3 DEF Typed
<1>11. QED
  BY <1>7, <1>8, <1>9, <1>10 DEF IInv

LEMMA RestartStep ==
    ASSUME IInv, Restart
    PROVE  IInv'
<1>1. Next /\ Typed /\ SavedInv /\ MatchInv
  BY DEF Next, IInv
<1>2. /\ InitGameLogic(store) /\ store' = store /\ snaps' = <<>> /\ failed' = failed
      /\ done' = done /\ skewed' = skewed
  BY DEF Restart
<1>3. store \in Kept
  BY DEF Kept
<1>4. \A id \in SavedIn(store) : store[id].serial \notin done'
  BY <1>1, <1>2 DEF SavedInv
<1>5. ~skewed => Consistent(store)
  BY <1>1, MatchConsistent DEF MatchInv
<1>6. skewed' \in BOOLEAN
  BY <1>1, <1>2 DEF Typed
<1>7. done' \subseteq done /\ (~skewed' => ~skewed /\ Consistent(store))
  BY <1>2, <1>5
<1>8. QED
  BY <1>1, <1>2, <1>3, <1>4, <1>6, <1>7, LoadStep

LEMMA CrashStep ==
    ASSUME IInv, Crash
    PROVE  IInv'
<1>1. Next /\ Typed /\ OriginInv
  BY DEF Next, IInv
<1>2. /\ InitGameLogic(disk) /\ store' = disk /\ snaps' = <<>> /\ failed' = failed
      /\ done' = done \ {disk[id].serial : id \in SavedIn(disk)}
      /\ skewed' = (skewed \/ \E id \in SavedIn(disk) : id > disk[Game].lastId)
  BY DEF Crash, DB!CleanCrash
<1>3. disk \in Kept
  BY DEF Kept
<1>4. SavedIn(disk) \subseteq Serials /\ disk[Game].lastId \in Nat
  <2>1. PICK f \in Origins : StateOK(adds, f, disk)
    BY <1>1, <1>3 DEF OriginInv
  <2>2. SavedIn(disk) \subseteq Serials /\ disk[Game] \in GameRecords
    BY <2>1, SavedLemma
  <2>3. QED
    BY <2>2, BoundsAssumption DEF GameRecords
<1>5. done' \subseteq done /\ \A id \in SavedIn(disk) : disk[id].serial \notin done'
  BY <1>2
<1>6. skewed' \in BOOLEAN
  BY <1>1, <1>2 DEF Typed
<1>7. ASSUME ~skewed'
      PROVE  ~skewed /\ Consistent(disk)
  <2>1. ~skewed /\ \A id \in SavedIn(disk) : ~(id > disk[Game].lastId)
    BY <1>2, <1>7
  <2>2. \A id \in SavedIn(disk) : id \in Int
    BY <1>4 DEF Serials
  <2>3. \A id \in SavedIn(disk) : id <= disk[Game].lastId
    BY <1>4, <2>1, <2>2
  <2>4. QED
    BY <2>1, <2>3 DEF Consistent
<1>8. QED
  BY <1>1, <1>2, <1>3, <1>5, <1>6, <1>7, LoadStep

LEMMA InitLemma == Init => IInv
<1>1. SUFFICES ASSUME Init
               PROVE  IInv
  OBVIOUS
<1> DEFINE game == [lastId |-> 0, mul |-> StartTime.mul, date |-> StartTime.date]
<1>2. /\ store = [id \in RecordIds |-> IF id = Game THEN game ELSE NoRecord]
      /\ base = DateTimeToFullTime(StartTime.date)
  BY <1>1 DEF Init
<1>3. /\ StartTime.mul \in Nat /\ StartTime.date \in Dates /\ StartTime.date.year >= FirstYear
      /\ MaxAdds \in Nat /\ Word \in Nat \ {0}
  BY TimesAssumption, BoundsAssumption
<1>4. /\ disk = store /\ snaps = <<>> /\ failed = FALSE /\ calls = <<>> /\ savedCalls = {}
      /\ full = 0 /\ pc = "idle" /\ passFull = 0 /\ skip = {} /\ stale = FALSE
      /\ left = [s \in Serials |-> 0] /\ done = {} /\ adds = 0 /\ skewed = FALSE
  BY <1>1 DEF Init
<1>5. game \in GameRecords /\ game.date = StartTime.date /\ game.lastId = 0
  BY <1>3 DEF GameRecords
<1> HIDE DEF game
<1>6. /\ store \in States /\ store[Game] = game
      /\ \A id \in RecordIds : id # Game => store[id] = NoRecord
  BY <1>2, <1>5 DEF States, Records, RecordIds
<1>7. SavedIn(store) = {}
  <2>1. \A id \in Serials : id \in RecordIds /\ id # Game
    BY DEF Serials, RecordIds, Game
  <2>2. QED
    BY <1>6, <2>1 DEF SavedIn
<1>8. Len(snaps) = 0 /\ Len(calls) = 0 /\ snaps \in Seq(States) /\ calls \in Seq(CallSet)
  BY <1>4, EmptySeq
<1>9. Typed
  <2>1. 0 \in 0..Word - 1 /\ 0 \in 0..MaxAdds /\ base \in FullTimes
    BY <1>2, <1>3, BaseType
  <2>2. QED
    BY <1>4, <1>8, <2>1 DEF Typed
<1>10. ASSUME NEW f
       PROVE  StateOK(adds, f, store) /\ CallsOK(adds, f, done, calls)
  <2>1. game.lastId <= adds
    BY <1>4, <1>5
  <2>2. \A id \in RecordIds : RecordOK(adds, f, id, store[id])
    BY <1>3, <1>5, <1>6, <2>1 DEF RecordOK
  <2>3. CallsOK(adds, f, done, calls)
    BY <1>8 DEF CallsOK
  <2>4. QED
    BY <1>6, <2>2, <2>3 DEF StateOK
<1>11. OriginInv
  <2>1. [s \in Serials |-> [id |-> s, repeating |-> FALSE]] \in Origins
    BY DEF Origins
  <2>2. \A s \in Kept : s = store
    BY <1>4, <1>8 DEF Kept
  <2>3. QED
    BY <1>10, <2>1, <2>2 DEF OriginInv
<1>12. SavedInv
  BY <1>4, <1>7 DEF SavedInv
<1>13. MatchInv
  BY <1>4, <1>7, <1>8 DEF MatchInv, Match
<1>14. QED
  BY <1>9, <1>11, <1>12, <1>13 DEF IInv

LEMMA NextLemma == IInv /\ [Next]_vars => IInv'
<1> SUFFICES ASSUME IInv, [Next]_vars
             PROVE  IInv'
  OBVIOUS
<1>1. CASE Scripts
  <2>1. CASE \E delay \in Delays : AddSavedDeferredCall(delay)
    BY <2>1, AddSavedDeferredCallStep
  <2>2. CASE \E delay \in Delays, r \in BOOLEAN : AddDeferredCall(delay, r)
    BY <2>2, AddDeferredCallStep
  <2>3. CASE \E id \in Serials : CancelDeferredCall(id)
    BY <2>3, CancelDeferredCallStep
  <2>4. CASE \E time \in Times : SetGameTime(time)
    BY <2>4, SetGameTimeStep
  <2>5. QED
    BY <1>1, <2>1, <2>2, <2>3, <2>4 DEF Scripts
<1>2. CASE Pass
  BY <1>2, PassSteps, RunDueStep DEF Pass
<1>3. CASE \E ms \in Moments : FrameTimeJob(ms)
  BY <1>3, FrameTimeJobStep
<1>4. CASE CommitChanges \/ CommitThread
  BY <1>4, CommitSteps
<1>5. CASE Restart \/ Crash
  BY <1>5, RestartStep, CrashStep
<1>6. CASE UNCHANGED vars
  <2>1. UNCHANGED <<store, snaps, disk, failed, calls, savedCalls, base, full, pc, passFull, skip,
                    left, done, stale, skewed, adds>>
    BY <1>6 DEF vars, records, clock, pass, list, ghosts, process
  <2>2. Typed' /\ SavedInv' /\ MatchInv'
    BY <2>1 DEF IInv, Typed, SavedInv, MatchInv
  <2>3. OriginInv'
    BY <2>1 DEF IInv, OriginInv, Kept
  <2>4. QED
    BY <2>2, <2>3 DEF IInv
<1>7. QED
  BY <1>1, <1>2, <1>3, <1>4, <1>5, <1>6 DEF Next

(* The invariant of the records, the list and what has run.               *)
LEMMA Invariance == Spec => []IInv
<1>1. Init => IInv
  BY InitLemma
<1>2. IInv /\ [Next]_vars => IInv'
  BY NextLemma
<1>3. QED
  BY <1>1, <1>2, PTL DEF Spec

(* The variables have their types: the record of the game is always one of *)
(* the game with a date of the calendar, every other one that of a call.   *)
THEOREM TypeTheorem == Spec => []TypeOK
<1>1. IInv => TypeOK
  <2>1. SUFFICES ASSUME IInv
                 PROVE  TypeOK
    OBVIOUS
  <2>2. Typed /\ OriginInv /\ SavedInv
    BY <2>1 DEF IInv
  <2>3. /\ store \in States /\ store[Game] \in GameRecords /\ adds \in Nat /\ calls \in Seq(CallSet)
        /\ \A id \in SavedIn(store) : id \in Serials /\ store[id] \in CallRecords
    BY <2>2, FactsLemma
  <2>4. disk \in States
    BY <2>2 DEF OriginInv, Kept, StateOK
  <2>5. 1..adds \subseteq Serials
    BY <2>2, BoundsAssumption DEF Typed, Serials
  <2>6. States = [RecordIds -> CallRecords \cup GameRecords \cup {NoRecord}]
    <3>1. Records = CallRecords \cup GameRecords \cup {NoRecord}
      BY DEF Records
    <3>2. QED
      BY <3>1 DEF States
  <2>7. calls \in Seq([id : Serials, fire : Nat, delay : Delays \cup {0}, repeating : BOOLEAN, serial : Serials])
    BY <2>3 DEF CallSet
  <2>8. DOMAIN store = RecordIds
    BY <2>3 DEF States
  <2>9. savedCalls \in SUBSET Serials /\ done \in SUBSET Serials
    BY <2>2, <2>3, <2>5 DEF SavedInv
  <2>10. QED
    BY <2>2, <2>3, <2>4, <2>6, <2>7, <2>8, <2>9 DEF TypeOK, Typed
<1>2. QED
  BY <1>1, Invariance, PTL

(* As long as no crash has torn the record of the game from that of a      *)
(* call, the data base refuses no call (AddSavedDeferredCall), identifiers *)
(* are unique, and the calls to be saved are the records, with their time. *)
THEOREM SavedMatchTheorem == Spec => []SavedMatch
<1>1. IInv => SavedMatch
  <2>1. SUFFICES ASSUME IInv, ~skewed
                 PROVE  /\ ~failed
                        /\ \A i, j \in DOMAIN calls : calls[i].id = calls[j].id => i = j
                        /\ \A i \in DOMAIN calls : calls[i].id <= store[Game].lastId
                        /\ savedCalls = SavedIn(store)
                        /\ \A id \in savedCalls : \E i \in DOMAIN calls :
                              calls[i].id = id /\ store[id] = [fire |-> calls[i].fire, serial |-> calls[i].serial]
                        /\ \A n \in DOMAIN snaps : Consistent(snaps[n])
    BY DEF SavedMatch
  <2>2. Typed /\ OriginInv /\ SavedInv /\ MatchInv
    BY <2>1 DEF IInv
  <2>3. DOMAIN calls = 1..Len(calls) /\ DOMAIN snaps = 1..Len(snaps)
    BY <2>2, FactsLemma, LenProperties DEF Typed
  <2>4. QED
    BY <2>1, <2>2, <2>3 DEF SavedInv, MatchInv, Match
<1>2. QED
  BY <1>1, Invariance, PTL

-----------------------------------------------------------------------------
(* The date of the game, in a state whose records are those of IInv.       *)
DateInv == full > 0 => store[Game].date = FullTimeToDateTime(Later(base, full))

(* The steps that write the record of the game.                            *)
LEMMA GameRecordLemma ==
    ASSUME IInv, Next
    PROVE  \/ Restart \/ Crash \/ \E time \in Times : SetGameTime(time)
           \/ \E ms \in Moments : FrameTimeJob(ms)
           \/ /\ UNCHANGED <<full, base>>
              /\ store'[Game].date = store[Game].date
<1>1. /\ store \in States /\ store[Game] \in GameRecords /\ savedCalls = SavedIn(store)
      /\ Game \in RecordIds /\ Game \notin Serials
  BY FactsLemma DEF IInv, SavedInv, RecordIds, Game, Serials
<1>2. ASSUME NEW id, OnDeferredCallRemoved(id)
      PROVE  store'[Game] = store[Game]
  <2>1. CASE id \in savedCalls
    <3>1. id # Game /\ store' = [store EXCEPT ![id] = NoRecord]
      BY <1>1, <1>2, <2>1 DEF OnDeferredCallRemoved, SavedIn
    <3>2. QED
      BY <1>1, <3>1 DEF States
  <2>2. CASE id \notin savedCalls
    BY <1>2, <2>2 DEF OnDeferredCallRemoved
  <2>3. QED
    BY <2>1, <2>2
<1> DEFINE Same == store'[Game].date = store[Game].date
<1>3. CASE Scripts
  <2>1. ASSUME NEW delay \in Delays, AddSavedDeferredCall(delay)
        PROVE  UNCHANGED <<full, base>> /\ Same
    <3>1. UNCHANGED <<full, base>>
      BY <2>1 DEF AddSavedDeferredCall, Added, clock
    <3>2. NextCallId # Game /\ NextCallId \in RecordIds
      <4>1. Typed /\ OriginInv /\ Added(delay)
        BY <2>1 DEF IInv, AddSavedDeferredCall
      <4>2. NextCallId \in Serials
        BY <4>1, AddedLemma
      <4>3. QED
        BY <1>1, <4>2 DEF RecordIds
    <3>3. store'[Game] = [store[Game] EXCEPT !.lastId = NextCallId]
      <4>1. store' = [store EXCEPT ![Game].lastId = NextCallId,
                                   ![NextCallId] = [fire |-> FireAfter(delay), serial |-> adds + 1]]
        BY <2>1 DEF AddSavedDeferredCall
      <4>2. QED
        BY <1>1, <3>2, <4>1 DEF States
    <3>4. Same
      BY <1>1, <3>3 DEF GameRecords
    <3>5. QED
      BY <3>1, <3>4
  <2>2. ASSUME NEW delay \in Delays, NEW r \in BOOLEAN, AddDeferredCall(delay, r)
        PROVE  UNCHANGED <<full, base>> /\ Same
    <3>1. /\ UNCHANGED <<full, base>>
          /\ store' = [store EXCEPT ![Game].lastId = NextCallId]
      BY <2>2 DEF AddDeferredCall, Added, clock
    <3>2. store'[Game] = [store[Game] EXCEPT !.lastId = NextCallId]
      BY <1>1, <3>1 DEF States
    <3>3. QED
      BY <1>1, <3>1, <3>2 DEF GameRecords
  <2>3. ASSUME NEW id \in Serials, CancelDeferredCall(id)
        PROVE  UNCHANGED <<full, base>> /\ Same
    BY <1>2, <2>3 DEF CancelDeferredCall, clock
  <2>4. QED
    BY <1>3, <2>1, <2>2, <2>3 DEF Scripts
<1>4. CASE Pass
  <2>1. CASE StartPass \/ ScriptReturns \/ EndPass
    BY <2>1 DEF StartPass, ScriptReturns, EndPass, records, clock
  <2>2. CASE RunDue
    <3>1. store'[Game] = store[Game]
      BY <1>2, <2>2 DEF RunDue
    <3>2. UNCHANGED <<full, base>>
      BY <2>2 DEF RunDue, clock
    <3>3. QED
      BY <3>1, <3>2
  <2>3. QED
    BY <1>4, <2>1, <2>2 DEF Pass
<1>5. CASE CommitChanges \/ CommitThread
  BY <1>5 DEF CommitChanges, CommitThread, DB!Commit, DB!StoreRecord, DB!Stored, clock
<1>6. QED
  BY <1>3, <1>4, <1>5 DEF Next

LEMMA DateStep == IInv /\ DateInv /\ [Next]_vars => DateInv'
<1> SUFFICES ASSUME IInv, DateInv, [Next]_vars
             PROVE  DateInv'
  OBVIOUS
<1>1. CASE UNCHANGED vars
  BY <1>1 DEF vars, records, clock, DateInv
<1>2. CASE \E ms \in Moments : FrameTimeJob(ms)
  <2>1. PICK ms \in Moments : FrameTimeJob(ms)
    BY <1>2
  <2>2. CASE full' = full
    BY <2>1, <2>2 DEF FrameTimeJob, DateInv
  <2>3. CASE full' # full
    <3>1. /\ base' = base
          /\ store' = [store EXCEPT ![Game].date = FullTimeToDateTime(Later(base, full'))]
      BY <2>1, <2>3 DEF FrameTimeJob
    <3>2. store \in States /\ store[Game] \in GameRecords /\ Game \in RecordIds
      BY FactsLemma DEF IInv, RecordIds
    <3>3. store'[Game] = [store[Game] EXCEPT !.date = FullTimeToDateTime(Later(base, full'))]
      BY <3>1, <3>2 DEF States
    <3>4. store'[Game].date = FullTimeToDateTime(Later(base, full'))
      BY <3>2, <3>3 DEF GameRecords
    <3>5. QED
      BY <3>1, <3>4 DEF DateInv
  <2>4. QED
    BY <2>2, <2>3
<1>3. CASE Restart \/ Crash \/ \E time \in Times : SetGameTime(time)
  <2>1. full' = 0
    BY <1>3 DEF Restart, Crash, SetGameTime, InitGameLogic, Reset
  <2>2. QED
    BY <2>1 DEF DateInv
<1>4. CASE UNCHANGED <<full, base>> /\ store'[Game].date = store[Game].date
  BY <1>4 DEF DateInv
<1>5. QED
  BY <1>1, <1>2, <1>3, <1>4, GameRecordLemma

(* The date in the record of the game goes on with the clock as in the     *)
(* calendar, over the ends of months, leap days and years, from any date   *)
(* and for a frame of any length, once FrameTimeJob has written it: each   *)
(* FrameTimeJob that moves the second writes it anew from what the clock   *)
(* counts from, and nothing else changes it.                               *)
THEOREM DateAdvancesTheorem == Spec => DateAdvances
<1> DEFINE Advance == full > 0 /\ full' > full => store'[Game].date = DateAfter(store[Game].date, full' - full)
<1>1. IInv /\ DateInv /\ IInv' /\ DateInv' /\ [Next]_vars => [Advance]_vars
  <2>1. SUFFICES ASSUME IInv, DateInv, IInv', DateInv', Next, full > 0, full' > full
                 PROVE  store'[Game].date = DateAfter(store[Game].date, full' - full)
    OBVIOUS
  <2>2. full \in Nat /\ base \in FullTimes /\ full' \in Nat
    BY <2>1, BoundsAssumption DEF IInv, Typed
  <2>3. base' = base
    <3>1. CASE Restart \/ Crash \/ \E time \in Times : SetGameTime(time)
      <4>1. full' = 0
        BY <3>1 DEF Restart, Crash, SetGameTime, InitGameLogic, Reset
      <4>2. QED
        BY <2>1, <2>2, <4>1
    <3>2. CASE \E ms \in Moments : FrameTimeJob(ms)
      BY <3>2 DEF FrameTimeJob
    <3>3. QED
      BY <2>1, <3>1, <3>2, GameRecordLemma
  <2>4. /\ store[Game].date = FullTimeToDateTime(Later(base, full))
        /\ store'[Game].date = FullTimeToDateTime(Later(base, full'))
    BY <2>1, <2>2, <2>3 DEF DateInv
  <2>5. FullTimeToDateTime(Later(base, full')) = DateAfter(FullTimeToDateTime(Later(base, full)), full' - full)
    BY <2>1, <2>2, LaterDate
  <2>6. QED
    BY <2>4, <2>5
<1>2. Init => DateInv
  BY DEF Init, DateInv
<1>3. QED
  BY <1>1, <1>2, DateStep, Invariance, NextLemma, PTL DEF Spec, DateAdvances

-----------------------------------------------------------------------------
(* How the seconds that calls have still to wait (l, by serial) go with    *)
(* the times in a list of calls q and in a state of the records s, at the  *)
(* full second now.                                                        *)
CallsTimed(l, now, q) == \A i \in 1..Len(q) : l[q[i].serial] > 0 => now + l[q[i].serial] <= q[i].fire
RecordsTimed(l, s) == \A id \in SavedIn(s) : l[s[id].serial] <= s[id].fire

(* The loop compares with the clock, or with one that was reset meanwhile. *)
PassInv ==
    /\ stale => pc # "idle"
    /\ pc # "idle" => IF stale THEN full = 0 ELSE passFull = full

CallsInv == CallsTimed(left, full, calls) /\ \A s \in Kept : RecordsTimed(left, s)

TimeInv == PassInv /\ CallsInv

(* The loop and the full second that it has read.                          *)
LEMMA PassStep == IInv /\ PassInv /\ Next => PassInv'
<1> SUFFICES ASSUME IInv, PassInv, Next
             PROVE  PassInv'
  OBVIOUS
<1>1. stale \in BOOLEAN
  BY DEF IInv, Typed
<1>2. CASE UNCHANGED <<full, passFull, stale>> /\ (pc' # "idle" => pc # "idle") /\ (stale => pc' # "idle")
  BY <1>2 DEF PassInv
<1>3. CASE pc' = "idle" /\ ~stale'
  BY <1>3 DEF PassInv
<1>4. ASSUME NEW time \in Times, SetGameTime(time)
      PROVE  PassInv'
  <2>1. /\ full' = 0 /\ stale' = (pc = "script") /\ pc' = pc /\ pc \in {"idle", "script"}
    BY <1>4 DEF SetGameTime, Reset, InScript
  <2>2. QED
    BY <2>1 DEF PassInv
<1>5. CASE Scripts
  <2>1. CASE \E time \in Times : SetGameTime(time)
    BY <1>4, <2>1
  <2>2. CASE UNCHANGED <<full, passFull, stale, pc>>
    BY <1>2, <2>2 DEF PassInv
  <2>3. QED
    BY <1>5, <2>1, <2>2 DEF Scripts, AddSavedDeferredCall, AddDeferredCall, Added, CancelDeferredCall, clock, pass
<1>6. CASE Pass
  <2>1. CASE StartPass
    BY <2>1 DEF StartPass, clock, PassInv
  <2>2. CASE RunDue
    BY <1>2, <2>2 DEF RunDue, clock, PassInv
  <2>3. CASE ScriptReturns
    BY <1>2, <2>3 DEF ScriptReturns, clock, PassInv
  <2>4. CASE EndPass
    BY <1>3, <2>4 DEF EndPass
  <2>5. QED
    BY <1>6, <2>1, <2>2, <2>3, <2>4 DEF Pass
<1>7. CASE \E ms \in Moments : FrameTimeJob(ms)
  <2>1. pc = "idle" /\ pc' = pc /\ stale' = stale
    BY <1>7 DEF FrameTimeJob, pass
  <2>2. QED
    BY <1>3, <2>1 DEF PassInv
<1>8. CASE CommitChanges \/ CommitThread
  <2>1. UNCHANGED <<full, passFull, stale, pc>>
    BY <1>8 DEF CommitChanges, CommitThread, clock, pass
  <2>2. QED
    BY <1>2, <2>1 DEF PassInv
<1>9. CASE Restart \/ Crash
  <2>1. pc' = "idle" /\ ~stale'
    BY <1>9 DEF Restart, Crash, InitGameLogic
  <2>2. QED
    BY <1>3, <2>1
<1>10. QED
  BY <1>5, <1>6, <1>7, <1>8, <1>9 DEF Next

(* The records that are kept after a step, when no call waits longer and   *)
(* the server's own records are as they must be.                           *)
LEMMA KeptTimed ==
    ASSUME IInv, Next, NEW l \in [Serials -> Nat], \A s \in Kept : RecordsTimed(l, s), RecordsTimed(l, store')
    PROVE  \A s \in Kept' : RecordsTimed(l, s)
<1>1. snaps \in Seq(States) /\ store \in States
  BY FactsLemma DEF IInv, Typed
<1>2. ASSUME NEW a \in Kept, NEW b \in Kept, NEW k \in RecordIds
      PROVE  RecordsTimed(l, [a EXCEPT ![k] = b[k]])
  <2> DEFINE s == [a EXCEPT ![k] = b[k]]
  <2>1. a \in States /\ b \in States
    BY DEF IInv, OriginInv, StateOK
  <2>2. \A id \in RecordIds : s[id] = IF id = k THEN b[id] ELSE a[id]
    BY <2>1 DEF States
  <2>3. Serials \subseteq RecordIds
    BY DEF RecordIds
  <2>4. RecordsTimed(l, a) /\ RecordsTimed(l, b)
    OBVIOUS
  <2> HIDE DEF s
  <2>5. RecordsTimed(l, s)
    BY <2>2, <2>3, <2>4 DEF RecordsTimed, SavedIn
  <2>6. QED
    BY <2>5 DEF s
<1>3. \A s \in Kept' : \/ s \in Kept \/ s = store'
                       \/ \E a, b \in Kept, id \in RecordIds : s = [a EXCEPT ![id] = b[id]]
  BY <1>1, KeptLemma
<1>4. QED
  BY <1>2, <1>3

(* Another clock: the calls wait for seconds that the old one has counted. *)
LEMMA ResetTimed ==
    ASSUME NEW l \in [Serials -> Nat], NEW now \in Nat, NEW q \in Seq(CallSet), CallsTimed(l, now, q)
    PROVE  CallsTimed(l, 0, q)
<1>1. SUFFICES ASSUME NEW i \in 1..Len(q), l[q[i].serial] > 0
               PROVE  0 + l[q[i].serial] <= q[i].fire
  BY DEF CallsTimed
<1>2. q[i].serial \in Serials /\ q[i].fire \in Nat
  <2>1. q[i] \in CallSet
    BY LenProperties
  <2>2. QED
    BY <2>1 DEF CallSet
<1>3. now + l[q[i].serial] <= q[i].fire /\ l[q[i].serial] \in Nat
  BY <1>1, <1>2 DEF CallsTimed
<1>4. QED
  BY <1>2, <1>3

(* The time of a call that is put into the list, or back into it: a delay  *)
(* that fits the numbers of the code, and so does the sum, is added as it  *)
(* is.                                                                     *)
LEMMA SpanTimed ==
    ASSUME store[Game] \in GameRecords, NEW start \in Nat, NEW delay \in Delays \cup {0}
    PROVE  /\ ExactSpan(start, delay) \in Nat /\ (start + Span(delay)) % Word \in Nat
           /\ ExactSpan(start, delay) > 0 => (start + Span(delay)) % Word = start + ExactSpan(start, delay)
           /\ ExactSpan(start, 0) = 0
<1>1. TimeMultiplier \in Nat /\ Word \in Nat \ {0}
  BY TimesAssumption, BoundsAssumption DEF TimeMultiplier, GameRecords
<1>2. Span(delay) \in Nat /\ ExactSpan(start, delay) \in Nat
  BY NumbersLemma
<1>3. \A a \in Nat : a % Word \in Nat /\ (a < Word => a % Word = a)
  BY <1>1
<1>4. start + Span(delay) \in Nat
  BY <1>2
<1>5. ExactSpan(start, delay) > 0 => (start + Span(delay)) % Word = start + ExactSpan(start, delay)
  BY <1>3, <1>4 DEF ExactSpan
<1>6. ExactSpan(start, 0) = 0
  <2>1. 0 * TimeMultiplier = 0 /\ 0 % Word = 0 /\ 0 \div 1000 = 0
    BY <1>1
  <2>2. QED
    BY <2>1 DEF ExactSpan, Span
<1>7. QED
  BY <1>2, <1>3, <1>4, <1>5, <1>6

LEMMA AddTimed ==
    ASSUME IInv, CallsInv, NEW delay \in Delays, Added(delay),
           NEW call \in CallSet, call.serial = adds + 1, call.fire = FireAfter(delay), calls' = Append(calls, call)
    PROVE  /\ CallsTimed(left', full', calls')
           /\ \A s \in Kept : RecordsTimed(left', s)
           /\ left' \in [Serials -> Nat]
           /\ left'[adds + 1] <= FireAfter(delay)
           /\ \A k \in 1..adds : left'[k] = left[k]
<1>1. /\ adds \in Nat /\ calls \in Seq(CallSet) /\ Len(calls) \in Nat /\ full \in Nat /\ store[Game] \in GameRecords
      /\ left \in [Serials -> Nat] /\ adds + 1 \in Serials
      /\ \A i \in 1..Len(calls) : calls[i] \in CallSet
  <2>1. Typed /\ OriginInv
    BY DEF IInv
  <2>2. adds + 1 \in Serials
    BY <2>1, AddedLemma
  <2>3. QED
    BY <2>1, <2>2, FactsLemma DEF Typed
<1>2. PICK f \in Origins : (\A s \in Kept : StateOK(adds, f, s)) /\ CallsOK(adds, f, done, calls)
  BY DEF IInv, OriginInv
<1> DEFINE fire == FireAfter(delay)
           wait == ExactSpan(full, delay)
<1>4. /\ wait \in Nat /\ fire \in Nat
      /\ wait > 0 => full + wait <= fire
  <2>1. /\ ExactSpan(full, delay) \in Nat /\ (full + Span(delay)) % Word \in Nat
        /\ ExactSpan(full, delay) > 0 => (full + Span(delay)) % Word = full + ExactSpan(full, delay)
        /\ ExactSpan(full, 0) = 0
    BY <1>1, SpanTimed
  <2>2. CASE delay = 0
    BY <1>1, <2>1, <2>2 DEF FireAfter
  <2>3. CASE delay # 0
    BY <1>1, <2>1, <2>3 DEF FireAfter
  <2>4. QED
    BY <2>2, <2>3
<1>5. left' = [left EXCEPT ![adds + 1] = wait] /\ full' = full
  BY DEF Added, clock
<1> HIDE DEF fire, wait
<1>6. left' \in [Serials -> Nat] /\ left'[adds + 1] = wait /\ \A k \in 1..adds : left'[k] = left[k]
  BY <1>1, <1>4, <1>5, BoundsAssumption DEF Serials
<1>7. /\ Len(calls') = Len(calls) + 1
      /\ \A i \in 1..Len(calls) : calls'[i] = calls[i] /\ calls[i].serial \in 1..adds
      /\ calls'[Len(calls) + 1] = call
  <2>1. \A i \in 1..Len(calls) : calls[i].serial \in 1..adds
    BY <1>2 DEF CallsOK
  <2>2. /\ Len(calls') = Len(calls) + 1 /\ \A i \in 1..Len(calls) : calls'[i] = calls[i]
        /\ calls'[Len(calls) + 1] = call
    BY <1>1, AppendProperties
  <2>3. QED
    BY <2>1, <2>2
<1>8. ASSUME NEW i \in 1..Len(calls')
      PROVE  left'[calls'[i].serial] > 0 => full' + left'[calls'[i].serial] <= calls'[i].fire
  <2>1. CASE i \in 1..Len(calls)
    <3>1. calls'[i] = calls[i] /\ left'[calls[i].serial] = left[calls[i].serial]
      BY <1>6, <1>7, <2>1
    <3>2. left[calls[i].serial] > 0 => full + left[calls[i].serial] <= calls[i].fire
      BY <2>1 DEF CallsInv, CallsTimed
    <3>3. QED
      BY <1>5, <3>1, <3>2
  <2>2. CASE i = Len(calls) + 1
    <3>1. calls'[i].serial = adds + 1 /\ calls'[i].fire = fire
      BY <1>7, <2>2 DEF fire
    <3>2. QED
      BY <1>4, <1>5, <1>6, <3>1
  <2>3. QED
    BY <1>1, <1>7, <2>1, <2>2
<1>9. ASSUME NEW s \in Kept
      PROVE  RecordsTimed(left', s)
  <2>1. \A id \in SavedIn(s) : s[id].serial \in 1..adds
    BY <1>2, SavedLemma
  <2>2. RecordsTimed(left, s)
    BY DEF CallsInv
  <2>3. QED
    BY <1>6, <2>1, <2>2 DEF RecordsTimed
<1>10. wait <= fire
  BY <1>1, <1>4
<1>11. QED
  BY <1>6, <1>8, <1>9, <1>10 DEF CallsTimed, fire

LEMMA AddDeferredCallTimed ==
    ASSUME IInv, TimeInv, NEW delay \in Delays, NEW repeating \in BOOLEAN, AddDeferredCall(delay, repeating)
    PROVE  CallsInv'
<1> DEFINE call == AddedCall(delay, repeating, delay)
<1>1. Next /\ Added(delay) /\ CallsInv /\ Typed /\ OriginInv
  BY DEF Next, Scripts, AddDeferredCall, TimeInv, IInv
<1>2. call \in CallSet
  BY <1>1, AddedLemma
<1>3. /\ call.serial = adds + 1 /\ call.fire = FireAfter(delay) /\ calls' = Append(calls, call)
      /\ store' = [store EXCEPT ![Game].lastId = NextCallId]
  BY DEF AddDeferredCall, AddedCall
<1> HIDE DEF call
<1>4. /\ CallsTimed(left', full', calls') /\ \A s \in Kept : RecordsTimed(left', s)
      /\ left' \in [Serials -> Nat]
  BY <1>1, <1>2, <1>3, AddTimed
<1>5. RecordsTimed(left', store')
  <2>1. store \in States /\ store \in Kept /\ Game \notin Serials /\ Serials \subseteq RecordIds
    BY <1>1, FactsLemma DEF Kept, Serials, Game, RecordIds
  <2>2. \A id \in Serials : store'[id] = store[id]
    BY <1>3, <2>1 DEF States
  <2>3. RecordsTimed(left', store)
    BY <1>4, <2>1
  <2>4. QED
    BY <2>2, <2>3 DEF RecordsTimed, SavedIn
<1>6. \A s \in Kept' : RecordsTimed(left', s)
  BY <1>1, <1>4, <1>5, KeptTimed
<1>7. QED
  BY <1>4, <1>6 DEF CallsInv

LEMMA AddSavedDeferredCallTimed ==
    ASSUME IInv, TimeInv, NEW delay \in Delays, AddSavedDeferredCall(delay)
    PROVE  CallsInv'
<1> DEFINE call == AddedCall(delay, FALSE, 0)
<1>1. Next /\ Added(delay) /\ CallsInv /\ Typed /\ OriginInv
  BY DEF Next, Scripts, AddSavedDeferredCall, TimeInv, IInv
<1>2. call \in CallSet
  BY <1>1, AddedLemma
<1>3. /\ call.serial = adds + 1 /\ call.fire = FireAfter(delay) /\ calls' = Append(calls, call)
      /\ store' = [store EXCEPT ![Game].lastId = NextCallId,
                                ![NextCallId] = [fire |-> FireAfter(delay), serial |-> adds + 1]]
  BY DEF AddSavedDeferredCall, AddedCall
<1> HIDE DEF call
<1>4. /\ CallsTimed(left', full', calls') /\ \A s \in Kept : RecordsTimed(left', s)
      /\ left' \in [Serials -> Nat] /\ left'[adds + 1] <= FireAfter(delay)
  BY <1>1, <1>2, <1>3, AddTimed
<1>5. RecordsTimed(left', store')
  <2>1. store \in States /\ store \in Kept /\ Game \notin Serials /\ Serials \subseteq RecordIds
    BY <1>1, FactsLemma DEF Kept, Serials, Game, RecordIds
  <2>2. \A id \in Serials : store'[id] = IF id = NextCallId THEN [fire |-> FireAfter(delay), serial |-> adds + 1]
                                         ELSE store[id]
    BY <1>3, <2>1 DEF States
  <2>3. RecordsTimed(left', store)
    BY <1>4, <2>1
  <2>4. ASSUME NEW id \in SavedIn(store')
        PROVE  left'[store'[id].serial] <= store'[id].fire
    <3>1. CASE id = NextCallId
      <4>1. store'[id] = [fire |-> FireAfter(delay), serial |-> adds + 1]
        BY <2>2, <3>1 DEF SavedIn
      <4>2. QED
        BY <1>4, <4>1
    <3>2. CASE id # NextCallId
      <4>1. store'[id] = store[id] /\ id \in SavedIn(store)
        BY <2>2, <3>2 DEF SavedIn
      <4>2. QED
        BY <2>3, <4>1 DEF RecordsTimed
    <3>3. QED
      BY <3>1, <3>2
  <2>5. QED
    BY <2>4 DEF RecordsTimed
<1>6. \A s \in Kept' : RecordsTimed(left', s)
  BY <1>1, <1>4, <1>5, KeptTimed
<1>7. QED
  BY <1>4, <1>6 DEF CallsInv

(* A call leaves the list: the others wait as before.                      *)
LEMMA RemovedTimed ==
    ASSUME IInv, TimeInv, Next, NEW i \in 1..Len(calls), calls' = RemoveAt(calls, i),
           OnDeferredCallRemoved(calls[i].id), UNCHANGED <<left, full>>
    PROVE  CallsInv'
<1>1. /\ calls \in Seq(CallSet) /\ store \in States /\ store \in Kept
      /\ left \in [Serials -> Nat] /\ Serials \subseteq RecordIds
  BY FactsLemma DEF IInv, Typed, Kept, RecordIds
<1>2. CallsTimed(left', full', calls')
  <2>1. \A k \in 1..Len(calls') : \E j \in 1..Len(calls) : calls'[k] = calls[j]
    <3>1. TAKE k \in 1..Len(calls')
    <3>2. (IF k < i THEN k ELSE k + 1) \in 1..Len(calls) /\ calls'[k] = calls[IF k < i THEN k ELSE k + 1]
      BY <1>1, RemovedCalls
    <3>3. QED
      BY <3>2
  <2>2. CallsTimed(left, full, calls)
    BY DEF TimeInv, CallsInv
  <2>3. QED
    BY <2>1, <2>2 DEF CallsTimed
<1>3. RecordsTimed(left', store')
  <2>1. RecordsTimed(left, store)
    BY <1>1 DEF TimeInv, CallsInv
  <2>2. \A id \in SavedIn(store') : id \in SavedIn(store) /\ store'[id] = store[id]
    <3>1. CASE calls[i].id \in savedCalls
      <4>1. store' = [store EXCEPT ![calls[i].id] = NoRecord]
        BY <3>1 DEF OnDeferredCallRemoved
      <4>2. \A id \in RecordIds : store'[id] = store[id] \/ store'[id] = NoRecord
        BY <1>1, <4>1 DEF States
      <4>3. QED
        BY <1>1, <4>2 DEF SavedIn
    <3>2. CASE calls[i].id \notin savedCalls
      BY <3>2 DEF OnDeferredCallRemoved
    <3>3. QED
      BY <3>1, <3>2
  <2>3. QED
    BY <2>1, <2>2 DEF RecordsTimed
<1>4. \A s \in Kept' : RecordsTimed(left', s)
  <2>1. \A s \in Kept : RecordsTimed(left, s)
    BY DEF TimeInv, CallsInv
  <2>2. left' = left /\ left' \in [Serials -> Nat]
    BY <1>1
  <2>3. QED
    BY <1>3, <2>1, <2>2, KeptTimed
<1>5. QED
  BY <1>2, <1>4 DEF CallsInv

(* A frame: what the clock gains, the calls have less to wait; when it     *)
(* falls back, they wait as before.                                        *)
LEMMA FrameTimeJobTimed ==
    ASSUME IInv, TimeInv, NEW ms \in Moments, FrameTimeJob(ms)
    PROVE  CallsInv'
<1>1. /\ calls \in Seq(CallSet) /\ store \in States /\ store \in Kept /\ store[Game] \in GameRecords
      /\ left \in [Serials -> Nat] /\ Serials \subseteq RecordIds /\ Game \notin Serials /\ full \in Nat
      /\ \A i \in 1..Len(calls) : calls[i] \in CallSet
  BY FactsLemma DEF IInv, Typed, Kept, RecordIds, Game, Serials
<1>2. Next /\ CallsInv
  BY DEF Next, TimeInv
<1>3. /\ left' = [s \in Serials |-> Max({0, left[s] - Max({0, full' - full})})]
      /\ calls' = calls
      /\ \A id \in Serials : store'[id] = store[id]
  BY <1>1 DEF FrameTimeJob, list, States
<1>4. full' \in Nat
  BY <1>1, MillisecondsAssumption, BoundsAssumption, NumbersLemma DEF FrameTimeJob
<1>5. \A s \in Serials : /\ left'[s] \in Nat /\ left'[s] <= left[s]
                         /\ left'[s] > 0 => full' + left'[s] <= full + left[s]
  <2>1. TAKE s \in Serials
  <2>2. PICK gain \in Nat : gain = Max({0, full' - full}) /\ gain >= full' - full
    <3>1. full' - full \in Int
      BY <1>1, <1>4
    <3>2. Max({0, full' - full}) = IF 0 >= full' - full THEN 0 ELSE full' - full
      BY <3>1, MaxOfTwo
    <3>3. QED
      BY <3>1, <3>2
  <2>3. left[s] \in Nat /\ left[s] - gain \in Int
    BY <1>1, <2>2
  <2>4. left'[s] = IF 0 >= left[s] - gain THEN 0 ELSE left[s] - gain
    <3>1. left'[s] = Max({0, left[s] - gain})
      BY <1>3, <2>2
    <3>2. QED
      BY <2>3, <3>1, MaxOfTwo
  <2>5. QED
    BY <1>1, <1>4, <2>2, <2>3, <2>4
<1>6. left' \in [Serials -> Nat]
  BY <1>3, <1>5
<1>7. CallsTimed(left', full', calls')
  <2>1. SUFFICES ASSUME NEW i \in 1..Len(calls)
                 PROVE  left'[calls[i].serial] > 0 => full' + left'[calls[i].serial] <= calls[i].fire
    BY <1>3 DEF CallsTimed
  <2> DEFINE s == calls[i].serial
  <2>2. s \in Serials /\ calls[i].fire \in Nat
    BY <1>1 DEF CallSet
  <2>3. left[s] > 0 => full + left[s] <= calls[i].fire
    BY <1>2 DEF CallsInv, CallsTimed
  <2> HIDE DEF s
  <2>4. left[s] \in Nat /\ left'[s] \in Nat
    BY <1>1, <1>5, <2>2
  <2>5. left'[s] > 0 => full' + left'[s] <= calls[i].fire
    BY <1>1, <1>4, <1>5, <2>2, <2>3, <2>4
  <2>6. QED
    BY <2>5 DEF s
<1>8. \A s \in Kept : RecordsTimed(left', s)
  <2>1. SUFFICES ASSUME NEW s \in Kept, NEW id \in SavedIn(s)
                 PROVE  left'[s[id].serial] <= s[id].fire
    BY DEF RecordsTimed
  <2>2. s[id] \in CallRecords
    BY SavedLemma DEF IInv, OriginInv
  <2>3. s[id].serial \in Serials /\ s[id].fire \in Nat /\ left[s[id].serial] <= s[id].fire
    BY <1>2, <2>2 DEF CallRecords, CallsInv, RecordsTimed
  <2>4. left[s[id].serial] \in Nat /\ left'[s[id].serial] \in Nat /\ left'[s[id].serial] <= left[s[id].serial]
    BY <1>1, <1>5, <2>3
  <2>5. QED
    BY <2>3, <2>4
<1>9. RecordsTimed(left', store')
  <2>1. RecordsTimed(left', store)
    BY <1>1, <1>8
  <2>2. QED
    BY <1>3, <2>1 DEF RecordsTimed, SavedIn
<1>10. \A s \in Kept' : RecordsTimed(left', s)
  BY <1>2, <1>6, <1>8, <1>9, KeptTimed
<1>11. QED
  BY <1>7, <1>10 DEF CallsInv

(* A call that repeats waits anew, and no saved one does.                  *)
LEMMA RepeatTimed ==
    ASSUME IInv, TimeInv, RunDue, NEW i \in Due, calls[i].repeating, calls' = [calls EXCEPT ![i].fire =
               IF calls[i].delay = 0 THEN calls[i].fire ELSE (passFull + Span(calls[i].delay)) % Word],
           left' = [left EXCEPT ![calls[i].serial] = ExactSpan(passFull, calls[i].delay)],
           store' = store
    PROVE  CallsInv'
<1> DEFINE call == calls[i]
           fire == IF call.delay = 0 THEN call.fire ELSE (passFull + Span(call.delay)) % Word
           wait == ExactSpan(passFull, call.delay)
<1>1. /\ calls \in Seq(CallSet) /\ Len(calls) \in Nat /\ store \in Kept /\ store[Game] \in GameRecords
      /\ left \in [Serials -> Nat] /\ full \in Nat /\ passFull \in Nat /\ stale \in BOOLEAN
      /\ \A k \in 1..Len(calls) : calls[k] \in CallSet
      /\ i \in 1..Len(calls) /\ passFull >= call.fire /\ full' = full
  BY FactsLemma DEF IInv, Typed, Kept, Due, RunDue, clock
<1>2. Next /\ CallsInv /\ PassInv /\ pc # "idle"
  BY DEF Next, Pass, TimeInv, RunDue
<1>3. PICK f \in Origins : (\A s \in Kept : StateOK(adds, f, s)) /\ CallsOK(adds, f, done, calls)
  BY DEF IInv, OriginInv
<1>4. call \in CallSet /\ call.serial \in Serials /\ call.fire \in Nat /\ call.delay \in Delays \cup {0}
  BY <1>1 DEF CallSet
<1>6. full <= passFull
  BY <1>1, <1>2 DEF PassInv
<1>7. /\ wait \in Nat /\ fire \in Nat
      /\ wait > 0 => full + wait <= fire
  <2>1. /\ wait \in Nat /\ (passFull + Span(call.delay)) % Word \in Nat
        /\ wait > 0 => (passFull + Span(call.delay)) % Word = passFull + wait
        /\ call.delay = 0 => wait = 0
    BY <1>1, <1>4, SpanTimed
  <2>2. CASE call.delay = 0
    BY <1>1, <1>4, <2>1, <2>2
  <2>3. CASE call.delay # 0
    BY <1>1, <1>6, <2>1, <2>3
  <2>4. QED
    BY <2>2, <2>3
<1>8. /\ Len(calls') = Len(calls)
      /\ \A k \in 1..Len(calls) : calls'[k] = IF k = i THEN [call EXCEPT !.fire = fire] ELSE calls[k]
  <2>1. calls' = [calls EXCEPT ![i] = [call EXCEPT !.fire = fire]]
    OBVIOUS
  <2>2. [call EXCEPT !.fire = fire] \in CallSet
    BY <1>4, <1>7 DEF CallSet
  <2>3. QED
    BY <1>1, <2>1, <2>2, ExceptSeq
<1>9. \A k \in 1..Len(calls) : /\ calls'[k].serial = calls[k].serial
                               /\ calls'[k].fire = IF k = i THEN fire ELSE calls[k].fire
  <2>1. TAKE k \in 1..Len(calls)
  <2>2. CASE k = i
    <3>1. [call EXCEPT !.fire = fire].serial = call.serial /\ [call EXCEPT !.fire = fire].fire = fire
      BY <1>4 DEF CallSet
    <3>2. QED
      BY <1>8, <2>2, <3>1
  <2>3. CASE k # i
    BY <1>8, <2>3
  <2>4. QED
    BY <2>2, <2>3
<1>10. /\ left' \in [Serials -> Nat]
       /\ \A s \in Serials : left'[s] = IF s = call.serial THEN wait ELSE left[s]
  BY <1>1, <1>4, <1>7
<1>12. \A k \in 1..Len(calls) : calls[k].serial \in Serials /\ (calls[k].serial = call.serial => k = i)
  BY <1>1, <1>3 DEF CallSet, CallsOK
<1>13. CallsTimed(left, full, calls)
  BY <1>2 DEF CallsInv
<1>14. \A s \in Kept : \A id \in SavedIn(s) : s[id].serial \in Serials /\ s[id].serial # call.serial
  <2>1. TAKE s \in Kept
  <2>2. TAKE id \in SavedIn(s)
  <2>3. s[id] \in CallRecords /\ f[s[id].serial] = [id |-> id, repeating |-> FALSE]
    BY <1>3, SavedLemma
  <2>4. f[call.serial] = [id |-> call.id, repeating |-> call.repeating] /\ call.repeating = TRUE
    BY <1>1, <1>3, <1>4 DEF CallsOK, CallSet
  <2>5. f[s[id].serial].repeating = FALSE /\ f[call.serial].repeating = TRUE
    BY <2>3, <2>4
  <2>6. QED
    BY <2>3, <2>5 DEF CallRecords
<1>15. \A s \in Kept : RecordsTimed(left, s)
  BY <1>2 DEF CallsInv
<1> HIDE DEF call, fire, wait
<1>16. CallsTimed(left', full', calls')
  <2>1. SUFFICES ASSUME NEW k \in 1..Len(calls)
                 PROVE  left'[calls[k].serial] > 0 => full + left'[calls[k].serial] <= calls'[k].fire
    BY <1>1, <1>8, <1>9 DEF CallsTimed
  <2>2. CASE k = i
    <3>1. left'[call.serial] = wait /\ calls'[k].fire = fire /\ calls[k].serial = call.serial
      BY <1>4, <1>9, <1>10, <2>2 DEF call
    <3>2. QED
      BY <1>7, <3>1
  <2>3. CASE k # i
    <3>1. calls[k].serial \in Serials /\ calls[k].serial # call.serial
      BY <1>12, <2>3
    <3>2. left'[calls[k].serial] = left[calls[k].serial] /\ calls'[k].fire = calls[k].fire
      BY <1>9, <1>10, <2>3, <3>1
    <3>3. left[calls[k].serial] > 0 => full + left[calls[k].serial] <= calls[k].fire
      BY <1>13 DEF CallsTimed
    <3>4. QED
      BY <3>1, <3>2, <3>3
  <2>4. QED
    BY <2>2, <2>3
<1>17. \A s \in Kept : RecordsTimed(left', s)
  BY <1>10, <1>14, <1>15 DEF RecordsTimed
<1>18. \A s \in Kept' : RecordsTimed(left', s)
  <2>1. RecordsTimed(left', store')
    BY <1>1, <1>17
  <2>2. QED
    BY <1>2, <1>10, <1>17, <2>1, KeptTimed
<1>19. QED
  BY <1>16, <1>18 DEF CallsInv

LEMMA RunDueTimed ==
    ASSUME IInv, TimeInv, RunDue
    PROVE  CallsInv'
<1> DEFINE i == Min(Due)
<1>1. Next /\ Len(calls) \in Nat /\ DOMAIN calls = 1..Len(calls)
  BY FactsLemma DEF Next, Pass, IInv
<1>2. i \in Due /\ Due \subseteq 1..Len(calls)
  <2>1. Due # {} /\ Due \in SUBSET (1..Len(calls))
    BY <1>1 DEF RunDue, Due
  <2>2. Min(Due) \in Due
    BY <1>1, <2>1, FirstPosition
  <2>3. QED
    BY <2>1, <2>2
<1>3. full' = full
  BY DEF RunDue, clock
<1>4. \/ /\ calls[i].repeating
         /\ calls' = [calls EXCEPT ![i].fire =
               IF calls[i].delay = 0 THEN calls[i].fire ELSE (passFull + Span(calls[i].delay)) % Word]
         /\ left' = [left EXCEPT ![calls[i].serial] = ExactSpan(passFull, calls[i].delay)]
         /\ store' = store
      \/ /\ calls' = RemoveAt(calls, i)
         /\ OnDeferredCallRemoved(calls[i].id)
         /\ UNCHANGED left
  BY DEF RunDue
<1> HIDE DEF i
<1>5. QED
  BY <1>1, <1>2, <1>3, <1>4, RepeatTimed, RemovedTimed

(* A step that leaves the list and what the calls wait for alone.          *)
LEMMA QuietTimed ==
    ASSUME IInv, TimeInv, Next, UNCHANGED <<left, calls>>,
           \A id \in Serials : store'[id] = store[id],
           full' \in {full, 0}
    PROVE  CallsInv'
<1>1. /\ calls \in Seq(CallSet) /\ store \in Kept /\ left \in [Serials -> Nat] /\ full \in Nat
  BY FactsLemma DEF IInv, Typed, Kept
<1>2. CallsTimed(left, full, calls) /\ \A s \in Kept : RecordsTimed(left, s)
  BY DEF TimeInv, CallsInv
<1>3. CallsTimed(left', full', calls')
  <2>1. CallsTimed(left, 0, calls)
    BY <1>1, <1>2, ResetTimed
  <2>2. QED
    BY <1>2, <2>1
<1>4. RecordsTimed(left', store')
  BY <1>1, <1>2 DEF RecordsTimed, SavedIn
<1>5. \A s \in Kept' : RecordsTimed(left', s)
  <2>1. left' \in [Serials -> Nat] /\ \A s \in Kept : RecordsTimed(left', s)
    BY <1>1, <1>2
  <2>2. QED
    BY <1>4, <2>1, KeptTimed
<1>6. QED
  BY <1>3, <1>5 DEF CallsInv

(* The calls that are loaded wait for what their records say.              *)
LEMMA LoadTimed ==
    ASSUME IInv, TimeInv, Next, NEW s \in Kept, InitGameLogic(s), store' = s
    PROVE  CallsInv'
<1>1. left \in [Serials -> Nat] /\ left' = left /\ full' = 0 /\ adds \in Nat
  BY FactsLemma DEF IInv, Typed, InitGameLogic, Reset
<1>2. PICK f \in Origins : \A r \in Kept : StateOK(adds, f, r)
  BY DEF IInv, OriginInv
<1>3. StateOK(adds, f, s) /\ RecordsTimed(left, s) /\ \A r \in Kept : RecordsTimed(left, r)
  BY <1>2 DEF TimeInv, CallsInv
<1>4. PICK ids \in SetToSeqs(SavedIn(s)) : calls' = Loaded(s, ids)
  BY DEF InitGameLogic, Loaded
<1>5. CallsTimed(left', full', calls')
  <2>1. \A i \in 1..Len(calls') : \E id \in SavedIn(s) : calls'[i] = CallOf(s, id)
    <3> DEFINE d == {}
    <3>1. \A id \in SavedIn(s) : s[id].serial \notin d
      OBVIOUS
    <3> HIDE DEF d
    <3>2. \A i \in 1..Len(Loaded(s, ids)) : \E id \in SavedIn(s) : Loaded(s, ids)[i] = CallOf(s, id)
      BY <1>1, <1>3, <3>1, LoadLemma
    <3>3. QED
      BY <1>4, <3>2
  <2>2. SUFFICES ASSUME NEW i \in 1..Len(calls')
                 PROVE  0 + left[calls'[i].serial] <= calls'[i].fire
    BY <1>1 DEF CallsTimed
  <2>3. PICK id \in SavedIn(s) : calls'[i] = CallOf(s, id)
    BY <2>1
  <2>a. calls'[i].serial = s[id].serial /\ calls'[i].fire = s[id].fire
    BY <2>3 DEF CallOf
  <2>4. s[id].serial \in 1..adds /\ s[id] \in CallRecords
    BY <1>3, SavedLemma
  <2>5. left[s[id].serial] \in Nat /\ left[s[id].serial] <= s[id].fire
    BY <1>1, <1>3, <2>4 DEF CallRecords, RecordsTimed
  <2>6. QED
    BY <2>a, <2>4, <2>5
<1>6. \A r \in Kept' : RecordsTimed(left', r)
  <2>1. left' \in [Serials -> Nat] /\ RecordsTimed(left', store') /\ \A r \in Kept : RecordsTimed(left', r)
    BY <1>1, <1>3
  <2>2. QED
    BY <2>1, KeptTimed
<1>7. QED
  BY <1>5, <1>6 DEF CallsInv

LEMMA TimeStep == IInv /\ TimeInv /\ [Next]_vars => TimeInv'
<1> SUFFICES ASSUME IInv, TimeInv, [Next]_vars
             PROVE  TimeInv'
  OBVIOUS
<1>1. CASE Next
  <2>1. PassInv'
    BY <1>1, PassStep DEF TimeInv
  <2>2. CASE Scripts
    <3>1. ASSUME NEW delay \in Delays, AddSavedDeferredCall(delay)
          PROVE  CallsInv'
      BY <3>1, AddSavedDeferredCallTimed
    <3>2. ASSUME NEW delay \in Delays, NEW r \in BOOLEAN, AddDeferredCall(delay, r)
          PROVE  CallsInv'
      BY <3>2, AddDeferredCallTimed
    <3>3. ASSUME NEW id \in Serials, CancelDeferredCall(id)
          PROVE  CallsInv'
      <4> DEFINE found == {k \in DOMAIN calls : calls[k].id = id}
                 i == Min(found)
      <4>1. Len(calls) \in Nat /\ DOMAIN calls = 1..Len(calls)
        BY FactsLemma DEF IInv
      <4>2. i \in 1..Len(calls) /\ calls[i].id = id
        <5>1. found # {} /\ found \in SUBSET (1..Len(calls))
          BY <3>3, <4>1 DEF CancelDeferredCall
        <5>2. i \in found
          BY <4>1, <5>1, FirstPosition
        <5>3. QED
          BY <4>1, <5>2
      <4>3. calls' = RemoveAt(calls, i) /\ OnDeferredCallRemoved(id) /\ UNCHANGED <<left, full>>
        BY <3>3 DEF CancelDeferredCall, clock
      <4> HIDE DEF found, i
      <4>4. QED
        BY <1>1, <4>2, <4>3, RemovedTimed
    <3>4. ASSUME NEW time \in Times, SetGameTime(time)
          PROVE  CallsInv'
      <4>1. store \in States /\ Game \notin Serials /\ Serials \subseteq RecordIds
        BY FactsLemma DEF IInv, Serials, RecordIds, Game
      <4>2. \A id \in Serials : store'[id] = store[id]
        BY <3>4, <4>1 DEF SetGameTime, States
      <4>3. UNCHANGED <<left, calls>> /\ full' = 0
        BY <3>4 DEF SetGameTime, Reset, list
      <4>4. QED
        BY <1>1, <4>2, <4>3, QuietTimed
    <3>5. CallsInv'
      BY <2>2, <3>1, <3>2, <3>3, <3>4 DEF Scripts
    <3>6. QED
      BY <2>1, <3>5 DEF TimeInv
  <2>3. CASE RunDue
    BY <2>1, <2>3, RunDueTimed DEF TimeInv
  <2>4. CASE StartPass \/ ScriptReturns \/ EndPass \/ CommitChanges \/ CommitThread
    <3>1. UNCHANGED <<left, calls, full, store>>
      BY <2>4 DEF StartPass, ScriptReturns, EndPass, CommitChanges, CommitThread, DB!Commit, DB!StoreRecord,
                  DB!Stored, records, clock, list, ghosts
    <3>2. QED
      BY <1>1, <2>1, <3>1, QuietTimed DEF TimeInv
  <2>5. CASE \E ms \in Moments : FrameTimeJob(ms)
    BY <2>1, <2>5, FrameTimeJobTimed DEF TimeInv
  <2>6. CASE Restart
    <3>1. InitGameLogic(store) /\ store' = store /\ store \in Kept
      BY <2>6 DEF Restart, Kept
    <3>2. QED
      BY <1>1, <2>1, <3>1, LoadTimed DEF TimeInv
  <2>7. CASE Crash
    <3>1. InitGameLogic(disk) /\ store' = disk /\ disk \in Kept
      BY <2>7 DEF Crash, DB!CleanCrash, Kept
    <3>2. QED
      BY <1>1, <2>1, <3>1, LoadTimed DEF TimeInv
  <2>8. QED
    BY <1>1, <2>2, <2>3, <2>4, <2>5, <2>6, <2>7 DEF Next, Pass
<1>2. CASE UNCHANGED vars
  <2>1. UNCHANGED <<store, snaps, disk, calls, full, pc, passFull, left, stale>>
    BY <1>2 DEF vars, records, clock, pass, list, ghosts
  <2>2. PassInv'
    BY <2>1 DEF TimeInv, PassInv
  <2>3. CallsInv'
    BY <2>1 DEF TimeInv, CallsInv, Kept
  <2>4. QED
    BY <2>2, <2>3 DEF TimeInv
<1>3. QED
  BY <1>1, <1>2

LEMMA TimeInit == Init => TimeInv
<1>1. SUFFICES ASSUME Init
               PROVE  TimeInv
  OBVIOUS
<1>3. /\ calls = <<>> /\ snaps = <<>> /\ disk = store /\ full = 0 /\ pc = "idle" /\ stale = FALSE
      /\ Len(calls) = 0 /\ Len(snaps) = 0
  BY <1>1, EmptySeq DEF Init
<1>5. PassInv
  BY <1>3 DEF PassInv
<1>6. CallsInv
  <2>1. SavedIn(store) = {}
    <3>1. \A id \in Serials : id \in RecordIds /\ id # Game
      BY DEF Serials, RecordIds, Game
    <3>2. QED
      BY <1>1, <3>1 DEF Init, SavedIn
  <2>2. QED
    BY <1>3, <2>1 DEF CallsInv, CallsTimed, RecordsTimed, Kept
<1>7. QED
  BY <1>5, <1>6 DEF TimeInv

(* ProcessDeferredCalls runs no call before its delay has passed, except   *)
(* in a pass in which a script has set the clock, and runs none that has   *)
(* been cancelled, nor one again that does not repeat, through restarts    *)
(* and crashes, for every delay that fits the numbers of the code and      *)
(* however often the clock falls back.                                     *)
THEOREM RunsRightTheorem == Spec => RunsRight
<1>1. IInv /\ TimeInv /\ [Next]_vars => [NotEarly /\ RunsOnce]_vars
  <2>1. SUFFICES ASSUME IInv, TimeInv, Next, pc = "loop", pc' = "script"
                 PROVE  (~stale => left[last'] = 0) /\ last' \notin done
    BY DEF NotEarly, RunsOnce
  <2>2. RunDue
    BY <2>1 DEF Next, Scripts, Pass, AddSavedDeferredCall, AddDeferredCall, InScript, CancelDeferredCall,
                SetGameTime, FrameTimeJob, StartPass, ScriptReturns, EndPass, CommitChanges, CommitThread, pass,
                Restart, Crash, InitGameLogic
  <2>3. Len(calls) \in Nat /\ DOMAIN calls = 1..Len(calls) /\ full \in Nat /\ left \in [Serials -> Nat]
    BY <2>1, FactsLemma DEF IInv, Typed
  <2>4. PICK i \in 1..Len(calls) : last' = calls[i].serial /\ passFull >= calls[i].fire
    <3>1. Due # {} /\ Due \in SUBSET (1..Len(calls))
      BY <2>2, <2>3 DEF RunDue, Due
    <3>2. Min(Due) \in Due
      BY <2>3, <3>1, FirstPosition
    <3>3. last' = calls[Min(Due)].serial
      BY <2>2 DEF RunDue
    <3>4. QED
      BY <3>1, <3>2, <3>3 DEF Due
  <2>5. calls[i].serial \in Serials /\ calls[i].fire \in Nat /\ calls[i].serial \notin done
    <3>1. calls[i] \in CallSet
      BY <2>1, <2>4, FactsLemma DEF IInv
    <3>2. QED
      BY <2>1, <2>4, <3>1 DEF CallSet, IInv, OriginInv, CallsOK
  <2>6. ASSUME ~stale
        PROVE  left[calls[i].serial] = 0
    <3>1. passFull = full
      BY <2>1, <2>6 DEF TimeInv, PassInv
    <3>2. left[calls[i].serial] > 0 => full + left[calls[i].serial] <= calls[i].fire
      BY <2>1, <2>4 DEF TimeInv, CallsInv, CallsTimed
    <3>3. left[calls[i].serial] \in Nat
      BY <2>3, <2>5
    <3>4. QED
      BY <2>3, <2>4, <2>5, <3>1, <3>2, <3>3
  <2>7. QED
    BY <2>4, <2>5, <2>6
<1>2. QED
  BY <1>1, TimeInit, TimeStep, Invariance, NextLemma, PTL DEF Spec, RunsRight
=============================================================================
