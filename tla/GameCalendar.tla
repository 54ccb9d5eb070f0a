---------------------------- MODULE GameCalendar ----------------------------
(***************************************************************************)
(* The conversions between a date and the "full time" of Timer.cpp, to the *)
(* second: a date is [year, month, day, sec] with the second of its day, a *)
(* full time is [day, sec] counted from the first day of 1601, what is     *)
(* shorter than a second is left out.                                      *)
(***************************************************************************)
EXTENDS Integers, FiniteSets, FiniteSetsExt

FirstYear == 1601
DaySeconds == 24 * 60 * 60

Leap(year) == year % 400 = 0 \/ (year % 4 = 0 /\ year % 100 # 0)

(* The days of a year before a month: COUNT1 and, in leap years, COUNT2.   *)
Count == <<0, 31, 59, 90, 120, 151, 181, 212, 243, 273, 304, 334>>
DaysBefore(year, month) == Count[month] + IF month > 2 /\ Leap(year) THEN 1 ELSE 0

LeapDays(years) == years \div 4 + years \div 400 - years \div 100

(* The day of the month is added in microseconds, a few millionths of a    *)
(* second: it is lost.                                                     *)
DateTimeToFullTime(dt) ==
    [day |-> (dt.year - FirstYear) * 365 + DaysBefore(dt.year, dt.month) + LeapDays(dt.year - FirstYear),
     sec |-> dt.sec]

(* Years of 365 days first; the leap days that makes too few are taken     *)
(* back year by year.                                                      *)
FullTimeToDateTime(ft) ==
    LET years    == ft.day \div 365
        rest     == (ft.day % 365) - LeapDays(years)
        Given(b) == 365 * b + Cardinality({y \in years - b + 1 .. years : Leap(y)})
        borrowed == Min({b \in 0..1 + LeapDays(years) \div 365 : rest + Given(b) >= 0})
        year     == FirstYear + years - borrowed
        day      == rest + Given(borrowed)
        month    == Max({m \in 1..12 : DaysBefore(year, m) <= day})
    IN [year |-> year, month |-> month, day |-> day - DaysBefore(year, month) + 1, sec |-> ft.sec]

(* The seconds are added without a carry.                                  *)
Later_SameDay(ft, seconds) == [ft EXCEPT !.sec = @ + seconds]

Later(ft, seconds) == [day |-> ft.day + (ft.sec + seconds) \div DaySeconds,
                       sec |-> (ft.sec + seconds) % DaySeconds]

-----------------------------------------------------------------------------
(* The calendar as people know it, counted day by day: the reference that  *)
(* the conversions are compared with.                                      *)
MonthLengths(year) == <<31, IF Leap(year) THEN 29 ELSE 28, 31, 30, 31, 30, 31, 31, 30, 31, 30, 31>>

NextDay(dt) ==
    IF dt.day < MonthLengths(dt.year)[dt.month] THEN [dt EXCEPT !.day = @ + 1]
    ELSE IF dt.month < 12 THEN [dt EXCEPT !.month = @ + 1, !.day = 1]
    ELSE [dt EXCEPT !.year = @ + 1, !.month = 1, !.day = 1]

DaysOn(dt, days) == LET step[n \in 0..days] == IF n = 0 THEN dt ELSE NextDay(step[n - 1])
                    IN step[days]

DateAfter(dt, seconds) ==
    [DaysOn(dt, (dt.sec + seconds) \div DaySeconds) EXCEPT !.sec = (dt.sec + seconds) % DaySeconds]
=============================================================================
