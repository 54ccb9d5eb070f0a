--------------------------- MODULE MCDeferredCalls ---------------------------
(* A small instance of DeferredCalls for TLC.                              *)
EXTENDS DeferredCalls

(* The second frame comes when the milliseconds have wrapped.  The first    *)
(* clock has gone on from December (the day is lost) over the end of the   *)
(* year to January by then, and after a restart over the leap February to  *)
(* March; the seconds of the other one have wrapped as well and are back   *)
(* at fewer than in the first frame.                                       *)
Onward == [mul |-> 50000, date |-> [year |-> 2003, month |-> 12, day |-> 31, sec |-> 86399]]
Back   == [mul |-> 40000, date |-> [year |-> 2000, month |-> 2, day |-> 29, sec |-> 0]]
JustBack == {Back}

(* The conversions agree with the calendar around the ends of February and *)
(* of the year for the hundred years that a game may last.                 *)
ASSUME CalendarAgrees ==
    \A year \in 2000..2100 : \A date \in {<<2, 28>>, <<3, 1>>, <<12, 31>>, <<1, 1>>} :
        LET first == [year |-> year, month |-> date[1], day |-> 1, sec |-> 0]
            ft    == [DateTimeToFullTime(first) EXCEPT !.day = @ + date[2] - 1]
        IN FullTimeToDateTime(ft) = [first EXCEPT !.day = date[2]]
=============================================================================
