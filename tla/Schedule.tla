------------------------------ MODULE Schedule ------------------------------
(***************************************************************************)
(* The windows the crawler may work in (src/app/crawler/schedule.py): when *)
(* a time of the week lies in one of them.                                 *)
(***************************************************************************)
EXTENDS Integers

CONSTANTS
    Days,    \* days in a week; 7 in the program
    Minutes  \* minutes in a day; 1440 in the program

ASSUME WeekAssumption == Days \in Nat \ {0} /\ Minutes \in Nat \ {0}

Day == 0..Days-1
Minute == 0..Minutes-1
Window == [days : SUBSET Day, start : Minute, end : Minute]

\* Fault: the part of an overnight window after midnight is taken for one of
\* the day it is on.
InWindowSameDay(day, minute, w) ==
    IF w.start <= w.end
    THEN day \in w.days /\ w.start <= minute /\ minute < w.end
    ELSE day \in w.days /\ (minute >= w.start \/ minute < w.end)

\* A window that ends before it starts goes on after midnight.
InWindow(day, minute, w) ==
    IF w.start <= w.end
    THEN day \in w.days /\ w.start <= minute /\ minute < w.end
    ELSE \/ minute >= w.start /\ day \in w.days
         \/ minute < w.end /\ (day - 1) % Days \in w.days

\* No windows, no restriction.
WithinSchedule(schedule, day, minute) ==
    \/ ~ schedule.enabled
    \/ schedule.windows = {}
    \/ \E w \in schedule.windows : InWindow(day, minute, w)

-----------------------------------------------------------------------------
\* What a window is meant to be: on each of its days it opens at its start and
\* stays open until its end comes round, on the same day or the next.
Covers(w, day, minute) ==
    \E d \in w.days :
        ((day * Minutes + minute) - (d * Minutes + w.start)) % (Days * Minutes)
            < (w.end - w.start) % Minutes

=============================================================================
