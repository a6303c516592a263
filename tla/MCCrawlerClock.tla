-------------------------- MODULE MCCrawlerClock ---------------------------
(* Instances of CrawlerClock for TLC: a week of two days of three ticks.    *)
EXTENDS CrawlerClock

\* From the last tick of the first day until the second day has begun.
Overnight == [enabled |-> TRUE, windows |-> {[days |-> {0}, start |-> 2, end |-> 1]}]

TestSchedules == {Overnight}

=============================================================================
