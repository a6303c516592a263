----------------------------- MODULE ClockProofs -----------------------------
(***************************************************************************)
(* Theorems about Schedule and CrawlerClock: a window is open exactly from *)
(* its start until its end comes round, in a week of any length; no stream *)
(* is opened before the cooldown is over; and a stopped crawler begins one *)
(* probe more at the most.                                                 *)
(***************************************************************************)
EXTENDS CrawlerClock, TLAPS

-----------------------------------------------------------------------------
(* Windows. *)

\* What remains of a number that is less than the modulus, or not too negative.
LEMMA Remains ==
  ASSUME NEW N \in Nat \ {0}, NEW x \in Int
  PROVE  /\ 0 <= x /\ x < N => x % N = x
         /\ -N <= x /\ x < 0 => x % N = x + N
OBVIOUS

\* More days have at least as many minutes.
LEMMA MoreDays ==
  ASSUME NEW k \in Int, NEW j \in Int, k >= j
  PROVE  k * Minutes >= j * Minutes
<1>1. (k - j) * Minutes >= 0
  BY WeekAssumption
<1> QED
  BY <1>1, WeekAssumption

\* Between a time of the week and the start of a window on some day there are so many
\* minutes, a whole week more when it comes later.
LEMMA Elapsed ==
  ASSUME NEW day \in Day, NEW d \in Day, NEW minute \in Minute, NEW start \in Minute
  PROVE  ((day * Minutes + minute) - (d * Minutes + start)) % (Days * Minutes)
            = IF day > d \/ (day = d /\ minute >= start)
              THEN (day - d) * Minutes + (minute - start)
              ELSE (day - d + Days) * Minutes + (minute - start)
<1> DEFINE x == (day - d) * Minutes + (minute - start)
           N == Days * Minutes
<1>1. /\ N \in Nat \ {0}
      /\ x \in Int
      /\ (day * Minutes + minute) - (d * Minutes + start) = x
      /\ (day - d + Days) * Minutes + (minute - start) = x + N
  BY WeekAssumption DEF Day, Minute
<1>2. minute - start < Minutes /\ -Minutes < minute - start
  BY WeekAssumption DEF Minute
<1>3. (day - d) * Minutes <= N - Minutes
  <2>1. (day - d) * Minutes <= (Days - 1) * Minutes
    BY MoreDays, WeekAssumption DEF Day
  <2> QED
    BY <2>1, WeekAssumption
<1>4. (day - d) * Minutes >= Minutes - N
  <2>1. (day - d) * Minutes >= (1 - Days) * Minutes
    BY MoreDays, WeekAssumption DEF Day
  <2> QED
    BY <2>1, WeekAssumption
<1>5. CASE day > d
  <2>1. (day - d) * Minutes >= 1 * Minutes
    BY <1>5, MoreDays, WeekAssumption DEF Day
  <2>2. 0 <= x /\ x < N
    BY <2>1, <1>1, <1>2, <1>3, WeekAssumption DEF Day, Minute
  <2> HIDE DEF x, N
  <2>3. x % N = x
    BY <1>1, <2>2, Remains
  <2> QED
    BY <1>1, <1>5, <2>3 DEF x, N
<1>6. CASE day = d /\ minute >= start
  <2>1. 0 <= x /\ x < N
    BY <1>6, <1>1, <1>2, <1>3, WeekAssumption DEF Day, Minute
  <2> HIDE DEF x, N
  <2>2. x % N = x
    BY <1>1, <2>1, Remains
  <2> QED
    BY <1>1, <1>6, <2>2 DEF x, N
<1>7. CASE ~ (day > d \/ (day = d /\ minute >= start))
  <2>1. x < 0
    <3>1. CASE day = d
      BY <3>1, <1>7, WeekAssumption DEF Day, Minute
    <3>2. CASE day < d
      <4>1. (day - d) * Minutes <= (-1) * Minutes
        BY <3>2, MoreDays, WeekAssumption DEF Day
      <4> QED
        BY <4>1, <1>2, WeekAssumption DEF Day, Minute
    <3> QED
      BY <3>1, <3>2, <1>7, WeekAssumption DEF Day
  <2>2. -N <= x
    BY <1>1, <1>2, <1>4, WeekAssumption DEF Day, Minute
  <2> HIDE DEF x, N
  <2>3. x % N = x + N
    BY <1>1, <2>1, <2>2, Remains
  <2> QED
    BY <1>1, <1>7, <2>3 DEF x, N
<1> QED
  BY <1>5, <1>6, <1>7

\* How long a window is open, a window over midnight included.
LEMMA Duration ==
  ASSUME NEW start \in Minute, NEW end \in Minute
  PROVE  (end - start) % Minutes
            = IF start <= end THEN end - start ELSE end - start + Minutes
<1>1. end - start \in Int /\ end - start < Minutes /\ -Minutes <= end - start
  BY WeekAssumption DEF Minute
<1> QED
  BY <1>1, Remains, WeekAssumption DEF Minute

\* The day before.
LEMMA Yesterday ==
  ASSUME NEW day \in Day
  PROVE  /\ (day - 1) % Days = IF day = 0 THEN Days - 1 ELSE day - 1
         /\ (day - 1) % Days \in Day
<1>1. (day - 1) % Days = IF day = 0 THEN Days - 1 ELSE day - 1
  BY Remains, WeekAssumption DEF Day
<1> QED
  BY <1>1, WeekAssumption DEF Day

\* A window that ends on the day it starts covers what lies between.
LEMMA DaytimeExact ==
  ASSUME NEW day \in Day, NEW minute \in Minute, NEW w \in Window, w.start <= w.end
  PROVE  InWindow(day, minute, w) <=> Covers(w, day, minute)
<1> DEFINE Ago(d) == ((day * Minutes + minute) - (d * Minutes + w.start)) % (Days * Minutes)
<1>1. w.start \in Minute /\ w.end \in Minute /\ w.days \subseteq Day
  BY DEF Window
<1>2. (w.end - w.start) % Minutes = w.end - w.start
  BY <1>1, Duration
<1>3. Covers(w, day, minute) <=> \E d \in w.days : Ago(d) < w.end - w.start
  BY <1>2 DEF Covers
<1>4. ASSUME NEW d \in Day
      PROVE  Ago(d) < w.end - w.start
                <=> d = day /\ w.start <= minute /\ minute < w.end
  <2>1. CASE day > d
    <3>1. Ago(d) = (day - d) * Minutes + (minute - w.start)
      BY <1>1, <2>1, Elapsed DEF Day
    <3>2. (day - d) * Minutes >= 1 * Minutes
      BY <2>1, MoreDays, WeekAssumption DEF Day
    <3> HIDE DEF Ago
    <3> QED
      BY <1>1, <2>1, <3>1, <3>2, WeekAssumption DEF Day, Minute
  <2>2. CASE day = d /\ minute >= w.start
    <3>1. Ago(d) = (day - d) * Minutes + (minute - w.start)
      BY <1>1, <2>2, Elapsed
    <3>2. (day - d) * Minutes = 0
      BY <2>2, WeekAssumption DEF Day
    <3> HIDE DEF Ago
    <3> QED
      BY <1>1, <2>2, <3>1, <3>2, WeekAssumption DEF Day, Minute
  <2>3. CASE ~ (day > d \/ (day = d /\ minute >= w.start))
    <3>1. Ago(d) = (day - d + Days) * Minutes + (minute - w.start)
      BY <1>1, <2>3, Elapsed
    <3>2. (day - d + Days) * Minutes >= 1 * Minutes
      BY MoreDays, WeekAssumption DEF Day
    <3> HIDE DEF Ago
    <3> QED
      BY <1>1, <2>3, <3>1, <3>2, WeekAssumption DEF Day, Minute
  <2> QED
    BY <2>1, <2>2, <2>3
<1> HIDE DEF Ago
<1> QED
  BY <1>1, <1>3, <1>4 DEF InWindow

\* A window that goes on after midnight covers the rest of its days and the beginning of
\* the days after them.
LEMMA OvernightExact ==
  ASSUME NEW day \in Day, NEW minute \in Minute, NEW w \in Window, ~ (w.start <= w.end)
  PROVE  InWindow(day, minute, w) <=> Covers(w, day, minute)
<1> DEFINE Ago(d) == ((day * Minutes + minute) - (d * Minutes + w.start)) % (Days * Minutes)
           yesterday == (day - 1) % Days
           length == w.end - w.start + Minutes
<1>1. w.start \in Minute /\ w.end \in Minute /\ w.days \subseteq Day
  BY DEF Window
<1>2. (w.end - w.start) % Minutes = length
  BY <1>1, Duration
<1>3. Covers(w, day, minute) <=> \E d \in w.days : Ago(d) < length
  BY <1>2 DEF Covers
<1>4. yesterday = (IF day = 0 THEN Days - 1 ELSE day - 1) /\ yesterday \in Day
  BY Yesterday
<1>5. ASSUME NEW d \in Day
      PROVE  Ago(d) < length
                <=> (d = day /\ minute >= w.start) \/ (d = yesterday /\ minute < w.end)
  <2> HIDE DEF yesterday
  <2>1. CASE day > d
    <3>1. Ago(d) = (day - d) * Minutes + (minute - w.start)
      BY <1>1, <2>1, Elapsed DEF Day
    <3> HIDE DEF Ago
    <3>2. CASE day = d + 1
      <4>1. (day - d) * Minutes = Minutes
        BY <3>2, WeekAssumption DEF Day
      <4>2. d = yesterday
        BY <1>4, <3>2 DEF Day
      <4> QED
        BY <1>1, <2>1, <3>1, <4>1, <4>2, WeekAssumption DEF Day, Minute
    <3>3. CASE day >= d + 2
      <4>1. (day - d) * Minutes >= 2 * Minutes
        BY <3>3, MoreDays, WeekAssumption DEF Day
      <4>2. d # yesterday
        BY <1>4, <3>3 DEF Day
      <4> QED
        BY <1>1, <2>1, <3>1, <4>1, <4>2, WeekAssumption DEF Day, Minute
    <3> QED
      BY <2>1, <3>2, <3>3 DEF Day
  <2>2. CASE day = d /\ minute >= w.start
    <3>1. Ago(d) = (day - d) * Minutes + (minute - w.start)
      BY <1>1, <2>2, Elapsed
    <3>2. (day - d) * Minutes = 0
      BY <2>2, WeekAssumption DEF Day
    <3> HIDE DEF Ago
    <3> QED
      BY <1>1, <2>2, <3>1, <3>2, WeekAssumption DEF Day, Minute
  <2>3. CASE ~ (day > d \/ (day = d /\ minute >= w.start))
    <3>1. Ago(d) = (day - d + Days) * Minutes + (minute - w.start)
      BY <1>1, <2>3, Elapsed
    <3> HIDE DEF Ago
    <3>2. CASE day - d + Days = 1
      <4>1. (day - d + Days) * Minutes = Minutes
        BY <3>2, WeekAssumption
      <4>2. d = yesterday
        BY <1>4, <3>2, WeekAssumption DEF Day
      <4> QED
        BY <1>1, <2>3, <3>1, <4>1, <4>2, WeekAssumption DEF Day, Minute
    <3>3. CASE day - d + Days >= 2
      <4>1. (day - d + Days) * Minutes >= 2 * Minutes
        BY <3>3, MoreDays, WeekAssumption DEF Day
      <4>2. d # yesterday
        BY <1>4, <2>3, <3>3, WeekAssumption DEF Day
      <4> QED
        BY <1>1, <2>3, <3>1, <4>1, <4>2, WeekAssumption DEF Day, Minute
    <3> QED
      BY <3>2, <3>3, WeekAssumption DEF Day
  <2> QED
    BY <2>1, <2>2, <2>3
<1>6. InWindow(day, minute, w)
        <=> (minute >= w.start /\ day \in w.days) \/ (minute < w.end /\ yesterday \in w.days)
  BY DEF InWindow
<1> HIDE DEF Ago, yesterday, length
<1> QED
  BY <1>1, <1>3, <1>4, <1>5, <1>6

\* Every window is open when it is meant to be.
LEMMA WindowsExact ==
  ASSUME NEW day \in Day, NEW minute \in Minute, NEW w \in Window
  PROVE  InWindow(day, minute, w) <=> Covers(w, day, minute)
BY DaytimeExact, OvernightExact

-----------------------------------------------------------------------------
(* Type correctness. *)

\* The limits are numbers that no sleep exceeds.
LEMMA Limits ==
  /\ SyncInterval \in Nat /\ Cooldown \in Nat /\ Throttle \in Nat
  /\ Recheck \in Nat \ {0} /\ Backoff \in Nat \ {0}
  /\ Longest \in Nat \ {0}
  /\ Recheck <= Longest /\ Cooldown <= Longest /\ Backoff <= Longest
<1>1. /\ SyncInterval \in Nat /\ Cooldown \in Nat /\ Throttle \in Nat
      /\ Recheck \in Nat \ {0} /\ Backoff \in Nat \ {0}
  BY IntervalAssumption
<1> QED
  BY <1>1 DEF Longest, Most

\* The loop at its top, and asleep.
LEMMA Rests ==
  /\ AtTop \in Loop
  /\ AtTop.at = "top" /\ AtTop.title = NoTitle
  /\ \A n \in 0..Longest :
        /\ Asleep(n) \in Loop
        /\ Asleep(n).at = "asleep"
BY Limits DEF AtTop, Asleep, Resting, Loop, Place

\* The longer of the two restrictions is no longer than the limits.
LEMMA RemainderTyped ==
  ASSUME TypeOK
  PROVE  Remainder \in 0..Longest /\ {0, 1} \subseteq 0..Longest
BY Limits DEF Remainder, Most, SlotBusy, CoolingDown, TypeOK, Age

\* Time goes on within the week.
LEMMA NextMinuteTyped ==
  ASSUME week \in [day : Day, minute : Minute]
  PROVE  NextMinute \in [day : Day, minute : Minute]
<1>1. CASE week.minute < Minutes - 1
  BY <1>1, WeekAssumption DEF NextMinute, Day, Minute
<1>2. CASE ~ (week.minute < Minutes - 1)
  <2>1. (week.day + 1) % Days \in Day
    BY WeekAssumption DEF Day
  <2> QED
    BY <1>2, <2>1, WeekAssumption DEF NextMinute, Minute
<1> QED
  BY <1>1, <1>2

\* What one step of the loop may do to the rows and the stamps.
LEMMA SetRowTyped ==
  ASSUME TypeOK, NEW st, st \in Status \/ loop.title = NoTitle, NEW n \in 0..Longest,
         SetRow(st, n)
  PROVE  rows' \in [Title -> Row]
BY TitleAssumption DEF TypeOK, SetRow, Row, Loop

\* Marking the row of the title being probed, and what goes with it, keeps the types.
LEMMA OutcomesTyped ==
  ASSUME TypeOK, loop.title \in Title, NEW stamps \in Age
  PROVE  /\ Settle(stamps) => rows' \in [Title -> Row] /\ age' \in Age /\ loop' \in Loop
                              /\ announced' \in BOOLEAN
         /\ Fail(stamps) => rows' \in [Title -> Row] /\ age' \in Age /\ loop' \in Loop
                            /\ announced' \in BOOLEAN
         /\ PushBack(stamps) => rows' \in [Title -> Row] /\ age' \in Age /\ loop' \in Loop
                                /\ announced' \in BOOLEAN
<1>1. {0, 1} \subseteq 0..Longest /\ Backoff \in 0..Longest
  BY Limits
<1>2. GoOn => loop' \in Loop
  BY <1>1, Rests DEF GoOn
<1>3. ASSUME Settle(stamps)
      PROVE  rows' \in [Title -> Row] /\ age' \in Age /\ loop' \in Loop /\ announced' \in BOOLEAN
  <2>1. rows' \in [Title -> Row]
    BY <1>1, <1>3, SetRowTyped DEF Settle, Status
  <2>2. age' \in Age
    BY <1>3, Limits DEF Settle, Age
  <2>3. announced' \in BOOLEAN
    BY <1>3 DEF Settle, Announce
  <2> QED
    BY <1>2, <1>3, <2>1, <2>2, <2>3 DEF Settle
<1>4. ASSUME Fail(stamps)
      PROVE  rows' \in [Title -> Row] /\ age' \in Age /\ loop' \in Loop /\ announced' \in BOOLEAN
  <2>1. rows' \in [Title -> Row]
    BY <1>1, <1>4, SetRowTyped DEF Fail, Status
  <2> QED
    BY <1>2, <1>4, <2>1 DEF Fail, TypeOK
<1>5. ASSUME PushBack(stamps)
      PROVE  rows' \in [Title -> Row] /\ age' \in Age /\ loop' \in Loop /\ announced' \in BOOLEAN
  <2>1. rows[loop.title].status \in Status /\ Recheck - loop.since \in 0..Longest
    BY Limits DEF TypeOK, Row, Loop
  <2>2. rows' \in [Title -> Row]
    BY <1>5, <2>1, SetRowTyped DEF PushBack
  <2> QED
    BY <1>5, <2>2, Rests DEF PushBack, TypeOK
<1> QED
  BY <1>3, <1>4, <1>5

\* A title is being probed where the loop asks, checks or holds a stream, and the stamps
\* that are noted then are stamps.
Probed == loop.at \in {"asking", "checking", "ffprobe"} => loop.title \in Title

\* The stamps that a probe may leave.
LEMMA StampsTyped ==
  ASSUME TypeOK
  PROVE  /\ age \in Age
         /\ Stamped \in Age
         /\ [age EXCEPT !.busy = 0] \in Age
         /\ [age EXCEPT !.sync = 0] \in Age
BY Limits DEF TypeOK, Stamped, Age

\* Init has the types.
LEMMA InitTyped ==
  Init => TypeOK /\ Probed
<1> SUFFICES ASSUME Init PROVE TypeOK /\ Probed
  OBVIOUS
<1>1. loop \in Loop /\ Probed
  BY Rests DEF Init, Probed
<1>2. age \in Age /\ rows \in [Title -> Row] /\ quiet \in 0..Cooldown
  BY Limits DEF Init, LongAgo, Age, Row, Status
<1>3. week \in [day : Day, minute : Minute]
  BY WeekAssumption DEF Init, Day, Minute
<1>4. config \in [schedule : Schedules, ignore : Ignoring]
  BY DEF Init
<1>5. paused \in BOOLEAN /\ announced \in BOOLEAN /\ begun \in BOOLEAN /\ overdue \in BOOLEAN
  BY Zenon DEF Init
<1> QED
  BY <1>1, <1>2, <1>3, <1>4, <1>5 DEF TypeOK

\* What is counted is Boolean.
LEMMA CountingTyped ==
  ASSUME NEW stopped, NEW aTickAgo, Counting(stopped, aTickAgo)
  PROVE  begun' \in BOOLEAN /\ overdue' \in BOOLEAN
BY Zenon DEF Counting

\* Time passing keeps the types.
LEMMA TickTyped ==
  ASSUME TypeOK, Probed, Tick
  PROVE  TypeOK' /\ Probed'
<1>1. week' \in [day : Day, minute : Minute]
  BY NextMinuteTyped DEF TypeOK, Tick
<1>2. loop' \in Loop /\ loop'.at = loop.at /\ loop'.title = loop.title
  <2>1. Later(loop.sleep) \in 0..Longest
    BY Limits DEF TypeOK, Loop, Later
  <2>2. (IF loop.title = NoTitle THEN loop.since ELSE Least(loop.since + 1, Recheck))
          \in 0..Recheck
    BY Limits DEF TypeOK, Loop, Least
  <2>3. ASSUME NEW m \in 0..Longest, NEW n \in 0..Recheck
        PROVE  /\ [loop EXCEPT !.sleep = m, !.since = n] \in Loop
               /\ [loop EXCEPT !.sleep = m, !.since = n].at = loop.at
               /\ [loop EXCEPT !.sleep = m, !.since = n].title = loop.title
    BY DEF TypeOK, Loop
  <2>4. loop' = [loop EXCEPT !.sleep = Later(loop.sleep),
                             !.since = IF loop.title = NoTitle THEN loop.since
                                       ELSE Least(loop.since + 1, Recheck)]
    BY DEF Tick
  <2> QED
    BY <2>1, <2>2, <2>3, <2>4
<1>3. age' \in Age
  BY Limits DEF TypeOK, Tick, Age, Least
<1>4. rows' \in [Title -> Row]
  <2>1. ASSUME NEW t \in Title
        PROVE  [rows[t] EXCEPT !.wait = Later(@)] \in Row
    BY Limits DEF TypeOK, Row, Later
  <2> QED
    BY <2>1 DEF Tick
<1>5. quiet' \in 0..Cooldown
  BY Limits DEF TypeOK, Tick, Least
<1>6. UNCHANGED <<config, paused, announced>>
  BY DEF Tick
<1>7. begun' \in BOOLEAN /\ overdue' \in BOOLEAN
  BY CountingTyped DEF Tick
<1> QED
  BY <1>1, <1>2, <1>3, <1>4, <1>5, <1>6, <1>7 DEF TypeOK, Probed

\* So do the steps of the operator, ...
LEMMA OperatorTyped ==
  ASSUME TypeOK, Probed, Operator
  PROVE  TypeOK' /\ Probed'
<1>1. CASE PauseOrResume
  <2>1. begun' \in BOOLEAN /\ overdue' \in BOOLEAN
    BY <1>1, CountingTyped DEF PauseOrResume
  <2>2. paused' \in BOOLEAN
    BY <1>1, Zenon DEF PauseOrResume
  <2>3. UNCHANGED <<week, config, loop, age, rows, announced, quiet>>
    BY <1>1 DEF PauseOrResume
  <2> QED
    BY <2>1, <2>2, <2>3 DEF TypeOK, Probed
<1>2. CASE SaveConfig
  <2>1. config' \in [schedule : Schedules, ignore : Ignoring]
    BY <1>2 DEF SaveConfig
  <2>2. begun' \in BOOLEAN /\ overdue' \in BOOLEAN
    BY <1>2, CountingTyped DEF SaveConfig
  <2>3. UNCHANGED <<week, paused, loop, age, rows, announced, quiet>>
    BY <1>2 DEF SaveConfig
  <2> QED
    BY <2>1, <2>2, <2>3 DEF TypeOK, Probed
<1> QED
  BY <1>1, <1>2 DEF Operator

\* ... and those in which the loop moves on between probes, ...
LEMMA LoopMovesTyped ==
  ASSUME TypeOK, Probed,
         LookUp \/ EndSync \/ FailSync \/ (\E t \in Title : Pick(t)) \/ FindNothing \/ WakeUp
  PROVE  TypeOK' /\ Probed'
<1>1. CASE LookUp
  <2>1. Asleep(1) \in Loop /\ Asleep(1).at = "asleep"
    BY Limits, Rests
  <2>2. config.ignore \in BOOLEAN
    BY IgnoringAssumption DEF TypeOK
  <2>3. loop' \in Loop /\ loop'.at \in {"asleep", "syncing", "picking"}
    BY <1>1, <2>1, <2>2 DEF LookUp, TypeOK, Loop, Place
  <2> QED
    BY <1>1, <2>3 DEF LookUp, TypeOK, Probed, outside, late
<1>2. ASSUME NEW found \in SUBSET Title
      PROVE  Queued(found) \in [Title -> Row]
  BY DEF Queued, TypeOK, Row, Status
<1>3. CASE EndSync
  <2>1. rows' \in [Title -> Row]
    BY <1>2, <1>3 DEF EndSync
  <2>2. loop' \in Loop /\ loop'.at = "picking"
    BY <1>3 DEF EndSync, TypeOK, Loop, Place
  <2> QED
    BY <1>3, <2>1, <2>2, StampsTyped DEF EndSync, TypeOK, Probed, outside, late
<1>4. CASE FailSync
  <2>1. rows' \in [Title -> Row]
    BY <1>2, <1>4 DEF FailSync
  <2>2. loop' \in Loop /\ loop'.at = "picking"
    BY <1>4 DEF FailSync, TypeOK, Loop, Place
  <2>3. announced' \in BOOLEAN
    BY <1>4 DEF FailSync, TypeOK
  <2> QED
    BY <1>4, <2>1, <2>2, <2>3, StampsTyped DEF FailSync, TypeOK, Probed, outside, late
<1>5. ASSUME NEW t \in Title, Pick(t)
      PROVE  TypeOK' /\ Probed'
  <2>1. loop' \in Loop /\ loop'.title \in Title
    <3>1. loop' = [loop EXCEPT !.at = "asking", !.title = t, !.since = 0]
      BY <1>5 DEF Pick
    <3>2. loop \in Loop /\ 0 \in 0..Recheck
      BY Limits DEF TypeOK
    <3> QED
      BY <3>1, <3>2 DEF Loop, Place
  <2>2. begun' \in BOOLEAN
    BY <1>5, Zenon DEF Pick
  <2> QED
    BY <1>5, <2>1, <2>2 DEF Pick, TypeOK, Probed, outside, late
<1>6. CASE FindNothing
  <2>1. loop' \in Loop /\ loop'.at = "asleep"
    BY <1>6, RemainderTyped, Rests DEF FindNothing
  <2> QED
    BY <1>6, <2>1 DEF FindNothing, TypeOK, Probed, outside, late
<1>7. CASE WakeUp
  BY <1>7, Rests DEF WakeUp, TypeOK, Probed, outside, late
<1> QED
  BY <1>1, <1>3, <1>4, <1>5, <1>6, <1>7

\* ... and those of a probe.
LEMMA ProbeTyped ==
  ASSUME TypeOK, Probed,
         ApiSettles \/ Defer \/ CheckSlot \/ SkipCheck \/ SlotLooksFree \/ SlotIsBusy
            \/ FfprobeEnds \/ FfprobeFails \/ IterationFails
  PROVE  TypeOK' /\ Probed'
<1>1. ASSUME loop.title \in Title,
             \E stamps \in Age : Settle(stamps) \/ Fail(stamps) \/ PushBack(stamps)
      PROVE  /\ rows' \in [Title -> Row] /\ age' \in Age /\ loop' \in Loop
             /\ announced' \in BOOLEAN
             /\ Probed'
  <2>1. loop'.at \in {"top", "asleep"}
    <3>1. {0, 1} \subseteq 0..Longest
      BY Limits
    <3> QED
      BY <1>1, <3>1, Rests DEF Settle, Fail, PushBack, GoOn
  <2> QED
    BY <1>1, <2>1, OutcomesTyped DEF Probed
<1>2. CASE ApiSettles
  BY <1>1, <1>2 DEF ApiSettles, TypeOK, Probed, outside, late
<1>3. CASE Defer
  <2>1. rows' \in [Title -> Row]
    BY <1>3, SetRowTyped DEF Defer, TypeOK, Probed, Row, Status
  <2>2. loop' \in Loop /\ loop'.at = "asleep"
    BY <1>3, Limits, Rests DEF Defer, GoOn
  <2> QED
    BY <1>3, <2>1, <2>2 DEF Defer, TypeOK, Probed, outside, late
<1>4. CASE CheckSlot
  <2>1. CASE PushBack(age)
    BY <1>1, <1>4, <2>1 DEF CheckSlot, TypeOK, Probed, outside, late
  <2>2. CASE loop' = [loop EXCEPT !.at = "checking"] /\ UNCHANGED <<age, rows, announced>>
    BY <1>4, <2>2 DEF CheckSlot, TypeOK, Probed, outside, late, Loop, Place
  <2> QED
    BY <1>4, <2>1, <2>2 DEF CheckSlot
<1>5. CASE SkipCheck \/ SlotLooksFree
  <2>1. loop' = [loop EXCEPT !.at = "ffprobe"] /\ loop.title \in Title /\ quiet' = 0
    BY <1>5 DEF SkipCheck, SlotLooksFree, Probed
  <2>2. loop' \in Loop /\ loop'.title \in Title /\ quiet' \in 0..Cooldown
    BY <2>1, Limits DEF TypeOK, Loop, Place
  <2> QED
    BY <1>5, <2>2 DEF SkipCheck, SlotLooksFree, TypeOK, Probed, outside, late
<1>6. CASE SlotIsBusy
  BY <1>1, <1>6, StampsTyped DEF SlotIsBusy, TypeOK, Probed, outside, late
<1>7. CASE FfprobeEnds \/ FfprobeFails
  <2>1. quiet' \in 0..Cooldown
    BY <1>7, Limits DEF FfprobeEnds, FfprobeFails
  <2>2. loop.title \in Title /\ \E stamps \in Age : Settle(stamps) \/ Fail(stamps) \/ PushBack(stamps)
    BY <1>7, StampsTyped DEF FfprobeEnds, FfprobeFails, Probed
  <2> QED
    BY <1>1, <1>7, <2>1, <2>2 DEF FfprobeEnds, FfprobeFails, TypeOK, outside, late
<1>8. CASE IterationFails
  <2>1. loop' \in Loop /\ loop'.at = "asleep"
    BY <1>8, Limits, Rests DEF IterationFails
  <2>2. age' \in Age /\ quiet' \in 0..Cooldown
    BY <1>8, Limits, StampsTyped DEF IterationFails, TypeOK
  <2> QED
    BY <1>8, <2>1, <2>2 DEF IterationFails, TypeOK, Probed, outside, late
<1> QED
  BY <1>2, <1>3, <1>4, <1>5, <1>6, <1>7, <1>8

\* Every step keeps the types.
LEMMA StepTyped ==
  ASSUME TypeOK, Probed, [Next]_vars
  PROVE  TypeOK' /\ Probed'
<1>1. CASE Tick
  BY <1>1, TickTyped
<1>2. CASE Operator
  BY <1>2, OperatorTyped
<1>3. CASE LoopStep
  BY <1>3, LoopMovesTyped, ProbeTyped DEF LoopStep
<1>4. CASE IterationFails
  BY <1>4, ProbeTyped
<1>5. CASE UNCHANGED vars
  BY <1>5 DEF vars, TypeOK, Probed
<1> QED
  BY <1>1, <1>2, <1>3, <1>4, <1>5 DEF Next

\* The crawler's stamps, rows and sleeps keep their types, and no sleep is longer than the
\* longest limit (worker.py:40, 319).
THEOREM TypeCorrect == Spec => []TypeOK
<1>1. Spec => [](TypeOK /\ Probed)
  BY InitTyped, StepTyped, PTL DEF Spec
<1> QED
  BY <1>1, PTL

\* A window is open from its start until its end comes round, whatever the lengths of day
\* and week and however the window lies across midnight or the end of the week
\* (schedule.py:18).
THEOREM ScheduleAlwaysExact == Spec => []ScheduleExact
<1>1. TypeOK => ScheduleExact
  BY WindowsExact DEF TypeOK, ScheduleExact
<1> QED
  BY <1>1, TypeCorrect, PTL

-----------------------------------------------------------------------------
(* The cooldown.  The stamp and the connection begin and end at different  *)
(* places: while a stream is held the stamp ages, and it has to be renewed *)
(* on every way out before anything compares with it.                      *)

CooldownStamped ==
    /\ loop.at # "ffprobe" => age.ffprobe <= quiet
    /\ loop.at = "checking" => age.ffprobe >= Cooldown

\* The rest of a probe stamps what it may have held.
LEMMA OutcomesStamped ==
  ASSUME TypeOK, NEW stamps \in Age,
         Settle(stamps) \/ Fail(stamps) \/ PushBack(stamps)
  PROVE  /\ age'.ffprobe = stamps.ffprobe
         /\ loop'.at \in {"top", "asleep"}
<1>1. {0, 1} \subseteq 0..Longest
  BY Limits
<1>2. age'.ffprobe = stamps.ffprobe
  BY DEF Settle, Fail, PushBack, Age
<1>3. loop'.at \in {"top", "asleep"}
  BY <1>1, Rests DEF Settle, Fail, PushBack, GoOn
<1> QED
  BY <1>2, <1>3

\* Every step leaves the stamp no older than the silence it stands for.
LEMMA StepStamped ==
  ASSUME TypeOK, CooldownStamped, [Next]_vars
  PROVE  CooldownStamped'
<1> USE Limits
<1>0. age.ffprobe \in 0..Cooldown /\ quiet \in 0..Cooldown
  BY DEF TypeOK, Age
<1>1. CASE Tick
  <2>1. loop'.at = loop.at
    BY <1>1 DEF Tick, TypeOK, Loop
  <2>2. age'.ffprobe = Least(age.ffprobe + 1, Cooldown)
    BY <1>1 DEF Tick
  <2>3. quiet' = IF loop.at = "ffprobe" THEN 0 ELSE Least(quiet + 1, Cooldown)
    BY <1>1 DEF Tick
  <2> QED
    BY <1>0, <2>1, <2>2, <2>3 DEF CooldownStamped, Least
<1>2. CASE Operator
  BY <1>2 DEF Operator, PauseOrResume, SaveConfig, CooldownStamped
<1>3. CASE LookUp \/ FindNothing \/ WakeUp \/ EndSync \/ FailSync \/ (\E t \in Title : Pick(t))
  <2>1. loop'.at \in {"top", "asleep", "syncing", "picking", "asking"} /\ loop.at # "ffprobe"
    BY <1>3, RemainderTyped, Rests
       DEF LookUp, FindNothing, WakeUp, EndSync, FailSync, Pick, TypeOK, Loop
  <2>2. age'.ffprobe = age.ffprobe /\ quiet' = quiet
    BY <1>3 DEF LookUp, FindNothing, WakeUp, EndSync, FailSync, Pick, TypeOK, Age
  <2> QED
    BY <2>1, <2>2 DEF CooldownStamped
<1>4. CASE ApiSettles \/ SlotIsBusy
  <2>1. loop.at # "ffprobe" /\ quiet' = quiet
    BY <1>4 DEF ApiSettles, SlotIsBusy
  <2>2. /\ age'.ffprobe = age.ffprobe
        /\ loop'.at \in {"top", "asleep"}
    BY <1>4, OutcomesStamped, StampsTyped DEF ApiSettles, SlotIsBusy, TypeOK, Age
  <2> QED
    BY <2>1, <2>2 DEF CooldownStamped
<1>5. CASE Defer
  <2>1. loop'.at = "asleep"
    <3>1. {0, 1} \subseteq 0..Longest
      OBVIOUS
    <3> QED
      BY <1>5, <3>1, Rests DEF Defer, GoOn
  <2> QED
    BY <1>5, <2>1 DEF Defer, CooldownStamped
<1>6. CASE CheckSlot
  <2>1. CASE PushBack(age)
    BY <1>6, <2>1, OutcomesStamped, StampsTyped DEF CheckSlot, CooldownStamped
  <2>2. CASE ~ (CoolingDown \/ SlotBusy) /\ UNCHANGED age
    BY <1>0, <1>6, <2>2 DEF CheckSlot, CoolingDown, CooldownStamped, TypeOK, Loop
  <2> QED
    BY <1>6, <2>1, <2>2 DEF CheckSlot
<1>7. CASE SkipCheck \/ SlotLooksFree
  BY <1>7 DEF SkipCheck, SlotLooksFree, CooldownStamped, TypeOK, Loop
<1>8. CASE FfprobeEnds \/ FfprobeFails
  <2>1. Stamped.ffprobe = 0 /\ quiet' = 0
    BY <1>8 DEF Stamped, FfprobeEnds, FfprobeFails, TypeOK, Age
  <2>2. age'.ffprobe = 0 /\ loop'.at \in {"top", "asleep"}
    BY <1>8, <2>1, OutcomesStamped, StampsTyped DEF FfprobeEnds, FfprobeFails
  <2> QED
    BY <2>1, <2>2 DEF CooldownStamped
<1>9. CASE IterationFails
  <2>1. loop'.at = "asleep"
    BY <1>9, Rests DEF IterationFails
  <2>2. CASE loop.at = "ffprobe"
    BY <1>9, <2>1, <2>2 DEF IterationFails, Stamped, CooldownStamped, TypeOK, Age
  <2>3. CASE loop.at # "ffprobe"
    BY <1>9, <2>1, <2>3 DEF IterationFails, CooldownStamped
  <2> QED
    BY <2>2, <2>3
<1>10. CASE UNCHANGED vars
  BY <1>10 DEF vars, CooldownStamped
<1> QED
  BY <1>1, <1>2, <1>3, <1>4, <1>5, <1>6, <1>7, <1>8, <1>9, <1>10 DEF Next, LoopStep

\* A stream is opened only when the cooldown is over since ffprobe last held a connection,
\* whichever way that one ended (worker.py:386, 671).
THEOREM CooldownAlwaysKept == Spec => CooldownKept
<1>1. Init => CooldownStamped
  BY Limits DEF Init, AtTop, Resting, LongAgo, CooldownStamped
<1>2. Spec => [](TypeOK /\ CooldownStamped)
  BY <1>1, InitTyped, StepStamped, TypeCorrect, PTL DEF Spec
<1>3. ASSUME TypeOK, CooldownStamped, [Next]_vars,
             loop'.at = "ffprobe", loop.at # "ffprobe", ~ loop.ignore
      PROVE  quiet >= Cooldown
  <2>1. SlotLooksFree
    <3>1. ~ Tick
      BY <1>3 DEF Tick, TypeOK, Loop
    <3>2. ~ Operator
      BY <1>3 DEF Operator, PauseOrResume, SaveConfig
    <3>3. ~ (LookUp \/ FindNothing \/ WakeUp \/ EndSync \/ FailSync \/ \E t \in Title : Pick(t))
      BY <1>3, RemainderTyped, Rests
         DEF LookUp, FindNothing, WakeUp, EndSync, FailSync, Pick, TypeOK, Loop
    <3>4. ~ (ApiSettles \/ SlotIsBusy \/ FfprobeEnds \/ FfprobeFails)
      BY <1>3, OutcomesStamped, StampsTyped
         DEF ApiSettles, SlotIsBusy, FfprobeEnds, FfprobeFails
    <3>5. ~ (Defer \/ IterationFails)
      <4>1. {0, 1} \subseteq 0..Longest
        BY Limits
      <4> QED
        BY <1>3, <4>1, Rests DEF Defer, GoOn, IterationFails
    <3>6. ~ CheckSlot
      <4>1. PushBack(age) => loop'.at # "ffprobe"
        BY <1>3, OutcomesStamped, StampsTyped
      <4> QED
        BY <1>3, <4>1 DEF CheckSlot, TypeOK, Loop
    <3>7. ~ SkipCheck
      BY <1>3 DEF SkipCheck
    <3>8. ~ UNCHANGED vars
      BY <1>3 DEF vars
    <3> QED
      BY <1>3, <3>1, <3>2, <3>3, <3>4, <3>5, <3>6, <3>7, <3>8 DEF Next, LoopStep
  <2> QED
    BY <1>3, <2>1, Limits DEF SlotLooksFree, CooldownStamped, TypeOK, Age
<1>4. TypeOK /\ CooldownStamped /\ [Next]_vars
        => (loop'.at = "ffprobe" /\ loop.at # "ffprobe" /\ ~ loop.ignore => quiet >= Cooldown)
  BY <1>3
<1> QED
  BY <1>2, <1>4, PTL DEF Spec, CooldownKept

-----------------------------------------------------------------------------
(* Stopping.  A probe that is begun after the crawler was stopped belongs  *)
(* to an iteration that had looked before; it is followed by a look at the *)
(* settings before the next one.  From a look on that finds the crawler    *)
(* running, only a sync takes time before the probe.                       *)

LookedInTime ==
    /\ begun => loop.at \notin {"syncing", "picking"} /\ Stopped(paused, config.schedule, week)
    /\ overdue => Stopped(paused, config.schedule, week)
    /\ overdue /\ loop.at = "picking" => age.sync = 0

\* A title is taken by Pick alone.
LEMMA OnlyPickTakes ==
  ASSUME TypeOK, Probed, [Next]_vars, loop.title = NoTitle, loop'.title # NoTitle
  PROVE  \E t \in Title : Pick(t)
<1>1. loop.at \notin {"asking", "checking", "ffprobe"}
  BY TitleAssumption DEF Probed
<1>2. \A n : Asleep(n).title = NoTitle
  BY DEF Asleep, Resting
<1>3. ~ (Tick \/ Operator \/ UNCHANGED vars)
  BY DEF Tick, Operator, PauseOrResume, SaveConfig, vars, TypeOK, Loop
<1>4. ~ (LookUp \/ EndSync \/ FailSync)
  BY <1>2 DEF LookUp, EndSync, FailSync, TypeOK, Loop
<1>5. ~ (FindNothing \/ WakeUp \/ IterationFails)
  BY <1>2, Rests DEF FindNothing, WakeUp, IterationFails
<1>6. ~ (\/ ApiSettles \/ Defer \/ CheckSlot \/ SkipCheck \/ SlotLooksFree \/ SlotIsBusy
         \/ FfprobeEnds \/ FfprobeFails)
  BY <1>1 DEF ApiSettles, Defer, CheckSlot, SkipCheck, SlotLooksFree, SlotIsBusy, FfprobeEnds,
              FfprobeFails
<1> QED
  BY <1>3, <1>4, <1>5, <1>6 DEF Next, LoopStep

\* No step lets time go by between a look and a probe but a sync, nor a second probe
\* begin without a look.
LEMMA StepLooks ==
  ASSUME TypeOK, LookedInTime, [Next]_vars
  PROVE  LookedInTime'
<1> DEFINE Now == Stopped(paused, config.schedule, week)
<1>1. CASE Tick
  <2>1. loop'.at = loop.at /\ loop.at # "picking"
    BY <1>1 DEF Tick, Waiting, TypeOK, Loop
  <2>2. begun' = (Now' /\ begun) /\ overdue' = (Now' /\ Now)
    BY <1>1, Zenon DEF Tick, Counting
  <2> QED
    BY <2>1, <2>2 DEF LookedInTime
<1>2. CASE Operator
  <2>1. UNCHANGED <<loop, age>>
    BY <1>2 DEF Operator, PauseOrResume, SaveConfig
  <2>2. begun' = (Now' /\ begun) /\ overdue' = (Now' /\ overdue)
    <3>1. CASE PauseOrResume
      BY <3>1, Zenon DEF PauseOrResume, Counting
    <3>2. CASE SaveConfig
      BY <3>2, Zenon DEF SaveConfig, Counting
    <3> QED
      BY <1>2, <3>1, <3>2 DEF Operator
  <2> QED
    BY <2>1, <2>2 DEF LookedInTime
<1>3. CASE \E t \in Title : Pick(t)
  <2>1. loop'.at = "asking" /\ UNCHANGED <<paused, config, week, overdue>>
    BY <1>3 DEF Pick, TypeOK, Loop, outside
  <2>2. begun' = (begun \/ Now) /\ Now' = Now
    BY <1>3, <2>1, Zenon DEF Pick
  <2> QED
    BY <2>1, <2>2 DEF LookedInTime
<1>4. CASE LookUp
  <2>1. Now => loop'.at = "asleep"
    BY <1>4, RemainderTyped, Rests DEF LookUp
  <2>2. UNCHANGED <<begun, overdue, age, paused, config, week>>
    BY <1>4 DEF LookUp, outside, late
  <2> QED
    BY <2>1, <2>2 DEF LookedInTime
<1>5. CASE EndSync \/ FailSync
  <2>1. /\ loop.at = "syncing" /\ age'.sync = 0
        /\ UNCHANGED <<begun, overdue, paused, config, week>>
    BY <1>5 DEF EndSync, FailSync, TypeOK, Age, outside, late
  <2> QED
    BY <2>1 DEF LookedInTime
<1>6. CASE \/ FindNothing \/ ApiSettles \/ Defer \/ CheckSlot \/ SkipCheck \/ SlotLooksFree
           \/ SlotIsBusy \/ FfprobeEnds \/ FfprobeFails \/ WakeUp \/ IterationFails
  <2>1. loop'.at \in {"top", "asleep", "checking", "ffprobe"}
    <3>1. CASE ApiSettles \/ SlotIsBusy \/ FfprobeEnds \/ FfprobeFails
      BY <3>1, OutcomesStamped, StampsTyped DEF ApiSettles, SlotIsBusy, FfprobeEnds, FfprobeFails
    <3>2. CASE CheckSlot
      BY <3>2, OutcomesStamped, StampsTyped DEF CheckSlot, TypeOK, Loop
    <3>3. CASE FindNothing \/ Defer \/ SkipCheck \/ SlotLooksFree \/ WakeUp \/ IterationFails
      BY <3>3, RemainderTyped, Rests
         DEF FindNothing, Defer, GoOn, SkipCheck, SlotLooksFree, WakeUp, IterationFails, TypeOK, Loop
    <3> QED
      BY <1>6, <3>1, <3>2, <3>3
  <2>2. UNCHANGED <<begun, overdue, paused, config, week>>
    BY <1>6 DEF FindNothing, ApiSettles, Defer, CheckSlot, SkipCheck, SlotLooksFree, SlotIsBusy,
                FfprobeEnds, FfprobeFails, WakeUp, IterationFails, outside, late
  <2> QED
    BY <2>1, <2>2 DEF LookedInTime
<1>7. CASE UNCHANGED vars
  BY <1>7 DEF vars, LookedInTime
<1> QED
  BY <1>1, <1>2, <1>3, <1>4, <1>5, <1>6, <1>7 DEF Next, LoopStep

\* A crawler that is paused, or whose window has closed, begins one probe more at the most,
\* and that at once or straight after the sync of the iteration that had looked before
\* (worker.py:278-320).
THEOREM AlwaysStopsSoon == Spec => StopsSoon
<1>1. Init => LookedInTime
  BY DEF Init, LookedInTime
<1>2. TypeOK /\ Probed /\ LookedInTime /\ [Next]_vars
        => (loop.title = NoTitle /\ loop'.title # NoTitle /\ Stopped(paused, config.schedule, week)
              => ~ begun /\ (overdue => age.sync = 0))
  <2> SUFFICES ASSUME TypeOK, Probed, LookedInTime, [Next]_vars,
                      loop.title = NoTitle, loop'.title # NoTitle
               PROVE  ~ begun /\ (overdue => age.sync = 0)
    OBVIOUS
  <2>1. loop.at = "picking"
    BY OnlyPickTakes DEF Pick
  <2> QED
    BY <2>1 DEF LookedInTime
<1> QED
  BY <1>1, <1>2, InitTyped, StepTyped, StepLooks, PTL DEF Spec, StopsSoon

=============================================================================
