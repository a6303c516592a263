---------------------------- MODULE CrawlerClock ----------------------------
(***************************************************************************)
(* The clocks of the crawler (src/app/crawler/worker.py): when its loop    *)
(* syncs, probes, opens a stream with ffprobe, waits, and announces what   *)
(* it found.                                                               *)
(*                                                                         *)
(* A tick is the five seconds the loop sleeps when there is nothing to do. *)
(* A time stamp is kept as its age, which counts up to the limit it is     *)
(* compared with: older is all the same.  What the loop does between two   *)
(* awaits takes no time.                                                   *)
(***************************************************************************)
EXTENDS Schedule

CONSTANTS
    Title,         \* the titles to be probed
    NoTitle,       \* no title is being probed
    Schedules,     \* the values crawl_schedule takes
    Ignoring,      \* the values ignore_active_cons takes: a set of BOOLEANs
    SyncInterval,  \* crawler.sync_interval_minutes
    Recheck,       \* crawler.slot_recheck_seconds
    Cooldown,      \* crawler.ffprobe_cooldown_seconds
    Throttle,      \* min_interval of _invalidate_cache_throttled
    Backoff        \* the time after which a failed probe is retried

ASSUME TitleAssumption == NoTitle \notin Title
ASSUME IgnoringAssumption == Ignoring \subseteq BOOLEAN /\ Ignoring # {}
ASSUME IntervalAssumption ==
    /\ {SyncInterval, Cooldown, Throttle} \subseteq Nat
    /\ {Recheck, Backoff} \subseteq Nat \ {0}

VARIABLES
    week,       \* the time of the week
    config,     \* the part of the configuration that matters here
    paused,     \* the setting crawler_paused
    loop,       \* where the crawler is in its loop
    age,        \* how long ago what the time stamps record was
    rows,       \* probe_state: status and time left until next_try
    announced,  \* whether every result stored is covered by a data_version
    quiet,      \* history: ticks since ffprobe last held a connection
    begun,      \* history: whether a probe was begun since the crawler was to stop
    overdue     \* history: whether it was to stop a tick ago or more

vars == <<week, config, paused, loop, age, rows, announced, quiet, begun, overdue>>

-----------------------------------------------------------------------------
Least(m, n) == IF m < n THEN m ELSE n
Most(m, n) == IF m < n THEN n ELSE m

Longest == Most(Recheck, Most(Cooldown, Backoff))

Place == {"top", "syncing", "picking", "asking", "checking", "ffprobe", "asleep"}
\* ignore is that of the configuration the iteration read; since the age of
\* the "now" of _probe_item; sleep what is left of a sleep.
Loop == [at : Place, ignore : BOOLEAN, title : Title \union {NoTitle},
         since : 0..Recheck, sleep : 0..Longest]
Resting(place, n) ==
    [at |-> place, ignore |-> FALSE, title |-> NoTitle, since |-> 0, sleep |-> n]
AtTop == Resting("top", 0)
Asleep(n) == Resting("asleep", n)

Age == [sync : 0..SyncInterval, busy : 0..Recheck, ffprobe : 0..Cooldown,
        invalidation : 0..Throttle]
\* The time stamps are 0.0 at first.
LongAgo == [sync |-> SyncInterval, busy |-> Recheck, ffprobe |-> Cooldown,
            invalidation |-> Throttle]

\* "new" is not in the catalogue yet; "settled" will not be probed again.
Status == {"new", "pending", "deferred", "error", "settled"}
Row == [status : Status, wait : 0..Longest]

TypeOK ==
    /\ week \in [day : Day, minute : Minute]
    /\ config \in [schedule : Schedules, ignore : Ignoring]
    /\ paused \in BOOLEAN
    /\ loop \in Loop
    /\ age \in Age
    /\ rows \in [Title -> Row]
    /\ announced \in BOOLEAN
    /\ quiet \in 0..Cooldown
    /\ begun \in BOOLEAN
    /\ overdue \in BOOLEAN

Init ==
    /\ week = [day |-> 0, minute |-> 0]
    /\ config \in [schedule : Schedules, ignore : Ignoring]
    /\ paused = FALSE
    /\ loop = AtTop
    /\ age = LongAgo
    /\ rows = [t \in Title |-> [status |-> "new", wait |-> 0]]
    /\ announced = TRUE
    /\ quiet = Cooldown
    /\ begun = FALSE
    /\ overdue = FALSE

outside == <<week, config, paused>>
late == <<begun, overdue>>

-----------------------------------------------------------------------------
(* Time and the world. *)

Later(n) == IF n = 0 THEN 0 ELSE n - 1

\* The crawler is waiting for something.
Waiting == loop.at \in {"syncing", "asking", "checking", "ffprobe", "asleep"}

NextMinute ==
    IF week.minute < Minutes - 1 THEN [week EXCEPT !.minute = @ + 1]
    ELSE [day |-> (week.day + 1) % Days, minute |-> 0]

\* Whether the next look at the clock and the settings stops the crawler.
Stopped(isPaused, schedule, time) ==
    isPaused \/ ~ WithinSchedule(schedule, time.day, time.minute)

\* Both begin anew when the crawler is stopped.
Counting(stopped, aTickAgo) ==
    /\ begun' = (stopped /\ begun)
    /\ overdue' = (stopped /\ aTickAgo)

Tick ==
    /\ Waiting
    /\ loop.at = "asleep" => loop.sleep > 0
    /\ week' = NextMinute
    /\ loop' = [loop EXCEPT !.sleep = Later(@),
                            !.since = IF loop.title = NoTitle THEN @
                                      ELSE Least(@ + 1, Recheck)]
    /\ age' = [sync         |-> Least(age.sync + 1, SyncInterval),
               busy         |-> Least(age.busy + 1, Recheck),
               ffprobe      |-> Least(age.ffprobe + 1, Cooldown),
               invalidation |-> Least(age.invalidation + 1, Throttle)]
    /\ rows' = [t \in Title |-> [rows[t] EXCEPT !.wait = Later(@)]]
    /\ quiet' = IF loop.at = "ffprobe" THEN 0 ELSE Least(quiet + 1, Cooldown)
    /\ Counting(Stopped(paused, config.schedule, week'), Stopped(paused, config.schedule, week))
    /\ UNCHANGED <<config, paused, announced>>

\* POST /crawler/pause and /crawler/resume
PauseOrResume ==
    /\ paused' = ~ paused
    /\ Counting(Stopped(paused', config.schedule, week), overdue)
    /\ UNCHANGED <<week, config, loop, age, rows, announced, quiet>>

\* POST /config
SaveConfig ==
    /\ \E schedule \in Schedules, ignore \in Ignoring :
          config' = [schedule |-> schedule, ignore |-> ignore]
    /\ Counting(Stopped(paused, config'.schedule, week), overdue)
    /\ UNCHANGED <<week, paused, loop, age, rows, announced, quiet>>

-----------------------------------------------------------------------------
(* The loop. *)

\* Fault: pause and schedule are looked at when a sync is due.
LookUpForSync ==
    /\ loop.at = "top"
    /\ loop' = IF age.sync >= SyncInterval /\ Stopped(paused, config.schedule, week)
               THEN Asleep(1)
               ELSE [loop EXCEPT !.ignore = config.ignore,
                                 !.at = IF age.sync >= SyncInterval
                                        THEN "syncing" ELSE "picking"]
    /\ UNCHANGED <<outside, age, rows, announced, quiet, late>>

\* The top of _loop_iteration: nothing is looked at again until it ends.
LookUp ==
    /\ loop.at = "top"
    /\ loop' = IF Stopped(paused, config.schedule, week) THEN Asleep(1)
               ELSE [loop EXCEPT !.ignore = config.ignore,
                                 !.at = IF age.sync >= SyncInterval
                                        THEN "syncing" ELSE "picking"]
    /\ UNCHANGED <<outside, age, rows, announced, quiet, late>>

\* The titles a sync found are to be probed.
Queued(found) ==
    [t \in Title |-> IF t \in found THEN [rows[t] EXCEPT !.status = "pending"] ELSE rows[t]]

\* Fault: the sync leaves the announcement to the probes.
EndSyncQuietly ==
    /\ loop.at = "syncing"
    /\ \E found \in SUBSET {t \in Title : rows[t].status = "new"} : rows' = Queued(found)
    /\ loop' = [loop EXCEPT !.at = "picking"]
    /\ age' = [age EXCEPT !.sync = 0]
    /\ UNCHANGED <<outside, announced, quiet, late>>

\* run_full_sync has put new titles into the queue and announced everything.
EndSync ==
    /\ loop.at = "syncing"
    /\ \E found \in SUBSET {t \in Title : rows[t].status = "new"} : rows' = Queued(found)
    /\ announced' = TRUE
    /\ loop' = [loop EXCEPT !.at = "picking"]
    /\ age' = [age EXCEPT !.sync = 0]
    /\ UNCHANGED <<outside, quiet, late>>

\* A sync that fails keeps the chunks it committed and announces nothing; the
\* next is due as if it had succeeded.
FailSync ==
    /\ loop.at = "syncing"
    /\ \E found \in SUBSET {t \in Title : rows[t].status = "new"} :
          /\ rows' = Queued(found)
          /\ announced' = (announced /\ found = {})
    /\ loop' = [loop EXCEPT !.at = "picking"]
    /\ age' = [age EXCEPT !.sync = 0]
    /\ UNCHANGED <<outside, quiet, late>>

SlotBusy == age.busy < Recheck
CoolingDown == age.ffprobe < Cooldown

\* Fault: failed titles are forgotten.
EligibleButErrors(t) ==
    /\ rows[t].status \in IF ~ loop.ignore /\ (SlotBusy \/ CoolingDown)
                          THEN {"pending"} ELSE {"pending", "deferred"}
    /\ rows[t].wait = 0

\* _next_pending_item
Eligible(t) ==
    /\ rows[t].status \in IF ~ loop.ignore /\ (SlotBusy \/ CoolingDown)
                          THEN {"pending"} ELSE {"pending", "deferred", "error"}
    /\ rows[t].wait = 0

Candidates ==
    LET eligible == {t \in Title : Eligible(t)}
        pending == {t \in eligible : rows[t].status = "pending"}
    IN  IF pending # {} THEN pending ELSE eligible

\* _probe_item notes the time and decides whether ffprobe may be used.
Pick(t) ==
    /\ loop.at = "picking"
    /\ t \in Candidates
    /\ loop' = [loop EXCEPT !.at = "asking", !.title = t, !.since = 0]
    /\ begun' = (begun \/ Stopped(paused, config.schedule, week))
    /\ UNCHANGED <<outside, age, rows, announced, quiet, overdue>>

\* Fault: one restriction after the other.
RemainderOfBoth ==
    Most(1, (IF SlotBusy THEN Recheck - age.busy ELSE 0)
              + (IF CoolingDown THEN Cooldown - age.ffprobe ELSE 0))

\* What is left of the longer of the two restrictions.
Remainder ==
    Most(1, Most(IF SlotBusy THEN Recheck - age.busy ELSE 0,
                 IF CoolingDown THEN Cooldown - age.ffprobe ELSE 0))

FindNothing ==
    /\ loop.at = "picking"
    /\ Candidates = {}
    /\ loop' = Asleep(IF ~ loop.ignore /\ (SlotBusy \/ CoolingDown) THEN Remainder ELSE 1)
    /\ UNCHANGED <<outside, age, rows, announced, quiet, late>>

\* allow_ffprobe
MayProbe == rows[loop.title].status \in {"deferred", "error"}

SetRow(status, wait) ==
    rows' = [rows EXCEPT ![loop.title] = [status |-> status, wait |-> wait]]

\* request_delay_seconds is shorter than a tick.
GoOn == \E n \in {0, 1} : loop' = Asleep(n)

\* _invalidate_cache_throttled
Announce ==
    \/ /\ age.invalidation >= Throttle
       /\ announced' = TRUE
    \/ /\ age.invalidation < Throttle
       /\ announced' = FALSE

\* The tracks are stored, and the row is marked.  stamps are the ages but for
\* that of the invalidation.
Settle(stamps) ==
    /\ SetRow("settled", 0)
    /\ Announce
    /\ age' = [stamps EXCEPT !.invalidation = IF age.invalidation >= Throttle THEN 0 ELSE @]
    /\ GoOn

\* An error is retried after a while, or parked.
Fail(stamps) ==
    /\ SetRow("error", Backoff) \/ SetRow("settled", 0)
    /\ age' = stamps
    /\ GoOn
    /\ UNCHANGED announced

\* next_try is set as from the beginning of the probe, and the loop goes on at
\* once.
PushBack(stamps) ==
    /\ SetRow(rows[loop.title].status, Recheck - loop.since)
    /\ age' = stamps
    /\ loop' = AtTop
    /\ UNCHANGED announced

\* The API has the languages, or they are all there is; or it fails.
ApiSettles ==
    /\ loop.at = "asking"
    /\ Settle(age) \/ Fail(age)
    /\ UNCHANGED <<outside, quiet, late>>

\* The first time round, ffprobe is for later.
Defer ==
    /\ loop.at = "asking"
    /\ ~ MayProbe
    /\ SetRow("deferred", rows[loop.title].wait)
    /\ GoOn
    /\ UNCHANGED <<outside, age, announced, quiet, late>>

\* _has_free_slot, up to the request it makes.
CheckSlot ==
    /\ loop.at = "asking"
    /\ MayProbe
    /\ ~ loop.ignore
    /\ \/ /\ CoolingDown \/ SlotBusy
          /\ PushBack(age)
       \/ /\ ~ (CoolingDown \/ SlotBusy)
          /\ loop' = [loop EXCEPT !.at = "checking"]
          /\ UNCHANGED <<age, rows, announced>>
    /\ UNCHANGED <<outside, quiet, late>>

SkipCheck ==
    /\ loop.at = "asking"
    /\ MayProbe
    /\ loop.ignore
    /\ loop' = [loop EXCEPT !.at = "ffprobe"]
    /\ quiet' = 0
    /\ UNCHANGED <<outside, age, rows, announced, late>>

\* No answer counts as a free slot.
SlotLooksFree ==
    /\ loop.at = "checking"
    /\ loop' = [loop EXCEPT !.at = "ffprobe"]
    /\ quiet' = 0
    /\ UNCHANGED <<outside, age, rows, announced, late>>

\* Somebody is watching.
SlotIsBusy ==
    /\ loop.at = "checking"
    /\ PushBack([age EXCEPT !.busy = 0])
    /\ UNCHANGED <<outside, quiet, late>>

Stamped == [age EXCEPT !.ffprobe = 0]

FfprobeEnds ==
    /\ loop.at = "ffprobe"
    /\ Settle(Stamped)
    /\ quiet' = 0
    /\ UNCHANGED <<outside, late>>

\* Fault: a failed ffprobe is not stamped.
FfprobeFailsUnstamped ==
    /\ loop.at = "ffprobe"
    /\ \/ Fail(age)
       \/ ~ loop.ignore /\ PushBack(age)
    /\ quiet' = 0
    /\ UNCHANGED <<outside, late>>

\* An exit status of 1 without a word is taken for a busy slot.
FfprobeFails ==
    /\ loop.at = "ffprobe"
    /\ \/ Fail(Stamped)
       \/ ~ loop.ignore /\ PushBack(Stamped)
    /\ quiet' = 0
    /\ UNCHANGED <<outside, late>>

WakeUp ==
    /\ loop.at = "asleep"
    /\ loop.sleep = 0
    /\ loop' = AtTop
    /\ UNCHANGED <<outside, age, rows, announced, quiet, late>>

\* An exception: the loop sleeps and starts again.
IterationFails ==
    /\ loop.at \in {"picking", "asking", "checking", "ffprobe"}
    /\ loop' = Asleep(1)
    /\ age' = IF loop.at = "ffprobe" THEN Stamped ELSE age
    /\ quiet' = IF loop.at = "ffprobe" THEN 0 ELSE quiet
    /\ UNCHANGED <<outside, rows, announced, late>>

LoopStep ==
    \/ LookUp
    \/ EndSync
    \/ FailSync
    \/ \E t \in Title : Pick(t)
    \/ FindNothing
    \/ ApiSettles
    \/ Defer
    \/ CheckSlot
    \/ SkipCheck
    \/ SlotLooksFree
    \/ SlotIsBusy
    \/ FfprobeEnds
    \/ FfprobeFails
    \/ WakeUp

Operator == PauseOrResume \/ SaveConfig

Next == Tick \/ Operator \/ LoopStep \/ IterationFails

Spec == Init /\ [][Next]_vars

-----------------------------------------------------------------------------
(* Fairness.  Time passes, and the loop goes on: every await has a timeout. *)
(* Rows are taken in the order of next_try, so that one that is a candidate *)
(* again and again has its turn.  Syncs do not fail for ever.               *)
Fairness ==
    /\ WF_vars(Tick)
    /\ WF_vars(LoopStep \/ IterationFails)
    /\ \A t \in Title : SF_vars(Pick(t))
    /\ SF_vars(EndSync)

FairSpec == Spec /\ Fairness

-----------------------------------------------------------------------------
(* Safety. *)

\* The schedule is open exactly while a window is: from its start, on each of
\* its days, until its end comes round (schedule.py:18).
ScheduleExact ==
    \A w \in Window :
        InWindow(week.day, week.minute, w) <=> Covers(w, week.day, week.minute)

\* A stream is opened only when ffprobe_cooldown_seconds have gone by since
\* ffprobe last held a connection, however that ended (worker.py:386, 671).
CooldownKept ==
    [][loop'.at = "ffprobe" /\ loop.at # "ffprobe" /\ ~ loop.ignore
          => quiet >= Cooldown]_vars

\* Once the crawler is paused, or its window has closed, it begins one probe
\* more at the most, and that only at once, or when the sync of the iteration
\* that had looked before ends, however long that took (worker.py:278-320;
\* against plans/mvp.md:262, 383 and 386, which have it stop within five
\* seconds but for the title under way).
StopsSoon ==
    [][loop.title = NoTitle /\ loop'.title # NoTitle /\ Stopped(paused, config.schedule, week)
          => ~ begun /\ (overdue => age.sync = 0)]_vars

-----------------------------------------------------------------------------
(* Liveness, once the operator comes to rest and has not paused the crawler, *)
(* and iterations do not end with an exception any more.                     *)

Calm ==
    /\ <>[][Operator \/ IterationFails => Tick \/ LoopStep]_vars
    /\ <>[](~ paused)

\* No title that is to be probed is left alone for ever, whichever slots are
\* busy and whatever fails (worker.py:427).
NoTitleForgotten ==
    Calm => \A t \in Title :
                []<>(rows[t].status \in {"new", "settled"} \/ loop.title = t)

\* Every result is announced in the end, if only by the next sync: the last ones
\* inside the interval have no announcement of their own (worker.py:125).
ResultsAnnounced == Calm => []<>announced

=============================================================================
