------------------------------ MODULE Lifecycle ------------------------------
(***************************************************************************)
(* How the process stops: the signal (src/app/main.py), the server that    *)
(* drains its connections (uvicorn, started by src/Dockerfile and          *)
(* src/start.sh), the wait for the crawler, and the supervisor that kills  *)
(* what is left (src/stop.sh, src/docker-compose.yml); with the streams of *)
(* the event broker, which hold the drain, and the crawler's iteration,    *)
(* which is waited for, up to a point, with the probe in it.               *)
(***************************************************************************)
EXTENDS EventBroker

CONSTANTS
    DrainTimeout,  \* --timeout-graceful-shutdown
    JoinTimeout,   \* the timeout of crawler.stop
    Grace          \* stop_grace_period, GRACE_SECONDS

ASSUME TimeoutAssumption == {DrainTimeout, JoinTimeout, Grace} \subseteq Nat

VARIABLES
    phase,     \* of the process
    elapsed,   \* time since the signal
    waited,    \* time since the crawler was told to stop
    age,       \* history: how long the iteration under way has been waited for
    late,      \* history: probes begun since the crawler was told to stop
    excused    \* history: streams that came after the signal, or had no room since

lifeVars == <<phase, elapsed, waited, age, late, excused>>
vars == <<status, paused, crawler, operator, brokerVars, streamVars, lifeVars>>

TypeOK ==
    /\ BrokerTypeOK
    /\ phase \in {"running", "signalled", "draining", "stopping", "ended", "killed"}
    /\ elapsed \in 0..Grace
    /\ waited \in 0..JoinTimeout
    /\ age \in 0..JoinTimeout
    /\ late \in 0..2
    /\ excused \in SUBSET Stream

Init ==
    /\ BrokerInit
    /\ phase = "running"
    /\ elapsed = 0
    /\ waited = 0
    /\ age = 0
    /\ late = 0
    /\ excused = {}

Over == phase \in {"ended", "killed"}

\* An iteration is under way: it does not look at the stop event before it ends.
UnderWay == crawler.at \notin {"free", "exited"}

-----------------------------------------------------------------------------
(* What goes on meanwhile.  The event loop stands still while the crawler   *)
(* is waited for.                                                           *)

LoopRuns == phase \in {"running", "signalled", "draining"}

Full(s) == Len(queue[s]) = QueueMaxsize

\* A fan-out may find a queue full.
Excuse ==
    excused' = {s \in Stream : /\ stream'[s] # "gone"
                               /\ s \in excused \/ (phase # "running" /\ Full(s))}

LoopStep ==
    /\ LoopRuns
    /\ FanOut \/ OperatorGoesOn \/ \E s \in Stream : StreamStep(s)
    /\ Excuse
    /\ UNCHANGED <<phase, elapsed, waited, age, late>>

\* The sockets are open until the server has noticed the signal.
Arrive(s) ==
    /\ phase \in {"running", "signalled"}
    /\ Connect(s)
    /\ excused' = IF phase = "running" THEN excused ELSE excused \union {s}
    /\ UNCHANGED <<phase, elapsed, waited, age, late>>

Command ==
    /\ phase \in {"running", "signalled"}
    /\ StoreSetting
    /\ UNCHANGED lifeVars

Least(m, n) == IF m < n THEN m ELSE n

BeginsProbe == crawler.at # "probing" /\ crawler'.at = "probing"

\* The clocks of the iteration while the crawler does something.
Clocks ==
    /\ age' = IF crawler'.at = "free" THEN 0 ELSE age
    /\ late' = IF phase = "stopping" /\ BeginsProbe THEN Least(late + 1, 2) ELSE late
    /\ UNCHANGED <<phase, elapsed, waited, excused>>

\* Fault: the crawler does not look at its stop event.
WorkRegardless ==
    /\ ~ Over
    /\ BeginIteration \/ CrawlerStep
    /\ Clocks

\* The stop event is looked at before an iteration and in its sleeps, and nowhere
\* else: one that is under way goes on to its end.
Work ==
    /\ ~ Over
    /\ (BeginIteration /\ phase # "stopping") \/ CrawlerStep
    /\ Clocks

LeaveLoop ==
    /\ phase = "stopping"
    /\ crawler.at = "free"
    /\ crawler' = [crawler EXCEPT !.at = "exited"]
    /\ UNCHANGED <<status, paused, operator, brokerVars, streamVars, lifeVars>>

-----------------------------------------------------------------------------
(* Stopping. *)

\* SIGTERM or SIGINT: the handler may come between any two steps of the loop's
\* thread.
Signal ==
    /\ phase = "running"
    /\ phase' = "signalled"
    /\ TellAll
    /\ excused' = {s \in Stream : Full(s)}
    /\ UNCHANGED <<status, paused, crawler, operator, ready, behind, subscribers, streamVars,
                   elapsed, waited, age, late>>

\* The server notices within a tenth of a second.
CloseSockets ==
    /\ phase = "signalled"
    /\ phase' = "draining"
    /\ UNCHANGED <<status, paused, crawler, operator, brokerVars, streamVars,
                   elapsed, waited, age, late, excused>>

Drained == \A s \in Stream : stream[s] \in {"gone", "abandoned"}

\* The connections have been closed, or the server cancels what is left of them;
\* then the rest of the lifespan runs.  Nothing that is scheduled runs any more.
StopCrawler ==
    /\ phase = "draining"
    /\ LoopFree
    /\ Drained \/ elapsed = DrainTimeout
    /\ phase' = "stopping"
    /\ BrokerRests
    /\ excused' = {}
    /\ UNCHANGED <<status, paused, crawler, operator, elapsed, waited, age, late>>

\* The crawler's thread is a daemon: the process does not wait any longer.
Exit ==
    /\ phase = "stopping"
    /\ crawler.at = "exited" \/ waited = JoinTimeout
    /\ phase' = "ended"
    /\ UNCHANGED <<status, paused, crawler, operator, brokerVars, streamVars,
                   elapsed, waited, age, late, excused>>

Kill ==
    /\ phase \in {"draining", "stopping"}
    /\ elapsed = Grace
    /\ phase' = "killed"
    /\ UNCHANGED <<status, paused, crawler, operator, brokerVars, streamVars,
                   elapsed, waited, age, late, excused>>

\* No timeout is missed, and only syncs, probes and sleeps take time.
Tick ==
    /\ crawler.at \in {"free", "syncing", "probing", "exited"}
    /\ \/ phase = "draining" /\ elapsed < DrainTimeout /\ elapsed < Grace
       \/ phase = "stopping" /\ waited < JoinTimeout /\ elapsed < Grace
    /\ elapsed' = elapsed + 1
    /\ waited' = IF phase = "stopping" THEN waited + 1 ELSE 0
    /\ age' = IF phase = "stopping" /\ UnderWay THEN age + 1 ELSE 0
    /\ UNCHANGED <<status, paused, crawler, operator, brokerVars, streamVars, phase, late, excused>>

Next ==
    \/ LoopStep
    \/ \E s \in Stream : Arrive(s)
    \/ Command
    \/ Work
    \/ LeaveLoop
    \/ Signal
    \/ CloseSockets
    \/ StopCrawler
    \/ Exit
    \/ Kill
    \/ Tick

Spec == Init /\ [][Next]_vars

-----------------------------------------------------------------------------
\* A stream that is still there while the server waits has the sentinel in its
\* queue and ends when it comes to it, unless it was let in after the signal
\* or its queue has been full since (events.py:44, 82, main.py:49).
OnlyLaggardsHoldTheDrain ==
    phase \in {"signalled", "draining"} =>
        \A s \in Stream :
            stream[s] = "open" =>
                s \in excused \/ \E n \in 1..Len(queue[s]) : queue[s][n] = SHUTDOWN

\* The iteration the process is ended under was under way when the crawler was told
\* to stop: it has been waited for as long as crawler.stop waits, or as long as the
\* drain has left of the grace, and has begun one probe since at the most, which a
\* sync may have kept it from until the very end (worker.py:264, 306, 355,
\* main.py:89; against README.md:161-163).
OnlyOldIterationsAreCut ==
    /\ Over /\ UnderWay => age >= Least(JoinTimeout, Grace - (elapsed - waited))
    /\ late <= 1

=============================================================================
