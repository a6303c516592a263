----------------------------- MODULE EventBroker -----------------------------
(***************************************************************************)
(* Events for the dashboard (src/app/core/events.py), from those who       *)
(* publish them, in the crawler's thread and in the event-loop thread, to  *)
(* the streams of GET /api/events.                                         *)
(*                                                                         *)
(* The event-loop thread does one thing at a time (LoopFree); the          *)
(* crawler's thread runs in between.                                       *)
(***************************************************************************)
EXTENDS Sequences, Integers

CONSTANTS
    Stream,        \* the connections a browser may open
    Status,        \* what the crawler may be doing
    Probing,       \* the status with which it probes a title
    Syncing,       \* the status with which it syncs the catalogue
    QueueMaxsize,  \* _QUEUE_MAXSIZE
    MaxReady       \* bound on the fan-outs scheduled at a time

ASSUME StatusAssumption == {Probing, Syncing} \subseteq Status /\ Probing # Syncing
ASSUME QueueAssumption == {QueueMaxsize, MaxReady} \subseteq Nat \ {0}

VARIABLES
    status,       \* _status of the crawler
    paused,       \* the setting crawler_paused
    crawler,      \* where the crawler's thread is, and the frame it publishes
    operator,     \* the same of POST /crawler/pause and /crawler/resume
    ready,        \* the fan-outs call_soon_threadsafe has scheduled
    subscribers,  \* _subscribers of the broker
    queue,        \* the queue of each stream
    stream,       \* where the generator of each stream is
    shown,        \* the status each browser shows
    lost,         \* history: streams whose last status had to make room
    behind        \* history: the last status scheduled is not the last one, which
                  \* nobody was there for

brokerVars == <<ready, behind, subscribers, queue>>
streamVars == <<stream, shown, lost>>

-----------------------------------------------------------------------------
Author == {"crawler", "operator", "prime"}
\* Where the crawler is in its loop: "free" is the loop head and the sleeps before
\* it; from "looked" on an iteration is under way.
Place == {"free", "looked", "set", "publishing", "syncing", "synced", "probing", "blocked",
          "exited"}

Event == [kind : {"status", "dirty", "shutdown"}, by : Author,
          status : Status, paused : BOOLEAN]

Frame(kind, by, st, isPaused) ==
    [kind |-> kind, by |-> by, status |-> st, paused |-> isPaused]
StatusFrame(by, st, isPaused) == Frame("status", by, st, isPaused)
Dirty == Frame("dirty", "crawler", Probing, FALSE)
SHUTDOWN == Frame("shutdown", "operator", Probing, FALSE)

BrokerTypeOK ==
    /\ status \in Status
    /\ paused \in BOOLEAN
    /\ crawler \in [at : Place, frame : Event]
    /\ operator \in [at : {"idle", "stored", "publishing"}, frame : Event]
    /\ ready \in Seq(Event)
    /\ subscribers \in SUBSET Stream
    /\ queue \in [Stream -> Seq(Event)]
    /\ \A s \in Stream : Len(queue[s]) <= QueueMaxsize
    /\ stream \in [Stream -> {"gone", "accepted", "open", "abandoned"}]
    /\ shown \in [Stream -> Event]
    /\ lost \in SUBSET Stream
    /\ behind \in BOOLEAN

BrokerInit ==
    /\ status \in Status \ {Probing, Syncing}
    /\ paused = FALSE
    /\ crawler = [at |-> "free", frame |-> Dirty]
    /\ operator = [at |-> "idle", frame |-> Dirty]
    /\ ready = <<>>
    /\ behind = FALSE
    /\ subscribers = {}
    /\ queue = [s \in Stream |-> <<>>]
    /\ stream = [s \in Stream |-> "gone"]
    /\ shown = [s \in Stream |-> Dirty]
    /\ lost = {}

LoopFree == operator.at = "idle"

-----------------------------------------------------------------------------
(* The broker. *)

HoldsStatus(q) == \E n \in 1..Len(q) : q[n].kind = "status"

\* publish: nothing is scheduled when nobody listens.
Publish(event) ==
    \/ /\ subscribers = {}
       /\ behind' = (behind \/ (event.kind = "status" /\ HoldsStatus(ready)))
       /\ UNCHANGED ready
    \/ /\ subscribers # {}
       /\ Len(ready) < MaxReady
       /\ ready' = Append(ready, event)
       /\ behind' = (behind /\ event.kind # "status")

\* What is in the queue of an abandoned stream is not kept: nobody reads it.
Listening(s) == stream[s] \in {"accepted", "open"}

\* Fault: a full queue keeps what it has.
PutDroppingNewest(q, event) ==
    IF Len(q) < QueueMaxsize THEN Append(q, event) ELSE q

\* Fault: queues have no bound.
PutUnbounded(q, event) == Append(q, event)

\* A full queue loses its oldest event.
Put(q, event) ==
    IF Len(q) < QueueMaxsize THEN Append(q, event) ELSE Append(Tail(q), event)

\* _fan_out
FanOut ==
    /\ LoopFree
    /\ ready # <<>>
    /\ queue' = [s \in Stream |-> IF Listening(s) THEN Put(queue[s], Head(ready))
                                  ELSE queue[s]]
    /\ lost' = {s \in Stream :
                   /\ ~ HoldsStatus(queue'[s])
                   /\ s \in lost \/ HoldsStatus(queue[s])}
    /\ ready' = Tail(ready)
    /\ UNCHANGED <<status, paused, crawler, operator, behind, subscribers, stream, shown>>

\* Fault: nobody is told.
TellNobody == UNCHANGED queue

\* EventBroker.shutdown: a full queue gets nothing.
TellAll ==
    queue' = [s \in Stream |->
                 IF Listening(s) /\ Len(queue[s]) < QueueMaxsize
                 THEN Append(queue[s], SHUTDOWN) ELSE queue[s]]

-----------------------------------------------------------------------------
(* Publishers. *)

\* What the crawler does under its status; under any other it sleeps.
GoOn(st) == CASE st = Probing -> "probing"
              [] st = Syncing -> "syncing"
              [] OTHER -> "free"

\* An iteration begins.
BeginIteration ==
    /\ crawler.at = "free"
    /\ crawler' = [crawler EXCEPT !.at = "looked"]
    /\ UNCHANGED <<status, paused, operator, brokerVars, streamVars>>

\* It goes on to a sync, to a title or to sleep; from its sync to a title or to
\* sleep; and from a title whose stream has no free slot only to the loop head.
MayTake(st) ==
    \/ crawler.at = "looked"
    \/ crawler.at = "synced" /\ st # Syncing
    \/ crawler.at = "blocked" /\ st \notin {Syncing, Probing}

\* _set_status, under the lock; nothing is published when nothing changes, while
\* Probing may be another title.
SetStatus(st) ==
    /\ MayTake(st)
    /\ status' = st
    /\ \/ st = status /\ crawler' = [crawler EXCEPT !.at = GoOn(st)]
       \/ /\ st # status \/ st = Probing
          /\ crawler' = [crawler EXCEPT !.at = "set"]
    /\ UNCHANGED <<paused, operator, brokerVars, streamVars>>

ReadPaused ==
    /\ crawler.at = "set"
    /\ crawler' = [at |-> "publishing", frame |-> StatusFrame("crawler", status, paused)]
    /\ UNCHANGED <<status, paused, operator, brokerVars, streamVars>>

CrawlerPublishes ==
    /\ crawler.at = "publishing"
    /\ Publish(crawler.frame)
    /\ crawler' = [at |-> GoOn(status), frame |-> Dirty]
    /\ UNCHANGED <<status, paused, operator, subscribers, queue, streamVars>>

\* A sync ends, or a probe: with or without new counts or a new data_version.
EndOf(place, next) ==
    /\ crawler.at = place
    /\ crawler' = [crawler EXCEPT !.at = next]
    /\ Publish(Dirty) \/ UNCHANGED <<ready, behind>>
    /\ UNCHANGED <<status, paused, operator, subscribers, queue, streamVars>>

EndSync == EndOf("syncing", "synced")
EndProbe == EndOf("probing", "free") \/ EndOf("probing", "blocked")

\* An exception ends the iteration; a sync catches its own.
IterationFails ==
    /\ crawler.at \in {"looked", "synced"}
    /\ crawler' = [crawler EXCEPT !.at = "free"]
    /\ UNCHANGED <<status, paused, operator, brokerVars, streamVars>>

\* pause and resume store the setting, ...
StoreSetting ==
    /\ LoopFree
    /\ paused' \in BOOLEAN
    /\ operator' = [operator EXCEPT !.at = "stored"]
    /\ UNCHANGED <<status, crawler, brokerVars, streamVars>>

\* ... take the status under the lock, ...
TakeSnapshot ==
    /\ operator.at = "stored"
    /\ operator' = [at |-> "publishing", frame |-> StatusFrame("operator", status, paused)]
    /\ UNCHANGED <<status, paused, crawler, brokerVars, streamVars>>

\* ... and publish it.
PublishSnapshot ==
    /\ operator.at = "publishing"
    /\ Publish(operator.frame)
    /\ operator' = [at |-> "idle", frame |-> Dirty]
    /\ UNCHANGED <<status, paused, crawler, subscribers, queue, streamVars>>

-----------------------------------------------------------------------------
(* Streams. *)

\* The handler: the generator has not begun when it returns.
Connect(s) ==
    /\ LoopFree
    /\ stream[s] = "gone"
    /\ subscribers' = subscribers \union {s}
    /\ queue' = [queue EXCEPT ![s] = <<>>]
    /\ stream' = [stream EXCEPT ![s] = "accepted"]
    /\ UNCHANGED <<status, paused, crawler, operator, ready, behind, shown, lost>>

\* The frames the generator begins with.
Prime(s) ==
    /\ LoopFree
    /\ stream[s] = "accepted"
    /\ stream' = [stream EXCEPT ![s] = "open"]
    /\ shown' = [shown EXCEPT ![s] = StatusFrame("prime", status, paused)]
    /\ lost' = lost \ {s}
    /\ UNCHANGED <<status, paused, crawler, operator, brokerVars>>

Leave(s, where) ==
    /\ stream' = [stream EXCEPT ![s] = where]
    /\ queue' = [queue EXCEPT ![s] = <<>>]
    /\ shown' = [shown EXCEPT ![s] = Dirty]
    /\ lost' = lost \ {s}
    /\ UNCHANGED <<status, paused, crawler, operator, ready, behind>>

\* The generator ends before its try: nobody unsubscribes the queue.
Abandon(s) ==
    /\ LoopFree
    /\ stream[s] = "accepted"
    /\ Leave(s, "abandoned")
    /\ UNCHANGED subscribers

\* The generator ends with the sentinel or because the browser has gone away.
Close(s) ==
    /\ LoopFree
    /\ stream[s] = "open"
    /\ Leave(s, "gone")
    /\ subscribers' = subscribers \ {s}

Deliver(s) ==
    /\ LoopFree
    /\ stream[s] = "open"
    /\ queue[s] # <<>>
    /\ Head(queue[s]) # SHUTDOWN
    /\ queue' = [queue EXCEPT ![s] = Tail(@)]
    /\ shown' = IF Head(queue[s]).kind = "status"
                THEN [shown EXCEPT ![s] = Head(queue[s])] ELSE shown
    /\ UNCHANGED <<status, paused, crawler, operator, ready, behind, subscribers, stream, lost>>

\* No streams, no one to tell.
BrokerRests ==
    /\ ready' = <<>>
    /\ behind' = FALSE
    /\ subscribers' = {}
    /\ queue' = [s \in Stream |-> <<>>]
    /\ stream' = [s \in Stream |-> "gone"]
    /\ shown' = [s \in Stream |-> Dirty]
    /\ lost' = {}

\* What the iteration under way does.
CrawlerStep ==
    \/ \E st \in Status : SetStatus(st)
    \/ ReadPaused
    \/ CrawlerPublishes
    \/ EndSync
    \/ EndProbe
    \/ IterationFails

OperatorGoesOn == TakeSnapshot \/ PublishSnapshot

StreamStep(s) == Prime(s) \/ Abandon(s) \/ Deliver(s) \/ Close(s)

-----------------------------------------------------------------------------
\* No status is on its way to the stream.
Settled(s) ==
    /\ stream[s] = "open"
    /\ crawler.at \notin {"set", "publishing"}
    /\ operator.at = "idle"
    /\ ~ HoldsStatus(ready)
    /\ ~ HoldsStatus(queue[s])

\* The last word a browser hears is never out of date in what its author knows
\* first hand: the status if it is the crawler's, the setting if it is that
\* of pause or resume, both if it is the first of the stream; however the two
\* threads crossed and whatever a full queue lost, unless events of other kinds
\* pushed the last status out, or nobody was there for it while the one before it
\* was still to be fanned out (events.py:64, 82, worker.py:85, 241, admin.py:35).
LastWordIsRight ==
    \A s \in Stream \ lost :
        Settled(s) /\ ~ behind =>
            /\ shown[s].by \in {"crawler", "prime"} => shown[s].status = status
            /\ shown[s].by \in {"operator", "prime"} => shown[s].paused = paused

=============================================================================
