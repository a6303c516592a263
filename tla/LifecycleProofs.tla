--------------------------- MODULE LifecycleProofs ---------------------------
(***************************************************************************)
(* Theorems about EventBroker and Lifecycle: types, the iteration that is  *)
(* waited for, the sentinel that gets through, and the last word a browser *)
(* hears, for any number of streams, sizes of queues and timeouts.         *)
(***************************************************************************)
EXTENDS Lifecycle, TLAPS

-----------------------------------------------------------------------------
(* Sequences of events. *)

\* Frames are events, and events without content are no status.
LEMMA FramesAreEvents ==
  /\ Dirty \in Event /\ Dirty.kind = "dirty"
  /\ SHUTDOWN \in Event /\ SHUTDOWN.kind = "shutdown"
  /\ \A by \in Author, st \in Status, isPaused \in BOOLEAN :
        /\ StatusFrame(by, st, isPaused) \in Event
        /\ StatusFrame(by, st, isPaused).kind = "status"
        /\ StatusFrame(by, st, isPaused).by = by
        /\ StatusFrame(by, st, isPaused).status = st
        /\ StatusFrame(by, st, isPaused).paused = isPaused
BY StatusAssumption DEF Dirty, SHUTDOWN, StatusFrame, Frame, Event, Author

\* A queue has room for an event at least.
LEMMA Sizes ==
  QueueMaxsize \in Nat \ {0} /\ MaxReady \in Nat \ {0}
BY QueueAssumption

\* What Append makes of a sequence of events.
LEMMA Appended ==
  ASSUME NEW q \in Seq(Event), NEW event \in Event
  PROVE  /\ Append(q, event) \in Seq(Event)
         /\ Len(Append(q, event)) = Len(q) + 1
         /\ \A n \in 1..Len(q) : Append(q, event)[n] = q[n]
         /\ Append(q, event)[Len(q) + 1] = event
OBVIOUS

\* What Head and Tail make of it.
LEMMA HeadAndTail ==
  ASSUME NEW q \in Seq(Event), q # <<>>
  PROVE  /\ Len(q) \in Nat \ {0}
         /\ Head(q) \in Event /\ Head(q) = q[1]
         /\ Tail(q) \in Seq(Event)
         /\ Len(Tail(q)) = Len(q) - 1
         /\ \A n \in 1..Len(q) - 1 : Tail(q)[n] = q[n + 1]
OBVIOUS

\* A queue that an event is put into stays a queue within its bound, ends with the event
\* and has the others from before.
LEMMA PutTyped ==
  ASSUME NEW q \in Seq(Event), NEW event \in Event, Len(q) <= QueueMaxsize
  PROVE  /\ Put(q, event) \in Seq(Event)
         /\ Len(Put(q, event)) <= QueueMaxsize
<1>1. CASE Len(q) < QueueMaxsize
  BY <1>1, Sizes, Appended DEF Put
<1>2. CASE Len(q) = QueueMaxsize
  <2>1. q # <<>>
    BY <1>2, Sizes
  <2>2. Tail(q) \in Seq(Event) /\ Len(Tail(q)) = Len(q) - 1
    BY <2>1, HeadAndTail
  <2>3. Append(Tail(q), event) \in Seq(Event) /\ Len(Append(Tail(q), event)) = Len(q)
    BY <2>2, Appended
  <2> QED
    BY <1>2, <2>3, Sizes DEF Put
<1> QED
  BY <1>1, <1>2, Sizes

-----------------------------------------------------------------------------
(* Type correctness. *)

\* What is published is scheduled as an event.
LEMMA PublishTyped ==
  ASSUME BrokerTypeOK, NEW event \in Event, Publish(event)
  PROVE  ready' \in Seq(Event) /\ behind' \in BOOLEAN
<1>1. ready \in Seq(Event) /\ behind \in BOOLEAN
  BY DEF BrokerTypeOK
<1>2. ready' \in Seq(Event)
  BY <1>1, Appended DEF Publish
<1>3. behind' \in BOOLEAN
  BY <1>1, Zenon DEF Publish
<1> QED
  BY <1>2, <1>3

\* The steps of the crawler keep the types.
LEMMA CrawlerTyped ==
  ASSUME BrokerTypeOK, BeginIteration \/ CrawlerStep
  PROVE  BrokerTypeOK'
<1>1. crawler \in [at : Place, frame : Event]
  BY DEF BrokerTypeOK
<1>2. CASE \E st \in Status : SetStatus(st)
  <2> PICK st \in Status : SetStatus(st)
    BY <1>2
  <2>1. status' \in Status
    BY DEF SetStatus
  <2>2. crawler' = [crawler EXCEPT !.at = GoOn(st)] \/ crawler' = [crawler EXCEPT !.at = "set"]
    BY DEF SetStatus
  <2>3. crawler' \in [at : Place, frame : Event]
    BY <1>1, <2>2 DEF GoOn, Place
  <2>4. UNCHANGED <<paused, operator, brokerVars, streamVars>>
    BY DEF SetStatus
  <2> QED
    BY <2>1, <2>3, <2>4 DEF BrokerTypeOK, brokerVars, streamVars
<1>3. CASE ReadPaused
  <2>1. StatusFrame("crawler", status, paused) \in Event
    BY FramesAreEvents DEF BrokerTypeOK, Author
  <2>2. crawler' \in [at : Place, frame : Event]
    BY <1>3, <2>1 DEF ReadPaused, Place
  <2>3. UNCHANGED <<status, paused, operator, brokerVars, streamVars>>
    BY <1>3 DEF ReadPaused
  <2> QED
    BY <2>2, <2>3 DEF BrokerTypeOK, brokerVars, streamVars
<1>4. CASE CrawlerPublishes
  <2>1. crawler' \in [at : Place, frame : Event]
    BY <1>4, FramesAreEvents DEF CrawlerPublishes, GoOn, Place
  <2>2. ready' \in Seq(Event) /\ behind' \in BOOLEAN
    BY <1>1, <1>4, PublishTyped DEF CrawlerPublishes
  <2>3. UNCHANGED <<status, paused, operator, subscribers, queue, streamVars>>
    BY <1>4 DEF CrawlerPublishes
  <2> QED
    BY <2>1, <2>2, <2>3 DEF BrokerTypeOK, streamVars
<1>5. ASSUME NEW place \in Place, NEW next \in Place, EndOf(place, next)
      PROVE  BrokerTypeOK'
  <2>1. crawler' \in [at : Place, frame : Event]
    BY <1>1, <1>5 DEF EndOf
  <2>2. ready' \in Seq(Event) /\ behind' \in BOOLEAN
    BY <1>5, PublishTyped, FramesAreEvents DEF EndOf, BrokerTypeOK
  <2>3. UNCHANGED <<status, paused, operator, subscribers, queue, streamVars>>
    BY <1>5 DEF EndOf
  <2> QED
    BY <2>1, <2>2, <2>3 DEF BrokerTypeOK, streamVars
<1>6. CASE EndSync \/ EndProbe
  BY <1>5, <1>6 DEF EndSync, EndProbe, Place
<1>7. CASE BeginIteration \/ IterationFails
  <2>1. crawler' \in [at : Place, frame : Event]
    BY <1>1, <1>7 DEF BeginIteration, IterationFails, Place
  <2>2. UNCHANGED <<status, paused, operator, brokerVars, streamVars>>
    BY <1>7 DEF BeginIteration, IterationFails
  <2> QED
    BY <2>1, <2>2 DEF BrokerTypeOK, brokerVars, streamVars
<1> QED
  BY <1>2, <1>3, <1>4, <1>6, <1>7 DEF CrawlerStep

\* So do those of the operator, ...
LEMMA OperatorTyped ==
  ASSUME BrokerTypeOK, StoreSetting \/ OperatorGoesOn
  PROVE  BrokerTypeOK'
<1> DEFINE Where == {"idle", "stored", "publishing"}
<1>1. operator \in [at : Where, frame : Event]
  BY DEF BrokerTypeOK
<1>2. CASE StoreSetting
  <2>1. operator' \in [at : Where, frame : Event]
    BY <1>1, <1>2 DEF StoreSetting
  <2>2. paused' \in BOOLEAN /\ UNCHANGED <<status, crawler, brokerVars, streamVars>>
    BY <1>2 DEF StoreSetting
  <2> QED
    BY <2>1, <2>2 DEF BrokerTypeOK, brokerVars, streamVars
<1>3. CASE TakeSnapshot
  <2>1. StatusFrame("operator", status, paused) \in Event
    BY FramesAreEvents DEF BrokerTypeOK, Author
  <2>2. operator' \in [at : Where, frame : Event]
    BY <1>3, <2>1 DEF TakeSnapshot
  <2>3. UNCHANGED <<status, paused, crawler, brokerVars, streamVars>>
    BY <1>3 DEF TakeSnapshot
  <2> QED
    BY <2>2, <2>3 DEF BrokerTypeOK, brokerVars, streamVars
<1>4. CASE PublishSnapshot
  <2>1. operator' \in [at : Where, frame : Event]
    BY <1>4, FramesAreEvents DEF PublishSnapshot
  <2>2. ready' \in Seq(Event) /\ behind' \in BOOLEAN
    BY <1>1, <1>4, PublishTyped DEF PublishSnapshot
  <2>3. UNCHANGED <<status, paused, crawler, subscribers, queue, streamVars>>
    BY <1>4 DEF PublishSnapshot
  <2> QED
    BY <2>1, <2>2, <2>3 DEF BrokerTypeOK, streamVars
<1> QED
  BY <1>2, <1>3, <1>4 DEF OperatorGoesOn

\* ... those of a stream, ...
LEMMA StreamTyped ==
  ASSUME BrokerTypeOK, NEW s \in Stream, Connect(s) \/ StreamStep(s)
  PROVE  BrokerTypeOK'
<1> DEFINE Queues == {q \in Seq(Event) : Len(q) <= QueueMaxsize}
           Where == {"gone", "accepted", "open", "abandoned"}
<1>1. /\ queue \in [Stream -> Queues] /\ <<>> \in Queues
      /\ stream \in [Stream -> Where]
      /\ shown \in [Stream -> Event] /\ Dirty \in Event
  BY Sizes, FramesAreEvents DEF BrokerTypeOK
<1>2. ASSUME queue' \in [Stream -> Queues], stream' \in [Stream -> Where],
             shown' \in [Stream -> Event], lost' \in SUBSET Stream,
             subscribers' \in SUBSET Stream,
             UNCHANGED <<status, paused, crawler, operator, ready, behind>>
      PROVE  BrokerTypeOK'
  BY <1>2 DEF BrokerTypeOK
<1>3. CASE Connect(s)
  <2>1. queue' \in [Stream -> Queues] /\ stream' \in [Stream -> Where]
    BY <1>1, <1>3 DEF Connect
  <2> QED
    BY <1>2, <1>3, <2>1 DEF Connect, BrokerTypeOK
<1>4. CASE Prime(s)
  <2>1. StatusFrame("prime", status, paused) \in Event
    BY FramesAreEvents DEF BrokerTypeOK, Author
  <2>2. shown' \in [Stream -> Event] /\ stream' \in [Stream -> Where]
    BY <1>1, <1>4, <2>1 DEF Prime
  <2> QED
    BY <1>1, <1>2, <1>4, <2>2 DEF Prime, BrokerTypeOK, brokerVars
<1>5. ASSUME NEW where \in Where, Leave(s, where), subscribers' \in SUBSET Stream
      PROVE  BrokerTypeOK'
  <2>1. /\ queue' \in [Stream -> Queues]
        /\ stream' \in [Stream -> Where]
        /\ shown' \in [Stream -> Event]
    BY <1>1, <1>5 DEF Leave
  <2> QED
    BY <1>2, <1>5, <2>1 DEF Leave, BrokerTypeOK
<1>6. CASE Abandon(s)
  BY <1>5, <1>6 DEF Abandon, BrokerTypeOK
<1>7. CASE Close(s)
  BY <1>5, <1>7 DEF Close, BrokerTypeOK
<1>8. CASE Deliver(s)
  <2>1. Tail(queue[s]) \in Queues /\ Head(queue[s]) \in Event
    BY <1>1, <1>8, HeadAndTail, Sizes DEF Deliver
  <2>2. queue' \in [Stream -> Queues] /\ shown' \in [Stream -> Event]
    BY <1>1, <1>8, <2>1 DEF Deliver
  <2> QED
    BY <1>1, <1>2, <1>8, <2>2 DEF Deliver, BrokerTypeOK
<1> QED
  BY <1>3, <1>4, <1>6, <1>7, <1>8 DEF StreamStep

\* ... and those of the broker.
LEMMA BrokerTyped ==
  ASSUME BrokerTypeOK
  PROVE  /\ FanOut => BrokerTypeOK'
         /\ TellAll => /\ queue' \in [Stream -> Seq(Event)]
                       /\ \A s \in Stream : Len(queue'[s]) <= QueueMaxsize
         /\ BrokerRests /\ UNCHANGED <<status, paused, crawler, operator>> => BrokerTypeOK'
<1>1. ASSUME FanOut
      PROVE  BrokerTypeOK'
  <2>1. Head(ready) \in Event /\ Tail(ready) \in Seq(Event)
    BY <1>1, HeadAndTail DEF FanOut, BrokerTypeOK
  <2>2. ASSUME NEW s \in Stream
        PROVE  /\ Put(queue[s], Head(ready)) \in Seq(Event)
               /\ Len(Put(queue[s], Head(ready))) <= QueueMaxsize
    BY <2>1, PutTyped DEF BrokerTypeOK
  <2>3. /\ queue' \in [Stream -> Seq(Event)]
        /\ \A s \in Stream : Len(queue'[s]) <= QueueMaxsize
    BY <1>1, <2>2 DEF FanOut, BrokerTypeOK
  <2>4. ready' \in Seq(Event) /\ lost' \in SUBSET Stream
    BY <1>1, <2>1 DEF FanOut
  <2> QED
    BY <1>1, <2>3, <2>4 DEF FanOut, BrokerTypeOK
<1>2. ASSUME TellAll
      PROVE  /\ queue' \in [Stream -> Seq(Event)]
             /\ \A s \in Stream : Len(queue'[s]) <= QueueMaxsize
  <2>1. ASSUME NEW s \in Stream, Len(queue[s]) < QueueMaxsize
        PROVE  /\ Append(queue[s], SHUTDOWN) \in Seq(Event)
               /\ Len(Append(queue[s], SHUTDOWN)) <= QueueMaxsize
    BY <2>1, Appended, FramesAreEvents, Sizes DEF BrokerTypeOK
  <2> QED
    BY <1>2, <2>1 DEF TellAll, BrokerTypeOK
<1>3. ASSUME BrokerRests, UNCHANGED <<status, paused, crawler, operator>>
      PROVE  BrokerTypeOK'
  <2>1. behind' \in BOOLEAN
    BY <1>3, Zenon DEF BrokerRests
  <2>2. /\ ready' \in Seq(Event) /\ subscribers' \in SUBSET Stream
        /\ queue' \in [Stream -> Seq(Event)]
        /\ \A s \in Stream : Len(queue'[s]) <= QueueMaxsize
        /\ lost' \in SUBSET Stream
    BY <1>3, Sizes DEF BrokerRests
  <2>3. /\ stream' \in [Stream -> {"gone", "accepted", "open", "abandoned"}]
        /\ shown' \in [Stream -> Event]
    BY <1>3, FramesAreEvents DEF BrokerRests
  <2> QED
    BY <1>3, <2>1, <2>2, <2>3 DEF BrokerTypeOK
<1> QED
  BY <1>1, <1>2, <1>3

\* The clocks of the shutdown stay within their limits: an iteration has been waited
\* for no longer than the crawler.
ClocksRun ==
    /\ phase \in {"running", "signalled", "draining", "stopping", "ended", "killed"}
    /\ elapsed \in 0..Grace
    /\ waited \in 0..JoinTimeout
    /\ age \in 0..waited
    /\ late \in 0..2
    /\ excused \in SUBSET Stream

\* Every step keeps the types.
LEMMA StepTyped ==
  ASSUME BrokerTypeOK, ClocksRun, [Next]_vars
  PROVE  BrokerTypeOK' /\ ClocksRun'
<1>1. CASE LoopStep
  <2>1. BrokerTypeOK'
    BY <1>1, BrokerTyped, OperatorTyped, StreamTyped DEF LoopStep
  <2>2. ClocksRun'
    BY <1>1 DEF LoopStep, Excuse, ClocksRun
  <2> QED
    BY <2>1, <2>2
<1>2. CASE \E s \in Stream : Arrive(s)
  <2>1. BrokerTypeOK'
    BY <1>2, StreamTyped DEF Arrive
  <2>2. ClocksRun'
    BY <1>2 DEF Arrive, ClocksRun
  <2> QED
    BY <2>1, <2>2
<1>3. CASE Command
  BY <1>3, OperatorTyped DEF Command, ClocksRun, lifeVars
<1>4. CASE Work
  <2>1. BrokerTypeOK'
    BY <1>4, CrawlerTyped DEF Work
  <2>2. ClocksRun'
    BY <1>4 DEF Work, Clocks, Least, ClocksRun
  <2> QED
    BY <2>1, <2>2
<1>5. CASE LeaveLoop
  BY <1>5 DEF LeaveLoop, BrokerTypeOK, Place, ClocksRun, lifeVars, brokerVars, streamVars
<1>6. CASE Signal
  <2>1. BrokerTypeOK'
    BY <1>6, BrokerTyped DEF Signal, BrokerTypeOK, streamVars
  <2>2. ClocksRun'
    BY <1>6 DEF Signal, ClocksRun
  <2> QED
    BY <2>1, <2>2
<1>7. CASE StopCrawler
  <2>1. BrokerTypeOK'
    BY <1>7, BrokerTyped DEF StopCrawler
  <2>2. ClocksRun'
    BY <1>7 DEF StopCrawler, ClocksRun
  <2> QED
    BY <2>1, <2>2
<1>8. CASE CloseSockets \/ Exit \/ Kill
  BY <1>8 DEF CloseSockets, Exit, Kill, BrokerTypeOK, ClocksRun, brokerVars, streamVars
<1>9. CASE Tick
  <2>1. BrokerTypeOK'
    BY <1>9 DEF Tick, BrokerTypeOK, brokerVars, streamVars
  <2>2. ClocksRun'
    BY <1>9, TimeoutAssumption DEF Tick, ClocksRun
  <2> QED
    BY <2>1, <2>2
<1>10. CASE UNCHANGED vars
  BY <1>10 DEF vars, BrokerTypeOK, ClocksRun, brokerVars, streamVars, lifeVars
<1> QED
  BY <1>1, <1>2, <1>3, <1>4, <1>5, <1>6, <1>7, <1>8, <1>9, <1>10 DEF Next

\* Init has the types.
LEMMA InitTyped ==
  Init => BrokerTypeOK /\ ClocksRun
<1> SUFFICES ASSUME Init PROVE BrokerTypeOK /\ ClocksRun
  OBVIOUS
<1>1. behind \in BOOLEAN /\ paused \in BOOLEAN
  BY Zenon DEF Init, BrokerInit
<1>2. crawler \in [at : Place, frame : Event]
  BY FramesAreEvents DEF Init, BrokerInit, Place
<1>3. operator \in [at : {"idle", "stored", "publishing"}, frame : Event]
  BY FramesAreEvents DEF Init, BrokerInit
<1>4. /\ ready \in Seq(Event) /\ subscribers \in SUBSET Stream /\ lost \in SUBSET Stream
      /\ queue \in [Stream -> Seq(Event)]
      /\ \A s \in Stream : Len(queue[s]) <= QueueMaxsize
  BY Sizes DEF Init, BrokerInit
<1>5. /\ status \in Status
      /\ stream \in [Stream -> {"gone", "accepted", "open", "abandoned"}]
      /\ shown \in [Stream -> Event]
  BY FramesAreEvents DEF Init, BrokerInit
<1>6. ClocksRun
  BY TimeoutAssumption DEF Init, ClocksRun
<1> QED
  BY <1>1, <1>2, <1>3, <1>4, <1>5, <1>6 DEF BrokerTypeOK

\* The types are invariant.
LEMMA Typed == Spec => [](BrokerTypeOK /\ ClocksRun)
BY InitTyped, StepTyped, PTL DEF Spec

\* No queue outgrows _QUEUE_MAXSIZE, and every clock stays within the timeout it is
\* compared with (events.py:19, main.py:87).
THEOREM TypeCorrect == Spec => []TypeOK
<1>1. BrokerTypeOK /\ ClocksRun => TypeOK
  BY TimeoutAssumption DEF ClocksRun, TypeOK
<1> QED
  BY <1>1, Typed, PTL

-----------------------------------------------------------------------------
(* The wait for the crawler.  An iteration under way while the crawler is  *)
(* being stopped was so when it was told to, for none begins afterwards,   *)
(* so that the two clocks agree; and once it has begun a probe it does not *)
(* come back to where it could begin another.                              *)

WaitedFor ==
    /\ phase \in {"running", "signalled", "draining"} => waited = 0 /\ age = 0 /\ late = 0
    /\ phase = "stopping" /\ UnderWay => age = waited
    /\ late = 1 => /\ crawler.at \in {"probing", "blocked", "set", "publishing", "free", "exited"}
                   /\ crawler.at \in {"set", "publishing"} => status \notin {Syncing, Probing}
    /\ OnlyOldIterationsAreCut

\* What the iteration under way does leaves the clocks in step.
LEMMA CrawlerWaits ==
  ASSUME BrokerTypeOK, ClocksRun, WaitedFor, ~ Over, CrawlerStep, Clocks
  PROVE  WaitedFor'
<1>1. /\ UNCHANGED <<phase, elapsed, waited>>
      /\ age' = IF crawler'.at = "free" THEN 0 ELSE age
      /\ late' = IF phase = "stopping" /\ BeginsProbe THEN Least(late + 1, 2) ELSE late
  BY DEF Clocks
<1>2. UnderWay
  BY DEF CrawlerStep, SetStatus, MayTake, ReadPaused, CrawlerPublishes, EndSync, EndProbe, EndOf,
         IterationFails, UnderWay
<1>3. phase = "stopping" /\ UnderWay' => age' = waited
  BY <1>1, <1>2 DEF WaitedFor, UnderWay
<1>4. phase \in {"running", "signalled", "draining"} => age' = 0 /\ late' = 0
  BY <1>1 DEF WaitedFor
<1>5. ~ Over'
  BY <1>1 DEF Over
<1>6. ASSUME BeginsProbe
      PROVE  late = 0
  <2>1. SUFFICES ASSUME late = 1 PROVE FALSE
    BY DEF WaitedFor, OnlyOldIterationsAreCut, ClocksRun
  <2>2. CASE CrawlerPublishes
    BY <1>6, <2>1, <2>2, StatusAssumption
       DEF CrawlerPublishes, GoOn, BeginsProbe, WaitedFor, BrokerTypeOK
  <2>3. CASE \E st \in Status : SetStatus(st)
    <3> PICK st \in Status : SetStatus(st)
      BY <2>3
    <3>1. crawler.at = "blocked" /\ st \notin {Syncing, Probing}
      BY <2>1 DEF SetStatus, MayTake, WaitedFor
    <3>2. crawler'.at \in {"set", "free"}
      BY <3>1 DEF SetStatus, GoOn, BrokerTypeOK
    <3> QED
      BY <1>6, <3>2 DEF BeginsProbe
  <2> QED
    BY <1>6, <2>2, <2>3 DEF CrawlerStep, ReadPaused, EndSync, EndProbe, EndOf, IterationFails,
                            BeginsProbe, BrokerTypeOK
<1>7. late' <= 1
  BY <1>1, <1>6 DEF Least, WaitedFor, OnlyOldIterationsAreCut, ClocksRun
<1>8. ASSUME late' = 1
      PROVE  /\ crawler'.at \in {"probing", "blocked", "set", "publishing", "free", "exited"}
             /\ crawler'.at \in {"set", "publishing"} => status' \notin {Syncing, Probing}
  <2>1. CASE BeginsProbe
    BY <2>1 DEF BeginsProbe
  <2>2. CASE ~ BeginsProbe
    <3>1. late = 1
      BY <1>1, <1>8, <2>2
    <3>2. CASE \E st \in Status : SetStatus(st)
      <4> PICK st \in Status : SetStatus(st)
        BY <3>2
      <4>1. crawler.at = "blocked" /\ st \notin {Syncing, Probing}
        BY <3>1 DEF SetStatus, MayTake, WaitedFor
      <4> QED
        BY <4>1 DEF SetStatus, GoOn, BrokerTypeOK
    <3>3. CASE ReadPaused
      BY <3>1, <3>3 DEF ReadPaused, WaitedFor
    <3>4. CASE CrawlerPublishes
      BY <3>1, <3>4 DEF CrawlerPublishes, GoOn, WaitedFor
    <3>5. CASE EndSync \/ EndProbe \/ IterationFails
      BY <3>1, <3>5 DEF EndSync, EndProbe, EndOf, IterationFails, WaitedFor, BrokerTypeOK
    <3> QED
      BY <3>2, <3>3, <3>4, <3>5 DEF CrawlerStep
  <2> QED
    BY <2>1, <2>2
<1> QED
  BY <1>1, <1>3, <1>4, <1>5, <1>7, <1>8 DEF WaitedFor, OnlyOldIterationsAreCut

\* An iteration begins only while nobody has told the crawler to stop.
LEMMA BeginningWaits ==
  ASSUME BrokerTypeOK, ClocksRun, WaitedFor, ~ Over, BeginIteration, phase # "stopping", Clocks
  PROVE  WaitedFor'
<1>1. crawler.at = "free" /\ crawler'.at = "looked" /\ ~ BeginsProbe
  BY DEF BeginIteration, BeginsProbe, BrokerTypeOK
<1>2. UNCHANGED <<phase, elapsed, waited, age, late>>
  BY <1>1 DEF Clocks
<1>3. ~ Over' /\ phase \in {"running", "signalled", "draining"} /\ late = 0
  BY <1>2 DEF Over, WaitedFor, ClocksRun
<1> QED
  BY <1>1, <1>2, <1>3 DEF WaitedFor, OnlyOldIterationsAreCut, Over

\* So does every step.
LEMMA StepWaits ==
  ASSUME BrokerTypeOK, ClocksRun, WaitedFor, [Next]_vars
  PROVE  WaitedFor'
<1>1. CASE LoopStep \/ (\E s \in Stream : Arrive(s)) \/ Command
  <2>1. /\ phase \in {"running", "signalled", "draining"}
        /\ UNCHANGED <<phase, waited, age, late>>
    BY <1>1 DEF LoopStep, LoopRuns, Arrive, Command, lifeVars
  <2> QED
    BY <2>1 DEF WaitedFor, OnlyOldIterationsAreCut, Over
<1>2. CASE Work
  BY <1>2, CrawlerWaits, BeginningWaits DEF Work
<1>3. CASE LeaveLoop
  BY <1>3 DEF LeaveLoop, lifeVars, WaitedFor, OnlyOldIterationsAreCut, Over, UnderWay, BrokerTypeOK
<1>4. CASE Signal \/ CloseSockets \/ StopCrawler
  BY <1>4 DEF Signal, CloseSockets, StopCrawler, WaitedFor, OnlyOldIterationsAreCut, Over
<1>5. CASE Exit
  <2>1. /\ UNCHANGED <<status, crawler, elapsed, waited, age, late>>
        /\ phase = "stopping" /\ phase' = "ended"
    BY <1>5 DEF Exit
  <2>2. UnderWay => age = JoinTimeout
    BY <1>5 DEF Exit, WaitedFor, UnderWay
  <2> QED
    BY <2>1, <2>2, TimeoutAssumption
       DEF WaitedFor, OnlyOldIterationsAreCut, UnderWay, Least, ClocksRun
<1>6. CASE Kill
  <2>1. /\ UNCHANGED <<status, crawler, elapsed, waited, age, late>>
        /\ phase \in {"draining", "stopping"} /\ phase' = "killed" /\ elapsed = Grace
    BY <1>6 DEF Kill
  <2>2. UnderWay => age = waited
    BY <2>1 DEF WaitedFor
  <2> QED
    BY <2>1, <2>2, TimeoutAssumption
       DEF WaitedFor, OnlyOldIterationsAreCut, UnderWay, Least, ClocksRun
<1>7. CASE Tick
  <2>1. UNCHANGED <<status, crawler, phase, late>> /\ phase \in {"draining", "stopping"}
    BY <1>7 DEF Tick
  <2>2. CASE phase = "draining"
    BY <1>7, <2>1, <2>2 DEF Tick, WaitedFor, OnlyOldIterationsAreCut, Over
  <2>3. CASE phase = "stopping"
    BY <1>7, <2>1, <2>3 DEF Tick, WaitedFor, OnlyOldIterationsAreCut, Over, UnderWay, ClocksRun
  <2> QED
    BY <2>1, <2>2, <2>3
<1>8. CASE UNCHANGED vars
  BY <1>8 DEF vars, lifeVars, WaitedFor, OnlyOldIterationsAreCut, Over, UnderWay
<1> QED
  BY <1>1, <1>2, <1>3, <1>4, <1>5, <1>6, <1>7, <1>8 DEF Next

\* The iteration the process ends under was under way when the crawler was told to stop,
\* so that it was waited for as long as crawler.stop waits, or as long as the drain has
\* left of the grace; it has begun one probe since at the most (worker.py:264, 306, 355,
\* main.py:89).
THEOREM OnlyOldIterationsAreEverCut == Spec => []OnlyOldIterationsAreCut
<1>1. Init => WaitedFor
  BY DEF Init, WaitedFor, OnlyOldIterationsAreCut, Over
<1>2. WaitedFor => OnlyOldIterationsAreCut
  BY DEF WaitedFor
<1> QED
  BY <1>1, <1>2, StepWaits, Typed, PTL DEF Spec

-----------------------------------------------------------------------------
(* The sentinel. *)

HasSentinel(q) == \E n \in 1..Len(q) : q[n] = SHUTDOWN

\* A stream that has not begun to read is told as well as one that has.
SentinelsArrive ==
    phase \in {"signalled", "draining"} =>
        \A s \in Stream : Listening(s) => s \in excused \/ HasSentinel(queue[s])

\* The sentinel stays in a queue that has room, and until it is read.
LEMMA SentinelStays ==
  ASSUME NEW q \in Seq(Event), HasSentinel(q)
  PROVE  /\ \A event \in Event : Len(q) < QueueMaxsize => HasSentinel(Put(q, event))
         /\ q # <<>>
         /\ Head(q) # SHUTDOWN => HasSentinel(Tail(q))
<1> PICK n \in 1..Len(q) : q[n] = SHUTDOWN
  BY DEF HasSentinel
<1>1. q # <<>>
  OBVIOUS
<1>2. ASSUME NEW event \in Event, Len(q) < QueueMaxsize
      PROVE  HasSentinel(Put(q, event))
  <2>1. Put(q, event) = Append(q, event)
    BY <1>2 DEF Put
  <2>2. Append(q, event)[n] = SHUTDOWN /\ n \in 1..Len(Append(q, event))
    BY Appended
  <2> QED
    BY <2>1, <2>2 DEF HasSentinel
<1>3. ASSUME Head(q) # SHUTDOWN
      PROVE  HasSentinel(Tail(q))
  <2>1. n - 1 \in 1..Len(Tail(q)) /\ Tail(q)[n - 1] = SHUTDOWN
    BY <1>1, <1>3, HeadAndTail
  <2> QED
    BY <2>1 DEF HasSentinel
<1> QED
  BY <1>1, <1>2, <1>3

\* A step of the event loop loses no sentinel but from a queue that is full.
LEMMA LoopKeepsSentinels ==
  ASSUME BrokerTypeOK, ClocksRun, SentinelsArrive, LoopStep
  PROVE  SentinelsArrive'
<1> SUFFICES ASSUME phase \in {"signalled", "draining"},
                    NEW s \in Stream, Listening(s)'
             PROVE  s \in excused' \/ HasSentinel(queue'[s])
  BY DEF LoopStep, SentinelsArrive
<1>1. s \in excused \/ Full(s) => s \in excused'
  BY DEF LoopStep, Excuse, Listening
<1>2. CASE FanOut
  <2>1. Listening(s) /\ queue'[s] = Put(queue[s], Head(ready)) /\ Head(ready) \in Event
    BY <1>2, HeadAndTail DEF FanOut, Listening, BrokerTypeOK
  <2>2. ~ Full(s) => Len(queue[s]) < QueueMaxsize
    BY Sizes DEF Full, BrokerTypeOK
  <2> QED
    BY <1>1, <2>1, <2>2, SentinelStays DEF SentinelsArrive, BrokerTypeOK
<1>3. CASE OperatorGoesOn
  BY <1>1, <1>3 DEF OperatorGoesOn, TakeSnapshot, PublishSnapshot, brokerVars, streamVars,
                    Listening, SentinelsArrive
<1>4. ASSUME NEW u \in Stream, StreamStep(u)
      PROVE  s \in excused' \/ HasSentinel(queue'[s])
  <2>1. CASE u # s
    BY <1>1, <1>4, <2>1
       DEF StreamStep, Prime, Abandon, Close, Leave, Deliver, brokerVars, Listening,
           SentinelsArrive, BrokerTypeOK
  <2>2. CASE u = s /\ Prime(s)
    BY <1>1, <2>2 DEF Prime, brokerVars, Listening, SentinelsArrive
  <2>3. CASE u = s /\ Deliver(s)
    BY <1>1, <2>3, SentinelStays DEF Deliver, Listening, SentinelsArrive, BrokerTypeOK
  <2>4. ~ (u = s /\ (Abandon(s) \/ Close(s)))
    BY DEF Abandon, Close, Leave, Listening, BrokerTypeOK
  <2> QED
    BY <1>4, <2>1, <2>2, <2>3, <2>4 DEF StreamStep
<1> QED
  BY <1>2, <1>3, <1>4 DEF LoopStep

\* Nor does any other.
LEMMA StepKeepsSentinels ==
  ASSUME BrokerTypeOK, ClocksRun, SentinelsArrive, [Next]_vars
  PROVE  SentinelsArrive'
<1>1. CASE LoopStep
  BY <1>1, LoopKeepsSentinels
<1>2. ASSUME NEW s \in Stream, Arrive(s)
      PROVE  SentinelsArrive'
  BY <1>2 DEF Arrive, Connect, Listening, SentinelsArrive, BrokerTypeOK
<1>3. CASE Command \/ LeaveLoop
  BY <1>3 DEF Command, StoreSetting, LeaveLoop, brokerVars, streamVars, lifeVars, Listening,
              SentinelsArrive
<1>4. CASE Work
  <2>1. UNCHANGED <<queue, stream, phase, excused>>
    BY <1>4 DEF Work, Clocks, BeginIteration, CrawlerStep, SetStatus, ReadPaused, CrawlerPublishes,
                EndSync, EndProbe, EndOf, IterationFails, brokerVars, streamVars
  <2> QED
    BY <2>1 DEF Listening, SentinelsArrive
<1>5. CASE Signal
  <2> SUFFICES ASSUME NEW s \in Stream, Listening(s)', ~ (s \in excused')
               PROVE  HasSentinel(queue'[s])
    BY DEF SentinelsArrive
  <2>1. Listening(s) /\ Len(queue[s]) < QueueMaxsize
    BY <1>5, Sizes DEF Signal, streamVars, Listening, Full, BrokerTypeOK
  <2>2. queue'[s] = Append(queue[s], SHUTDOWN)
    BY <1>5, <2>1 DEF Signal, TellAll
  <2>3. /\ Len(queue'[s]) \in 1..Len(queue'[s])
        /\ queue'[s][Len(queue'[s])] = SHUTDOWN
    BY <2>2, Appended, FramesAreEvents DEF BrokerTypeOK
  <2> QED
    BY <2>3 DEF HasSentinel
<1>6. CASE CloseSockets \/ Tick
  BY <1>6 DEF CloseSockets, Tick, brokerVars, streamVars, Listening, SentinelsArrive
<1>7. CASE StopCrawler \/ Exit \/ Kill
  BY <1>7 DEF StopCrawler, Exit, Kill, SentinelsArrive
<1>8. CASE UNCHANGED vars
  BY <1>8 DEF vars, brokerVars, streamVars, lifeVars, Listening, SentinelsArrive
<1> QED
  BY <1>1, <1>2, <1>3, <1>4, <1>5, <1>6, <1>7, <1>8 DEF Next

\* Only streams that were let in after the signal, or whose queue was full, keep the
\* server waiting without a sentinel that would end them (events.py:44, 82, main.py:49).
THEOREM OnlyLaggardsEverHold == Spec => []OnlyLaggardsHoldTheDrain
<1>1. Init => SentinelsArrive
  BY DEF Init, SentinelsArrive
<1>2. SentinelsArrive => OnlyLaggardsHoldTheDrain
  BY DEF SentinelsArrive, HasSentinel, Listening, OnlyLaggardsHoldTheDrain
<1> QED
  BY <1>1, <1>2, StepKeepsSentinels, Typed, PTL DEF Spec

-----------------------------------------------------------------------------
(* The last status of a sequence, when there is one.                       *)

LastIs(q, f) ==
    \E n \in 1..Len(q) : /\ q[n] = f
                         /\ f.kind = "status"
                         /\ \A m \in n+1..Len(q) : q[m].kind # "status"

\* A sequence with a last status holds one, and it is an event.
LEMMA LastIsHeld ==
  ASSUME NEW q \in Seq(Event), NEW f, LastIs(q, f)
  PROVE  HoldsStatus(q) /\ f \in Event /\ q # <<>>
BY DEF LastIs, HoldsStatus

\* A status at the end is the last one; anything else changes nothing.
LEMMA LastOfAppended ==
  ASSUME NEW q \in Seq(Event), NEW event \in Event
  PROVE  /\ event.kind = "status" =>
               /\ HoldsStatus(Append(q, event))
               /\ \A f : LastIs(Append(q, event), f) => f = event
         /\ event.kind # "status" =>
               /\ HoldsStatus(Append(q, event)) <=> HoldsStatus(q)
               /\ \A f : LastIs(Append(q, event), f) => LastIs(q, f)
<1> DEFINE p == Append(q, event)
<1>1. /\ p \in Seq(Event) /\ Len(p) = Len(q) + 1 /\ Len(q) \in Nat
      /\ \A n \in 1..Len(q) : p[n] = q[n]
      /\ p[Len(q) + 1] = event
  BY Appended
<1> HIDE DEF p
<1>2. ASSUME event.kind = "status"
      PROVE  HoldsStatus(p) /\ \A f : LastIs(p, f) => f = event
  <2>1. Len(q) + 1 \in 1..Len(p)
    BY <1>1
  <2>2. HoldsStatus(p)
    BY <1>1, <1>2, <2>1 DEF HoldsStatus
  <2>3. ASSUME NEW f, LastIs(p, f)
        PROVE  f = event
    <3> PICK n \in 1..Len(p) : p[n] = f /\ \A m \in n+1..Len(p) : p[m].kind # "status"
      BY <2>3 DEF LastIs
    <3>1. n = Len(p)
      BY <1>1, <1>2
    <3> QED
      BY <1>1, <3>1
  <2> QED
    BY <2>2, <2>3
<1>3. ASSUME event.kind # "status"
      PROVE  /\ HoldsStatus(p) <=> HoldsStatus(q)
             /\ \A f : LastIs(p, f) => LastIs(q, f)
  <2>1. HoldsStatus(p) <=> HoldsStatus(q)
    BY <1>1, <1>3 DEF HoldsStatus
  <2>2. ASSUME NEW f, LastIs(p, f)
        PROVE  LastIs(q, f)
    <3> PICK n \in 1..Len(p) : /\ p[n] = f /\ f.kind = "status"
                               /\ \A m \in n+1..Len(p) : p[m].kind # "status"
      BY <2>2 DEF LastIs
    <3>1. n \in 1..Len(q) /\ q[n] = f
      BY <1>1, <1>3
    <3>2. \A m \in n+1..Len(q) : q[m].kind # "status"
      BY <1>1
    <3> QED
      BY <3>1, <3>2 DEF LastIs
  <2> QED
    BY <2>1, <2>2
<1> QED
  BY <1>2, <1>3 DEF p

\* Without its head a sequence has the last status it had, if any is left; if not, that was
\* the head.
LEMMA LastOfTail ==
  ASSUME NEW q \in Seq(Event), q # <<>>
  PROVE  /\ \A f : LastIs(Tail(q), f) => LastIs(q, f)
         /\ HoldsStatus(Tail(q)) => HoldsStatus(q)
         /\ ~ HoldsStatus(Tail(q)) /\ Head(q).kind = "status" => LastIs(q, Head(q))
         /\ Head(q).kind # "status" => (HoldsStatus(q) <=> HoldsStatus(Tail(q)))
<1> DEFINE p == Tail(q)
<1>1. /\ p \in Seq(Event) /\ Len(p) = Len(q) - 1 /\ Len(q) \in Nat \ {0}
      /\ \A n \in 1..Len(q) - 1 : p[n] = q[n + 1]
      /\ Head(q) = q[1]
  BY HeadAndTail
<1> HIDE DEF p
<1>2. \A n \in 2..Len(q) : n - 1 \in 1..Len(p) /\ p[n - 1] = q[n]
  BY <1>1
<1>3. ASSUME NEW f, LastIs(p, f)
      PROVE  LastIs(q, f)
  <2> PICK n \in 1..Len(p) : /\ p[n] = f /\ f.kind = "status"
                             /\ \A m \in n+1..Len(p) : p[m].kind # "status"
    BY <1>3 DEF LastIs
  <2>1. n + 1 \in 1..Len(q) /\ q[n + 1] = f
    BY <1>1
  <2>2. ASSUME NEW m \in (n+1)+1..Len(q)
        PROVE  q[m].kind # "status"
    BY <1>1, <1>2
  <2> QED
    BY <2>1, <2>2 DEF LastIs
<1>4. HoldsStatus(p) => HoldsStatus(q)
  BY <1>1 DEF HoldsStatus
<1>5. ASSUME ~ HoldsStatus(p), Head(q).kind = "status"
      PROVE  LastIs(q, Head(q))
  <2>1. \A m \in 1+1..Len(q) : q[m].kind # "status"
    BY <1>2, <1>5 DEF HoldsStatus
  <2> QED
    BY <1>1, <1>5, <2>1 DEF LastIs
<1>6. ASSUME Head(q).kind # "status", HoldsStatus(q)
      PROVE  HoldsStatus(p)
  BY <1>1, <1>2, <1>6 DEF HoldsStatus
<1> QED
  BY <1>3, <1>4, <1>5, <1>6 DEF p

\* A status that is put into a queue is the last one; anything else leaves the last one,
\* or pushes it out.
LEMMA LastOfPut ==
  ASSUME NEW q \in Seq(Event), NEW event \in Event, Len(q) <= QueueMaxsize
  PROVE  /\ event.kind = "status" =>
               /\ HoldsStatus(Put(q, event))
               /\ \A f : LastIs(Put(q, event), f) => f = event
         /\ event.kind # "status" => \A f : LastIs(Put(q, event), f) => LastIs(q, f)
<1>1. CASE Len(q) < QueueMaxsize
  BY <1>1, LastOfAppended DEF Put
<1>2. CASE ~ (Len(q) < QueueMaxsize)
  <2>1. q # <<>>
    BY <1>2, Sizes
  <2>2. Tail(q) \in Seq(Event) /\ Put(q, event) = Append(Tail(q), event)
    BY <1>2, <2>1, HeadAndTail DEF Put
  <2>3. ASSUME event.kind = "status"
        PROVE  HoldsStatus(Put(q, event)) /\ \A f : LastIs(Put(q, event), f) => f = event
    BY <2>2, <2>3, LastOfAppended
  <2>4. ASSUME event.kind # "status", NEW f, LastIs(Put(q, event), f)
        PROVE  LastIs(q, f)
    <3>1. LastIs(Tail(q), f)
      BY <2>2, <2>4, LastOfAppended
    <3> QED
      BY <2>1, <3>1, LastOfTail
  <2> QED
    BY <2>3, <2>4
<1> QED
  BY <1>1, <1>2

-----------------------------------------------------------------------------
(* The last word.  A status frame is right once its author has finished    *)
(* with it, and wherever a stream may take its last status from, that one  *)
(* is right: the fan-outs scheduled, then its queue, then what it shows.   *)

Right(f) ==
    /\ f.by \in {"crawler", "prime"} /\ crawler.at \notin {"set", "publishing"}
          => f.status = status
    /\ f.by \in {"operator", "prime"} /\ operator.at = "idle" => f.paused = paused

FramesRight ==
    /\ crawler.at = "publishing" =>
          /\ crawler.frame.kind = "status"
          /\ crawler.frame.by = "crawler"
          /\ crawler.frame.status = status
    /\ operator.at = "publishing" =>
          /\ operator.frame.kind = "status"
          /\ operator.frame.by = "operator"
          /\ operator.frame.paused = paused

ListenersSubscribed == \A s \in Stream : Listening(s) => s \in subscribers

ReadyRight == \A f : LastIs(ready, f) => Right(f)

QueuesRight ==
    ~ HoldsStatus(ready) =>
        \A s \in Stream : Listening(s) => \A f : LastIs(queue[s], f) => Right(f)

ShownRight ==
    ~ HoldsStatus(ready) =>
        \A s \in Stream \ lost :
            stream[s] = "open" /\ ~ HoldsStatus(queue[s]) => Right(shown[s])

WordsRight ==
    /\ FramesRight
    /\ ListenersSubscribed
    /\ ~ behind => ReadyRight /\ QueuesRight /\ ShownRight

\* Nothing changes for the listeners while what is right stays so and no status is
\* scheduled or forgotten.
LEMMA WordsStay ==
  ASSUME WordsRight, FramesRight',
         \A f : Right(f) => Right(f)',
         ~ behind' => ~ behind,
         \A f : LastIs(ready', f) => LastIs(ready, f),
         HoldsStatus(ready) <=> HoldsStatus(ready'),
         UNCHANGED <<subscribers, queue, stream, shown, lost>>
  PROVE  WordsRight'
<1>1. ListenersSubscribed'
  BY DEF WordsRight, ListenersSubscribed, Listening
<1>2. ASSUME ~ behind'
      PROVE  ReadyRight' /\ QueuesRight' /\ ShownRight'
  <2>1. ReadyRight /\ QueuesRight /\ ShownRight
    BY <1>2 DEF WordsRight
  <2>2. ReadyRight'
    BY <2>1 DEF ReadyRight
  <2>3. QueuesRight'
    BY <2>1 DEF QueuesRight, Listening
  <2>4. ShownRight'
    BY <2>1 DEF ShownRight
  <2> QED
    BY <2>2, <2>3, <2>4
<1> QED
  BY <1>1, <1>2 DEF WordsRight

\* An event without a status may be published at any time.
LEMMA OthersPublished ==
  ASSUME BrokerTypeOK, NEW event \in Event, event.kind # "status", Publish(event)
  PROVE  /\ ~ behind' => ~ behind
         /\ \A f : LastIs(ready', f) => LastIs(ready, f)
         /\ HoldsStatus(ready) <=> HoldsStatus(ready')
<1>1. ready \in Seq(Event)
  BY DEF BrokerTypeOK
<1>2. ~ behind' => ~ behind
  BY Zenon DEF Publish
<1>3. ready' = ready \/ ready' = Append(ready, event)
  BY DEF Publish
<1>4. /\ HoldsStatus(Append(ready, event)) <=> HoldsStatus(ready)
      /\ \A f : LastIs(Append(ready, event), f) => LastIs(ready, f)
  BY <1>1, LastOfAppended
<1>5. /\ \A f : LastIs(ready', f) => LastIs(ready, f)
      /\ HoldsStatus(ready) <=> HoldsStatus(ready')
  BY <1>3, <1>4
<1> QED
  BY <1>2, <1>5

\* A status that is right once it is published leaves the listeners with nothing else.
LEMMA StatusPublished ==
  ASSUME BrokerTypeOK, WordsRight, NEW event \in Event, event.kind = "status", Publish(event),
         Right(event)', FramesRight',
         UNCHANGED <<subscribers, queue, stream, shown, lost>>
  PROVE  WordsRight'
<1>1. ready \in Seq(Event)
  BY DEF BrokerTypeOK
<1>2. ListenersSubscribed'
  BY DEF WordsRight, ListenersSubscribed, Listening
<1>3. CASE subscribers = {}
  <2>1. \A s \in Stream : ~ Listening(s)'
    BY <1>2, <1>3 DEF ListenersSubscribed
  <2>2. QueuesRight' /\ ShownRight'
    BY <2>1 DEF QueuesRight, ShownRight, Listening
  <2>3. ~ behind' => ~ HoldsStatus(ready) /\ ready' = ready
    BY <1>3 DEF Publish
  <2>4. ~ behind' => ReadyRight'
    BY <1>1, <2>3, LastIsHeld DEF ReadyRight
  <2> QED
    BY <1>2, <2>2, <2>4 DEF WordsRight
<1>4. CASE subscribers # {}
  <2>1. ready' = Append(ready, event)
    BY <1>4 DEF Publish
  <2>2. HoldsStatus(ready') /\ \A f : LastIs(ready', f) => f = event
    BY <1>1, <2>1, LastOfAppended
  <2>3. ReadyRight' /\ QueuesRight' /\ ShownRight'
    BY <2>2 DEF ReadyRight, QueuesRight, ShownRight
  <2> QED
    BY <1>2, <2>3 DEF WordsRight
<1> QED
  BY <1>3, <1>4

\* The crawler's steps: the status it has just set is on its way.
LEMMA CrawlerWordsRight ==
  ASSUME BrokerTypeOK, WordsRight, BeginIteration \/ CrawlerStep
  PROVE  WordsRight'
<1>1. FramesRight
  BY DEF WordsRight
<1>2. CASE \E st \in Status : SetStatus(st)
  <2> PICK st \in Status : SetStatus(st)
    BY <1>2
  <2>1. /\ crawler.at \in {"looked", "synced", "blocked"}
        /\ UNCHANGED <<paused, operator, brokerVars, streamVars>>
    BY DEF SetStatus, MayTake
  <2>2. /\ status' = st
        /\ \/ st = status /\ crawler'.at = GoOn(st)
           \/ crawler'.at = "set"
    BY DEF SetStatus, BrokerTypeOK
  <2>3. crawler'.at \in {"free", "probing", "syncing", "set"}
    BY <2>2 DEF GoOn
  <2>4. FramesRight'
    BY <1>1, <2>1, <2>3 DEF FramesRight
  <2>5. ASSUME NEW f, Right(f)
        PROVE  Right(f)'
    BY <2>1, <2>2, <2>5 DEF Right
  <2> QED
    BY <2>1, <2>4, <2>5, WordsStay DEF brokerVars, streamVars
<1>3. CASE ReadPaused
  <2>1. /\ crawler.at = "set" /\ crawler'.at = "publishing"
        /\ UNCHANGED <<status, paused, operator, brokerVars, streamVars>>
    BY <1>3 DEF ReadPaused
  <2>2. crawler'.frame = StatusFrame("crawler", status, paused)
    BY <1>3 DEF ReadPaused
  <2>3. FramesRight'
    BY <1>1, <2>1, <2>2, FramesAreEvents DEF FramesRight, BrokerTypeOK, Author
  <2>4. ASSUME NEW f, Right(f)
        PROVE  Right(f)'
    BY <2>1, <2>4 DEF Right
  <2> QED
    BY <2>1, <2>3, <2>4, WordsStay DEF brokerVars, streamVars
<1>4. CASE CrawlerPublishes
  <2>1. /\ crawler.at = "publishing" /\ crawler'.at \in {"free", "probing", "syncing"}
        /\ Publish(crawler.frame) /\ crawler.frame \in Event
        /\ UNCHANGED <<status, paused, operator, subscribers, queue, streamVars>>
    BY <1>4 DEF CrawlerPublishes, GoOn, BrokerTypeOK
  <2>2. FramesRight'
    BY <1>1, <2>1 DEF FramesRight
  <2> PICK event \in Event : event = crawler.frame
    BY <2>1
  <2>3. event.kind = "status" /\ Right(event)'
    BY <1>1, <2>1 DEF FramesRight, Right
  <2> QED
    BY <2>1, <2>2, <2>3, StatusPublished DEF streamVars
<1>5. CASE EndSync \/ EndProbe
  <2>1. /\ crawler.at \in {"syncing", "probing"} /\ crawler'.at \in {"synced", "free", "blocked"}
        /\ Publish(Dirty) \/ UNCHANGED <<ready, behind>>
        /\ UNCHANGED <<status, paused, operator, subscribers, queue, streamVars>>
    BY <1>5 DEF EndSync, EndProbe, EndOf, BrokerTypeOK
  <2>2. FramesRight'
    BY <1>1, <2>1 DEF FramesRight
  <2>3. ASSUME NEW f, Right(f)
        PROVE  Right(f)'
    BY <2>1, <2>3 DEF Right
  <2>4. /\ ~ behind' => ~ behind
        /\ \A f : LastIs(ready', f) => LastIs(ready, f)
        /\ HoldsStatus(ready) <=> HoldsStatus(ready')
    BY <2>1, FramesAreEvents, OthersPublished
  <2> QED
    BY <2>1, <2>2, <2>3, <2>4, WordsStay DEF streamVars
<1>6. CASE BeginIteration \/ IterationFails
  <2>1. /\ crawler.at \in {"free", "looked", "synced"} /\ crawler'.at \in {"looked", "free"}
        /\ UNCHANGED <<status, paused, operator, ready, behind, subscribers, queue, stream, shown,
                       lost>>
    BY <1>6 DEF BeginIteration, IterationFails, BrokerTypeOK, brokerVars, streamVars
  <2>2. FramesRight'
    BY <1>1, <2>1 DEF FramesRight
  <2>3. ASSUME NEW f, Right(f)
        PROVE  Right(f)'
    BY <2>1, <2>3 DEF Right
  <2> QED
    BY <2>1, <2>2, <2>3, WordsStay
<1> QED
  BY <1>2, <1>3, <1>4, <1>5, <1>6 DEF CrawlerStep

\* The operator's: so is the setting.
LEMMA OperatorWordsRight ==
  ASSUME BrokerTypeOK, WordsRight, StoreSetting \/ OperatorGoesOn
  PROVE  WordsRight'
<1>1. FramesRight
  BY DEF WordsRight
<1>2. CASE StoreSetting
  <2>1. /\ operator.at = "idle" /\ operator'.at = "stored"
        /\ UNCHANGED <<status, crawler, brokerVars, streamVars>>
    BY <1>2 DEF StoreSetting, LoopFree, BrokerTypeOK
  <2>2. FramesRight'
    BY <1>1, <2>1 DEF FramesRight
  <2>3. ASSUME NEW f, Right(f)
        PROVE  Right(f)'
    BY <2>1, <2>3 DEF Right
  <2> QED
    BY <2>1, <2>2, <2>3, WordsStay DEF brokerVars, streamVars
<1>3. CASE TakeSnapshot
  <2>1. /\ operator.at = "stored" /\ operator'.at = "publishing"
        /\ UNCHANGED <<status, paused, crawler, brokerVars, streamVars>>
    BY <1>3 DEF TakeSnapshot
  <2>2. operator'.frame = StatusFrame("operator", status, paused)
    BY <1>3 DEF TakeSnapshot
  <2>3. FramesRight'
    BY <1>1, <2>1, <2>2, FramesAreEvents DEF FramesRight, BrokerTypeOK, Author
  <2>4. ASSUME NEW f, Right(f)
        PROVE  Right(f)'
    BY <2>1, <2>4 DEF Right
  <2> QED
    BY <2>1, <2>3, <2>4, WordsStay DEF brokerVars, streamVars
<1>4. CASE PublishSnapshot
  <2>1. /\ operator.at = "publishing" /\ operator'.at = "idle"
        /\ Publish(operator.frame) /\ operator.frame \in Event
        /\ UNCHANGED <<status, paused, crawler, subscribers, queue, streamVars>>
    BY <1>4 DEF PublishSnapshot, BrokerTypeOK
  <2>2. FramesRight'
    BY <1>1, <2>1 DEF FramesRight
  <2> PICK event \in Event : event = operator.frame
    BY <2>1
  <2>3. event.kind = "status" /\ Right(event)'
    BY <1>1, <2>1 DEF FramesRight, Right
  <2> QED
    BY <2>1, <2>2, <2>3, StatusPublished DEF streamVars
<1> QED
  BY <1>2, <1>3, <1>4 DEF OperatorGoesOn

\* The broker's: a status goes from the fan-outs to the queue of each listener.
LEMMA FanOutWordsRight ==
  ASSUME BrokerTypeOK, WordsRight, FanOut
  PROVE  WordsRight'
<1> DEFINE event == Head(ready)
<1>1. /\ ready \in Seq(Event) /\ ready # <<>> /\ event \in Event
      /\ ready' = Tail(ready)
      /\ UNCHANGED <<status, paused, crawler, operator, behind, subscribers, stream, shown>>
  BY HeadAndTail DEF FanOut, BrokerTypeOK
<1>2. ASSUME NEW s \in Stream
      PROVE  /\ queue[s] \in Seq(Event) /\ Len(queue[s]) <= QueueMaxsize
             /\ Listening(s) => queue'[s] = Put(queue[s], event)
  BY DEF FanOut, BrokerTypeOK
<1>3. \A s \in Stream : ~ HoldsStatus(queue'[s]) /\ s \notin lost'
                           => s \notin lost /\ ~ HoldsStatus(queue[s])
  BY DEF FanOut
<1> HIDE DEF event
<1>4. FramesRight' /\ ListenersSubscribed'
  BY <1>1 DEF WordsRight, FramesRight, ListenersSubscribed, Listening
<1>5. ASSUME NEW f, Right(f)
      PROVE  Right(f)'
  BY <1>1, <1>5 DEF Right
<1>6. /\ \A f : LastIs(ready', f) => LastIs(ready, f)
      /\ ~ HoldsStatus(ready') /\ event.kind = "status" => LastIs(ready, event)
      /\ event.kind # "status" => (HoldsStatus(ready) <=> HoldsStatus(ready'))
  BY <1>1, LastOfTail DEF event
<1>7. ASSUME ~ behind'
      PROVE  ReadyRight' /\ QueuesRight' /\ ShownRight'
  <2>1. ReadyRight /\ QueuesRight /\ ShownRight
    BY <1>1, <1>7 DEF WordsRight
  <2>2. ReadyRight'
    BY <1>5, <1>6, <2>1 DEF ReadyRight
  <2>3. ASSUME ~ HoldsStatus(ready'), NEW s \in Stream, Listening(s)', NEW f, LastIs(queue'[s], f)
        PROVE  Right(f)
    <3>1. Listening(s) /\ queue'[s] = Put(queue[s], event)
      BY <1>1, <1>2, <2>3 DEF Listening
    <3>2. CASE event.kind = "status"
      <4>1. f = event
        BY <1>1, <1>2, <2>3, <3>1, <3>2, LastOfPut
      <4> QED
        BY <1>6, <2>1, <2>3, <3>2, <4>1 DEF ReadyRight
    <3>3. CASE event.kind # "status"
      <4>1. LastIs(queue[s], f)
        BY <1>1, <1>2, <2>3, <3>1, <3>3, LastOfPut
      <4> QED
        BY <1>6, <2>1, <2>3, <3>1, <3>3, <4>1 DEF QueuesRight
    <3> QED
      BY <3>2, <3>3
  <2>4. QueuesRight'
    BY <1>5, <2>3 DEF QueuesRight
  <2>5. ASSUME ~ HoldsStatus(ready'), NEW s \in Stream \ lost', stream'[s] = "open",
               ~ HoldsStatus(queue'[s])
        PROVE  Right(shown[s])
    <3>1. Listening(s) /\ queue'[s] = Put(queue[s], event) /\ stream[s] = "open"
      BY <1>1, <1>2, <2>5 DEF Listening
    <3>2. event.kind # "status"
      BY <1>1, <1>2, <2>5, <3>1, LastOfPut
    <3>3. s \notin lost /\ ~ HoldsStatus(queue[s])
      BY <1>3, <2>5
    <3> QED
      BY <1>6, <2>1, <2>5, <3>1, <3>2, <3>3 DEF ShownRight
  <2>6. ASSUME ~ HoldsStatus(ready'), NEW s \in Stream \ lost', stream'[s] = "open",
               ~ HoldsStatus(queue'[s])
        PROVE  Right(shown[s])'
    <3> PICK f : f = shown[s]
      OBVIOUS
    <3>1. Right(f)'
      BY <1>5, <2>5, <2>6
    <3> QED
      BY <1>1, <3>1
  <2>7. ShownRight'
    BY <2>6 DEF ShownRight
  <2> QED
    BY <2>2, <2>4, <2>7
<1> QED
  BY <1>4, <1>7 DEF WordsRight

\* A stream takes its last word from the queue, or begins with one of its own.
LEMMA StreamWordsRight ==
  ASSUME BrokerTypeOK, WordsRight, NEW s \in Stream, Connect(s) \/ StreamStep(s)
  PROVE  WordsRight'
<1>1. /\ UNCHANGED <<status, paused, crawler, operator, ready, behind>>
      /\ operator.at = "idle"
  BY DEF Connect, StreamStep, Prime, Abandon, Close, Leave, Deliver, brokerVars, LoopFree
<1>2. FramesRight' /\ ReadyRight' = ReadyRight
  BY <1>1 DEF WordsRight, FramesRight, ReadyRight, Right
<1>3. ASSUME NEW f, Right(f)
      PROVE  Right(f)'
  BY <1>1, <1>3 DEF Right
<1>4. \A u \in Stream \ {s} :
         /\ queue'[u] = queue[u] /\ stream'[u] = stream[u] /\ shown'[u] = shown[u]
         /\ u \in lost <=> u \in lost'
         /\ u \in subscribers <=> u \in subscribers'
  BY DEF Connect, StreamStep, Prime, Abandon, Close, Leave, Deliver, brokerVars, BrokerTypeOK
<1>5. /\ Listening(s)' => s \in subscribers'
      /\ ~ behind /\ ~ HoldsStatus(ready) /\ Listening(s)'
            => \A f : LastIs(queue'[s], f) => Right(f)
      /\ ~ behind /\ ~ HoldsStatus(ready) /\ stream'[s] = "open" /\ s \notin lost'
               /\ ~ HoldsStatus(queue'[s])
            => Right(shown'[s])
  <2>1. CASE Connect(s)
    <3>1. queue'[s] = <<>> /\ stream'[s] = "accepted" /\ s \in subscribers'
      BY <2>1 DEF Connect, BrokerTypeOK
    <3> QED
      BY <3>1 DEF LastIs
  <2>2. CASE Prime(s)
    <3>1. /\ stream[s] = "accepted" /\ queue' = queue /\ subscribers' = subscribers
          /\ shown'[s] = StatusFrame("prime", status, paused)
      BY <2>2 DEF Prime, BrokerTypeOK, brokerVars
    <3>2. Right(shown'[s])
      BY <3>1, FramesAreEvents DEF Right, BrokerTypeOK, Author
    <3> QED
      BY <3>1, <3>2 DEF WordsRight, ListenersSubscribed, QueuesRight, Listening
  <2>3. CASE Abandon(s) \/ Close(s)
    <3>1. stream'[s] \in {"abandoned", "gone"}
      BY <2>3 DEF Abandon, Close, Leave, BrokerTypeOK
    <3> QED
      BY <3>1 DEF Listening
  <2>4. CASE Deliver(s)
    <3>1. /\ stream[s] = "open" /\ stream' = stream /\ subscribers' = subscribers
          /\ lost' = lost
          /\ queue[s] # <<>> /\ queue[s] \in Seq(Event) /\ queue'[s] = Tail(queue[s])
          /\ shown'[s] = IF Head(queue[s]).kind = "status" THEN Head(queue[s]) ELSE shown[s]
      BY <2>4 DEF Deliver, BrokerTypeOK
    <3>2. Listening(s) /\ s \in subscribers'
      BY <3>1 DEF WordsRight, ListenersSubscribed, Listening
    <3>3. ASSUME ~ behind, ~ HoldsStatus(ready)
          PROVE  /\ \A f : LastIs(queue'[s], f) => Right(f)
                 /\ s \notin lost' /\ ~ HoldsStatus(queue'[s]) => Right(shown'[s])
      <4>1. \A f : LastIs(queue[s], f) => Right(f)
        BY <3>2, <3>3 DEF WordsRight, QueuesRight
      <4>2. \A f : LastIs(queue'[s], f) => LastIs(queue[s], f)
        BY <3>1, LastOfTail
      <4>3. CASE Head(queue[s]).kind = "status"
        BY <3>1, <4>1, <4>2, <4>3, LastOfTail
      <4>4. CASE Head(queue[s]).kind # "status"
        BY <3>1, <3>3, <4>1, <4>2, <4>4, LastOfTail DEF WordsRight, ShownRight
      <4> QED
        BY <4>3, <4>4
    <3> QED
      BY <3>2, <3>3
  <2> QED
    BY <2>1, <2>2, <2>3, <2>4 DEF StreamStep
<1>6. ListenersSubscribed'
  BY <1>4, <1>5 DEF WordsRight, ListenersSubscribed, Listening
<1>7. ASSUME ~ behind'
      PROVE  ReadyRight' /\ QueuesRight' /\ ShownRight'
  <2>1. ~ behind /\ ReadyRight /\ QueuesRight /\ ShownRight
    BY <1>1, <1>7 DEF WordsRight
  <2>2. ASSUME ~ HoldsStatus(ready'), NEW u \in Stream, Listening(u)', NEW f, LastIs(queue'[u], f)
        PROVE  Right(f)'
    BY <1>1, <1>3, <1>4, <1>5, <2>1, <2>2 DEF QueuesRight, Listening
  <2>3. ASSUME ~ HoldsStatus(ready'), NEW u \in Stream \ lost', stream'[u] = "open",
               ~ HoldsStatus(queue'[u])
        PROVE  Right(shown'[u])
    BY <1>1, <1>4, <1>5, <2>1, <2>3 DEF ShownRight
  <2>4. ASSUME ~ HoldsStatus(ready'), NEW u \in Stream \ lost', stream'[u] = "open",
               ~ HoldsStatus(queue'[u])
        PROVE  Right(shown[u])'
    BY <1>1, <2>3, <2>4 DEF Right
  <2> QED
    BY <1>2, <2>1, <2>2, <2>4 DEF QueuesRight, ShownRight
<1> QED
  BY <1>2, <1>6, <1>7 DEF WordsRight

\* Every step, those of the shutdown included.
LEMMA StepWordsRight ==
  ASSUME BrokerTypeOK, WordsRight, [Next]_vars
  PROVE  WordsRight'
<1>1. CASE LoopStep
  BY <1>1, FanOutWordsRight, OperatorWordsRight, StreamWordsRight DEF LoopStep
<1>2. CASE \E s \in Stream : Arrive(s)
  BY <1>2, StreamWordsRight DEF Arrive
<1>3. CASE Command
  BY <1>3, OperatorWordsRight DEF Command
<1>4. CASE Work
  BY <1>4, CrawlerWordsRight DEF Work
<1>5. CASE LeaveLoop
  <2>1. /\ crawler.at = "free" /\ crawler'.at = "exited"
        /\ UNCHANGED <<status, paused, operator, ready, behind, subscribers, queue, stream, shown,
                       lost>>
    BY <1>5 DEF LeaveLoop, BrokerTypeOK, brokerVars, streamVars
  <2>2. FramesRight'
    BY <2>1 DEF WordsRight, FramesRight
  <2>3. ASSUME NEW f, Right(f)
        PROVE  Right(f)'
    BY <2>1, <2>3 DEF Right
  <2> QED
    BY <2>1, <2>2, <2>3, WordsStay
<1>6. CASE Signal
  <2>1. UNCHANGED <<status, paused, crawler, operator, ready, behind, subscribers, stream, shown,
                    lost>>
    BY <1>6 DEF Signal, streamVars
  <2>2. ASSUME NEW s \in Stream
        PROVE  /\ HoldsStatus(queue'[s]) <=> HoldsStatus(queue[s])
               /\ \A f : LastIs(queue'[s], f) => LastIs(queue[s], f)
    <3>1. queue[s] \in Seq(Event) /\ (queue'[s] = queue[s] \/ queue'[s] = Append(queue[s], SHUTDOWN))
      BY <1>6 DEF Signal, TellAll, BrokerTypeOK
    <3>2. /\ HoldsStatus(Append(queue[s], SHUTDOWN)) <=> HoldsStatus(queue[s])
          /\ \A f : LastIs(Append(queue[s], SHUTDOWN), f) => LastIs(queue[s], f)
      BY <3>1, LastOfAppended, FramesAreEvents
    <3> QED
      BY <3>1, <3>2
  <2>3. FramesRight' /\ ListenersSubscribed' /\ (ReadyRight => ReadyRight')
    BY <2>1 DEF WordsRight, FramesRight, ListenersSubscribed, Listening, ReadyRight, Right
  <2>4. QueuesRight => QueuesRight'
    BY <2>1, <2>2 DEF QueuesRight, Listening, Right
  <2>5. ShownRight => ShownRight'
    BY <2>1, <2>2 DEF ShownRight, Right
  <2> QED
    BY <2>1, <2>3, <2>4, <2>5 DEF WordsRight
<1>7. CASE StopCrawler
  <2>1. /\ UNCHANGED <<status, paused, crawler, operator>>
        /\ ready' = <<>>
        /\ \A s \in Stream : stream'[s] = "gone"
    BY <1>7 DEF StopCrawler, BrokerRests
  <2>2. FramesRight' /\ ListenersSubscribed'
    BY <2>1 DEF WordsRight, FramesRight, ListenersSubscribed, Listening
  <2>3. ReadyRight' /\ QueuesRight' /\ ShownRight'
    BY <2>1 DEF ReadyRight, LastIs, QueuesRight, ShownRight, Listening
  <2> QED
    BY <2>2, <2>3 DEF WordsRight
<1>8. CASE CloseSockets \/ Exit \/ Kill \/ Tick \/ UNCHANGED vars
  <2>1. UNCHANGED <<status, paused, crawler, operator, ready, behind, subscribers, queue, stream,
                    shown, lost>>
    BY <1>8 DEF CloseSockets, Exit, Kill, Tick, vars, brokerVars, streamVars
  <2>2. FramesRight'
    BY <2>1 DEF WordsRight, FramesRight
  <2>3. ASSUME NEW f, Right(f)
        PROVE  Right(f)'
    BY <2>1, <2>3 DEF Right
  <2> QED
    BY <2>1, <2>2, <2>3, WordsStay
<1> QED
  BY <1>1, <1>2, <1>3, <1>4, <1>5, <1>6, <1>7, <1>8 DEF Next

\* What the last word of a stream says of what its author knows is true once everything
\* that is on its way has arrived, for any number of streams and however short the queues
\* (events.py:64, 82, worker.py:85, 241, admin.py:35).
THEOREM LastWordAlwaysRight == Spec => []LastWordIsRight
<1>1. Init => WordsRight
  BY DEF Init, BrokerInit, WordsRight, FramesRight, ListenersSubscribed, Listening, ReadyRight,
         LastIs, QueuesRight, ShownRight
<1>2. WordsRight => LastWordIsRight
  BY DEF WordsRight, ShownRight, Right, LastWordIsRight, Settled
<1> QED
  BY <1>1, <1>2, StepWordsRight, Typed, PTL DEF Spec

=============================================================================
