---------------------------- MODULE ProbeWorker -----------------------------
(***************************************************************************)
(* The crawler thread's probing of one title at a time                     *)
(* (src/app/crawler/worker.py): choose a row that is due, ask the provider *)
(* about the title, store the tracks found, mark the row.                  *)
(*                                                                         *)
(* Choosing reads committed rows only; the answer arrives after an await;  *)
(* the tracks and the row are written in separate transactions, the second *)
(* after reading the attempts so far.  Between any two of these steps the  *)
(* event-loop thread may commit what it likes.                             *)
(***************************************************************************)
EXTENDS CatalogDb, ProbeOutcomes

CONSTANTS
    FfprobeModes,  \* the values ffprobe.enabled takes: a set of BOOLEANs
    NoTitle        \* the title of a job that is idle

ASSUME FfprobeAssumption == FfprobeModes \subseteq BOOLEAN
ASSUME NoTitleAssumption == NoTitle \notin Item

VARIABLES
    job,      \* the probe under way
    lastKind  \* _last_probed_kind: the kind probed last ("none" at first)

workerVars == <<job, lastKind>>

JobPhase == {"idle", "picked", "fetching", "fetched", "stored", "marking"}

\* allow is allow_ffprobe; version the title the answer is about; attempts
\* what _mark_probe is going to write.
Job == [phase : JobPhase, title : Probed \union {NoTitle}, allow : BOOLEAN,
        outcome : Outcome, version : 0..MaxVersion, attempts : 0..MaxRetries]
IdleJob == [phase |-> "idle", title |-> NoTitle, allow |-> FALSE,
            outcome |-> "none", version |-> 0, attempts |-> 0]

WorkerTypeOK ==
    /\ job \in Job
    /\ job.phase # "idle" => job.title \in Probed
    /\ lastKind \in ProbedKind \union {"none"}

WorkerInit == job = IdleJob /\ lastKind = "none"

-----------------------------------------------------------------------------
(* _next_pending_item.  gated: the slot is busy or the ffprobe cooldown is  *)
(* running, so that only fresh rows are offered.                            *)

\* Fault: a parked error is offered because its next_try is NULL.
EligibleAlsoParked(i, gated) ==
    /\ probe[i].status \in IF gated THEN {"pending"}
                                    ELSE {"pending", "deferred", "error"}
    /\ probe[i].next # "later"
    /\ items[i].state = "listed"

Eligible(i, gated) ==
    /\ probe[i].status \in IF gated THEN {"pending"}
                                    ELSE {"pending", "deferred", "error"}
    /\ probe[i].status # "error" \/ probe[i].next # "null"
    /\ probe[i].next # "later"
    /\ items[i].state = "listed"

EligibleOf(kind, gated) == {i \in Probed : KindOf(i) = kind /\ Eligible(i, gated)}

\* Pending rows come first; the order among them and among the others
\* (priority, next_try) is left open.
Candidates(kind, gated) ==
    LET eligible == EligibleOf(kind, gated)
        pending == {i \in eligible : probe[i].status = "pending"}
    IN  IF pending # {} THEN pending ELSE eligible

\* Fault: the kinds do not take turns.
NextKindAlwaysVod == "vod"

\* The kind whose turn it is, when both have a candidate.
NextKind == IF lastKind = "vod" THEN "series" ELSE "vod"

Pick(i, gated) ==
    LET kind == KindOf(i)
    IN  /\ job.phase = "idle"
        /\ i \in Candidates(kind, gated)
        /\ \/ kind = NextKind
           \/ Candidates(NextKind, gated) = {}
        /\ job' = [job EXCEPT !.phase = "picked", !.title = i]
        /\ lastKind' = kind
        /\ UNCHANGED dbVars

\* _probe_item reads the status again to decide whether ffprobe may be used.
BeginProbe ==
    /\ job.phase = "picked"
    /\ job' = [job EXCEPT
                 !.phase = "fetching",
                 !.allow = probe[job.title].status \in {"deferred", "error"}]
    /\ UNCHANGED <<dbVars, lastKind>>

\* What _fetch_tracks comes back with: one of OutcomesOf.
FetchTracks(outcome) ==
    /\ job.phase = "fetching"
    /\ job' = [job EXCEPT !.phase = "fetched", !.outcome = outcome,
                          !.version = provider[job.title].version]
    /\ UNCHANGED <<dbVars, lastKind>>

-----------------------------------------------------------------------------
(* The writes.  An UPDATE of a row that was purged meanwhile does nothing. *)

UpdateProbe(i, row) ==
    probe' = IF HasProbeRow(i) THEN [probe EXCEPT ![i] = row] ELSE probe

OneMoreAttempt(i) ==
    IF probe[i].attempts < MaxRetries THEN probe[i].attempts + 1 ELSE MaxRetries

\* Answered by the API alone, not well enough: wait for ffprobe.
DeferProbe ==
    /\ job.phase = "fetched"
    /\ job.outcome = "defer"
    /\ UpdateProbe(job.title, [probe[job.title] EXCEPT
                                 !.status = "deferred",
                                 !.attempts = OneMoreAttempt(job.title)])
    /\ job' = IdleJob
    /\ UNCHANGED <<items, tracks, overrides, noProbe, lastKind>>

\* No slot for ffprobe: push next_try back, keep everything else.
PushBack ==
    /\ job.phase = "fetched"
    /\ job.outcome = "blocked"
    /\ UpdateProbe(job.title, [probe[job.title] EXCEPT !.next = "later"])
    /\ job' = IdleJob
    /\ UNCHANGED <<items, tracks, overrides, noProbe, lastKind>>

\* Replace the rows of audio_tracks by what was found.
StoreTracks ==
    /\ job.phase = "fetched"
    /\ job.outcome \in {"tagged", "untagged"}
    /\ tracks' = [tracks EXCEPT ![job.title] =
                    [found |-> job.outcome, version |-> job.version]]
    /\ job' = [job EXCEPT !.phase = "stored"]
    /\ UNCHANGED <<items, probe, overrides, noProbe, lastKind>>

\* _mark_probe reads the attempts ...
ReadAttempts ==
    /\ \/ job.phase = "stored"
       \/ job.phase = "fetched" /\ job.outcome \in {"none", "error"}
    /\ job' = [job EXCEPT !.phase = "marking",
                          !.attempts = OneMoreAttempt(job.title)]
    /\ UNCHANGED <<dbVars, lastKind>>

\* Fault: any track makes a result a confirmed one.
MarkedRowAnyTrack(outcome, attempts) ==
    [status   |-> CASE outcome \in {"tagged", "untagged"} -> "ok"
                    [] outcome = "error" -> "error"
                    [] OTHER -> "no_audio_info",
     attempts |-> attempts,
     next     |-> IF outcome = "error" /\ attempts < MaxRetries
                  THEN "later" ELSE "null"]

\* The row _mark_probe writes for an outcome and a number of attempts.
MarkedRow(outcome, attempts) ==
    [status   |-> CASE outcome = "tagged" -> "ok"
                    [] outcome = "error"  -> "error"
                    [] OTHER              -> "no_audio_info",
     attempts |-> attempts,
     next     |-> IF outcome = "error" /\ attempts < MaxRetries
                  THEN "later" ELSE "null"]

\* ... and writes them with the status in a transaction of its own.
MarkProbe ==
    /\ job.phase = "marking"
    /\ UpdateProbe(job.title, MarkedRow(job.outcome, job.attempts))
    /\ job' = IdleJob
    /\ UNCHANGED <<items, tracks, overrides, noProbe, lastKind>>

\* The steps of a probe that is under way.
ProbeProgress ==
    \/ BeginProbe
    \/ \E ffprobe \in FfprobeModes :
            \E outcome \in OutcomesOf(ffprobe, job.allow) : FetchTracks(outcome)
    \/ DeferProbe
    \/ PushBack
    \/ StoreTracks
    \/ ReadAttempts
    \/ MarkProbe

=============================================================================
