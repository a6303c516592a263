------------------------------- MODULE Catalog ------------------------------
(***************************************************************************)
(* The catalogue as a whole: the provider changes, the crawler thread      *)
(* synchronises and probes, the operator works on the same tables from the *)
(* event-loop thread, either may fail, and the process may be restarted.   *)
(***************************************************************************)
EXTENDS CatalogSync, ProbeWorker

vars == <<provider, items, probe, tracks, overrides, noProbe, sync, job, lastKind>>

TypeOK ==
    /\ ProviderTypeOK
    /\ DbTypeOK
    /\ SyncTypeOK
    /\ WorkerTypeOK

Init ==
    /\ ProviderInit
    /\ DbInit
    /\ SyncInit
    /\ WorkerInit

-----------------------------------------------------------------------------
\* A loop iteration of the crawler does one thing at a time: it syncs, and
\* only then looks for a title to probe.
CrawlerStartsSync ==
    /\ job.phase = "idle"
    /\ StartSync("crawler")
    /\ UNCHANGED <<provider, job, lastKind>>

AdminStartsSync ==
    /\ "sync_now" \in AdminOps
    /\ StartSync("admin")
    /\ UNCHANGED <<provider, job, lastKind>>

SyncStep(p) == SyncProgress(p) /\ UNCHANGED <<provider, job, lastKind>>

SyncFetchFails(p) == FetchFails(p) /\ UNCHANGED <<provider, job, lastKind>>

CrawlerPicks ==
    /\ sync["crawler"].phase = "idle"
    /\ \E i \in Probed, gated \in BOOLEAN : Pick(i, gated)
    /\ UNCHANGED <<provider, sync>>

ProbeStep == ProbeProgress /\ UNCHANGED <<provider, sync>>

Provide == ProviderStep /\ UNCHANGED <<dbVars, sync, job, lastKind>>

Administer == AdminStep /\ UNCHANGED <<provider, sync, job, lastKind>>

TimePasses ==
    /\ \/ \E i \in Probed : BackoffElapses(i)
       \/ \E i \in Item : RetentionElapses(i)
    /\ UNCHANGED <<provider, sync, job, lastKind>>

\* An exception in a database write ends the probe, not the loop.
ProbeAborts ==
    /\ "abort" \in Faults
    /\ job.phase # "idle"
    /\ job' = IdleJob
    /\ UNCHANGED <<provider, dbVars, sync, lastKind>>

SyncAborts(p) == AbortSync(p) /\ UNCHANGED <<provider, job, lastKind>>

\* The process is killed and started again: the tables and the
\* configuration are on disk, everything else is gone.
Restart ==
    /\ "crash" \in Faults
    /\ job' = IdleJob
    /\ sync' = [p \in Syncer |-> IdleSync]
    /\ lastKind' = "none"
    /\ UNCHANGED <<provider, dbVars>>

Fault == ProbeAborts \/ (\E p \in Syncer : SyncAborts(p)) \/ Restart

\* The crawler finds nothing to do, is paused or outside its window.
CrawlerIdles ==
    /\ job.phase = "idle"
    /\ sync["crawler"].phase = "idle"
    /\ UNCHANGED vars

Next ==
    \/ CrawlerStartsSync
    \/ AdminStartsSync
    \/ \E p \in Syncer : SyncStep(p) \/ SyncFetchFails(p)
    \/ CrawlerPicks
    \/ ProbeStep
    \/ Provide
    \/ Administer
    \/ TimePasses
    \/ Fault
    \/ CrawlerIdles

Spec == Init /\ [][Next]_vars

-----------------------------------------------------------------------------
(* Fairness.  The crawler thread keeps running: what it has begun goes on   *)
(* (weak fairness); a sync falls due again and again, and so does a chance  *)
(* to probe, each only while the other is not under way (strong fairness);  *)
(* a provider asked for a kind often enough answers; time passes.             *)
CrawlerFetches(k) ==
    /\ sync["crawler"].kind = k
    /\ FetchListing("crawler")
    /\ UNCHANGED <<provider, job, lastKind>>

Fairness ==
    /\ SF_vars(CrawlerStartsSync)
    /\ WF_vars(SyncStep("crawler"))
    /\ \A k \in 1..Len(KindOrder) : SF_vars(CrawlerFetches(k))
    /\ SF_vars(CrawlerPicks)
    /\ WF_vars(ProbeStep)
    /\ WF_vars(TimePasses)

FairSpec == Spec /\ Fairness

-----------------------------------------------------------------------------
(* Safety. *)

\* A title the operator overrode with "always show" is never left out of
\* probing, whatever its category and whichever filters a sync still
\* carries (catalog.py:271, admin.py:177).
OverriddenNeverSkipped ==
    \A i \in Probed : i \in overrides => probe[i].status # "skipped"

\* An 'ok' row never has tracks without a language tag beside it: the
\* include filter would drop such a title although nothing is known about
\* its language (worker.py:565, catalog.py:39).
OkTracksCarryLanguage ==
    \A i \in Probed :
        probe[i].status = "ok" => tracks[i].found # "untagged"

\* A failed probe is scheduled again exactly until its retries are used up;
\* a parked one is not picked by accident (worker.py:468, 798).
ErrorParkedIffExhausted ==
    \A i \in Probed :
        probe[i].status = "error" =>
            (probe[i].next = "null" <=> probe[i].attempts = MaxRetries)

\* Every vod and series title of the catalogue has a row in probe_state:
\* without one nothing would ever probe it (sync.py:121, 191).
EveryTitleHasProbeRow ==
    \A i \in Probed : InCatalogue(i) => HasProbeRow(i)

\* Stored tracks belong to a title of the catalogue, and never to another
\* title that had the id before (sync.py:151, plans/mvp.md section 6.6).
FreshResults ==
    \A i \in Probed :
        tracks[i].found # "none" =>
            InCatalogue(i) /\ tracks[i].version >= items[i].version

\* A title the provider never dropped is never marked as removed: not by a
\* listing of another kind, by a listing that could not be fetched, by a sync
\* that ended half way nor by one overlapping it (sync.py:168).  Said for a
\* provider that drops nothing, so that every removal is a false one.
NoFalseRemoval ==
    "list" \notin ProviderChanges =>
        \A i \in Item : provider[i].listed => items[i].state \in {"absent", "listed"}

\* A confirmed result is given up only by queueing the title again or by
\* deleting it: no write that was under way turns 'ok' into anything else.
OkGivenUpOnlyByRequeue ==
    [][\A i \in Probed :
          probe[i].status = "ok" => probe'[i].status \in {"ok", "pending", "none"}]_vars

\* The promise about results as a notebook (ConfirmedResults): a result is known
\* while its row is 'ok', and is what audio_tracks then holds, be it nothing.
Known(i) == IF probe[i].status = "ok" THEN {tracks[i]} ELSE {}

Results == INSTANCE ConfirmedResults WITH
              Title  <- Probed,
              Result <- {found \in TrackRows : found.found # "untagged"},
              known  <- [i \in Probed |-> Known(i)],
              asking <- IF job.phase = "idle" THEN {} ELSE {job.title}

\* probe_state and audio_tracks, written one after the other by the crawler and
\* by syncs and the operator beside it, are one notebook: what lies beside an
\* 'ok' row is neither replaced nor deleted without giving up the 'ok', and a
\* result is confirmed for the title that was asked about only, if nothing was
\* known of it (worker.py:193, 573, sync.py:151).
ImplementsResults == Results!Spec

-----------------------------------------------------------------------------
(* Liveness, once the provider, the operator and the failures come to rest. *)

Regular ==
    \/ CrawlerStartsSync
    \/ \E p \in Syncer : SyncStep(p) \/ SyncFetchFails(p)
    \/ CrawlerPicks
    \/ ProbeStep
    \/ TimePasses

\* An exception with the effect of a regular step, such as one after the last
\* write, disturbs nothing.
Quiet == <>[][Provide \/ Administer \/ AdminStartsSync \/ Fault => Regular]_vars

\* The items table says of a title what the provider says.
Agrees(i) ==
    IF provider[i].listed
    THEN items[i] = [state |-> "listed", version |-> provider[i].version,
                     cat |-> provider[i].cat]
    ELSE items[i].state # "listed"

\* The catalogue catches up with the provider for good, also after syncs
\* that ended half way or overlapped (sync.py:71).
CatalogueConverges == Quiet => <>[](\A i \in Item : Agrees(i))

\* Rows are skipped exactly as the current category filters say, in the end:
\* the next sync repairs what a stale one did (catalog.py:258).
FollowsFilters(i) ==
    /\ probe[i].status = "skipped" /\ InCatalogue(i)
          => items[i].cat \in noProbe[KindOf(i)]
    /\ ~ SkippedBy(noProbe, i)

FiltersConverge == Quiet => <>[](\A i \in Probed : FollowsFilters(i))

\* No title waits for its first probe for ever (worker.py:427).
QueueDrains ==
    Quiet => <>[](\A i \in Probed :
                     ~ (items[i].state = "listed" /\ probe[i].status = "pending"))

=============================================================================
