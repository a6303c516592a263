---------------------------- MODULE CatalogProofs ---------------------------
(***************************************************************************)
(* Theorems about Catalog, for every set of titles and categories, every   *)
(* max_retries, every choice of admin operations, provider changes and     *)
(* faults.                                                                 *)
(***************************************************************************)
EXTENDS Catalog, TLAPS

-----------------------------------------------------------------------------
(* Types. *)

\* The kind of a probed title is one the category filters know.
LEMMA KindOfProbed ==
    ASSUME NEW i \in Probed
    PROVE  /\ i \in Item
           /\ KindOf(i) \in {KindOf(j) : j \in Probed}
           /\ KindOf(i) \in ProbedKind
  BY KindsDisjoint DEF Probed, Item, KindOf, ProbedKind

LEMMA RowTypes ==
    /\ NoItemRow \in ItemRow
    /\ NoProbeRow \in ProbeRow
    /\ FreshRow \in ProbeRow
    /\ NoTracks \in TrackRows
    /\ NoFilters \in CategoryFilters
    /\ NoEntry \in Entry
    /\ IdleJob \in Job
  BY MaxVersionAssumption, MaxRetriesAssumption
  DEF NoItemRow, ItemRow, NoProbeRow, ProbeRow, FreshRow, ProbeStatus, NoTracks,
      TrackRows, NoFilters, CategoryFilters, NoEntry, Entry, CatValue, IdleJob, Job,
      JobPhase, Outcome

LEMMA IdleSyncType == IdleSync \in SyncRun
  BY RowTypes DEF IdleSync, SyncRun, SyncPhase, EmptySnapshot

LEMMA RequeuedType ==
    ASSUME NEW row \in ProbeRow
    PROVE  Requeued(row) \in ProbeRow
  BY DEF Requeued, ProbeRow, ProbeStatus

LEMMA KindDoneType ==
    ASSUME NEW filters \in CategoryFilters, NEW k \in Nat
    PROVE  KindDone(filters, k) \in SyncRun
<1> DEFINE phase == IF k < Len(KindOrder) THEN "fetch" ELSE "purge"
<1>1. phase \in SyncPhase /\ k + 1 \in Nat
    BY DEF SyncPhase
<1>2. EmptySnapshot \in [Item -> Entry]
    BY RowTypes DEF EmptySnapshot
<1> HIDE DEF phase
<1>3. QED BY <1>1, <1>2 DEF KindDone, SyncRun, phase

\* Whatever filters are applied, probe_state keeps its shape.
LEMMA CategoryFiltersType ==
    ASSUME probe \in [Probed -> ProbeRow], NEW filters
    PROVE  WithCategoryFilters(filters) \in [Probed -> ProbeRow]
<1>1. SUFFICES ASSUME NEW i \in Probed
               PROVE  WithCategoryFilters(filters)[i] \in ProbeRow
    BY DEF WithCategoryFilters
<1>2. /\ [probe[i] EXCEPT !.status = "skipped"] \in ProbeRow
      /\ [probe[i] EXCEPT !.status = "pending"] \in ProbeRow
    BY DEF ProbeRow, ProbeStatus
<1>3. QED BY <1>2 DEF WithCategoryFilters

LEMMA OneMoreAttemptType ==
    ASSUME probe \in [Probed -> ProbeRow], NEW i \in Probed
    PROVE  OneMoreAttempt(i) \in 0..MaxRetries
  BY MaxRetriesAssumption DEF OneMoreAttempt, ProbeRow

LEMMA UpdateProbeType ==
    ASSUME probe \in [Probed -> ProbeRow], NEW i \in Probed, NEW row \in ProbeRow,
           UpdateProbe(i, row)
    PROVE  probe' \in [Probed -> ProbeRow]
  BY DEF UpdateProbe

-----------------------------------------------------------------------------
(* TypeOK: the steps of each group of actions. *)

LEMMA ProviderType == ProviderTypeOK /\ ProviderStep => ProviderTypeOK'
<1> SUFFICES ASSUME ProviderTypeOK, NEW i \in Item,
                    \/ Relist(i)
                    \/ Rename(i)
                    \/ \E c \in CatValue : Move(i, c)
             PROVE  ProviderTypeOK'
    BY DEF ProviderStep
<1> USE DEF ProviderTypeOK, Entry
<1>1. CASE Relist(i)
    BY <1>1 DEF Relist
<1>2. CASE Rename(i)
    BY <1>2, MaxVersionAssumption DEF Rename
<1>3. CASE \E c \in CatValue : Move(i, c)
    BY <1>3 DEF Move
<1>4. QED BY <1>1, <1>2, <1>3

LEMMA AdminType == DbTypeOK /\ AdminStep => DbTypeOK'
<1> SUFFICES ASSUME DbTypeOK, AdminStep
             PROVE  DbTypeOK'
    OBVIOUS
<1> USE DEF DbTypeOK
<1>1. CASE ResetAllProbes
    BY <1>1, RowTypes DEF ResetAllProbes
<1>2. CASE RetryErrorProbes
    BY <1>2, RowTypes DEF RetryErrorProbes
<1>3. ASSUME NEW i \in Probed, ReprobeItem(i)
      PROVE  DbTypeOK'
    BY <1>3, RowTypes, RequeuedType DEF ReprobeItem
<1>4. ASSUME NEW kind, NEW status, NEW matched, ReprobeMatching(kind, status, matched)
      PROVE  DbTypeOK'
    BY <1>4, RowTypes DEF ReprobeMatching
<1>5. ASSUME NEW i \in Item, AddOverride(i)
      PROVE  DbTypeOK'
    BY <1>5, RequeuedType DEF AddOverride
<1>6. ASSUME NEW i \in Item, RemoveOverride(i)
      PROVE  DbTypeOK'
    BY <1>6 DEF RemoveOverride
<1>7. ASSUME NEW filters \in CategoryFilters, UpdateCategoryFilters(filters)
      PROVE  DbTypeOK'
    BY <1>7, CategoryFiltersType DEF UpdateCategoryFilters
<1>8. QED BY <1>1, <1>2, <1>3, <1>4, <1>5, <1>6, <1>7 DEF AdminStep

LEMMA TimeType ==
    ASSUME DbTypeOK,
           \/ \E i \in Probed : BackoffElapses(i)
           \/ \E i \in Item : RetentionElapses(i)
    PROVE  DbTypeOK'
<1> USE DEF DbTypeOK
<1>1. ASSUME NEW i \in Probed, BackoffElapses(i)
      PROVE  DbTypeOK'
    BY <1>1 DEF BackoffElapses, ProbeRow
<1>2. ASSUME NEW i \in Item, RetentionElapses(i)
      PROVE  DbTypeOK'
    BY <1>2 DEF RetentionElapses, ItemRow
<1>3. QED BY <1>1, <1>2

\* What an upsert writes for a title.
LEMMA UpsertType ==
    ASSUME DbTypeOK, NEW i \in Probed, NEW entry \in Entry
    PROVE  /\ ProbeAfterUpsert(i, entry) \in ProbeRow
           /\ TracksAfterUpsert(i, entry) \in TrackRows
  BY RowTypes, RequeuedType DEF DbTypeOK, ProbeAfterUpsert, TracksAfterUpsert

LEMMA SyncType ==
    ASSUME ProviderTypeOK, DbTypeOK, SyncTypeOK, NEW p \in Syncer,
           StartSync(p) \/ SyncProgress(p) \/ FetchFails(p) \/ AbortSync(p)
    PROVE  DbTypeOK' /\ SyncTypeOK'
<1> USE DEF DbTypeOK, SyncTypeOK
<1>1. CASE StartSync(p)
    BY <1>1, KindDoneType DEF StartSync, dbVars
<1>2. CASE FetchListing(p)
  <2> DEFINE snap == [i \in Item |->
                        IF i \in OfKind(sync[p].kind) /\ provider[i].listed
                        THEN provider[i] ELSE NoEntry]
  <2>1. snap \in [Item -> Entry]
      BY RowTypes DEF ProviderTypeOK
  <2>2. Listed(snap) \in SUBSET Item
      BY DEF Listed
  <2>3. sync' = [sync EXCEPT ![p] = [@ EXCEPT !.phase = "upsert", !.snap = snap,
                                              !.todo = Listed(snap)]]
      BY <1>2 DEF FetchListing
  <2> HIDE DEF snap
  <2>4. [sync[p] EXCEPT !.phase = "upsert", !.snap = snap, !.todo = Listed(snap)]
           \in SyncRun
      BY <2>1, <2>2 DEF SyncRun, SyncPhase
  <2>5. sync' \in [Syncer -> SyncRun]
      BY <2>3, <2>4
  <2>6. QED BY <1>2, <2>5 DEF FetchListing, dbVars
<1>3. CASE FetchFails(p)
    BY <1>3, KindDoneType DEF FetchFails, dbVars, SyncRun
<1>4. ASSUME NEW chunk \in SUBSET sync[p].todo, UpsertChunk(p, chunk)
      PROVE  DbTypeOK' /\ SyncTypeOK'
  <2>1. items' \in [Item -> ItemRow]
      BY <1>4 DEF UpsertChunk, ItemRow, SyncRun, Entry
  <2>2. probe' \in [Probed -> ProbeRow] /\ tracks' \in [Probed -> TrackRows]
      BY <1>4, UpsertType, KindOfProbed DEF UpsertChunk, SyncRun
  <2>3. sync' \in [Syncer -> SyncRun]
      BY <1>4 DEF UpsertChunk, SyncRun
  <2>4. QED BY <1>4, <2>1, <2>2, <2>3 DEF UpsertChunk
<1>5. ASSUME NEW chunk \in SUBSET sync[p].todo, RemoveChunk(p, chunk)
      PROVE  DbTypeOK' /\ SyncTypeOK'
    BY <1>5 DEF RemoveChunk, ItemRow, SyncRun
<1>6. CASE FindVanished(p)
  <2>1. EmptySnapshot \in [Item -> Entry]
      BY RowTypes DEF EmptySnapshot
  <2> DEFINE todo == {i \in OfKind(sync[p].kind) \ Listed(sync[p].snap) :
                         items[i].state = "listed"}
  <2>2. todo \in SUBSET Item
      BY DEF OfKind
  <2>3. sync' = [sync EXCEPT ![p] = [@ EXCEPT !.phase = "vanish",
                                              !.snap = EmptySnapshot, !.todo = todo]]
      BY <1>6 DEF FindVanished
  <2> HIDE DEF todo
  <2>4. [sync[p] EXCEPT !.phase = "vanish", !.snap = EmptySnapshot, !.todo = todo]
           \in SyncRun
      BY <2>1, <2>2 DEF SyncRun, SyncPhase
  <2>5. sync' \in [Syncer -> SyncRun]
      BY <2>3, <2>4
  <2>6. QED BY <1>6, <2>5 DEF FindVanished, dbVars
<1>7. CASE FinishKind(p)
    BY <1>7, KindDoneType DEF FinishKind, dbVars, SyncRun
<1>8. CASE PurgeOld(p)
    BY <1>8, RowTypes DEF PurgeOld, SyncRun, SyncPhase
<1>9. CASE FinishSync(p)
    BY <1>9, IdleSyncType, CategoryFiltersType DEF FinishSync
<1>10. CASE AbortSync(p)
    BY <1>10, IdleSyncType DEF AbortSync, dbVars
<1>11. QED
    BY <1>1, <1>2, <1>3, <1>4, <1>5, <1>6, <1>7, <1>8, <1>9, <1>10 DEF SyncProgress

LEMMA PickType ==
    ASSUME WorkerTypeOK, NEW i \in Probed, NEW gated, Pick(i, gated)
    PROVE  WorkerTypeOK'
<1>1. [job EXCEPT !.phase = "picked", !.title = i] \in Job
    BY DEF WorkerTypeOK, Job, JobPhase
<1>2. QED BY <1>1, KindOfProbed DEF Pick, WorkerTypeOK, Job

LEMMA MarkedRowType ==
    ASSUME NEW outcome \in Outcome, NEW attempts \in 0..MaxRetries
    PROVE  MarkedRow(outcome, attempts) \in ProbeRow
  BY DEF MarkedRow, ProbeRow, ProbeStatus, Outcome

LEMMA OutcomesType ==
    ASSUME NEW ffprobe, NEW allow
    PROVE  OutcomesOf(ffprobe, allow) \subseteq Outcome
  BY DEF OutcomesOf, Outcome

LEMMA ProbeType ==
    ASSUME ProviderTypeOK, DbTypeOK, WorkerTypeOK, ProbeProgress
    PROVE  DbTypeOK' /\ WorkerTypeOK'
<1> USE DEF DbTypeOK, WorkerTypeOK
<1> DEFINE t == job.title
<1>1. job.phase # "idle" => t \in Probed
    OBVIOUS
<1>2. IdleJob \in Job /\ IdleJob.phase = "idle"
    BY RowTypes DEF IdleJob
<1>3. CASE BeginProbe
  <2> DEFINE allow == probe[t].status \in {"deferred", "error"}
  <2>1. allow \in BOOLEAN
      OBVIOUS
  <2>2. job' = [job EXCEPT !.phase = "fetching", !.allow = allow]
      BY <1>3 DEF BeginProbe
  <2> HIDE DEF allow
  <2>3. job' \in Job /\ job'.title = t
      BY <2>1, <2>2 DEF Job, JobPhase
  <2>4. QED BY <1>1, <1>3, <2>3 DEF BeginProbe, dbVars
<1>4. ASSUME NEW ffprobe, NEW outcome \in OutcomesOf(ffprobe, job.allow),
             FetchTracks(outcome)
      PROVE  DbTypeOK' /\ WorkerTypeOK'
  <2>1. outcome \in Outcome
      BY OutcomesType
  <2>2. t \in Probed /\ provider[t].version \in 0..MaxVersion
      BY <1>1, <1>4, KindOfProbed DEF FetchTracks, ProviderTypeOK, Entry
  <2>3. QED BY <1>4, <2>1, <2>2 DEF FetchTracks, dbVars, Job, JobPhase
<1>5. CASE DeferProbe
  <2>1. t \in Probed
      BY <1>5 DEF DeferProbe
  <2>2. [probe[t] EXCEPT !.status = "deferred", !.attempts = OneMoreAttempt(t)]
           \in ProbeRow
      BY <2>1, OneMoreAttemptType DEF ProbeRow, ProbeStatus
  <2>3. QED BY <1>2, <1>5, <2>1, <2>2, UpdateProbeType DEF DeferProbe
<1>6. CASE PushBack
  <2>1. t \in Probed
      BY <1>6 DEF PushBack
  <2>2. [probe[t] EXCEPT !.next = "later"] \in ProbeRow
      BY <2>1 DEF ProbeRow
  <2>3. QED BY <1>2, <1>6, <2>1, <2>2, UpdateProbeType DEF PushBack
<1>7. CASE StoreTracks
  <2>1. t \in Probed
      BY <1>7 DEF StoreTracks
  <2>2. [found |-> job.outcome, version |-> job.version] \in TrackRows
      BY <1>7 DEF StoreTracks, TrackRows, Job
  <2>3. QED BY <1>7, <2>1, <2>2 DEF StoreTracks, Job, JobPhase
<1>8. CASE ReadAttempts
  <2>1. OneMoreAttempt(t) \in 0..MaxRetries
      BY <1>1, <1>8, OneMoreAttemptType DEF ReadAttempts
  <2>2. QED BY <1>8, <2>1 DEF ReadAttempts, dbVars, Job, JobPhase
<1>9. CASE MarkProbe
  <2>1. t \in Probed
      BY <1>9 DEF MarkProbe
  <2>2. MarkedRow(job.outcome, job.attempts) \in ProbeRow
      BY MarkedRowType DEF Job
  <2>3. QED BY <1>2, <1>9, <2>1, <2>2, UpdateProbeType DEF MarkProbe
<1>10. QED
    BY <1>3, <1>4, <1>5, <1>6, <1>7, <1>8, <1>9 DEF ProbeProgress

LEMMA TypeStep == TypeOK /\ [Next]_vars => TypeOK'
<1> SUFFICES ASSUME TypeOK, [Next]_vars
             PROVE  TypeOK'
    OBVIOUS
<1> USE DEF TypeOK
<1>1. ASSUME UNCHANGED provider
      PROVE  ProviderTypeOK'
    BY <1>1 DEF ProviderTypeOK
<1>2. ASSUME UNCHANGED dbVars
      PROVE  DbTypeOK'
    BY <1>2 DEF dbVars, DbTypeOK
<1>3. ASSUME UNCHANGED sync
      PROVE  SyncTypeOK'
    BY <1>3 DEF SyncTypeOK
<1>4. ASSUME UNCHANGED workerVars
      PROVE  WorkerTypeOK'
    BY <1>4 DEF workerVars, WorkerTypeOK
<1>5. CASE CrawlerStartsSync \/ AdminStartsSync
    BY <1>1, <1>4, <1>5, SyncType
    DEF CrawlerStartsSync, AdminStartsSync, Syncer, workerVars
<1>6. ASSUME NEW p \in Syncer, SyncStep(p) \/ SyncFetchFails(p) \/ SyncAborts(p)
      PROVE  TypeOK'
    BY <1>1, <1>4, <1>6, SyncType DEF SyncStep, SyncFetchFails, SyncAborts, workerVars
<1>7. CASE CrawlerPicks
  <2>1. PICK i \in Probed, gated \in BOOLEAN : Pick(i, gated)
      BY <1>7 DEF CrawlerPicks
  <2>2. UNCHANGED <<provider, sync>> /\ UNCHANGED dbVars
      BY <1>7, <2>1 DEF CrawlerPicks, Pick
  <2>3. QED BY <1>1, <1>2, <1>3, <2>1, <2>2, PickType
<1>8. CASE ProbeStep
    BY <1>1, <1>3, <1>8, ProbeType DEF ProbeStep
<1>9. CASE Provide
    BY <1>2, <1>3, <1>4, <1>9, ProviderType DEF Provide, workerVars
<1>10. CASE Administer
    BY <1>1, <1>3, <1>4, <1>10, AdminType DEF Administer, workerVars
<1>11. CASE TimePasses
    BY <1>1, <1>3, <1>4, <1>11, TimeType DEF TimePasses, workerVars
<1>12. CASE ProbeAborts
  <2>1. WorkerTypeOK'
      BY <1>12, RowTypes DEF ProbeAborts, WorkerTypeOK, IdleJob
  <2>2. QED BY <1>1, <1>2, <1>3, <1>12, <2>1 DEF ProbeAborts
<1>13. CASE Restart
  <2>1. WorkerTypeOK'
      BY <1>13, RowTypes DEF Restart, WorkerTypeOK, IdleJob
  <2>2. SyncTypeOK'
      BY <1>13, IdleSyncType DEF Restart, SyncTypeOK
  <2>3. QED BY <1>1, <1>2, <1>13, <2>1, <2>2 DEF Restart
<1>14. CASE CrawlerIdles \/ UNCHANGED vars
    BY <1>1, <1>2, <1>3, <1>4, <1>14 DEF CrawlerIdles, vars, dbVars, workerVars
<1>15. QED
    BY <1>5, <1>6, <1>7, <1>8, <1>9, <1>10, <1>11, <1>12, <1>13, <1>14
    DEF Next, Fault

\* Every variable keeps its type.
THEOREM TypeCorrect == Spec => []TypeOK
<1>1. Init => TypeOK
  <2> SUFFICES ASSUME Init
               PROVE  TypeOK
      OBVIOUS
  <2>1. ProviderTypeOK
      BY MaxVersionAssumption DEF Init, ProviderInit, ProviderTypeOK, Entry
  <2>2. DbTypeOK
      BY RowTypes DEF Init, DbInit, DbTypeOK
  <2>3. SyncTypeOK
      BY IdleSyncType DEF Init, SyncInit, SyncTypeOK
  <2>4. WorkerTypeOK
      BY RowTypes DEF Init, WorkerInit, WorkerTypeOK, IdleJob
  <2>5. QED BY <2>1, <2>2, <2>3, <2>4 DEF TypeOK
<1>2. QED BY <1>1, TypeStep, PTL DEF Spec

-----------------------------------------------------------------------------
(* What every step but those of the probe may do to a title.  The safety    *)
(* proofs below need no more than this about the operator, the syncs, time  *)
(* and the failures.                                                        *)

BackgroundStep ==
    \/ CrawlerStartsSync
    \/ AdminStartsSync
    \/ \E p \in Syncer : SyncStep(p) \/ SyncFetchFails(p)
    \/ Provide
    \/ Administer
    \/ TimePasses
    \/ Fault
    \/ CrawlerIdles
    \/ UNCHANGED vars

\* Its row stays, is queued again, deleted, skipped or comes of age; its
\* tracks stay, or go with a row that is queued again or deleted; it is not
\* skipped while overridden; and it is not left in the catalogue without a row.
LeavesSound(i) ==
    /\ \/ probe'[i] = probe[i]
       \/ probe'[i].status \in {"pending", "none"}
       \/ probe[i].status \in {"pending", "deferred"} /\ probe'[i].status = "skipped"
       \/ probe[i].next = "later" /\ probe'[i] = [probe[i] EXCEPT !.next = "due"]
    /\ \/ tracks'[i] = tracks[i]
       \/ tracks'[i] = NoTracks /\ probe'[i].status \in {"pending", "none"}
    /\ i \in overrides' /\ probe'[i].status = "skipped"
          => i \in overrides /\ probe[i].status = "skipped"
    /\ items'[i].state # "absent" /\ probe'[i].status = "none"
          => InCatalogue(i) /\ probe[i].status = "none"

LEMMA FiltersLeaveSound ==
    ASSUME DbTypeOK, NEW filters, NEW i \in Probed,
           probe' = WithCategoryFilters(filters),
           UNCHANGED <<items, tracks, overrides>>
    PROVE  LeavesSound(i)
<1>1. CASE SkippedBy(filters, i)
  <2>0. ~ ReleasedBy(filters, i)
      BY <1>1 DEF SkippedBy, ReleasedBy
  <2>1. probe'[i] = [probe[i] EXCEPT !.status = "skipped"]
      BY <1>1, <2>0 DEF WithCategoryFilters
  <2>2. QED BY <1>1, <2>1 DEF LeavesSound, SkippedBy, InCatalogue, DbTypeOK, ProbeRow
<1>2. CASE ~ SkippedBy(filters, i) /\ ReleasedBy(filters, i)
  <2>1. probe'[i] = [probe[i] EXCEPT !.status = "pending"]
      BY <1>2 DEF WithCategoryFilters
  <2>2. QED BY <2>1 DEF LeavesSound, DbTypeOK, ProbeRow
<1>3. CASE ~ SkippedBy(filters, i) /\ ~ ReleasedBy(filters, i)
  <2>1. probe'[i] = probe[i]
      BY <1>3 DEF WithCategoryFilters
  <2>2. QED BY <2>1 DEF LeavesSound, InCatalogue
<1>4. QED BY <1>1, <1>2, <1>3

LEMMA UnchangedLeavesSound ==
    ASSUME NEW i \in Probed, UNCHANGED dbVars
    PROVE  LeavesSound(i)
  BY DEF dbVars, LeavesSound, InCatalogue

LEMMA AdminLeavesSound ==
    ASSUME DbTypeOK, AdminStep, NEW i \in Probed
    PROVE  LeavesSound(i)
<1> USE DEF DbTypeOK, LeavesSound, InCatalogue, HasProbeRow
<1>0. FreshRow.status = "pending" /\ Requeued(probe[i]).status = "pending"
    BY DEF FreshRow, Requeued, ProbeRow
<1>1. CASE ResetAllProbes
    BY <1>0, <1>1 DEF ResetAllProbes
<1>2. CASE RetryErrorProbes
    BY <1>0, <1>2 DEF RetryErrorProbes
<1>3. ASSUME NEW j \in Probed, ReprobeItem(j)
      PROVE  LeavesSound(i)
    BY <1>0, <1>3 DEF ReprobeItem
<1>4. ASSUME NEW kind, NEW status, NEW matched, ReprobeMatching(kind, status, matched)
      PROVE  LeavesSound(i)
    BY <1>0, <1>4 DEF ReprobeMatching
<1>5. ASSUME NEW j \in Item, AddOverride(j)
      PROVE  LeavesSound(i)
    BY <1>0, <1>5 DEF AddOverride
<1>6. ASSUME NEW j \in Item, RemoveOverride(j)
      PROVE  LeavesSound(i)
    BY <1>6 DEF RemoveOverride
<1>7. ASSUME NEW filters \in CategoryFilters, UpdateCategoryFilters(filters)
      PROVE  LeavesSound(i)
    BY <1>7, FiltersLeaveSound DEF UpdateCategoryFilters
<1>8. QED BY <1>1, <1>2, <1>3, <1>4, <1>5, <1>6, <1>7 DEF AdminStep

LEMMA SyncLeavesSound ==
    ASSUME ProviderTypeOK, DbTypeOK, SyncTypeOK, NEW p \in Syncer, NEW i \in Probed,
           StartSync(p) \/ SyncProgress(p) \/ FetchFails(p) \/ AbortSync(p)
    PROVE  LeavesSound(i)
<1>0. i \in Item
    BY KindOfProbed
<1>1. CASE StartSync(p) \/ FetchListing(p) \/ FetchFails(p) \/ FindVanished(p)
           \/ FinishKind(p) \/ AbortSync(p)
    BY <1>1, UnchangedLeavesSound
    DEF StartSync, FetchListing, FetchFails, FindVanished, FinishKind, AbortSync
<1>2. ASSUME NEW chunk \in SUBSET sync[p].todo, UpsertChunk(p, chunk)
      PROVE  LeavesSound(i)
  <2>1. CASE i \notin chunk
      BY <1>0, <1>2, <2>1 DEF UpsertChunk, LeavesSound, InCatalogue, DbTypeOK
  <2>2. CASE i \in chunk
    <3> DEFINE entry == sync[p].snap[i]
    <3>1. /\ probe'[i] = ProbeAfterUpsert(i, entry)
          /\ tracks'[i] = TracksAfterUpsert(i, entry)
          /\ overrides' = overrides
        BY <1>2, <2>2 DEF UpsertChunk
    <3>2. Requeued(probe[i]).status = "pending" /\ FreshRow.status = "pending"
        BY DEF FreshRow, Requeued, ProbeRow, DbTypeOK
    <3> HIDE DEF entry
    <3>3. QED
        BY <3>1, <3>2
        DEF ProbeAfterUpsert, TracksAfterUpsert, LeavesSound, InCatalogue, HasProbeRow
  <2>3. QED BY <2>1, <2>2
<1>3. ASSUME NEW chunk \in SUBSET sync[p].todo, RemoveChunk(p, chunk)
      PROVE  LeavesSound(i)
    BY <1>0, <1>3 DEF RemoveChunk, LeavesSound, InCatalogue, DbTypeOK, ItemRow
<1>4. CASE PurgeOld(p)
    BY <1>0, <1>4
    DEF PurgeOld, LeavesSound, InCatalogue, DbTypeOK, NoItemRow, NoProbeRow, NoTracks
<1>5. CASE FinishSync(p)
    BY <1>5, FiltersLeaveSound DEF FinishSync
<1>6. QED BY <1>1, <1>2, <1>3, <1>4, <1>5 DEF SyncProgress

LEMMA BackgroundLeavesSound ==
    ASSUME TypeOK, BackgroundStep, NEW i \in Probed
    PROVE  LeavesSound(i) /\ job' \in {job, IdleJob}
<1> USE DEF TypeOK
<1>1. CASE CrawlerStartsSync \/ AdminStartsSync
    BY <1>1, SyncLeavesSound DEF CrawlerStartsSync, AdminStartsSync, Syncer
<1>2. ASSUME NEW p \in Syncer, SyncStep(p) \/ SyncFetchFails(p) \/ SyncAborts(p)
      PROVE  LeavesSound(i) /\ job' = job
    BY <1>2, SyncLeavesSound DEF SyncStep, SyncFetchFails, SyncAborts
<1>3. CASE Provide \/ ProbeAborts \/ Restart \/ CrawlerIdles \/ UNCHANGED vars
    BY <1>3, UnchangedLeavesSound DEF Provide, ProbeAborts, Restart, CrawlerIdles, vars, dbVars
<1>4. CASE Administer
    BY <1>4, AdminLeavesSound DEF Administer
<1>5. CASE TimePasses
  <2>0. i \in Item
      BY KindOfProbed
  <2>1. ASSUME NEW j \in Probed, BackoffElapses(j)
        PROVE  LeavesSound(i)
      BY <2>1 DEF BackoffElapses, LeavesSound, InCatalogue, DbTypeOK, ProbeRow
  <2>2. ASSUME NEW j \in Item, RetentionElapses(j)
        PROVE  LeavesSound(i)
      BY <2>0, <2>2 DEF RetentionElapses, LeavesSound, InCatalogue, DbTypeOK, ItemRow
  <2>3. QED BY <1>5, <2>1, <2>2 DEF TimePasses
<1>6. QED BY <1>1, <1>2, <1>3, <1>4, <1>5 DEF BackgroundStep, Fault

\* A step is one of the probe or one in the background.
LEMMA StepKinds ==
    [Next]_vars <=> CrawlerPicks \/ ProbeStep \/ BackgroundStep
  BY DEF Next, BackgroundStep, Fault

-----------------------------------------------------------------------------
(* The inductive invariant.  While a title is being probed its row is not   *)
(* 'ok' and not parked: the pick required it, and nothing but the probe     *)
(* itself writes either.                                                    *)

JobRowSound ==
    job.phase # "idle" =>
        /\ probe[job.title].status # "ok"
        /\ probe[job.title].status = "error" => probe[job.title].next # "null"
        /\ job.phase \in {"stored", "marking"} /\ job.outcome = "tagged"
              => tracks[job.title].found # "untagged"

RowsSound ==
    /\ OverriddenNeverSkipped
    /\ OkTracksCarryLanguage
    /\ ErrorParkedIffExhausted
    /\ EveryTitleHasProbeRow
    /\ JobRowSound

LEMMA BackgroundKeepsRowsSound ==
    ASSUME TypeOK, RowsSound, BackgroundStep
    PROVE  RowsSound'
<1> USE DEF RowsSound
<1>1. \A i \in Probed : LeavesSound(i) /\ job' \in {job, IdleJob}
    BY BackgroundLeavesSound
<1>2. TypeOK'
    BY TypeStep, StepKinds
<1>3. OverriddenNeverSkipped'
    BY <1>1 DEF OverriddenNeverSkipped, LeavesSound
<1>4. OkTracksCarryLanguage'
  <2>1. SUFFICES ASSUME NEW i \in Probed, probe'[i].status = "ok"
                 PROVE  tracks'[i].found # "untagged"
      BY DEF OkTracksCarryLanguage
  <2>2. probe[i] \in ProbeRow
      BY DEF TypeOK, DbTypeOK
  <2>3. probe[i].status = "ok" /\ tracks'[i] = tracks[i]
      BY <1>1, <2>1, <2>2 DEF LeavesSound, ProbeRow
  <2>4. QED BY <2>3 DEF OkTracksCarryLanguage
<1>5. ErrorParkedIffExhausted'
  <2>1. SUFFICES ASSUME NEW i \in Probed, probe'[i].status = "error"
                 PROVE  probe'[i].next = "null" <=> probe'[i].attempts = MaxRetries
      BY DEF ErrorParkedIffExhausted
  <2>2. probe[i] \in ProbeRow
      BY DEF TypeOK, DbTypeOK
  <2>3. CASE probe'[i] = probe[i]
      BY <2>1, <2>3 DEF ErrorParkedIffExhausted
  <2>4. CASE probe[i].next = "later" /\ probe'[i] = [probe[i] EXCEPT !.next = "due"]
    <3>1. /\ probe'[i].next = "due"
          /\ probe'[i].status = probe[i].status
          /\ probe'[i].attempts = probe[i].attempts
        BY <2>2, <2>4 DEF ProbeRow
    <3>2. QED BY <2>1, <2>4, <3>1 DEF ErrorParkedIffExhausted
  <2>5. QED BY <1>1, <2>1, <2>3, <2>4 DEF LeavesSound
<1>6. EveryTitleHasProbeRow'
    BY <1>1 DEF EveryTitleHasProbeRow, LeavesSound, InCatalogue, HasProbeRow
<1>7. JobRowSound'
  <2>1. CASE job' = IdleJob
      BY <2>1 DEF JobRowSound, IdleJob
  <2>2. CASE job' = job /\ job.phase # "idle"
    <3>1. LeavesSound(job.title)
        BY <1>1, <2>2 DEF TypeOK, WorkerTypeOK
    <3>2. job.title \in Probed /\ NoTracks.found = "none"
        BY <2>2 DEF TypeOK, WorkerTypeOK, NoTracks
    <3>3. QED
        BY <2>2, <3>1, <3>2 DEF JobRowSound, LeavesSound, TypeOK, DbTypeOK, ProbeRow
  <2>3. CASE job' = job /\ job.phase = "idle"
      BY <2>3 DEF JobRowSound
  <2>4. QED
    <3>1. CASE Probed = {}
        BY <3>1, <1>2 DEF TypeOK, WorkerTypeOK, JobRowSound
    <3>2. CASE Probed # {}
        BY <1>1, <2>1, <2>2, <2>3, <3>2
    <3>3. QED BY <3>1, <3>2
<1>8. QED BY <1>3, <1>4, <1>5, <1>6, <1>7

LEMMA PickKeepsRowsSound ==
    ASSUME TypeOK, RowsSound, CrawlerPicks
    PROVE  RowsSound'
<1>1. PICK i \in Probed, gated \in BOOLEAN : Pick(i, gated)
    BY DEF CrawlerPicks
<1>2. Eligible(i, gated)
    BY <1>1 DEF Pick, Candidates, EligibleOf
<1>3. job' = [job EXCEPT !.phase = "picked", !.title = i] /\ UNCHANGED dbVars
    BY <1>1 DEF Pick
<1>4. JobRowSound'
  <2>1. job'.phase = "picked" /\ job'.title = i
      BY <1>3 DEF TypeOK, WorkerTypeOK, Job
  <2>2. probe[i].status # "ok"
      BY <1>2 DEF Eligible
  <2>3. probe[i].status = "error" => probe[i].next # "null"
      BY <1>2 DEF Eligible
  <2>4. QED BY <1>3, <2>1, <2>2, <2>3 DEF JobRowSound, dbVars
<1>5. QED
    BY <1>3, <1>4
    DEF RowsSound, OverriddenNeverSkipped, OkTracksCarryLanguage,
        ErrorParkedIffExhausted, EveryTitleHasProbeRow, InCatalogue, HasProbeRow, dbVars

LEMMA ProbeKeepsRowsSound ==
    ASSUME TypeOK, RowsSound, ProbeStep
    PROVE  RowsSound'
<1> USE DEF RowsSound
<1> DEFINE t == job.title
<1>1. job.phase # "idle" => t \in Probed
    BY DEF TypeOK, WorkerTypeOK
<1>2. IdleJob.phase = "idle"
    BY DEF IdleJob
<1>3. CASE BeginProbe \/ ReadAttempts \/ (\E outcome : FetchTracks(outcome))
  <2>1. UNCHANGED dbVars
      BY <1>3 DEF BeginProbe, ReadAttempts, FetchTracks
  <2>2. job'.title = t /\ job.phase # "idle"
      BY <1>3 DEF BeginProbe, ReadAttempts, FetchTracks, TypeOK, WorkerTypeOK, Job
  <2>3. job'.phase = "marking" /\ job'.outcome = "tagged"
          => job.phase = "stored" /\ job.outcome = "tagged"
      BY <1>3 DEF BeginProbe, ReadAttempts, FetchTracks, TypeOK, WorkerTypeOK, Job
  <2>4. job'.phase # "stored"
      BY <1>3 DEF BeginProbe, ReadAttempts, FetchTracks, TypeOK, WorkerTypeOK, Job
  <2>5. JobRowSound'
      BY <2>1, <2>2, <2>3, <2>4 DEF JobRowSound, dbVars
  <2>6. QED
      BY <2>1, <2>5
      DEF OverriddenNeverSkipped, OkTracksCarryLanguage, ErrorParkedIffExhausted,
          EveryTitleHasProbeRow, InCatalogue, HasProbeRow, dbVars
<1>4. CASE StoreTracks
  <2>1. t \in Probed /\ probe[t].status # "ok"
      BY <1>1, <1>4 DEF StoreTracks, JobRowSound
  <2>2. UNCHANGED <<items, probe, overrides>>
      BY <1>4 DEF StoreTracks
  <2>3. OkTracksCarryLanguage'
      BY <1>4, <2>1, <2>2 DEF StoreTracks, OkTracksCarryLanguage, TypeOK, DbTypeOK
  <2>4. JobRowSound'
      BY <1>4, <2>1 DEF StoreTracks, JobRowSound, TypeOK, DbTypeOK, WorkerTypeOK, Job
  <2>5. QED
      BY <2>2, <2>3, <2>4
      DEF OverriddenNeverSkipped, ErrorParkedIffExhausted,
          EveryTitleHasProbeRow, InCatalogue, HasProbeRow
<1>5. ASSUME NEW row \in ProbeRow, t \in Probed, UpdateProbe(t, row), job' = IdleJob,
             UNCHANGED <<items, tracks, overrides>>,
             row.status \notin {"none", "skipped"} \/ row.status = probe[t].status,
             row.status = "ok" => tracks[t].found # "untagged",
             row.status = "error" => (row.next = "null" <=> row.attempts = MaxRetries)
      PROVE  RowsSound'
  <2>1. \A i \in Probed : probe'[i] \in {probe[i], row} /\ (i # t => probe'[i] = probe[i])
      BY <1>5 DEF UpdateProbe, TypeOK, DbTypeOK
  <2>2. OverriddenNeverSkipped'
      BY <1>5, <2>1 DEF OverriddenNeverSkipped
  <2>3. OkTracksCarryLanguage'
      BY <1>5, <2>1 DEF OkTracksCarryLanguage
  <2>4. ErrorParkedIffExhausted'
      BY <1>5, <2>1 DEF ErrorParkedIffExhausted
  <2>5. EveryTitleHasProbeRow'
      BY <1>5, <2>1 DEF EveryTitleHasProbeRow, InCatalogue, HasProbeRow
  <2>6. QED BY <1>2, <1>5, <2>2, <2>3, <2>4, <2>5 DEF JobRowSound
<1>6. CASE DeferProbe
  <2> DEFINE row == [probe[t] EXCEPT !.status = "deferred",
                                     !.attempts = OneMoreAttempt(t)]
  <2>1. t \in Probed
      BY <1>1, <1>6 DEF DeferProbe
  <2>2. row \in ProbeRow /\ row.status = "deferred"
      BY <2>1, OneMoreAttemptType DEF ProbeRow, ProbeStatus, TypeOK, DbTypeOK
  <2>3. UpdateProbe(t, row) /\ job' = IdleJob /\ UNCHANGED <<items, tracks, overrides>>
      BY <1>6 DEF DeferProbe
  <2> HIDE DEF row
  <2>4. QED BY <1>5, <2>1, <2>2, <2>3
<1>7. CASE PushBack
  <2> DEFINE row == [probe[t] EXCEPT !.next = "later"]
  <2>1. t \in Probed /\ probe[t].status # "ok"
           /\ (probe[t].status = "error" => probe[t].attempts # MaxRetries)
      BY <1>1, <1>7 DEF PushBack, JobRowSound, ErrorParkedIffExhausted
  <2>2. row \in ProbeRow /\ row.next = "later" /\ row.status = probe[t].status
           /\ row.attempts = probe[t].attempts
      BY <2>1 DEF ProbeRow, ProbeStatus, TypeOK, DbTypeOK
  <2>3. UpdateProbe(t, row) /\ job' = IdleJob /\ UNCHANGED <<items, tracks, overrides>>
      BY <1>7 DEF PushBack
  <2> HIDE DEF row
  <2>4. QED BY <1>5, <2>1, <2>2, <2>3
<1>8. CASE MarkProbe
  <2> DEFINE row == MarkedRow(job.outcome, job.attempts)
  <2>1. t \in Probed /\ (job.outcome = "tagged" => tracks[t].found # "untagged")
      BY <1>1, <1>8 DEF MarkProbe, JobRowSound
  <2>2. job.outcome \in Outcome /\ job.attempts \in 0..MaxRetries
      BY DEF TypeOK, WorkerTypeOK, Job
  <2>3. row \in ProbeRow
      BY <2>2, MarkedRowType
  <2>4. /\ row.status \in {"ok", "error", "no_audio_info"}
        /\ row.status = "ok" => job.outcome = "tagged"
        /\ row.status = "error" => (row.next = "null" <=> row.attempts = MaxRetries)
      BY <2>2, MaxRetriesAssumption DEF MarkedRow, Outcome
  <2>5. UpdateProbe(t, row) /\ job' = IdleJob /\ UNCHANGED <<items, tracks, overrides>>
      BY <1>8 DEF MarkProbe
  <2> HIDE DEF row
  <2>6. QED BY <1>5, <2>1, <2>3, <2>4, <2>5
<1>9. QED
    BY <1>3, <1>4, <1>6, <1>7, <1>8 DEF ProbeStep, ProbeProgress

THEOREM RowsStaySound == Spec => []RowsSound
<1>1. Init => RowsSound
    BY KindOfProbed
    DEF Init, DbInit, WorkerInit, RowsSound, OverriddenNeverSkipped,
        OkTracksCarryLanguage, ErrorParkedIffExhausted, EveryTitleHasProbeRow,
        JobRowSound, InCatalogue, HasProbeRow, NoItemRow, NoProbeRow, NoTracks, IdleJob
<1>2. TypeOK /\ RowsSound /\ [Next]_vars => RowsSound'
    BY StepKinds, BackgroundKeepsRowsSound, PickKeepsRowsSound, ProbeKeepsRowsSound
<1>3. QED BY <1>1, <1>2, TypeCorrect, PTL DEF Spec

\* An override keeps a title in the queue of the crawler (catalog.py:271).
THEOREM OverridesHold == Spec => []OverriddenNeverSkipped
<1>1. RowsSound => OverriddenNeverSkipped
    BY DEF RowsSound
<1>2. QED BY <1>1, RowsStaySound, PTL

\* 'ok' is never written over tracks without a language (worker.py:583).
THEOREM OkMeansLanguage == Spec => []OkTracksCarryLanguage
<1>1. RowsSound => OkTracksCarryLanguage
    BY DEF RowsSound
<1>2. QED BY <1>1, RowsStaySound, PTL

\* Errors are scheduled again until max_retries (worker.py:797).
THEOREM ErrorsParkOnlyWhenExhausted == Spec => []ErrorParkedIffExhausted
<1>1. RowsSound => ErrorParkedIffExhausted
    BY DEF RowsSound
<1>2. QED BY <1>1, RowsStaySound, PTL

\* No title of the catalogue is unknown to the crawler (sync.py:129).
THEOREM TitlesAreQueued == Spec => []EveryTitleHasProbeRow
<1>1. RowsSound => EveryTitleHasProbeRow
    BY DEF RowsSound
<1>2. QED BY <1>1, RowsStaySound, PTL

\* A confirmed result is given up only by a requeue or a purge: a probe under
\* way never writes over one (worker.py:468), nor does anything skip it
\* (catalog.py:275).
THEOREM OkIsStable == Spec => OkGivenUpOnlyByRequeue
<1> DEFINE Step == \A i \in Probed :
                      probe[i].status = "ok" => probe'[i].status \in {"ok", "pending", "none"}
<1>1. TypeOK /\ RowsSound /\ [Next]_vars => [Step]_vars
  <2> SUFFICES ASSUME TypeOK, RowsSound, [Next]_vars, NEW i \in Probed,
                      probe[i].status = "ok"
               PROVE  probe'[i].status \in {"ok", "pending", "none"}
      OBVIOUS
  <2>0. probe[i] \in ProbeRow
      BY DEF TypeOK, DbTypeOK
  <2>1. CASE BackgroundStep
    <3>1. LeavesSound(i)
        BY <2>1, BackgroundLeavesSound
    <3>2. CASE probe'[i] = [probe[i] EXCEPT !.next = "due"]
        BY <2>0, <3>2 DEF ProbeRow
    <3>3. QED BY <3>1, <3>2 DEF LeavesSound
  <2>2. CASE CrawlerPicks
      BY <2>2 DEF CrawlerPicks, Pick, dbVars
  <2>3. CASE ProbeStep
    <3>1. job.phase # "idle" => job.title # i
        BY DEF RowsSound, JobRowSound
    <3>2. probe'[i] = probe[i]
      <4> USE DEF ProbeStep, ProbeProgress, TypeOK, DbTypeOK
      <4>1. CASE BeginProbe \/ StoreTracks \/ ReadAttempts \/ (\E o : FetchTracks(o))
          BY <4>1 DEF BeginProbe, StoreTracks, ReadAttempts, FetchTracks, dbVars
      <4>2. CASE DeferProbe
          BY <3>1, <4>2 DEF DeferProbe, UpdateProbe
      <4>3. CASE PushBack
          BY <3>1, <4>3 DEF PushBack, UpdateProbe
      <4>4. CASE MarkProbe
          BY <3>1, <4>4 DEF MarkProbe, UpdateProbe
      <4>5. QED BY <2>3, <4>1, <4>2, <4>3, <4>4
    <3>3. QED BY <3>2
  <2>4. QED BY <2>1, <2>2, <2>3, StepKinds
<1>2. Spec => [][Step]_vars
    BY <1>1, TypeCorrect, RowsStaySound, PTL DEF Spec
<1>3. QED BY <1>2 DEF OkGivenUpOnlyByRequeue

-----------------------------------------------------------------------------
(* The notebook of confirmed results. *)

\* A background step may end the probe under way; one that does touches no table.
LEMMA BackgroundEndsProbe ==
    ASSUME BackgroundStep, job' # job
    PROVE  job' = IdleJob /\ UNCHANGED <<probe, tracks>>
  BY DEF BackgroundStep, CrawlerStartsSync, AdminStartsSync, SyncStep, SyncFetchFails, Provide,
         Administer, TimePasses, Fault, ProbeAborts, SyncAborts, Restart, CrawlerIdles, vars,
         dbVars

\* What the operator, the syncs, time and the failures do is to clear pages.
LEMMA BackgroundForgets ==
    ASSUME TypeOK, BackgroundStep
    PROVE  Results!Next
<1> DEFINE cleared == {i \in Probed : Known(i)' = {}}
<1>1. ASSUME NEW i \in Probed
      PROVE  Known(i)' = IF i \in cleared THEN {} ELSE Known(i)
  <2>1. LeavesSound(i) /\ probe[i] \in ProbeRow
      BY BackgroundLeavesSound DEF TypeOK, DbTypeOK
  <2>2. CASE probe'[i].status = "ok"
    <3>1. probe[i].status = "ok" /\ tracks'[i] = tracks[i]
        BY <2>1, <2>2 DEF LeavesSound, ProbeRow
    <3>2. QED BY <2>2, <3>1 DEF Known
  <2>3. CASE probe'[i].status # "ok"
      BY <2>3 DEF Known
  <2>4. QED BY <2>2, <2>3
<1>2. CASE job' = job
  <2>1. [i \in Probed |-> Known(i)']
          = [i \in Probed |-> IF i \in cleared THEN {} ELSE [j \in Probed |-> Known(j)][i]]
      BY <1>1
  <2>2. cleared \in SUBSET Probed
      OBVIOUS
  <2> HIDE DEF cleared
  <2>3. Results!Forget(cleared)
      BY <1>2, <2>1 DEF Results!Forget
  <2>4. QED BY <2>2, <2>3 DEF Results!Next
<1>3. CASE job' # job
  <2>1. job' = IdleJob /\ UNCHANGED <<probe, tracks>>
      BY <1>3, BackgroundEndsProbe
  <2>2. Results!GiveUp
      BY <2>1 DEF Results!GiveUp, IdleJob, Known
  <2>3. QED BY <2>2 DEF Results!Next
<1>4. QED BY <1>2, <1>3

\* A title is asked about when nothing is known of it.
LEMMA PickAsks ==
    ASSUME TypeOK, CrawlerPicks
    PROVE  Results!Next
<1>1. PICK i \in Probed, gated \in BOOLEAN : Pick(i, gated)
    BY DEF CrawlerPicks
<1>2. probe[i].status # "ok" /\ job.phase = "idle" /\ UNCHANGED <<probe, tracks>>
    BY <1>1 DEF Pick, Candidates, EligibleOf, Eligible, dbVars
<1>3. job'.phase = "picked" /\ job'.title = i
    BY <1>1 DEF Pick, TypeOK, WorkerTypeOK, Job
<1>4. Known(i) = {}
    BY <1>2 DEF Known
<1>5. Results!Ask(i)
    BY <1>2, <1>3, <1>4 DEF Results!Ask, Known
<1>6. QED BY <1>5 DEF Results!Next

\* The probe enters what it has confirmed for the title it asked about, or nothing.
LEMMA ProbeLearns ==
    ASSUME TypeOK, RowsSound, ProbeStep
    PROVE  [Results!Next]_(Results!vars)
<1>t. PICK t \in Probed : t = job.title
    BY DEF TypeOK, WorkerTypeOK, ProbeStep, ProbeProgress,
           BeginProbe, FetchTracks, DeferProbe, PushBack, StoreTracks, ReadAttempts, MarkProbe
<1>0. /\ probe[t].status # "ok" /\ job.phase # "idle"
      /\ probe \in [Probed -> ProbeRow] /\ tracks \in [Probed -> TrackRows] /\ job \in Job
    BY <1>t DEF TypeOK, DbTypeOK, WorkerTypeOK, RowsSound, JobRowSound, ProbeStep, ProbeProgress,
           BeginProbe, FetchTracks, DeferProbe, PushBack, StoreTracks, ReadAttempts, MarkProbe
<1>1. ASSUME job'.phase # "idle", job'.title = t, UNCHANGED probe,
             \A i \in Probed : i # t => tracks'[i] = tracks[i]
      PROVE  UNCHANGED Results!vars
  <2>1. \A i \in Probed : Known(i)' = Known(i)
      BY <1>t, <1>0, <1>1 DEF Known
  <2>2. QED BY <1>t, <1>0, <1>1, <2>1 DEF Results!vars
<1>2. CASE BeginProbe \/ ReadAttempts \/ (\E outcome : FetchTracks(outcome))
  <2>1. job'.phase # "idle" /\ job'.title = t /\ UNCHANGED <<probe, tracks>>
      BY <1>t, <1>0, <1>2 DEF BeginProbe, ReadAttempts, FetchTracks, Job, dbVars
  <2>2. QED BY <1>1, <2>1
<1>3. CASE StoreTracks
  <2>1. job'.phase # "idle" /\ job'.title = t /\ UNCHANGED probe
      BY <1>t, <1>0, <1>3 DEF StoreTracks, Job
  <2>2. \A i \in Probed : i # t => tracks'[i] = tracks[i]
      BY <1>t, <1>0, <1>3 DEF StoreTracks
  <2>3. QED BY <1>1, <2>1, <2>2
<1>4. ASSUME NEW row, UpdateProbe(t, row), job' = IdleJob, UNCHANGED tracks,
             row.status # "ok" \/ tracks[t].found # "untagged"
      PROVE  Results!Next
  <2>1. job'.phase = "idle"
      BY <1>4 DEF IdleJob
  <2>2. \A i \in Probed : i # t => Known(i)' = Known(i)
      BY <1>t, <1>0, <1>4 DEF UpdateProbe, Known
  <2>3. Known(t) = {}
      BY <1>t, <1>0 DEF Known
  <2>4. probe'[t] \in {row, probe[t]}
      BY <1>t, <1>0, <1>4 DEF UpdateProbe
  <2>5. CASE probe'[t].status = "ok"
    <3>1. Known(t)' = {tracks[t]}
        BY <1>4, <2>5 DEF Known
    <3>2. tracks[t] \in {found \in TrackRows : found.found # "untagged"}
        BY <1>t, <1>0, <1>4, <2>4, <2>5
    <3>3. [i \in Probed |-> Known(i)']
            = [[i \in Probed |-> Known(i)] EXCEPT ![t] = {tracks[t]}]
        BY <1>t, <1>0, <2>2, <3>1
    <3>4. Results!Learn(t, tracks[t])
        BY <1>t, <1>0, <2>1, <2>3, <3>3 DEF Results!Learn
    <3>5. QED BY <1>t, <1>0, <3>2, <3>4 DEF Results!Next
  <2>6. CASE probe'[t].status # "ok"
    <3>1. \A i \in Probed : Known(i)' = Known(i)
        BY <2>2, <2>3, <2>6 DEF Known
    <3>2. Results!GiveUp
        BY <2>1, <3>1 DEF Results!GiveUp
    <3>3. QED BY <3>2 DEF Results!Next
  <2>7. QED BY <2>5, <2>6
<1>5. CASE DeferProbe
  <2> DEFINE row == [probe[t] EXCEPT !.status = "deferred", !.attempts = OneMoreAttempt(t)]
  <2>1. row.status # "ok"
      BY <1>0 DEF ProbeRow
  <2>2. UpdateProbe(t, row) /\ job' = IdleJob /\ UNCHANGED tracks
      BY <1>t, <1>5 DEF DeferProbe
  <2> HIDE DEF row
  <2>3. QED BY <1>4, <2>1, <2>2
<1>6. CASE PushBack
  <2> DEFINE row == [probe[t] EXCEPT !.next = "later"]
  <2>1. row.status # "ok"
      BY <1>0 DEF ProbeRow
  <2>2. UpdateProbe(t, row) /\ job' = IdleJob /\ UNCHANGED tracks
      BY <1>t, <1>6 DEF PushBack
  <2> HIDE DEF row
  <2>3. QED BY <1>4, <2>1, <2>2
<1>7. CASE MarkProbe
  <2> DEFINE row == MarkedRow(job.outcome, job.attempts)
  <2>1. row.status = "ok" => job.outcome = "tagged"
      BY DEF MarkedRow
  <2>2. job.outcome = "tagged" => tracks[t].found # "untagged"
      BY <1>t, <1>7 DEF MarkProbe, RowsSound, JobRowSound
  <2>3. UpdateProbe(t, row) /\ job' = IdleJob /\ UNCHANGED tracks
      BY <1>t, <1>7 DEF MarkProbe
  <2> HIDE DEF row
  <2>4. QED BY <1>4, <2>1, <2>2, <2>3
<1>8. QED BY <1>2, <1>3, <1>5, <1>6, <1>7 DEF ProbeStep, ProbeProgress

\* probe_state and audio_tracks are one notebook of confirmed results, whatever the
\* operator, two syncs, failures and restarts do between the two transactions of a
\* probe (worker.py:573, 588).
THEOREM CatalogKeepsResults == Spec => ImplementsResults
<1>1. Init => Results!Init
    BY DEF Init, DbInit, WorkerInit, IdleJob, NoProbeRow, Known, Results!Init
<1>2. TypeOK /\ RowsSound /\ [Next]_vars => [Results!Next]_(Results!vars)
    BY StepKinds, BackgroundForgets, PickAsks, ProbeLearns
<1>3. QED
    BY <1>1, <1>2, TypeCorrect, RowsStaySound, PTL DEF Spec, ImplementsResults, Results!Spec

-----------------------------------------------------------------------------
(* Fresh results, when only the crawler syncs: its loop does not sync while *)
(* it probes, so an answer is never older than the row it is stored for.    *)

OneSyncAtATime ==
    /\ sync["admin"].phase = "idle"
    /\ job.phase # "idle" => sync["crawler"].phase = "idle"

NothingFromTheFuture ==
    /\ \A i \in Item : items[i].version <= provider[i].version
    /\ \A p \in Syncer, i \in Item : sync[p].snap[i].version <= provider[i].version

JobFresh ==
    /\ job.phase # "idle" => InCatalogue(job.title)
    /\ job.phase \in {"fetched", "stored", "marking"}
          => job.version >= items[job.title].version

FreshInv == OneSyncAtATime /\ NothingFromTheFuture /\ JobFresh /\ FreshResults

\* A step that leaves the catalogue alone, and the tracks but for deletions.
LEMMA CatalogueUntouched ==
    ASSUME TypeOK, FreshInv, TypeOK',
           UNCHANGED <<provider, items, sync>>, job' \in {job, IdleJob},
           \A i \in Probed : tracks'[i] \in {tracks[i], NoTracks}
    PROVE  FreshInv'
<1> USE DEF FreshInv
<1>1. OneSyncAtATime' /\ NothingFromTheFuture'
    BY DEF OneSyncAtATime, NothingFromTheFuture, IdleJob
<1>2. JobFresh'
    BY DEF JobFresh, InCatalogue, IdleJob
<1>3. FreshResults'
    BY DEF FreshResults, InCatalogue, NoTracks
<1>4. QED BY <1>1, <1>2, <1>3

\* A step that concerns syncs only.
LEMMA OnlySyncSteps ==
    ASSUME FreshInv, UNCHANGED <<provider, items, tracks, job>>,
           NEW p \in Syncer, p = "admin" => sync'[p].phase = "idle",
           job.phase # "idle" => sync'[p].phase = "idle",
           \A q \in Syncer : q # p => sync'[q] = sync[q],
           \A i \in Item : sync'[p].snap[i].version <= provider[i].version
    PROVE  FreshInv'
  BY DEF FreshInv, OneSyncAtATime, NothingFromTheFuture, JobFresh, FreshResults,
         InCatalogue, Syncer

LEMMA SyncUnderWay ==
    ASSUME NEW p \in Syncer, SyncProgress(p) \/ FetchFails(p) \/ AbortSync(p)
    PROVE  sync[p].phase # "idle"
  BY DEF SyncProgress, FetchListing, UpsertChunk, RemoveChunk, FindVanished, FinishKind,
         PurgeOld, FinishSync, FetchFails, AbortSync

LEMMA SyncKeepsFresh ==
    ASSUME TypeOK, FreshInv, NEW p \in Syncer,
           \/ StartSync(p) /\ p = "crawler" /\ job.phase = "idle"
           \/ SyncProgress(p)
           \/ FetchFails(p)
           \/ AbortSync(p),
           UNCHANGED <<provider, job>>
    PROVE  FreshInv'
<1> USE DEF TypeOK, DbTypeOK, SyncTypeOK
<1>0. /\ IdleSync.phase = "idle"
      /\ \A i \in Item : IdleSync.snap[i].version = 0 /\ EmptySnapshot[i].version = 0
      /\ \A i \in Item : 0 <= provider[i].version
    BY MaxVersionAssumption
    DEF IdleSync, EmptySnapshot, NoEntry, ProviderTypeOK, Entry
<1>a. p = "crawler" /\ job.phase = "idle"
  <2>1. CASE sync[p].phase # "idle"
      BY <2>1 DEF FreshInv, OneSyncAtATime, Syncer
  <2>2. QED BY <2>1, SyncUnderWay
<1>1. CASE StartSync(p) \/ FetchFails(p) \/ FinishKind(p)
  <2>1. PICK filters, k : sync' = [sync EXCEPT ![p] = KindDone(filters, k)]
      BY <1>1 DEF StartSync, FetchFails, FinishKind
  <2>2. sync'[p].snap = EmptySnapshot
      BY <2>1 DEF KindDone
  <2>3. QED
      BY <1>0, <1>a, <1>1, <2>1, <2>2, OnlySyncSteps
      DEF StartSync, FetchFails, FinishKind, dbVars
<1>2. CASE AbortSync(p)
    BY <1>0, <1>a, <1>2, OnlySyncSteps DEF AbortSync, dbVars
<1>4. CASE FetchListing(p)
  <2> DEFINE snap == [i \in Item |->
                        IF i \in OfKind(sync[p].kind) /\ provider[i].listed
                        THEN provider[i] ELSE NoEntry]
  <2>1. \A i \in Item : snap[i].version <= provider[i].version
      BY MaxVersionAssumption DEF ProviderTypeOK, Entry, NoEntry
  <2>2. sync' = [sync EXCEPT ![p] = [@ EXCEPT !.phase = "upsert", !.snap = snap,
                                              !.todo = Listed(snap)]]
      BY <1>4 DEF FetchListing
  <2> HIDE DEF snap
  <2>3. sync'[p].snap = snap /\ \A q \in Syncer : q # p => sync'[q] = sync[q]
      BY <2>2 DEF SyncRun
  <2>4. UNCHANGED <<items, tracks>>
      BY <1>4 DEF FetchListing, dbVars
  <2>5. QED BY <1>a, <2>1, <2>3, <2>4, OnlySyncSteps
<1>5. CASE FindVanished(p)
  <2>1. sync'[p].snap = EmptySnapshot /\ \A q \in Syncer : q # p => sync'[q] = sync[q]
      BY <1>5 DEF FindVanished, SyncRun
  <2>2. UNCHANGED <<items, tracks>>
      BY <1>5 DEF FindVanished, dbVars
  <2>3. QED BY <1>0, <1>a, <2>1, <2>2, OnlySyncSteps
<1>6. ASSUME NEW chunk \in SUBSET sync[p].todo, UpsertChunk(p, chunk)
      PROVE  FreshInv'
  <2>2. \A q \in Syncer : sync'[q].snap = sync[q].snap /\ sync'[q].phase = sync[q].phase
      BY <1>6 DEF UpsertChunk, SyncRun
  <2>3. \A i \in Item :
            IF i \in chunk
            THEN /\ items'[i].state = "listed"
                 /\ items'[i].version = sync[p].snap[i].version
            ELSE items'[i] = items[i]
      BY <1>6 DEF UpsertChunk
  <2>1. NothingFromTheFuture'
      BY <2>2, <2>3 DEF FreshInv, NothingFromTheFuture
  <2>4. OneSyncAtATime' /\ NothingFromTheFuture' /\ JobFresh'
      BY <1>a, <2>1, <2>2 DEF FreshInv, OneSyncAtATime, JobFresh, Syncer
  <2>5. FreshResults'
    <3>1. SUFFICES ASSUME NEW i \in Probed, tracks'[i].found # "none"
                   PROVE  items'[i].state # "absent" /\ tracks'[i].version >= items'[i].version
        BY DEF FreshResults, InCatalogue
    <3>2. i \in Item
        BY KindOfProbed
    <3>3. CASE i \in chunk
      <4>1. tracks'[i] = TracksAfterUpsert(i, sync[p].snap[i])
          BY <1>6, <3>3 DEF UpsertChunk
      <4>2. ~ (InCatalogue(i) /\ IsAnotherTitle(i, sync[p].snap[i])) /\ tracks'[i] = tracks[i]
          BY <3>1, <4>1 DEF TracksAfterUpsert, NoTracks
      <4>3. InCatalogue(i) /\ tracks[i].version >= items[i].version
          BY <3>1, <4>2 DEF FreshInv, FreshResults
      <4>4. items[i].version = sync[p].snap[i].version
          BY <4>2, <4>3 DEF IsAnotherTitle
      <4>5. QED BY <2>3, <3>2, <3>3, <4>2, <4>3, <4>4
    <3>4. CASE i \notin chunk
      <4>1. tracks'[i] = tracks[i] /\ items'[i] = items[i]
          BY <1>6, <2>3, <3>2, <3>4 DEF UpsertChunk
      <4>2. QED BY <3>1, <4>1 DEF FreshInv, FreshResults, InCatalogue
    <3>5. QED BY <3>3, <3>4
  <2>6. QED BY <2>4, <2>5 DEF FreshInv
<1>7. ASSUME NEW chunk \in SUBSET sync[p].todo, RemoveChunk(p, chunk)
      PROVE  FreshInv'
  <2>2. \A q \in Syncer : sync'[q].snap = sync[q].snap /\ sync'[q].phase = sync[q].phase
      BY <1>7 DEF RemoveChunk, SyncRun
  <2>3. \A i \in Item : /\ items'[i].version = items[i].version
                        /\ items[i].state # "absent" => items'[i].state # "absent"
      BY <1>7 DEF RemoveChunk, ItemRow
  <2>4. UNCHANGED tracks
      BY <1>7 DEF RemoveChunk
  <2>5. OneSyncAtATime' /\ JobFresh'
      BY <1>a, <2>2 DEF FreshInv, OneSyncAtATime, JobFresh, Syncer
  <2>6. NothingFromTheFuture'
      BY <2>2, <2>3 DEF FreshInv, NothingFromTheFuture
  <2>7. FreshResults'
      BY <2>3, <2>4, KindOfProbed DEF FreshInv, FreshResults, InCatalogue
  <2>8. QED BY <2>5, <2>6, <2>7 DEF FreshInv
<1>8. CASE PurgeOld(p)
  <2>2. \A q \in Syncer : /\ sync'[q].snap = sync[q].snap
                          /\ q # p => sync'[q].phase = sync[q].phase
      BY <1>8 DEF PurgeOld, SyncRun
  <2>3. \A i \in Item : items'[i] = items[i] \/ items'[i].version = 0
      BY <1>8 DEF PurgeOld, NoItemRow
  <2>4. \A i \in Probed : tracks'[i].found = "none" \/
                            (tracks'[i] = tracks[i] /\ items'[i] = items[i])
      BY <1>8, KindOfProbed DEF PurgeOld, NoTracks
  <2>5. OneSyncAtATime' /\ NothingFromTheFuture' /\ JobFresh'
      BY <1>0, <1>a, <2>2, <2>3
      DEF FreshInv, OneSyncAtATime, NothingFromTheFuture, JobFresh, Syncer
  <2>6. FreshResults'
      BY <2>4 DEF FreshInv, FreshResults, InCatalogue
  <2>7. QED BY <2>5, <2>6 DEF FreshInv
<1>9. CASE FinishSync(p)
    BY <1>0, <1>a, <1>9, OnlySyncSteps DEF FinishSync
<1>10. QED
    BY <1>1, <1>2, <1>4, <1>5, <1>6, <1>7, <1>8, <1>9 DEF SyncProgress

LEMMA FreshStep ==
    ASSUME "sync_now" \notin AdminOps, TypeOK, FreshInv, [Next]_vars
    PROVE  FreshInv'
<1>0. TypeOK'
    BY TypeStep
<1>1. CASE CrawlerStartsSync
    BY <1>1, SyncKeepsFresh DEF CrawlerStartsSync, Syncer
<1>2. ASSUME NEW p \in Syncer, SyncStep(p) \/ SyncFetchFails(p) \/ SyncAborts(p)
      PROVE  FreshInv'
    BY <1>2, SyncKeepsFresh DEF SyncStep, SyncFetchFails, SyncAborts
<1>3. CASE CrawlerPicks
  <2>1. PICK i \in Probed, gated \in BOOLEAN : Pick(i, gated)
      BY <1>3 DEF CrawlerPicks
  <2>2. InCatalogue(i)
      BY <2>1 DEF Pick, Candidates, EligibleOf, Eligible, InCatalogue
  <2>3. job'.phase = "picked" /\ job'.title = i
      BY <2>1 DEF Pick, TypeOK, WorkerTypeOK, Job
  <2>4. UNCHANGED <<provider, sync>> /\ UNCHANGED dbVars /\ sync["crawler"].phase = "idle"
      BY <1>3, <2>1 DEF CrawlerPicks, Pick
  <2>5. QED
      BY <2>2, <2>3, <2>4
      DEF FreshInv, OneSyncAtATime, NothingFromTheFuture, JobFresh, FreshResults,
          InCatalogue, dbVars
<1>4. CASE ProbeStep
  <2>1. UNCHANGED <<provider, sync, items>>
      BY <1>4
      DEF ProbeStep, ProbeProgress, BeginProbe, FetchTracks, DeferProbe, PushBack,
          StoreTracks, ReadAttempts, MarkProbe, dbVars
  <2>2. job.title \in Probed /\ job.title \in Item /\ job.phase # "idle"
      BY <1>4, KindOfProbed
      DEF TypeOK, WorkerTypeOK, ProbeStep, ProbeProgress, BeginProbe, FetchTracks,
          DeferProbe, PushBack, StoreTracks, ReadAttempts, MarkProbe
  <2>3. CASE DeferProbe \/ PushBack \/ MarkProbe
    <3>1. job' = IdleJob /\ UNCHANGED tracks
        BY <2>3 DEF DeferProbe, PushBack, MarkProbe
    <3>2. QED BY <1>0, <2>1, <3>1, CatalogueUntouched
  <2>4. CASE BeginProbe
    <3>1. job'.phase = "fetching" /\ job'.title = job.title /\ UNCHANGED tracks
        BY <2>4 DEF BeginProbe, TypeOK, WorkerTypeOK, Job, dbVars
    <3>2. QED
        BY <2>1, <2>2, <3>1
        DEF FreshInv, OneSyncAtATime, NothingFromTheFuture, JobFresh, FreshResults, InCatalogue
  <2>5. ASSUME NEW outcome, FetchTracks(outcome)
        PROVE  FreshInv'
    <3>1. /\ job'.title = job.title
          /\ job'.version = provider[job.title].version
          /\ UNCHANGED tracks
        BY <2>5 DEF FetchTracks, TypeOK, WorkerTypeOK, Job, dbVars
    <3>2. job'.version >= items[job.title].version
      <4>1. items[job.title].version <= provider[job.title].version
          BY <2>2 DEF FreshInv, NothingFromTheFuture
      <4>2. items[job.title].version \in Nat /\ provider[job.title].version \in Nat
          BY <2>2, MaxVersionAssumption
          DEF TypeOK, DbTypeOK, ItemRow, ProviderTypeOK, Entry
      <4>3. QED BY <3>1, <4>1, <4>2
    <3>3. QED
        BY <2>1, <2>2, <3>1, <3>2
        DEF FreshInv, OneSyncAtATime, NothingFromTheFuture, JobFresh, FreshResults, InCatalogue
  <2>6. CASE StoreTracks
    <3>1. job'.title = job.title /\ job'.version = job.version /\ job.phase = "fetched"
        BY <2>6 DEF StoreTracks, TypeOK, WorkerTypeOK, Job
    <3>2. InCatalogue(job.title) /\ job.version >= items[job.title].version
        BY <3>1 DEF FreshInv, JobFresh
    <3>3. FreshResults'
        BY <2>1, <2>2, <2>6, <3>2
        DEF StoreTracks, FreshInv, FreshResults, InCatalogue, TypeOK, DbTypeOK
    <3>4. QED
        BY <2>1, <2>2, <3>1, <3>2, <3>3
        DEF FreshInv, OneSyncAtATime, NothingFromTheFuture, JobFresh, InCatalogue
  <2>7. CASE ReadAttempts
    <3>1. /\ job'.title = job.title /\ job'.version = job.version
          /\ job.phase \in {"fetched", "stored"} /\ UNCHANGED tracks
        BY <2>7 DEF ReadAttempts, TypeOK, WorkerTypeOK, Job, dbVars
    <3>2. QED
        BY <2>1, <2>2, <3>1
        DEF FreshInv, OneSyncAtATime, NothingFromTheFuture, JobFresh, FreshResults, InCatalogue
  <2>8. QED BY <1>4, <2>3, <2>4, <2>5, <2>6, <2>7 DEF ProbeStep, ProbeProgress
<1>5. CASE Provide
  <2>1. \A i \in Item : provider[i].version <= provider'[i].version
      BY <1>5, MaxVersionAssumption
      DEF Provide, ProviderStep, Relist, Rename, Move, TypeOK, ProviderTypeOK, Entry
  <2>2. /\ \A i \in Item : /\ items[i].version \in Nat
                           /\ provider[i].version \in Nat
                           /\ provider'[i].version \in Nat
        /\ \A p \in Syncer, i \in Item : sync[p].snap[i].version \in Nat
      BY <1>0, MaxVersionAssumption
      DEF TypeOK, ProviderTypeOK, Entry, DbTypeOK, ItemRow, SyncTypeOK, SyncRun
  <2>3. UNCHANGED <<items, tracks, sync, job>>
      BY <1>5 DEF Provide, dbVars
  <2>4. NothingFromTheFuture'
      BY <2>1, <2>2, <2>3 DEF FreshInv, NothingFromTheFuture
  <2>5. QED
      BY <2>3, <2>4
      DEF FreshInv, OneSyncAtATime, JobFresh, FreshResults, InCatalogue
<1>6. CASE Administer \/ ProbeAborts \/ CrawlerIdles \/ UNCHANGED vars
  <2>1. BackgroundStep
      BY <1>6 DEF BackgroundStep, Fault
  <2>2. UNCHANGED <<provider, items, sync>>
      BY <1>6
      DEF Administer, AdminStep, ResetAllProbes, RetryErrorProbes, ReprobeItem,
          ReprobeMatching, AddOverride, RemoveOverride, UpdateCategoryFilters,
          ProbeAborts, CrawlerIdles, vars, dbVars
  <2>3. job' \in {job, IdleJob}
      BY <1>6 DEF Administer, ProbeAborts, CrawlerIdles, vars
  <2>4. \A i \in Probed : tracks'[i] \in {tracks[i], NoTracks}
      BY <2>1, BackgroundLeavesSound DEF LeavesSound
  <2>5. QED BY <1>0, <2>2, <2>3, <2>4, CatalogueUntouched
<1>7. CASE TimePasses
  <2>1. /\ \A i \in Item : /\ items'[i].version = items[i].version
                           /\ items[i].state # "absent" => items'[i].state # "absent"
        /\ UNCHANGED <<provider, tracks, sync, job>>
      BY <1>7 DEF TimePasses, BackoffElapses, RetentionElapses, TypeOK, DbTypeOK, ItemRow
  <2>2. job.phase # "idle" => job.title \in Item
      BY KindOfProbed DEF TypeOK, WorkerTypeOK
  <2>3. OneSyncAtATime' /\ NothingFromTheFuture'
      BY <2>1 DEF FreshInv, OneSyncAtATime, NothingFromTheFuture
  <2>4. JobFresh'
      BY <2>1, <2>2 DEF FreshInv, JobFresh, InCatalogue
  <2>5. FreshResults'
      BY <2>1, KindOfProbed DEF FreshInv, FreshResults, InCatalogue
  <2>6. QED BY <2>3, <2>4, <2>5 DEF FreshInv
<1>8. CASE Restart
  <2>1. /\ IdleSync.phase = "idle" /\ IdleJob.phase = "idle"
        /\ \A i \in Item : IdleSync.snap[i].version = 0 /\ 0 <= provider[i].version
      BY MaxVersionAssumption
      DEF IdleSync, EmptySnapshot, NoEntry, IdleJob, TypeOK, ProviderTypeOK, Entry
  <2>2. QED
      BY <1>8, <2>1
      DEF Restart, dbVars, Syncer, FreshInv, OneSyncAtATime, NothingFromTheFuture,
          JobFresh, FreshResults, InCatalogue
<1>9. QED
    BY <1>1, <1>2, <1>3, <1>4, <1>5, <1>6, <1>7, <1>8 DEF Next, Fault, AdminStartsSync

\* Without POST /crawler/sync-now no result outlives the title it belongs to
\* (sync.py:151, worker.py:573).
THEOREM ResultsStayFresh ==
    ASSUME "sync_now" \notin AdminOps
    PROVE  Spec => []FreshResults
<1>1. Init => FreshInv
  <2> SUFFICES ASSUME Init
               PROVE  FreshInv
      OBVIOUS
  <2>1. OneSyncAtATime
      BY DEF Init, SyncInit, WorkerInit, OneSyncAtATime, IdleSync, IdleJob, Syncer
  <2>2. NothingFromTheFuture
      BY DEF Init, ProviderInit, DbInit, SyncInit, NothingFromTheFuture, NoItemRow,
             IdleSync, EmptySnapshot, NoEntry
  <2>3. JobFresh
      BY DEF Init, WorkerInit, JobFresh, IdleJob
  <2>4. FreshResults
      BY DEF Init, DbInit, FreshResults, NoTracks
  <2>5. QED BY <2>1, <2>2, <2>3, <2>4 DEF FreshInv
<1>2. TypeOK /\ FreshInv /\ [Next]_vars => FreshInv'
    BY FreshStep
<1>3. FreshInv => FreshResults
    BY DEF FreshInv
<1>4. QED BY <1>1, <1>2, <1>3, TypeCorrect, PTL DEF Spec

-----------------------------------------------------------------------------
(* No false removals, however many syncs overlap, fail or are aborted: what  *)
(* a sync holds against a title is a listing of the title's own kind that    *)
(* did not have it.                                                          *)

SnapshotsComplete ==
    \A p \in Syncer :
        /\ sync[p].phase = "upsert" =>
              \A i \in OfKind(sync[p].kind) : provider[i].listed => sync[p].snap[i].listed
        /\ sync[p].phase = "vanish" => \A i \in sync[p].todo : ~ provider[i].listed

ListedStay ==
    \A i \in Item : provider[i].listed => items[i].state \in {"absent", "listed"}

RemovalInv == SnapshotsComplete /\ ListedStay

\* The steps of a sync.
LEMMA SyncKeepsListed ==
    ASSUME TypeOK, RemovalInv, NEW p \in Syncer, UNCHANGED provider,
           StartSync(p) \/ SyncProgress(p) \/ FetchFails(p) \/ AbortSync(p)
    PROVE  RemovalInv'
<1> USE DEF TypeOK, SyncTypeOK, DbTypeOK, RemovalInv
<1>1. ASSUME \A q \in Syncer : q # p => sync'[q] = sync[q],
             sync'[p].phase \notin {"upsert", "vanish"}
      PROVE  SnapshotsComplete'
    BY <1>1 DEF SnapshotsComplete, OfKind
<1>2. CASE StartSync(p) \/ FetchFails(p) \/ FinishKind(p)
  <2>1. PICK filters, k : sync' = [sync EXCEPT ![p] = KindDone(filters, k)]
      BY <1>2 DEF StartSync, FetchFails, FinishKind
  <2>2. sync'[p].phase \in {"fetch", "purge"}
      BY <2>1 DEF KindDone
  <2>3. UNCHANGED items
      BY <1>2 DEF StartSync, FetchFails, FinishKind, dbVars
  <2>4. QED BY <1>1, <2>1, <2>2, <2>3 DEF ListedStay
<1>3. CASE AbortSync(p) \/ FinishSync(p)
  <2>1. sync' = [sync EXCEPT ![p] = IdleSync] /\ UNCHANGED items
      BY <1>3 DEF AbortSync, FinishSync, dbVars
  <2>2. QED BY <1>1, <2>1 DEF IdleSync, ListedStay
<1>4. CASE FetchListing(p)
  <2> DEFINE snap == [i \in Item |->
                        IF i \in OfKind(sync[p].kind) /\ provider[i].listed
                        THEN provider[i] ELSE NoEntry]
  <2>1. \A i \in OfKind(sync[p].kind) : provider[i].listed => snap[i].listed
      BY DEF OfKind
  <2>2. sync' = [sync EXCEPT ![p] = [@ EXCEPT !.phase = "upsert", !.snap = snap,
                                              !.todo = Listed(snap)]]
      BY <1>4 DEF FetchListing
  <2>3. UNCHANGED items
      BY <1>4 DEF FetchListing, dbVars
  <2> HIDE DEF snap
  <2>4. /\ sync'[p].phase = "upsert"
        /\ sync'[p].kind = sync[p].kind
        /\ sync'[p].snap = snap
        /\ \A q \in Syncer : q # p => sync'[q] = sync[q]
      BY <2>2 DEF SyncRun
  <2>5. SnapshotsComplete'
      BY <2>1, <2>4 DEF SnapshotsComplete, OfKind
  <2>6. QED BY <2>3, <2>5 DEF ListedStay
<1>5. CASE FindVanished(p)
  <2> DEFINE todo == {i \in OfKind(sync[p].kind) \ Listed(sync[p].snap) :
                         items[i].state = "listed"}
  <2>1. \A i \in todo : ~ provider[i].listed
      BY <1>5 DEF FindVanished, SnapshotsComplete, Listed, OfKind
  <2>2. sync' = [sync EXCEPT ![p] = [@ EXCEPT !.phase = "vanish",
                                              !.snap = EmptySnapshot, !.todo = todo]]
      BY <1>5 DEF FindVanished
  <2>3. UNCHANGED items
      BY <1>5 DEF FindVanished, dbVars
  <2> HIDE DEF todo
  <2>4. /\ sync'[p].phase = "vanish"
        /\ sync'[p].todo = todo
        /\ \A q \in Syncer : q # p => sync'[q] = sync[q]
      BY <2>2 DEF SyncRun
  <2>5. SnapshotsComplete'
      BY <2>1, <2>4 DEF SnapshotsComplete, OfKind
  <2>6. QED BY <2>3, <2>5 DEF ListedStay
<1>6. ASSUME NEW chunk \in SUBSET sync[p].todo, UpsertChunk(p, chunk)
      PROVE  RemovalInv'
  <2>1. \A q \in Syncer : /\ sync'[q].phase = sync[q].phase
                          /\ sync'[q].kind = sync[q].kind
                          /\ sync'[q].snap = sync[q].snap
                          /\ sync'[q].todo \subseteq sync[q].todo
      BY <1>6 DEF UpsertChunk, SyncRun
  <2>2. SnapshotsComplete'
      BY <2>1 DEF SnapshotsComplete, OfKind
  <2>3. ListedStay'
      BY <1>6 DEF UpsertChunk, ListedStay
  <2>4. QED BY <2>2, <2>3
<1>7. ASSUME NEW chunk \in SUBSET sync[p].todo, RemoveChunk(p, chunk)
      PROVE  RemovalInv'
  <2>1. \A q \in Syncer : /\ sync'[q].phase = sync[q].phase
                          /\ sync'[q].kind = sync[q].kind
                          /\ sync'[q].snap = sync[q].snap
                          /\ sync'[q].todo \subseteq sync[q].todo
      BY <1>7 DEF RemoveChunk, SyncRun
  <2>2. SnapshotsComplete'
      BY <2>1 DEF SnapshotsComplete, OfKind
  <2>3. \A i \in chunk : ~ provider[i].listed
      BY <1>7 DEF RemoveChunk, SnapshotsComplete
  <2>4. ListedStay'
      BY <1>7, <2>3 DEF RemoveChunk, ListedStay
  <2>5. QED BY <2>2, <2>4
<1>8. CASE PurgeOld(p)
  <2>1. /\ sync'[p].phase = "filters"
        /\ \A q \in Syncer : q # p => sync'[q] = sync[q]
      BY <1>8 DEF PurgeOld, SyncRun
  <2>2. ListedStay'
      BY <1>8 DEF PurgeOld, ListedStay, NoItemRow
  <2>3. QED BY <1>1, <2>1, <2>2
<1>9. QED
    BY <1>2, <1>3, <1>4, <1>5, <1>6, <1>7, <1>8 DEF SyncProgress

LEMMA RemovalStep ==
    ASSUME "list" \notin ProviderChanges, TypeOK, RemovalInv, [Next]_vars
    PROVE  RemovalInv'
<1> USE DEF RemovalInv
<1>1. ASSUME UNCHANGED <<items, sync>>,
             \A i \in Item : provider'[i].listed = provider[i].listed
      PROVE  RemovalInv'
  <2>1. SnapshotsComplete'
    <3>1. \A p \in Syncer : sync[p].todo \subseteq Item
        BY DEF TypeOK, SyncTypeOK, SyncRun
    <3>2. \A k : OfKind(k) \subseteq Item
        BY DEF OfKind
    <3>3. \A k : OfKind(k)' = OfKind(k)
        BY DEF OfKind
    <3>4. QED BY <1>1, <3>1, <3>2, <3>3 DEF SnapshotsComplete
  <2>2. ListedStay'
      BY <1>1 DEF ListedStay
  <2>3. QED BY <2>1, <2>2
<1>2. CASE CrawlerStartsSync \/ AdminStartsSync
    BY <1>2, SyncKeepsListed DEF CrawlerStartsSync, AdminStartsSync, Syncer
<1>3. ASSUME NEW p \in Syncer, SyncStep(p) \/ SyncFetchFails(p) \/ SyncAborts(p)
      PROVE  RemovalInv'
    BY <1>3, SyncKeepsListed DEF SyncStep, SyncFetchFails, SyncAborts
<1>4. CASE Provide
  <2>1. UNCHANGED <<items, sync>>
      BY <1>4 DEF Provide, dbVars
  <2>2. \A i \in Item : provider'[i].listed = provider[i].listed
      BY <1>4
      DEF Provide, ProviderStep, Relist, Rename, Move, TypeOK, ProviderTypeOK, Entry
  <2>3. QED BY <1>1, <2>1, <2>2
<1>5. CASE CrawlerPicks \/ ProbeStep \/ Administer \/ ProbeAborts \/ CrawlerIdles
           \/ UNCHANGED vars
  <2>1. UNCHANGED <<items, sync, provider>>
      BY <1>5
      DEF CrawlerPicks, Pick, ProbeStep, ProbeProgress, BeginProbe, FetchTracks, DeferProbe,
          PushBack, StoreTracks, ReadAttempts, MarkProbe, Administer, AdminStep,
          ResetAllProbes, RetryErrorProbes, ReprobeItem, ReprobeMatching, AddOverride,
          RemoveOverride, UpdateCategoryFilters, ProbeAborts, CrawlerIdles, vars, dbVars
  <2>2. QED BY <1>1, <2>1
<1>6. CASE TimePasses
  <2>1. /\ UNCHANGED <<provider, sync>>
        /\ \A i \in Item : items'[i] = items[i] \/ items[i].state = "removed"
      BY <1>6 DEF TimePasses, BackoffElapses, RetentionElapses, TypeOK, DbTypeOK
  <2>2. ListedStay'
      BY <2>1 DEF ListedStay
  <2>3. SnapshotsComplete'
      BY <2>1 DEF SnapshotsComplete, OfKind
  <2>4. QED BY <2>2, <2>3
<1>7. CASE Restart
  <2>1. SnapshotsComplete'
      BY <1>7 DEF Restart, SnapshotsComplete, IdleSync
  <2>2. ListedStay'
      BY <1>7 DEF Restart, dbVars, ListedStay
  <2>3. QED BY <2>1, <2>2
<1>8. QED BY <1>2, <1>3, <1>4, <1>5, <1>6, <1>7 DEF Next, Fault

\* A provider that drops nothing loses nothing (sync.py:168).
THEOREM NothingIsRemovedFalsely == Spec => []NoFalseRemoval
<1>1. Init => RemovalInv
  <2>1. Init => SnapshotsComplete
      BY DEF Init, SyncInit, SnapshotsComplete, IdleSync
  <2>2. Init => ListedStay
      BY DEF Init, DbInit, ListedStay, NoItemRow
  <2>3. QED BY <2>1, <2>2 DEF RemovalInv
<1>2. CASE "list" \notin ProviderChanges
  <2>1. TypeOK /\ RemovalInv /\ [Next]_vars => RemovalInv'
      BY <1>2, RemovalStep
  <2>2. RemovalInv => NoFalseRemoval
      BY DEF RemovalInv, ListedStay, NoFalseRemoval
  <2>3. QED BY <1>1, <2>1, <2>2, TypeCorrect, PTL DEF Spec
<1>3. CASE "list" \in ProviderChanges
  <2>1. NoFalseRemoval
      BY <1>3 DEF NoFalseRemoval
  <2>2. QED BY <2>1, PTL
<1>4. QED BY <1>2, <1>3

-----------------------------------------------------------------------------
(* The catalogue converges: what TLC checks of CatalogueConverges,          *)
(* FiltersConverge and QueueDrains is proved for each title of any          *)
(* catalogue, but for the scheduling: that a sync comes to the end of a     *)
(* kind again and again is assumed here, and follows from Fairness there.   *)

\* What goes on once the provider, the operator and the failures have come to
\* rest; a sync the operator began is over or stands still.
CalmStep ==
    \/ CrawlerStartsSync
    \/ SyncStep("crawler")
    \/ SyncFetchFails("crawler")
    \/ CrawlerPicks
    \/ ProbeStep
    \/ TimePasses

\* The crawler's sync is done with a listing that i might be in.
CompletesKindOf(i) ==
    /\ i \in OfKind(sync["crawler"].kind)
    /\ FinishKind("crawler")

\* The crawler's sync has got i from the provider as it is now, and what it has
\* done and has left to do about i will make the catalogue agree.
RunRight(i) ==
    LET run == sync["crawler"]
    IN  /\ run.phase = "upsert" =>
              /\ i \in OfKind(run.kind) /\ provider[i].listed => run.snap[i] = provider[i]
              /\ i \in OfKind(run.kind) /\ run.snap[i].listed => provider[i].listed
              /\ i \in run.todo => i \in OfKind(run.kind) /\ provider[i].listed
              /\ i \in OfKind(run.kind) \ run.todo /\ provider[i].listed => Agrees(i)
        /\ run.phase = "vanish" =>
              /\ i \in run.todo => ~ provider[i].listed
              /\ i \in OfKind(run.kind) /\ provider[i].listed => Agrees(i)
              /\ i \in OfKind(run.kind) /\ items[i].state = "listed"
                    => provider[i].listed \/ i \in run.todo

\* A sync that has fetched nothing yet, or has nothing of it left, is right.
LEMMA RightOutside ==
    ASSUME NEW i, sync'["crawler"].phase \notin {"upsert", "vanish"}
    PROVE  RunRight(i)'
  BY DEF RunRight

\* Any end of a kind is such a moment.
LEMMA RightAfterKind ==
    ASSUME TypeOK, FinishKind("crawler"), NEW i
    PROVE  RunRight(i)'
<1>1. sync' = [sync EXCEPT !["crawler"] = KindDone(@.filters, @.kind)]
    BY DEF FinishKind
<1>2. "crawler" \in DOMAIN sync
    BY DEF TypeOK, SyncTypeOK, Syncer
<1>3. sync'["crawler"].phase \in {"fetch", "purge"}
    BY <1>1, <1>2 DEF KindDone
<1>4. QED BY <1>3, RightOutside

\* Time marks a title the provider has dropped as expired.
MayExpire(j) ==
    \/ items'[j] = items[j]
    \/ /\ items[j].state = "removed"
       /\ items'[j] = [items[j] EXCEPT !.state = "expired"]

\* That is all that steps not of the sync do to the catalogue.
LEMMA CalmElsewhere ==
    ASSUME TypeOK, NEW i \in Item, UNCHANGED <<provider, sync>>, MayExpire(i)
    PROVE  /\ RunRight(i) => RunRight(i)'
           /\ Agrees(i) => Agrees(i)'
<1>1. items[i] \in ItemRow
    BY DEF TypeOK, DbTypeOK
<1>2. \/ items'[i] = items[i]
      \/ items[i].state = "removed" /\ items'[i].state = "expired"
    BY <1>1 DEF ItemRow, MayExpire
<1>3. Agrees(i) => Agrees(i)'
    BY <1>2 DEF Agrees
<1>4. QED BY <1>2, <1>3 DEF RunRight, OfKind

LEMMA CalmKinds ==
    ASSUME TypeOK, [CalmStep]_vars
    PROVE  /\ UNCHANGED <<provider, noProbe, overrides>>
           /\ \/ UNCHANGED sync /\ \A j \in Item : MayExpire(j)
              \/ StartSync("crawler")
              \/ SyncProgress("crawler")
              \/ FetchFails("crawler")
<1> USE DEF TypeOK, DbTypeOK
<1>0. UNCHANGED items => \A j \in Item : MayExpire(j)
    BY DEF MayExpire
<1>1. CASE UNCHANGED vars
    BY <1>0, <1>1 DEF vars, dbVars
<1>2. CASE CrawlerStartsSync
    BY <1>2 DEF CrawlerStartsSync, StartSync, dbVars
<1>3. CASE SyncStep("crawler")
    BY <1>3 DEF SyncStep, SyncProgress, FetchListing, UpsertChunk, RemoveChunk,
                FindVanished, FinishKind, PurgeOld, FinishSync, dbVars
<1>4. CASE SyncFetchFails("crawler")
    BY <1>4 DEF SyncFetchFails, FetchFails, dbVars
<1>5. CASE CrawlerPicks
    BY <1>0, <1>5 DEF CrawlerPicks, Pick, dbVars
<1>6. CASE ProbeStep
    BY <1>0, <1>6 DEF ProbeStep, ProbeProgress, BeginProbe, FetchTracks, DeferProbe, PushBack,
                StoreTracks, ReadAttempts, MarkProbe, dbVars
<1>7. CASE TimePasses
  <2>1. CASE \E j \in Probed : BackoffElapses(j)
      BY <1>0, <1>7, <2>1 DEF TimePasses, BackoffElapses
  <2>2. CASE \E j \in Item : RetentionElapses(j)
    <3>1. PICK j \in Item : RetentionElapses(j)
        BY <2>2
    <3>2. /\ items[j].state = "removed"
          /\ items' = [items EXCEPT ![j] = [items[j] EXCEPT !.state = "expired"]]
        BY <3>1 DEF RetentionElapses
    <3>3. \A k \in Item : MayExpire(k)
        BY <3>2 DEF MayExpire
    <3>4. QED BY <1>7, <3>1, <3>3 DEF TimePasses, RetentionElapses
  <2>3. QED BY <1>7, <2>1, <2>2 DEF TimePasses
<1>8. QED BY <1>1, <1>2, <1>3, <1>4, <1>5, <1>6, <1>7 DEF CalmStep

\* The sync of the crawler, step by step.
LEMMA CalmSync ==
    ASSUME TypeOK, NEW i \in Item, RunRight(i), UNCHANGED provider,
           StartSync("crawler") \/ SyncProgress("crawler") \/ FetchFails("crawler")
    PROVE  /\ RunRight(i)'
           /\ Agrees(i) => Agrees(i)'
           /\ CompletesKindOf(i) => Agrees(i)'
<1> DEFINE run == sync["crawler"]
           next == sync'["crawler"]
<1>0. /\ sync \in [Syncer -> SyncRun] /\ "crawler" \in Syncer /\ run \in SyncRun
      /\ items \in [Item -> ItemRow] /\ items[i] \in ItemRow
      /\ provider \in [Item -> Entry] /\ provider[i] \in Entry
    BY DEF TypeOK, SyncTypeOK, DbTypeOK, ProviderTypeOK, Syncer
<1>1. CASE StartSync("crawler") \/ FetchFails("crawler") \/ FinishKind("crawler")
  <2>1. PICK filters, k : sync' = [sync EXCEPT !["crawler"] = KindDone(filters, k)]
      BY <1>1 DEF StartSync, FetchFails, FinishKind
  <2>2. next.phase \in {"fetch", "purge"}
      BY <1>0, <2>1 DEF KindDone
  <2>3. RunRight(i)'
      BY <2>2, RightOutside
  <2>4. UNCHANGED items
      BY <1>1 DEF StartSync, FetchFails, FinishKind, dbVars
  <2>5. Agrees(i) => Agrees(i)'
      BY <2>4 DEF Agrees
  <2>6. CompletesKindOf(i) => Agrees(i)
    <3>1. SUFFICES ASSUME CompletesKindOf(i)
                   PROVE  Agrees(i)
        OBVIOUS
    <3>2. run.phase = "vanish" /\ run.todo = {} /\ i \in OfKind(run.kind)
        BY <3>1 DEF CompletesKindOf, FinishKind
    <3>3. QED BY <3>2 DEF RunRight, Agrees
  <2>7. QED BY <2>3, <2>5, <2>6
<1>2. ASSUME ~ FinishKind("crawler")
      PROVE  ~ CompletesKindOf(i)
    BY <1>2 DEF CompletesKindOf
<1>3. CASE FetchListing("crawler")
  <2> DEFINE snap == [j \in Item |->
                        IF j \in OfKind(sync["crawler"].kind) /\ provider[j].listed
                        THEN provider[j] ELSE NoEntry]
  <2>1. sync' = [sync EXCEPT !["crawler"] = [@ EXCEPT !.phase = "upsert", !.snap = snap,
                                                      !.todo = Listed(snap)]]
      BY <1>3 DEF FetchListing
  <2>2. snap[i] = IF i \in OfKind(run.kind) /\ provider[i].listed THEN provider[i] ELSE NoEntry
      OBVIOUS
  <2> HIDE DEF snap
  <2>3. next.phase = "upsert" /\ next.kind = run.kind /\ next.snap = snap
        /\ next.todo = Listed(snap)
      BY <1>0, <2>1 DEF SyncRun
  <2>4. i \in Listed(snap) <=> i \in OfKind(run.kind) /\ provider[i].listed
      BY <2>2 DEF Listed, NoEntry
  <2>5. i \in OfKind(run.kind) /\ snap[i].listed => provider[i].listed
      BY <2>2 DEF NoEntry
  <2>6. UNCHANGED items
      BY <1>3 DEF FetchListing, dbVars
  <2>7. OfKind(next.kind) = OfKind(run.kind)
      BY <2>3
  <2>8. RunRight(i)'
      BY <2>2, <2>3, <2>4, <2>5, <2>7 DEF RunRight, OfKind
  <2>9. QED BY <1>3, <2>6, <2>8 DEF Agrees, CompletesKindOf, FinishKind, FetchListing
<1>4. ASSUME NEW chunk \in SUBSET run.todo, UpsertChunk("crawler", chunk)
      PROVE  RunRight(i)' /\ (Agrees(i)' \/ UNCHANGED items[i])
  <2>1. run.phase = "upsert" /\ sync' = [sync EXCEPT !["crawler"].todo = @ \ chunk]
      BY <1>4 DEF UpsertChunk
  <2>2. next.phase = "upsert" /\ next.kind = run.kind /\ next.snap = run.snap
        /\ next.todo = run.todo \ chunk
      BY <1>0, <2>1 DEF SyncRun
  <2>3. CASE i \in chunk
    <3>1. i \in OfKind(run.kind) /\ provider[i].listed /\ run.snap[i] = provider[i]
        BY <2>1, <2>3 DEF RunRight
    <3>2. items'[i] = [state |-> "listed", version |-> run.snap[i].version,
                       cat |-> run.snap[i].cat]
        BY <1>4, <2>3 DEF UpsertChunk
    <3>3. Agrees(i)'
        BY <3>1, <3>2 DEF Agrees
    <3>4. RunRight(i)'
        BY <2>1, <2>2, <3>1, <3>3 DEF RunRight, OfKind
    <3>5. QED BY <3>3, <3>4
  <2>4. CASE i \notin chunk
    <3>1. items'[i] = items[i]
        BY <1>4, <2>4 DEF UpsertChunk
    <3>2. Agrees(i) <=> Agrees(i)'
        BY <3>1 DEF Agrees
    <3>3. RunRight(i)'
        BY <2>1, <2>2, <2>4, <3>1, <3>2 DEF RunRight, OfKind
    <3>4. QED BY <3>1, <3>3
  <2>5. QED BY <2>3, <2>4
<1>5. CASE FindVanished("crawler")
  <2> DEFINE todo == {j \in OfKind(run.kind) \ Listed(run.snap) : items[j].state = "listed"}
  <2>1. run.phase = "upsert" /\ run.todo = {}
        /\ sync' = [sync EXCEPT !["crawler"] = [@ EXCEPT !.phase = "vanish",
                                              !.snap = EmptySnapshot, !.todo = todo]]
      BY <1>5 DEF FindVanished
  <2>2. UNCHANGED items
      BY <1>5 DEF FindVanished, dbVars
  <2>3. i \in todo <=> i \in OfKind(run.kind) /\ ~ run.snap[i].listed /\ items[i].state = "listed"
      BY DEF Listed
  <2> HIDE DEF todo
  <2>4. next.phase = "vanish" /\ next.kind = run.kind /\ next.todo = todo
      BY <1>0, <2>1 DEF SyncRun
  <2>5. Agrees(i) <=> Agrees(i)'
      BY <2>2 DEF Agrees
  <2>6. i \in OfKind(run.kind) => (provider[i].listed <=> run.snap[i].listed)
      BY <2>1 DEF RunRight
  <2>7. i \in OfKind(run.kind) /\ provider[i].listed => Agrees(i)
      BY <2>1 DEF RunRight
  <2>8. RunRight(i)'
      BY <2>2, <2>3, <2>4, <2>5, <2>6, <2>7 DEF RunRight, OfKind
  <2>9. QED BY <1>5, <2>1, <2>5, <2>8 DEF CompletesKindOf, FinishKind
<1>6. ASSUME NEW chunk \in SUBSET run.todo, RemoveChunk("crawler", chunk)
      PROVE  RunRight(i)' /\ (Agrees(i) => Agrees(i)')
  <2>1. run.phase = "vanish" /\ sync' = [sync EXCEPT !["crawler"].todo = @ \ chunk]
      BY <1>6 DEF RemoveChunk
  <2>2. next.phase = "vanish" /\ next.kind = run.kind /\ next.todo = run.todo \ chunk
      BY <1>0, <2>1 DEF SyncRun
  <2>3. CASE i \in chunk
    <3>1. ~ provider[i].listed
        BY <2>1, <2>3 DEF RunRight
    <3>2. items'[i] = IF InCatalogue(i) THEN [items[i] EXCEPT !.state = "removed"] ELSE items[i]
        BY <1>6, <2>3 DEF RemoveChunk
    <3>3. items'[i].state # "listed"
        BY <1>0, <3>2 DEF InCatalogue, ItemRow
    <3>4. Agrees(i)'
        BY <3>1, <3>3 DEF Agrees
    <3>5. RunRight(i)'
        BY <2>2, <3>1, <3>3 DEF RunRight
    <3>6. QED BY <3>4, <3>5
  <2>4. CASE i \notin chunk
    <3>1. items'[i] = items[i]
        BY <1>6, <2>4 DEF RemoveChunk
    <3>2. Agrees(i) <=> Agrees(i)'
        BY <3>1 DEF Agrees
    <3>3. RunRight(i)'
        BY <2>1, <2>2, <2>4, <3>1, <3>2 DEF RunRight, OfKind
    <3>4. QED BY <3>2, <3>3
  <2>5. QED BY <2>3, <2>4
<1>7. CASE PurgeOld("crawler") \/ FinishSync("crawler")
  <2>1. next.phase \in {"filters", "idle"}
      BY <1>0, <1>7 DEF PurgeOld, FinishSync, IdleSync, SyncRun
  <2>2. RunRight(i)'
      BY <2>1, RightOutside
  <2>3. \/ items'[i] = items[i]
        \/ items[i].state = "expired" /\ items'[i] = NoItemRow
      BY <1>7 DEF PurgeOld, FinishSync
  <2>4. Agrees(i) => Agrees(i)'
      BY <2>3 DEF Agrees, NoItemRow
  <2>5. QED BY <1>7, <2>2, <2>4 DEF CompletesKindOf, FinishKind, PurgeOld, FinishSync
<1>8. CASE FinishKind("crawler")
    BY <1>1, <1>8
<1>9. CASE \E chunk \in SUBSET run.todo :
              UpsertChunk("crawler", chunk) \/ RemoveChunk("crawler", chunk)
  <2>1. PICK chunk \in SUBSET run.todo :
              UpsertChunk("crawler", chunk) \/ RemoveChunk("crawler", chunk)
      BY <1>9
  <2>2. RunRight(i)' /\ (Agrees(i) => Agrees(i)')
    <3>1. CASE UpsertChunk("crawler", chunk)
      <4>1. UNCHANGED items[i] => (Agrees(i) => Agrees(i)')
          BY DEF Agrees
      <4>2. QED BY <1>4, <3>1, <4>1
    <3>2. CASE RemoveChunk("crawler", chunk)
        BY <1>6, <3>2
    <3>3. QED BY <2>1, <3>1, <3>2
  <2>3. CompletesKindOf(i) => Agrees(i)'
    <3>1. CASE FinishKind("crawler")
        BY <1>8, <3>1
    <3>2. QED BY <1>2, <3>1
  <2>4. QED BY <2>2, <2>3
<1>10. QED
    BY <1>1, <1>3, <1>5, <1>7, <1>8, <1>9 DEF SyncProgress

\* In the calm nothing turns a right sync wrong, and none that is right leaves the
\* title other than the provider has it.
LEMMA CalmKeeps ==
    ASSUME TypeOK, NEW i \in Item, RunRight(i), [CalmStep]_vars
    PROVE  /\ RunRight(i)'
           /\ Agrees(i) => Agrees(i)'
           /\ CompletesKindOf(i) => Agrees(i)'
<1>1. UNCHANGED provider
    BY CalmKinds
<1>2. CASE StartSync("crawler") \/ SyncProgress("crawler") \/ FetchFails("crawler")
    BY <1>1, <1>2, CalmSync
<1>3. CASE ~ (StartSync("crawler") \/ SyncProgress("crawler") \/ FetchFails("crawler"))
  <2>1. ~ CompletesKindOf(i)
      BY <1>3 DEF CompletesKindOf, SyncProgress
  <2>2. QED BY <1>1, <1>3, <2>1, CalmKinds, CalmElsewhere
<1>4. QED BY <1>2, <1>3

\* In the end the catalogue says of a title what the provider says, for good, if
\* syncs come to the end of its kind again and again.
THEOREM TitleConverges ==
    ASSUME NEW i \in Item
    PROVE  Spec /\ <>[][CalmStep]_vars /\ []<><<CompletesKindOf(i)>>_vars
              => <>[]Agrees(i)
<1>1. TypeOK /\ <<CompletesKindOf(i)>>_vars => RunRight(i)'
    BY RightAfterKind DEF CompletesKindOf
<1>2. TypeOK /\ RunRight(i) /\ [CalmStep]_vars
        => /\ RunRight(i)'
           /\ Agrees(i) => Agrees(i)'
           /\ <<CompletesKindOf(i)>>_vars => Agrees(i)'
    BY CalmKeeps
<1>3. QED BY <1>1, <1>2, TypeCorrect, PTL

-----------------------------------------------------------------------------
\* The crawler does one thing at a time.
OneThingAtATime == job.phase # "idle" => sync["crawler"].phase = "idle"

\* The filters in force are to keep i from being probed.
KeptOut(i) ==
    InCatalogue(i) /\ items[i].cat \in noProbe[KindOf(i)] /\ i \notin overrides

\* A probe of such a title is one of a failed title, and will not defer it.
JobFollows(i) ==
    job.phase # "idle" /\ job.title = i /\ KeptOut(i) =>
        /\ probe[i].status = "error"
        /\ job.phase # "picked" => job.allow
        /\ job.phase \notin {"picked", "fetching"} => job.outcome # "defer"

\* The sync under way carries the filters that are in force.
FiltersHeld == sync["crawler"].phase # "idle" => sync["crawler"].filters = noProbe

LEMMA OneThingStep == TypeOK /\ OneThingAtATime /\ [Next]_vars => OneThingAtATime'
<1> SUFFICES ASSUME TypeOK, OneThingAtATime, [Next]_vars
             PROVE  OneThingAtATime'
    OBVIOUS
<1> USE DEF TypeOK, SyncTypeOK, Syncer, OneThingAtATime
<1>1. CASE CrawlerPicks
    BY <1>1 DEF CrawlerPicks
<1>2. CASE ProbeStep
    BY <1>2 DEF ProbeStep, ProbeProgress, BeginProbe, FetchTracks, DeferProbe, PushBack,
                StoreTracks, ReadAttempts, MarkProbe
<1>3. CASE CrawlerStartsSync
    BY <1>3 DEF CrawlerStartsSync
<1>4. CASE AdminStartsSync
    BY <1>4 DEF AdminStartsSync, StartSync
<1>5. ASSUME NEW p \in Syncer, SyncStep(p) \/ SyncFetchFails(p) \/ SyncAborts(p)
      PROVE  OneThingAtATime'
  <2>1. SyncProgress(p) \/ FetchFails(p) \/ AbortSync(p)
      BY <1>5 DEF SyncStep, SyncFetchFails, SyncAborts
  <2>2. sync[p].phase # "idle"
      BY <2>1, SyncUnderWay
  <2>3. UNCHANGED job
      BY <1>5 DEF SyncStep, SyncFetchFails, SyncAborts
  <2>4. p # "crawler" => sync'["crawler"] = sync["crawler"]
      BY <2>1 DEF SyncProgress, FetchListing, UpsertChunk, RemoveChunk, FindVanished,
                  FinishKind, PurgeOld, FinishSync, FetchFails, AbortSync
  <2>5. QED BY <2>2, <2>3, <2>4
<1>6. CASE ProbeAborts \/ Restart
    BY <1>6 DEF ProbeAborts, Restart, IdleJob
<1>7. CASE Provide \/ Administer \/ TimePasses \/ CrawlerIdles \/ UNCHANGED vars
    BY <1>7 DEF Provide, Administer, TimePasses, CrawlerIdles, vars
<1>8. QED BY <1>1, <1>2, <1>3, <1>4, <1>5, <1>6, <1>7 DEF Next, Fault

\* Once the catalogue agrees with the provider, calm steps leave the title where it
\* is, and a sync leaves its row alone until it applies its filters.
LEMMA CalmRow ==
    ASSUME TypeOK, NEW i \in Probed, RunRight(i), Agrees(i), UNCHANGED provider,
           StartSync("crawler") \/ SyncProgress("crawler") \/ FetchFails("crawler"),
           ~ FinishSync("crawler")
    PROVE  \/ UNCHANGED probe[i] /\ UNCHANGED items[i]
           \/ ~ InCatalogue(i)' /\ probe'[i].status = "none"
           \/ /\ UNCHANGED probe[i]
              /\ items[i].cat = items'[i].cat /\ InCatalogue(i)' /\ InCatalogue(i)
<1> DEFINE run == sync["crawler"]
<1>0. /\ i \in Item /\ items[i] \in ItemRow /\ provider[i] \in Entry
      /\ items \in [Item -> ItemRow] /\ probe \in [Probed -> ProbeRow]
    BY KindOfProbed DEF TypeOK, DbTypeOK, ProviderTypeOK
<1>1. ASSUME NEW chunk \in SUBSET run.todo, UpsertChunk("crawler", chunk)
      PROVE  UNCHANGED probe[i] /\ UNCHANGED items[i]
  <2>1. CASE i \notin chunk
      BY <1>0, <1>1, <2>1 DEF UpsertChunk
  <2>2. CASE i \in chunk
    <3>1. provider[i].listed /\ run.snap[i] = provider[i]
        BY <1>1, <2>2 DEF RunRight, UpsertChunk
    <3>2. items[i] = [state |-> "listed", version |-> run.snap[i].version,
                      cat |-> run.snap[i].cat]
        BY <3>1 DEF Agrees
    <3>3. InCatalogue(i) /\ ~ IsAnotherTitle(i, run.snap[i])
        BY <3>2 DEF InCatalogue, IsAnotherTitle
    <3>4. ProbeAfterUpsert(i, run.snap[i]) = probe[i]
        BY <3>3 DEF ProbeAfterUpsert
    <3>5. QED BY <1>0, <1>1, <2>2, <3>2, <3>4 DEF UpsertChunk
  <2>3. QED BY <2>1, <2>2
<1>2. ASSUME NEW chunk \in SUBSET run.todo, RemoveChunk("crawler", chunk)
      PROVE  \/ UNCHANGED probe[i] /\ UNCHANGED items[i]
             \/ /\ UNCHANGED probe[i]
                /\ items[i].cat = items'[i].cat /\ InCatalogue(i)' /\ InCatalogue(i)
  <2>1. UNCHANGED probe[i]
      BY <1>2 DEF RemoveChunk
  <2>2. CASE i \in chunk /\ InCatalogue(i)
    <3>1. items'[i] = [items[i] EXCEPT !.state = "removed"]
        BY <1>0, <1>2, <2>2 DEF RemoveChunk
    <3>2. items'[i].cat = items[i].cat /\ items'[i].state = "removed"
        BY <1>0, <3>1 DEF ItemRow
    <3>3. QED BY <2>1, <2>2, <3>2 DEF InCatalogue
  <2>3. CASE ~ (i \in chunk /\ InCatalogue(i))
      BY <1>0, <1>2, <2>1, <2>3 DEF RemoveChunk
  <2>4. QED BY <2>2, <2>3
<1>3. CASE PurgeOld("crawler")
  <2>1. CASE items[i].state = "expired"
      BY <1>0, <1>3, <2>1 DEF PurgeOld, InCatalogue, NoItemRow, NoProbeRow
  <2>2. CASE items[i].state # "expired"
      BY <1>0, <1>3, <2>2 DEF PurgeOld
  <2>3. QED BY <2>1, <2>2
<1>4. CASE \/ StartSync("crawler") \/ FetchFails("crawler") \/ FetchListing("crawler")
           \/ FindVanished("crawler") \/ FinishKind("crawler")
    BY <1>4 DEF StartSync, FetchFails, FetchListing, FindVanished, FinishKind, dbVars
<1>5. QED BY <1>1, <1>2, <1>3, <1>4 DEF SyncProgress

\* What follows the filters goes on to, as long as the row stays or goes with the
\* title.
LEMMA RowFollows ==
    ASSUME TypeOK, NEW i \in Probed, FollowsFilters(i), UNCHANGED <<noProbe, overrides>>,
           \/ UNCHANGED probe[i] /\ UNCHANGED items[i]
           \/ ~ InCatalogue(i)' /\ probe'[i].status = "none"
           \/ /\ probe'[i].status = probe[i].status
              /\ items[i].cat = items'[i].cat /\ InCatalogue(i)' /\ InCatalogue(i)
    PROVE  FollowsFilters(i)'
  BY DEF FollowsFilters, SkippedBy, InCatalogue

\* A sync that ends with the filters in force makes every row follow them.
LEMMA FinishFollows ==
    ASSUME TypeOK, NEW i \in Probed, FiltersHeld, FinishSync("crawler"),
           UNCHANGED <<noProbe, overrides>>
    PROVE  FollowsFilters(i)'
<1>1. probe'[i] = WithCategoryFilters(noProbe)[i] /\ UNCHANGED items
    BY DEF FinishSync, FiltersHeld
<1>2. probe'[i] = CASE SkippedBy(noProbe, i)  -> [probe[i] EXCEPT !.status = "skipped"]
                    [] ReleasedBy(noProbe, i) -> [probe[i] EXCEPT !.status = "pending"]
                    [] OTHER                  -> probe[i]
    BY <1>1 DEF WithCategoryFilters
<1>3. probe[i] \in ProbeRow
    BY DEF TypeOK, DbTypeOK
<1>4. CASE SkippedBy(noProbe, i)
  <2>1. probe'[i].status = "skipped"
    <3>1. ~ ReleasedBy(noProbe, i)
        BY <1>4 DEF SkippedBy, ReleasedBy
    <3>2. probe'[i] = [probe[i] EXCEPT !.status = "skipped"]
        BY <1>2, <1>4, <3>1
    <3>3. QED BY <1>3, <3>2 DEF ProbeRow
  <2>2. QED BY <1>1, <1>4, <2>1 DEF FollowsFilters, SkippedBy, InCatalogue
<1>5. CASE ~ SkippedBy(noProbe, i) /\ ReleasedBy(noProbe, i)
  <2>1. probe'[i].status = "pending"
      BY <1>2, <1>3, <1>5 DEF ProbeRow
  <2>2. ~ (InCatalogue(i) /\ items[i].cat \in noProbe[KindOf(i)])
      BY <1>5 DEF ReleasedBy
  <2>3. QED BY <1>1, <2>1, <2>2 DEF FollowsFilters, SkippedBy, InCatalogue
<1>6. CASE ~ SkippedBy(noProbe, i) /\ ~ ReleasedBy(noProbe, i)
  <2>1. probe'[i] = probe[i]
      BY <1>2, <1>6
  <2>2. QED BY <1>1, <1>6, <2>1 DEF FollowsFilters, SkippedBy, ReleasedBy, InCatalogue
<1>7. QED BY <1>4, <1>5, <1>6

\* The probe of a title that is kept out leaves it failed or settled, and that of
\* another one changes nothing that matters.
LEMMA ProbeFollows ==
    ASSUME TypeOK, NEW i \in Probed, FollowsFilters(i), JobFollows(i), ProbeProgress,
           UNCHANGED <<items, noProbe, overrides>>
    PROVE  FollowsFilters(i)' /\ JobFollows(i)'
<1>0. /\ probe \in [Probed -> ProbeRow] /\ probe[i] \in ProbeRow
      /\ job \in Job /\ job.phase # "idle"
    BY DEF TypeOK, DbTypeOK, WorkerTypeOK, ProbeProgress, BeginProbe, FetchTracks,
           DeferProbe, PushBack, StoreTracks, ReadAttempts, MarkProbe
<1>1. KeptOut(i) <=> KeptOut(i)'
    BY DEF KeptOut, InCatalogue
<1>2. FollowsFilters(i)
        <=> /\ probe[i].status = "skipped" /\ InCatalogue(i)
                  => items[i].cat \in noProbe[KindOf(i)]
            /\ KeptOut(i) => probe[i].status \notin {"pending", "deferred"}
    BY DEF FollowsFilters, SkippedBy, KeptOut
<1>3. FollowsFilters(i)'
        <=> /\ probe'[i].status = "skipped" /\ InCatalogue(i)
                  => items[i].cat \in noProbe[KindOf(i)]
            /\ KeptOut(i) => probe'[i].status \notin {"pending", "deferred"}
    BY DEF FollowsFilters, SkippedBy, KeptOut, InCatalogue
<1>4. CASE UNCHANGED probe /\ job' = [job EXCEPT !.phase = "fetching",
                   !.allow = probe[job.title].status \in {"deferred", "error"}]
           /\ job.phase = "picked"
    BY <1>0, <1>1, <1>2, <1>3, <1>4 DEF JobFollows, Job
<1>5. ASSUME NEW ffprobe \in FfprobeModes,
             NEW outcome \in OutcomesOf(ffprobe, job.allow), FetchTracks(outcome)
      PROVE  FollowsFilters(i)' /\ JobFollows(i)'
  <2>1. job.allow => outcome # "defer"
      BY DEF OutcomesOf
  <2>2. /\ job'.phase = "fetched" /\ job'.title = job.title /\ job'.allow = job.allow
        /\ job'.outcome = outcome /\ job.phase = "fetching" /\ UNCHANGED probe
      BY <1>0, <1>5 DEF FetchTracks, Job, dbVars
  <2>3. QED BY <1>1, <1>2, <1>3, <2>1, <2>2 DEF JobFollows
<1>6. CASE StoreTracks \/ ReadAttempts
  <2>1. /\ job'.phase \notin {"picked", "fetching"} /\ job'.title = job.title
        /\ job'.allow = job.allow /\ job'.outcome = job.outcome
        /\ job.phase \notin {"picked", "fetching"} /\ UNCHANGED probe
      BY <1>0, <1>6 DEF StoreTracks, ReadAttempts, Job, dbVars
  <2>2. QED BY <1>0, <1>1, <1>2, <1>3, <2>1 DEF JobFollows
<1>7. CASE DeferProbe \/ PushBack \/ MarkProbe
  <2>1. job'.phase = "idle"
      BY <1>7 DEF DeferProbe, PushBack, MarkProbe, IdleJob
  <2>2. JobFollows(i)'
      BY <2>1 DEF JobFollows
  <2>3. CASE job.title # i \/ ~ HasProbeRow(job.title)
    <3>1. probe'[i] = probe[i]
        BY <1>0, <1>7, <2>3 DEF DeferProbe, PushBack, MarkProbe, UpdateProbe
    <3>2. QED BY <1>2, <1>3, <2>2, <3>1
  <2>4. CASE job.title = i /\ HasProbeRow(i)
    <3>1. CASE DeferProbe
      <4>1. probe'[i].status = "deferred" /\ job.phase = "fetched" /\ job.outcome = "defer"
          BY <1>0, <2>4, <3>1 DEF DeferProbe, UpdateProbe, ProbeRow
      <4>2. ~ KeptOut(i)
          BY <1>0, <2>4, <4>1 DEF JobFollows
      <4>3. QED BY <1>3, <2>2, <4>1, <4>2
    <3>2. CASE PushBack
      <4>1. probe'[i].status = probe[i].status
          BY <1>0, <2>4, <3>2 DEF PushBack, UpdateProbe, ProbeRow
      <4>2. QED BY <1>2, <1>3, <2>2, <4>1
    <3>3. CASE MarkProbe
      <4>1. probe'[i] = MarkedRow(job.outcome, job.attempts)
          BY <1>0, <2>4, <3>3 DEF MarkProbe, UpdateProbe
      <4>2. probe'[i].status \in {"ok", "error", "no_audio_info"}
          BY <4>1 DEF MarkedRow
      <4>3. QED BY <1>3, <2>2, <4>2
    <3>4. QED BY <1>7, <3>1, <3>2, <3>3
  <2>5. QED BY <2>3, <2>4
<1>8. CASE BeginProbe
    BY <1>4, <1>8 DEF BeginProbe, dbVars
<1>9. QED BY <1>5, <1>6, <1>7, <1>8 DEF ProbeProgress

\* In the calm, once the catalogue agrees with the provider, a row that follows the
\* filters goes on to.
LEMMA CalmFollows ==
    ASSUME TypeOK, OneThingAtATime, NEW i \in Probed, RunRight(i), Agrees(i), FiltersHeld,
           [CalmStep]_vars
    PROVE  /\ FiltersHeld'
           /\ FinishSync("crawler") => FollowsFilters(i)' /\ JobFollows(i)'
           /\ FollowsFilters(i) /\ JobFollows(i) => FollowsFilters(i)' /\ JobFollows(i)'
<1>0. /\ i \in Item /\ probe \in [Probed -> ProbeRow] /\ probe[i] \in ProbeRow
      /\ job \in Job /\ sync \in [Syncer -> SyncRun] /\ "crawler" \in Syncer
      /\ items \in [Item -> ItemRow] /\ items[i] \in ItemRow
    BY KindOfProbed DEF TypeOK, DbTypeOK, SyncTypeOK, WorkerTypeOK, Syncer
<1>1. UNCHANGED <<provider, noProbe, overrides>>
    BY CalmKinds
<1>2. CASE CrawlerStartsSync \/ SyncStep("crawler") \/ SyncFetchFails("crawler")
  <2>1. /\ StartSync("crawler") \/ SyncProgress("crawler") \/ FetchFails("crawler")
        /\ UNCHANGED job
      BY <1>2 DEF CrawlerStartsSync, SyncStep, SyncFetchFails
  <2>2. job.phase = "idle"
    <3>1. CASE CrawlerStartsSync
        BY <3>1 DEF CrawlerStartsSync
    <3>2. CASE SyncStep("crawler") \/ SyncFetchFails("crawler")
        BY <3>2, SyncUnderWay DEF SyncStep, SyncFetchFails, OneThingAtATime, Syncer
    <3>3. QED BY <1>2, <3>1, <3>2
  <2>3. JobFollows(i)'
      BY <2>1, <2>2 DEF JobFollows
  <2>4. FiltersHeld'
    <3>1. CASE StartSync("crawler")
        BY <1>0, <1>1, <3>1 DEF StartSync, FiltersHeld, KindDone
    <3>2. CASE FetchFails("crawler") \/ FinishKind("crawler")
      <4>1. sync'["crawler"].filters = sync["crawler"].filters /\ sync["crawler"].phase # "idle"
        <5>1. sync' = [sync EXCEPT !["crawler"]
                                 = KindDone(sync["crawler"].filters, sync["crawler"].kind)]
            BY <3>2 DEF FetchFails, FinishKind
        <5>2. sync'["crawler"]
                = KindDone(sync["crawler"].filters, sync["crawler"].kind)
            BY <1>0, <5>1
        <5>3. sync["crawler"].phase # "idle"
            BY <3>2 DEF FetchFails, FinishKind
        <5>4. \A f, k : KindDone(f, k).filters = f
            BY DEF KindDone
        <5>5. KindDone(sync["crawler"].filters, sync["crawler"].kind).filters = sync["crawler"].filters
            BY <5>4
        <5>6. QED BY <5>2, <5>3, <5>5
      <4>2. QED BY <1>1, <4>1 DEF FiltersHeld
    <3>3. CASE FinishSync("crawler")
        BY <1>0, <3>3 DEF FinishSync, FiltersHeld, IdleSync
    <3>4. CASE FetchListing("crawler") \/ FindVanished("crawler") \/ PurgeOld("crawler")
      <4>1. sync'["crawler"].filters = sync["crawler"].filters
        <5>1. CASE FetchListing("crawler")
          <6>1. PICK snap : sync' = [sync EXCEPT !["crawler"] =
                              [@ EXCEPT !.phase = "upsert", !.snap = snap, !.todo = Listed(snap)]]
              BY <5>1 DEF FetchListing
          <6>2. QED BY <1>0, <6>1 DEF SyncRun
        <5>2. CASE FindVanished("crawler")
          <6>1. PICK gone : sync' = [sync EXCEPT !["crawler"] =
                              [@ EXCEPT !.phase = "vanish", !.snap = EmptySnapshot, !.todo = gone]]
              BY <5>2 DEF FindVanished
          <6>2. QED BY <1>0, <6>1 DEF SyncRun
        <5>3. CASE PurgeOld("crawler")
          <6>1. sync' = [sync EXCEPT !["crawler"].phase = "filters"]
              BY <5>3 DEF PurgeOld
          <6>2. QED BY <1>0, <6>1 DEF SyncRun
        <5>4. QED BY <3>4, <5>1, <5>2, <5>3
      <4>2. sync["crawler"].phase # "idle"
          BY <3>4 DEF FetchListing, FindVanished, PurgeOld
      <4>3. QED BY <1>1, <4>1, <4>2 DEF FiltersHeld
    <3>5. ASSUME NEW chunk \in SUBSET sync["crawler"].todo,
                 UpsertChunk("crawler", chunk) \/ RemoveChunk("crawler", chunk)
          PROVE  FiltersHeld'
      <4>1. sync'["crawler"].filters = sync["crawler"].filters /\ sync["crawler"].phase # "idle"
          BY <1>0, <3>5 DEF UpsertChunk, RemoveChunk, SyncRun
      <4>2. QED BY <1>1, <4>1 DEF FiltersHeld
    <3>6. QED BY <2>1, <3>1, <3>2, <3>3, <3>4, <3>5 DEF SyncProgress
  <2>5. FinishSync("crawler") => FollowsFilters(i)'
      BY <1>1, FinishFollows
  <2>6. ~ FinishSync("crawler") /\ FollowsFilters(i) => FollowsFilters(i)'
      BY <1>1, <2>1, CalmRow, RowFollows
  <2>7. QED BY <2>3, <2>4, <2>5, <2>6
<1>3. ASSUME UNCHANGED sync
      PROVE  FiltersHeld' /\ ~ FinishSync("crawler")
  <2>1. FiltersHeld'
      BY <1>1, <1>3 DEF FiltersHeld
  <2>2. FinishSync("crawler") => sync["crawler"].phase = "filters" /\ sync'["crawler"].phase = "idle"
      BY <1>0 DEF FinishSync, IdleSync
  <2>3. QED BY <1>3, <2>1, <2>2
<1>4. CASE CrawlerPicks
  <2>1. PICK t \in Probed, gated \in BOOLEAN : Pick(t, gated)
      BY <1>4 DEF CrawlerPicks
  <2>2. UNCHANGED <<items, probe>> /\ job'.title = t /\ job'.phase = "picked"
      BY <1>0, <2>1 DEF Pick, dbVars, Job
  <2>3. probe[t].status \in {"pending", "deferred", "error"}
      BY <2>1 DEF Pick, Candidates, EligibleOf, Eligible
  <2>4. FollowsFilters(i) => FollowsFilters(i)' /\ JobFollows(i)'
      BY <1>1, <2>2, <2>3 DEF FollowsFilters, JobFollows, KeptOut, SkippedBy, InCatalogue
  <2>5. QED BY <1>3, <1>4, <2>4 DEF CrawlerPicks
<1>5. CASE ProbeStep
  <2>1. UNCHANGED items
      BY <1>5 DEF ProbeStep, ProbeProgress, BeginProbe, FetchTracks, DeferProbe, PushBack,
                  StoreTracks, ReadAttempts, MarkProbe, dbVars
  <2>2. QED BY <1>1, <1>3, <1>5, <2>1, ProbeFollows DEF ProbeStep
<1>6. CASE TimePasses \/ UNCHANGED vars
  <2>1. probe'[i].status = probe[i].status /\ UNCHANGED job /\ UNCHANGED sync
    <3>1. CASE \E j \in Probed : BackoffElapses(j)
        BY <1>0, <1>6, <3>1 DEF TimePasses, BackoffElapses, ProbeRow, vars
    <3>2. CASE \E j \in Item : RetentionElapses(j)
        BY <1>6, <3>2 DEF TimePasses, RetentionElapses, vars
    <3>3. QED BY <1>6, <3>1, <3>2 DEF TimePasses, vars
  <2>2. MayExpire(i) \/ UNCHANGED items
    <3>1. CASE \E j \in Item : RetentionElapses(j)
      <4>1. PICK j \in Item : RetentionElapses(j)
          BY <3>1
      <4>2. QED BY <1>0, <4>1 DEF RetentionElapses, MayExpire
    <3>2. QED BY <1>6, <3>1 DEF TimePasses, BackoffElapses, vars
  <2>3. items'[i].cat = items[i].cat /\ (InCatalogue(i) <=> InCatalogue(i)')
      BY <1>0, <2>2 DEF MayExpire, InCatalogue, ItemRow
  <2>4. QED BY <1>1, <1>3, <2>1, <2>3 DEF FollowsFilters, JobFollows, KeptOut, SkippedBy
<1>7. QED BY <1>2, <1>4, <1>5, <1>6 DEF CalmStep

\* The rows follow the category filters in the end, for good, if syncs come to the
\* end of the title's kind and to their own end again and again.
THEOREM TitleFollowsFilters ==
    ASSUME NEW i \in Probed
    PROVE  Spec /\ <>[][CalmStep]_vars /\ []<><<CompletesKindOf(i)>>_vars
                /\ []<><<FinishSync("crawler")>>_vars
              => <>[]FollowsFilters(i)
<1>1. i \in Item
    BY KindOfProbed
<1>2. TypeOK /\ <<CompletesKindOf(i)>>_vars => RunRight(i)'
    BY RightAfterKind DEF CompletesKindOf
<1>3. TypeOK /\ RunRight(i) /\ [CalmStep]_vars
        => /\ RunRight(i)'
           /\ Agrees(i) => Agrees(i)'
           /\ <<CompletesKindOf(i)>>_vars => Agrees(i)'
    BY <1>1, CalmKeeps
<1>4. TypeOK /\ <<FinishSync("crawler")>>_vars => FiltersHeld'
    BY DEF TypeOK, SyncTypeOK, Syncer, FinishSync, FiltersHeld, IdleSync
<1>5. TypeOK /\ OneThingAtATime /\ RunRight(i) /\ Agrees(i) /\ FiltersHeld /\ [CalmStep]_vars
        => /\ FiltersHeld'
           /\ <<FinishSync("crawler")>>_vars => FollowsFilters(i)' /\ JobFollows(i)'
           /\ FollowsFilters(i) /\ JobFollows(i) => FollowsFilters(i)' /\ JobFollows(i)'
    BY CalmFollows
<1>6. Init => OneThingAtATime
    BY DEF Init, WorkerInit, IdleJob, OneThingAtATime
<1>7. QED BY <1>2, <1>3, <1>4, <1>5, <1>6, OneThingStep, TypeCorrect, PTL DEF Spec

-----------------------------------------------------------------------------
\* The title waits for its first probe.
Waiting(i) == items[i].state = "listed" /\ probe[i].status = "pending"

\* The probe under way comes to its end, and it is one of i.
EndsProbeOf(i) == job.title = i /\ (DeferProbe \/ PushBack \/ MarkProbe)

\* A probe of a title that waits does without ffprobe, so nothing pushes it back.
FirstProbeRight(i) ==
    job.title = i /\ job.phase \notin {"idle", "picked"} /\ Waiting(i) =>
        /\ ~ job.allow
        /\ job.phase # "fetching" => job.outcome # "blocked"

\* Such a probe takes the title out of the queue.
LEMMA EndOfFirstProbe ==
    ASSUME TypeOK, NEW i \in Probed, FirstProbeRight(i), Waiting(i), EndsProbeOf(i)
    PROVE  ~ Waiting(i)'
<1>0. /\ probe \in [Probed -> ProbeRow] /\ probe[i] \in ProbeRow /\ HasProbeRow(i)
      /\ job.title = i
    BY DEF TypeOK, DbTypeOK, Waiting, HasProbeRow, EndsProbeOf
<1>1. ASSUME NEW row, UpdateProbe(i, row)
      PROVE  probe'[i] = row
    BY <1>0, <1>1 DEF UpdateProbe
<1>2. CASE DeferProbe
  <2>1. probe'[i].status = "deferred"
      BY <1>0, <1>1, <1>2 DEF DeferProbe, ProbeRow
  <2>2. QED BY <2>1 DEF Waiting
<1>3. CASE PushBack
    BY <1>0, <1>3 DEF PushBack, FirstProbeRight
<1>4. CASE MarkProbe
  <2>1. probe'[i] = MarkedRow(job.outcome, job.attempts)
      BY <1>0, <1>1, <1>4 DEF MarkProbe
  <2>2. probe'[i].status \in {"ok", "error", "no_audio_info"}
      BY <2>1 DEF MarkedRow
  <2>3. QED BY <2>2 DEF Waiting
<1>5. QED BY <1>2, <1>3, <1>4 DEF EndsProbeOf

\* No step of a probe puts a title into the queue.
LEMMA ProbeQueuesNothing ==
    ASSUME TypeOK, NEW i \in Probed, FirstProbeRight(i), ProbeProgress, UNCHANGED items
    PROVE  FirstProbeRight(i)' /\ (Waiting(i)' => Waiting(i))
<1>0. /\ probe \in [Probed -> ProbeRow] /\ probe[i] \in ProbeRow
      /\ job \in Job /\ job.phase # "idle"
    BY DEF TypeOK, DbTypeOK, WorkerTypeOK, ProbeProgress, BeginProbe, FetchTracks,
           DeferProbe, PushBack, StoreTracks, ReadAttempts, MarkProbe
<1>1. CASE BeginProbe
  <2>1. /\ job'.title = job.title /\ job'.phase = "fetching" /\ UNCHANGED probe
        /\ job'.allow = (probe[job.title].status \in {"deferred", "error"})
      BY <1>0, <1>1 DEF BeginProbe, Job, dbVars
  <2>2. QED BY <2>1 DEF FirstProbeRight, Waiting
<1>2. ASSUME NEW ffprobe \in FfprobeModes,
             NEW outcome \in OutcomesOf(ffprobe, job.allow), FetchTracks(outcome)
      PROVE  FirstProbeRight(i)' /\ (Waiting(i)' => Waiting(i))
  <2>1. ~ job.allow => outcome # "blocked"
      BY DEF OutcomesOf
  <2>2. /\ job'.title = job.title /\ job'.allow = job.allow /\ job'.outcome = outcome
        /\ job.phase = "fetching" /\ UNCHANGED probe
      BY <1>0, <1>2 DEF FetchTracks, Job, dbVars
  <2>3. QED BY <2>1, <2>2 DEF FirstProbeRight, Waiting
<1>3. CASE StoreTracks \/ ReadAttempts
  <2>1. /\ job'.title = job.title /\ job'.allow = job.allow
        /\ job'.outcome = job.outcome /\ UNCHANGED probe
        /\ job.phase \notin {"picked", "fetching"}
      BY <1>0, <1>3 DEF StoreTracks, ReadAttempts, Job, dbVars
  <2>2. QED BY <1>0, <2>1 DEF FirstProbeRight, Waiting
<1>4. CASE DeferProbe \/ PushBack \/ MarkProbe
  <2>1. FirstProbeRight(i)'
      BY <1>4 DEF DeferProbe, PushBack, MarkProbe, IdleJob, FirstProbeRight
  <2>2. CASE job.title # i \/ ~ HasProbeRow(job.title)
    <3>1. probe'[i] = probe[i]
        BY <1>0, <1>4, <2>2 DEF DeferProbe, PushBack, MarkProbe, UpdateProbe
    <3>2. QED BY <2>1, <3>1 DEF Waiting
  <2>3. CASE job.title = i /\ HasProbeRow(i)
    <3>1. CASE DeferProbe
      <4>1. probe'[i].status = "deferred"
          BY <1>0, <2>3, <3>1 DEF DeferProbe, UpdateProbe, ProbeRow
      <4>2. QED BY <2>1, <4>1 DEF Waiting
    <3>2. CASE PushBack
      <4>1. probe'[i].status = probe[i].status
          BY <1>0, <2>3, <3>2 DEF PushBack, UpdateProbe, ProbeRow
      <4>2. QED BY <2>1, <4>1 DEF Waiting
    <3>3. CASE MarkProbe
      <4>1. probe'[i] = MarkedRow(job.outcome, job.attempts)
          BY <1>0, <2>3, <3>3 DEF MarkProbe, UpdateProbe
      <4>2. probe'[i].status \in {"ok", "error", "no_audio_info"}
          BY <4>1 DEF MarkedRow
      <4>3. QED BY <2>1, <4>2 DEF Waiting
    <3>4. QED BY <1>4, <3>1, <3>2, <3>3
  <2>4. QED BY <2>2, <2>3
<1>5. QED BY <1>1, <1>2, <1>3, <1>4 DEF ProbeProgress

\* Filters that the row follows already release nothing.
LEMMA FinishQueuesNothing ==
    ASSUME TypeOK, NEW i \in Probed, FiltersHeld, FollowsFilters(i),
           FinishSync("crawler"), Waiting(i)'
    PROVE  Waiting(i)
<1>1. probe'[i] = WithCategoryFilters(noProbe)[i] /\ UNCHANGED items
    BY DEF FinishSync, FiltersHeld
<1>2. probe'[i] = CASE SkippedBy(noProbe, i)  -> [probe[i] EXCEPT !.status = "skipped"]
                    [] ReleasedBy(noProbe, i) -> [probe[i] EXCEPT !.status = "pending"]
                    [] OTHER                  -> probe[i]
    BY <1>1 DEF WithCategoryFilters
<1>3. items[i].state = "listed" /\ InCatalogue(i)
    BY <1>1 DEF Waiting, InCatalogue
<1>4. ~ ReleasedBy(noProbe, i) /\ ~ SkippedBy(noProbe, i)
    BY <1>3 DEF FollowsFilters, ReleasedBy
<1>5. probe'[i] = probe[i]
    BY <1>2, <1>4
<1>6. QED BY <1>3, <1>5 DEF Waiting

\* In the calm, once the row follows the filters, nothing puts the title into the
\* queue, and a probe takes it out.
LEMMA CalmQueue ==
    ASSUME TypeOK, OneThingAtATime, NEW i \in Probed, RunRight(i), Agrees(i), FiltersHeld,
           FollowsFilters(i), FirstProbeRight(i), [CalmStep]_vars
    PROVE  /\ FirstProbeRight(i)'
           /\ Waiting(i)' => Waiting(i)
           /\ EndsProbeOf(i) => ~ Waiting(i)'
<1> SUFFICES FirstProbeRight(i)' /\ (Waiting(i)' => Waiting(i))
    BY EndOfFirstProbe
<1>0. i \in Item /\ items \in [Item -> ItemRow] /\ probe \in [Probed -> ProbeRow]
      /\ job \in Job
    BY KindOfProbed DEF TypeOK, DbTypeOK, WorkerTypeOK
<1>1. UNCHANGED provider
    BY CalmKinds
<1>2. CASE CrawlerStartsSync \/ SyncStep("crawler") \/ SyncFetchFails("crawler")
  <2>1. /\ StartSync("crawler") \/ SyncProgress("crawler") \/ FetchFails("crawler")
        /\ UNCHANGED job
      BY <1>2 DEF CrawlerStartsSync, SyncStep, SyncFetchFails
  <2>2. job.phase = "idle"
    <3>1. CASE CrawlerStartsSync
        BY <3>1 DEF CrawlerStartsSync
    <3>2. CASE SyncStep("crawler") \/ SyncFetchFails("crawler")
        BY <3>2, SyncUnderWay DEF SyncStep, SyncFetchFails, OneThingAtATime, Syncer
    <3>3. QED BY <1>2, <3>1, <3>2
  <2>3. FirstProbeRight(i)'
      BY <2>1, <2>2 DEF FirstProbeRight
  <2>4. ASSUME ~ FinishSync("crawler"), Waiting(i)'
        PROVE  Waiting(i)
    <3>1. Agrees(i)'
        BY <1>0, CalmKeeps
    <3>2. items[i].state = "listed"
        BY <1>1, <2>4, <3>1 DEF Agrees, Waiting
    <3>3. probe[i] = probe'[i]
        BY <1>1, <2>1, <2>4, CalmRow DEF Waiting
    <3>4. QED BY <2>4, <3>2, <3>3 DEF Waiting
  <2>5. QED BY <2>3, <2>4, FinishQueuesNothing
<1>3. CASE CrawlerPicks
  <2>1. UNCHANGED <<items, probe>> /\ job'.phase = "picked"
      BY <1>0, <1>3 DEF CrawlerPicks, Pick, dbVars, Job
  <2>2. QED BY <2>1 DEF FirstProbeRight, Waiting
<1>4. CASE ProbeStep
  <2>1. UNCHANGED items
      BY <1>4 DEF ProbeStep, ProbeProgress, BeginProbe, FetchTracks, DeferProbe, PushBack,
                  StoreTracks, ReadAttempts, MarkProbe, dbVars
  <2>2. QED BY <1>4, <2>1, ProbeQueuesNothing DEF ProbeStep
<1>5. CASE TimePasses \/ UNCHANGED vars
  <2>1. probe'[i].status = probe[i].status /\ UNCHANGED job
    <3>1. CASE \E j \in Probed : BackoffElapses(j)
        BY <1>0, <1>5, <3>1 DEF TimePasses, BackoffElapses, ProbeRow, vars
    <3>2. CASE \E j \in Item : RetentionElapses(j)
        BY <1>5, <3>2 DEF TimePasses, RetentionElapses, vars
    <3>3. QED BY <1>5, <3>1, <3>2 DEF TimePasses, vars
  <2>2. items'[i].state = "listed" <=> items[i].state = "listed"
    <3>1. CASE \E j \in Item : RetentionElapses(j)
      <4>1. PICK j \in Item : RetentionElapses(j)
          BY <3>1
      <4>2. QED BY <1>0, <4>1 DEF RetentionElapses, ItemRow
    <3>2. QED BY <1>5, <3>1 DEF TimePasses, BackoffElapses, vars
  <2>3. QED BY <2>1, <2>2 DEF FirstProbeRight, Waiting
<1>6. QED BY <1>2, <1>3, <1>4, <1>5 DEF CalmStep

\* No title waits for its first probe for ever: in the calm it leaves the queue for
\* good, unless the crawler never gets round to it.
THEOREM TitleLeavesQueue ==
    ASSUME NEW i \in Probed
    PROVE  Spec /\ <>[][CalmStep]_vars /\ []<><<CompletesKindOf(i)>>_vars
                /\ []<><<FinishSync("crawler")>>_vars
                /\ (<>[]Waiting(i) => []<><<EndsProbeOf(i)>>_vars)
              => <>[]~ Waiting(i)
<1>1. i \in Item
    BY KindOfProbed
<1>2. TypeOK /\ <<CompletesKindOf(i)>>_vars => RunRight(i)'
    BY RightAfterKind DEF CompletesKindOf
<1>3. TypeOK /\ RunRight(i) /\ [CalmStep]_vars
        => /\ RunRight(i)'
           /\ Agrees(i) => Agrees(i)'
           /\ <<CompletesKindOf(i)>>_vars => Agrees(i)'
    BY <1>1, CalmKeeps
<1>4. TypeOK /\ <<FinishSync("crawler")>>_vars => FiltersHeld'
    BY DEF TypeOK, SyncTypeOK, Syncer, FinishSync, FiltersHeld, IdleSync
<1>5. TypeOK /\ OneThingAtATime /\ RunRight(i) /\ Agrees(i) /\ FiltersHeld /\ [CalmStep]_vars
        => FiltersHeld'
    BY CalmFollows
<1>6. TypeOK /\ OneThingAtATime /\ [CalmStep]_vars /\ <<FinishSync("crawler")>>_vars
        => FirstProbeRight(i)'
  <2> SUFFICES ASSUME TypeOK, OneThingAtATime, [CalmStep]_vars, FinishSync("crawler")
               PROVE  FirstProbeRight(i)'
      OBVIOUS
  <2>1. job.phase = "idle"
      BY DEF OneThingAtATime, FinishSync
  <2>2. sync'["crawler"] # sync["crawler"]
      BY DEF TypeOK, SyncTypeOK, Syncer, FinishSync, IdleSync
  <2>3. UNCHANGED job
      BY <2>2 DEF CalmStep, CrawlerStartsSync, SyncStep, SyncFetchFails, CrawlerPicks,
                  ProbeStep, TimePasses, vars
  <2>4. QED BY <2>1, <2>3 DEF FirstProbeRight
<1>7. TypeOK /\ OneThingAtATime /\ RunRight(i) /\ Agrees(i) /\ FiltersHeld
         /\ FollowsFilters(i) /\ FirstProbeRight(i) /\ [CalmStep]_vars
        => /\ FirstProbeRight(i)'
           /\ Waiting(i)' => Waiting(i)
           /\ <<EndsProbeOf(i)>>_vars => ~ Waiting(i)'
    BY CalmQueue
<1>8. Init => OneThingAtATime
    BY DEF Init, WorkerInit, IdleJob, OneThingAtATime
<1>9. QED BY <1>2, <1>3, <1>4, <1>5, <1>6, <1>7, <1>8, OneThingStep, TitleFollowsFilters,
             TypeCorrect, PTL DEF Spec

=============================================================================
