---------------------------- MODULE CatalogSync -----------------------------
(***************************************************************************)
(* run_full_sync (src/app/crawler/sync.py), step by step, as run by the    *)
(* crawler's own loop and by POST /crawler/sync-now on the event-loop      *)
(* thread.  Nothing keeps the two apart: both may be under way, each with  *)
(* the configuration and the listing it read earlier.                      *)
(*                                                                         *)
(* For each kind: fetch the listing, upsert its entries, mark what is not  *)
(* in it as removed; then purge_old, then the category filters.  Upserts   *)
(* and removals are committed in chunks, so a step takes any non-empty     *)
(* part of what is left to do and an exception loses only the chunk that   *)
(* was not committed.                                                      *)
(***************************************************************************)
EXTENDS CatalogDb, Sequences

CONSTANTS
    KindOrder,  \* the kinds in the order of the loop: <<"live", "vod",
                \* "series">>; an instance leaves out kinds without titles
    Faults      \* which of "abort" (an exception) and "crash" may happen

ASSUME KindOrderAssumption == KindOrder \in Seq({"live", "vod", "series"})
ASSUME FaultsAssumption == Faults \subseteq {"abort", "crash"}

VARIABLE sync  \* the run_full_sync under way in each thread

Syncer == {"crawler", "admin"}
SyncPhase == {"idle", "fetch", "upsert", "vanish", "purge", "filters"}

NoEntry == [listed |-> FALSE, version |-> 0, cat |-> NoCategory]
EmptySnapshot == [i \in Item |-> NoEntry]

\* kind indexes KindOrder; snap is the listing fetched for that kind; todo
\* the titles still to be upserted or marked as removed; filters the part of
\* the configuration the run was started with.
SyncRun == [phase : SyncPhase, kind : Nat, snap : [Item -> Entry],
            todo : SUBSET Item, filters : CategoryFilters]
IdleSync == [phase |-> "idle", kind |-> 0, snap |-> EmptySnapshot,
             todo |-> {}, filters |-> NoFilters]

SyncTypeOK == sync \in [Syncer -> SyncRun]
SyncInit == sync = [p \in Syncer |-> IdleSync]

OfKind(k) == {i \in Item : k <= Len(KindOrder) /\ KindOf(i) = KindOrder[k]}
Listed(snap) == {i \in Item : snap[i].listed}

\* What is left of a run with these filters once kind k is done with.
KindDone(filters, k) ==
    [phase |-> IF k < Len(KindOrder) THEN "fetch" ELSE "purge",
     kind |-> k + 1, snap |-> EmptySnapshot, todo |-> {}, filters |-> filters]

-----------------------------------------------------------------------------
StartSync(p) ==
    /\ sync[p].phase = "idle"
    /\ sync' = [sync EXCEPT ![p] = KindDone(noProbe, 0)]
    /\ UNCHANGED dbVars

\* player_api answers with the listing of the kind.
FetchListing(p) ==
    LET snap == [i \in Item |->
                    IF i \in OfKind(sync[p].kind) /\ provider[i].listed
                    THEN provider[i] ELSE NoEntry]
    IN  /\ sync[p].phase = "fetch"
        /\ sync' = [sync EXCEPT ![p] = [@ EXCEPT !.phase = "upsert", !.snap = snap,
                                                  !.todo = Listed(snap)]]
        /\ UNCHANGED dbVars

\* Fault: what is not a list is taken for an empty one.
FetchFailsAsEmpty(p) ==
    /\ sync[p].phase = "fetch"
    /\ sync' = [sync EXCEPT ![p].phase = "upsert"]
    /\ UNCHANGED dbVars

\* UpstreamError or a response that is no list: on to the next kind.
FetchFails(p) ==
    /\ sync[p].phase = "fetch"
    /\ sync' = [sync EXCEPT ![p] = KindDone(@.filters, @.kind)]
    /\ UNCHANGED dbVars

\* was_removed or name_changed
IsAnotherTitle(i, entry) ==
    \/ items[i].state \in {"removed", "expired"}
    \/ items[i].version # entry.version

\* Fault: a new title gets no row.
ProbeAfterUpsertOfKnown(i, entry) ==
    IF InCatalogue(i) /\ IsAnotherTitle(i, entry) THEN Requeued(probe[i]) ELSE probe[i]

\* The probe_state row of an entry that is upserted.
ProbeAfterUpsert(i, entry) ==
    IF InCatalogue(i) /\ IsAnotherTitle(i, entry) THEN Requeued(probe[i])
    ELSE IF ~ InCatalogue(i) /\ ~ HasProbeRow(i) THEN FreshRow
    ELSE probe[i]

\* Fault: the tracks of the title that had the id before are kept.
TracksKeptByUpsert(i, entry) == tracks[i]

\* Fault: every title of a chunk loses its tracks.
TracksClearedByUpsert(i, entry) == IF InCatalogue(i) THEN NoTracks ELSE tracks[i]

TracksAfterUpsert(i, entry) ==
    IF InCatalogue(i) /\ IsAnotherTitle(i, entry) THEN NoTracks ELSE tracks[i]

\* Fault: removed_at is not cleared.
UpsertChunkStaysRemoved(p, chunk) ==
    LET snap == sync[p].snap
    IN  /\ sync[p].phase = "upsert"
        /\ items' = [i \in Item |->
                        IF i \in chunk
                        THEN [state |-> IF InCatalogue(i) THEN items[i].state ELSE "listed",
                              version |-> snap[i].version, cat |-> snap[i].cat]
                        ELSE items[i]]
        /\ probe' = [i \in Probed |->
                        IF i \in chunk THEN ProbeAfterUpsert(i, snap[i]) ELSE probe[i]]
        /\ tracks' = [i \in Probed |->
                        IF i \in chunk THEN TracksAfterUpsert(i, snap[i]) ELSE tracks[i]]
        /\ sync' = [sync EXCEPT ![p].todo = @ \ chunk]
        /\ UNCHANGED <<overrides, noProbe>>

UpsertChunk(p, chunk) ==
    LET snap == sync[p].snap
    IN  /\ sync[p].phase = "upsert"
        /\ items' = [i \in Item |->
                        IF i \in chunk
                        THEN [state |-> "listed", version |-> snap[i].version,
                              cat |-> snap[i].cat]
                        ELSE items[i]]
        /\ probe' = [i \in Probed |->
                        IF i \in chunk THEN ProbeAfterUpsert(i, snap[i]) ELSE probe[i]]
        /\ tracks' = [i \in Probed |->
                        IF i \in chunk THEN TracksAfterUpsert(i, snap[i]) ELSE tracks[i]]
        /\ sync' = [sync EXCEPT ![p].todo = @ \ chunk]
        /\ UNCHANGED <<overrides, noProbe>>

\* SELECT item_id ... removed_at IS NULL, once the last chunk is committed.
FindVanished(p) ==
    LET run == sync[p]
    IN  /\ run.phase = "upsert"
        /\ run.todo = {}
        /\ sync' = [sync EXCEPT
                      ![p] = [@ EXCEPT
                                !.phase = "vanish", !.snap = EmptySnapshot,
                                !.todo = {i \in OfKind(run.kind) \ Listed(run.snap) :
                                             items[i].state = "listed"}]]
        /\ UNCHANGED dbVars

\* UPDATE items SET removed_at: a row purged meanwhile stays absent.
RemoveChunk(p, chunk) ==
    /\ sync[p].phase = "vanish"
    /\ items' = [i \in Item |->
                    IF i \in chunk /\ InCatalogue(i)
                    THEN [items[i] EXCEPT !.state = "removed"] ELSE items[i]]
    /\ sync' = [sync EXCEPT ![p].todo = @ \ chunk]
    /\ UNCHANGED <<probe, tracks, overrides, noProbe>>

FinishKind(p) ==
    /\ sync[p].phase = "vanish"
    /\ sync[p].todo = {}
    /\ sync' = [sync EXCEPT ![p] = KindDone(@.filters, @.kind)]
    /\ UNCHANGED dbVars

PurgeOld(p) ==
    LET old == {i \in Item : items[i].state = "expired"}
    IN  /\ sync[p].phase = "purge"
        /\ items' = [i \in Item |-> IF i \in old THEN NoItemRow ELSE items[i]]
        /\ probe' = [i \in Probed |-> IF i \in old THEN NoProbeRow ELSE probe[i]]
        /\ tracks' = [i \in Probed |-> IF i \in old THEN NoTracks ELSE tracks[i]]
        /\ sync' = [sync EXCEPT ![p].phase = "filters"]
        /\ UNCHANGED <<overrides, noProbe>>

\* Fault: the sync is started without the configuration.
FinishSyncWithoutFilters(p) ==
    /\ sync[p].phase = "filters"
    /\ sync' = [sync EXCEPT ![p] = IdleSync]
    /\ UNCHANGED dbVars

\* sync_probe_state_with_category_filters, with the filters read at the start.
FinishSync(p) ==
    /\ sync[p].phase = "filters"
    /\ probe' = WithCategoryFilters(sync[p].filters)
    /\ sync' = [sync EXCEPT ![p] = IdleSync]
    /\ UNCHANGED <<items, tracks, overrides, noProbe>>

\* An exception from a statement or an entry ends the run where it is.
AbortSync(p) ==
    /\ "abort" \in Faults
    /\ sync[p].phase # "idle"
    /\ sync' = [sync EXCEPT ![p] = IdleSync]
    /\ UNCHANGED dbVars

\* The steps of a run under way, but for its failures.
SyncProgress(p) ==
    \/ FetchListing(p)
    \/ \E chunk \in (SUBSET sync[p].todo) \ {{}} :
            UpsertChunk(p, chunk) \/ RemoveChunk(p, chunk)
    \/ FindVanished(p)
    \/ FinishKind(p)
    \/ PurgeOld(p)
    \/ FinishSync(p)

=============================================================================
