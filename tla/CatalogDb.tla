----------------------------- MODULE CatalogDb ------------------------------
(***************************************************************************)
(* The tables of the SQLite file (src/app/core/db.py) that decide what is  *)
(* probed and what is known about a title, the category part of the        *)
(* configuration, and the admin operations on them (src/app/api/admin.py). *)
(*                                                                         *)
(* "with db.cursor()" is one transaction, so each admin operation is one   *)
(* action: the handlers are async functions without an await between their *)
(* statements and share the event-loop thread, and SQLite lets one writer  *)
(* in at a time.                                                           *)
(*                                                                         *)
(* Time is abstracted.  next_try is NULL ("null"), reached ("due") or      *)
(* still ahead ("later"); BackoffElapses and RetentionElapses are time     *)
(* passing.                                                                *)
(***************************************************************************)
EXTENDS Provider

CONSTANTS
    MaxRetries,  \* crawler.max_retries
    AdminOps     \* which admin operations the instance exercises

AdminOpNames ==
    {"reset", "retry", "reprobe", "reprobe_matching", "sync_now",
     "category", "override"}

ASSUME MaxRetriesAssumption == MaxRetries \in Nat
ASSUME AdminOpsAssumption == AdminOps \subseteq AdminOpNames

VARIABLES
    items,      \* items: the row of each title
    probe,      \* probe_state: the row of each vod and series title
    tracks,     \* audio_tracks: what the last stored probe found
    overrides,  \* manual_overrides
    noProbe     \* the excluded and always-deliver categories of the config

dbVars == <<items, probe, tracks, overrides, noProbe>>

Probed == Vod \union Series
ProbedKind == {"vod", "series"}
KindOf(i) == IF i \in Live THEN "live" ELSE IF i \in Vod THEN "vod" ELSE "series"

-----------------------------------------------------------------------------
(* Rows. *)

\* "listed" is removed_at IS NULL; "expired" is removed longer ago than
\* purge_after_days.
ItemRow == [state : {"absent", "listed", "removed", "expired"},
            version : 0..MaxVersion, cat : CatValue]
NoItemRow == [state |-> "absent", version |-> 0, cat |-> NoCategory]

\* attempts saturates at MaxRetries: the code compares it with nothing else.
ProbeStatus == {"pending", "deferred", "ok", "no_audio_info", "error", "skipped"}
ProbeRow == [status : ProbeStatus \union {"none"},
             attempts : 0..MaxRetries,
             next : {"null", "due", "later"}]
NoProbeRow == [status |-> "none", attempts |-> 0, next |-> "null"]

\* "tagged": some track has_language.  version is the title the tracks came
\* from, which the program does not store.
TrackRows == [found : {"none", "untagged", "tagged"}, version : 0..MaxVersion]
NoTracks == [found |-> "none", version |-> 0]

\* A kind without titles has nothing to filter.
CategoryFilters == [{KindOf(i) : i \in Probed} -> SUBSET Category]
NoFilters == [k \in {KindOf(i) : i \in Probed} |-> {}]

DbTypeOK ==
    /\ items \in [Item -> ItemRow]
    /\ probe \in [Probed -> ProbeRow]
    /\ tracks \in [Probed -> TrackRows]
    /\ overrides \in SUBSET Item
    /\ noProbe \in CategoryFilters

DbInit ==
    /\ items = [i \in Item |-> NoItemRow]
    /\ probe = [i \in Probed |-> NoProbeRow]
    /\ tracks = [i \in Probed |-> NoTracks]
    /\ overrides = {}
    /\ noProbe = NoFilters

InCatalogue(i) == items[i].state # "absent"
HasProbeRow(i) == probe[i].status # "none"

\* The row after INSERT ... 'pending' ... ON CONFLICT DO UPDATE SET
\* status = 'pending', next_try = now: a new row starts at 0 attempts, an
\* old one keeps its own.
Requeued(row) == [row EXCEPT !.status = "pending", !.next = "due"]

\* The row after UPDATE ... SET status = 'pending', attempts = 0,
\* next_try = now.
FreshRow == [status |-> "pending", attempts |-> 0, next |-> "due"]

-----------------------------------------------------------------------------
(* sync_probe_state_with_category_filters, for the filters the caller read. *)

\* Fault: manual overrides are forgotten.
SkippedByDespiteOverride(filters, i) ==
    /\ probe[i].status \in {"pending", "deferred"}
    /\ InCatalogue(i)
    /\ items[i].cat \in filters[KindOf(i)]

\* Fault: confirmed results are skipped with the rest.
SkippedByAlsoOk(filters, i) ==
    /\ probe[i].status \in {"pending", "deferred", "ok"}
    /\ InCatalogue(i)
    /\ items[i].cat \in filters[KindOf(i)]
    /\ i \notin overrides

SkippedBy(filters, i) ==
    /\ probe[i].status \in {"pending", "deferred"}
    /\ InCatalogue(i)
    /\ items[i].cat \in filters[KindOf(i)]
    /\ i \notin overrides

ReleasedBy(filters, i) ==
    /\ probe[i].status = "skipped"
    /\ \/ filters[KindOf(i)] = {}
       \/ InCatalogue(i) /\ items[i].cat \notin filters[KindOf(i)]

WithCategoryFilters(filters) ==
    [i \in Probed |->
        CASE SkippedBy(filters, i)  -> [probe[i] EXCEPT !.status = "skipped"]
          [] ReleasedBy(filters, i) -> [probe[i] EXCEPT !.status = "pending"]
          [] OTHER                  -> probe[i]]

-----------------------------------------------------------------------------
(* The admin operations. *)

\* POST /crawler/reset-probes
ResetAllProbes ==
    /\ "reset" \in AdminOps
    /\ probe' = [i \in Probed |-> IF HasProbeRow(i) THEN FreshRow ELSE probe[i]]
    /\ UNCHANGED <<items, tracks, overrides, noProbe>>

\* POST /crawler/retry-errors
RetryErrorProbes ==
    /\ "retry" \in AdminOps
    /\ probe' = [i \in Probed |->
                    IF probe[i].status = "error" THEN FreshRow ELSE probe[i]]
    /\ UNCHANGED <<items, tracks, overrides, noProbe>>

\* Fault: the two tables are mixed up.
ReprobeItemMixedUp(i) ==
    /\ "reprobe" \in AdminOps
    /\ tracks' = [tracks EXCEPT ![i] = Requeued(probe[i])]
    /\ probe' = [probe EXCEPT ![i] = NoTracks]
    /\ UNCHANGED <<items, overrides, noProbe>>

\* POST /crawler/reprobe: the id comes from a page that may be out of date,
\* so the title need not be in the catalogue any more.
ReprobeItem(i) ==
    /\ "reprobe" \in AdminOps
    /\ tracks' = [tracks EXCEPT ![i] = NoTracks]
    /\ probe' = [probe EXCEPT ![i] = Requeued(@)]
    /\ UNCHANGED <<items, overrides, noProbe>>

\* POST /crawler/reprobe-matching: matched is what the name search selects,
\* every row when it is empty and titles of the catalogue otherwise.
ReprobeMatching(kind, status, matched) ==
    LET ids == {i \in matched : KindOf(i) = kind /\ probe[i].status = status}
    IN  /\ "reprobe_matching" \in AdminOps
        /\ probe' = [i \in Probed |-> IF i \in ids THEN FreshRow ELSE probe[i]]
        /\ tracks' = [i \in Probed |-> IF i \in ids THEN NoTracks ELSE tracks[i]]
        /\ UNCHANGED <<items, overrides, noProbe>>

\* POST /overrides
AddOverride(i) ==
    /\ "override" \in AdminOps
    /\ overrides' = overrides \union {i}
    /\ probe' = [j \in Probed |-> IF j = i /\ probe[j].status = "skipped"
                                  THEN Requeued(probe[j]) ELSE probe[j]]
    /\ UNCHANGED <<items, tracks, noProbe>>

\* DELETE /overrides
RemoveOverride(i) ==
    /\ "override" \in AdminOps
    /\ overrides' = overrides \ {i}
    /\ UNCHANGED <<items, probe, tracks, noProbe>>

\* POST /config with category_filters in its body.
UpdateCategoryFilters(filters) ==
    /\ "category" \in AdminOps
    /\ noProbe' = filters
    /\ probe' = WithCategoryFilters(filters)
    /\ UNCHANGED <<items, tracks, overrides>>

AdminStep ==
    \/ ResetAllProbes
    \/ RetryErrorProbes
    \/ \E i \in Probed : ReprobeItem(i)
    \/ \E kind \in ProbedKind, status \in ProbeStatus,
         matched \in {Probed} \union SUBSET {i \in Probed : InCatalogue(i)} :
            ReprobeMatching(kind, status, matched)
    \/ \E i \in Item : AddOverride(i) \/ RemoveOverride(i)
    \/ \E filters \in CategoryFilters : UpdateCategoryFilters(filters)

-----------------------------------------------------------------------------
(* Time passes. *)

BackoffElapses(i) ==
    /\ probe[i].next = "later"
    /\ probe' = [probe EXCEPT ![i].next = "due"]
    /\ UNCHANGED <<items, tracks, overrides, noProbe>>

RetentionElapses(i) ==
    /\ items[i].state = "removed"
    /\ items' = [items EXCEPT ![i].state = "expired"]
    /\ UNCHANGED <<probe, tracks, overrides, noProbe>>

=============================================================================
