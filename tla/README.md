# Xtream filter proxy: a TLA+ model

The program (`src/app`) sits between an IPTV panel that speaks the Xtream
`player_api` and its clients. It copies the panel's catalogue into SQLite,
probes every VOD and series title for its audio languages, one at a time, and
serves the clients the titles that pass the operator's filters. This directory
models what is stateful in it, checks the models with TLC and proves some of
what they show with TLAPS.

## 1. The system

One process (one uvicorn worker) with three kinds of threads:

* the **event-loop thread** runs every `async def` handler: the admin API, SSE,
  `get.php`, and `POST /crawler/sync-now`. A handler without an `await` is
  atomic with respect to the others;
* the **crawler thread** runs a loop of its own: sync when one is due, then one
  probe, then the next iteration;
* the **thread pool** builds the `player_api` lists (and the warm-up after start).

They share one SQLite file (WAL, a connection per thread, so one writer at a
time and committed data only), the configuration object, the version-keyed
caches and the event broker.

| Component | State | Operations | Talks to |
|---|---|---|---|
| Provider (external) | its catalogue | answers listings and info requests, or fails; renames, moves, drops and recycles ids | sync, probe worker |
| Catalogue tables (`core/db.py`) | `items`, `probe_state`, `audio_tracks`, `manual_overrides`, `categories`, `settings`, `crawl_log` | transactions | everybody |
| Admin operations (`api/admin.py`, `crawler/worker.py`, `core/catalog.py`) | none of their own | reset, retry, reprobe, bulk reprobe, override, category filters, pause, sync-now | tables, configuration, caches |
| Sync (`crawler/sync.py`) | local: listing, seen ids, position | upsert in chunks, mark vanished, purge, category filters | provider, tables, caches |
| Probe worker (`crawler/worker.py`) | last kind, slot and ffprobe timestamps, throttles, status | select, fetch, defer, push back, store, mark | provider, tables, caches, broker |
| Visible sets, served lists (`core/catalog.py`, `core/filters.py`, `api/xtream.py`) | `FilterCache`, breakdown cache, rendered bodies, `data_version` | compute, get, set, invalidate, bump | tables, configuration |
| Configuration store (`core/config.py`) | configuration, version, YAML file | load, update with base version, replace | everybody |
| Event broker (`core/events.py`) | subscribers and their bounded queues | publish from any thread, fan out, shutdown | SSE clients |
| Audio parsing, ffprobe (`core/audio_parser.py`, `crawler/ffprobe.py`) | none | tracks of an answer; open a stream, with a timeout | probe worker, provider |
| Schedule (`crawler/schedule.py`) | none | is the clock inside a window | probe worker |
| Lifecycle (`main.py`, shell scripts, compose file) | process, timeouts | start, drain, stop, kill | all |

What is hard here:

* *Interleaving.* The event loop, the crawler and the pool threads act between
  any two transactions of each other; a sync started by the operator runs
  beside the crawler's.
* *Stale reads.* A probe waits seconds for its answer and then writes; a sync
  carries the configuration of its start to its end; a list is computed from a
  configuration and a database that move on.
* *Partial failure.* A sync commits in chunks and may stop after any; a probe
  stores tracks and status in two transactions.
* *Restarts.* Only the tables and the YAML file survive.
* *Progress.* Two kinds share one probe slot, errors back off, deferred titles
  wait for the slot, announcements are throttled.
* *Shutdown.* Open streams hold the server's drain, a probe holds the crawler, and
  three timeouts run over both.

What makes it correct, per component: tables and sync, that rows exist for what
is in the catalogue, that tracks belong to the title that has them, that nothing
is removed that was not dropped, that the tables catch up; probe worker, that
'ok' means a language is known and is only given up by requeueing, that errors
are retried until exhausted and no longer, that overrides hold and skipped
follows the filters, that no title waits for ever; served lists, that nobody is
served something older than what was announced before the request, and that
list, playlist, preview and breakdown say the same of a title; clocks, that a stream
is opened only after the cooldown and inside the window, and that results are
announced in the end; configuration, that nobody overwrites what they have not seen
of what is shown, and a restart changes nothing; broker, that the last word a browser hears is right
and shutdown gets through; lifecycle, that nothing is cut off
but an iteration that was under way at the stop and has been waited for.

`PROJECT.json` lists the hazards with the line where each bites and the
property that would catch it.

## 2. Modules

| Module | Models |
|---|---|
| `Provider` | the panel: per title listed or not, a version (its name), a category |
| `CatalogDb` | the rows that decide about probing, the category filters, every admin operation on them, time passing |
| `CatalogSync` | `run_full_sync` for the crawler and for sync-now |
| `ProbeWorker` | selection and the life of one probe |
| `Catalog` | the composition, fairness, all properties |
| `MCCatalog`, `MCCatalog_*.cfg` | TLC instances |
| `ConfirmedResults` | what `Catalog` promises about confirmed results: a notebook with a page for each title |
| `CatalogProofs` | theorems about `Catalog` with their proofs, that it implements `ConfirmedResults` among them |
| `ServedLists` | the visible set and the rendered bodies of one kind, their caches and keys, everything that reads, fills, clears and outdates them |
| `MCServedLists`, `MCServedLists_*.cfg` | TLC instances |
| `ServedListsProofs` | theorems about `ServedLists` with their proofs |
| `AnnouncedReads` | what the served lists promise: a register that is announced from time to time |
| `ReadsProofs` | that `ServedLists` implements it, with the proof |
| `Visibility` | the filter stages, the breakdown and the preview, for one title |
| `M3uFilter` | the scan over the lines of a playlist |
| `Playlist` | the composition of both |
| `MCVisibility`, `MCVisibility_filters.cfg` | a TLC instance of it |
| `VisibilityProofs` | theorems about `Playlist` and its parts with their proofs |
| `ProbeOutcomes` | what may become of asking for the tracks of a title |
| `AudioTracks` | which entries of an answer are tracks, and what each says |
| `TrackFetch` | the API, the slot check and ffprobe, and what the title is taken for |
| `MCTrackFetch`, `MCTrackFetch_tracks.cfg` | a TLC instance |
| `TrackFetchProofs` | theorems about `TrackFetch` with their proofs |
| `Schedule` | the windows of the week, and what a window is meant to be |
| `CrawlerClock` | the crawler's loop over time: stamps, sleeps, pause, window, slot, cooldown, throttle |
| `MCCrawlerClock`, `MCCrawlerClock_clock.cfg` | a TLC instance |
| `ClockProofs` | theorems about `CrawlerClock` and `Schedule` with their proofs |
| `EventBroker` | publishers, fan-out, queues and streams |
| `Lifecycle` | the same through a shutdown with its timeouts |
| `MCLifecycle`, `MCLifecycle_events.cfg` | a TLC instance |
| `LifecycleProofs` | theorems about `Lifecycle` and `EventBroker` with their proofs |
| `ConfigStore` | the configuration, its file, and the pages that edit it |
| `MCConfigStore`, `MCConfigStore_*.cfg` | TLC instances |
| `ConfigStoreProofs` | theorems about `ConfigStore` with their proofs |

The families share no variable. `ServedLists` sees of the catalogue only that
something was committed, and by whom, and of a configuration its version;
`Catalog` sees nothing of the caches, which no step of a sync or a probe reads.
`CrawlerClock` has of a title its status and how long it waits, and is the place
where the guards `Catalog` leaves open (`CrawlerIdles`, `gated`) have their
causes. `TrackFetch` has one fetch and no rows, and gives `ProbeWorker` the outcomes it
chooses from (`ProbeOutcomes`, which both extend). `EventBroker` has of the crawler what it publishes and whether it probes.

### State and code

* `items[i]` is the row of `items`: `listed` is `removed_at IS NULL`, `removed`
  has it set, `expired` is removed for longer than `purge_after_days`. A name
  is a `version`: `sync_kind` compares nothing else.
* `probe[i]` is the row of `probe_state`: status, `attempts` (saturated at
  `max_retries`, with which alone it is compared), `next_try` as `null`, `due`
  or `later`. `priority` is left out: among the rows of equal rank any may come
  first, which includes the order the code chooses.
* `tracks[i]` is what `audio_tracks` holds: nothing, tracks without a language,
  or some with one; its `version` records which title they came from, which the
  program does not store and a property needs.
* `noProbe[kind]` is `_no_probe_category_ids` of the configuration, excluded and
  always-deliver categories together. Kinds without titles are left out of the
  function. `POST /config` writes the configuration and the rows in one step:
  the handler has no `await` in between and neither of the other readers of the
  filters looks at the rows and the configuration together.
* `sync[p]` is the run of thread `p`: phase, kind, fetched listing, what is left
  to do, and the filters it was started with. One chunk is any non-empty part of
  what is left (`SYNC_COMMIT_EVERY` is a number of writes, so the boundary may
  fall between any two entries). The read and the write of an entry are one
  step; the transaction is opened by the first write of the chunk, the reads
  before it are of rows no other writer has changed unless it is the other sync.
* `job` is the local state of `_probe_item` and `_mark_probe`. `gated` is "slot
  busy or cooldown running", free to be either at every pick. What
  `_fetch_tracks` returns is an `Outcome`; which are possible depends on whether
  ffprobe is configured and allowed (`OutcomesOf`); `OutcomesKnown` of `TrackFetch` is
  that there are no others.
* `ImplementsResults` maps `probe`, `tracks` and `job` to the notebook of
  `ConfirmedResults`: a page has what `audio_tracks` holds while the row is 'ok' and
  is empty otherwise, and the title asked about is that of the job. Each table is
  written in a transaction of its own; the notebook has one step, the one that
  marks the row.

Logging, `crawl_log` rotation, priorities, the status text and events are left
out of these modules. Pause and schedule appear as the crawler not taking a step
(`CrawlerIdles`); `CrawlerClock` has them.

### Actions and code

Admin operations: one action each, named after the method of `CrawlerWorker` or
the handler. Sync: `StartSync` (the configuration is read), `FetchListing` /
`FetchFails`, `UpsertChunk`, `FindVanished`, `RemoveChunk`, `FinishKind`,
`PurgeOld`, `FinishSync`, `AbortSync`. Probe: `Pick` (`_next_pending_item`),
`BeginProbe` (status read again), `FetchTracks`, then `DeferProbe`, `PushBack`,
or `StoreTracks` / `ReadAttempts` / `MarkProbe`. Between any two of them the
other threads, the provider, time, an exception or a restart may act.

### Served lists

* `config` is the version of `ConfigManager` and stands for its content:
  `update` swaps both under its lock, but `get()` and `version` are two calls,
  and so two steps here. `commits` counts the transactions that can change what
  is visible; content is recorded as the number of commits when it was read.
* `filterCache` is the entry of the kind in `_filter_cache`, `rendered` the bodies
  in `_rendered_list_cache`. `Hit` is the comparison of both.
* `build[b]` is the stack of a request in the pool (`_rendered_list_response`,
  `_filter_categories` or `_build_stream_list`, `compute_visible_for_kind`) or of
  the view under way on the event loop (`get_stats`,
  `_visible_ids_and_category_names`, `_filter_m3u`). One step per read or write of
  shared state, in the order of the code, which differs between them: a list of
  categories reads the category names before `data_version`, a list of streams
  after it, a playlist not at all. The warm-up is a request. The tables behind a visible set are
  read one after the other and recorded as of the first read, which makes the
  content no more recent than it is. The rows a list is rendered from
  (`_categories_from_db`, `_db_list`) are left out.
* `writer[t]` is what a thread still has to do after its commit:
  `invalidate_filter_cache` clears one cache, then the other, then
  `data_version.bump`. Only `DELETE /overrides` and `POST /config` end without the
  bump. A probe result inside the throttle interval and a chunk of a sync commit
  and do nothing else (`CommitQuietly`).
* The event-loop thread runs one view or operation at a time (`LoopFree`): these
  handlers do not await between their reads and writes. The `+= 1` of
  `data_version` is one step: CPython 3.11, which the image uses, switches threads
  at calls and backward jumps only, and the statement has neither.
* `promised` and `settled` are history variables the properties need: how much
  had been committed when a version was handed out, and what finished operations
  without a bump had brought about.

* `ImplementsReads` maps this to the register of `AnnouncedReads`: a request is a
  reader that has asked while its list is under construction and has its answer when
  the list is there; the value is the number of commits behind the visible set, the
  announced one what the current version promises.

### Visibility and playlists

* `title` is a row of `items` with what `probe_state`, `audio_tracks` and
  `manual_overrides` have of it, `config` the filters of its kind. A text is the set
  of the patterns found in it; `combined` is the name with that of the category,
  which may match more or, with anchored patterns, less. A track is the set of the
  patterns its `match_text` matches. Titles do not meet in any of these functions, so
  that one title stands for each.
* `Visible` and `HiddenBy` are the two loops of `catalog.py`, `PreviewPasses` that of
  `filter_preview`. An edit changes one thing (`SaveConfig`); since every
  configuration is an initial state, every pair of configurations one edit apart is
  a step.
* `FilterM3u` is the loop of `_filter_m3u` over lines, for a given set of urls that are
  to go. `Hidden` gives it those: what is read off a url is a kind (`KindIn`: "/movie/"
  or "/series/" in it, else live) and the number it ends in (`IdIn`), if any, and it goes
  if the number is none of the visible ids of that kind. For a channel or a movie that
  is the title itself. The number of an episode is its own (`worker.py:766`), not that of the
  series, whose ids it is looked up among all the same; so `PlaylistFiltered` ties the
  lists to the entries of channels and movies only. `title` is here one of
  these, `Others` what is visible beside it. `InPlaylist` leaves the name of the
  category out, as the call does.

### The crawler's clocks

* A tick is the five seconds of the idle sleeps. A stamp is an age that is counted up
  to the limit it is compared with; `next_try` is what is left to wait.
* `loop` is where `_loop_iteration` waits. The steps between two awaits take no time.
  `ignore` is that of the configuration the iteration read at its top. `since`
  is the age of `now` in `_probe_item`, from which a push-back is counted.
* `ApiSettles`, `Defer`, `CheckSlot`, `SkipCheck`, `SlotLooksFree`, `SlotIsBusy`,
  `FfprobeEnds` and `FfprobeFails` are the ways through `_fetch_tracks` and
  `_has_free_slot`. The first branch of `_has_free_slot` (`worker.py:388`) is never
  taken, because its caller asks for the flag first.
* `announced` is whether a `data_version` covers all that is stored; `quiet`, `begun` and
  `overdue` are history variables. The last two count from when the crawler is to stop:
  whether a probe was begun since, and whether a tick has gone by.
* `StopsSoon` is what the code keeps of "react within five seconds": pause and window
  are looked at before the sync, so that one probe more may begin, at once or when
  the sync is over.
* Left out: priorities and the turns of the kinds (`Catalog` has them), the request
  delay, which is shorter than a tick, operator actions that announce at once, and
  restarts, which forget the stamps.

### Tracks

* `title.answer` is what the info call has of each episode of a series, seasons in a
  row, or of the film; `title.container` what ffprobe would find in the stream, audio
  and other streams.
  An entry keeps the four places a language or a title may come from, with one word in
  each, and one word for codec and channels. A pattern is the word it finds, so that
  one which only matches across two of them is not among the filters.
* `phase` is what `_fetch_tracks` awaits: the info call ("asking"), the request for
  connections ("checking"), the start of ffprobe ("opening") and its end ("probing").
  Cooldown and recheck, which may refuse before the request (`RefuseEarly`), are
  `CrawlerClock`'s.
* `Fail` has every exception that `_probe_item` turns into an error, the timeout of
  ffprobe among them; `run_ffprobe` kills the process before it raises.
  `FfprobeIsTurnedAway` is the exit without a word that counts as a busy slot.
* `others` is the number of connections beside the crawler's, -1 as long as it has not
  been asked for. The panel is taken to count the request itself, as `worker.py:380`
  says; one that does not lets the crawler have one connection too many.
* `HasUrl` is that there is something to open: always for a film, for a series if it has an
  episode. An episode without an id, which has no url either (`worker.py:771`), is left
  out of the answers; its title would go the way of a series without episodes.
  `IncludedNeverMissed` speaks of titles with a url only.

### Events and the end of the process

* `ready` is what `call_soon_threadsafe` has scheduled, `queue[s]` the queue of a
  stream, `crawler.frame` and `operator.frame` the snapshot each publisher holds
  between reading and publishing. A stream is "accepted" from the handler's return
  until its generator has begun. Frames of other kinds than the status are `Dirty`.
* The crawler's thread goes on between the steps of the event loop, the signal handler
  comes between any two of them. `pause` and `resume` have three steps, since their
  thread does not hold the lock of the status while it publishes.
* `phase` goes through the signal, uvicorn noticing it, the drain, the wait for the
  crawler, and the end; `Kill` is the supervisor's. The requests of other handlers
  that a drain waits for are not modelled: the drain may take all of its time
  anyway when a stream is let in late.
* `crawler.at` is where an iteration is: from the loop head ("free") through the look at
  pause and window ("looked") to a sync, a probe or a sleep. The stop event is looked at
  at the loop head and in the sleeps (`worker.py:264`, `424`), so that `Work` lets no
  iteration begin during the stop but lets the one under way go to its end, from its
  sync to a title too (`MayTake`). Syncs, probes and sleeps take time, nothing else does.
* `lost`, `behind`, `excused`, `age` and `late` are history variables that say when the
  properties do not apply, or from when on something is counted.

### Configuration

* Three sections stand for the parts of the configuration that the two forms of the
  dashboard write: the windows of the schedule, the other settings, the categories.
  `page[p]` has the version and what the two forms show; that the
  page renews the version with the settings only is in `LoadSettings` and
  `LoadCategories`.
* Of a list of windows the form shows and saves one: the first, or one of its own if there
  is none (`index.html:991`, `1036`). That is `First`, a constant function; what
  `_deep_merge` puts in place of the list is the list of that one (`SaveSettings`). All other
  settings the form shows and saves whole, but for the password, which is left out.
* `update` is one step when it returns: it holds the lock and the event loop. When it
  raises before the file is opened nothing has changed, which is a step left out.
  `CutShort` is the write of the file that fails or that the process does not
  survive; the process goes on or not.
* `whole` is a history variable: whether the last write was completed.

Operators described as a *Fault* in a comment are deliberately wrong variants of
the definition after them. No specification uses them; they are there to show
that a property fails when the code is wrong in that way.

## 3. Runs

| Run | Instance | Shows |
|---|---|---|
| `title` | one VOD title, one category, one rename, `max_retries` 2, all admin operations but sync-now, exceptions and restarts | `TypeOK`; `OkTracksCarryLanguage`; `ErrorParkedIffExhausted`; `FreshResults`; `EveryTitleHasProbeRow`; `OkGivenUpOnlyByRequeue`; `ImplementsResults` |
| `converge` | a VOD and a series title, fairness | `CatalogueConverges`, `QueueDrains` |
| `filters` | one title that moves between categories and is never dropped, the crawler's sync and sync-now interleaved, overrides, exceptions and restarts, fairness | `NoFalseRemoval`, `OverriddenNeverSkipped`, `FiltersConverge` |
| `served_views` | a list of streams in the pool, the admin view of the event loop, every kind of write | `TypeOK`, `AnnouncedServed`, `ImplementsReads` |
| `clock` | two titles, a week of two days of three ticks with a window over midnight, pause, `ignore_active_cons` switched on and off, failures anywhere, fairness | `TypeOK`, `ScheduleExact`, `CooldownKept`, `StopsSoon`, `NoTitleForgotten`, `ResultsAnnounced` |
| `events` | one stream that comes and goes, the crawler and pause/resume, a shutdown | `TypeOK`, `LastWordIsRight`, `OnlyLaggardsHoldTheDrain`, `OnlyOldIterationsAreCut` |
| `config` | a page, saves by hand, a list of two windows, an invalid value, torn writes, one restart | `TypeOK`, `RestartKeepsConfig`, `NoSettingsOverwritten` |
| `tracks` | every answer of up to two episodes with any of four entries, every container, filter of three words and number of connections up to two | `TypeOK`, `OutcomesKnown`, `IncludedNeverMissed`, `SlotCheckExact` |
| `visibility` | every title and configuration of one category, one title pattern, two audio patterns and two tracks; playlists of two entries with any of five urls | `TypeOK`, `BreakdownExplains`, `ShortcutIsSound`, `PreviewAgrees`, `PlaylistFiltered`, `NarrowingRevealsNothing` |
| `stale_result` | as `title`, with sync-now | violates `FreshResults` |
| `served_filters` | a playlist, a save, a removed override and a sync beside a request | violates `FiltersServed` |
| `lost_save` | two pages and one process | violates `NoSaveOverwritten` |

The last three are disagreements between the code and what its documents or
comments say; `PROJECT.json` quotes them. What they come to for a user:

* `stale_result`: after sync-now has renamed a title, the languages of the title
  before it may be stored for it, as confirmed.
* `served_filters`: after a playlist was fetched, the lists ignore `match_category`
  until a version changes. `FiltersServed` has four conjuncts, and each fails in this
  instance when it is checked alone: the list a client was fetching during a
  save (`xtream.py:205`) or the removal of an override (`admin.py:203`) may be put
  back into a cache afterwards and served until a version changes, and a list of
  categories built while a sync ends (`xtream.py:207`) leaves a visible set made with
  the old category names under the new version.
* `lost_save`: a page that shows an old table of categories and has saved settings, or
  retries after a conflict, overwrites the categories saved from elsewhere.

`AnnouncedServed` therefore speaks of the items, the overrides and the probe
results behind a visible set, and not of the category names; and
`NoSettingsOverwritten` of the settings form only, and of what it shows.

*Bounds.* `MaxVersion` renames: one is enough to tell a title from the one before
it, and `tracks.version` is only compared. `MaxRetries` 2 is the least value with
a retry that is not the last, 0 and 1 are used where retries do not matter; in
`converge` it is the deferred titles, which may be pushed back for ever, that
compete with the pending ones.
The rows of two titles meet only in the selection (turns between kinds) and in
the sets a sync works on, hence one title for the row invariants, one of each kind
for the turns; that a result is confirmed for the title asked about and for no other
rests on the proof of `ImplementsResults`. `max_retries` is a constant, although
`_mark_probe` reads it again each time: a row parked or put off under one value is
not looked at again under the next.
`purge_old` reads what has expired before its transaction begins; `PurgeOld` takes both as
one step. `converge` has the crawler's sync only: that the catalogue also converges
after syncs of two threads have overlapped is `TitleConverges`.
One operator-started sync at a time beside the crawler's:
a third adds another stale listing and filter set, which two already give.
`KindOrder` leaves out kinds that have no titles in the instance. `NoFalseRemoval`
is run with one kind only; that a listing of one kind removes nothing of another
rests on the theorem; so does `EveryTitleHasProbeRow` with two syncs at a time.
For the served lists two builders are the least that can put something stale back
for another, and the loop's view and a request of the pool share the visible set; 2
commits and 2 bumps are the least with a version before, at and after a
commit. The two readers differ in what can go wrong with them: the loop's view reads the
names before the version, a list of streams after it; playlists, which pass
over the rendered bodies, come with `served_filters`. One kind: the caches are keyed by kind and an entry of one is never read
for another, only cleared together with it.
In `clock` the limits differ from each other by a tick at the most, which is where
stamps overtake one another: an interval longer than the recheck, a cooldown
shorter than it, a throttle that two probes fall into. Two titles are needed
for one to be preferred to the other. `ScheduleExact` goes over all windows of
the toy week at every time of it.
In `events` one stream is enough, since streams meet only in the set of subscribers;
its queue of two holds a status and one event more. Beside a sync and a probe one status stands
for the others, under all of which the crawler sleeps. One fan-out is scheduled at a time
(`MaxReady` 1), while the crawler and the operator may each hold a frame they are about
to publish. `Grace` is less than the two timeouts together, as 140
seconds are less than 130 and 120.
In `config` three versions let a save come between the load and the save of a page;
two lives are one restart. Pages meet only in the configuration, and a save by hand can
do to it all that the save of another page can, hence one. A list of two windows
begins with the default one, so that what the form makes of it is a third thing beside
another single window.
`visibility` starts from every title under every configuration of its patterns, one
pattern in each title filter and two in each audio filter, which tell "one track that
matches" from "one that is excluded" within a title. The urls of its playlists are those
of the title as a channel and as a movie, of an episode that has the number of the title
and of a series that is visible, of a channel that is not visible, and one without a
number.
The entries of `tracks` are one of each kind that is treated differently: a language in
the title, a label where the language belongs, a label in the title with the language
beside the tags, and subtitles. Two episodes are the least of which the first may have
nothing; 0 to 2 connections and 0 to 2 of them reserved include the account with
one connection and the reserve that leaves none. A fetch ends, so
that this run does not check for deadlock.

*Fairness.* The crawler loop runs for ever in a process that is not stopped:
what it has begun goes on (weak fairness of its sync steps and probe steps).
Its iterations come round again, so a sync falls due infinitely often and so
does a chance to probe; each is possible only while the other is not under way,
hence strong fairness. A provider asked infinitely often for the listing of a kind
answers at some point (strong fairness of `CrawlerFetches(k)` for each kind: a
provider that always failed for the same kind would leave it behind); without it no
catalogue could catch up.
Time passes (backoff, retention). Nothing is assumed of the operator, of
sync-now or of failures, and the liveness properties are stated for behaviours
in which these come to rest (`Quiet`): from some point on every step is a regular
one of the crawler, a sync or time. An exception whose effect is that of a regular
step, such as one after the last write of a sync, is one of these.
In `clock` time passes (weak fairness of `Tick`) and the loop goes on, be it with an
exception, since every await has a timeout. Rows are taken in the order of
`next_try` within their rank, so that a title that is a candidate again and again
has its turn (strong fairness of `Pick(t)`); a sync succeeds now and then (strong
fairness of `EndSync`). Neither property needs a slot to be free at any time: a title
that is tried and pushed back is not forgotten. They are stated for
operators who come to rest and leave the crawler running, and for iterations that do
not end with an exception any more (`Calm`): one that failed for the same pending title
each time would keep deferred ones from their turn.
The other modules are checked for safety only.

## 4. Proofs

`CatalogProofs` proves, for every set of titles and categories, every bound and
every choice of admin operations and faults:

* `TypeCorrect`: `Spec => []TypeOK`;
* `RowsStaySound`: the inductive invariant behind the row properties. A probe in
  flight must agree with the table it is about to write to:
  `StoreTracks` runs before `MarkProbe`, and for the second to be right the first
  one's rows must still be there or the row be requeued. The lemma `LeavesSound`
  says what the other threads may do to a row without disturbing that, and every
  action of theirs is shown to be one of it. From it `OkMeansLanguage`,
  `ErrorsParkOnlyWhenExhausted`, `OverridesHold`, `TitlesAreQueued` and
  `OkIsStable` follow;
* `ResultsStayFresh`: `FreshResults` if sync-now is not used
  (`"sync_now" \notin AdminOps`). The invariant ties the version in the answer of
  the probe to the row and relies on the crawler doing one thing at a time; the
  run `stale_result` shows that the assumption is needed;
* `NothingIsRemovedFalsely`: `NoFalseRemoval`, from an invariant on the listing
  each sync holds and on what it still has to remove;
* `CatalogKeepsResults`: `Spec => ImplementsResults`, step by step: a background step
  clears pages or ends the asking (`BackgroundForgets`, from `LeavesSound`), a pick asks
  (`PickAsks`), and of the steps of a probe only the last one enters anything
  (`ProbeLearns`, from `RowsStaySound`: the row of a title under way is not 'ok', so
  that storing its tracks writes over no entry).

It also proves of each title of any catalogue what the liveness properties say, but for
the scheduling. The hypotheses are that from some point on only the crawler and time
take steps (`CalmStep`; a sync the operator began is over by then, or stands still) and
that certain steps of the crawler are taken again and again. The latter is what
`Fairness` is there for; that it brings them about is for TLC to check
(`CatalogueConverges`, `FiltersConverge`, `QueueDrains`).

* `TitleConverges`: if the crawler's sync is done with the kind of the title again and
  again (`CompletesKindOf`), then the catalogue comes to agree with the provider about
  the title and goes on to (`<>[]Agrees(i)`). The first time round may carry a listing
  from before the calm; `RunRight` is what is true of every one after it, wherever the
  run is: its listing is the provider's, and what it has left to do about the title
  will make the two agree.
* `TitleFollowsFilters`: if syncs also come to their end again and again
  (`FinishSync`), then `<>[]FollowsFilters(i)`. The sync that ends must carry the filters
  in force (`FiltersHeld`), the crawler must not probe meanwhile (`OneThingAtATime`), and a
  probe under way must not defer a title that is to be kept out: one that is kept out and
  is still probed has failed before (`JobFollows`).
* `TitleLeavesQueue`: `<>[]~ Waiting(i)`, if moreover a title that waits for ever has
  probes of it finished again and again. Nothing puts it back: an upsert finds the
  title it knows, the filters release nothing the row follows already, and its first
  probe does without ffprobe and is not pushed back (`FirstProbeRight`).

`ServedListsProofs` proves, for any number of requests and any bounds:

* `TypeCorrect`: `Spec => []TypeOK`;
* `AnnouncedAlwaysServed`: `Spec => []AnnouncedServed`. The property itself is not
  inductive: it says nothing of what lies in the caches and in half-built lists.
  `KeysKeepPromises` adds that `promised` grows with the versions
  (`PromisesGrow`), that an entry filed under version `v` is at least as recent as
  `promised[v]` (`Sound`), and that a list under construction is on its way to that
  (`Building`): the version it read covers what its request may expect, the key of
  the visible set is no older than that of the body, and the tables are read after
  both. Clearing the caches plays no part in the argument, reading the version
  before the tables and bumping after the commit do.

They assume that the bounds are natural numbers and that `Loop` is none of the
requests.

`ReadsProofs` proves `CachesImplementReads`: `Spec => ImplementsReads`, again for any
number of requests and any bounds. To `KeysKeepPromises`, which gives the lower bound
of an answer, it adds `OnlyCommitted`: nothing under construction or in a
cache is more than what is committed. Every step is shown to be one of a list
(`Moves`, which is a step of its reader or none) or one of the operations
(`WriteStep`, a write, an announcement or none).

`VisibilityProofs` proves all properties of `Visibility` for any categories, patterns
and numbers of tracks. Four of them follow from the type invariant, the category
conflict that `validate_config` rejects included, which is what makes the two orders
of the stages agree; `NarrowingNeverReveals` rests on the monotonicity of
`Matches` (`NarrowerMatches`) stage by stage. `PlaylistAlwaysFiltered` is about the scan
over the lines, for any urls and playlists of any length: `EntryTyped` and
`ScanEntry` say where the scan stands at the end of an entry, whatever it has left out
before, and `FilterRemains` puts the entries together, by induction over their number.
The induction is by the least counterexample (`Induction`, from the well-foundedness
of the natural numbers), because the theorems of the library about induction and
recursion take an operator as a parameter; `ScanExists` and `FlattenExists` give
the recursive functions by the same argument. Assumed is that the url of the title is not
itself one of the lines that stand alone (`PlaylistAssumption`); what kind and number are
read off a url is any function, and which other ids are visible any set. `HiddenIsLost` says
of the visible sets with and without the title what that leaves of it.

`ConfigStoreProofs` proves, for any number of pages, values and restarts, that no
invalid value is ever in force (`TypeCorrect`), that a restart finds what was in
force (`RestartAlwaysKeeps`, inductive with the type invariant), and
`SettingsNeverOverwritten`, from the invariant `PagesKnow`: a page that holds the
present version of this life shows the settings in force, and the window that the form makes
of the windows. `First` may be any function of lists of windows.

`ClockProofs` proves the safety of `CrawlerClock`, for any titles, limits and windows:

* `TypeCorrect`, which has to bound what a sleep may still last;
* `ScheduleAlwaysExact`: a week of any number of days of any length. `Covers` counts the
  time since a window began, modulo the week; the proof says for each day
  the program may ask about how large that is, which settles the
  comparison with the length of the window;
* `CooldownAlwaysKept`: the history variable `quiet` is the age of the last connection,
  and `CooldownStamped` ties it to the stamp. The stamp ages while a stream is held, so
  that it says nothing then; it is renewed on every way out, and may otherwise
  only be reset (`ignore_active_cons`) in an iteration that does not ask for it;
* `AlwaysStopsSoon`: `LookedInTime` says where in an iteration the one probe may still be
  on its way. Past the place where pause and window are looked at, nothing has begun
  yet, and an iteration that is still there a tick later is in its sync or has just
  ended it.

`LifecycleProofs` proves the safety of `Lifecycle`, for any number of streams, sizes of
the queues and timeouts:

* `TypeCorrect`;
* `OnlyOldIterationsAreEverCut`, from `WaitedFor`: no iteration begins after the stop, so
  that the clock of the wait and the age of the iteration go on together, and
  an iteration that has begun its probe goes to no other;
* `OnlyLaggardsEverHold`, from `SentinelsArrive`: once the signal has been handled, each
  stream that is not excused has the sentinel in its queue, also one whose
  generator has not begun to read, and only the reader takes it out;
* `LastWordAlwaysRight`, from `WordsRight`, which follows the last status of a
  stream backwards: it is the last one scheduled if any is, else the last in its
  queue, else what is shown, and that one is right in what its author knows. The lemmas
  on `LastIs` say what adding to a queue, dropping its oldest and taking its first
  do to its last status.

`TrackFetchProofs` proves all properties of `TrackFetch`, for any entries, patterns,
numbers of episodes and connections. Each is about the last step of a fetch:
`IncludedIsNeverMissed` rests on `AskedIsParsed`, that all ffprobe says of a track is in
the text the filter searches, and `OutcomesAlwaysKnown` on a stream being opened only
when there is an ffprobe whose turn it is (`Opened`).

Only model-checked: the liveness properties as they stand. TLAPS 1.4.5 does not reason
about `ENABLED`, and so not about `WF_` and `SF_`, which leaves open in `Catalog` that
the fair crawler comes round to what the three theorems above assume. Nothing of this
kind is proved for `CrawlerClock`: `NoTitleForgotten` is about nothing but the
scheduling, and of `ResultsAnnounced` the rest, that a sync announces, is one step.

## 5. What is left

Modelled and checked: catalogue, sync and probing; the fetch of tracks; served lists and
their register; visibility and playlists; the crawler's clocks; configuration; events
and shutdown. The safety of all of them is proved, and the convergence of the catalogue up to the
scheduling. Left:

1. A proof that `CrawlerClock` implements the gate of `ProbeWorker`, and that
   `TrackFetch` gives it its outcomes, for which they would need one vocabulary of rows.
2. The content of a configuration in `ServedLists` (which stages a save touches), so
   that `Visibility` and the caches could be composed.

### Seen while modelling, not checked by a run

* Deferring a title for ffprobe counts as an attempt (`worker.py:535`), and
  `max_retries` is compared with all attempts (`worker.py:796`), so with
  `max_retries: 2` the first failure after a deferral is final.
* A reprobe that comes between the two transactions of a probe of the title is lost: it
  deletes the tracks just stored and queues the row, and the probe then marks it 'ok'
  (`worker.py:588`). The title is 'ok' without tracks, which the filters take for unknown
  (`catalog.py:63`), until somebody asks again. In `ImplementsResults` that is a
  page with an empty result.
* Excluding a category does not stop the retries of its failed titles: only pending
  and deferred rows are skipped (`catalog.py:275`), and `error` rows are picked
  (`worker.py:461`), while `README.md:221` says "hidden, not probed" and
  `config.example.yaml:83` "crawler skips it".
* A sync that was running while category filters were saved ends with the ones
  it began with (`sync.py:230`) and undoes the save in `probe_state` until the next
  sync, against `catalog.py:260-262`. `FiltersConverge` says that a later one sets it
  right.
* A due sync waits for pause and window (`worker.py:278-286`), while
  `plans/mvp.md:268` has it independent of them.
* The served lists may lag behind the crawler for longer than the 120 seconds of
  `worker.py:117-119`: the results inside an interval have no announcement
  of their own, and wait for the next probe or sync (`ResultsAnnounced`).
* The drain and the wait for the crawler come one after the other, so that a stop may
  take 130 + 120 seconds, and the supervisor kills after 140, although
  `docker-compose.yml:16` says "never SIGKILLs mid-connection".
* An iteration that is told to stop during its sync goes on to a probe
  (`worker.py:303-355`), however late the sync ends. It may be cut off as soon as it has
  begun, by the 120 seconds of `crawler.stop` or by the supervisor, although
  `README.md:161-163` says "so `docker compose down` never kills the crawler mid-probe"
  and `stop.sh:4-7` that a request in flight "always completes cleanly".
  `OnlyOldIterationsAreCut` states what does hold: the iteration was under way at the
  stop, has been waited for, and begins no second probe.
* In the same way a pause, or the end of the window, during a sync lets one probe begin
  when the sync is over, minutes later, against `plans/mvp.md:262`, `383` and `386`,
  where the crawler reacts within five seconds and only the title under way is
  finished. `StopsSoon` has this one probe as the exception.
* The settings form shows the first window of the schedule and saves a list of one
  (`index.html:987-994`, `1033-1041`), which takes the place of all windows
  (`config.py:202-210`): every save of the settings drops the others, at the right version. No
  window at all is shown, and saved, as one from 02:00 to 06:00.
* The playlist looks for the number of an episode among the ids of the visible series
  (`xtream.py:479-483`), although `xtream.py:449-453` speaks of the id sets of the player_api:
  its entry stays if some visible series has that number and goes otherwise, whatever the
  filters say of its own series. Entries with a number that is not in the catalogue go as well.
* An expired title that another sync brings back between the read and the transaction of
  `purge_old` (`sync.py:198-215`) is deleted all the same, until the next sync.
* Overlapping syncs may remove a title that came back after the older of their listings was
  fetched (`sync.py:169`), until the next one.
* A stream whose queue is full at the signal gets no sentinel, and one that is let in
  between the signal and the closing of the sockets has none either; both hold
  the drain until the browser leaves or the timeout.
* A generator that ends before its `try` (`admin.py:43`) leaves its queue among the
  subscribers.
* The frame of `pause` and `resume` repeats a status that may be older than the
  crawler's last one, and the crawler's frame a setting that may be; each is right in
  what its author knows (`LastWordIsRight`).
* After a restart versions are counted from 1 again, and a page of the time before may
  save over settings it has not shown. A torn file comes back with defaults
  for what is missing, or keeps the process from starting.
* A time such as "24:00" passes `validate_config` (`config.py:135`) and fails in every
  iteration of the crawler (`schedule.py:15`).
* The preview asks neither for category filters nor for overrides, matches no category
  names (`admin.py:405`), and takes tracks of titles that are 'error' or
  'no_audio_info' for known, which the lists do not; `PreviewAgrees` excepts these.
* In a playlist a directive between `#EXTINF` and its url, or CRLF line ends, which the
  `$` of the pattern does not match before, let a hidden title through
  (`xtream.py:471-483`); `PlaylistFiltered` assumes that a url follows its `#EXTINF`.
* `GET /api/stats` counts total, visible and hidden titles at different moments, so
  that the sum holds for one content of the tables only (`BreakdownExplains`).

* Whether the API's word is enough is asked of the include filter only (`worker.py:711`):
  a track of an excluded language that the API leaves out goes unseen once another one
  satisfies the filter. A title settled under one include filter is not looked at
  again under the next (`worker.py:651`).

### Not modelled

Redirects and passthrough are stateless.
The read-only views and the ETA have no effect on any state. `backup.sh` is used by
nothing in the service. `ConfigManager.replace` is called by nothing. The start of the
process and its scripts have one order and no concurrency.
