---------------------------- MODULE ServedLists -----------------------------
(***************************************************************************)
(* The lists clients are served and the caches behind them: the visible    *)
(* set of a kind (FilterCache, src/app/core/filters.py) and the rendered   *)
(* bodies (_RenderedListCache, src/app/api/xtream.py), both keyed by the   *)
(* versions of the configuration and of the data, for one kind of titles.  *)
(*                                                                         *)
(* Requests for player_api lists run in the thread pool.  get.php and the  *)
(* views of the admin API run on the event-loop thread, as do the admin    *)
(* operations: of these one at a time.  The crawler is a thread of its own.*)
(* Each thread may be stopped between any two of its reads and writes of   *)
(* shared state.                                                           *)
(*                                                                         *)
(* Content is abstracted to when it was read.  The configuration is its    *)
(* version, which every save changes; the tables are the number of commits *)
(* so far that can change what is visible.  A visible set is computed from *)
(* several tables one after the other; it is recorded as of the first      *)
(* read, so that every part of it is at least that recent.  The rows a     *)
(* list is rendered from are left out: they are read after the versions    *)
(* that are the key of the body and are cached nowhere else.               *)
(***************************************************************************)
EXTENDS Naturals

CONSTANTS
    Request,     \* the requests the thread pool can have under way
    PoolAction,  \* the player_api actions asked for
    LoopAction,  \* the views asked for on the event-loop thread
    Operations,  \* what the writers do in the instance
    Loop,        \* the view under way on the event-loop thread
    MaxSaves,    \* bound: configuration saves
    MaxCommits,  \* bound: commits
    MaxBumps     \* bound: data_version

PoolActions == {"categories", "streams"}
LoopActions == {"m3u", "admin"}
OperationNames == {"save", "requeue", "remove_override", "sync", "result"}

ASSUME RequestAssumption == Loop \notin Request
ASSUME ActionAssumption ==
    PoolAction \subseteq PoolActions /\ LoopAction \subseteq LoopActions
ASSUME OperationsAssumption == Operations \subseteq OperationNames
ASSUME BoundsAssumption == MaxSaves \in Nat /\ MaxCommits \in Nat /\ MaxBumps \in Nat

VARIABLES
    config,       \* ConfigManager: the version, which stands for the content
    commits,      \* commits so far
    dataVersion,  \* data_version
    filterCache,  \* _filter_cache: the visible set of the kind
    rendered,     \* _rendered_list_cache: a body for each action
    build,        \* the list under construction in each request and view
    writer,       \* what each writing thread still has to do
    promised,     \* history: commits that preceded each data version
    settled       \* history: what finished admin operations without a bump
                  \* brought about

vars == <<config, commits, dataVersion, filterCache, rendered, build, writer,
          promised, settled>>

-----------------------------------------------------------------------------
Builder == Request \union {Loop}
Thread == {"loop", "crawler"}
Version == 0..MaxSaves
Commit == 0..MaxCommits
DataVersion == 0..MaxBumps

\* names: when the category names were read; named: whether they were.
Content == [config : Version, data : Commit, named : BOOLEAN, names : Commit]
NoContent == [config |-> 0, data |-> 0, named |-> FALSE, names |-> 0]

Key == [config : Version, data : DataVersion]
NoKey == [config |-> 0, data |-> 0]

Cached == [there : BOOLEAN, key : Key, value : Content]
NotCached == [there |-> FALSE, key |-> NoKey, value |-> NoContent]

Hit(entry, key) == entry.there /\ entry.key = key

\* What a request may expect, noted when it comes in.
Floor == [config : Version, settled : Commit, promised : Commit]
NoFloor == [config |-> 0, settled |-> 0, promised |-> 0]

\* pc names what the builder does next.  outer is the key of the rendered
\* body, inner that of the visible set.
PC == {"idle", "outer", "lookUp", "config", "version", "names", "data",
       "visible", "compute", "store", "render", "done"}
Build == [pc : PC, action : PoolActions \union LoopActions, floor : Floor,
          outer : Key, inner : Key, content : Content]
Idle == [pc |-> "idle", action |-> "admin", floor |-> NoFloor, outer |-> NoKey,
         inner |-> NoKey, content |-> NoContent]

\* What is left of invalidate_filter_cache() and data_version.bump().
Writing == [step : {"idle", "visible", "rendered", "bump"}, bumps : BOOLEAN,
            commit : Commit]
NotWriting == [step |-> "idle", bumps |-> FALSE, commit |-> 0]

TypeOK ==
    /\ config \in Version
    /\ commits \in Commit
    /\ dataVersion \in DataVersion
    /\ filterCache \in Cached
    /\ rendered \in [PoolActions -> Cached]
    /\ build \in [Builder -> Build]
    /\ writer \in [Thread -> Writing]
    /\ promised \in [DataVersion -> Commit]
    /\ settled \in [config : Version, data : Commit]

Init ==
    /\ config = 0
    /\ commits = 0
    /\ dataVersion = 0
    /\ filterCache = NotCached
    /\ rendered = [a \in PoolActions |-> NotCached]
    /\ build = [b \in Builder |-> Idle]
    /\ writer = [t \in Thread |-> NotWriting]
    /\ promised = [v \in DataVersion |-> 0]
    /\ settled = [config |-> 0, data |-> 0]

cacheVars == <<filterCache, rendered>>
storeVars == <<config, commits, dataVersion>>
historyVars == <<promised, settled>>

-----------------------------------------------------------------------------
(* Building a list. *)

\* The event-loop thread does one thing at a time.
LoopFree == writer["loop"].step = "idle" /\ build[Loop].pc = "idle"

\* Where a view reads the category names: m3u never does.
NamesBeforeVersion(action) == action \in {"categories", "admin"}

At(b, pc) == build[b].pc = pc

\* b goes on to pc with the given part of its state replaced.
Proceed(b, record) == build' = [build EXCEPT ![b] = record]

\* The keys are not looked at again.
Done(b, content) ==
    Proceed(b, [build[b] EXCEPT !.pc = "done", !.outer = NoKey, !.inner = NoKey,
                                !.content = content])

NewFloor == [config |-> settled.config, settled |-> settled.data,
             promised |-> promised[dataVersion]]

\* A request for a player_api list: cfg_v = state.config_mgr.version
BeginRequest(b, action) ==
    /\ At(b, "idle")
    /\ action \in PoolAction
    /\ Proceed(b, [Idle EXCEPT !.pc = "outer", !.action = action, !.floor = NewFloor,
                               !.outer.config = config])
    /\ UNCHANGED <<storeVars, cacheVars, writer, historyVars>>

\* data_v = data_version.value
ReadOuterKey(b) ==
    /\ At(b, "outer")
    /\ Proceed(b, [build[b] EXCEPT !.pc = "lookUp", !.outer.data = dataVersion])
    /\ UNCHANGED <<storeVars, cacheVars, writer, historyVars>>

LookUpRendered(b) ==
    LET entry == rendered[build[b].action]
    IN  /\ At(b, "lookUp")
        /\ \/ /\ Hit(entry, build[b].outer)
              /\ Done(b, entry.value)
           \/ /\ ~ Hit(entry, build[b].outer)
              /\ Proceed(b, [build[b] EXCEPT !.pc = "config"])
        /\ UNCHANGED <<storeVars, cacheVars, writer, historyVars>>

\* A view on the event-loop thread has no rendered body.
BeginView(action) ==
    /\ LoopFree
    /\ action \in LoopAction
    /\ Proceed(Loop, [Idle EXCEPT !.pc = "config", !.action = action,
                                  !.floor = NewFloor])
    /\ UNCHANGED <<storeVars, cacheVars, writer, historyVars>>

\* cfg = config_mgr.get()
ReadConfig(b) ==
    /\ At(b, "config")
    /\ Proceed(b, [build[b] EXCEPT !.pc = "version", !.content.config = config])
    /\ UNCHANGED <<storeVars, cacheVars, writer, historyVars>>

\* config_version = config_mgr.version
ReadVersion(b) ==
    /\ At(b, "version")
    /\ Proceed(b, [build[b] EXCEPT
                     !.pc = IF NamesBeforeVersion(build[b].action) THEN "names" ELSE "data",
                     !.inner.config = config])
    /\ UNCHANGED <<storeVars, cacheVars, writer, historyVars>>

\* data_version.value, the argument of compute_visible_for_kind
ReadDataVersion(b) ==
    /\ At(b, "data")
    /\ Proceed(b, [build[b] EXCEPT
                     !.pc = IF build[b].action = "streams" THEN "names" ELSE "visible",
                     !.inner.data = dataVersion])
    /\ UNCHANGED <<storeVars, cacheVars, writer, historyVars>>

\* _category_names(db, kind)
ReadNames(b) ==
    /\ At(b, "names")
    /\ Proceed(b, [build[b] EXCEPT
                     !.pc = IF NamesBeforeVersion(build[b].action) THEN "data" ELSE "visible",
                     !.content.named = TRUE, !.content.names = commits])
    /\ UNCHANGED <<storeVars, cacheVars, writer, historyVars>>

\* With the visible set at hand, player_api lists are rendered.
HaveVisible(b, content) ==
    IF b = Loop THEN Done(b, content)
    ELSE Proceed(b, [build[b] EXCEPT !.pc = "render", !.inner = NoKey, !.content = content])

LookUpVisible(b) ==
    /\ At(b, "visible")
    /\ \/ /\ Hit(filterCache, build[b].inner)
          /\ HaveVisible(b, filterCache.value)
       \/ /\ ~ Hit(filterCache, build[b].inner)
          /\ Proceed(b, [build[b] EXCEPT !.pc = "compute"])
    /\ UNCHANGED <<storeVars, cacheVars, writer, historyVars>>

\* compute_visible_for_kind reads the tables ...
ComputeVisible(b) ==
    /\ At(b, "compute")
    /\ Proceed(b, [build[b] EXCEPT !.pc = "store", !.content.data = commits])
    /\ UNCHANGED <<storeVars, cacheVars, writer, historyVars>>

\* Fault: filed under the version of the moment it is stored.
StoreVisibleAsOfNow(b) ==
    /\ At(b, "store")
    /\ filterCache' = [there |-> TRUE, key |-> [build[b].inner EXCEPT !.data = dataVersion],
                       value |-> build[b].content]
    /\ HaveVisible(b, build[b].content)
    /\ UNCHANGED <<storeVars, rendered, writer, historyVars>>

\* ... and caches what it made of them.
StoreVisible(b) ==
    /\ At(b, "store")
    /\ filterCache' = [there |-> TRUE, key |-> build[b].inner, value |-> build[b].content]
    /\ HaveVisible(b, build[b].content)
    /\ UNCHANGED <<storeVars, rendered, writer, historyVars>>

\* Fault: the key and the body change places.
StoreRenderedSwapped(b) ==
    /\ At(b, "render")
    /\ rendered' = [rendered EXCEPT ![build[b].action] =
                      [there |-> TRUE, key |-> build[b].content, value |-> build[b].outer]]
    /\ Done(b, build[b].content)
    /\ UNCHANGED <<storeVars, filterCache, writer, historyVars>>

\* Fault: filed under the version of the moment it is stored.
StoreRenderedAsOfNow(b) ==
    /\ At(b, "render")
    /\ rendered' = [rendered EXCEPT ![build[b].action] =
                      [there |-> TRUE, key |-> [config |-> config, data |-> dataVersion],
                       value |-> build[b].content]]
    /\ Done(b, build[b].content)
    /\ UNCHANGED <<storeVars, filterCache, writer, historyVars>>

StoreRendered(b) ==
    /\ At(b, "render")
    /\ rendered' = [rendered EXCEPT ![build[b].action] =
                      [there |-> TRUE, key |-> build[b].outer, value |-> build[b].content]]
    /\ Done(b, build[b].content)
    /\ UNCHANGED <<storeVars, filterCache, writer, historyVars>>

Respond(b) ==
    /\ At(b, "done")
    /\ Proceed(b, Idle)
    /\ UNCHANGED <<storeVars, cacheVars, writer, historyVars>>

BuildStep(b) ==
    \/ ReadOuterKey(b)
    \/ LookUpRendered(b)
    \/ ReadConfig(b)
    \/ ReadVersion(b)
    \/ ReadDataVersion(b)
    \/ ReadNames(b)
    \/ LookUpVisible(b)
    \/ ComputeVisible(b)
    \/ StoreVisible(b)
    \/ StoreRendered(b)
    \/ Respond(b)

-----------------------------------------------------------------------------
(* Writing.  An operation commits, clears the caches one after the other    *)
(* and, most of them, bumps data_version.                                   *)

\* commit is what a request may rely on once the caches are clear, unless a
\* bump says so.
Invalidate(t, bumps, commit) ==
    writer' = [writer EXCEPT ![t] = [step |-> "visible", bumps |-> bumps,
                                     commit |-> commit]]

CommitChange == commits < MaxCommits /\ commits' = commits + 1

\* POST /config: ConfigManager.update swaps configuration and version under
\* its lock; nothing is bumped, the key has changed already.
SaveConfig ==
    /\ "save" \in Operations
    /\ LoopFree
    /\ config < MaxSaves
    /\ config' = config + 1
    /\ Invalidate("loop", FALSE, 0)
    /\ UNCHANGED <<commits, dataVersion, cacheVars, build, historyVars>>

\* reset, retry, reprobe, reprobe-matching and POST /overrides
Requeue ==
    /\ "requeue" \in Operations
    /\ LoopFree
    /\ CommitChange
    /\ Invalidate("loop", TRUE, 0)
    /\ UNCHANGED <<config, dataVersion, cacheVars, build, historyVars>>

\* DELETE /overrides
RemoveOverride ==
    /\ "remove_override" \in Operations
    /\ LoopFree
    /\ CommitChange
    /\ Invalidate("loop", FALSE, commits')
    /\ UNCHANGED <<config, dataVersion, cacheVars, build, historyVars>>

MayWrite(t) == IF t = "loop" THEN LoopFree ELSE writer[t].step = "idle"

\* A chunk of a sync (also one that fails later), the tracks of a probe, or
\* its status within the interval in which invalidation is throttled.
CommitQuietly(t) ==
    /\ "sync" \in Operations \/ (t = "crawler" /\ "result" \in Operations)
    /\ MayWrite(t)
    /\ CommitChange
    /\ UNCHANGED <<config, dataVersion, cacheVars, build, writer, historyVars>>

\* The end of run_full_sync, which has just committed the purge and the
\* category filters.
FinishSync(t) ==
    /\ "sync" \in Operations
    /\ MayWrite(t)
    /\ CommitChange
    /\ Invalidate(t, TRUE, 0)
    /\ UNCHANGED <<config, dataVersion, cacheVars, build, historyVars>>

\* A probe result outside the interval.
MarkResult ==
    /\ "result" \in Operations
    /\ writer["crawler"].step = "idle"
    /\ CommitChange
    /\ Invalidate("crawler", TRUE, 0)
    /\ UNCHANGED <<config, dataVersion, cacheVars, build, historyVars>>

ClearVisible(t) ==
    /\ writer[t].step = "visible"
    /\ filterCache' = NotCached
    /\ writer' = [writer EXCEPT ![t].step = "rendered"]
    /\ UNCHANGED <<storeVars, rendered, build, historyVars>>

ClearRendered(t) ==
    /\ writer[t].step = "rendered"
    /\ rendered' = [a \in PoolActions |-> NotCached]
    /\ \/ /\ writer[t].bumps
          /\ writer' = [writer EXCEPT ![t].step = "bump"]
          /\ UNCHANGED settled
       \/ /\ ~ writer[t].bumps
          /\ writer' = [writer EXCEPT ![t] = NotWriting]
          /\ settled' = [config |-> config,
                         data |-> IF writer[t].commit > settled.data
                                  THEN writer[t].commit ELSE settled.data]
    /\ UNCHANGED <<storeVars, filterCache, build, promised>>

Bump(t) ==
    /\ writer[t].step = "bump"
    /\ dataVersion < MaxBumps
    /\ dataVersion' = dataVersion + 1
    /\ promised' = [promised EXCEPT ![dataVersion + 1] = commits]
    /\ writer' = [writer EXCEPT ![t] = NotWriting]
    /\ UNCHANGED <<config, commits, cacheVars, build, settled>>

WriteStep ==
    \/ SaveConfig
    \/ Requeue
    \/ RemoveOverride
    \/ MarkResult
    \/ \E t \in Thread :
            \/ CommitQuietly(t)
            \/ FinishSync(t)
            \/ ClearVisible(t)
            \/ ClearRendered(t)
            \/ Bump(t)

-----------------------------------------------------------------------------
Next ==
    \/ \E b \in Request, action \in PoolActions : BeginRequest(b, action)
    \/ \E action \in LoopActions : BeginView(action)
    \/ \E b \in Builder : BuildStep(b)
    \/ WriteStep

Spec == Init /\ [][Next]_vars

-----------------------------------------------------------------------------
(* Properties of what is served. *)

\* The visible set behind a response reflects every commit to the items, the
\* overrides and the probe results that a data_version had announced before the
\* request came in, whatever was cached under whichever key and
\* whoever was computing, storing or clearing meanwhile (xtream.py:272,
\* catalog.py:79, 145).
AnnouncedServed ==
    \A b \in Builder :
        At(b, "done") => build[b].content.data >= build[b].floor.promised

\* The promise as a register (AnnouncedReads): a request is a read that ends when
\* the list is there.
Reading(r) ==
    [phase |-> CASE r.pc = "idle" -> "idle"
                 [] r.pc = "done" -> "answered"
                 [] OTHER         -> "asked",
     floor |-> r.floor.promised,
     value |-> IF r.pc = "done" THEN r.content.data ELSE 0]

Reads == INSTANCE AnnouncedReads WITH
            Reader    <- Builder,
            written   <- commits,
            announced <- promised[dataVersion],
            reading   <- [b \in Builder |-> Reading(build[b])]

\* The two caches with their keys, cleared and outdated by several threads, are
\* for every request one register: what it gets lies between what was
\* announced when it came in and what is committed when it is answered.
ImplementsReads == Reads!Spec

-----------------------------------------------------------------------------
(* What the documentation says of the program. *)

\* The visible set behind a player_api list is made with what had been saved and
\* done when the list was asked for: the configuration (README.md:206, "Filter
\* changes apply immediately"), the operations that bump no version, and the
\* names of the categories, which the title filters are matched against as well
\* (README.md:220) and which are not older than what was announced
\* (xtream.py:239-240, "the result only changes on a sync or a filter-config
\* edit, both of which bump one of those versions").
FiltersServed ==
    \A b \in Request :
        At(b, "done") =>
            /\ build[b].content.config >= build[b].floor.config
            /\ build[b].content.data >= build[b].floor.settled
            /\ build[b].content.named
            /\ build[b].content.names >= build[b].floor.promised

=============================================================================
