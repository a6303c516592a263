----------------------------- MODULE ReadsProofs ----------------------------
(***************************************************************************)
(* The caches of ServedLists implement the register of AnnouncedReads.     *)
(*                                                                         *)
(* That an answer is no older than what was announced when it was asked    *)
(* for is KeysKeepPromises (ServedListsProofs); that it is no more than    *)
(* what is committed, and that who asks has forgotten the answer before,   *)
(* is OnlyCommitted.                                                       *)
(***************************************************************************)
EXTENDS ServedListsProofs

CommittedBuild(r) ==
    /\ r.content.data <= commits
    /\ r.pc = "idle" => r.floor.promised = 0

OnlyCommitted ==
    /\ filterCache.value.data <= commits
    /\ \A a \in PoolActions : rendered[a].value.data <= commits
    /\ \A b \in Builder : CommittedBuild(build[b])

Sane == KeysKeepPromises /\ OnlyCommitted

-----------------------------------------------------------------------------
(* What every step makes of the lists under construction: of one of them, or *)
(* none.                                                                     *)

\* The list of b goes on to r, which is no more than committed.
Goes(b, r) ==
    /\ Proceed(b, r)
    /\ r.content.data <= commits
    /\ UNCHANGED <<storeVars, historyVars>>

Asks(b, r) ==
    /\ build[b].pc = "idle"
    /\ r.pc \notin {"idle", "done"}
    /\ r.floor.promised = promised[dataVersion]

Works(b, r) ==
    /\ build[b].pc \notin {"idle", "done"}
    /\ r.pc \notin {"idle", "done"}
    /\ r.floor.promised = build[b].floor.promised

Answers(b, r) ==
    /\ build[b].pc \notin {"idle", "done"}
    /\ r.pc = "done"
    /\ r.floor.promised = build[b].floor.promised

Finishes(b, r) ==
    /\ build[b].pc = "done"
    /\ r = Idle

Moves(b) == \E r \in Build :
    Goes(b, r) /\ (Asks(b, r) \/ Works(b, r) \/ Answers(b, r) \/ Finishes(b, r))

\* What the caches hold afterwards they held before, or a list did.
CachesFed ==
    /\ \/ filterCache' = filterCache
       \/ filterCache' = NotCached
       \/ \E b \in Builder : filterCache'.value = build[b].content
    /\ \A a \in PoolActions :
          \/ rendered'[a] = rendered[a]
          \/ rendered'[a] = NotCached
          \/ \E b \in Builder : rendered'[a].value = build[b].content

\* What is cached or under construction is counted in natural numbers.
LEMMA CommittedNumbers ==
  ASSUME TypeOK
  PROVE  /\ commits \in Nat
         /\ promised[dataVersion] \in Nat
         /\ \A b \in Builder : /\ build[b] \in Build
                               /\ build[b].content \in Content
                               /\ build[b].content.data \in Nat
                               /\ build[b].floor.promised \in Nat
         /\ \A c \in Content : c.data \in Nat
         /\ filterCache.value \in Content
         /\ \A a \in PoolActions : rendered[a].value \in Content
BY BoundsAssumption DEF TypeOK, Build, Floor, Content, Cached, Commit, DataVersion

\* At first nothing is cached or under construction.
LEMMA InitCommitted == Init => OnlyCommitted
<1> SUFFICES ASSUME Init PROVE OnlyCommitted
  OBVIOUS
<1>1. commits = 0 /\ filterCache.value.data = 0
  BY DEF Init, NotCached, NoContent
<1>2. \A a \in PoolActions : rendered[a].value.data = 0
  BY DEF Init, NotCached, NoContent
<1>3. \A b \in Builder : build[b] = Idle
  BY DEF Init
<1> QED
  BY <1>1, <1>2, <1>3 DEF OnlyCommitted, CommittedBuild, Idle, NoFloor, NoContent

-----------------------------------------------------------------------------
(* The steps. *)

\* A list that goes on with its visible set is recorded as of a commit there was.
LEMMA HavingVisibleMoves ==
  ASSUME Sane, NEW b \in Builder, NEW c \in Content, HaveVisible(b, c),
         build[b].pc \notin {"idle", "done"}, c.data <= commits,
         UNCHANGED <<storeVars, historyVars>>
  PROVE  Moves(b)
<1> DEFINE old == build[b]
           done == [old EXCEPT !.pc = "done", !.outer = NoKey, !.inner = NoKey,
                               !.content = c]
           render == [old EXCEPT !.pc = "render", !.inner = NoKey, !.content = c]
<1>1. old \in Build /\ NoKey \in Key
  BY CommittedNumbers, BoundsAssumption
     DEF Sane, KeysKeepPromises, NoKey, Key, Version, DataVersion
<1>2. done \in Build /\ render \in Build
  BY <1>1 DEF Build, PC
<1>3. /\ done.pc = "done" /\ render.pc = "render"
      /\ done.content = c /\ render.content = c
      /\ done.floor = old.floor /\ render.floor = old.floor
  BY <1>1 DEF Build
<1>4. Proceed(b, done) \/ Proceed(b, render)
  BY DEF HaveVisible, Done
<1>5. ASSUME Proceed(b, done) PROVE Moves(b)
  <2>1. Goes(b, done) /\ Answers(b, done)
    BY <1>3, <1>5 DEF Goes, Answers
  <2> QED
    BY <1>2, <2>1 DEF Moves
<1>6. ASSUME Proceed(b, render) PROVE Moves(b)
  <2>1. Goes(b, render) /\ Works(b, render)
    BY <1>3, <1>6 DEF Goes, Works
  <2> QED
    BY <1>2, <2>1 DEF Moves
<1> QED
  BY <1>4, <1>5, <1>6

\* A list that goes on to another of its steps, with what it holds or with what is
\* committed now.
LEMMA WorkingMoves ==
  ASSUME Sane, NEW b \in Builder, NEW r \in Build, Proceed(b, r),
         build[b].pc \notin {"idle", "done"}, r.pc \notin {"idle", "done"},
         r.floor = build[b].floor,
         r.content.data \in {build[b].content.data, commits},
         UNCHANGED <<storeVars, historyVars>>
  PROVE  Moves(b)
<1>1. r.content.data <= commits
  BY CommittedNumbers DEF Sane, KeysKeepPromises, OnlyCommitted, CommittedBuild
<1>2. Goes(b, r) /\ Works(b, r)
  BY <1>1 DEF Goes, Works
<1> QED
  BY <1>2 DEF Moves

\* A request or a view that comes in.
LEMMA BeginMoves ==
  ASSUME Sane, NEW b \in Builder, NEW action,
         \/ b \in Request /\ action \in PoolActions /\ BeginRequest(b, action)
         \/ b = Loop /\ action \in LoopActions /\ BeginView(action)
  PROVE  Moves(b) /\ CachesFed
<1>1. TypeOK /\ TypeOK'
  BY BeginTyped DEF Sane, KeysKeepPromises
<1>2. CachesFed
  BY DEF BeginRequest, BeginView, cacheVars, CachesFed
<1>3. 0 <= commits
  BY <1>1, CommittedNumbers
<1>4. CASE b \in Request /\ action \in PoolActions /\ BeginRequest(b, action)
  <2> DEFINE n == [Idle EXCEPT !.pc = "outer", !.action = action, !.floor = NewFloor,
                               !.outer.config = config]
  <2>1. n \in Build
    BY <1>1, <1>4 DEF TypeOK, BeginRequest, Proceed
  <2>2. n.pc = "outer" /\ n.floor.promised = promised[dataVersion] /\ n.content.data = 0
    BY DEF Idle, NewFloor, NoContent
  <2>3. Goes(b, n) /\ Asks(b, n)
    BY <1>3, <1>4, <2>2 DEF Goes, Asks, BeginRequest, At
  <2> QED
    BY <1>2, <2>1, <2>3 DEF Moves
<1>5. CASE b = Loop /\ action \in LoopActions /\ BeginView(action)
  <2> DEFINE n == [Idle EXCEPT !.pc = "config", !.action = action, !.floor = NewFloor]
  <2>1. n \in Build
    BY <1>1, <1>5 DEF TypeOK, BeginView, Proceed
  <2>2. n.pc = "config" /\ n.floor.promised = promised[dataVersion] /\ n.content.data = 0
    BY DEF Idle, NewFloor, NoContent
  <2>3. Goes(b, n) /\ Asks(b, n)
    BY <1>3, <1>5, <2>2 DEF Goes, Asks, BeginView, LoopFree
  <2> QED
    BY <1>2, <2>1, <2>3 DEF Moves
<1> QED
  BY <1>4, <1>5

\* A list that is under construction.
LEMMA BuildMoves ==
  ASSUME Sane, NEW b \in Builder, BuildStep(b)
  PROVE  Moves(b) /\ CachesFed
<1> DEFINE r == build[b]
<1>1. TypeOK /\ TypeOK'
  BY BuildTyped DEF Sane, KeysKeepPromises, Building
<1>2. r \in Build /\ r.content \in Content /\ r.content.data <= commits
  BY <1>1, CommittedNumbers DEF Sane, OnlyCommitted, CommittedBuild
<1>3. \A n : Proceed(b, n) => n \in Build
  BY <1>1 DEF TypeOK, Proceed
<1>4. CASE ReadOuterKey(b)
  <2> DEFINE n == [r EXCEPT !.pc = "lookUp", !.outer.data = dataVersion]
  <2>1. n \in Build /\ Proceed(b, n)
    BY <1>3, <1>4 DEF ReadOuterKey
  <2>2. n.pc = "lookUp" /\ n.floor = r.floor /\ n.content = r.content /\ r.pc = "outer"
    BY <1>2, <1>4 DEF Build, ReadOuterKey, At
  <2>3. Moves(b)
    BY <1>4, <2>1, <2>2, WorkingMoves DEF ReadOuterKey
  <2> QED
    BY <1>4, <2>3 DEF ReadOuterKey, CachesFed, cacheVars
<1>5. CASE LookUpRendered(b)
  <2>1. CachesFed
    BY <1>5 DEF LookUpRendered, CachesFed, cacheVars
  <2>2. r.pc = "lookUp"
    BY <1>5 DEF LookUpRendered, At
  <2>3. CASE Proceed(b, [r EXCEPT !.pc = "config"])
    <3> DEFINE n == [r EXCEPT !.pc = "config"]
    <3>1. n \in Build
      BY <1>3, <2>3
    <3>2. n.pc = "config" /\ n.floor = r.floor /\ n.content = r.content
      BY <1>2 DEF Build
    <3> QED
      BY <1>5, <2>1, <2>2, <2>3, <3>1, <3>2, WorkingMoves DEF LookUpRendered
  <2>4. CASE Done(b, rendered[r.action].value)
    <3> DEFINE c == rendered[r.action].value
               n == [r EXCEPT !.pc = "done", !.outer = NoKey, !.inner = NoKey,
                              !.content = c]
    <3>1. n \in Build /\ Proceed(b, n)
      BY <1>3, <2>4 DEF Done
    <3>2. n.pc = "done" /\ n.floor = r.floor /\ n.content = c
      BY <1>2 DEF Build
    <3>3. r.action \in PoolActions
      BY <2>2 DEF Sane, KeysKeepPromises, Building, Place
    <3>4. c.data <= commits
      BY <3>3 DEF Sane, OnlyCommitted
    <3>5. Goes(b, n) /\ Answers(b, n)
      BY <1>5, <2>2, <3>1, <3>2, <3>4 DEF Goes, Answers, LookUpRendered
    <3> QED
      BY <2>1, <3>1, <3>5 DEF Moves
  <2> QED
    BY <1>5, <2>3, <2>4 DEF LookUpRendered
<1>6. CASE ReadConfig(b)
  <2> DEFINE n == [r EXCEPT !.pc = "version", !.content.config = config]
  <2>1. n \in Build /\ Proceed(b, n)
    BY <1>3, <1>6 DEF ReadConfig
  <2>2. n.pc = "version" /\ n.floor = r.floor /\ n.content.data = r.content.data
        /\ r.pc = "config"
    BY <1>2, <1>6 DEF Build, Content, ReadConfig, At
  <2>3. Moves(b)
    BY <1>6, <2>1, <2>2, WorkingMoves DEF ReadConfig
  <2> QED
    BY <1>6, <2>3 DEF ReadConfig, CachesFed, cacheVars
<1>7. CASE ReadVersion(b)
  <2> DEFINE pc == IF NamesBeforeVersion(r.action) THEN "names" ELSE "data"
             n == [r EXCEPT !.pc = pc, !.inner.config = config]
  <2>1. n \in Build /\ Proceed(b, n)
    BY <1>3, <1>7 DEF ReadVersion
  <2>2. n.pc = pc /\ n.floor = r.floor /\ n.content = r.content /\ r.pc = "version"
    BY <1>2, <1>7 DEF Build, ReadVersion, At
  <2>3. pc \notin {"idle", "done"}
    OBVIOUS
  <2> HIDE DEF pc, n
  <2>4. Moves(b)
    BY <1>7, <2>1, <2>2, <2>3, WorkingMoves DEF ReadVersion
  <2> QED
    BY <1>7, <2>4 DEF ReadVersion, CachesFed, cacheVars
<1>8. CASE ReadDataVersion(b)
  <2> DEFINE pc == IF r.action = "streams" THEN "names" ELSE "visible"
             n == [r EXCEPT !.pc = pc, !.inner.data = dataVersion]
  <2>1. n \in Build /\ Proceed(b, n)
    BY <1>3, <1>8 DEF ReadDataVersion
  <2>2. n.pc = pc /\ n.floor = r.floor /\ n.content = r.content /\ r.pc = "data"
    BY <1>2, <1>8 DEF Build, ReadDataVersion, At
  <2>3. pc \notin {"idle", "done"}
    OBVIOUS
  <2> HIDE DEF pc, n
  <2>4. Moves(b)
    BY <1>8, <2>1, <2>2, <2>3, WorkingMoves DEF ReadDataVersion
  <2> QED
    BY <1>8, <2>4 DEF ReadDataVersion, CachesFed, cacheVars
<1>9. CASE ReadNames(b)
  <2> DEFINE pc == IF NamesBeforeVersion(r.action) THEN "data" ELSE "visible"
             n == [r EXCEPT !.pc = pc, !.content.named = TRUE, !.content.names = commits]
  <2>1. n \in Build /\ Proceed(b, n)
    BY <1>3, <1>9 DEF ReadNames
  <2>2. n.pc = pc /\ n.floor = r.floor /\ n.content.data = r.content.data /\ r.pc = "names"
    BY <1>2, <1>9 DEF Build, Content, ReadNames, At
  <2>3. pc \notin {"idle", "done"}
    OBVIOUS
  <2> HIDE DEF pc, n
  <2>4. Moves(b)
    BY <1>9, <2>1, <2>2, <2>3, WorkingMoves DEF ReadNames
  <2> QED
    BY <1>9, <2>4 DEF ReadNames, CachesFed, cacheVars
<1>10. CASE LookUpVisible(b)
  <2>1. CachesFed
    BY <1>10 DEF LookUpVisible, CachesFed, cacheVars
  <2>2. r.pc = "visible"
    BY <1>10 DEF LookUpVisible, At
  <2>3. CASE Proceed(b, [r EXCEPT !.pc = "compute"])
    <3> DEFINE n == [r EXCEPT !.pc = "compute"]
    <3>1. n \in Build
      BY <1>3, <2>3
    <3>2. n.pc = "compute" /\ n.floor = r.floor /\ n.content = r.content
      BY <1>2 DEF Build
    <3> QED
      BY <1>10, <2>1, <2>2, <2>3, <3>1, <3>2, WorkingMoves DEF LookUpVisible
  <2>4. CASE HaveVisible(b, filterCache.value)
    <3>1. filterCache.value \in Content
      BY <1>1, CommittedNumbers
    <3>2. filterCache.value.data <= commits
      BY DEF Sane, OnlyCommitted
    <3> QED
      BY <1>10, <2>1, <2>2, <2>4, <3>1, <3>2, HavingVisibleMoves DEF LookUpVisible
  <2> QED
    BY <1>10, <2>3, <2>4 DEF LookUpVisible
<1>11. CASE ComputeVisible(b)
  <2> DEFINE n == [r EXCEPT !.pc = "store", !.content.data = commits]
  <2>1. n \in Build /\ Proceed(b, n)
    BY <1>3, <1>11 DEF ComputeVisible
  <2>2. n.pc = "store" /\ n.floor = r.floor /\ n.content.data = commits /\ r.pc = "compute"
    BY <1>2, <1>11 DEF Build, Content, ComputeVisible, At
  <2>3. Moves(b)
    BY <1>11, <2>1, <2>2, WorkingMoves DEF ComputeVisible
  <2> QED
    BY <1>11, <2>3 DEF ComputeVisible, CachesFed, cacheVars
<1>12. CASE StoreVisible(b)
  <2>1. filterCache'.value = r.content /\ UNCHANGED rendered
    BY <1>12 DEF StoreVisible
  <2>2. CachesFed
    BY <2>1 DEF CachesFed
  <2>3. Moves(b)
    BY <1>2, <1>12, HavingVisibleMoves DEF StoreVisible, At
  <2> QED
    BY <2>2, <2>3
<1>13. CASE StoreRendered(b)
  <2> DEFINE n == [r EXCEPT !.pc = "done", !.outer = NoKey, !.inner = NoKey,
                            !.content = r.content]
  <2>1. n \in Build /\ Proceed(b, n)
    BY <1>3, <1>13 DEF StoreRendered, Done
  <2>2. n.pc = "done" /\ n.floor = r.floor /\ n.content = r.content /\ r.pc = "render"
    BY <1>2, <1>13 DEF Build, StoreRendered, At
  <2>3. Goes(b, n) /\ Answers(b, n)
    BY <1>2, <1>13, <2>1, <2>2 DEF Goes, Answers, StoreRendered
  <2>4. \A a \in PoolActions : rendered'[a] = rendered[a] \/ rendered'[a].value = r.content
    BY <1>1, <1>13 DEF StoreRendered, TypeOK
  <2>5. CachesFed
    BY <1>13, <2>4 DEF StoreRendered, CachesFed
  <2> QED
    BY <2>1, <2>3, <2>5 DEF Moves
<1>14. CASE Respond(b)
  <2>1. Idle \in Build /\ Proceed(b, Idle)
    BY <1>3, <1>14 DEF Respond
  <2>2. Idle.content.data <= commits
    BY <1>1, CommittedNumbers DEF Idle, NoContent
  <2>3. Goes(b, Idle) /\ Finishes(b, Idle)
    BY <1>14, <2>1, <2>2 DEF Goes, Finishes, Respond, At
  <2>4. CachesFed
    BY <1>14 DEF Respond, CachesFed, cacheVars
  <2> QED
    BY <2>1, <2>3, <2>4 DEF Moves
<1> QED
  BY <1>4, <1>5, <1>6, <1>7, <1>8, <1>9, <1>10, <1>11, <1>12, <1>13, <1>14 DEF BuildStep

-----------------------------------------------------------------------------
(* OnlyCommitted is an invariant. *)

\* No step of a list makes content out of what is not committed.
LEMMA MovesCommitted ==
  ASSUME Sane, NEW b \in Builder, Moves(b), CachesFed
  PROVE  OnlyCommitted'
<1>1. PICK r \in Build :
        Goes(b, r) /\ (Asks(b, r) \/ Works(b, r) \/ Answers(b, r) \/ Finishes(b, r))
  BY DEF Moves
<1>2. commits' = commits
  BY <1>1 DEF Goes, storeVars
<1>3. build'[b] = r /\ \A c \in Builder : c # b => build'[c] = build[c]
  BY <1>1 DEF Goes, Proceed, Sane, KeysKeepPromises, TypeOK
<1>4. \A c \in Builder : CommittedBuild(build[c])
  BY DEF Sane, OnlyCommitted
<1>5. CommittedBuild(build[b])'
  BY <1>1, <1>2, <1>3
     DEF Goes, Asks, Works, Answers, Finishes, CommittedBuild, Idle, NoFloor
<1>6. \A c \in Builder : CommittedBuild(build[c])'
  BY <1>2, <1>3, <1>4, <1>5 DEF CommittedBuild
<1>7. NotCached.value.data <= commits
  BY CommittedNumbers DEF NotCached, NoContent, Sane, KeysKeepPromises
<1>8. \A c \in Builder : build[c].content.data <= commits
  BY <1>4 DEF CommittedBuild
<1>9. filterCache'.value.data <= commits
  BY <1>7, <1>8 DEF CachesFed, Sane, OnlyCommitted
<1>10. \A a \in PoolActions : rendered'[a].value.data <= commits
  BY <1>7, <1>8 DEF CachesFed, Sane, OnlyCommitted
<1> QED
  BY <1>2, <1>6, <1>9, <1>10 DEF OnlyCommitted

\* What a writer does: commit, bump, or neither.
Commits == commits' = commits + 1 /\ UNCHANGED <<dataVersion, promised, build>>
Announces ==
    /\ promised'[dataVersion'] = commits
    /\ UNCHANGED <<commits, build>>
Prepares == UNCHANGED <<commits, dataVersion, promised, build>>

\* Every step of the operations is a commit, a bump or one of neither.
LEMMA WriteWrites ==
  ASSUME Sane, WriteStep
  PROVE  /\ Commits \/ Announces \/ Prepares
         /\ CachesFed
<1>1. TypeOK /\ TypeOK'
  BY WriteTyped DEF Sane, KeysKeepPromises
<1>2. CASE SaveConfig
  BY <1>2 DEF SaveConfig, Prepares, CachesFed, cacheVars, historyVars
<1>3. CASE Requeue
  BY <1>3 DEF Requeue, CommitChange, Commits, CachesFed, cacheVars, historyVars
<1>4. CASE RemoveOverride
  BY <1>4 DEF RemoveOverride, CommitChange, Commits, CachesFed, cacheVars, historyVars
<1>5. CASE MarkResult
  BY <1>5 DEF MarkResult, CommitChange, Commits, CachesFed, cacheVars, historyVars
<1>6. ASSUME NEW t \in Thread, CommitQuietly(t)
      PROVE  Commits /\ CachesFed
  BY <1>6 DEF CommitQuietly, CommitChange, Commits, CachesFed, cacheVars, historyVars
<1>7. ASSUME NEW t \in Thread, FinishSync(t)
      PROVE  Commits /\ CachesFed
  BY <1>7 DEF FinishSync, CommitChange, Commits, CachesFed, cacheVars, historyVars
<1>8. ASSUME NEW t \in Thread, ClearVisible(t)
      PROVE  Prepares /\ CachesFed
  BY <1>8 DEF ClearVisible, Prepares, CachesFed, storeVars, historyVars
<1>9. ASSUME NEW t \in Thread, ClearRendered(t)
      PROVE  Prepares /\ CachesFed
  BY <1>9 DEF ClearRendered, Prepares, CachesFed, storeVars
<1>10. ASSUME NEW t \in Thread, Bump(t)
       PROVE  Announces /\ CachesFed
  <2>1. dataVersion + 1 \in DataVersion
    BY <1>1, <1>10 DEF Bump, TypeOK
  <2> QED
    BY <1>1, <1>10, <2>1 DEF Bump, TypeOK, Announces, CachesFed, cacheVars
<1> QED
  BY <1>2, <1>3, <1>4, <1>5, <1>6, <1>7, <1>8, <1>9, <1>10 DEF WriteStep

\* No step of the operations does either: commits only grow.
LEMMA WriteCommitted ==
  ASSUME Sane, WriteStep
  PROVE  OnlyCommitted'
<1>1. TypeOK /\ commits \in Nat
  BY CommittedNumbers DEF Sane, KeysKeepPromises
<1>2. commits' \in Nat /\ commits <= commits' /\ UNCHANGED build
  BY <1>1, WriteWrites DEF Commits, Announces, Prepares
<1>3. \A m \in Nat : m <= commits => m <= commits'
  BY <1>1, <1>2
<1>4. \A b \in Builder : CommittedBuild(build[b])'
  BY <1>1, <1>2, <1>3, CommittedNumbers DEF Sane, OnlyCommitted, CommittedBuild
<1>5. NotCached.value.data <= commits'
  BY <1>2 DEF NotCached, NoContent
<1>6. \A b \in Builder : build[b].content.data <= commits'
  BY <1>1, <1>3, CommittedNumbers DEF Sane, OnlyCommitted, CommittedBuild
<1>7. filterCache.value.data <= commits'
  BY <1>1, <1>3, CommittedNumbers DEF Sane, OnlyCommitted
<1>8. \A a \in PoolActions : rendered[a].value.data <= commits'
  BY <1>1, <1>3, CommittedNumbers DEF Sane, OnlyCommitted
<1>9. CachesFed
  BY WriteWrites
<1>10. filterCache'.value.data <= commits'
  BY <1>5, <1>6, <1>7, <1>9 DEF CachesFed
<1>11. \A a \in PoolActions : rendered'[a].value.data <= commits'
  BY <1>5, <1>6, <1>8, <1>9 DEF CachesFed
<1> QED
  BY <1>4, <1>10, <1>11 DEF OnlyCommitted

\* A step is one of a list that feeds the caches, or one of the operations.
LEMMA NextMoves ==
  ASSUME Sane, Next
  PROVE  (\E b \in Builder : Moves(b) /\ CachesFed) \/ WriteStep
BY BeginMoves, BuildMoves DEF Next, Builder

\* Caches and lists hold committed content under keys that keep their promises.
LEMMA AlwaysSane == Spec => []Sane
<1>1. Init => Sane
  BY InitKeepsPromises, InitCommitted DEF Sane
<1>2. Sane /\ [Next]_vars => Sane'
  <2> SUFFICES ASSUME Sane, [Next]_vars
               PROVE  Sane'
    OBVIOUS
  <2>1. KeysKeepPromises'
    BY NextKeepsPromises DEF Sane
  <2>2. ASSUME Next PROVE OnlyCommitted'
    BY <2>2, NextMoves, MovesCommitted, WriteCommitted
  <2>3. ASSUME UNCHANGED vars PROVE OnlyCommitted'
    BY <2>3 DEF vars, Sane, OnlyCommitted, CommittedBuild
  <2> QED
    BY <2>1, <2>2, <2>3 DEF Sane
<1> QED
  BY <1>1, <1>2, PTL DEF Spec

-----------------------------------------------------------------------------
(* The register. *)

\* A step of a list is one of its reader, or nothing, for the register.
LEMMA MovesImplement ==
  ASSUME Sane, KeysKeepPromises', NEW b \in Builder, Moves(b)
  PROVE  [Reads!Next]_Reads!vars
<1> DEFINE reading == [c \in Builder |-> Reading(build[c])]
<1>1. PICK r \in Build :
        Goes(b, r) /\ (Asks(b, r) \/ Works(b, r) \/ Answers(b, r) \/ Finishes(b, r))
  BY DEF Moves
<1>2. UNCHANGED <<commits, promised[dataVersion]>>
  BY <1>1 DEF Goes, storeVars, historyVars
<1>3. reading' = [reading EXCEPT ![b] = Reading(r)]
  BY <1>1 DEF Goes, Proceed, Sane, KeysKeepPromises, TypeOK
<1>4. reading[b] = Reading(build[b])
  OBVIOUS
<1>5. commits \in Nat /\ r.content.data \in Nat /\ build[b].floor.promised \in Nat
  BY CommittedNumbers, BoundsAssumption
     DEF Sane, KeysKeepPromises, Build, Content, Commit
<1>6. CASE Asks(b, r)
  <2>1. reading[b] = Reads!NotReading
    BY <1>4, <1>6
       DEF Asks, Reading, Reads!NotReading, Sane, OnlyCommitted, CommittedBuild
  <2>2. Reading(r) = [phase |-> "asked", floor |-> promised[dataVersion], value |-> 0]
    BY <1>6 DEF Asks, Reading
  <2>3. Reads!Ask(b)
    BY <1>2, <1>3, <2>1, <2>2 DEF Reads!Ask
  <2> QED
    BY <2>3 DEF Reads!Next
<1>7. CASE Works(b, r)
  <2>1. Reading(r) = Reading(build[b])
    BY <1>7 DEF Works, Reading
  <2>2. reading' = reading
    BY <1>3, <1>4, <2>1
  <2> QED
    BY <1>2, <2>2 DEF Reads!vars
<1>8. CASE Answers(b, r)
  <2>1. reading[b] = [phase |-> "asked", floor |-> r.floor.promised, value |-> 0]
    BY <1>4, <1>8 DEF Answers, Reading
  <2>2. Reading(r) = [phase |-> "answered", floor |-> r.floor.promised,
                      value |-> r.content.data]
    BY <1>8 DEF Answers, Reading
  <2>3. r.content.data \in r.floor.promised..commits
    <3>1. build'[b] = r
      BY <1>1 DEF Goes, Proceed, Sane, KeysKeepPromises, TypeOK
    <3>2. r.floor.promised <= r.content.data
      BY <1>8, <3>1 DEF Answers, KeysKeepPromises, Building, ContentSound
    <3> QED
      BY <1>1, <1>5, <1>8, <3>2 DEF Goes, Answers
  <2>4. reading' = [reading EXCEPT ![b] =
                      [phase |-> "answered", floor |-> reading[b].floor,
                       value |-> r.content.data]]
    <3> HIDE DEF reading
    <3> QED
      BY <1>3, <2>1, <2>2
  <2>5. reading[b].phase = "asked" /\ r.content.data \in reading[b].floor..commits
    <3> HIDE DEF reading
    <3> QED
      BY <2>1, <2>3
  <2>6. Reads!Answer(b)
    <3> SUFFICES \E value \in reading[b].floor..commits :
                   reading' = [reading EXCEPT ![b] = [phase |-> "answered",
                                                      floor |-> @.floor, value |-> value]]
      BY <1>2, <2>5, Zenon DEF Reads!Answer
    <3> QED
      BY <2>4, <2>5, Zenon
  <2> QED
    BY <2>6 DEF Reads!Next
<1>9. CASE Finishes(b, r)
  <2>1. reading[b].phase = "answered"
    BY <1>4, <1>9 DEF Finishes, Reading
  <2>2. Reading(r) = Reads!NotReading
    BY <1>9 DEF Finishes, Reading, Reads!NotReading, Idle, NoFloor
  <2>3. Reads!Finish(b)
    BY <1>2, <1>3, <2>1, <2>2 DEF Reads!Finish
  <2> QED
    BY <2>3 DEF Reads!Next
<1> QED
  BY <1>1, <1>6, <1>7, <1>8, <1>9

\* A commit writes the register, a bump announces, other steps are nothing to it.
LEMMA WriteImplements ==
  ASSUME Sane, WriteStep
  PROVE  [Reads!Next]_Reads!vars
<1> DEFINE reading == [c \in Builder |-> Reading(build[c])]
<1>1. commits \in Nat /\ promised[dataVersion] \in Nat /\ promised[dataVersion] <= commits
  BY CommittedNumbers, Numbers DEF Sane, KeysKeepPromises, PromisesGrow
<1>2. UNCHANGED build
  BY WriteWrites DEF Commits, Announces, Prepares
<1>3. reading' = reading
  BY <1>2 DEF Reading
<1>4. CASE Commits
  <2>1. Reads!Write
    BY <1>3, <1>4 DEF Commits, Reads!Write
  <2> QED
    BY <2>1 DEF Reads!Next
<1>5. CASE Announces
  <2>1. (promised[dataVersion])' \in promised[dataVersion]..commits
    BY <1>1, <1>5 DEF Announces
  <2>2. Reads!Announce
    BY <1>3, <1>5, <2>1 DEF Announces, Reads!Announce
  <2> QED
    BY <2>2 DEF Reads!Next
<1>6. CASE Prepares
  BY <1>3, <1>6 DEF Prepares, Reads!vars
<1> QED
  BY <1>4, <1>5, <1>6, WriteWrites

\* For any number of requests and views, and whatever is committed, cleared, bumped
\* and cached meanwhile, a request reads a register: it gets a value written after
\* what was announced when it came in, and before it was answered.
THEOREM CachesImplementReads == Spec => ImplementsReads
<1>1. Init => Reads!Init
  <2> SUFFICES ASSUME Init PROVE Reads!Init
    OBVIOUS
  <2>1. commits = 0 /\ promised[dataVersion] = 0
    BY BoundsAssumption DEF Init, DataVersion
  <2>2. ASSUME NEW b \in Builder PROVE Reading(build[b]) = Reads!NotReading
    BY DEF Init, Reading, Idle, NoFloor, Reads!NotReading
  <2> QED
    BY <2>1, <2>2 DEF Reads!Init
<1>2. Sane /\ KeysKeepPromises' /\ [Next]_vars => [Reads!Next]_Reads!vars
  <2> SUFFICES ASSUME Sane, KeysKeepPromises', [Next]_vars
               PROVE  [Reads!Next]_Reads!vars
    OBVIOUS
  <2>1. CASE Next
    BY <2>1, NextMoves, MovesImplement, WriteImplements
  <2>2. CASE UNCHANGED vars
    BY <2>2 DEF vars, Reads!vars, Reading
  <2> QED
    BY <2>1, <2>2
<1> QED
  BY <1>1, <1>2, AlwaysSane, AlwaysKeepsPromises, PTL DEF Spec, ImplementsReads, Reads!Spec

=============================================================================
