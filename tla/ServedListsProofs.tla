-------------------------- MODULE ServedListsProofs ------------------------
(***************************************************************************)
(* A response is never older than what was announced before its request.   *)
(*                                                                         *)
(* The argument is about keys.  promised[v] is what data version v stands  *)
(* for.  A writer commits before it bumps, and a builder reads the version *)
(* before it reads the tables, so whatever is filed under v is at least as *)
(* recent as promised[v] (Sound), also while it is being made (Building).  *)
(* Clearing the caches plays no part in it.                                *)
(***************************************************************************)
EXTENDS ServedLists, TLAPS

\* The versions handed out promise more and more, and nothing uncommitted.
PromisesGrow ==
    /\ \A v \in 0..dataVersion : promised[v] <= commits
    /\ \A v, w \in 0..dataVersion : v <= w => promised[v] <= promised[w]

\* A cached value keeps the promise of its key.
Sound(entry) ==
    entry.there => /\ entry.key.data <= dataVersion
                   /\ promised[entry.key.data] <= entry.value.data

CachesSound ==
    /\ Sound(filterCache)
    /\ \A a \in PoolActions : Sound(rendered[a])

OuterKnown(r) == r.pc \in {"lookUp", "config", "version", "names", "data",
                           "visible", "compute", "store", "render"}
InnerKnown(r) == \/ r.pc \in {"visible", "compute", "store"}
                 \/ r.pc = "names" /\ ~ NamesBeforeVersion(r.action)

\* A version read by a request promises at least what the request may expect.
Promising(r, v) == v <= dataVersion /\ r.floor.promised <= promised[v]

OuterSound(b, r) ==
    b # Loop /\ OuterKnown(r) =>
        Promising(r, r.outer.data)
InnerSound(b, r) ==
    InnerKnown(r) => /\ Promising(r, r.inner.data)
                     /\ b # Loop => r.outer.data <= r.inner.data
ContentSound(r) ==
    /\ r.pc = "store" => promised[r.inner.data] <= r.content.data
    /\ r.pc = "render" => promised[r.outer.data] <= r.content.data
    /\ r.pc = "done" => r.floor.promised <= r.content.data

Place(b, r) ==
    /\ b = Loop => r.pc \notin {"outer", "lookUp", "render"}
    /\ b # Loop /\ r.pc # "idle" => r.action \in PoolActions

Building(b, r) ==
    /\ r.floor.promised <= promised[dataVersion]
    /\ Place(b, r)
    /\ OuterSound(b, r)
    /\ InnerSound(b, r)
    /\ ContentSound(r)

KeysKeepPromises ==
    /\ TypeOK
    /\ PromisesGrow
    /\ CachesSound
    /\ \A b \in Builder : Building(b, build[b])

-----------------------------------------------------------------------------
(* Type correctness. *)

\* What a builder may become keeps the types.
LEMMA ProceedTyped ==
  ASSUME TypeOK, NEW b \in Builder, NEW r \in Build, Proceed(b, r)
  PROVE  build' \in [Builder -> Build]
BY DEF TypeOK, Proceed

\* The step of a builder leaves the builders typed.
LEMMA BuildStepTyped ==
  ASSUME TypeOK, NEW b \in Builder, BuildStep(b),
         b = Loop => build[b].pc \notin {"lookUp"},
         build[b].pc = "lookUp" => build[b].action \in PoolActions
  PROVE  build' \in [Builder -> Build]
<1> USE BoundsAssumption
<1> DEFINE r == build[b]
<1>1. /\ r \in Build
      /\ r.outer \in Key /\ r.inner \in Key /\ r.content \in Content
      /\ config \in Version /\ dataVersion \in DataVersion /\ commits \in Commit
  BY DEF TypeOK, Build
<1>2. NoKey \in Key
  BY DEF NoKey, Key, Version, DataVersion
<1>3. \A c \in Content :
         /\ [r EXCEPT !.pc = "done", !.outer = NoKey, !.inner = NoKey, !.content = c] \in Build
         /\ [r EXCEPT !.pc = "render", !.inner = NoKey, !.content = c] \in Build
  BY <1>1, <1>2 DEF Build, PC
<1>4. \A c \in Content : HaveVisible(b, c) => build' \in [Builder -> Build]
  BY <1>3, ProceedTyped DEF HaveVisible, Done
<1>5. CASE ReadOuterKey(b)
  <2>1. [r EXCEPT !.pc = "lookUp", !.outer.data = dataVersion] \in Build
    BY <1>1 DEF Build, PC, Key
  <2> QED
    BY <1>5, <2>1, ProceedTyped DEF ReadOuterKey
<1>6. CASE LookUpRendered(b)
  <2>1. r.action \in PoolActions
    BY <1>6 DEF LookUpRendered, At
  <2>2. rendered[r.action].value \in Content
    BY <2>1 DEF TypeOK, Cached
  <2>3. [r EXCEPT !.pc = "config"] \in Build
    BY <1>1 DEF Build, PC
  <2> QED
    BY <1>3, <1>6, <2>2, <2>3, ProceedTyped DEF LookUpRendered, Done
<1>7. CASE ReadConfig(b)
  <2>1. [r EXCEPT !.pc = "version", !.content.config = config] \in Build
    BY <1>1 DEF Build, PC, Content
  <2> QED
    BY <1>7, <2>1, ProceedTyped DEF ReadConfig
<1>8. CASE ReadVersion(b)
  <2>1. \A pc \in PC : [r EXCEPT !.pc = pc, !.inner.config = config] \in Build
    BY <1>1 DEF Build, PC, Key
  <2>2. "names" \in PC /\ "data" \in PC
    BY DEF PC
  <2> QED
    BY <1>8, <2>1, <2>2, ProceedTyped DEF ReadVersion
<1>9. CASE ReadDataVersion(b)
  <2>1. \A pc \in PC : [r EXCEPT !.pc = pc, !.inner.data = dataVersion] \in Build
    BY <1>1 DEF Build, PC, Key
  <2>2. "names" \in PC /\ "visible" \in PC
    BY DEF PC
  <2> QED
    BY <1>9, <2>1, <2>2, ProceedTyped DEF ReadDataVersion
<1>10. CASE ReadNames(b)
  <2>1. \A pc \in PC : [r EXCEPT !.pc = pc, !.content.named = TRUE,
                                 !.content.names = commits] \in Build
    BY <1>1 DEF Build, PC, Content
  <2>2. "data" \in PC /\ "visible" \in PC
    BY DEF PC
  <2> QED
    BY <1>10, <2>1, <2>2, ProceedTyped DEF ReadNames
<1>11. CASE LookUpVisible(b)
  <2>1. filterCache.value \in Content
    BY DEF TypeOK, Cached
  <2>2. [r EXCEPT !.pc = "compute"] \in Build
    BY <1>1 DEF Build, PC
  <2> QED
    BY <1>4, <1>11, <2>1, <2>2, ProceedTyped DEF LookUpVisible
<1>12. CASE ComputeVisible(b)
  <2>1. [r EXCEPT !.pc = "store", !.content.data = commits] \in Build
    BY <1>1 DEF Build, PC, Content
  <2> QED
    BY <1>12, <2>1, ProceedTyped DEF ComputeVisible
<1>13. CASE StoreVisible(b)
  BY <1>1, <1>4, <1>13 DEF StoreVisible
<1>14. CASE StoreRendered(b)
  BY <1>1, <1>3, <1>14, ProceedTyped DEF StoreRendered, Done
<1>15. CASE Respond(b)
  <2>1. Idle \in Build
    BY DEF Idle, Build, PC, LoopActions, PoolActions, Floor, NoFloor, Key, NoKey,
           Content, NoContent, Version, Commit, DataVersion
  <2> QED
    BY <1>15, <2>1, ProceedTyped DEF Respond
<1> QED
  BY <1>5, <1>6, <1>7, <1>8, <1>9, <1>10, <1>11, <1>12, <1>13, <1>14, <1>15 DEF BuildStep

-----------------------------------------------------------------------------
(* Typing of the remaining actions. *)

LEMMA InitTyped == Init => TypeOK
BY BoundsAssumption
   DEF Init, TypeOK, Version, Commit, DataVersion, NotCached, Cached, Key, NoKey,
       Content, NoContent, Builder, Build, Idle, PC, Floor, NoFloor, LoopActions,
       PoolActions, Thread, Writing, NotWriting

\* A new request or view.
LEMMA BeginTyped ==
  ASSUME TypeOK, NEW b \in Builder, NEW action,
         \/ b \in Request /\ action \in PoolActions /\ BeginRequest(b, action)
         \/ b = Loop /\ action \in LoopActions /\ BeginView(action)
  PROVE  TypeOK'
<1> USE BoundsAssumption
<1> USE DEF TypeOK, storeVars, cacheVars, historyVars
<1>1. NewFloor \in Floor
  BY DEF NewFloor, Floor, Version, Commit, DataVersion
<1>2. Idle \in Build /\ Idle.outer \in Key
  BY DEF Idle, Build, PC, LoopActions, PoolActions, Floor, NoFloor, Key, NoKey,
         Content, NoContent, Version, Commit, DataVersion
<1>3. CASE b \in Request /\ action \in PoolActions /\ BeginRequest(b, action)
  <2>1. [Idle EXCEPT !.pc = "outer", !.action = action, !.floor = NewFloor,
                     !.outer.config = config] \in Build
    BY <1>1, <1>2, <1>3 DEF Build, PC, Key
  <2>2. build' \in [Builder -> Build]
    BY <1>3, <2>1, ProceedTyped DEF BeginRequest
  <2> QED
    BY <1>3, <2>2 DEF BeginRequest
<1>4. CASE b = Loop /\ action \in LoopActions /\ BeginView(action)
  <2>1. [Idle EXCEPT !.pc = "config", !.action = action, !.floor = NewFloor] \in Build
    BY <1>1, <1>2, <1>4 DEF Build, PC
  <2>2. build' \in [Builder -> Build]
    BY <1>4, <2>1, ProceedTyped DEF BeginView
  <2> QED
    BY <1>4, <2>2 DEF BeginView
<1> QED
  BY <1>3, <1>4

LEMMA BuildTyped ==
  ASSUME TypeOK, NEW b \in Builder, BuildStep(b), Place(b, build[b])
  PROVE  TypeOK'
<1> USE BoundsAssumption
<1>1. build' \in [Builder -> Build]
  BY BuildStepTyped DEF Place
<1>2. build[b] \in Build /\ build[b].inner \in Key /\ build[b].outer \in Key
      /\ build[b].content \in Content
  BY DEF TypeOK, Build
<1>3. CASE StoreVisible(b)
  BY <1>1, <1>2, <1>3 DEF StoreVisible, TypeOK, storeVars, historyVars, Cached
<1>4. CASE StoreRendered(b)
  <2>1. [there |-> TRUE, key |-> build[b].outer, value |-> build[b].content] \in Cached
    BY <1>2 DEF Cached
  <2> QED
    BY <1>1, <1>4, <2>1 DEF StoreRendered, TypeOK, storeVars, historyVars
<1>5. CASE ~ StoreVisible(b) /\ ~ StoreRendered(b)
  <2>1. UNCHANGED <<storeVars, cacheVars, writer, historyVars>>
    BY <1>5 DEF BuildStep, ReadOuterKey, LookUpRendered, ReadConfig, ReadVersion,
         ReadDataVersion, ReadNames, LookUpVisible, ComputeVisible, Respond
  <2> QED
    BY <1>1, <2>1 DEF TypeOK, storeVars, cacheVars, historyVars
<1> QED
  BY <1>3, <1>4, <1>5

LEMMA WriteTyped ==
  ASSUME TypeOK, WriteStep
  PROVE  TypeOK'
<1> USE BoundsAssumption
<1> USE DEF TypeOK, storeVars, cacheVars, historyVars
<1>1. NotWriting \in Writing
  BY DEF NotWriting, Writing, Commit
<1>2. \A t \in Thread, bumps \in BOOLEAN, c \in Commit :
         Invalidate(t, bumps, c) => writer' \in [Thread -> Writing]
  BY DEF Invalidate, Writing
<1>3. 0 \in Commit /\ "loop" \in Thread /\ "crawler" \in Thread
  BY DEF Commit, Thread
<1>4. CommitChange => commits' \in Commit
  BY DEF CommitChange, Commit
<1>5. CASE SaveConfig
  <2>1. config' \in Version
    BY <1>5 DEF SaveConfig, Version
  <2> QED
    BY <1>2, <1>3, <1>5, <2>1 DEF SaveConfig
<1>6. CASE Requeue
  BY <1>2, <1>3, <1>4, <1>6 DEF Requeue
<1>7. CASE RemoveOverride
  BY <1>2, <1>3, <1>4, <1>7 DEF RemoveOverride
<1>8. CASE MarkResult
  BY <1>2, <1>3, <1>4, <1>8 DEF MarkResult
<1>9. ASSUME NEW t \in Thread, CommitQuietly(t) PROVE TypeOK'
  BY <1>4, <1>9 DEF CommitQuietly
<1>10. ASSUME NEW t \in Thread, FinishSync(t) PROVE TypeOK'
  BY <1>2, <1>3, <1>4, <1>10 DEF FinishSync
<1>11. ASSUME NEW t \in Thread, ClearVisible(t) PROVE TypeOK'
  <2>1. NotCached \in Cached
    BY DEF NotCached, Cached, Key, NoKey, Content, NoContent, Version, Commit, DataVersion
  <2>2. writer' \in [Thread -> Writing]
    BY <1>11 DEF ClearVisible, Writing
  <2> QED
    BY <1>11, <2>1, <2>2 DEF ClearVisible
<1>12. ASSUME NEW t \in Thread, ClearRendered(t) PROVE TypeOK'
  <2>1. NotCached \in Cached
    BY DEF NotCached, Cached, Key, NoKey, Content, NoContent, Version, Commit, DataVersion
  <2>2. writer' \in [Thread -> Writing]
    BY <1>1, <1>12 DEF ClearRendered, Writing
  <2>3. writer[t].commit \in Commit
    BY DEF Writing
  <2>4. settled' \in [config : Version, data : Commit]
    BY <1>12, <2>3 DEF ClearRendered
  <2> QED
    BY <1>12, <2>1, <2>2, <2>4 DEF ClearRendered
<1>13. ASSUME NEW t \in Thread, Bump(t) PROVE TypeOK'
  <2>1. dataVersion' \in DataVersion
    BY <1>13 DEF Bump, DataVersion
  <2>2. promised' \in [DataVersion -> Commit]
    BY <1>13 DEF Bump
  <2> QED
    BY <1>1, <1>13, <2>1, <2>2 DEF Bump
<1> QED
  BY <1>5, <1>6, <1>7, <1>8, <1>9, <1>10, <1>11, <1>12, <1>13 DEF WriteStep

-----------------------------------------------------------------------------
(* The invariant. *)

\* Where no version is handed out, the other builders are as sound as before.
LEMMA OtherBuilders ==
  ASSUME NEW c \in Builder, Building(c, build[c]),
         UNCHANGED <<promised, dataVersion>>, build'[c] = build[c]
  PROVE  Building(c, build[c])'
BY DEF Building, Place, OuterSound, InnerSound, ContentSound, OuterKnown, InnerKnown,
       Promising

\* What every step of a builder has to show of the builder itself.
LEMMA OneBuilder ==
  ASSUME KeysKeepPromises, UNCHANGED <<promised, dataVersion, commits>>,
         NEW b \in Builder, NEW r, Proceed(b, r), Building(b, r)
  PROVE  \A c \in Builder : Building(c, build[c])'
<1>1. build'[b] = r /\ \A c \in Builder : c # b => build'[c] = build[c]
  BY DEF KeysKeepPromises, TypeOK, Proceed
<1>2. Building(b, build[b])'
  BY <1>1 DEF Building, Place, OuterSound, InnerSound, ContentSound, OuterKnown,
     InnerKnown, Promising
<1>3. \A c \in Builder : Building(c, build[c])
  BY DEF KeysKeepPromises
<1> QED
  BY <1>1, <1>2, <1>3, OtherBuilders

LEMMA InitKeepsPromises == Init => KeysKeepPromises
<1> SUFFICES ASSUME Init PROVE KeysKeepPromises
  OBVIOUS
<1>1. TypeOK
  BY InitTyped
<1>2. PromisesGrow
  BY BoundsAssumption DEF Init, PromisesGrow, DataVersion
<1>3. CachesSound
  BY DEF Init, CachesSound, Sound, NotCached
<1>4. ASSUME NEW b \in Builder PROVE Building(b, build[b])
  BY BoundsAssumption
     DEF Init, Building, Place, OuterSound, InnerSound, ContentSound, OuterKnown,
         InnerKnown, Promising, Idle, NoFloor, DataVersion
<1> QED
  BY <1>1, <1>2, <1>3, <1>4 DEF KeysKeepPromises

\* The numbers the arithmetic is about.
LEMMA Numbers ==
  ASSUME TypeOK
  PROVE  /\ dataVersion \in Nat /\ commits \in Nat
         /\ 0..dataVersion \subseteq DataVersion
         /\ \A v \in DataVersion : v \in Nat /\ promised[v] \in Nat
         /\ promised[dataVersion] \in Nat
         /\ \A b \in Builder : /\ build[b].outer.data \in DataVersion
                               /\ build[b].inner.data \in DataVersion
                               /\ build[b].content.data \in Nat
                               /\ build[b].content.data \in Commit
                               /\ build[b].floor.promised \in Nat
BY BoundsAssumption DEF TypeOK, DataVersion, Commit, Build, Key, Content, Floor

\* A request or a view comes in.
LEMMA BeginKeepsPromises ==
  ASSUME KeysKeepPromises, NEW b \in Builder, NEW action,
         \/ b \in Request /\ action \in PoolActions /\ BeginRequest(b, action)
         \/ b = Loop /\ action \in LoopActions /\ BeginView(action)
  PROVE  KeysKeepPromises'
<1>1. TypeOK'
  BY BeginTyped DEF KeysKeepPromises
<1>2. UNCHANGED <<storeVars, cacheVars, historyVars>>
  BY DEF BeginRequest, BeginView
<1>3. PromisesGrow' /\ CachesSound'
  BY <1>2 DEF KeysKeepPromises, PromisesGrow, CachesSound, Sound, storeVars, cacheVars,
     historyVars
<1>4. promised[dataVersion] <= promised[dataVersion]
  BY Numbers DEF KeysKeepPromises
<1>5. \A c \in Builder : Building(c, build[c])'
  <2>1. CASE b \in Request /\ action \in PoolActions /\ BeginRequest(b, action)
    <3> DEFINE r == [Idle EXCEPT !.pc = "outer", !.action = action, !.floor = NewFloor,
                                 !.outer.config = config]
    <3>1. r.pc = "outer" /\ r.action = action /\ r.floor = NewFloor
      BY DEF Idle
    <3>2. b # Loop
      BY <2>1, RequestAssumption
    <3>3. Building(b, r)
      BY <1>4, <2>1, <3>1, <3>2
         DEF Building, Place, OuterSound, InnerSound, ContentSound, OuterKnown,
             InnerKnown, NewFloor
    <3> QED
      BY <1>2, <2>1, <3>3, OneBuilder DEF BeginRequest, storeVars, historyVars
  <2>2. CASE b = Loop /\ action \in LoopActions /\ BeginView(action)
    <3> DEFINE r == [Idle EXCEPT !.pc = "config", !.action = action, !.floor = NewFloor]
    <3>1. r.pc = "config" /\ r.action = action /\ r.floor = NewFloor
      BY DEF Idle
    <3>2. Building(b, r)
      BY <1>4, <2>2, <3>1
         DEF Building, Place, OuterSound, InnerSound, ContentSound, OuterKnown,
             InnerKnown, NewFloor
    <3> QED
      BY <1>2, <2>2, <3>2, OneBuilder DEF BeginView, storeVars, historyVars
  <2> QED
    BY <2>1, <2>2
<1> QED
  BY <1>1, <1>3, <1>5 DEF KeysKeepPromises

\* A cached visible set under the builder's own key is as recent as its content.
LEMMA VisibleKeepsPromise ==
  ASSUME KeysKeepPromises, UNCHANGED <<promised, dataVersion, commits>>,
         NEW b \in Builder, InnerKnown(build[b]), NEW content \in Content,
         promised[build[b].inner.data] <= content.data, HaveVisible(b, content)
  PROVE  \A c \in Builder : Building(c, build[c])'
<1> DEFINE r == build[b]
<1> USE DEF KeysKeepPromises
<1>1. r \in Build /\ Building(b, r)
  BY DEF TypeOK
<1>2. content.data \in Nat
  BY BoundsAssumption DEF Content, Commit
<1>3. r.pc # "idle" /\ r.pc # "outer"
  BY DEF InnerKnown
<1>4. r.floor.promised <= promised[r.inner.data] /\ r.inner.data <= dataVersion
  BY <1>1 DEF Building, InnerSound, Promising
<1>5. r.floor.promised <= content.data
  BY <1>2, <1>4, Numbers
<1>6. CASE b = Loop
  <2> DEFINE n == [r EXCEPT !.pc = "done", !.outer = NoKey, !.inner = NoKey,
                            !.content = content]
  <2>1. n.pc = "done" /\ n.floor = r.floor /\ n.content = content /\ n.action = r.action
    BY <1>1 DEF Build
  <2>2. Building(b, n)
    BY <1>1, <1>5, <1>6, <2>1
       DEF Building, Place, OuterSound, InnerSound, ContentSound, OuterKnown, InnerKnown
  <2> QED
    BY <1>6, <2>2, OneBuilder DEF HaveVisible, Done
<1>7. CASE b # Loop
  <2> DEFINE n == [r EXCEPT !.pc = "render", !.inner = NoKey, !.content = content]
  <2>1. n.pc = "render" /\ n.floor = r.floor /\ n.content = content
        /\ n.action = r.action /\ n.outer = r.outer
    BY <1>1 DEF Build
  <2>2. OuterKnown(r)
    BY DEF OuterKnown, InnerKnown
  <2>3. Promising(r, r.outer.data) /\ r.outer.data <= r.inner.data
    BY <1>1, <1>7, <2>2 DEF Building, OuterSound, InnerSound
  <2>4. r.outer.data \in 0..dataVersion /\ r.inner.data \in 0..dataVersion
    BY <1>4, <2>3, Numbers DEF Promising
  <2>5. promised[r.outer.data] <= promised[r.inner.data]
    BY <2>3, <2>4 DEF PromisesGrow
  <2>6. promised[r.outer.data] <= content.data
    BY <1>2, <2>5, Numbers
  <2>7. Building(b, n)
    BY <1>1, <1>3, <1>7, <2>1, <2>3, <2>6
       DEF Building, Place, OuterSound, InnerSound, ContentSound, OuterKnown, InnerKnown,
           Promising
  <2> QED
    BY <1>7, <2>7, OneBuilder DEF HaveVisible
<1> QED
  BY <1>6, <1>7

\* A builder's step.
LEMMA BuildKeepsPromises ==
  ASSUME KeysKeepPromises, NEW b \in Builder, BuildStep(b)
  PROVE  KeysKeepPromises'
<1> DEFINE r == build[b]
<1> USE DEF KeysKeepPromises, storeVars, historyVars, cacheVars
<1>1. r \in Build /\ Building(b, r)
  BY DEF TypeOK
<1>2. TypeOK'
  BY <1>1, BuildTyped DEF Building
<1>3. UNCHANGED <<storeVars, historyVars>>
  BY DEF BuildStep, ReadOuterKey, LookUpRendered, ReadConfig, ReadVersion,
     ReadDataVersion, ReadNames, LookUpVisible, ComputeVisible, StoreVisible,
     StoreRendered, Respond
<1>4. PromisesGrow'
  BY <1>3 DEF PromisesGrow
<1>5. CachesSound'
  <2>1. CASE StoreVisible(b)
    <3>1. InnerKnown(r) /\ r.pc = "store"
      BY <2>1 DEF StoreVisible, At, InnerKnown
    <3>2. r.inner.data <= dataVersion /\ promised[r.inner.data] <= r.content.data
      BY <1>1, <3>1 DEF Building, InnerSound, Promising, ContentSound
    <3>3. Sound(filterCache)'
      BY <1>3, <2>1, <3>2 DEF StoreVisible, Sound
    <3>4. \A a \in PoolActions : Sound(rendered[a])'
      BY <1>3, <2>1 DEF StoreVisible, Sound, CachesSound
    <3> QED
      BY <3>3, <3>4 DEF CachesSound
  <2>2. CASE StoreRendered(b)
    <3>1. OuterKnown(r) /\ r.pc = "render" /\ b # Loop
      BY <1>1, <2>2 DEF StoreRendered, At, OuterKnown, Building, Place
    <3>2. r.outer.data <= dataVersion /\ promised[r.outer.data] <= r.content.data
      BY <1>1, <3>1 DEF Building, OuterSound, Promising, ContentSound
    <3>3. Sound(filterCache)'
      BY <1>3, <2>2 DEF StoreRendered, Sound, CachesSound
    <3>4. ASSUME NEW a \in PoolActions PROVE Sound(rendered[a])'
      <4>1. CASE a = r.action
        <5>1. rendered'[a] = [there |-> TRUE, key |-> r.outer, value |-> r.content]
          BY <2>2, <4>1 DEF StoreRendered, TypeOK
        <5> QED
          BY <1>3, <3>2, <5>1 DEF Sound
      <4>2. CASE a # r.action
        <5>1. rendered'[a] = rendered[a]
          BY <2>2, <4>2 DEF StoreRendered, TypeOK
        <5> QED
          BY <1>3, <5>1 DEF Sound, CachesSound
      <4> QED
        BY <4>1, <4>2
    <3> QED
      BY <3>3, <3>4 DEF CachesSound
  <2>3. CASE ~ StoreVisible(b) /\ ~ StoreRendered(b)
    <3>1. UNCHANGED cacheVars
      BY <2>3 DEF BuildStep, ReadOuterKey, LookUpRendered, ReadConfig, ReadVersion,
         ReadDataVersion, ReadNames, LookUpVisible, ComputeVisible, Respond
    <3> QED
      BY <1>3, <3>1 DEF CachesSound, Sound
  <2> QED
    BY <2>1, <2>2, <2>3
<1>6. \A c \in Builder : Building(c, build[c])'
  <2> USE DEF Building, Place, OuterSound, InnerSound, ContentSound, OuterKnown,
              InnerKnown, Promising, At
  <2>0. /\ dataVersion \in Nat /\ dataVersion <= dataVersion
        /\ r.floor.promised <= promised[dataVersion]
    BY <1>1, Numbers
  <2>1. CASE ReadOuterKey(b)
    <3> DEFINE n == [r EXCEPT !.pc = "lookUp", !.outer.data = dataVersion]
    <3>1. n.pc = "lookUp" /\ n.floor = r.floor /\ n.action = r.action
          /\ n.outer.data = dataVersion
      BY <1>1 DEF Build, Key
    <3>2. Building(b, n)
      BY <1>1, <2>0, <2>1, <3>1 DEF ReadOuterKey
    <3> QED
      BY <1>3, <2>1, <3>2, OneBuilder DEF ReadOuterKey
  <2>2. CASE LookUpRendered(b)
    <3> DEFINE entry == rendered[r.action]
    <3>1. b # Loop /\ r.action \in PoolActions /\ OuterKnown(r)
      BY <1>1, <2>2 DEF LookUpRendered
    <3>2. CASE Hit(entry, r.outer) /\ Done(b, entry.value)
      <4> DEFINE n == [r EXCEPT !.pc = "done", !.outer = NoKey, !.inner = NoKey,
                                !.content = entry.value]
      <4>1. n.pc = "done" /\ n.floor = r.floor /\ n.action = r.action
            /\ n.content = entry.value
        BY <1>1 DEF Build
      <4>2. Sound(entry) /\ entry.there /\ entry.key = r.outer
        BY <3>1, <3>2 DEF CachesSound, Hit
      <4>3. promised[r.outer.data] <= entry.value.data
        BY <4>2 DEF Sound
      <4>4. entry.value.data \in Nat
        BY <3>1, BoundsAssumption DEF TypeOK, Cached, Content, Commit
      <4>5. r.floor.promised <= promised[r.outer.data]
        BY <1>1, <3>1
      <4>6. r.floor.promised <= entry.value.data
        BY <4>3, <4>4, <4>5, Numbers
      <4>7. Building(b, n)
        BY <1>1, <3>1, <4>1, <4>6
      <4> QED
        BY <1>3, <3>2, <4>7, OneBuilder DEF Done
    <3>3. CASE Proceed(b, [r EXCEPT !.pc = "config"])
      <4> DEFINE n == [r EXCEPT !.pc = "config"]
      <4>1. n.pc = "config" /\ n.floor = r.floor /\ n.action = r.action
            /\ n.outer = r.outer
        BY <1>1 DEF Build
      <4>2. Building(b, n)
        BY <1>1, <3>1, <4>1
      <4> QED
        BY <1>3, <3>3, <4>2, OneBuilder
    <3> QED
      BY <2>2, <3>2, <3>3 DEF LookUpRendered
  <2>3. CASE ReadConfig(b)
    <3> DEFINE n == [r EXCEPT !.pc = "version", !.content.config = config]
    <3>1. n.pc = "version" /\ n.floor = r.floor /\ n.action = r.action
          /\ n.outer = r.outer
      BY <1>1 DEF Build
    <3>2. Building(b, n)
      BY <1>1, <2>3, <3>1 DEF ReadConfig
    <3> QED
      BY <1>3, <2>3, <3>2, OneBuilder DEF ReadConfig
  <2>4. CASE ReadVersion(b)
    <3> DEFINE pc == IF NamesBeforeVersion(r.action) THEN "names" ELSE "data"
               n == [r EXCEPT !.pc = pc, !.inner.config = config]
    <3>1. n.pc = pc /\ n.floor = r.floor /\ n.action = r.action /\ n.outer = r.outer
      BY <1>1 DEF Build
    <3>2. Building(b, n)
      BY <1>1, <2>4, <3>1 DEF ReadVersion
    <3> QED
      BY <1>3, <2>4, <3>2, OneBuilder DEF ReadVersion
  <2>5. CASE ReadDataVersion(b)
    <3> DEFINE pc == IF r.action = "streams" THEN "names" ELSE "visible"
               n == [r EXCEPT !.pc = pc, !.inner.data = dataVersion]
    <3>1. n.pc = pc /\ n.floor = r.floor /\ n.action = r.action /\ n.outer = r.outer
          /\ n.inner.data = dataVersion
      BY <1>1 DEF Build, Key
    <3>2. Building(b, n)
      BY <1>1, <2>0, <2>5, <3>1 DEF ReadDataVersion
    <3> QED
      BY <1>3, <2>5, <3>2, OneBuilder DEF ReadDataVersion
  <2>6. CASE ReadNames(b)
    <3> DEFINE pc == IF NamesBeforeVersion(r.action) THEN "data" ELSE "visible"
               n == [r EXCEPT !.pc = pc, !.content.named = TRUE, !.content.names = commits]
    <3>1. n.pc = pc /\ n.floor = r.floor /\ n.action = r.action /\ n.outer = r.outer
          /\ n.inner = r.inner
      BY <1>1 DEF Build
    <3>2. Building(b, n)
      BY <1>1, <2>6, <3>1 DEF ReadNames
    <3> QED
      BY <1>3, <2>6, <3>2, OneBuilder DEF ReadNames
  <2>7. CASE LookUpVisible(b)
    <3>1. InnerKnown(r)
      BY <2>7 DEF LookUpVisible
    <3>2. CASE Hit(filterCache, r.inner) /\ HaveVisible(b, filterCache.value)
      <4>1. promised[r.inner.data] <= filterCache.value.data
        BY <3>2 DEF CachesSound, Sound, Hit
      <4>2. filterCache.value \in Content
        BY DEF TypeOK, Cached
      <4> HIDE DEF Building, InnerKnown
      <4> QED
        BY <1>3, <3>1, <3>2, <4>1, <4>2, VisibleKeepsPromise
    <3>3. CASE Proceed(b, [r EXCEPT !.pc = "compute"])
      <4> DEFINE n == [r EXCEPT !.pc = "compute"]
      <4>1. n.pc = "compute" /\ n.floor = r.floor /\ n.action = r.action
            /\ n.outer = r.outer /\ n.inner = r.inner
        BY <1>1 DEF Build
      <4>2. Building(b, n)
        BY <1>1, <2>7, <3>1, <4>1 DEF LookUpVisible
      <4> QED
        BY <1>3, <3>3, <4>2, OneBuilder
    <3> QED
      BY <2>7, <3>2, <3>3 DEF LookUpVisible
  <2>8. CASE ComputeVisible(b)
    <3> DEFINE n == [r EXCEPT !.pc = "store", !.content.data = commits]
    <3>1. n.pc = "store" /\ n.floor = r.floor /\ n.action = r.action
          /\ n.outer = r.outer /\ n.inner = r.inner /\ n.content.data = commits
      BY <1>1 DEF Build, Content
    <3>2. r.pc = "compute"
      BY <2>8 DEF ComputeVisible
    <3>3. r.inner.data \in 0..dataVersion
      BY <1>1, <3>2, Numbers
    <3>4. promised[r.inner.data] <= commits
      BY <3>3 DEF PromisesGrow
    <3>5. Building(b, n)
      BY <1>1, <3>1, <3>2, <3>4
    <3> QED
      BY <1>3, <2>8, <3>5, OneBuilder DEF ComputeVisible
  <2>9. CASE StoreVisible(b)
    <3>1. InnerKnown(r) /\ promised[r.inner.data] <= r.content.data
      BY <1>1, <2>9 DEF StoreVisible
    <3>2. r.content \in Content
      BY <1>1 DEF Build
    <3> HIDE DEF Building, InnerKnown
    <3> QED
      BY <1>3, <2>9, <3>1, <3>2, VisibleKeepsPromise DEF StoreVisible
  <2>10. CASE StoreRendered(b)
    <3> DEFINE n == [r EXCEPT !.pc = "done", !.outer = NoKey, !.inner = NoKey,
                              !.content = r.content]
    <3>1. n.pc = "done" /\ n.floor = r.floor /\ n.action = r.action
          /\ n.content = r.content
      BY <1>1 DEF Build
    <3>2. r.pc = "render" /\ b # Loop
      BY <1>1, <2>10 DEF StoreRendered
    <3>3. r.floor.promised <= promised[r.outer.data]
          /\ promised[r.outer.data] <= r.content.data
      BY <1>1, <3>2
    <3>4. r.floor.promised <= r.content.data
      BY <3>3, Numbers
    <3>5. Building(b, n)
      BY <1>1, <3>1, <3>2, <3>4
    <3> QED
      BY <1>3, <2>10, <3>5, OneBuilder DEF StoreRendered, Done
  <2>11. CASE Respond(b)
    <3>1. Building(b, Idle)
      BY BoundsAssumption, Numbers DEF Idle, NoFloor
    <3> QED
      BY <1>3, <2>11, <3>1, OneBuilder DEF Respond
  <2> QED
    BY <2>1, <2>2, <2>3, <2>4, <2>5, <2>6, <2>7, <2>8, <2>9, <2>10, <2>11 DEF BuildStep
<1> QED
  BY <1>2, <1>4, <1>5, <1>6

\* A writer's step.  Only a bump hands out a version, which promises what has
\* been committed by then.
LEMMA WriteKeepsPromises ==
  ASSUME KeysKeepPromises, WriteStep
  PROVE  KeysKeepPromises'
<1> USE DEF KeysKeepPromises, storeVars, historyVars, cacheVars
<1>1. TypeOK'
  BY WriteTyped
<1>2. UNCHANGED build
  BY DEF WriteStep, SaveConfig, Requeue, RemoveOverride, MarkResult, CommitQuietly,
     FinishSync, ClearVisible, ClearRendered, Bump
<1>3. CASE \E t \in Thread : Bump(t)
  <2>1. PICK t \in Thread : Bump(t)
    BY <1>3
  <2>2. /\ dataVersion' = dataVersion + 1 /\ dataVersion' \in DataVersion
        /\ promised'[dataVersion'] = commits
        /\ \A v \in DataVersion : v # dataVersion' => promised'[v] = promised[v]
        /\ UNCHANGED <<commits, cacheVars>>
    BY <1>1, <2>1 DEF Bump, TypeOK
  <2>3. \A v \in 0..dataVersion : /\ v \in DataVersion /\ v # dataVersion'
                                  /\ promised'[v] = promised[v]
    BY <2>2, Numbers
  <2>4. PromisesGrow'
    <3>1. \A v \in 0..dataVersion' : v \in 0..dataVersion \/ v = dataVersion'
      BY <2>2, Numbers
    <3>2. commits <= commits
      BY Numbers
    <3>3. \A v \in 0..dataVersion' : promised'[v] <= commits
      BY <2>2, <2>3, <3>1, <3>2 DEF PromisesGrow
    <3>4. ASSUME NEW v \in 0..dataVersion', NEW w \in 0..dataVersion', v <= w
          PROVE  promised'[v] <= promised'[w]
      <4>1. CASE w = dataVersion'
        BY <2>2, <3>3, <4>1
      <4>2. CASE w \in 0..dataVersion
        <5>1. v \in 0..dataVersion
          BY <3>4, <4>2, Numbers
        <5> QED
          BY <2>3, <3>4, <4>2, <5>1 DEF PromisesGrow
      <4> QED
        BY <3>1, <4>1, <4>2
    <3> QED
      BY <2>2, <3>3, <3>4 DEF PromisesGrow
  <2>5. ASSUME NEW entry \in Cached, Sound(entry), entry.there
        PROVE  /\ entry.key.data <= dataVersion'
               /\ promised'[entry.key.data] <= entry.value.data
    <3>1. entry.key.data \in DataVersion
      BY DEF Cached, Key
    <3>2. entry.key.data \in 0..dataVersion
      BY <2>5, <3>1, Numbers DEF Sound
    <3> QED
      BY <2>2, <2>3, <2>5, <3>2, Numbers DEF Sound
  <2>6. CachesSound'
    BY <2>2, <2>5 DEF CachesSound, Sound, TypeOK
  <2>7. ASSUME NEW b \in Builder PROVE Building(b, build[b])'
    <3> DEFINE r == build[b]
    <3> USE DEF OuterKnown, InnerKnown
    <3>1. Building(b, r)
      OBVIOUS
    <3>2. promised[dataVersion] <= commits
      BY Numbers DEF PromisesGrow
    <3>3. r.floor.promised <= promised'[dataVersion']
      BY <2>2, <3>1, <3>2, Numbers DEF Building
    <3>4. ASSUME NEW v \in DataVersion, Promising(r, v)
          PROVE  /\ v <= dataVersion'
                 /\ promised'[v] = promised[v]
      <4>1. v \in 0..dataVersion
        BY <3>4, Numbers DEF Promising
      <4> QED
        BY <2>2, <2>3, <4>1, Numbers
    <3>5. r.outer.data \in DataVersion /\ r.inner.data \in DataVersion
      BY Numbers
    <3>6. OuterSound(b, r)'
      BY <1>2, <3>1, <3>4, <3>5 DEF Building, OuterSound, Promising
    <3>7. InnerSound(b, r)'
      BY <1>2, <3>1, <3>4, <3>5 DEF Building, InnerSound, Promising
    <3>8. ContentSound(r)'
      BY <1>2, <3>1, <3>4, <3>5
         DEF Building, ContentSound, InnerSound, OuterSound, Place
    <3> QED
      BY <1>2, <3>1, <3>3, <3>6, <3>7, <3>8 DEF Building, Place
  <2> QED
    BY <1>1, <2>4, <2>6, <2>7
<1>4. CASE ~ \E t \in Thread : Bump(t)
  <2>1. UNCHANGED <<promised, dataVersion>>
    BY <1>4 DEF WriteStep, SaveConfig, Requeue, RemoveOverride, MarkResult, CommitQuietly,
       FinishSync, ClearVisible, ClearRendered
  <2>2. commits <= commits'
    <3>1. commits' = commits \/ commits' = commits + 1
      BY <1>4
         DEF WriteStep, SaveConfig, Requeue, RemoveOverride, MarkResult, CommitQuietly,
             FinishSync, ClearVisible, ClearRendered, CommitChange
    <3> QED
      BY <3>1, Numbers
  <2>3. PromisesGrow'
    <3>1. commits' \in Nat
      BY <1>1, BoundsAssumption DEF TypeOK, Commit
    <3>2. \A v \in 0..dataVersion : promised[v] <= commits'
      BY <2>2, <3>1, Numbers DEF PromisesGrow
    <3> QED
      BY <2>1, <3>2 DEF PromisesGrow
  <2>4. /\ filterCache' = filterCache \/ filterCache' = NotCached
        /\ rendered' = rendered \/ rendered' = [a \in PoolActions |-> NotCached]
    BY <1>4 DEF WriteStep, SaveConfig, Requeue, RemoveOverride, MarkResult, CommitQuietly,
       FinishSync, ClearVisible, ClearRendered
  <2>5. CachesSound'
    BY <2>1, <2>4 DEF CachesSound, Sound, NotCached
  <2>6. \A b \in Builder : Building(b, build[b])'
    BY <1>2, <2>1, OtherBuilders
  <2> QED
    BY <1>1, <2>3, <2>5, <2>6
<1> QED
  BY <1>3, <1>4

\* Nothing changes.
LEMMA StutterKeepsPromises ==
  ASSUME KeysKeepPromises, UNCHANGED vars
  PROVE  KeysKeepPromises'
<1> USE DEF vars, KeysKeepPromises
<1>1. TypeOK'
  BY DEF TypeOK
<1>2. PromisesGrow' /\ CachesSound'
  BY DEF PromisesGrow, CachesSound, Sound
<1>3. \A b \in Builder : Building(b, build[b])'
  BY OtherBuilders
<1> QED
  BY <1>1, <1>2, <1>3

LEMMA NextKeepsPromises ==
  ASSUME KeysKeepPromises, [Next]_vars
  PROVE  KeysKeepPromises'
<1>1. ASSUME NEW b \in Request, NEW action \in PoolActions, BeginRequest(b, action)
      PROVE  KeysKeepPromises'
  BY <1>1, BeginKeepsPromises DEF Builder
<1>2. ASSUME NEW action \in LoopActions, BeginView(action)
      PROVE  KeysKeepPromises'
  BY <1>2, BeginKeepsPromises DEF Builder
<1>3. ASSUME NEW b \in Builder, BuildStep(b)
      PROVE  KeysKeepPromises'
  BY <1>3, BuildKeepsPromises
<1> QED
  BY <1>1, <1>2, <1>3, WriteKeepsPromises, StutterKeepsPromises DEF Next

LEMMA AlwaysKeepsPromises == Spec => []KeysKeepPromises
BY InitKeepsPromises, NextKeepsPromises, PTL DEF Spec

-----------------------------------------------------------------------------
(* The theorems. *)

\* In every reachable state, whatever the number of requests and whatever the
\* bounds, the caches and the lists under construction hold what they are
\* declared to hold: no cached body takes the place of its key.
THEOREM TypeCorrect == Spec => []TypeOK
<1>1. KeysKeepPromises => TypeOK
  BY DEF KeysKeepPromises
<1> QED
  BY <1>1, AlwaysKeepsPromises, PTL

\* For any number of requests, whatever the order in which they, the views, the
\* admin operations and the crawler read, cache and clear: a response reflects
\* every commit that a data_version had announced before its request came in
\* (xtream.py:272-291, catalog.py:68-145, filters.py:87-103).
THEOREM AnnouncedAlwaysServed == Spec => []AnnouncedServed
<1>1. ASSUME KeysKeepPromises PROVE AnnouncedServed
  <2>1. ASSUME NEW b \in Builder, build[b].pc = "done"
        PROVE  build[b].floor.promised <= build[b].content.data
    BY <1>1, <2>1 DEF KeysKeepPromises, Building, ContentSound
  <2> QED
    BY <1>1, <2>1, Numbers DEF AnnouncedServed, At, KeysKeepPromises
<1> QED
  BY <1>1, AlwaysKeepsPromises, PTL

=============================================================================
