\* A playlist, a save, a removed override and a sync beside a request of the pool.
SPECIFICATION Spec
CONSTANTS
  Request = {r1}
  Loop = loop
  PoolAction = {"categories", "streams"}
  LoopAction = {"m3u"}
  Operations = {"save", "remove_override", "sync"}
  MaxSaves = 1
  MaxCommits = 1
  MaxBumps = 1
INVARIANTS
  FiltersServed
