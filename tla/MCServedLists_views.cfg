\* A list of streams and a view of the loop, under every operation.
SPECIFICATION Spec
CONSTANTS
  Request = {r1}
  Loop = loop
  PoolAction = {"streams"}
  LoopAction = {"admin"}
  Operations = {"save", "requeue", "remove_override", "sync", "result"}
  MaxSaves = 1
  MaxCommits = 2
  MaxBumps = 2
INVARIANTS
  TypeOK
  AnnouncedServed
PROPERTIES
  ImplementsReads
