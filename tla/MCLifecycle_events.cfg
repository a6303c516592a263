\* Streams, a crawler and an operator, up to the end of the process.
SPECIFICATION Spec
CONSTANTS
  Stream = {s1}
  Status = {"idle", "syncing", "running"}
  Probing = "running"
  Syncing = "syncing"
  QueueMaxsize = 2
  MaxReady = 1
  DrainTimeout = 2
  JoinTimeout = 2
  Grace = 3
INVARIANTS
  TypeOK
  LastWordIsRight
  OnlyLaggardsHoldTheDrain
  OnlyOldIterationsAreCut
CHECK_DEADLOCK FALSE
