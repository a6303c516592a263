\* One title that moves between categories while the filters change; nothing is
\* ever dropped.
SPECIFICATION FairSpec
CONSTANTS
  Live = {}
  Vod = {v}
  Series = {}
  Category = {c}
  NoCategory = none
  NoTitle = idle
  MaxVersion = 0
  MaxRetries = 1
  ProviderChanges = {"move"}
  AdminOps = {"category", "override", "sync_now", "reprobe"}
  FfprobeModes = {TRUE}
  Faults = {"abort", "crash"}
  KindOrder <- VodOnly
INVARIANTS
  NoFalseRemoval
  OverriddenNeverSkipped
PROPERTIES
  FiltersConverge
