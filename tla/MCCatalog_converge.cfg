\* A vod and a series title: the catalogue catches up and the queue drains.
SPECIFICATION FairSpec
CONSTANTS
  Live = {}
  Vod = {v}
  Series = {s}
  Category = {}
  NoCategory = none
  NoTitle = idle
  MaxVersion = 0
  MaxRetries = 0
  ProviderChanges = {"list"}
  AdminOps = {}
  FfprobeModes = {TRUE}
  Faults = {"abort"}
  KindOrder <- ProbedKindOrder
PROPERTIES
  CatalogueConverges
  QueueDrains
