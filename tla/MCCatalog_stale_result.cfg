\* An operator-started sync while the crawler is waiting for an answer.
SPECIFICATION Spec
CONSTANTS
  Live = {}
  Vod = {v}
  Series = {}
  Category = {}
  NoCategory = none
  NoTitle = idle
  MaxVersion = 1
  MaxRetries = 2
  ProviderChanges = {"rename"}
  AdminOps = {"sync_now"}
  FfprobeModes = {FALSE}
  Faults = {}
  KindOrder <- VodOnly
INVARIANTS
  FreshResults
