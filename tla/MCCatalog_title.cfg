\* One title and everything that can happen to it while only the crawler syncs.
SPECIFICATION Spec
CONSTANTS
  Live = {}
  Vod = {v}
  Series = {}
  Category = {c}
  NoCategory = none
  NoTitle = idle
  MaxVersion = 1
  MaxRetries = 2
  ProviderChanges = {"list", "rename", "move"}
  AdminOps = {"reset", "retry", "reprobe", "reprobe_matching", "category", "override"}
  FfprobeModes = {TRUE, FALSE}
  Faults = {"abort", "crash"}
  KindOrder <- VodOnly
INVARIANTS
  TypeOK
  OkTracksCarryLanguage
  ErrorParkedIffExhausted
  FreshResults
  EveryTitleHasProbeRow
PROPERTIES
  OkGivenUpOnlyByRequeue
  ImplementsResults
