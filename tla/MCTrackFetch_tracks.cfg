\* The fetch of one title ends, so that the last state has no step.
CHECK_DEADLOCK FALSE
SPECIFICATION Spec
CONSTANTS
    Word = {"german", "por", "stereo"}
    Label = {"stereo"}
    NoWord = "-"
    Entries <- MCEntries
    MaxEpisodes = 2
    MaxConnections = 2
INVARIANTS
    TypeOK
    OutcomesKnown
    IncludedNeverMissed
PROPERTY
    SlotCheckExact
