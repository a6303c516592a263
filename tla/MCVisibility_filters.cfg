\* Every title under every configuration, and every edit of one thing; every short
\* playlist.
SPECIFICATION Spec
CONSTANTS
  Category = {c}
  NoCategory = none
  TitlePattern = {p}
  AudioPattern = {a, b}
  MaxTracks = 2
  Id = {"own", "other"}
  NoId = "none"
  OwnId = "own"
  Url = {"/own", "/movie/own", "/series/own", "/other", "/"}
  KindIn <- EachKind
  IdIn <- EachId
  Others <- SomeSeries
  MaxEntries = 2
INVARIANTS
  TypeOK
  BreakdownExplains
  ShortcutIsSound
  PreviewAgrees
  PlaylistFiltered
PROPERTIES
  NarrowingRevealsNothing
