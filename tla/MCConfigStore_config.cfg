\* A page, saves by hand (which can do all another page can), writes cut short,
\* restarts.
SPECIFICATION Spec
CONSTANTS
  Page = {p1}
  Value = {default, edited, several, broken}
  Default = default
  Invalid = {broken}
  Missing = missing
  default = default
  edited = edited
  broken = broken
  several = several
  Says <- EachSays
  First <- FirstWindow
  MaxVersion = 3
  MaxLives = 2
INVARIANTS
  TypeOK
  RestartKeepsConfig
PROPERTIES
  NoSettingsOverwritten
CHECK_DEADLOCK FALSE
