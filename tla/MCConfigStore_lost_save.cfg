\* Two pages and one process that is never started again.
SPECIFICATION Spec
CONSTANTS
  Page = {p1, p2}
  Value = {default, edited, broken, several}
  Default = default
  Invalid = {broken}
  Missing = missing
  default = default
  edited = edited
  broken = broken
  several = several
  Says <- EachSays
  First <- FirstWindow
  MaxVersion = 3
  MaxLives = 1
PROPERTIES
  NoSaveOverwritten
CHECK_DEADLOCK FALSE
