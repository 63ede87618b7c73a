CONSTANTS
  WinSize = 2
  Headers = {3}
  Sizes = {0, 2}
  Contents = {3}
  MaxWindows = 2
  Wants = {All, 0, 2}
  All = All
  MaxReads = 3
  MaxFailures = 1
SPECIFICATION Spec
INVARIANTS InOrder FewerOnlyAtTheEnd NoDanglingSection SectionsAreRight
PROPERTY ReadsReturn
CHECK_DEADLOCK FALSE
