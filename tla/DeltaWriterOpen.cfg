CONSTANTS
  WinSize = 2
  Contents = {3}
  Pages = {2}
  Sources = {}
  NoSource = NoSource
  None = None
  MaxBytes = 6
  MaxPages = 4
  MaxFailures = 0
SPECIFICATION Spec
INVARIANT CommittedAtClose
CHECK_DEADLOCK FALSE
