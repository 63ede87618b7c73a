CONSTANTS
  WinSize = 3
  Contents = {0, 2, 4}
  Pages = {1, 2}
  Sources = {s1}
  NoSource = NoSource
  None = None
  MaxBytes = 8
  MaxPages = 4
  MaxFailures = 1
SPECIFICATION Spec
INVARIANTS BufferFits ConservesContent WindowsAreFull TornOnlyAtTheEnd FlushCommits NoDanglingInput
PROPERTY CallsReturn
CHECK_DEADLOCK FALSE
