CONSTANTS
  MaxBlocks = 4
  Values = {a, b}
  NoValue = NoValue
  MaxId = 5
SPECIFICATION Spec
INVARIANTS WellLinked AreasAreOwned LoopsAgree
PROPERTIES ImplementsLru
