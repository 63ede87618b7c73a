CONSTANTS
  MinWasteage = 1
  MaxWasteage = 3
  MaxLen = 4
  MaxStored = 12
SPECIFICATION BufferSpec
INVARIANTS TypeOK HoldsTheRest
PROPERTIES ImplementsFifo
