CONSTANTS
  NearModes = 2
  SameModes = 2
  Buckets = 2
  Small = 2
  SourceLens = {3}
  Sizes = {1, 2}
  MaxPos = 8
  MaxLag = 3
SPECIFICATION Spec
INVARIANTS TypeOK AddressesSurvive InStep NoShorterForm
