SPECIFICATION Spec
CONSTANTS
  Source <- MCSource
  Chains <- MCChains
INVARIANTS MergedDeltaDecodes InstructionsTile
