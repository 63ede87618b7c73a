SPECIFICATION Spec
CONSTANTS
  ALPHABET_SIZE = 6
  DJW_MAX_CODELEN = 3
  djw_encode_12basic <- MCBasic
  djw_encode_12extra <- MCExtra
  DJW_EXTRA_CODE_BITS = 2
  DJW_CLCLEN_BITS = 2
  DJW_GBCLEN_BITS = 2
  DJW_MAX_GROUPS = 3
  DJW_GROUP_BITS = 2
  DJW_SECTORSZ_MULT = 2
  DJW_SECTORSZ_BITS = 2
  DJW_MAX_ITER = 3
  DJW_MIN_IMPROVEMENT = 2
  EFFICIENCY_BITS = 16
  FgkSize = 3
  SECONDARY_MIN_INPUT = 4
  SECONDARY_MIN_SAVINGS = 2
  DjwJobs <- ZerosJobs
  FgkJobs <- MCFgkJobs
  MaxSections <- MCMaxSections
INVARIANT LengthsArrive
