SPECIFICATION Spec
CONSTANTS
  MIN_EXECJS_COUNT = 4
  MAX_EXECJS_COUNT = 40
INVARIANTS TypeOK GCBudget SilentWarmUp
PROPERTIES SampledAsCommented SpacedInEpoch
