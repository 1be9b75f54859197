\* A history of three frames, five ticks, two disturbances, three states.
CONSTANTS
  Capacity = 3
  Ticks = {1, 2, 3, 4, 5}
  Commands = {0, 1}
  States = {0, 1, 2}
  CorrectionThreshold = 0
  HardCorrectionThreshold = 1
  MaxTick = 5
  MaxDisturbances = 2
SPECIFICATION FairWorldSpec
INVARIANTS ShowsConfirmedPlusPending HistoryIsPending
PROPERTY EventuallyAgrees
CHECK_DEADLOCK FALSE
