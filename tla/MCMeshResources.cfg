\* One dynamic mesh, released and registered again, in two frames in flight.
CONSTANTS
  FramesInFlight = 2
  UploadsPerFrame = 1
  Handles <- FewHandles
  Poses = {rest, up, down}
  Rest = rest
  Torn = torn
  MaxResizes = 2
  Assets = {flag}
  DynamicAssets = {flag}
  Indices = {1}
  MaxGeneration = 2
  MaxSubmitFailures = 1
SPECIFICATION FairGameSpec
INVARIANTS NothingDrawnIsDestroyed StaleSlotsAreDirty
PROPERTIES BusySlotsAreNotWritten PosesReachEverySlot RetiredAreDestroyed
CHECK_DEADLOCK FALSE
