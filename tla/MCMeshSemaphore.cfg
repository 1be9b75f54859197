\* The image semaphore after a suboptimal acquisition.
CONSTANTS
  FramesInFlight = 2
  UploadsPerFrame = 1
  Handles <- FewHandles
  Poses = {rest}
  Rest = rest
  Torn = torn
  MaxResizes = 0
  Assets = {flag}
  DynamicAssets = {flag}
  Indices = {1}
  MaxGeneration = 1
  MaxSubmitFailures = 0
SPECIFICATION GameSpec
PROPERTY AcquireSemaphoreIsFree
CHECK_DEADLOCK FALSE
