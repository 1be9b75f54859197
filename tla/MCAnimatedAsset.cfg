SPECIFICATION Spec
CONSTANTS
  Nothing = Nothing
  Unnamed = Unnamed
  MaxRuntimeLayers = 2
  Limits <- MCLimits
  Scenes <- MCScenes
  Meshes <- MCMeshes
  Plays <- MCPlays
  LayerRoots <- MCLayerRoots
  FadeTimes = {2}
  RootJoints = {Nothing, 9}
  Steps = {1, 3}
  MaxTravel = 4
INVARIANTS
  PoseIsCurrent
  RootMotionTelescopes
  PoseFollowsTheScene
  LayersCoverTheirSubtrees
PROPERTIES
  SkinningDoesNotDrift
CHECK_DEADLOCK FALSE
