SPECIFICATION Spec
CONSTANTS
  FramesInFlight = 2
  MaxRefusals = 1
  Sources = {"icon"}
  White = "white"
  Contents = {"wood", "metal"}
  Skies = {"day", "night"}
  NoSky = "none"
  BrdfTable = "lobes"
  Defaults = {"blank"}
  ImageBudget = 4
  Meshes = {"soldier", "crate"}
  Dynamic = {"soldier"}
  Maps <- MCMaps
  SwapImages = 1
  Games <- MCGames
INVARIANTS
  NothingBusyIsTouched
  NothingGoneIsUsed
  NothingIsLost
  ImagesAreAccounted
  ReflectionsAreOfTheFrame
  FeaturesComeBack
