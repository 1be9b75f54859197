SPECIFICATION Spec
CONSTANTS
  Games <- MCGames
  SnapDownDistance = 360
  MaxStepHeight = 420
  MaxSweepIterations = 6
  TickMilliseconds = 50
  StandingHeight = 1800
  CrouchedHeight = 1200
  CrouchTransition = 375
  Gravity = 60
  JumpSpeed = 360
  TerminalFallSpeed = 2400
  GroundAdhesion = 120
  CoyoteTime = 100
  JumpBuffer = 120
  HardLandingSpeed = 500
  LandingRecovery = 180
PROPERTIES
  JumpsAreEarned
  NoTunnelling
  PassengersStayAboard
  HardLandingsAreHighFalls
