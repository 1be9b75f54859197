\* Three bodies at most, two events a tick, three ticks, four calls.
CONSTANTS
  Names = {"zone", "player", "floor"}
  Bodies = {"zone", "player"}
  KindOf <- Kinds
  Order <- FloorThenPlayer
  Shapes = {"flat", "steep"}
  Vacant = "vacant"
  MaxBodies = 3
  MaxContactEvents = 2
  MaxTick = 3
  MaxWorlds = 2
  MaxCalls = 4
SPECIFICATION Spec
INVARIANTS ListenerIsUpToDate NoTickTwice
PROPERTIES EventsAlternate KinematicsMoveWhenTold
