\* A ring of three slots; sequences 0..7, so that the window slides over
\* every slot more than once.
CONSTANTS
  Capacity = 3
  MaxSequence = 8
  Sequences <- BelowTop
  Values = {v1, v2}
  Vacant = Vacant
  Positions <- AllPositions
  Limits = {0, 3}
SPECIFICATION RingSpec
INVARIANT SamplesFollowTheMotion
PROPERTY ImplementsWindow
