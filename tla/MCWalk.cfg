\* Dials of 2 to 6 by steps of one or two, and every duration a few frames long.
SPECIFICATION WalkFairSpec
CONSTANTS
  CEILING = 6
  QUALITY_FLOOR = 2
  STEP_DOWN = 2
  STEP_UP = 1
  STEP_UP_MAX = 2
  SLOW_MAX = 1
  BEHIND_FRAMES = 2
  VERDICT_WINDOW = 2
  CLEAR_FRAMES = 2
  REFUSAL_COOLDOWN = 1
  HEAVY_COOLDOWN = 2
  CLIMB_SPAN = 2
  ADJUST_COOLDOWN = 3
  CLEAR_SPAN = 3
  KEYFRAME_HOLD = 4
  REFUSAL_WINDOW = 4
  REFUSAL_HOLD = 6
  Lags <- FourLags
  Blocks <- TwoBlocks
INVARIANT RefusedIsOutOfReach
PROPERTY WalkArrives
