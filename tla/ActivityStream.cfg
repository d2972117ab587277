SPECIFICATION StreamSpec
CONSTANTS
  Positions = {0, 1, 2}
  Threshold = 1
  ActivateFrames = 3
  DeactivateFrames = 4
INVARIANT NeverLate
PROPERTY Hysteresis
