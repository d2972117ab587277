SPECIFICATION Spec
CONSTANTS
  Positions = {0, 1}
  Threshold = 0
  ActivateFrames = 1
  DeactivateFrames = 2
  Shots <- SomeShots
  Stamps = {0, 1}
  WindowSize = 3
  Stride = 1
  Words = {"yemek", "ev"}
  Confidences = {1, 2}
  MaxWords = 2
  MaxFrames = 10
PROPERTY StampsIncrease
CHECK_DEADLOCK FALSE
