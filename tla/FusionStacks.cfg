SPECIFICATION Spec
CONSTANTS
  Levels = {1500, 1600, 2900, 3000, 4000, 5500, 7000, 10000}
  MinConf = 3000
  MinLip = 7000
  MinTsl = 5500
  MinGloss = 4000
  AsrWeight = 65
  LipWeight = 35
  Penalty = 1500
  MinSnr = 5
  Snrs = {4, 5}
  None = None
  MaxSegs = 3
INVARIANT
  NeverStacks
CHECK_DEADLOCK FALSE
