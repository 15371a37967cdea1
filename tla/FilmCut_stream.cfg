SPECIFICATION CutSpec
CONSTANTS
  Cutter = {"console"}
  Frames <- TwoThenOne
  MaxCuts = 2
  MaxEdits = 1
  MaxFaults = 0
INVARIANT StreamedIsTheCut
CHECK_DEADLOCK FALSE
