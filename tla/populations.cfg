SPECIFICATION MCPopulationsSpec
CONSTANTS
  ward = ward
  cell = cell
  choir = choir
  Groups = {ward, cell, choir}
  overtaker = overtaker
  MoveCalls = {m1, overtaker}
  NoParent = NoParent
  Counts = {1}
  Dates = {1, 2}
  WithdrawCalls = {w1}
  ReadCalls = {r1}
  StartTrees <- Shapes
  MaxFigures = 2
INVARIANTS PopulationsTypeOK LatestSumsReached
PROPERTIES CycleOnlyByAnOvertakenMove ReadsEnd
CHECK_DEADLOCK FALSE
