\* Three operations, one at a time or two in a batch, on a group of two uses.
SPECIFICATION Spec
CONSTANTS
  NoOp = NoOp
  NoTime = NoTime
  NoLog = NoLog
  NoConflict = NoConflict
  OffsetMax = 1
  FutureTolerance = 1
  MaxAge = 2
  entry = entry
  food = food
  Operations = {1, 2, 3}
  Terminals = {t1, t2}
  Groups = {entry, food}
  Times = {1, 2}
  MaxUses <- MCMaxUses
  Slots = {0, 1}
  MaxBatch = 2
SYMMETRY Symmetry
INVARIANTS ConsumptionsFollowRanking LosersAreReported AdmittedAreAccountedFor
PROPERTIES LosersStayLosers
CHECK_DEADLOCK FALSE
