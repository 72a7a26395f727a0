\* The same three operations reach two servers, each in its own order.
SPECIFICATION Spec
CONSTANTS
  NoOp = NoOp
  NoTime = NoTime
  NoLog = NoLog
  NoConflict = NoConflict
  OffsetMax = 1
  FutureTolerance = 1
  MaxAge = 2
  entry = entry
  Operations = {1, 2, 3}
  Terminals = {t1, t2}
  Groups = {entry}
  Times = {1, 2}
  MaxUses <- MCMaxUses
  Slots = {0}
  MaxBatch = 3
  Contents <- MCContents
SYMMETRY Symmetry
INVARIANTS ConsumptionsConverge LostOrRefusedConverge
CHECK_DEADLOCK FALSE
