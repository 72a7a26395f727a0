\* Requests that wait for each other's locks and index entries.
SPECIFICATION FairSpec
CONSTANTS
  NoOp = NoOp
  NoTime = NoTime
  NoLog = NoLog
  NoConflict = NoConflict
  NoTicket = NoTicket
  NoInput = NoInput
  Free = Free
  a = a
  b = b
  u = u
  x = x
  t1 = t1
  t2 = t2
  OffsetMax = 2
  FutureTolerance = 1
  MaxAge = 2
  Event = "this"
  Stations = {"EVENT_ENTRY"}
  Terminals = {t1, t2}
  Slots = {0}
  MaxUses <- MCMaxUses
  LockOrder <- MCLockOrder
  InitialTickets <- MCTickets
  Operations = {1, 2, 3, 4}
  Tickets = {a, b, u, x}
  Requests = {r1, r2, r3}
  Scenarios <- LockScenarios
  MaxNow = 0
  LockTimeouts = TRUE
INVARIANTS LockWaitsAreNotCircular
PROPERTIES EveryRequestIsAnswered
CHECK_DEADLOCK FALSE
