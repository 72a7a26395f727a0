\* Two online scans of one ticket.
SPECIFICATION Spec
CONSTANTS
  NoOp = NoOp
  NoTime = NoTime
  NoLog = NoLog
  NoConflict = NoConflict
  NoTicket = NoTicket
  NoInput = NoInput
  Free = Free
  a = a
  b = b
  u = u
  x = x
  t1 = t1
  t2 = t2
  OffsetMax = 2
  FutureTolerance = 1
  MaxAge = 2
  Event = "this"
  Stations = {"EVENT_ENTRY"}
  Terminals = {t1, t2}
  Slots = {0}
  MaxUses <- MCMaxUses
  LockOrder <- MCLockOrder
  InitialTickets <- MCTickets
  Operations = {1, 2}
  Tickets = {a}
  Requests = {r1, r2}
  Scenarios <- OnlineScenarios
  MaxNow = 1
  LockTimeouts = FALSE
INVARIANTS OnlineAdmitsAtMostMaxUses
CHECK_DEADLOCK FALSE
