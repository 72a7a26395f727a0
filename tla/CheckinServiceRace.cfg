\* Three requests fight for one ticket, with timeouts and crashes; two while organizers
\* void, mint and switch a station off.
SPECIFICATION Spec
CONSTANTS
  NoOp = NoOp
  NoTime = NoTime
  NoLog = NoLog
  NoConflict = NoConflict
  NoTicket = NoTicket
  NoInput = NoInput
  Free = Free
  a = a
  b = b
  u = u
  x = x
  t1 = t1
  t2 = t2
  OffsetMax = 2
  FutureTolerance = 1
  MaxAge = 2
  Event = "this"
  Stations = {"EVENT_ENTRY"}
  Terminals = {t1, t2}
  Slots = {0}
  MaxUses <- MCMaxUses
  LockOrder <- MCLockOrder
  InitialTickets <- MCTickets
  Operations = {1, 2, 3, 4}
  Tickets = {a, u, x}
  Requests = {r1, r2, r3}
  Scenarios <- RaceScenarios
  MaxNow = 1
  LockTimeouts = TRUE
SYMMETRY Symmetry
INVARIANTS ServiceIsSound ClaimsAreAnsweredOnce
PROPERTIES ImplementsLedger
CHECK_DEADLOCK FALSE
