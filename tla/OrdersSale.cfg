\* Two orders, their payments and an edit, with failures and a restart.
SPECIFICATION Spec
CONSTANTS
  NoEmail = NoEmail
  NoOrder = NoOrder
  NoInput = NoInput
  standard = standard
  vip = vip
  student = student
  mug = mug
  ann = ann
  bob = bob
  OrderIds = {1, 2}
  Emails = {ann, bob}
  Types = {standard, vip, student, mug}
  FreeTypes = {student}
  Goodies = {mug}
  VipTypes = {vip}
  StudentTypes = {student}
  MaxQuantity = 2
  MaxPerOrder <- MCMaxPerOrder
  InitialTotals <- MCTotals
  Requests = {r1, r2, r3}
  Inputs <- SaleInputs
  MintFailures = TRUE
  MaxRestarts = 1
SYMMETRY Symmetry
INVARIANTS StockIsHeld HandlersAreSound PaidOrdersAreServedOnce GatewayConfirmationsAreTrue
PROPERTIES BookSpec SalesStayWithinTotals
CHECK_DEADLOCK FALSE
