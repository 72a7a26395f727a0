\* A webhook is delivered again after a failure.
SPECIFICATION Spec
CONSTANTS
  NoEmail = NoEmail
  NoOrder = NoOrder
  NoInput = NoInput
  standard = standard
  vip = vip
  student = student
  mug = mug
  ann = ann
  bob = bob
  OrderIds = {1}
  Emails = {ann, bob}
  Types = {standard, vip, student, mug}
  FreeTypes = {student}
  Goodies = {mug}
  VipTypes = {vip}
  StudentTypes = {student}
  MaxQuantity = 2
  MaxPerOrder <- MCMaxPerOrder
  InitialTotals <- MCTotals
  Requests = {r1, r2, r3}
  Inputs <- WebhookInputs
  MintFailures = TRUE
  MaxRestarts = 0
INVARIANTS AcknowledgedPaymentsAreSettled
CHECK_DEADLOCK FALSE
