\* Two submissions over two mounts of a page; the network fails at any call.
SPECIFICATION Spec
CONSTANTS
  NoTier = NoTier
  NoOrder = NoOrder
  NoCache = NoCache
  NoError = NoError
  Emails = {ann}
  Links <- MCLinks
  Methods = {"token", "redirect"}
  ServerErrors <- MCServerErrors
  Checkouts = {1, 2}
  MaxVisits = 2
  MaxEdits = 1
  MaxAttempts = 2
INVARIANTS PaidIsTrue DialogsAreTrue
PROPERTIES ClearedDraftsWereOrdered SubmissionsEnd
CHECK_DEADLOCK FALSE
