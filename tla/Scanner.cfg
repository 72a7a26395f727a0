\* Two tabs of one device, three rows, overlapping uploads, changes on the server.
SPECIFICATION Spec
CONSTANTS
  NoTicket = NoTicket
  NoBundle = NoBundle
  BrokenKey = BrokenKey
  Elsewhere = Elsewhere
  Nobody = Nobody
  here = here
  there = there
  k1 = k1
  k2 = k2
  key = key
  forger = forger
  Events = {here, there}
  Doors = {here}
  Tickets = {k1, k2}
  EventOf <- MCEventOf
  Ids = {1, 2, 3, 4}
  Tabs = {tab1, tab2}
  Presented <- Tokens
  Keys <- MCKeys
  LegacyQueues <- Queues
  Flags = {TRUE}
  MaxTime = 2
  MaxBatches = 2
  MaxFacts = 1
SYMMETRY Symmetry
CONSTRAINT Scenario
INVARIANTS UploadsFollowRecording FirstScanWins SyncedScansReachedTheServer AdmissionsPerTab AdmissionsAreAsFreshAsTheirBundle
CHECK_DEADLOCK FALSE
