\* Each part of the administration, within its budget.
SPECIFICATION Spec
CONSTANTS
  p1 = p1
  p2 = p2
  p3 = p3
  Passes = {p1, p2, p3}
  NoPass = NoPass
  NoCall = NoCall
  OfficialPrice <- MCOfficialPrice
  Catalogues <- MCCatalogues
  Changes <- MCChanges
  MaxSold = 2
  Calls = {1, 2}
  ann = ann
  bob = bob
  cid = cid
  i1 = i1
  i2 = i2
  People = {ann, bob, cid}
  Teams <- MCTeams
  Invitees = {cid}
  Invites = {i1, i2}
  Invitations <- MCInvitations
  TeamCalls = {1, 2}
  NoTeamCall = NoTeamCall
  Orders = {1, 2}
  Found <- MCFound
  PassTier <- MCPassTier
  Sales <- MCSales
  Limit = 1
  Reads = {1, 2}
  NoRead = NoRead
  Budgets <- MCBudgets
  Quota <- MCQuota
  CreatedAt <- MCCreatedAt
  Now = 20
  DayLength = 2
  DashboardSales <- MCDashboardSales
  DashboardStatuses = {"all"}
  RecentLimit = 1
  PerPage = 1
  Loads = {1, 2}
  Toasts = {1, 2}
  NoLoad = NoLoad
  NoKpis = NoKpis
  ExportSales <- MCExportSales
  ExportLimit = 100
  NoFile = NoFile
INVARIANTS CatalogIsSound TeamIsSound OrganisationKeepsAnOwner ListsAreSound DashboardIsSound ExportsAreSound
PROPERTIES AdmissionsCatchUp DashboardRecovers
CHECK_DEADLOCK FALSE
