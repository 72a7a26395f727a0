----------------------------- MODULE Administration -----------------------------
(***************************************************************************)
(* The administration: the catalogue, the team, the lists of the event,    *)
(* the dashboard, and what is downloaded and sent, one of which is in      *)
(* front.  They share the session (AdminSession) and nothing else, so that *)
(* a behaviour is one of the part that is open.                            *)
(*                                                                         *)
(* Everything a person, the network or another client does spends the      *)
(* budget of the part; answers and timers do not.                          *)
(***************************************************************************)
EXTENDS AdminCatalog, AdminTeam, AdminLists

CONSTANTS
  Budgets,                                  \* bound: what is done on each part, and when it is opened for the first time
  Quota, CreatedAt, Now, DayLength, DashboardSales, DashboardStatuses, RecentLimit, PerPage,
  Loads, Toasts, NoLoad, NoKpis,            \* of AdminDashboard
  ExportSales, ExportLimit, NoFile          \* of AdminExports

VARIABLES
  budget,
  dashboardSale, eventKnown, loads, kpis, salesData, distribution, orders, loading, due, told,
  recent, toasts, exporting,                  \* of AdminDashboard
  exportSale, session, queued, exportScreen, exportingPdf, resending, exportCalls, clicks, last
                                            \* of AdminExports

Dashboard == INSTANCE AdminDashboard WITH
  Sales <- DashboardSales, Statuses <- DashboardStatuses, Budget <- Budgets.dashboard, sale <- dashboardSale
Exports == INSTANCE AdminExports WITH
  Sales <- ExportSales, Budget <- Budgets.exports,
  sale <- exportSale, screen <- exportScreen, calls <- exportCalls

ASSUME AdministrationAssumption ==
  /\ \A part \in DOMAIN Budgets : Budgets[part] \in Nat
  /\ Dashboard!DashboardAssumption /\ Exports!ExportsAssumption

listedVars == <<catalogVars, teamVars, listVars>>
dashboardVars ==
  <<dashboardSale, eventKnown, loads, kpis, salesData, distribution, orders, told, loading, due,
    recent, toasts, exporting>>
exportVars ==
  <<exportSale, session, queued, exportScreen, exportingPdf, resending, exportCalls, clicks, last>>
adminVars == <<listedVars, dashboardVars, exportVars, budget>>

Part ==
  CASE page \in {"passes", "settings"} -> "catalog" [] page = "team" -> "team"
    [] page = "lists" -> "lists" [] page = "dashboard" -> "dashboard" [] OTHER -> "exports"

Init ==
  /\ page \in {"passes", "settings", "team", "lists", "dashboard", "exports"}
  /\ CASE Part = "catalog" -> \/ ColdStart /\ budget = Budgets.first
                              \/ WarmStart /\ budget = Budgets.catalog
       [] OTHER -> CatalogClosed /\ budget = Budgets[Part]
  /\ Part # "team" => members = CHOOSE team0 \in Teams : TRUE
  /\ Part # "team" => accounts = People
  /\ TeamInit
  /\ IF Part = "lists" THEN ListsInit ELSE ListsClosed
  /\ IF Part = "dashboard" THEN Dashboard!Init ELSE Dashboard!Closed
  /\ IF Part = "exports" THEN Exports!Init ELSE Exports!Closed

Spend == budget > 0 /\ budget' = budget - 1

Answers ==
  /\ UNCHANGED <<page, budget, dashboardVars, exportVars>>
  /\ CASE Part = "catalog" -> CatalogAnswers /\ UNCHANGED <<teamVars, listVars>>
       [] Part = "team" -> TeamAnswers /\ UNCHANGED <<catalogVars, listVars>>
       [] Part = "lists" -> ListAnswers /\ UNCHANGED <<catalogVars, teamVars>>
       [] OTHER -> FALSE

Initiatives ==
  /\ Spend /\ UNCHANGED <<page, dashboardVars, exportVars>>
  /\ CASE Part = "catalog" -> CatalogInitiatives /\ UNCHANGED <<teamVars, listVars>>
       [] Part = "team" -> TeamInitiatives /\ UNCHANGED <<catalogVars, listVars>>
       [] Part = "lists" -> ListInitiatives /\ UNCHANGED <<catalogVars, teamVars>>
       [] OTHER -> FALSE

Next ==
  \/ Answers
  \/ Initiatives
  \/ Part = "dashboard" /\ Dashboard!Next /\ UNCHANGED <<listedVars, exportVars>>
  \/ Part = "exports" /\ Exports!Next /\ UNCHANGED <<listedVars, dashboardVars>>

Spec == Init /\ [][Next]_adminVars /\ ListFairness /\ Dashboard!Fairness

-----------------------------------------------------------------------------
(* Properties of the parts that are instances. *)

\* See AdminDashboard: figures and bars whichever loads fail, overlap or end late.
DashboardIsSound == Dashboard!DashboardIsSound

\* See AdminDashboard, three statements the code does not keep.
CardsAwaitFigures == page = "dashboard" => Dashboard!CardsAwaitFigures
RecentCardAwaitsOrders == page = "dashboard" => Dashboard!RecentCardAwaitsOrders
DonutAwaitsFigures == page = "dashboard" => Dashboard!DonutAwaitsFigures

\* See AdminDashboard: the dashboard has figures in the end, after any number of failures.
DashboardRecovers == Dashboard!DashboardRecovers

\* See AdminExports: files, toasts and e-mails, with calls that outlive their page.
ExportsAreSound == Exports!ExportsAreSound

\* See AdminExports, a statement the code does not keep.
ParticipantsExportsAreTold == Exports!ParticipantsExportsAreTold
=============================================================================
