----------------------------- MODULE AdminDashboard -----------------------------
(***************************************************************************)
(* DashboardPage of the administration with dashboard.service, its table   *)
(* of recent orders, and the toasts of ToastContext.                       *)
(*                                                                         *)
(* The effect that loads the dashboard depends on the function `error` of  *)
(* useToast.  ToastProvider makes that function anew whenever it renders,  *)
(* that is whenever a toast comes or goes: every toast loads the dashboard *)
(* again, those of a failed load included.  One request is one read of the *)
(* server at its own time.                                                 *)
(***************************************************************************)
EXTENDS Integers, SequencesExt

CONSTANTS
  Orders,           \* ids of orders, a later order with a greater id
  PassTier,         \* the tier of the pass of each order
  Quota,            \* quantity_total of the pass of each tier
  CreatedAt, Now,   \* times; the browser's clock does not move while the page is open
  DayLength,
  Sales,            \* the orders to start from
  Statuses,         \* choices of the status filter
  RecentLimit,      \* how many recent orders are asked for (10)
  PerPage,          \* rows on a page of them (5)
  Loads, Toasts,    \* bounds: loads under way, toasts whose timer runs
  Budget,           \* bound: what persons and the network do
  NoLoad, NoKpis

Tables == [Orders -> {"none", "pending", "paid", "entered", "failed"}]
Requested == {"stats", "orders", "sales", "types", "recent"}

\* A run of loadDashboard: what its requests have read, and which were lost.
LoadOver(tables) ==
  [step : {"kpis", "charts"}, got : UNION {[S -> tables] : S \in SUBSET Requested},
   lost : SUBSET Requested]

SoldTiers == DOMAIN Quota
TicketsTotal == FoldSet(LAMBDA tier, sum : sum + Quota[tier], 0, SoldTiers)
Kpis ==
  [tickets_sold : Nat, tickets_total : {TicketsTotal}, nexus_night_count : Nat,
   scans_total : Nat, pending_orders_count : Nat]

DashboardAssumption ==
  /\ Orders \subseteq Nat /\ Loads \subseteq Nat /\ Toasts \subseteq Nat /\ Budget \in Nat
  /\ \E first \in Loads : \A l \in Loads : first <= l
  /\ IsFiniteSet(Orders) /\ Sales \subseteq Tables
  /\ PerPage \in Nat \ {0} /\ RecentLimit <= 2 * PerPage
  /\ DayLength \in Nat \ {0} /\ Now \in Nat /\ CreatedAt \in [Orders -> Nat]
  /\ NoLoad \notin LoadOver(Tables) /\ NoKpis \notin Kpis

VARIABLES
  sale,             \* the server: the status of each order; "entered" is paid and admitted
  eventKnown,       \* eventId of EventContext is there
  loads,            \* runs of loadDashboard under way
  kpis, salesData, distribution, orders, loading,                    \* DashboardPage
  due,              \* the page is rendered after a failed load, its effect has not run yet
  told,             \* history: the last end of a request for recent orders
  recent,           \* RecentOrdersTable: statusFilter, currentPage 
  toasts,           \* ToastContext: a toast, or "closed" by hand while its timer runs
  exporting,
  budget

shown == <<kpis, salesData, distribution, orders, told>>
waiting == <<loading, due>>
vars == <<sale, eventKnown, loads, shown, waiting, recent, toasts, exporting, budget>>

-----------------------------------------------------------------------------
(* dashboard.service, on what its requests read. *)

IsPaid(table, o) == table[o] \in {"paid", "entered"}
Sold(table, tiers) == Cardinality({o \in Orders : IsPaid(table, o) /\ PassTier[o] \in tiers})

\* Sold, revenue and admissions are of stats, what is pending of another request.
GetKPIs(got) ==
  [tickets_sold |-> Sold(got.stats, SoldTiers),
   tickets_total |-> TicketsTotal,
   nexus_night_count |-> Sold(got.stats, {"vip"}),
   scans_total |-> Cardinality({o \in Orders : got.stats[o] = "entered"}),
   pending_orders_count |-> Cardinality({o \in Orders : got.orders[o] = "pending"})]

\* The last seven days by the calendar of the browser; an order is first put aside by its age.
Day(time) == time \div DayLength
Age(o) == (Now - CreatedAt[o]) \div DayLength
ChartByAge(table) ==                                       \* mutated form: no calendar
  [i \in 0..6 |-> Cardinality({o \in Orders : IsPaid(table, o) /\ Age(o) = i})]
GetSalesChart(table) ==
  [i \in 0..6 |-> Cardinality({o \in Orders :
     IsPaid(table, o) /\ Age(o) \in 0..6 /\ Day(CreatedAt[o]) = Day(Now) - i})]

\* quantity_sold counts what pending orders hold.
GetTicketDistribution(table) ==
  [tier \in SoldTiers |-> Cardinality({o \in Orders : PassTier[o] = tier /\ table[o] \in {"pending", "paid", "entered"}})]

\* The newest orders, as a set: their order on the page is left out.
RecentOrders(table) ==
  LET there == {o \in Orders : table[o] # "none"}
  IN {[id |-> o, status |-> IF IsPaid(table, o) THEN "paid" ELSE table[o]] :
        o \in {p \in there : Cardinality({newer \in there : newer > p}) < RecentLimit}}

-----------------------------------------------------------------------------
(* loadDashboard. *)

\* Bound: the requests of a step reach the server in the order in which they are sent.
\* Left out: the ticket types of getKPIs, which give each row of the stats its tier, and the
\* stats of getAdmissionStats.
Sources(step) ==
  IF step = "kpis" THEN <<"stats", "orders">> ELSE <<"sales", "types", "recent">>
NothingGot == [s \in {} |-> sale]
NewLoad == [step |-> "kpis", got |-> NothingGot, lost |-> {}]
UnderWay(l) == loads[l] # NoLoad
IsFree(l) == ~UnderWay(l) /\ \A m \in Loads : m < l => UnderWay(m)
Open(l) ==
  {i \in DOMAIN Sources(loads[l].step) :
     Sources(loads[l].step)[i] \notin DOMAIN loads[l].got \cup loads[l].lost}
Earliest(l) == {Sources(loads[l].step)[i] : i \in {j \in Open(l) : \A k \in Open(l) : j <= k}}

\* One request of a load reaches the server, or is lost.
ReadSource(l) ==
  /\ UnderWay(l)
  /\ \E source \in Earliest(l) :
       loads' = [loads EXCEPT ![l].got =
         [s \in DOMAIN @ \cup {source} |-> IF s = source THEN sale ELSE @[s]]]
  /\ UNCHANGED <<sale, eventKnown, shown, waiting, recent, toasts, exporting>>

LoseSource(l) ==
  /\ UnderWay(l)
  /\ \E source \in Earliest(l) : loads' = [loads EXCEPT ![l].lost = @ \cup {source}]
  /\ UNCHANGED <<sale, eventKnown, shown, waiting, recent, toasts, exporting>>

\* The effect: after eventId, or the function `error`, changed.
EffectOfEvent(l) ==                                        \* mutated form: eventId only
  IF eventKnown' # eventKnown THEN loads' = [loads EXCEPT ![l] = NewLoad] /\ loading' = TRUE
  ELSE UNCHANGED <<loads, loading>>
Effect(l) ==
  IF eventKnown' THEN loads' = [loads EXCEPT ![l] = NewLoad] /\ loading' = TRUE
  ELSE UNCHANGED <<loads, loading>>
\* The provider renders, and with it whoever uses a function of it: what a render has left to
\* do is done before the next one.
Renders(l) == ~due /\ IsFree(l) /\ UNCHANGED <<eventKnown, due>> /\ Effect(l)

EventResolves(l) ==
  /\ ~eventKnown /\ eventKnown' = TRUE
  /\ IsFree(l) /\ Effect(l)
  /\ UNCHANGED <<sale, shown, due, recent, toasts, exporting>>

KpisReturn(l) ==
  /\ UnderWay(l) /\ loads[l].step = "kpis" /\ Open(l) = {} /\ loads[l].lost = {}
  /\ kpis' = GetKPIs(loads[l].got)
  /\ loads' = [loads EXCEPT ![l] = [NewLoad EXCEPT !.step = "charts"]]
  /\ UNCHANGED <<sale, eventKnown, salesData, distribution, orders, told, waiting, recent, toasts, exporting>>

\* Promise.all refuses with the first request that is lost.  The toast and the end of the wait
\* are one render; its effect comes after it, and starts all over again.
Rejected(l) == UnderWay(l) /\ loads[l].step = "kpis" /\ loads[l].lost # {}
FreeToast(t) == toasts[t] = "free" /\ \A u \in Toasts : u < t => toasts[u] # "free"
KpisFail(l, t) ==
  /\ ~due /\ Rejected(l) /\ FreeToast(t)
  /\ toasts' = [toasts EXCEPT ![t] = "error"]
  /\ loads' = [loads EXCEPT ![l] = NoLoad] /\ loading' = FALSE /\ due' = TRUE
  /\ UNCHANGED <<sale, eventKnown, shown, recent, exporting>>

RunEffect(l) ==
  /\ due /\ due' = FALSE
  /\ IsFree(l) /\ UNCHANGED eventKnown /\ Effect(l)
  /\ UNCHANGED <<sale, shown, recent, toasts, exporting>>

\* allSettled: what is lost leaves what the page has.
Settled(l) == UnderWay(l) /\ loads[l].step = "charts" /\ Open(l) = {}
ShowCharts(l) ==
  LET got == loads[l].got
  IN /\ salesData' = IF "sales" \in DOMAIN got THEN GetSalesChart(got.sales) ELSE salesData
     /\ distribution' = IF "types" \in DOMAIN got THEN GetTicketDistribution(got.types) ELSE distribution
     /\ orders' = IF "recent" \in DOMAIN got THEN RecentOrders(got.recent) ELSE orders
     /\ told' = IF "recent" \in DOMAIN got THEN "read" ELSE IF told = "read" THEN "read" ELSE "lost"
ChartsReturn(l) ==
  /\ Settled(l) /\ ShowCharts(l)
  /\ loads' = [loads EXCEPT ![l] = NoLoad] /\ loading' = FALSE
  /\ UNCHANGED <<sale, eventKnown, kpis, due, recent, toasts, exporting>>

-----------------------------------------------------------------------------
(* Toasts. *)

Export ==
  /\ eventKnown /\ ~exporting /\ exporting' = TRUE
  /\ UNCHANGED <<sale, eventKnown, loads, shown, waiting, recent, toasts>>

ExportReturns(t, l, kind) ==
  /\ exporting /\ exporting' = FALSE
  /\ FreeToast(t) /\ toasts' = [toasts EXCEPT ![t] = kind]
  /\ Renders(l)
  /\ UNCHANGED <<sale, shown, recent>>

CloseToast(t, l) ==
  /\ toasts[t] \in {"success", "error"} /\ toasts' = [toasts EXCEPT ![t] = "closed"]
  /\ Renders(l)
  /\ UNCHANGED <<sale, shown, recent, exporting>>

\* After 4.5 s.  The list is filtered, and made anew, even when the toast is gone from it.
ToastTimeout(t, l) ==
  /\ toasts[t] # "free" /\ toasts' = [toasts EXCEPT ![t] = "free"]
  /\ Renders(l)
  /\ UNCHANGED <<sale, shown, recent, exporting>>

-----------------------------------------------------------------------------
(* RecentOrdersTable, which stays mounted while the dashboard loads. *)

Filtered(rows, filter) == {row \in rows : filter.status \in {"all", row.status}}
TotalPages(rows) == IF rows = {} THEN 1 ELSE (Cardinality(rows) + PerPage - 1) \div PerPage

\* The search field filters like the status.
FilterRecent ==
  /\ \E status \in Statuses \ {recent.status} : recent' = [status |-> status, page |-> 1]
  /\ UNCHANGED <<sale, eventKnown, loads, shown, waiting, toasts, exporting>>

\* The numbers of the pages, the arrows at their ends.
TurnRecent ==
  LET total == TotalPages(Filtered(orders, recent))
  IN /\ \/ recent.page # 1 /\ recent' = [recent EXCEPT !.page = @ - 1]
        \/ \E page \in 1..total : recent' = [recent EXCEPT !.page = page]
        \/ /\ recent.page # total
           /\ recent' = [recent EXCEPT !.page = IF total < @ + 1 THEN total ELSE @ + 1]
     /\ UNCHANGED <<sale, eventKnown, loads, shown, waiting, toasts, exporting>>

-----------------------------------------------------------------------------
(* The server meanwhile, and the specification. *)

Trade(o) ==
  /\ \E change \in {<<"none", "pending">>, <<"pending", "paid">>, <<"pending", "failed">>, <<"paid", "entered">>} :
       sale[o] = change[1] /\ sale' = [sale EXCEPT ![o] = change[2]]
  /\ UNCHANGED <<eventKnown, loads, shown, waiting, recent, toasts, exporting>>

\* The page is the first and waits for the event, or follows another with a toast of it.
Init ==
  /\ sale \in Sales
  /\ eventKnown \in BOOLEAN
  /\ loads = [l \in Loads |-> IF eventKnown /\ \A m \in Loads : l <= m THEN NewLoad ELSE NoLoad]
  /\ kpis = NoKpis /\ salesData = <<>> /\ distribution = <<>> /\ orders = {}
  /\ loading = TRUE /\ due = FALSE /\ told = "unread"
  /\ recent = [status |-> "all", page |-> 1]
  /\ toasts = [t \in Toasts |-> IF eventKnown /\ \A u \in Toasts : t <= u THEN "success" ELSE "free"]
  /\ exporting = FALSE
  /\ budget = Budget

\* Another part of the administration is open.
Closed ==
  /\ sale = [o \in Orders |-> "none"] /\ eventKnown = FALSE
  /\ loads = [l \in Loads |-> NoLoad]
  /\ kpis = NoKpis /\ salesData = <<>> /\ distribution = <<>> /\ orders = {}
  /\ loading = TRUE /\ due = FALSE /\ told = "unread"
  /\ recent = [status |-> "all", page |-> 1]
  /\ toasts = [t \in Toasts |-> "free"] /\ exporting = FALSE

Returns(l) == KpisReturn(l) \/ ChartsReturn(l) \/ \E t \in Toasts : KpisFail(l, t)
Answers ==
  /\ UNCHANGED budget
  /\ \/ \E l \in Loads :
          \/ Returns(l) \/ RunEffect(l) \/ EventResolves(l) \/ ReadSource(l)
          \/ \E t \in Toasts : ToastTimeout(t, l) \/ \E kind \in {"success", "error"} : ExportReturns(t, l, kind)
Initiatives ==
  /\ budget > 0 /\ budget' = budget - 1
  /\ \/ \E l \in Loads :
          LoseSource(l) \/ \E t \in Toasts : CloseToast(t, l)
     \/ Export
     \/ \E o \in Orders : Trade(o)
Filters == UNCHANGED budget /\ (FilterRecent \/ TurnRecent)
Next == Answers \/ Initiatives \/ Filters

\* Requests are answered, effects run, timers ring.
Fairness ==
  /\ WF_vars(UNCHANGED budget /\ \E l \in Loads : RunEffect(l))
  /\ \A l \in Loads : WF_vars(UNCHANGED budget /\ (Returns(l) \/ ReadSource(l)))
  /\ \A t \in Toasts : WF_vars(UNCHANGED budget /\ \E l \in Loads : ToastTimeout(t, l))
-----------------------------------------------------------------------------
(* Properties. *)

\* The state keeps its types; a dashboard that is loading waits for the event or an answer.
DashboardTypeOK ==
  /\ sale \in Tables
  /\ toasts \in [Toasts -> {"free", "success", "error", "closed"}]
  /\ recent.page >= 1
  /\ due \in BOOLEAN /\ told \in {"unread", "lost", "read"}
  /\ loading /\ eventKnown => \E l \in Loads : UnderWay(l)

\* Once the dashboard neither waits nor has a load to start, its cards show figures that were
\* read, and its recent orders were asked for: read, or, for all the page tells, lost.  So it is
\* however many loads fail, overlap or end out of order.
ZerosAreFigures == ~loading /\ ~due => kpis # NoKpis /\ told # "unread"

\* A dashboard that knows its event has figures in the end, after any number of failures and
\* without anybody touching it: the toast of a failed load is what loads it again.
DashboardRecovers == eventKnown ~> kpis # NoKpis

\* The bars of the chart are the sales of the seven days they name, up to now: putting orders
\* aside by their age in hours loses none of them and adds none of an eighth day.
BarsAreTheirDays ==
  \A l \in Loads : UnderWay(l) /\ "sales" \in DOMAIN loads[l].got =>
    \A i \in 0..6 :
      GetSalesChart(loads[l].got.sales)[i] =
        Cardinality({o \in Orders : /\ IsPaid(loads[l].got.sales, o)
                                    /\ CreatedAt[o] <= Now /\ Day(CreatedAt[o]) = Day(Now) - i})

\* Three statements the code does not keep.  Whoever reads the page takes a zero for a figure:
\* the cards are written to show "..." until figures are there (DashboardPage.tsx:121).  The
\* page rendered after a first load that failed shows zeros in all of them, the card of recent
\* orders shows zero once its request is lost, and the donut shows a zero from the start.
CardsAwaitFigures == loading \/ kpis # NoKpis
RecentCardAwaitsOrders == loading \/ due \/ told = "read"
DonutAwaitsFigures == kpis # NoKpis

\* The figures of the dashboard, whichever loads fail, overlap or end out of order.
DashboardIsSound == DashboardTypeOK /\ ZerosAreFigures /\ BarsAreTheirDays
=============================================================================
