------------------------------- MODULE AdminLists -------------------------------
(***************************************************************************)
(* What staff look at while sales and entries go on: the lists of          *)
(* participants, Nexus Night, orders, tickets and admissions, the two      *)
(* detail pages, and the search of the header, over the services that      *)
(* read the server (src/admin/pages, components/layout, services).  Each   *)
(* list reads the server again when its filters change; one request is one *)
(* read of the server at its own time, and answers come in any order.      *)
(***************************************************************************)
EXTENDS Integers, FiniteSets

CONSTANTS
  Orders,           \* ids of orders, a later order with a greater id
  Found,            \* what is typed in a search field: the orders whose people it names
  PassTier,         \* the tier of the pass of each order
  Limit,            \* rows on a page
  Sales,            \* the sales to start from
  Reads,            \* bound: slots for reads under way
  NoRead

ListPages == {"participants", "nexus", "orders", "tickets", "admissions"}
Terms == DOMAIN Found
Blank == ""            \* an empty search field, a status that is missing
Book ==
  [Orders -> [status : {"none", "pending", "paid"}, scan : {"none", "once", "gate", "station"}]]
Query ==
  [search : Terms, status : {"all", "paid", "pending", "valid", "void", "admitted", "duplicate"},
   tier : {"all", "student", "vip"}, page : Nat \ {0}]

\* A read: what its requests, each to its own table, have found, and which were lost.
Requests == {"attendees", "orders", "conflicts", "checkin"}
ReadOver(tables) ==
  [kind : ListPages \cup {"participant", "order", "participantOrder", "search"}, q : Query,
   got : UNION {[S -> tables] : S \in SUBSET Requests}, lost : SUBSET Requests]

ASSUME ListsAssumption ==
  /\ Orders \subseteq Nat /\ IsFiniteSet(Orders) /\ Sales \subseteq Book
  /\ Reads \subseteq Nat /\ NoRead \notin ReadOver(Book) /\ Limit \in Nat \ {0}
  /\ Blank \in Terms /\ Found \in [Terms -> SUBSET Orders] /\ Found[Blank] = Orders

VARIABLES
  sale,             \* the server: status, admitted and duplicate of each order
  screen,           \* the page that is open
  pane,             \* its state
  reads,
  visible,          \* document.visibilityState
  search            \* GlobalSearchModal

listVars == <<sale, screen, pane, reads, visible, search>>
browser == <<screen, pane, reads, visible, search>>

-----------------------------------------------------------------------------
(* The services. *)

Sources(kind) ==
  CASE kind \in {"participants", "nexus", "participant", "search"} -> {"attendees", "orders"}
    [] kind \in {"orders", "order", "participantOrder"} -> {"orders"}
    [] kind = "tickets" -> {"attendees"}
    [] kind = "admissions" -> {"attendees", "conflicts", "checkin"}
    [] OTHER -> {}

\* Lists are sorted, the newest first, and cut into pages: a list is the set of its rows, a
\* page those whose place is on it.
Place(rows, row) == Cardinality({other \in rows : other.id > row.id})
Paged(rows, page) ==
  [total |-> Cardinality(rows), data |-> {row \in rows : Place(rows, row) \div Limit = page - 1}]
Whole(rows) == [total |-> Cardinality(rows), data |-> rows]
Keeps(choice, value) == choice \in {"all", value}

\* Tickets are minted when an order is paid: /attendees has the orders that are.
Attendees(table) == {o \in Orders : table[o].status = "paid"}

\* participantsService: one row per order that has tickets, its status from the other read.
Participants(got) ==
  {[id |-> o, status |-> IF got.orders[o].status = "none" THEN Blank ELSE got.orders[o].status,
    tier |-> PassTier[o], admitted |-> got.attendees[o].scan # "none"] : o \in Attendees(got.attendees)}
ParticipantsGetAll(q, got) ==
  {p \in Participants(got) :
     p.id \in Found[q.search] /\ Keeps(q.status, p.status) /\ Keeps(q.tier, p.tier)}

OrdersGetAll(q, got) ==
  {row \in {[id |-> o, status |-> got.orders[o].status] : o \in Orders} :
     row.status # "none" /\ row.id \in Found[q.search] /\ Keeps(q.status, row.status)}

TicketsGetAll(q, got) ==
  {row \in {[id |-> o, status |-> "valid"] : o \in Attendees(got.attendees)} :
     row.id \in Found[q.search] /\ Keeps(q.status, row.status)}

\* allSettled: what is lost is left out.  A duplicate carries no name: a search drops it.
Scanned(got, source, result, scans) ==
  IF source \notin DOMAIN got THEN {}
  ELSE {[id |-> o, status |-> result] : o \in {p \in Orders : got[source][p].scan \in scans}}
AdmissionsGetAll(q, got) ==
  {row \in Scanned(got, "attendees", "admitted", {"once", "gate", "station"})
           \cup Scanned(got, "conflicts", "duplicate", {"gate"})
           \cup Scanned(got, "checkin", "duplicate", {"station"}) :
     /\ Keeps(q.status, row.status)
     /\ q.search # Blank => row.status = "admitted" /\ row.id \in Found[q.search]}

-----------------------------------------------------------------------------
(* Reads. *)

AllRows == [search |-> Blank, status |-> "all", tier |-> "all", page |-> 1]

\* A page is mounted loading; the pages but OrderDetailPage wait for the event (EventContext).
Mounted(r) ==
  [q |-> AllRows, of |-> AllRows, total |-> 0, rows |-> {}, loading |-> TRUE, error |-> FALSE,
   sent |-> r, settled |-> FALSE, about |-> 0, order |-> 0]

ReadOf(kind, q) == [kind |-> kind, q |-> q, got |-> [s \in {} |-> sale], lost |-> {}]
InFlight(r) == reads[r] # NoRead
FreeRead(r) == reads[r] = NoRead /\ \A s \in Reads : s < r => reads[s] # NoRead

\* loadData of a list, after its filters changed or at a retry.
Load(r, q) ==
  /\ FreeRead(r)
  /\ reads' = [reads EXCEPT ![r] = ReadOf(screen, q)]
  /\ pane' = [pane EXCEPT !.q = q, !.loading = TRUE, !.error = FALSE, !.sent = r]
  /\ UNCHANGED <<sale, screen, visible, search>>

\* One request of a read reaches the server.
ReadSource(r, source) ==
  /\ InFlight(r)
  /\ source \in Sources(reads[r].kind) \ (DOMAIN reads[r].got \cup reads[r].lost)
  /\ reads' = [reads EXCEPT ![r].got = [s \in DOMAIN @ \cup {source} |-> IF s = source THEN sale ELSE @[s]]]
  /\ UNCHANGED <<sale, screen, pane, visible, search>>

LoseSource(r, source) ==
  /\ InFlight(r)
  /\ source \in Sources(reads[r].kind) \ (DOMAIN reads[r].got \cup reads[r].lost)
  /\ reads' = [reads EXCEPT ![r].lost = @ \cup {source}]
  /\ UNCHANGED <<sale, screen, pane, visible, search>>

\* Promise.all refuses with the first request that is lost, allSettled waits for all.
Answered(r, kind) ==
  InFlight(r) /\ reads[r].kind = kind /\ DOMAIN reads[r].got \cup reads[r].lost = Sources(kind)
Complete(r, kind) == Answered(r, kind) /\ reads[r].lost = {}
Rejected(r, kind) == InFlight(r) /\ reads[r].kind = kind /\ reads[r].lost # {}

\* The rows of an answer take the place of those on the page, whatever was asked since.
Shows(r, answer) ==
  /\ pane' = [pane EXCEPT !.rows = answer.data, !.total = answer.total, !.of = reads[r].q,
                          !.loading = FALSE, !.settled = pane.sent = r]
  /\ reads' = [reads EXCEPT ![r] = NoRead]
  /\ UNCHANGED <<sale, screen, visible, search>>

Fails(r) ==
  /\ pane' = [pane EXCEPT !.error = TRUE, !.loading = FALSE, !.settled = pane.sent = r]
  /\ reads' = [reads EXCEPT ![r] = NoRead]
  /\ UNCHANGED <<sale, screen, visible, search>>

PaneView ==
  IF pane.loading THEN "loading" ELSE IF pane.error THEN "error"
  ELSE IF pane.rows = {} THEN "empty" ELSE "table"
Retry(r) == screen \in ListPages /\ PaneView = "error" /\ Load(r, pane.q)
TotalPages == IF pane.total = 0 THEN 1 ELSE (pane.total + Limit - 1) \div Limit

-----------------------------------------------------------------------------
(* ParticipantsPage. *)

\* Typing in a filter goes back to the first page.
Statuses == {"all", "paid", "pending"}
SetParticipantsFilter(r) ==
  /\ screen = "participants"
  /\ \E q \in {[pane.q EXCEPT !.search = t, !.page = 1] : t \in Terms}
              \cup {[pane.q EXCEPT !.status = s, !.page = 1] : s \in Statuses}
              \cup {[pane.q EXCEPT !.tier = t, !.page = 1] : t \in {"all", "student", "vip"}} :
       q # pane.q /\ Load(r, q)

\* The button of an empty list, which stays on its page.
ResetFilters(r) ==
  /\ screen = "participants" /\ PaneView = "empty"
  /\ LET q == [AllRows EXCEPT !.page = pane.q.page]
     IN q # pane.q /\ Load(r, q)

ParticipantsReturn(r) ==
  \/ Complete(r, "participants") /\ Shows(r, Paged(ParticipantsGetAll(reads[r].q, reads[r].got), reads[r].q.page))
  \/ Rejected(r, "participants") /\ Fails(r)

TurnPageUnread(r) ==                                       \* mutated form: page no dependency
  /\ PaneView = "table" /\ r = pane.sent /\ pane.q.page < TotalPages
  /\ pane' = [pane EXCEPT !.q.page = @ + 1]
  /\ UNCHANGED <<sale, screen, reads, visible, search>>
TurnPage(r) ==
  /\ PaneView = "table"
  /\ \E page \in {pane.q.page - 1, pane.q.page + 1} :
       page >= 1 /\ page <= TotalPages /\ Load(r, [pane.q EXCEPT !.page = page])
ParticipantsPages(r) == screen = "participants" /\ TurnPage(r)

\* The rows link to /participants/:id and /orders/:id, which only the storefront routes.
\* Out of the administration nothing of it stays; on another page of it the search does.
NoSearch == [open |-> FALSE, query |-> Blank, timer |-> "off", loading |-> FALSE, people |-> {}, orders |-> {}]
Searches(r) == InFlight(r) /\ reads[r].kind = "search"
LeavesTo(place) ==
  /\ screen' = place
  /\ pane' = [Mounted(0) EXCEPT !.loading = FALSE]
  /\ reads' = [r \in Reads |-> IF place # "storefront" /\ Searches(r) THEN reads[r] ELSE NoRead]
  /\ search' = IF place = "storefront" THEN NoSearch ELSE search
  /\ UNCHANGED <<sale, visible>>
OpenParticipant ==
  screen = "participants" /\ PaneView = "table" /\ LeavesTo("storefront")

(* NexusNightPage: everybody, no filter. *)
NexusReturn(r) ==
  \/ /\ Complete(r, "nexus")
     /\ Shows(r, Whole({p \in Participants(reads[r].got) : p.tier = "vip"}))
  \/ Rejected(r, "nexus") /\ Fails(r)

(* OrdersPage. *)
SetOrdersFilter(r) ==
  /\ screen = "orders"
  /\ \E q \in {[pane.q EXCEPT !.search = t, !.page = 1] : t \in Terms}
              \cup {[pane.q EXCEPT !.status = s, !.page = 1] : s \in Statuses} :
       q # pane.q /\ Load(r, q)
OrdersReturn(r) ==
  \/ Complete(r, "orders") /\ Shows(r, Paged(OrdersGetAll(reads[r].q, reads[r].got), reads[r].q.page))
  \/ Rejected(r, "orders") /\ Fails(r)
OrdersPages(r) == screen = "orders" /\ TurnPage(r)
\* orders/:id below the page of orders is no route: the administration shows its first page.
OpenOrder == screen = "orders" /\ PaneView = "table" /\ LeavesTo("dashboard")

(* TicketsPage. *)
SetTicketsFilter(r) ==
  /\ screen = "tickets"
  /\ \E q \in {[pane.q EXCEPT !.search = t] : t \in Terms}
              \cup {[pane.q EXCEPT !.status = s] : s \in {"all", "valid", "void"}} :
       q # pane.q /\ Load(r, q)
TicketsReturn(r) ==
  \/ Complete(r, "tickets") /\ Shows(r, Whole(TicketsGetAll(reads[r].q, reads[r].got)))
  \/ Rejected(r, "tickets") /\ Fails(r)

(* AdmissionsPage. *)
SetAdmissionsFilter(r) ==
  /\ screen = "admissions"
  /\ \E q \in {[pane.q EXCEPT !.search = t] : t \in Terms}
              \cup {[pane.q EXCEPT !.status = s] : s \in {"all", "admitted", "duplicate"}} :
       q # pane.q /\ Load(r, q)
AdmissionsReturn(r) ==
  Answered(r, "admissions") /\ Shows(r, Whole(AdmissionsGetAll(reads[r].q, reads[r].got)))
\* Every ten seconds.  Bound: a poll does not find another read of the list under way.
Idle == \A r \in Reads : InFlight(r) => Searches(r)
PollUnderCover(r) ==                                       \* mutated form: while it is hidden
  screen = "admissions" /\ ~visible /\ Idle /\ Load(r, pane.q)
Poll(r) == screen = "admissions" /\ visible /\ Idle /\ Load(r, pane.q)
Hide == visible /\ visible' = FALSE /\ UNCHANGED <<sale, screen, pane, reads, search>>
Show(r) ==
  /\ ~visible /\ visible' = TRUE
  /\ IF screen = "admissions"
     THEN /\ FreeRead(r)
          /\ reads' = [reads EXCEPT ![r] = ReadOf(screen, pane.q)]
          /\ pane' = [pane EXCEPT !.loading = TRUE, !.error = FALSE, !.sent = r]
     ELSE UNCHANGED <<reads, pane>>
  /\ UNCHANGED <<sale, screen, search>>

-----------------------------------------------------------------------------
(* The detail pages, which are reached by their address. *)

\* Nothing catches what the first read throws: the page loads for ever.
ParticipantReturns(r) ==
  /\ \/ /\ Complete(r, "participant")
        /\ \E found \in {{p \in Participants(reads[r].got) : p.id = pane.about}} :
             IF found = {}
             THEN /\ pane' = [pane EXCEPT !.rows = {}, !.loading = FALSE]
                  /\ reads' = [reads EXCEPT ![r] = NoRead]
             ELSE /\ pane' = [pane EXCEPT !.rows = found]
                  /\ reads' = [reads EXCEPT ![r] = ReadOf("participantOrder", AllRows)]
     \/ Rejected(r, "participant") /\ reads' = [reads EXCEPT ![r] = NoRead] /\ UNCHANGED pane
  /\ UNCHANGED <<sale, screen, visible, search>>

\* ordersService.getById: null when the read is lost.
OrderReturns(r) ==
  /\ Answered(r, "order") \/ Answered(r, "participantOrder")
  /\ LET found == "orders" \in DOMAIN reads[r].got /\ reads[r].got["orders"][pane.about].status # "none"
     IN pane' = [pane EXCEPT !.order = IF found THEN pane.about ELSE 0, !.loading = FALSE]
  /\ reads' = [reads EXCEPT ![r] = NoRead]
  /\ UNCHANGED <<sale, screen, visible, search>>

ParticipantView ==
  IF pane.loading THEN "loading" ELSE IF pane.rows = {} THEN "not found" ELSE "profile"
OrderView ==
  IF pane.loading THEN "loading" ELSE IF pane.order = 0 THEN "not found" ELSE "order"
\* The way back is an address of the storefront too.
GoBackToList ==
  /\ \/ screen = "participant" /\ ParticipantView # "loading"
     \/ screen = "order" /\ OrderView # "loading"
  /\ LeavesTo("storefront")

-----------------------------------------------------------------------------
(* GlobalSearchModal, which stays mounted while it is closed. *)

SearchIs(changes) == search' = changes /\ UNCHANGED <<sale, screen, pane, reads, visible>>
InAdministration == screen \notin {"storefront", "closed"}

OpenSearch ==
  /\ InAdministration /\ ~search.open
  /\ SearchIs([search EXCEPT !.open = TRUE, !.query = Blank, !.people = {}, !.orders = {},
                             !.timer = IF search.query = Blank THEN @ ELSE Blank])
CloseSearch == search.open /\ SearchIs([search EXCEPT !.open = FALSE])

\* What is typed starts the 400 ms again.
TypeQuery ==
  /\ search.open
  /\ \E t \in Terms \ {search.query} : SearchIs([search EXCEPT !.query = t, !.timer = t])

SearchFires(r) ==
  \/ search.timer = Blank /\ SearchIs([search EXCEPT !.timer = "off", !.people = {}, !.orders = {}])
  \/ /\ search.timer \notin {Blank, "off"} /\ FreeRead(r)
     /\ reads' = [reads EXCEPT ![r] = ReadOf("search", [AllRows EXCEPT !.search = search.timer])]
     /\ search' = [search EXCEPT !.timer = "off", !.loading = TRUE]
     /\ UNCHANGED <<sale, screen, pane, visible>>

\* A search that fails leaves the results of the one before.
SearchReturns(r) ==
  /\ \/ /\ Complete(r, "search")
        /\ search' = [search EXCEPT !.loading = FALSE,
             !.people = {p.id : p \in {p \in Participants(reads[r].got) : p.id \in Found[reads[r].q.search]}},
             !.orders = {o \in Found[reads[r].q.search] : reads[r].got.orders[o].status # "none"}]
     \/ Rejected(r, "search") /\ search' = [search EXCEPT !.loading = FALSE]
  /\ reads' = [reads EXCEPT ![r] = NoRead]
  /\ UNCHANGED <<sale, screen, pane, visible>>

\* The results link to addresses of the storefront, like the rows.
NavigateTo ==
  /\ search.open /\ search.query # Blank /\ search.people \cup search.orders # {}
  /\ LeavesTo("storefront")

\* A link of the sidebar.
OpenPage(r, place) ==
  /\ InAdministration /\ place \in ListPages \ {screen}
  /\ reads[r] = NoRead \/ ~Searches(r)
  /\ screen' = place
  /\ pane' = Mounted(r)
  /\ reads' = [s \in Reads |-> IF s = r THEN ReadOf(place, AllRows) ELSE IF Searches(s) THEN reads[s] ELSE NoRead]
  /\ UNCHANGED <<sale, visible, search>>

-----------------------------------------------------------------------------
(* The server meanwhile, composition. *)

Trade(o) ==
  /\ \/ sale[o].status = "none" /\ sale' = [sale EXCEPT ![o].status = "pending"]
     \/ sale[o].status = "pending" /\ sale' = [sale EXCEPT ![o].status = "paid"]
     \/ /\ sale[o].status = "paid" /\ sale[o].scan = "none"
        /\ sale' = [sale EXCEPT ![o].scan = "once"]
     \/ /\ sale[o].scan = "once"
        /\ \E where \in {"gate", "station"} : sale' = [sale EXCEPT ![o].scan = where]
  /\ UNCHANGED browser

ListsClosed ==
  /\ sale \in Sales /\ screen = "closed" /\ pane = Mounted(0) /\ visible = TRUE /\ search = NoSearch
  /\ reads = [r \in Reads |-> NoRead]
ListsInit ==
  /\ sale \in Sales /\ visible = TRUE
  /\ search \in {[NoSearch EXCEPT !.open = open] : open \in BOOLEAN}
  /\ screen \in ListPages \cup {"participant", "order"}
  /\ \E o \in Orders, first \in Reads :
       /\ \A r \in Reads : first <= r
       /\ pane = [Mounted(first) EXCEPT !.about = IF screen \in ListPages THEN 0 ELSE o]
       /\ reads = [r \in Reads |-> IF r = first THEN ReadOf(screen, AllRows) ELSE NoRead]

ReadReturns(r) ==
  \/ ParticipantsReturn(r) \/ NexusReturn(r) \/ OrdersReturn(r) \/ TicketsReturn(r) \/ AdmissionsReturn(r)
  \/ ParticipantReturns(r) \/ OrderReturns(r) \/ SearchReturns(r)
ListAnswers ==
  \E r \in Reads :
    \/ \E source \in Requests : ReadSource(r, source)
    \/ ReadReturns(r) \/ SearchFires(r) \/ Poll(r)
ListInitiatives ==
  \/ \E r \in Reads :
       \/ \E source \in Requests : LoseSource(r, source)
       \/ Retry(r) \/ Show(r) \/ ResetFilters(r)
       \/ SetParticipantsFilter(r) \/ SetOrdersFilter(r) \/ SetTicketsFilter(r) \/ SetAdmissionsFilter(r)
       \/ ParticipantsPages(r) \/ OrdersPages(r)
       \/ \E place \in ListPages : OpenPage(r, place)
  \/ Hide \/ OpenSearch \/ CloseSearch \/ TypeQuery \/ NavigateTo
  \/ OpenParticipant \/ OpenOrder \/ GoBackToList
  \/ \E o \in Orders : Trade(o)

ListFairness ==
  \A r \in Reads :
    WF_listVars(\/ Poll(r) \/ ReadReturns(r)
                \/ \E source \in Requests : ReadSource(r, source))

-----------------------------------------------------------------------------
(* Properties. *)

\* The state keeps its types; a list or a search that is loading waits for an answer (only
\* the page of a participant loads for ever, when its read is lost).
ListsTypeOK ==
  /\ screen \in ListPages \cup {"participant", "order", "dashboard", "storefront", "closed"}
  /\ sale \in Book
  /\ pane.q.page >= 1 /\ (screen \in ListPages => Cardinality(pane.rows) <= pane.total)
  /\ pane.loading /\ screen \in ListPages => \E r \in Reads : InFlight(r) /\ reads[r].kind = screen
  /\ search.loading => \E r \in Reads : Searches(r)

\* When nothing is under way, no request failed and no answer overtook a later one, the rows
\* of a list are those of its filters and of its page: no change of a filter goes unread.
QuietListsAreCurrent ==
  screen \in ListPages /\ pane.settled /\ ~pane.error /\ Idle
  => pane.of = pane.q

\* Whoever is listed or found as a participant has paid and holds tickets, although the
\* tickets and the orders are read by two requests, at different times, and joined.
ParticipantsHoldTickets ==
  /\ screen \in {"participants", "nexus", "participant"} =>
       \A row \in pane.rows : sale[row.id].status = "paid"
  /\ \A o \in search.people : sale[o].status = "paid"

\* The lists, the pages and the search, whatever order their answers come in.
ListsAreSound == ListsTypeOK /\ QuietListsAreCurrent /\ ParticipantsHoldTickets

\* Entries catch up: somebody admitted at a gate appears on the page of admissions, as long
\* as it is in front and its filters keep them, without anybody touching it.
Admits(o) == sale[o].scan # "none"
Watched(o) ==
  /\ screen = "admissions" /\ visible
  /\ Keeps(pane.q.status, "admitted") /\ o \in Found[pane.q.search]
AdmissionListed(o) == \E row \in pane.rows : row.id = o /\ row.status = "admitted"
AdmissionsCatchUp == \A o \in Orders : Admits(o) /\ Watched(o) ~> (AdmissionListed(o) \/ ~Watched(o))

\* Not kept, and checked by no run: that a page of the administration leads to another.  The
\* detail pages, the header and the rows of participants navigate to absolute paths
\* (ParticipantsPage.tsx:205), which only the storefront answers when the administration is
\* mounted below VITE_ADMIN_ROUTE.  TLC refutes it when Administration.cfg lists it.
StaffStayInTheAdministration == screen # "storefront"
=============================================================================
