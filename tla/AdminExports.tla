------------------------------ MODULE AdminExports ------------------------------
(***************************************************************************)
(* What the pages of the administration download and send: exports.service *)
(* with lib/export.ts and lib/registration-export-pdf.ts, the PDF of a     *)
(* ticket, the tickets sent again by e-mail, and the toasts that tell how  *)
(* it went.                                                                *)
(*                                                                         *)
(* apiClient.fetch renews a session once and asks again; apiClient.download *)
(* and ticketsService.downloadPdf send the access token as it is.  A call  *)
(* goes on when its page is left.                                          *)
(***************************************************************************)
EXTENDS Integers, FiniteSets, Sequences

CONSTANTS
  Orders,           \* ids of orders, a later order with a greater id
  Sales,            \* the orders to start from
  ExportLimit,      \* limit of the lists that are exported (100000)
  Calls,            \* bound: calls under way
  Budget,           \* bound: what persons and the network do
  NoCall, NoFile

Pages == {"participants", "participant", "nexus", "orders", "tickets", "admissions"}
Exports ==
  {"participantsCsv", "participantsPdf", "nexusCsv", "ordersCsv", "ticketsCsv", "admissionsCsv"}
\* The calls whose page catches what they throw.
Told == {"participantsCsv", "participantsPdf", "ticketPdf", "resend"}

Tables == [Orders -> {"none", "pending", "paid", "entered", "disputed"}]
Requested == {"csv", "attendees", "orders", "conflicts", "checkin", "pdf", "resend"}

\* A call: its kind and order, the rows there were when it was made, whether the page that made
\* it is still mounted, and what became of its requests.
CallOver(tables) ==
  [kind : Exports \cup Told, order : Orders \cup {0}, owed : SUBSET Orders, here : BOOLEAN,
   got : UNION {[S -> tables] : S \in SUBSET Requested},
   lost : SUBSET Requested, retried : SUBSET Requested]

ExportsAssumption ==
  /\ Orders \subseteq Nat /\ Calls \subseteq Nat /\ Budget \in Nat
  /\ IsFiniteSet(Orders) /\ IsFiniteSet(Calls)
  /\ Sales \subseteq Tables
  /\ ExportLimit \in Nat /\ Cardinality(Orders) <= ExportLimit
  /\ NoCall \notin CallOver(Tables)
  /\ \A rows \in SUBSET Orders : rows # NoFile
  /\ \A rows \in SUBSET (Orders \X {"attendees", "conflicts", "checkin"}) : rows # NoFile

VARIABLES
  sale,             \* the server: the status of each order; "disputed" is admitted with a conflict
  session,          \* "valid", "expired" (the access token), "revoked" (both), "out"
  queued,           \* e-mails given to NotifyService, per order
  screen,           \* the page that is open
  exportingPdf,     \* ParticipantsPage
  resending,        \* ParticipantDetailPage
  calls,
  clicks,           \* history: how often an e-mail was asked for, per order
  last,             \* history: the call that ended last
  budget

server == <<sale, session, queued>>
page == <<screen, exportingPdf, resending>>
vars == <<server, page, calls, clicks, last, budget>>

-----------------------------------------------------------------------------
(* The files. *)

Sources(kind) ==
  CASE kind \in {"participantsCsv", "nexusCsv"} -> <<"csv">>
    [] kind = "participantsPdf" -> <<"attendees", "orders">>
    [] kind = "ordersCsv" -> <<"orders">>
    [] kind = "ticketsCsv" -> <<"attendees">>
    [] kind = "admissionsCsv" -> <<"attendees", "conflicts", "checkin">>
    [] kind = "ticketPdf" -> <<"pdf">>
    [] OTHER -> <<"resend">>

Attendees(table) == {o \in Orders : table[o] \in {"paid", "entered", "disputed"}}

\* build_participants_csv: the orders that have tickets.
ParticipantsCsv(table) == Attendees(table)

\* The newest rows, as many as are asked for.
Limited(rows, limit) == {o \in rows : Cardinality({p \in rows : p > o}) < limit}

Rows(kind, got) ==
  CASE kind \in {"participantsCsv", "nexusCsv"} -> ParticipantsCsv(got.csv)
    [] kind = "participantsPdf" -> Limited(Attendees(got.attendees), ExportLimit)
    [] kind = "ordersCsv" -> Limited({o \in Orders : got.orders[o] # "none"}, ExportLimit)
    [] kind = "ticketsCsv" -> Attendees(got.attendees)
    [] OTHER ->                                            \* allSettled
         UNION {{<<o, source>> : o \in {p \in Orders : got[source][p] \in {"disputed"}
                    \cup IF source = "attendees" THEN {"entered"} ELSE {}}} : source \in DOMAIN got}

-----------------------------------------------------------------------------
(* Calls. *)

\* The rows that a file has of a table.
Owed(kind, table) ==
  CASE kind \in {"participantsCsv", "participantsPdf", "nexusCsv", "ticketsCsv"} -> Attendees(table)
    [] kind = "ordersCsv" -> {o \in Orders : table[o] # "none"}
    [] OTHER -> {}
UnderWay(c) == calls[c] # NoCall
IsFree(c) == ~UnderWay(c) /\ \A d \in Calls : d < c => UnderWay(d)

\* Bound: the requests of a call reach the server in the order in which they are sent.
Open(c) ==
  {i \in DOMAIN Sources(calls[c].kind) :
     Sources(calls[c].kind)[i] \notin DOMAIN calls[c].got \cup calls[c].lost}
Earliest(c) == {Sources(calls[c].kind)[i] : i \in {j \in Open(c) : \A k \in Open(c) : j <= k}}

NothingGot == [s \in {} |-> sale]
Start(c, kind, order) ==
  /\ IsFree(c)
  /\ calls' = [calls EXCEPT ![c] = [kind |-> kind, order |-> order, owed |-> Owed(kind, sale), here |-> TRUE,
                                    got |-> NothingGot, lost |-> {}, retried |-> {}]]
  /\ UNCHANGED <<server, last>>

\* The server answers a request.  Left out: it refuses to send the tickets of an order that is
\* not paid, which has none.
Answer(c) ==
  /\ UnderWay(c) /\ session = "valid"
  /\ \E s \in Earliest(c) :
       /\ calls' = [calls EXCEPT ![c].got =
            [t \in DOMAIN @ \cup {s} |-> IF t = s THEN sale ELSE @[t]]]
       /\ queued' = IF s = "resend" THEN [queued EXCEPT ![calls[c].order] = @ + 1] ELSE queued
  /\ UNCHANGED <<sale, session, page, clicks, last>>

\* 401.  Of the requests of a call only those of apiClient.fetch are made again, each once.
Refused(c) ==
  /\ UnderWay(c) /\ session # "valid"
  /\ \E s \in Earliest(c) :
        IF s \notin {"csv", "pdf"} /\ s \notin calls[c].retried /\ session = "expired"
        THEN session' = "valid" /\ calls' = [calls EXCEPT ![c].retried = @ \cup {s}]
        ELSE /\ session' = IF s \in {"csv", "pdf"} \/ s \in calls[c].retried THEN session ELSE "out"
             /\ calls' = [calls EXCEPT ![c].lost = @ \cup {s}]
  /\ UNCHANGED <<sale, queued, page, clicks, last>>

\* The network loses a request, or its answer.
Lose(c) ==
  /\ UnderWay(c)
  /\ \E s \in Earliest(c) :
       /\ calls' = [calls EXCEPT ![c].lost = @ \cup {s}]
       /\ \/ UNCHANGED queued
          \/ /\ s = "resend" /\ session = "valid"
             /\ queued' = [queued EXCEPT ![calls[c].order] = @ + 1]
  /\ UNCHANGED <<sale, session, page, clicks, last>>

\* A call ends with a file, or none, and a toast, or none.
Ends(c, file, toast) ==
  /\ calls' = [calls EXCEPT ![c] = NoCall]
  /\ last' = [kind |-> calls[c].kind, owed |-> calls[c].owed, order |-> calls[c].order,
              sent |-> "resend" \in DOMAIN calls[c].got, file |-> file, toast |-> toast]
  /\ UNCHANGED <<server, screen, clicks>>

\* Promise.all and a single request fail with the first that is lost.
Complete(c, kinds) == UnderWay(c) /\ calls[c].kind \in kinds /\ Open(c) = {} /\ calls[c].lost = {}
Rejected(c, kinds) == UnderWay(c) /\ calls[c].kind \in kinds /\ calls[c].lost # {}

-----------------------------------------------------------------------------
(* ParticipantsPage. *)

ExportCsv(c) == screen = "participants" /\ Start(c, "participantsCsv", 0) /\ UNCHANGED <<page, clicks>>
\* 404 when there is none.
CsvReturns(c) ==
  /\ UNCHANGED <<exportingPdf, resending>>
  /\ \/ /\ Complete(c, {"participantsCsv"})
        /\ LET rows == Rows("participantsCsv", calls[c].got)
           IN IF rows = {} THEN Ends(c, NoFile, "error") ELSE Ends(c, rows, "success")
     \/ Rejected(c, {"participantsCsv"}) /\ Ends(c, NoFile, "error")

ExportPdf(c) ==
  /\ screen = "participants" /\ ~exportingPdf /\ exportingPdf' = TRUE
  /\ Start(c, "participantsPdf", 0) /\ UNCHANGED <<screen, resending, clicks>>
PdfOf(rows) == IF rows = {} THEN NoFile ELSE rows
\* When there is no participant an alert says so, then the toast that all went well.
PdfReturns(c) ==
  /\ UnderWay(c) /\ exportingPdf' = (exportingPdf /\ ~calls[c].here) /\ UNCHANGED resending
  /\ \/ /\ Complete(c, {"participantsPdf"})
        /\ LET rows == Rows("participantsPdf", calls[c].got)
           IN Ends(c, PdfOf(rows), "success")
     \/ Rejected(c, {"participantsPdf"}) /\ Ends(c, NoFile, "error")

-----------------------------------------------------------------------------
(* OrdersPage, TicketsPage, AdmissionsPage: nothing catches what these exports throw; and      *)
(* NexusNightPage, which does not even await its own.                                          *)

ExportList(c) ==
  /\ \E kind \in CASE screen = "nexus" -> {"nexusCsv"} [] screen = "orders" -> {"ordersCsv"}
                   [] screen = "tickets" -> {"ticketsCsv"} [] screen = "admissions" -> {"admissionsCsv"}
                   [] OTHER -> {} :
       Start(c, kind, 0)
  /\ UNCHANGED <<page, clicks>>
\* exportToCsv refuses an empty list, participants.csv is 404 without a row.
IsExportable(rows) == rows # {}
Says(kind) == IF kind = "nexusCsv" THEN "none" ELSE "success"
ListReturns(c) ==
  /\ UNCHANGED <<exportingPdf, resending>>
  /\ \/ /\ \/ Complete(c, {"nexusCsv", "ordersCsv", "ticketsCsv"})
           \/ UnderWay(c) /\ calls[c].kind = "admissionsCsv" /\ Open(c) = {}
        /\ LET rows == Rows(calls[c].kind, calls[c].got)
           IN IF IsExportable(rows) THEN Ends(c, rows, Says(calls[c].kind)) ELSE Ends(c, NoFile, "none")
     \/ Rejected(c, {"nexusCsv", "ordersCsv", "ticketsCsv"}) /\ Ends(c, NoFile, "none")

-----------------------------------------------------------------------------
(* Tickets: their PDF, and the e-mail again. *)

\* The tickets on TicketsPage, as of now: an order that has tickets keeps them.
Listed == Attendees(sale)
DownloadPdf(c) ==
  /\ screen = "tickets" /\ \E o \in Listed : Start(c, "ticketPdf", o)
  /\ UNCHANGED <<page, clicks>>
TicketPdfReturns(c) ==
  /\ UNCHANGED <<exportingPdf, resending>>
  /\ \/ Complete(c, {"ticketPdf"}) /\ Ends(c, {calls[c].order}, "success")
     \/ Rejected(c, {"ticketPdf"}) /\ Ends(c, NoFile, "error")

\* The button of ParticipantDetailPage waits, those of TicketsPage do not.
MayResend == screen = "tickets" \/ (screen = "participant" /\ ~resending)
Resend(c) ==
  /\ MayResend
  /\ resending' = (screen = "participant")
  /\ \E o \in Listed : Start(c, "resend", o) /\ clicks' = [clicks EXCEPT ![o] = @ + 1]
  /\ UNCHANGED <<screen, exportingPdf>>
ResendUnawaited(c) ==                                      \* mutated form: the request is not awaited
  /\ UnderWay(c) /\ calls[c].kind = "resend"
  /\ resending' = (resending /\ ~calls[c].here) /\ UNCHANGED exportingPdf
  /\ Ends(c, NoFile, "success")
ResendReturns(c) ==
  /\ UnderWay(c) /\ resending' = (resending /\ ~calls[c].here) /\ UNCHANGED exportingPdf
  /\ \/ Complete(c, {"resend"}) /\ Ends(c, NoFile, "success")
     \/ Rejected(c, {"resend"}) /\ Ends(c, NoFile, "error")

-----------------------------------------------------------------------------
(* The pages, the server, and the specification. *)

\* The state of a page goes with it, its calls go on.
OpenPage ==
  /\ screen' \in Pages \ {screen} /\ exportingPdf' = FALSE /\ resending' = FALSE
  /\ calls' = [c \in Calls |-> IF UnderWay(c) THEN [calls[c] EXCEPT !.here = FALSE] ELSE NoCall]
  /\ UNCHANGED <<server, clicks, last>>

Trade(o) ==
  /\ \E change \in {<<"none", "pending">>, <<"pending", "paid">>, <<"paid", "entered">>, <<"entered", "disputed">>} :
       sale[o] = change[1] /\ sale' = [sale EXCEPT ![o] = change[2]]
  /\ UNCHANGED <<session, queued, page, calls, clicks, last>>

\* The access token expires; somewhere else the user signs in, or out.
Expire ==
  /\ \/ session = "valid" /\ session' = "expired"
     \/ session \in {"valid", "expired"} /\ session' = "revoked"
  /\ UNCHANGED <<sale, queued, page, calls, clicks, last>>

Init ==
  /\ sale \in Sales /\ session = "valid" /\ queued = [o \in Orders |-> 0]
  /\ screen \in Pages /\ exportingPdf = FALSE /\ resending = FALSE
  /\ calls = [c \in Calls |-> NoCall]
  /\ clicks = [o \in Orders |-> 0]
  /\ last = [kind |-> "none", owed |-> {}, order |-> 0, sent |-> FALSE, file |-> NoFile, toast |-> "none"]
  /\ budget = Budget

Next ==
  \/ /\ UNCHANGED budget
     /\ \E c \in Calls :
          \/ Answer(c) \/ Refused(c)
          \/ CsvReturns(c) \/ PdfReturns(c) \/ ListReturns(c) \/ TicketPdfReturns(c) \/ ResendReturns(c)
  \/ /\ budget > 0 /\ budget' = budget - 1
     /\ \/ \E c \in Calls :
             \/ ExportCsv(c) \/ ExportPdf(c) \/ ExportList(c) \/ DownloadPdf(c) \/ Resend(c)
             \/ Lose(c)
        \/ OpenPage \/ Expire
        \/ \E o \in Orders : Trade(o)

\* Another part of the administration is open.
Closed ==
  /\ sale = [o \in Orders |-> "none"] /\ session = "valid" /\ queued = [o \in Orders |-> 0]
  /\ screen = "orders" /\ exportingPdf = FALSE /\ resending = FALSE
  /\ calls = [c \in Calls |-> NoCall]
  /\ clicks = [o \in Orders |-> 0]
  /\ last = [kind |-> "none", owed |-> {}, order |-> 0, sent |-> FALSE, file |-> NoFile, toast |-> "none"]

-----------------------------------------------------------------------------
(* Properties. *)

\* The state keeps its types; a button is out of order exactly while its page waits for a call.
ExportsTypeOK ==
  /\ session \in {"valid", "expired", "revoked", "out"} /\ screen \in Pages
  /\ exportingPdf <=> \E c \in Calls : UnderWay(c) /\ calls[c].here /\ calls[c].kind = "participantsPdf"
  /\ resending <=>
       /\ screen = "participant"
       /\ \E c \in Calls : UnderWay(c) /\ calls[c].here /\ calls[c].kind = "resend"

\* A file of participants, orders or tickets has at least those there were when it was asked
\* for, however late its requests were read and whatever was renewed between them.
FilesAreComplete == last.file # NoFile => last.owed \subseteq last.file

\* A toast that a file was downloaded comes with the file, and one that tickets were sent with
\* an e-mail given to NotifyService.  (Not so for the PDF of no participant, nor for
\* OrderDetailPage; and NotifyService may skip an e-mail or fail to send it, notify.py:88, 159.)
SuccessToastsAreTrue ==
  last.toast = "success" =>
    CASE last.kind = "participantsPdf" -> last.owed # {} => last.file # NoFile
      [] last.kind = "resend" -> last.sent /\ queued[last.order] >= 1
      [] OTHER -> last.file # NoFile

\* No ticket is given out to be sent more often than somebody asked, whether answers are lost, sessions
\* renewed or requests made again.
OneEmailPerClick == \A o \in Orders : queued[o] <= clicks[o]

\* Whoever exports participants on ParticipantsPage, downloads a ticket or sends one again is
\* told how it went, on whatever page by then.
EndsAreTold == last.kind \in Told => last.toast # "none"

\* A statement the code does not keep: whoever exports the participants is told how it went.
\* ParticipantsPage and DashboardPage see to it, NexusNightPage does not (NexusNightPage.tsx:20).
ParticipantsExportsAreTold ==
  last.kind \in {"participantsCsv", "participantsPdf", "nexusCsv"} => last.toast # "none"

\* What the pages download, send and say of it, with calls that outlive their page, lost
\* answers and renewed sessions: types, complete files, true toasts, an e-mail per click at most.
ExportsAreSound ==
  ExportsTypeOK /\ FilesAreComplete /\ SuccessToastsAreTrue /\ OneEmailPerClick /\ EndsAreTold
=============================================================================
