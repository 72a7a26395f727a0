----------------------------- MODULE Storefront -----------------------------
(***************************************************************************)
(* Checkout in the public site: the landing page (App.tsx) and the page of *)
(* a registration link (pages/InscriptionPage.tsx), the chain of calls     *)
(* behind their form (lib/billetterie-storefront.ts, billetterie-checkout, *)
(* fedapay-checkout, download-guest-ticket-pdf), the payment widget, and   *)
(* what the server makes of the requests.                                  *)
(*                                                                         *)
(* A page is one mount of a component: its state dies when the visitor     *)
(* navigates, the calls it started go on.  A reload kills both.            *)
(* The server allows one active order per e-mail address, so the address   *)
(* names the order.                                                        *)
(***************************************************************************)
EXTENDS Integers, FiniteSets

CONSTANTS
  Emails,        \* addresses visitors type
  Links,         \* registration links: slug of the path, pass of the query
  Methods,       \* what the payment providers give the browser
  ServerErrors,  \* refusals of a creation other than a duplicate
  Checkouts,     \* bound: submissions
  MaxVisits,     \* bound: mounts of a page
  MaxEdits,      \* bound: edits of the catalogue by an organizer
  MaxAttempts,   \* VERIFY_MAX_ATTEMPTS
  NoTier, NoOrder, NoCache, NoError

Tiers == {"student", "vip"}
Prices == {"free", "priced", "off"}       \* off: hidden, inactive or sold out

ASSUME StorefrontAssumption ==
  /\ MaxVisits \in Nat /\ MaxEdits \in Nat /\ MaxAttempts \in Nat \ {0}
  /\ Methods \subseteq {"token", "redirect", "none"}
  /\ Checkouts \subseteq Nat
  \* Only the verification answers that a ticket is on its way (routes/payments.py).
  /\ \A err \in ServerErrors : err.code # "ticketing_unavailable"

VARIABLES
  page,        \* the mounted page: name, visit, the tier chosen
  dialogs,     \* the modals of the page that are open
  success,     \* what the success dialog says: outcome, title (tier), email
  failure,     \* what the failure dialog says: copy, text, email
  ticket,      \* the order whose tickets the success dialog offers
  downloading, \* the order whose PDF files are being fetched
  submitting,  \* the form is disabled
  draft,       \* sessionStorage holds the answers of the form
  cache,       \* the live catalogue, kept in memory for good once it was loaded
  script,      \* the script of the widget: absent, loading, ready
  checkout,    \* the chain of calls of each submission
  orders,      \* the server: the order of each address
  sale,        \* the server: price of each tier
  edits

browser == <<page, dialogs, success, failure, ticket, downloading, submitting, draft, cache, script>>
server == <<orders, sale, edits>>
vars == <<browser, checkout, server>>

-----------------------------------------------------------------------------
\* Registration links: the slug of the path first, then the query.

SlugTiers == [student |-> {"pass-festival", "festival", "gratuit", "free", "student"},
              vip |-> {"nexus-night", "nexus", "vip", "payant"}]

TierFromSlug(slug) ==
  IF \E t \in Tiers : slug \in SlugTiers[t] THEN CHOOSE t \in Tiers : slug \in SlugTiers[t]
  ELSE NoTier

ResolveInscriptionListing(link) ==
  IF TierFromSlug(link.slug) # NoTier THEN TierFromSlug(link.slug) ELSE TierFromSlug(link.pass)

-----------------------------------------------------------------------------
\* What is said of an error (checkoutFailureCopy).  The text of an error reads as
\* "french", "plain" (no accent: English, perhaps) or "technical".

LooksLikeVisitorFrench(text) == text = "french"

Error(api, code, status, text) == [api |-> api, code |-> code, status |-> status, text |-> text]
NetworkError == Error(TRUE, "network_error", 0, "technical")
Duplicate == Error(TRUE, "duplicate_registration", 409, "french")
TicketingUnavailable == Error(TRUE, "ticketing_unavailable", 503, "french")
NotListed == Error(FALSE, "none", 0, "plain")      \* "... n'est pas disponible via l'API ...", nothing on sale
NothingPublished == Error(FALSE, "none", 0, "french")   \* "Aucun événement publié disponible."
ScriptError == Error(FALSE, "none", 0, "plain")
NotReady == Error(FALSE, "none", 0, "french")          \* the ticket is not there yet

CheckoutFailureCopy(err) ==
  IF err.api /\ err.code = "duplicate_registration" THEN "already_registered"
  ELSE IF err.api /\ err.code \in {"database_unavailable", "network_error"} THEN "unavailable"
  ELSE IF err.api /\ err.code = "ticketing_unavailable" THEN "ticket_on_its_way"
  ELSE IF err.api /\ (err.code = "not_found" \/ err.status = 404) THEN "closed"
  ELSE IF err.api /\ (err.status = 0 \/ err.status >= 500) THEN "unavailable"
  ELSE IF ~err.api /\ err.text = "technical" THEN "unavailable"
  ELSE IF LooksLikeVisitorFrench(err.text) THEN "message"
  ELSE "reservation_failed"

-----------------------------------------------------------------------------
NoCheckout == [pc |-> "none", visit |-> 0, page |-> "app", tier |-> NoTier, email |-> NoOrder,
               priced |-> FALSE, tries |-> 0, error |-> NoError]
NoSuccess == [outcome |-> "none", title |-> NoTier, email |-> NoOrder]
NoFailure == [copy |-> "none", text |-> "french", email |-> NoOrder]
NothingOrdered == [status |-> "none", tier |-> NoTier, priced |-> FALSE, gateway |-> "none"]

Mounted(name, tier) ==
  /\ page' = [name |-> name, visit |-> page.visit + 1, tier |-> tier]
  /\ dialogs' = {}
  /\ success' = NoSuccess /\ failure' = NoFailure
  /\ ticket' = NoOrder /\ downloading' = NoOrder
  /\ submitting' = FALSE

Init ==
  /\ page = [name |-> "app", visit |-> 1, tier |-> NoTier]
  /\ dialogs = {}
  /\ success = NoSuccess /\ failure = NoFailure
  /\ ticket = NoOrder /\ downloading = NoOrder
  /\ submitting = FALSE
  /\ draft = FALSE
  /\ cache = NoCache
  /\ script = "absent"
  /\ checkout = [n \in Checkouts |-> NoCheckout]
  /\ orders = [e \in Emails |-> NothingOrdered]
  /\ sale = [t \in Tiers |-> IF t = "student" THEN "free" ELSE "priced"]
  /\ edits = 0

Live(n) == checkout[n].pc \notin {"none", "over"}
Current(n) == Live(n) /\ checkout[n].visit = page.visit

\* The modal on top; the ones beneath and the page cannot be clicked.
OnTop(d) ==
  /\ d \in dialogs
  /\ d = "failure" \/ "failure" \notin dialogs
  /\ d = "register" => "success" \notin dialogs

FormIsReachable ==
  /\ page.tier # NoTier
  /\ IF page.name = "app" THEN OnTop("register") ELSE dialogs = {}

-----------------------------------------------------------------------------
(* The visitor. *)

\* A click in the history, or a link: the application routes it without a reload.
Navigate ==
  /\ page.visit < MaxVisits
  /\ \/ Mounted("app", NoTier) /\ UNCHANGED draft
     \/ \E link \in Links :
          /\ Mounted("inscription", ResolveInscriptionListing(link))
          /\ draft' = (draft \/ ResolveInscriptionListing(link) # NoTier)
  /\ UNCHANGED <<cache, script, checkout, server>>

\* Another link of the same route: the component stays, its form is mounted again.
ChangeLink ==
  /\ page.name = "inscription"
  /\ \E link \in Links : page' = [page EXCEPT !.tier = ResolveInscriptionListing(link)]
  /\ UNCHANGED <<dialogs, success, failure, ticket, downloading, submitting, draft, cache, script,
                 checkout, server>>

Over == [NoCheckout EXCEPT !.pc = "over"]
Killed == [n \in Checkouts |-> IF Live(n) THEN Over ELSE checkout[n]]

Reload ==
  /\ page.visit < MaxVisits
  /\ Mounted(page.name, IF page.name = "app" THEN NoTier ELSE page.tier)
  /\ cache' = NoCache
  /\ script' = "absent"
  /\ checkout' = Killed
  /\ UNCHANGED <<draft, server>>

\* The button of a card: goodies open the shop, passes the form.
BeginCheckout(t) ==
  /\ page.name = "app" /\ dialogs = {}
  /\ page' = [page EXCEPT !.tier = t]
  /\ dialogs' = {"register"}
  /\ draft' = TRUE
  /\ UNCHANGED <<success, failure, ticket, downloading, submitting, cache, script, checkout, server>>

\* The effect of the form saves every answer.
Answer ==
  /\ FormIsReachable
  /\ draft' = TRUE
  /\ UNCHANGED <<page, dialogs, success, failure, ticket, downloading, submitting, cache, script,
                 checkout, server>>

\* Only App forgets the ticket with the dialog.
CloseDialog ==
  /\ \E d \in dialogs :
       /\ OnTop(d)
       /\ dialogs' = dialogs \ {d}
       /\ ticket' = IF d = "success" /\ page.name = "app" THEN NoOrder ELSE ticket
  /\ UNCHANGED <<page, success, failure, downloading, submitting, draft, cache, script, checkout, server>>

\* Mutated form: the button is not disabled while a submission runs.
SubmitAgain(n, e) ==
  /\ FormIsReachable
  /\ checkout[n].pc = "none" /\ \A m \in Checkouts : m < n => checkout[m].pc # "none"
  /\ checkout' = [checkout EXCEPT ![n] =
       [NoCheckout EXCEPT !.pc = "resolve", !.visit = page.visit, !.page = page.name,
                          !.tier = page.tier, !.email = e]]
  /\ submitting' = TRUE
  /\ UNCHANGED <<page, dialogs, success, failure, ticket, downloading, draft, cache, script, server>>

HandleSubmit(n, e) == ~submitting /\ SubmitAgain(n, e)

-----------------------------------------------------------------------------
(* The chain of calls of a submission. *)

Goto(n, label) == checkout' = [checkout EXCEPT ![n].pc = label]
Throw(n, err) == checkout' = [checkout EXCEPT ![n].pc = "throw", ![n].error = err]

\* resolveLiveCheckoutProduct, with the catalogue at hand.
Resolved(n, products) ==
  IF checkout[n].tier \notin DOMAIN products THEN Throw(n, NotListed)
  ELSE checkout' = [checkout EXCEPT ![n].pc = "create",
                                    ![n].priced = products[checkout[n].tier] = "priced"]

ResolveCached(n) ==
  /\ checkout[n].pc = "resolve" /\ cache # NoCache
  /\ Resolved(n, cache)
  /\ UNCHANGED <<browser, server>>

\* loadBilletterieStorefront: what is on sale, an error when nothing is.
OnSale == {t \in Tiers : sale[t] # "off"}

LoadStorefront(n) ==
  /\ checkout[n].pc = "resolve" /\ cache = NoCache
  /\ IF OnSale = {} THEN \E err \in {NotListed, NothingPublished} : Throw(n, err) /\ UNCHANGED cache
     ELSE /\ cache' = [t \in OnSale |-> sale[t]]
          /\ Resolved(n, cache')
  /\ UNCHANGED <<page, dialogs, success, failure, ticket, downloading, submitting, draft, script, server>>

LoadFails(n) ==
  /\ checkout[n].pc = "resolve" /\ cache = NoCache
  /\ Throw(n, NetworkError)
  /\ UNCHANGED <<browser, server>>

\* What follows the answer of the server: the widget, a redirection, or nothing for a
\* pass that the cached catalogue sells; a verification for one it gives away.
AfterCreation(n, method) ==
  CASE ~checkout[n].priced -> "verify_free"
    [] checkout[n].priced /\ method = "token" -> "script"
    [] checkout[n].priced /\ method = "redirect" -> "redirect"
    [] OTHER -> "pending"

\* ordersApi.create.  The provider of a free order is the server's, and gives nothing.
Refused(n) == orders[checkout[n].email].status # "none" \/ sale[checkout[n].tier] = "off"

CreateOrder(n) ==
  /\ checkout[n].pc = "create" /\ ~Refused(n)
  /\ LET c == checkout[n]
         priced == sale[c.tier] = "priced"
     IN /\ orders' = [orders EXCEPT ![c.email] =
             [status |-> "pending", tier |-> c.tier, priced |-> priced,
              gateway |-> IF priced THEN "created" ELSE "none"]]
        /\ \/ Throw(n, NetworkError) /\ UNCHANGED dialogs      \* the answer is lost
           \/ \E method \in IF priced THEN Methods ELSE {"none"} :
                /\ Goto(n, AfterCreation(n, method))
                \* onPaymentStart
                /\ dialogs' = IF AfterCreation(n, method) = "script" /\ c.page = "app" /\ Current(n)
                                THEN dialogs \ {"register"} ELSE dialogs
  /\ UNCHANGED <<page, success, failure, ticket, downloading, submitting, draft, cache, script, sale, edits>>

CreationRefused(n) ==
  /\ checkout[n].pc = "create"
  /\ \/ orders[checkout[n].email].status # "none" /\ Throw(n, Duplicate)
     \/ \E err \in ServerErrors : Throw(n, err)
     \/ Throw(n, NetworkError)
  /\ UNCHANGED <<browser, server>>

\* loadCheckoutScript: one load for all that wait, forgotten when it fails.
LoadScript(n) ==
  /\ checkout[n].pc = "script"
  /\ IF script = "ready" THEN Goto(n, "widget") /\ UNCHANGED script
     ELSE script = "absent" /\ script' = "loading" /\ UNCHANGED checkout
  /\ UNCHANGED <<page, dialogs, success, failure, ticket, downloading, submitting, draft, cache, server>>

ScriptLoads ==
  /\ script = "loading"
  /\ script' = "ready"
  /\ UNCHANGED <<page, dialogs, success, failure, ticket, downloading, submitting, draft, cache,
                 checkout, server>>

ScriptFails ==
  /\ script = "loading"
  /\ script' = "absent"
  /\ checkout' = [n \in Checkouts |->
       IF checkout[n].pc = "script" THEN [checkout[n] EXCEPT !.pc = "rescue", !.error = ScriptError]
       ELSE checkout[n]]
  /\ UNCHANGED <<page, dialogs, success, failure, ticket, downloading, submitting, draft, cache, server>>

\* The visitor ends with the widget, which a modal would cover: paid, as far as it
\* knows, or closed.  A closed widget is verified once.
WidgetCloses(n) ==
  /\ checkout[n].pc = "widget" /\ dialogs = {}
  /\ \E tries \in {1, MaxAttempts} :
       checkout' = [checkout EXCEPT ![n].pc = "confirm", ![n].tries = tries]
  /\ UNCHANGED <<browser, server>>

\* POST /api/payments/verify: what the server answers, and what it settles.
Confirmed(e) == ~orders[e].priced \/ orders[e].gateway = "approved"
VerifyReplies(e) ==
  {"not_confirmed", "network_error"} \cup IF Confirmed(e) THEN {"ok", "lost", "ticketing"} ELSE {}
Verified(e, reply) ==
  orders' = IF reply \in {"ok", "lost"} THEN [orders EXCEPT ![e].status = "paid"] ELSE orders

\* confirmPayment: 402 is asked again, anything else is thrown (to payWithFedapay).
AskAgain(n) == IF checkout[n].tries > 1 THEN "confirm" ELSE "recover"

ConfirmPayment(n) ==
  /\ checkout[n].pc = "confirm"
  /\ \E reply \in VerifyReplies(checkout[n].email) :
       /\ Verified(checkout[n].email, reply)
       /\ CASE reply = "ok" -> Goto(n, "paid")
            [] reply = "not_confirmed" ->
                 checkout' = [checkout EXCEPT ![n].pc = AskAgain(n), ![n].tries = @ - 1]
            [] OTHER ->
                 checkout' = [checkout EXCEPT ![n].pc = "rescue", ![n].error =
                   IF reply = "ticketing" THEN TicketingUnavailable ELSE NetworkError]
  /\ UNCHANGED <<browser, sale, edits>>

\* recoverPaidOrder: the order of a guest has tickets once it is paid.
RecoverAnyOrder(n) ==                             \* mutated form: the order exists
  /\ checkout[n].pc \in {"recover", "rescue"}
  /\ Goto(n, "paid")
  /\ UNCHANGED <<browser, server>>

Recover(n) ==
  /\ checkout[n].pc \in {"recover", "rescue"}
  /\ \/ orders[checkout[n].email].status = "paid" /\ Goto(n, "paid")
     \/ Goto(n, IF checkout[n].pc = "recover" THEN "pending" ELSE "throw")
  /\ UNCHANGED <<browser, server>>

\* A free pass: whatever becomes of the verification, it is confirmed.
VerifyFree(n) ==
  /\ checkout[n].pc = "verify_free"
  /\ \E reply \in VerifyReplies(checkout[n].email) :
       /\ Verified(checkout[n].email, reply)
       /\ Goto(n, "free_confirmed")
  /\ UNCHANGED <<browser, sale, edits>>

\* The end of handleSubmit.  A page that is gone shows nothing, but the draft is the
\* session's.
Outcomes == {"free_confirmed", "paid", "pending", "redirect"}

Succeeds(n, title) ==
  /\ checkout[n].pc \in Outcomes
  /\ draft' = FALSE
  /\ IF Current(n)
     THEN /\ dialogs' = (dialogs \ IF page.name = "app" THEN {"register"} ELSE {}) \cup {"success"}
          /\ success' = [outcome |-> checkout[n].pc, title |-> title, email |-> checkout[n].email]
          /\ ticket' = IF checkout[n].pc \in {"free_confirmed", "paid"} THEN checkout[n].email ELSE NoOrder
          /\ submitting' = FALSE
     ELSE UNCHANGED <<dialogs, success, ticket, submitting>>
  /\ checkout' = [checkout EXCEPT ![n] =
       IF checkout[n].pc = "redirect" THEN [@ EXCEPT !.pc = "leave"] ELSE Over]
  /\ UNCHANGED <<page, failure, downloading, cache, script, server>>

ShowSuccessOfListing(n) == Succeeds(n, page.tier)   \* mutated form: the listing open now
ShowSuccess(n) == Succeeds(n, checkout[n].tier)

Fails(n, kept, busy) ==
  /\ checkout[n].pc = "throw"
  /\ IF Current(n)
     THEN /\ dialogs' = dialogs \cup {"failure"}
          /\ failure' = [copy |-> CheckoutFailureCopy(checkout[n].error),
                         text |-> checkout[n].error.text, email |-> checkout[n].email]
          /\ submitting' = busy
     ELSE UNCHANGED <<dialogs, failure, submitting>>
  /\ checkout' = [checkout EXCEPT ![n] = Over]
  /\ draft' = kept
  /\ UNCHANGED <<page, success, ticket, downloading, cache, script, server>>

FailureErasesDraft(n) == Fails(n, FALSE, FALSE)    \* mutated form
FailureStaysBusy(n) == Fails(n, draft, TRUE)       \* mutated form: no finally
ShowFailure(n) == Fails(n, draft, FALSE)

\* 1.2 s after a redirection was announced, the browser leaves for the provider; here
\* it comes back to the landing page.
Leave(n) ==
  /\ checkout[n].pc = "leave"
  /\ Mounted("app", NoTier)
  /\ cache' = NoCache /\ script' = "absent"
  /\ checkout' = Killed
  /\ UNCHANGED <<draft, server>>

-----------------------------------------------------------------------------
(* The tickets of a confirmed order. *)

HandleDownloadTicket ==
  /\ OnTop("success") /\ ticket # NoOrder /\ downloading = NoOrder
  /\ downloading' = ticket
  /\ UNCHANGED <<page, dialogs, success, failure, ticket, submitting, draft, cache, script, checkout, server>>

DownloadEnds ==
  /\ downloading # NoOrder
  /\ downloading' = NoOrder
  /\ \/ orders[downloading].status = "paid" /\ UNCHANGED <<dialogs, failure>>
     \/ \E err \in {NetworkError} \cup IF orders[downloading].status = "paid" THEN {} ELSE {NotReady} :
          /\ dialogs' = dialogs \cup {"failure"}
          /\ failure' = [copy |-> CheckoutFailureCopy(err), text |-> err.text, email |-> downloading]
  /\ UNCHANGED <<page, success, ticket, submitting, draft, cache, script, checkout, server>>

-----------------------------------------------------------------------------
(* The rest of the world. *)

\* The buyer pays, or not, with the widget or later on a telephone.
GatewayDecides(e) ==
  /\ orders[e].gateway = "created"
  /\ \E verdict \in {"approved", "declined"} : orders' = [orders EXCEPT ![e].gateway = verdict]
  /\ UNCHANGED <<browser, checkout, sale, edits>>

\* The webhook of the provider settles the order.
WebhookSettles(e) ==
  /\ orders[e].gateway = "approved" /\ orders[e].status = "pending"
  /\ orders' = [orders EXCEPT ![e].status = "paid"]
  /\ UNCHANGED <<browser, checkout, sale, edits>>

\* An organizer edits a ticket type, or the last pass is sold to somebody else.
Edit(t) ==
  /\ edits < MaxEdits
  /\ edits' = edits + 1
  /\ \E p \in Prices \ {sale[t]} : sale' = [sale EXCEPT ![t] = p]
  /\ UNCHANGED <<browser, checkout, orders>>

Call(n) ==
  \/ ResolveCached(n) \/ LoadStorefront(n) \/ LoadFails(n) \/ CreateOrder(n) \/ CreationRefused(n)
  \/ LoadScript(n) \/ ConfirmPayment(n) \/ Recover(n) \/ VerifyFree(n) \/ ShowSuccess(n)
  \/ ShowFailure(n) \/ Leave(n)

Next ==
  \/ Navigate \/ ChangeLink \/ Reload \/ Answer \/ CloseDialog
  \/ \E t \in Tiers : BeginCheckout(t) \/ Edit(t)
  \/ \E n \in Checkouts : WidgetCloses(n) \/ Call(n) \/ \E e \in Emails : HandleSubmit(n, e)
  \/ ScriptLoads \/ ScriptFails \/ HandleDownloadTicket \/ DownloadEnds
  \/ \E e \in Emails : GatewayDecides(e) \/ WebhookSettles(e)

\* Requests are answered or fail (fetch, and the events of a script element); visitors
\* close the dialogs that cover a widget, and end with the widget.
Fairness ==
  /\ \A n \in Checkouts : WF_vars(Call(n)) /\ SF_vars(WidgetCloses(n))
  /\ WF_vars(ScriptLoads \/ ScriptFails)
  /\ WF_vars(CloseDialog)

Spec == Init /\ [][Next]_vars /\ Fairness

-----------------------------------------------------------------------------
\* The page, the calls and the server keep their types.
TypeOK ==
  /\ page \in [name : {"app", "inscription"}, visit : Nat, tier : Tiers \cup {NoTier}]
  /\ dialogs \subseteq {"register", "success", "failure"}
  /\ submitting \in BOOLEAN /\ draft \in BOOLEAN
  /\ ticket \in Emails \cup {NoOrder} /\ downloading \in Emails \cup {NoOrder}
  /\ script \in {"absent", "loading", "ready"}
  /\ \A e \in Emails : orders[e].status \in {"none", "pending", "paid"}
  /\ \A n \in Checkouts : checkout[n].tries \in 0 .. MaxAttempts

\* "Paiement confirmé" is only said of an order the server holds as paid, whatever the
\* widget reported (fedapay-checkout.ts: its result only serves the interface).
PaidIsTrue == success.outcome = "paid" => orders[success.email].status = "paid"

\* The title of a confirmation is the pass of the order, even when the visitor opened
\* another listing while the payment ran (handleSubmit captures it).
ConfirmationsNameTheRightPass ==
  success.outcome # "none" => orders[success.email].tier = success.title

\* A page runs one checkout at a time: no double click, and no dialog closed and opened
\* again, submits a second form while the first is being paid.
OneCheckoutPerPage == Cardinality({n \in Checkouts : Current(n) /\ checkout[n].pc # "leave"}) <= 1

\* "Votre paiement est enregistré" is only said once the provider approved the payment.
TicketOnItsWayIsPaidFor ==
  failure.copy = "ticket_on_its_way" => orders[failure.email].gateway = "approved"

\* A dialog never quotes a technical message (checkoutFailureCopy).
NoJargonIsShown == failure.copy = "message" => failure.text = "french"

\* The answers of a form leave the session only for an order that the server has: a
\* failure, even one that is lost on the way, keeps them.
ClearedDraftsWereOrdered ==
  [][draft /\ ~draft' =>
       \E n \in Checkouts : Live(n) /\ checkout'[n] # checkout[n]
                            /\ orders[checkout[n].email].status # "none"]_vars

\* What the dialogs and the page say, whatever the widget, the network and other listings do
\* meanwhile: types, the right pass, a paid ticket on its way, no jargon, one checkout a page.
DialogsAreTrue ==
  /\ TypeOK /\ ConfirmationsNameTheRightPass /\ OneCheckoutPerPage
  /\ TicketOnItsWayIsPaidFor /\ NoJargonIsShown

\* The form is never disabled for good: every submission ends in a dialog.
SubmissionsEnd == submitting ~> ~submitting

-----------------------------------------------------------------------------
(* Two statements of the source that the code does not keep, and that no run checks; TLC   *)
(* refutes each of them when Storefront.cfg lists it.                                      *)

\* billetterie-checkout.ts:70: a free pass is settled on the server when it is announced.
\* Not so when the server refused or never saw the verification, whose failure is ignored.
FreeConfirmationsAreTrue ==
  success.outcome = "free_confirmed" => orders[success.email].status = "paid"

\* RegistrationWizard.tsx:102: the draft is erased in case of success only, so that nothing is
\* lost if the payment fails.  Not so for a payment that is dismissed or still pending.
DraftSurvivesFailedPayments ==
  [][draft /\ ~draft' =>
       \E n \in Checkouts : checkout[n].pc \in Outcomes /\ checkout'[n] # checkout[n]
                            /\ orders[checkout[n].email].status = "paid"]_vars
=============================================================================
