--------------------------- MODULE StorefrontProofs ---------------------------
(***************************************************************************)
(* Theorems about the checkout of the public site, for any number of       *)
(* addresses, links, submissions, mounts and edits of the catalogue.       *)
(*                                                                         *)
(* What a dialog says is read from the chain of calls that ends in it, and *)
(* the server moves on meanwhile.  So the invariant Shop says of each step *)
(* of the chain what the server must hold by then (Claims), that nothing   *)
(* the server does takes it back (Progress), and that the chain that ends  *)
(* on a page is the only one the page started (Alone).                     *)
(***************************************************************************)
EXTENDS Storefront, FiniteSetTheorems, TLAPS

\* Steps of the chain at which the server has the order.
Ordered ==
  {"script", "widget", "confirm", "recover", "rescue", "verify_free", "leave"} \cup Outcomes

Labels == {"none", "over", "resolve", "create", "throw"} \cup Ordered

Thrown ==
  {NetworkError, Duplicate, TicketingUnavailable, NotListed, NothingPublished, ScriptError} \cup ServerErrors

CallType ==
  [pc : Labels, visit : Nat, page : {"app", "inscription"}, tier : Tiers \cup {NoTier},
   email : Emails \cup {NoOrder}, priced : BOOLEAN, tries : 0 .. MaxAttempts,
   error : Thrown \cup {NoError}]

OrderType ==
  [status : {"none", "pending", "paid"}, tier : Tiers \cup {NoTier}, priced : BOOLEAN,
   gateway : {"none", "created", "approved", "declined"}]

Typed ==
  /\ TypeOK
  /\ checkout \in [Checkouts -> CallType]
  /\ orders \in [Emails -> OrderType]
  /\ \A e \in Emails : orders[e].status = "none" => orders[e].gateway = "none"

\* What the server and the page hold when call c of a submission is at its step.
ClaimOf(c) ==
  /\ c.pc \notin {"none", "over"} => c.email \in Emails /\ c.visit <= page.visit
  /\ c.pc \in Ordered => orders[c.email].status # "none" /\ orders[c.email].tier = c.tier
  /\ c.pc \in {"script", "widget", "confirm", "recover"} => orders[c.email].priced
  /\ c.pc = "confirm" => c.tries > 0
  /\ c.pc = "paid" => orders[c.email].status = "paid"
  /\ c.pc \in {"rescue", "throw"} /\ c.error.code = "ticketing_unavailable" =>
       orders[c.email].gateway = "approved"

Claims == \A n \in Checkouts : ClaimOf(checkout[n])

\* What the dialogs say.
Said ==
  /\ success.outcome # "none" =>
       /\ success.email \in Emails
       /\ orders[success.email].status # "none"
       /\ orders[success.email].tier = success.title
  /\ success.outcome = "paid" => orders[success.email].status = "paid"
  /\ failure.copy = "ticket_on_its_way" =>
       failure.email \in Emails /\ orders[failure.email].gateway = "approved"
  /\ NoJargonIsShown

Busy(n) == Current(n) /\ checkout[n].pc # "leave"

\* The form of a page is disabled while its checkout runs, so that there is one.
Alone ==
  /\ \A n \in Checkouts : Busy(n) => submitting
  /\ \A m, n \in Checkouts : Busy(m) /\ Busy(n) => m = n

Shop == Typed /\ Claims /\ Said /\ Alone

-----------------------------------------------------------------------------
(* The server only moves on. *)

Progress(e) ==
  /\ orders[e].status # "none" =>
       /\ orders'[e].status # "none"
       /\ orders'[e].tier = orders[e].tier
       /\ orders[e].priced => orders'[e].priced
  /\ orders[e].status = "paid" => orders'[e].status = "paid"
  /\ orders[e].gateway = "approved" => orders'[e].gateway = "approved"

\* A verification settles an order or leaves it alone.
LEMMA VerifiedMovesOn ==
  ASSUME Typed, NEW d \in Emails, orders[d].status # "none", NEW reply, Verified(d, reply)
  PROVE  /\ orders' \in [Emails -> OrderType]
         /\ \A e \in Emails : orders'[e].status = "none" => orders'[e].gateway = "none"
         /\ \A e \in Emails : Progress(e)
         /\ reply = "ok" => orders'[d].status = "paid"
BY DEF Verified, Typed, OrderType, Progress

\* A creation takes an address without an order.
LEMMA CreationMovesOn ==
  ASSUME Shop, NEW n \in Checkouts, CreateOrder(n)
  PROVE  /\ orders' \in [Emails -> OrderType]
         /\ \A e \in Emails : orders'[e].status = "none" => orders'[e].gateway = "none"
         /\ \A e \in Emails : Progress(e)
         /\ checkout[n].email \in Emails
         /\ orders'[checkout[n].email].status # "none"
         /\ orders'[checkout[n].email].tier = checkout[n].tier
         /\ orders'[checkout[n].email].priced <=> sale[checkout[n].tier] = "priced"
<1> DEFINE e0 == checkout[n].email
           p0 == sale[checkout[n].tier] = "priced"
           o0 == [status |-> "pending", tier |-> checkout[n].tier, priced |-> p0,
                  gateway |-> IF p0 THEN "created" ELSE "none"]
<1>1. e0 \in Emails /\ checkout[n].tier \in Tiers \cup {NoTier}
  BY DEF Shop, Typed, Claims, ClaimOf, CreateOrder, CallType
<1>2. orders' = [orders EXCEPT ![e0] = o0] /\ orders[e0].status = "none"
  BY <1>1 DEF CreateOrder, Refused
<1>3. o0 \in OrderType
  BY <1>1 DEF OrderType
<1>4. orders[e0].gateway = "none"
  BY <1>1, <1>2 DEF Shop, Typed
<1> HIDE DEF o0
<1>5. /\ o0.status = "pending" /\ o0.tier = checkout[n].tier
      /\ o0.priced <=> p0
  BY DEF o0
<1>6. orders \in [Emails -> OrderType]
      /\ \A e \in Emails : orders[e].status = "none" => orders[e].gateway = "none"
  BY DEF Shop, Typed
<1> HIDE DEF e0, p0
<1>7. orders' \in [Emails -> OrderType]
  BY <1>2, <1>3, <1>6
<1>8. \A e \in Emails : Progress(e)
  BY <1>1, <1>2, <1>4, <1>5, <1>6 DEF Progress
<1>9. \A e \in Emails : orders'[e].status = "none" => orders'[e].gateway = "none"
  BY <1>1, <1>2, <1>5, <1>6
<1>10. /\ orders'[e0].status # "none" /\ orders'[e0].tier = checkout[n].tier
       /\ orders'[e0].priced <=> p0
  BY <1>1, <1>2, <1>5, <1>6
<1> QED
  BY <1>1, <1>7, <1>8, <1>9, <1>10 DEF e0, p0

\* Whatever happens, orders keep their types and move on.
LEMMA OrdersMoveOn ==
  ASSUME Shop, Next
  PROVE  /\ orders' \in [Emails -> OrderType]
         /\ \A e \in Emails : orders'[e].status = "none" => orders'[e].gateway = "none"
         /\ \A e \in Emails : Progress(e)
<1>1. ASSUME UNCHANGED orders
      PROVE  /\ orders' \in [Emails -> OrderType]
             /\ \A e \in Emails : orders'[e].status = "none" => orders'[e].gateway = "none"
             /\ \A e \in Emails : Progress(e)
  BY <1>1 DEF Shop, Typed, Progress
<1>2. ASSUME NEW n \in Checkouts, CreateOrder(n)
      PROVE  /\ orders' \in [Emails -> OrderType]
             /\ \A e \in Emails : orders'[e].status = "none" => orders'[e].gateway = "none"
             /\ \A e \in Emails : Progress(e)
  BY <1>2, CreationMovesOn
<1>3. ASSUME NEW n \in Checkouts, ConfirmPayment(n) \/ VerifyFree(n)
      PROVE  /\ orders' \in [Emails -> OrderType]
             /\ \A e \in Emails : orders'[e].status = "none" => orders'[e].gateway = "none"
             /\ \A e \in Emails : Progress(e)
  <2>1. PICK reply : Verified(checkout[n].email, reply)
    BY <1>3 DEF ConfirmPayment, VerifyFree
  <2>2. checkout[n].email \in Emails /\ orders[checkout[n].email].status # "none"
    BY <1>3 DEF ConfirmPayment, VerifyFree, Shop, Claims, ClaimOf, Ordered
  <2> QED
    BY <2>1, <2>2, VerifiedMovesOn DEF Shop
<1>4. ASSUME NEW d \in Emails, GatewayDecides(d) \/ WebhookSettles(d)
      PROVE  /\ orders' \in [Emails -> OrderType]
             /\ \A e \in Emails : orders'[e].status = "none" => orders'[e].gateway = "none"
             /\ \A e \in Emails : Progress(e)
  BY <1>4 DEF GatewayDecides, WebhookSettles, Shop, Typed, OrderType, Progress
<1>5. ASSUME Navigate \/ ChangeLink \/ Reload \/ Answer \/ CloseDialog \/ ScriptLoads \/ ScriptFails
              \/ HandleDownloadTicket \/ DownloadEnds
      PROVE  UNCHANGED orders
  BY <1>5 DEF Navigate, ChangeLink, Reload, Answer, CloseDialog, ScriptLoads, ScriptFails,
              HandleDownloadTicket, DownloadEnds, server
<1>6. ASSUME NEW t \in Tiers, BeginCheckout(t) \/ Edit(t)
      PROVE  UNCHANGED orders
  BY <1>6 DEF BeginCheckout, Edit, server
<1>7. ASSUME NEW n \in Checkouts, NEW e \in Emails, HandleSubmit(n, e)
      PROVE  UNCHANGED orders
  BY <1>7 DEF HandleSubmit, SubmitAgain, server
<1>8. ASSUME NEW n \in Checkouts,
             \/ WidgetCloses(n) \/ ResolveCached(n) \/ LoadStorefront(n) \/ LoadFails(n)
             \/ CreationRefused(n) \/ LoadScript(n) \/ Recover(n) \/ ShowSuccess(n)
             \/ ShowFailure(n) \/ Leave(n)
      PROVE  UNCHANGED orders
  BY <1>8 DEF WidgetCloses, ResolveCached, LoadStorefront, LoadFails, CreationRefused, LoadScript,
              Recover, ShowSuccess, Succeeds, ShowFailure, Fails, Leave, server
<1> QED
  BY <1>1, <1>2, <1>3, <1>4, <1>5, <1>6, <1>7, <1>8 DEF Next, Call

-----------------------------------------------------------------------------
(* The chains of calls. *)

\* What is claimed of a call stays true while the call waits.
LEMMA ClaimsStay ==
  ASSUME Shop, Next, NEW n \in Checkouts,
         checkout'[n] = checkout[n], page'.visit \in Nat, page.visit <= page'.visit
  PROVE  ClaimOf(checkout[n])'
<1>1. /\ checkout[n] \in CallType
      /\ ClaimOf(checkout[n])
      /\ page.visit \in Nat
  BY DEF Shop, Typed, TypeOK, Claims
<1>2. \A e \in Emails : Progress(e)
  BY OrdersMoveOn
<1>3. checkout[n].visit \in Nat
  BY <1>1 DEF CallType
<1>4. /\ checkout[n].pc \in Ordered => checkout[n].pc \notin {"none", "over"}
      /\ checkout[n].pc \in {"script", "widget", "confirm", "recover"} => checkout[n].pc \in Ordered
      /\ checkout[n].pc = "paid" => checkout[n].pc \in Ordered
  BY DEF Ordered, Outcomes
<1> QED
  BY <1>1, <1>2, <1>3, <1>4 DEF ClaimOf, Progress

\* Hence a step of one call has to answer for that call alone.
LEMMA CallSteps ==
  ASSUME Shop, Next, NEW n \in Checkouts,
         checkout' = [checkout EXCEPT ![n] = checkout'[n]], checkout'[n] \in CallType,
         page'.visit \in Nat, page.visit <= page'.visit, ClaimOf(checkout[n])'
  PROVE  checkout' \in [Checkouts -> CallType] /\ Claims'
<1>1. checkout \in [Checkouts -> CallType]
  BY DEF Shop, Typed
<1>2. checkout' \in [Checkouts -> CallType]
  BY <1>1
<1>3. ASSUME NEW m \in Checkouts
      PROVE  ClaimOf(checkout[m])'
  <2>1. CASE m = n
    BY <1>1, <2>1
  <2>2. CASE m # n
    <3>1. checkout'[m] = checkout[m]
      BY <1>1, <2>2
    <3> QED
      BY <3>1, ClaimsStay
  <2> QED
    BY <2>1, <2>2
<1> QED
  BY <1>2, <1>3 DEF Claims

\* A page that is mounted or changes its listing counts its visits.
LEMMA VisitsGrow ==
  ASSUME Typed, Next
  PROVE  /\ page' \in [name : {"app", "inscription"}, visit : Nat, tier : Tiers \cup {NoTier}]
         /\ page.visit <= page'.visit
<1> USE DEF Typed, TypeOK
<1>1. \A link \in Links : ResolveInscriptionListing(link) \in Tiers \cup {NoTier}
  BY DEF ResolveInscriptionListing, TierFromSlug
<1>2. CASE Navigate
  BY <1>1, <1>2 DEF Navigate, Mounted
<1>3. CASE ChangeLink
  BY <1>1, <1>3 DEF ChangeLink
<1>4. CASE Reload
  BY <1>4 DEF Reload, Mounted
<1>5. ASSUME NEW t \in Tiers, BeginCheckout(t)
      PROVE  /\ page' \in [name : {"app", "inscription"}, visit : Nat, tier : Tiers \cup {NoTier}]
             /\ page.visit <= page'.visit
  BY <1>5 DEF BeginCheckout
<1>6. ASSUME NEW n \in Checkouts, Leave(n)
      PROVE  /\ page' \in [name : {"app", "inscription"}, visit : Nat, tier : Tiers \cup {NoTier}]
             /\ page.visit <= page'.visit
  BY <1>6 DEF Leave, Mounted
<1>7. ASSUME UNCHANGED page
      PROVE  /\ page' \in [name : {"app", "inscription"}, visit : Nat, tier : Tiers \cup {NoTier}]
             /\ page.visit <= page'.visit
  BY <1>7
<1>8. ASSUME \/ Answer \/ CloseDialog \/ ScriptLoads \/ ScriptFails \/ HandleDownloadTicket
             \/ DownloadEnds
             \/ \E t \in Tiers : Edit(t)
             \/ \E e \in Emails : GatewayDecides(e) \/ WebhookSettles(e)
      PROVE  UNCHANGED page
  BY <1>8 DEF Answer, CloseDialog, ScriptLoads, ScriptFails, HandleDownloadTicket, DownloadEnds,
              Edit, GatewayDecides, WebhookSettles, browser
<1>9. ASSUME NEW n \in Checkouts,
             \/ WidgetCloses(n) \/ ResolveCached(n) \/ LoadStorefront(n) \/ LoadFails(n)
             \/ CreateOrder(n) \/ CreationRefused(n) \/ LoadScript(n) \/ ConfirmPayment(n)
             \/ Recover(n) \/ VerifyFree(n) \/ ShowSuccess(n) \/ ShowFailure(n)
             \/ \E e \in Emails : HandleSubmit(n, e)
      PROVE  UNCHANGED page
  BY <1>9 DEF WidgetCloses, ResolveCached, LoadStorefront, LoadFails, CreateOrder, CreationRefused,
              LoadScript, ConfirmPayment, Recover, VerifyFree, ShowSuccess, Succeeds, ShowFailure,
              Fails, HandleSubmit, SubmitAgain, browser
<1> QED
  BY <1>2, <1>3, <1>4, <1>5, <1>6, <1>7, <1>8, <1>9 DEF Next, Call

\* A call that was killed, or has ended, claims nothing.
LEMMA EndedCallsClaimNothing ==
  /\ Over \in CallType /\ Over.pc = "over"
  /\ \A c : c.pc = "over" => ClaimOf(c)'
<1>1. 0 \in 0 .. MaxAttempts /\ {"none", "over"} \subseteq Labels
  BY StorefrontAssumption DEF Labels
<1>2. NoCheckout \in CallType
  BY <1>1 DEF NoCheckout, CallType
<1>3. Over \in CallType /\ Over.pc = "over"
  BY <1>1, <1>2 DEF Over, CallType
<1>4. \A c : c.pc = "over" => ClaimOf(c)'
  BY DEF ClaimOf, Ordered, Outcomes
<1> QED
  BY <1>3, <1>4

CallsKept == checkout' \in [Checkouts -> CallType] /\ Claims'

\* Of the errors, one says that a ticket is on its way.
LEMMA ErrorsOfCalls ==
  /\ \A err \in Thrown \ {TicketingUnavailable} : err.code # "ticketing_unavailable"
  /\ {NetworkError, Duplicate, TicketingUnavailable, NotListed, NothingPublished, ScriptError} \subseteq Thrown
BY StorefrontAssumption
   DEF Thrown, NetworkError, Duplicate, TicketingUnavailable, NotListed, NothingPublished, ScriptError, Error

\* A call that throws claims nothing, but for the error of a paid order without tickets.
LEMMA ThrowsAreKept ==
  ASSUME Shop, Next, UNCHANGED page, NEW n \in Checkouts, Live(n),
         NEW err \in Thrown, Throw(n, err), err # TicketingUnavailable
  PROVE  CallsKept
<1> DEFINE c == [checkout[n] EXCEPT !.pc = "throw", !.error = err]
<1>1. checkout[n] \in CallType /\ ClaimOf(checkout[n]) /\ checkout \in [Checkouts -> CallType]
  BY DEF Shop, Typed, Claims
<1>2. c \in CallType /\ c.pc = "throw" /\ c.error = err
      /\ c.email = checkout[n].email /\ c.visit = checkout[n].visit
  BY <1>1 DEF CallType, Labels
<1>3. checkout' = [checkout EXCEPT ![n] = c] /\ checkout'[n] = c
  BY <1>1 DEF Throw
<1> HIDE DEF c
<1>4. c.error.code # "ticketing_unavailable"
  BY <1>2, ErrorsOfCalls
<1>5. ClaimOf(checkout[n])'
  BY <1>1, <1>2, <1>3, <1>4 DEF ClaimOf, Ordered, Outcomes, Live
<1>6. page'.visit \in Nat /\ page.visit <= page'.visit
  BY VisitsGrow DEF Shop
<1> QED
  BY <1>2, <1>3, <1>5, <1>6, CallSteps DEF CallsKept

\* A call goes to a step that claims what holds.
LEMMA GotosAreKept ==
  ASSUME Shop, Next, UNCHANGED page, NEW n \in Checkouts, Live(n),
         NEW label \in Labels, Goto(n, label),
         label \in Ordered =>
           /\ orders'[checkout[n].email].status # "none"
           /\ orders'[checkout[n].email].tier = checkout[n].tier,
         label \in {"script", "widget", "recover"} => orders'[checkout[n].email].priced,
         label = "paid" => orders'[checkout[n].email].status = "paid",
         label # "confirm",
         label \in {"rescue", "throw"} => checkout[n].pc = "rescue"
  PROVE  CallsKept
<1> DEFINE c == [checkout[n] EXCEPT !.pc = label]
<1>1. checkout[n] \in CallType /\ ClaimOf(checkout[n]) /\ checkout \in [Checkouts -> CallType]
  BY DEF Shop, Typed, Claims
<1>2. c \in CallType /\ c.pc = label /\ c.error = checkout[n].error /\ c.tier = checkout[n].tier
      /\ c.email = checkout[n].email /\ c.visit = checkout[n].visit
  BY <1>1 DEF CallType
<1>3. checkout' = [checkout EXCEPT ![n] = c] /\ checkout'[n] = c
  BY <1>1 DEF Goto
<1> HIDE DEF c
<1>4. checkout[n].email \in Emails /\ checkout[n].visit <= page.visit
  BY <1>1 DEF ClaimOf, Live
<1>5. checkout[n].pc = "rescue" /\ checkout[n].error.code = "ticketing_unavailable" =>
        orders'[checkout[n].email].gateway = "approved"
  BY <1>1, <1>4, OrdersMoveOn DEF ClaimOf, Progress
<1>6. ClaimOf(checkout[n])'
  BY <1>2, <1>3, <1>4, <1>5 DEF ClaimOf
<1>7. page'.visit \in Nat /\ page.visit <= page'.visit
  BY VisitsGrow DEF Shop
<1> QED
  BY <1>2, <1>3, <1>6, <1>7, CallSteps DEF CallsKept

\* The catalogue: the submission knows its pass, or that it is not listed.
LEMMA ResolutionsAreKept ==
  ASSUME Shop, Next, UNCHANGED page, NEW n \in Checkouts, Live(n), NEW products,
         Resolved(n, products)
  PROVE  CallsKept
<1>1. CASE checkout[n].tier \notin DOMAIN products
  BY <1>1, ErrorsOfCalls, ThrowsAreKept
     DEF Resolved, NotListed, TicketingUnavailable, Error
<1>2. CASE checkout[n].tier \in DOMAIN products
  <2> DEFINE p == products[checkout[n].tier] = "priced"
             c == [checkout[n] EXCEPT !.pc = "create", !.priced = p]
  <2>1. checkout[n] \in CallType /\ ClaimOf(checkout[n]) /\ checkout \in [Checkouts -> CallType]
    BY DEF Shop, Typed, Claims
  <2>2. p \in BOOLEAN
    OBVIOUS
  <2>3. checkout' = [checkout EXCEPT ![n] = c] /\ checkout'[n] = c
    BY <1>2, <2>1 DEF Resolved
  <2> HIDE DEF p
  <2>4. c \in CallType /\ c.pc = "create"
        /\ c.email = checkout[n].email /\ c.visit = checkout[n].visit
    BY <2>1, <2>2 DEF CallType, Labels
  <2> HIDE DEF c
  <2>5. ClaimOf(checkout[n])'
    BY <2>1, <2>3, <2>4 DEF ClaimOf, Ordered, Outcomes, Live
  <2>6. page'.visit \in Nat /\ page.visit <= page'.visit
    BY VisitsGrow DEF Shop
  <2> QED
    BY <2>3, <2>4, <2>5, <2>6, CallSteps DEF CallsKept
<1> QED
  BY <1>1, <1>2
\* A creation has the widget opened for an order that has a price.
LEMMA CreationsAreKept ==
  ASSUME Shop, Next, NEW n \in Checkouts, CreateOrder(n)
  PROVE  CallsKept
<1>1. UNCHANGED page /\ Live(n)
  BY DEF CreateOrder, Live
<1>2. /\ orders'[checkout[n].email].status # "none"
      /\ orders'[checkout[n].email].tier = checkout[n].tier
      /\ orders'[checkout[n].email].priced <=> sale[checkout[n].tier] = "priced"
  BY CreationMovesOn
<1>3. CASE Throw(n, NetworkError)
  BY <1>1, <1>3, ErrorsOfCalls, ThrowsAreKept DEF NetworkError, TicketingUnavailable, Error
<1>4. ASSUME NEW method \in IF sale[checkout[n].tier] = "priced" THEN Methods ELSE {"none"},
             Goto(n, AfterCreation(n, method))
      PROVE  CallsKept
  <2>1. AfterCreation(n, method) \in {"verify_free", "script", "redirect", "pending"}
    BY DEF AfterCreation
  <2>2. AfterCreation(n, method) \in Labels
    BY <2>1 DEF Labels, Ordered, Outcomes
  <2>3. AfterCreation(n, method) = "script" => sale[checkout[n].tier] = "priced"
    BY DEF AfterCreation
  <2> HIDE DEF AfterCreation
  <2> QED
    BY <1>1, <1>2, <1>4, <2>1, <2>2, <2>3, GotosAreKept
<1> QED
  BY <1>3, <1>4 DEF CreateOrder

\* A confirmation ends with a paid order, asks again, or is thrown.
LEMMA ConfirmationsAreKept ==
  ASSUME Shop, Next, NEW n \in Checkouts, ConfirmPayment(n)
  PROVE  CallsKept
<1> DEFINE e == checkout[n].email
<1>1. /\ UNCHANGED page /\ Live(n)
      /\ page'.visit \in Nat /\ page.visit <= page'.visit
  BY VisitsGrow DEF ConfirmPayment, Live, browser, Shop
<1>2. checkout[n] \in CallType /\ ClaimOf(checkout[n]) /\ checkout \in [Checkouts -> CallType]
  BY DEF Shop, Typed, Claims
<1>3. /\ checkout[n].pc = "confirm" /\ e \in Emails /\ checkout[n].visit <= page.visit
      /\ orders[e].status # "none" /\ orders[e].tier = checkout[n].tier /\ orders[e].priced
      /\ checkout[n].tries \in 0 .. MaxAttempts /\ checkout[n].tries > 0
  BY <1>2 DEF ConfirmPayment, ClaimOf, Ordered, CallType
<1>4. /\ orders'[e].status # "none" /\ orders'[e].tier = checkout[n].tier /\ orders'[e].priced
      /\ orders[e].gateway = "approved" => orders'[e].gateway = "approved"
  BY <1>3, OrdersMoveOn DEF Progress
<1>5. PICK reply \in VerifyReplies(e) :
        /\ Verified(e, reply)
        /\ CASE reply = "ok" -> Goto(n, "paid")
             [] reply = "not_confirmed" ->
                  checkout' = [checkout EXCEPT ![n].pc = AskAgain(n), ![n].tries = @ - 1]
             [] OTHER ->
                  checkout' = [checkout EXCEPT ![n].pc = "rescue", ![n].error =
                    IF reply = "ticketing" THEN TicketingUnavailable ELSE NetworkError]
  BY DEF ConfirmPayment
<1>6. CASE reply = "ok"
  <2>1. Goto(n, "paid")
    BY <1>5, <1>6
  <2>2. orders'[e].status = "paid"
    BY <1>3, <1>5, <1>6, VerifiedMovesOn DEF Shop
  <2>3. "paid" \in Labels
    BY DEF Labels, Ordered, Outcomes
  <2> QED
    BY <1>1, <1>4, <2>1, <2>2, <2>3, GotosAreKept
<1>7. CASE reply = "not_confirmed"
  <2> DEFINE c == [checkout[n] EXCEPT !.pc = AskAgain(n), !.tries = @ - 1]
  <2>1. checkout' = [checkout EXCEPT ![n] = c] /\ checkout'[n] = c
    BY <1>2, <1>5, <1>7
  <2>2. /\ AskAgain(n) \in {"confirm", "recover"}
        /\ AskAgain(n) = "confirm" => checkout[n].tries > 1
    BY DEF AskAgain
  <2>3. checkout[n].tries - 1 \in 0 .. MaxAttempts
    BY <1>3, StorefrontAssumption
  <2> HIDE DEF AskAgain
  <2>4. /\ c \in CallType /\ c.pc = AskAgain(n) /\ c.tries = checkout[n].tries - 1
        /\ c.email = e /\ c.visit = checkout[n].visit /\ c.tier = checkout[n].tier
    BY <1>2, <2>2, <2>3 DEF CallType, Labels, Ordered
  <2> HIDE DEF c
  <2>5. ClaimOf(checkout[n])'
    BY <1>1, <1>3, <1>4, <2>1, <2>2, <2>4 DEF ClaimOf, CallType
  <2> QED
    BY <1>1, <2>1, <2>4, <2>5, CallSteps DEF CallsKept
<1>8. CASE reply \notin {"ok", "not_confirmed"}
  <2> DEFINE err == IF reply = "ticketing" THEN TicketingUnavailable ELSE NetworkError
             c == [checkout[n] EXCEPT !.pc = "rescue", !.error = err]
  <2>1. checkout' = [checkout EXCEPT ![n] = c] /\ checkout'[n] = c
    BY <1>2, <1>5, <1>8
  <2>2. err \in Thrown
    BY ErrorsOfCalls
  <2>3. reply = "ticketing" => orders[e].gateway = "approved"
    BY <1>3, <1>5 DEF VerifyReplies, Confirmed
  <2>4. reply # "ticketing" => err.code # "ticketing_unavailable"
    BY DEF NetworkError, Error
  <2> HIDE DEF err
  <2>5. /\ c \in CallType /\ c.pc = "rescue" /\ c.error = err
        /\ c.email = e /\ c.visit = checkout[n].visit /\ c.tier = checkout[n].tier
    BY <1>2, <2>2 DEF CallType, Labels, Ordered
  <2> HIDE DEF c
  <2>6. ClaimOf(checkout[n])'
    BY <1>1, <1>3, <1>4, <2>1, <2>3, <2>4, <2>5 DEF ClaimOf
  <2> QED
    BY <1>1, <2>1, <2>5, <2>6, CallSteps DEF CallsKept
<1> QED
  BY <1>6, <1>7, <1>8

\* A script that does not load fails every call that waits for it.
LEMMA ScriptFailuresAreKept ==
  ASSUME Shop, Next, ScriptFails
  PROVE  CallsKept
<1>1. /\ UNCHANGED page
      /\ page'.visit \in Nat /\ page.visit <= page'.visit
  BY VisitsGrow DEF ScriptFails, Shop
<1>2. ASSUME NEW n \in Checkouts
      PROVE  checkout'[n] \in CallType /\ ClaimOf(checkout[n])'
  <2>1. checkout[n] \in CallType /\ ClaimOf(checkout[n]) /\ checkout \in [Checkouts -> CallType]
    BY DEF Shop, Typed, Claims
  <2>2. CASE checkout[n].pc # "script"
    BY <1>1, <2>1, <2>2, ClaimsStay DEF ScriptFails
  <2>3. CASE checkout[n].pc = "script"
    <3> DEFINE c == [checkout[n] EXCEPT !.pc = "rescue", !.error = ScriptError]
    <3>1. checkout'[n] = c
      BY <2>3 DEF ScriptFails
    <3>2. /\ c \in CallType /\ c.pc = "rescue" /\ c.error = ScriptError
          /\ c.email = checkout[n].email /\ c.visit = checkout[n].visit
          /\ c.tier = checkout[n].tier
      BY <2>1, ErrorsOfCalls DEF CallType, Labels, Ordered
    <3> HIDE DEF c
    <3>3. /\ checkout[n].email \in Emails /\ checkout[n].visit <= page.visit
          /\ orders[checkout[n].email].status # "none"
          /\ orders[checkout[n].email].tier = checkout[n].tier
      BY <2>1, <2>3 DEF ClaimOf, Ordered
    <3>4. ScriptError.code # "ticketing_unavailable"
      BY DEF ScriptError, Error
    <3>5. ClaimOf(checkout[n])'
      BY <1>1, <3>1, <3>2, <3>3, <3>4, OrdersMoveOn DEF ClaimOf, Progress
    <3> QED
      BY <3>1, <3>2, <3>5
  <2> QED
    BY <2>2, <2>3
<1>3. checkout' = [n \in Checkouts |-> checkout'[n]]
  BY DEF ScriptFails
<1> QED
  BY <1>2, <1>3 DEF CallsKept, Claims
\* A submission ends, or leaves for the provider.
LEMMA EndingsAreKept ==
  ASSUME Shop, Next, UNCHANGED page, NEW n \in Checkouts, Live(n),
         \/ checkout' = [checkout EXCEPT ![n] = Over]
         \/ checkout[n].pc = "redirect" /\ Goto(n, "leave")
  PROVE  CallsKept
<1>1. CASE checkout' = [checkout EXCEPT ![n] = Over]
  <2>1. checkout'[n] = Over /\ checkout' = [checkout EXCEPT ![n] = checkout'[n]]
    BY <1>1 DEF Shop, Typed
  <2>2. checkout'[n] \in CallType /\ checkout'[n].pc = "over"
    BY <2>1, EndedCallsClaimNothing
  <2>3. ClaimOf(checkout[n])'
    BY <2>2 DEF ClaimOf, Ordered, Outcomes
  <2>4. page'.visit \in Nat /\ page.visit <= page'.visit
    BY VisitsGrow DEF Shop
  <2> QED
    BY <2>1, <2>2, <2>3, <2>4, CallSteps DEF CallsKept
<1>2. CASE checkout[n].pc = "redirect" /\ Goto(n, "leave")
  <2>1. /\ checkout[n].email \in Emails
        /\ orders[checkout[n].email].status # "none"
        /\ orders[checkout[n].email].tier = checkout[n].tier
    BY <1>2 DEF Shop, Claims, ClaimOf, Ordered, Outcomes
  <2>2. "leave" \in Labels
    BY DEF Labels, Ordered
  <2> QED
    BY <1>2, <2>1, <2>2, OrdersMoveOn, GotosAreKept DEF Progress
<1> QED
  BY <1>1, <1>2

\* A reload kills the calls under way.
LEMMA ReloadsAreKept ==
  ASSUME Shop, checkout' = Killed
  PROVE  CallsKept
<1>1. ASSUME NEW n \in Checkouts
      PROVE  checkout'[n] \in CallType /\ checkout'[n].pc \in {"none", "over"}
  <2>1. checkout'[n] = IF Live(n) THEN Over ELSE checkout[n]
    BY DEF Killed
  <2>2. checkout[n] \in CallType
    BY DEF Shop, Typed
  <2> QED
    BY <2>1, <2>2, EndedCallsClaimNothing DEF Live
<1>2. ASSUME NEW n \in Checkouts
      PROVE  ClaimOf(checkout[n])'
  BY <1>1 DEF ClaimOf, Ordered, Outcomes
<1>3. checkout' = [n \in Checkouts |-> checkout'[n]]
  BY DEF Killed
<1> QED
  BY <1>1, <1>2, <1>3 DEF CallsKept, Claims

\* A new submission claims only that it comes from the page.
LEMMA SubmissionsAreKept ==
  ASSUME Shop, Next, NEW n \in Checkouts, NEW e \in Emails, HandleSubmit(n, e)
  PROVE  CallsKept
<1> DEFINE c == [NoCheckout EXCEPT !.pc = "resolve", !.visit = page.visit, !.page = page.name,
                                   !.tier = page.tier, !.email = e]
<1>1. checkout' = [checkout EXCEPT ![n] = c] /\ checkout'[n] = c
  BY DEF HandleSubmit, SubmitAgain, Shop, Typed
<1>2. /\ UNCHANGED page
      /\ page'.visit \in Nat /\ page.visit <= page'.visit
  BY VisitsGrow DEF HandleSubmit, SubmitAgain, Shop
<1>3. NoCheckout \in CallType
  BY StorefrontAssumption DEF NoCheckout, CallType, Labels
<1>4. c \in CallType /\ c.pc = "resolve" /\ c.visit = page.visit /\ c.email = e
  BY <1>3 DEF CallType, Labels, Shop, Typed, TypeOK
<1> HIDE DEF c
<1>5. ClaimOf(checkout[n])'
  BY <1>1, <1>2, <1>4 DEF ClaimOf, Ordered, Outcomes
<1> QED
  BY <1>1, <1>2, <1>4, <1>5, CallSteps DEF CallsKept

\* The other steps of a call.
LEMMA OtherCallsAreKept ==
  ASSUME Shop, Next, NEW n \in Checkouts,
         \/ WidgetCloses(n) \/ ResolveCached(n) \/ LoadStorefront(n) \/ LoadFails(n)
         \/ CreationRefused(n) \/ LoadScript(n) \/ Recover(n) \/ VerifyFree(n)
  PROVE  CallsKept
<1>1. UNCHANGED page /\ Live(n)
  BY DEF WidgetCloses, ResolveCached, LoadStorefront, LoadFails, CreationRefused, LoadScript,
         Recover, VerifyFree, browser, Live
<1>2. checkout[n] \in CallType /\ ClaimOf(checkout[n]) /\ checkout \in [Checkouts -> CallType]
  BY DEF Shop, Typed, Claims
<1>3. checkout[n].email \in Emails /\ checkout[n].visit <= page.visit
  BY <1>1, <1>2 DEF ClaimOf, Live
<1>4. checkout[n].pc \in Ordered =>
        /\ orders'[checkout[n].email].status # "none"
        /\ orders'[checkout[n].email].tier = checkout[n].tier
        /\ orders[checkout[n].email].priced => orders'[checkout[n].email].priced
        /\ orders[checkout[n].email].status = "paid" => orders'[checkout[n].email].status = "paid"
  BY <1>2, <1>3, OrdersMoveOn DEF ClaimOf, Progress
<1>5. {"widget", "paid", "pending", "throw", "free_confirmed"} \subseteq Labels
  BY DEF Labels, Ordered, Outcomes
<1>6. {"script", "widget", "confirm", "recover", "rescue", "verify_free"} \subseteq Ordered
  BY DEF Ordered
<1>7. NetworkError # TicketingUnavailable /\ NotListed # TicketingUnavailable
      /\ NothingPublished # TicketingUnavailable
      /\ Duplicate # TicketingUnavailable /\ TicketingUnavailable \notin ServerErrors
  BY StorefrontAssumption DEF NetworkError, NotListed, NothingPublished, Duplicate, TicketingUnavailable, Error
<1>8. CASE WidgetCloses(n)
  <2>1. PICK tries \in {1, MaxAttempts} :
          checkout' = [checkout EXCEPT ![n].pc = "confirm", ![n].tries = tries]
    BY <1>8 DEF WidgetCloses
  <2> DEFINE c == [checkout[n] EXCEPT !.pc = "confirm", !.tries = tries]
  <2>2. checkout' = [checkout EXCEPT ![n] = c] /\ checkout'[n] = c
    BY <1>2, <2>1
  <2>3. tries \in 0 .. MaxAttempts /\ tries > 0
    BY StorefrontAssumption
  <2>4. /\ c \in CallType /\ c.pc = "confirm" /\ c.tries = tries
        /\ c.email = checkout[n].email /\ c.visit = checkout[n].visit
        /\ c.tier = checkout[n].tier
    BY <1>2, <2>3 DEF CallType, Labels, Ordered
  <2> HIDE DEF c
  <2>5. orders[checkout[n].email].priced /\ checkout[n].pc = "widget"
    BY <1>2, <1>8 DEF WidgetCloses, ClaimOf
  <2>6. ClaimOf(checkout[n])'
    BY <1>1, <1>3, <1>4, <1>6, <2>2, <2>3, <2>4, <2>5 DEF ClaimOf
  <2>7. page'.visit \in Nat /\ page.visit <= page'.visit
    BY VisitsGrow DEF Shop
  <2> QED
    BY <2>2, <2>4, <2>6, <2>7, CallSteps DEF CallsKept
<1>9. CASE ResolveCached(n)
  BY <1>1, <1>9, ResolutionsAreKept DEF ResolveCached
<1>10. CASE LoadStorefront(n)
  BY <1>1, <1>7, <1>10, ErrorsOfCalls, ThrowsAreKept, ResolutionsAreKept DEF LoadStorefront
<1>11. CASE LoadFails(n)
  BY <1>1, <1>7, <1>11, ErrorsOfCalls, ThrowsAreKept DEF LoadFails
<1>12. CASE CreationRefused(n)
  <2>1. PICK err \in {Duplicate, NetworkError} \cup ServerErrors : Throw(n, err)
    BY <1>12 DEF CreationRefused
  <2>2. err \in Thrown
    BY DEF Thrown
  <2> QED
    BY <1>1, <1>7, <2>1, <2>2, ThrowsAreKept
<1>13. CASE LoadScript(n)
  <2>1. CASE script = "ready"
    <3>1. Goto(n, "widget")
      BY <1>13, <2>1 DEF LoadScript
    <3>2. checkout[n].pc = "script" /\ orders[checkout[n].email].priced
      BY <1>2, <1>13 DEF LoadScript, ClaimOf
    <3> QED
      BY <1>1, <1>4, <1>5, <1>6, <3>1, <3>2, GotosAreKept
  <2>2. CASE UNCHANGED checkout
    <3>1. page'.visit \in Nat /\ page.visit <= page'.visit
      BY VisitsGrow DEF Shop
    <3>2. checkout' = [checkout EXCEPT ![n] = checkout'[n]] /\ checkout'[n] = checkout[n]
      BY <1>2, <2>2
    <3> QED
      BY <1>2, <3>1, <3>2, ClaimsStay, CallSteps DEF CallsKept
  <2> QED
    BY <1>13, <2>1, <2>2 DEF LoadScript
<1>14. CASE Recover(n)
  <2>1. checkout[n].pc \in {"recover", "rescue"}
    BY <1>14 DEF Recover
  <2>2. CASE orders[checkout[n].email].status = "paid" /\ Goto(n, "paid")
    BY <1>1, <1>4, <1>5, <1>6, <2>1, <2>2, GotosAreKept
  <2>3. CASE checkout[n].pc = "recover" /\ Goto(n, "pending")
    BY <1>1, <1>4, <1>5, <1>6, <2>1, <2>3, GotosAreKept
  <2>4. CASE checkout[n].pc = "rescue" /\ Goto(n, "throw")
    BY <1>1, <1>4, <1>5, <1>6, <2>1, <2>4, GotosAreKept
  <2> QED
    BY <1>14, <2>1, <2>2, <2>3, <2>4 DEF Recover
<1>15. CASE VerifyFree(n)
  <2>1. checkout[n].pc = "verify_free" /\ Goto(n, "free_confirmed")
    BY <1>15 DEF VerifyFree
  <2> QED
    BY <1>1, <1>4, <1>5, <1>6, <2>1, GotosAreKept
<1> QED
  BY <1>8, <1>9, <1>10, <1>11, <1>12, <1>13, <1>14, <1>15

\* The claims of the calls are kept by every step.
LEMMA CallsAreKept ==
  ASSUME Shop, Next
  PROVE  CallsKept
<1>1. ASSUME UNCHANGED checkout
      PROVE  CallsKept
  <2>1. page'.visit \in Nat /\ page.visit <= page'.visit
    BY VisitsGrow DEF Shop
  <2>2. \A n \in Checkouts : checkout'[n] = checkout[n]
    BY <1>1
  <2> QED
    BY <1>1, <2>1, <2>2, ClaimsStay DEF CallsKept, Claims, Shop, Typed
<1>2. ASSUME \/ Navigate \/ ChangeLink \/ Answer \/ CloseDialog \/ ScriptLoads
             \/ HandleDownloadTicket \/ DownloadEnds
             \/ \E t \in Tiers : BeginCheckout(t) \/ Edit(t)
             \/ \E e \in Emails : GatewayDecides(e) \/ WebhookSettles(e)
      PROVE  UNCHANGED checkout
  BY <1>2 DEF Navigate, ChangeLink, Answer, CloseDialog, ScriptLoads, HandleDownloadTicket,
              DownloadEnds, BeginCheckout, Edit, GatewayDecides, WebhookSettles
<1>3. ASSUME Reload \/ \E n \in Checkouts : Leave(n)
      PROVE  CallsKept
  BY <1>3, ReloadsAreKept DEF Reload, Leave
<1>4. ASSUME NEW n \in Checkouts, ShowSuccess(n) \/ ShowFailure(n)
      PROVE  CallsKept
  <2>1. UNCHANGED page /\ Live(n)
    BY <1>4 DEF ShowSuccess, Succeeds, ShowFailure, Fails, Live, Outcomes
  <2>2. checkout \in [Checkouts -> CallType]
    BY DEF Shop, Typed
  <2>3. \/ checkout' = [checkout EXCEPT ![n] = Over]
        \/ checkout[n].pc = "redirect" /\ Goto(n, "leave")
    BY <1>4, <2>2 DEF ShowSuccess, Succeeds, ShowFailure, Fails, Goto
  <2> QED
    BY <2>1, <2>3, EndingsAreKept
<1> QED
  BY <1>1, <1>2, <1>3, <1>4, CreationsAreKept, ConfirmationsAreKept, ScriptFailuresAreKept,
     SubmissionsAreKept, OtherCallsAreKept DEF Next, Call
-----------------------------------------------------------------------------
(* The page. *)

Widgets ==
  /\ dialogs \subseteq {"register", "success", "failure"}
  /\ submitting \in BOOLEAN /\ draft \in BOOLEAN
  /\ ticket \in Emails \cup {NoOrder} /\ downloading \in Emails \cup {NoOrder}
  /\ script \in {"absent", "loading", "ready"}

\* The modals and the form keep their types.
LEMMA WidgetsAreTyped ==
  ASSUME Shop, Next
  PROVE  Widgets'
<1>1. Widgets
  BY DEF Shop, Typed, TypeOK, Widgets
<1>2. CASE Navigate \/ Reload \/ \E n \in Checkouts : Leave(n)
  BY <1>1, <1>2 DEF Widgets, Navigate, Reload, Leave, Mounted
<1>3. CASE ChangeLink \/ Answer \/ CloseDialog
  BY <1>1, <1>3 DEF Widgets, ChangeLink, Answer, CloseDialog
<1>4. ASSUME NEW t \in Tiers, BeginCheckout(t) \/ Edit(t)
      PROVE  Widgets'
  BY <1>1, <1>4 DEF Widgets, BeginCheckout, Edit, browser
<1>5. ASSUME NEW e \in Emails, GatewayDecides(e) \/ WebhookSettles(e)
      PROVE  Widgets'
  BY <1>1, <1>5 DEF Widgets, GatewayDecides, WebhookSettles, browser
<1>6. CASE ScriptLoads \/ ScriptFails
  BY <1>1, <1>6 DEF Widgets, ScriptLoads, ScriptFails
<1>7. CASE HandleDownloadTicket \/ DownloadEnds
  BY <1>1, <1>7 DEF Widgets, HandleDownloadTicket, DownloadEnds
<1>8. ASSUME NEW n \in Checkouts, NEW e \in Emails, HandleSubmit(n, e)
      PROVE  Widgets'
  BY <1>1, <1>8 DEF Widgets, HandleSubmit, SubmitAgain
<1>9. ASSUME NEW n \in Checkouts, CreateOrder(n)
      PROVE  Widgets'
  <2>1. dialogs' \in {dialogs, dialogs \ {"register"}}
    BY <1>9 DEF CreateOrder
  <2> QED
    BY <1>1, <1>9, <2>1 DEF Widgets, CreateOrder
<1>10. ASSUME NEW n \in Checkouts, LoadStorefront(n) \/ LoadScript(n)
       PROVE  Widgets'
  BY <1>1, <1>10 DEF Widgets, LoadStorefront, LoadScript
<1>11. ASSUME NEW n \in Checkouts,
              \/ WidgetCloses(n) \/ ResolveCached(n) \/ LoadFails(n) \/ CreationRefused(n)
              \/ ConfirmPayment(n) \/ Recover(n) \/ VerifyFree(n)
       PROVE  Widgets'
  BY <1>1, <1>11 DEF Widgets, browser, WidgetCloses, ResolveCached, LoadFails, CreationRefused,
              ConfirmPayment, Recover, VerifyFree
<1>12. ASSUME NEW n \in Checkouts, ShowSuccess(n)
       PROVE  Widgets'
  <2>1. checkout[n].email \in Emails \cup {NoOrder}
    BY DEF Shop, Typed, CallType
  <2> QED
    BY <1>1, <1>12, <2>1 DEF Widgets, ShowSuccess, Succeeds
<1>13. ASSUME NEW n \in Checkouts, ShowFailure(n)
       PROVE  Widgets'
  BY <1>1, <1>13 DEF Widgets, ShowFailure, Fails
<1> QED
  BY <1>2, <1>3, <1>4, <1>5, <1>6, <1>7, <1>8, <1>9, <1>10, <1>11, <1>12, <1>13 DEF Next, Call

\* So does everything else.
LEMMA ShopIsTyped ==
  ASSUME Shop, Next
  PROVE  Typed'
<1>1. /\ page' \in [name : {"app", "inscription"}, visit : Nat, tier : Tiers \cup {NoTier}]
      /\ checkout' \in [Checkouts -> CallType]
      /\ orders' \in [Emails -> OrderType]
      /\ \A e \in Emails : orders'[e].status = "none" => orders'[e].gateway = "none"
      /\ Widgets'
  BY VisitsGrow, CallsAreKept, OrdersMoveOn, WidgetsAreTyped DEF Shop, CallsKept
<1>2. /\ \A e \in Emails : orders'[e].status \in {"none", "pending", "paid"}
      /\ \A n \in Checkouts : checkout'[n].tries \in 0 .. MaxAttempts
  BY <1>1 DEF OrderType, CallType
<1> QED
  BY <1>1, <1>2 DEF Typed, TypeOK, Widgets

\* A step that makes nobody busy leaves the page with its checkout.
LEMMA AloneStays ==
  ASSUME Shop, \A n \in Checkouts : Busy(n)' => Busy(n),
         \/ submitting' = submitting
         \/ \A n \in Checkouts : ~Busy(n)'
  PROVE  Alone'
BY DEF Shop, Alone

\* A call that is under way goes on for the page that started it.
LEMMA OneStepIsNoStart ==
  ASSUME Shop, UNCHANGED page, NEW n \in Checkouts, Live(n), checkout[n].pc # "leave",
         \A m \in Checkouts \ {n} : checkout'[m] = checkout[m],
         checkout'[n].visit = checkout[n].visit
  PROVE  \A m \in Checkouts : Busy(m)' => Busy(m)
BY DEF Busy, Current, Live

\* A page disables its form while its checkout runs, and a dialog ends both.
LEMMA AloneIsKept ==
  ASSUME Shop, Next
  PROVE  Alone'
<1>1. ASSUME NEW name, NEW tier, Mounted(name, tier),
             checkout' \in {checkout, Killed}
      PROVE  Alone'
  <2>1. ASSUME NEW n \in Checkouts
        PROVE  ~Busy(n)'
    <3>1. page'.visit = page.visit + 1 /\ page.visit \in Nat
      BY <1>1 DEF Mounted, Shop, Typed, TypeOK
    <3>2. checkout[n].visit \in Nat /\ (Live(n) => checkout[n].visit <= page.visit)
      BY DEF Shop, Typed, CallType, Claims, ClaimOf, Live
    <3>3. Live(n)' => Live(n) /\ checkout'[n] = checkout[n]
      BY <1>1, EndedCallsClaimNothing DEF Live, Killed
    <3> QED
      BY <3>1, <3>2, <3>3 DEF Busy, Current
  <2> QED
    BY <2>1, AloneStays
<1>2. CASE Navigate \/ Reload \/ \E n \in Checkouts : Leave(n)
  <2>1. \E name, tier : Mounted(name, tier)
    BY <1>2 DEF Navigate, Reload, Leave
  <2>2. checkout' \in {checkout, Killed}
    BY <1>2 DEF Navigate, Reload, Leave
  <2> QED
    BY <1>1, <2>1, <2>2
<1>3. ASSUME UNCHANGED <<page.visit, checkout, submitting>>
      PROVE  Alone'
  BY <1>3, AloneStays DEF Busy, Current, Live
<1>4. ASSUME \/ ChangeLink \/ Answer \/ CloseDialog \/ ScriptLoads
             \/ HandleDownloadTicket \/ DownloadEnds
             \/ \E t \in Tiers : BeginCheckout(t) \/ Edit(t)
             \/ \E e \in Emails : GatewayDecides(e) \/ WebhookSettles(e)
      PROVE  UNCHANGED <<page.visit, checkout, submitting>>
  BY <1>4 DEF ChangeLink, Answer, CloseDialog, ScriptLoads, HandleDownloadTicket,
              DownloadEnds, BeginCheckout, Edit, GatewayDecides, WebhookSettles, browser,
              Shop, Typed, TypeOK
<1>5. CASE ScriptFails
  <2>1. UNCHANGED <<page, submitting>>
    BY <1>5 DEF ScriptFails
  <2>2. ASSUME NEW n \in Checkouts
        PROVE  Busy(n)' => Busy(n)
    <3>1. checkout[n] \in CallType
      BY DEF Shop, Typed
    <3>2. /\ checkout'[n].visit = checkout[n].visit
          /\ checkout'[n] = checkout[n] \/ checkout[n].pc = "script"
      BY <1>5, <3>1 DEF ScriptFails, CallType
    <3> QED
      BY <2>1, <3>2 DEF Busy, Current, Live
  <2> QED
    BY <2>1, <2>2, AloneStays
<1>6. ASSUME NEW n \in Checkouts, NEW e \in Emails, HandleSubmit(n, e)
      PROVE  Alone'
  <2>1. \A m \in Checkouts : ~Busy(m)
    BY <1>6 DEF HandleSubmit, Shop, Alone
  <2>2. /\ UNCHANGED page /\ submitting'
        /\ \A m \in Checkouts \ {n} : checkout'[m] = checkout[m]
    BY <1>6 DEF HandleSubmit, SubmitAgain, Shop, Typed
  <2>3. \A m \in Checkouts \ {n} : ~Busy(m)'
    BY <2>1, <2>2 DEF Busy, Current, Live
  <2> QED
    BY <2>2, <2>3 DEF Alone
<1>7. ASSUME NEW n \in Checkouts,
             \/ WidgetCloses(n) \/ ResolveCached(n) \/ LoadStorefront(n) \/ LoadFails(n)
             \/ CreateOrder(n) \/ CreationRefused(n) \/ LoadScript(n) \/ ConfirmPayment(n)
             \/ Recover(n) \/ VerifyFree(n)
      PROVE  Alone'
  <2>1. /\ UNCHANGED <<page, submitting>>
        /\ Live(n) /\ checkout[n].pc # "leave"
    BY <1>7 DEF WidgetCloses, ResolveCached, LoadStorefront, LoadFails, CreateOrder,
                CreationRefused, LoadScript, ConfirmPayment, Recover, VerifyFree, browser, Live
  <2>2. checkout[n] \in CallType /\ checkout \in [Checkouts -> CallType]
    BY DEF Shop, Typed
  <2>3. /\ \A m \in Checkouts \ {n} : checkout'[m] = checkout[m]
        /\ checkout'[n].visit = checkout[n].visit
    BY <1>7, <2>2 DEF WidgetCloses, ResolveCached, LoadStorefront, LoadFails, CreateOrder,
                CreationRefused, LoadScript, ConfirmPayment, Recover, VerifyFree,
                Goto, Throw, Resolved, CallType
  <2> QED
    BY <2>1, <2>3, OneStepIsNoStart, AloneStays
<1>8. ASSUME NEW n \in Checkouts, ShowSuccess(n) \/ ShowFailure(n)
      PROVE  Alone'
  <2>1. /\ UNCHANGED page /\ Live(n) /\ checkout[n].pc # "leave"
        /\ Current(n) \/ UNCHANGED submitting
    BY <1>8 DEF ShowSuccess, Succeeds, ShowFailure, Fails, Live, Outcomes
  <2>2. checkout[n] \in CallType /\ checkout \in [Checkouts -> CallType]
    BY DEF Shop, Typed
  <2>3. /\ \A m \in Checkouts \ {n} : checkout'[m] = checkout[m]
        /\ checkout'[n].pc \in {"over", "leave"}
    BY <1>8, <2>2, EndedCallsClaimNothing
       DEF ShowSuccess, Succeeds, ShowFailure, Fails, CallType
  <2>4. ~Busy(n)'
    BY <2>3 DEF Busy, Current, Live
  <2>5. \A m \in Checkouts \ {n} : Busy(m)' <=> Busy(m)
    BY <2>1, <2>3 DEF Busy, Current, Live
  <2>6. CASE Current(n)
    <3>1. \A m \in Checkouts \ {n} : ~Busy(m)
      BY <2>1, <2>6 DEF Shop, Alone, Busy
    <3> QED
      BY <2>4, <2>5, <3>1, AloneStays
  <2>7. CASE UNCHANGED submitting
    BY <2>4, <2>5, <2>7, AloneStays
  <2> QED
    BY <2>1, <2>6, <2>7
<1> QED
  BY <1>2, <1>3, <1>4, <1>5, <1>6, <1>7, <1>8 DEF Next, Call
-----------------------------------------------------------------------------
(* The dialogs. *)

\* A failure quotes what reads as French, and announces a ticket for one error only.
LEMMA CopiesOfFailures ==
  ASSUME NEW err
  PROVE  /\ CheckoutFailureCopy(err) = "message" => err.text = "french"
         /\ CheckoutFailureCopy(err) = "ticket_on_its_way" => err.code = "ticketing_unavailable"
BY DEF CheckoutFailureCopy, LooksLikeVisitorFrench

\* What was said stays true: the server only moves on.
LEMMA WordsStayTrue ==
  ASSUME Shop, Next, UNCHANGED <<success, failure>>
  PROVE  Said'
BY OrdersMoveOn DEF Shop, Said, NoJargonIsShown, Progress

\* A dialog says what the server holds.
LEMMA SaidIsKept ==
  ASSUME Shop, Next
  PROVE  Said'
<1>1. CASE UNCHANGED <<success, failure>>
  BY <1>1, WordsStayTrue
<1>2. CASE success' = NoSuccess /\ failure' = NoFailure
  BY <1>2 DEF Said, NoSuccess, NoFailure, NoJargonIsShown
<1>3. CASE Navigate \/ Reload \/ \E n \in Checkouts : Leave(n)
  BY <1>2, <1>3 DEF Navigate, Reload, Leave, Mounted
<1>4. ASSUME \/ ChangeLink \/ Answer \/ CloseDialog \/ ScriptLoads \/ ScriptFails
             \/ HandleDownloadTicket
             \/ \E t \in Tiers : BeginCheckout(t) \/ Edit(t)
             \/ \E e \in Emails : GatewayDecides(e) \/ WebhookSettles(e)
      PROVE  UNCHANGED <<success, failure>>
  BY <1>4 DEF ChangeLink, Answer, CloseDialog, ScriptLoads, ScriptFails, HandleDownloadTicket,
              BeginCheckout, Edit, GatewayDecides, WebhookSettles, browser
<1>5. ASSUME NEW n \in Checkouts,
             \/ WidgetCloses(n) \/ ResolveCached(n) \/ LoadStorefront(n) \/ LoadFails(n)
             \/ CreateOrder(n) \/ CreationRefused(n) \/ LoadScript(n) \/ ConfirmPayment(n)
             \/ Recover(n) \/ VerifyFree(n)
             \/ \E e \in Emails : HandleSubmit(n, e)
      PROVE  UNCHANGED <<success, failure>>
  BY <1>5 DEF WidgetCloses, ResolveCached, LoadStorefront, LoadFails, CreateOrder,
              CreationRefused, LoadScript, ConfirmPayment, Recover, VerifyFree, browser,
              HandleSubmit, SubmitAgain
<1>6. ASSUME NEW n \in Checkouts, ShowSuccess(n)
      PROVE  Said'
  <2>1. UNCHANGED <<orders, failure>> /\ checkout[n].pc \in Outcomes
    BY <1>6 DEF ShowSuccess, Succeeds, server
  <2>2. CASE UNCHANGED success
    BY <1>1, <2>1, <2>2
  <2>3. CASE success' = [outcome |-> checkout[n].pc, title |-> checkout[n].tier,
                         email |-> checkout[n].email]
    <3>1. /\ success'.outcome = checkout[n].pc
          /\ success'.title = checkout[n].tier
          /\ success'.email = checkout[n].email
      BY <2>3
    <3>2. /\ checkout[n].email \in Emails
          /\ orders[checkout[n].email].status # "none"
          /\ orders[checkout[n].email].tier = checkout[n].tier
          /\ checkout[n].pc = "paid" => orders[checkout[n].email].status = "paid"
      BY <2>1 DEF Shop, Claims, ClaimOf, Ordered, Outcomes
    <3> QED
      BY <2>1, <3>1, <3>2 DEF Said, Shop, NoJargonIsShown
  <2> QED
    BY <1>6, <2>2, <2>3 DEF ShowSuccess, Succeeds
<1>7. ASSUME NEW n \in Checkouts, ShowFailure(n)
      PROVE  Said'
  <2>1. UNCHANGED <<orders, success>> /\ checkout[n].pc = "throw"
    BY <1>7 DEF ShowFailure, Fails, server
  <2>2. CASE UNCHANGED failure
    BY <1>1, <2>1, <2>2
  <2>3. CASE failure' = [copy |-> CheckoutFailureCopy(checkout[n].error),
                         text |-> checkout[n].error.text, email |-> checkout[n].email]
    <3>1. /\ failure'.copy = CheckoutFailureCopy(checkout[n].error)
          /\ failure'.text = checkout[n].error.text
          /\ failure'.email = checkout[n].email
      BY <2>3
    <3>2. /\ checkout[n].email \in Emails
          /\ checkout[n].error.code = "ticketing_unavailable" =>
               orders[checkout[n].email].gateway = "approved"
      BY <2>1 DEF Shop, Claims, ClaimOf
    <3> QED
      BY <2>1, <3>1, <3>2, CopiesOfFailures DEF Said, Shop, NoJargonIsShown
  <2> QED
    BY <1>7, <2>2, <2>3 DEF ShowFailure, Fails
<1>8. CASE DownloadEnds
  <2>1. UNCHANGED <<orders, success>>
    BY <1>8 DEF DownloadEnds, server
  <2>2. CASE UNCHANGED failure
    BY <1>1, <2>1, <2>2
  <2>3. ASSUME NEW err \in {NetworkError, NotReady},
               failure' = [copy |-> CheckoutFailureCopy(err), text |-> err.text,
                           email |-> downloading]
        PROVE  Said'
    <3>1. failure'.copy = CheckoutFailureCopy(err) /\ failure'.text = err.text
      BY <2>3
    <3>2. err.code # "ticketing_unavailable"
      BY DEF NetworkError, NotReady, Error
    <3> QED
      BY <2>1, <3>1, <3>2, CopiesOfFailures DEF Said, Shop, NoJargonIsShown
  <2> QED
    BY <1>8, <2>2, <2>3 DEF DownloadEnds
<1> QED
  BY <1>1, <1>3, <1>4, <1>5, <1>6, <1>7, <1>8 DEF Next, Call

-----------------------------------------------------------------------------
(* The theorems. *)

\* A page opens on an empty shop.
LEMMA InitShop == Init => Shop
<1> SUFFICES ASSUME Init PROVE Shop
  OBVIOUS
<1>1. /\ NoCheckout \in CallType /\ NoCheckout.pc = "none"
      /\ NoCheckout.tries \in 0 .. MaxAttempts
  BY StorefrontAssumption DEF NoCheckout, CallType, Labels
<1>2. NothingOrdered \in OrderType /\ NothingOrdered.status = "none" /\ NothingOrdered.gateway = "none"
  BY DEF NothingOrdered, OrderType
<1>3. \A n \in Checkouts : checkout[n] = NoCheckout
  BY DEF Init
<1>4. Typed
  BY <1>1, <1>2, <1>3 DEF Init, Typed, TypeOK
<1>5. Claims
  BY <1>1, <1>3 DEF Claims, ClaimOf, Ordered, Outcomes
<1>6. Said
  BY DEF Init, Said, NoSuccess, NoFailure, NoJargonIsShown
<1>7. Alone
  BY <1>1, <1>3 DEF Alone, Busy, Current, Live
<1> QED
  BY <1>4, <1>5, <1>6, <1>7 DEF Shop

\* A step that changes nothing keeps everything.
LEMMA StutteringKeepsShop == Shop /\ UNCHANGED vars => Shop'
BY DEF Shop, Typed, TypeOK, Claims, ClaimOf, Said, NoJargonIsShown, Alone, Busy, Current, Live,
       vars, browser, server

\* The inductive invariant of the storefront: what the server holds at each step of a
\* submission (payBilletterieOrder, payWithFedapay), what the dialogs say, and that a page
\* whose form is free runs no checkout.
THEOREM ShopInvariant == Spec => []Shop
<1>1. Shop /\ [Next]_vars => Shop'
  BY ShopIsTyped, CallsAreKept, SaidIsKept, AloneIsKept, StutteringKeepsShop DEF Shop, CallsKept
<1> QED
  BY InitShop, <1>1, PTL DEF Spec

\* "Paiement confirmé" is only said of an order the server holds as paid (fedapay-checkout.ts).
THEOREM ConfirmedPaymentsAreTrue == Spec => []PaidIsTrue
<1>1. Shop => PaidIsTrue
  BY DEF Shop, Said, PaidIsTrue
<1> QED
  BY <1>1, ShopInvariant, PTL

\* A dialog that confirms names the pass that was ordered, one that says a ticket is on its way
\* is of an approved payment, none quotes a technical message, and a page runs one checkout
\* (handleSubmit, checkoutFailureCopy).
THEOREM TheDialogsAreTrue == Spec => []DialogsAreTrue
<1>1. ASSUME Shop
      PROVE  OneCheckoutPerPage
  <2> DEFINE S == {n \in Checkouts : Current(n) /\ checkout[n].pc # "leave"}
  <2>1. \A m, n \in S : m = n
    BY <1>1 DEF Shop, Alone, Busy
  <2>2. CASE S = {}
    BY <2>2, FS_EmptySet DEF OneCheckoutPerPage
  <2>3. CASE S # {}
    <3>1. PICK n : S = {n}
      BY <2>1, <2>3
    <3>2. Cardinality({n}) = 1
      BY FS_Singleton
    <3>3. Cardinality(S) = 1
      BY <3>1, <3>2
    <3> QED
      BY <3>3 DEF OneCheckoutPerPage
  <2> QED
    BY <2>2, <2>3
<1>2. Shop => DialogsAreTrue
  BY <1>1 DEF DialogsAreTrue, Shop, Typed, Said, ConfirmationsNameTheRightPass,
              TicketOnItsWayIsPaidFor
<1> QED
  BY <1>2, ShopInvariant, PTL

\* The answers of a form leave the session only for an order that the server has
\* (clearRegistrationDraft in handleSubmit).
THEOREM DraftsAreClearedForOrders == Spec => ClearedDraftsWereOrdered
<1> DEFINE Erased == \E n \in Checkouts : Live(n) /\ checkout'[n] # checkout[n]
                                          /\ orders[checkout[n].email].status # "none"
<1>1. ASSUME Shop, Next, draft, ~draft'
      PROVE  Erased
  <2>1. PICK n \in Checkouts : ShowSuccess(n)
    BY <1>1
       DEF Next, Call, Navigate, ChangeLink, Reload, Answer, CloseDialog, BeginCheckout, Edit,
           WidgetCloses, HandleSubmit, SubmitAgain, ScriptLoads, ScriptFails,
           HandleDownloadTicket, DownloadEnds, GatewayDecides, WebhookSettles, ResolveCached,
           LoadStorefront, LoadFails, CreateOrder, CreationRefused, LoadScript, ConfirmPayment,
           Recover, VerifyFree, ShowFailure, Fails, Leave, browser
  <2>2. checkout[n].pc \in Outcomes /\ Live(n)
    BY <2>1 DEF ShowSuccess, Succeeds, Outcomes, Live
  <2>3. checkout'[n].pc \in {"over", "leave"}
    BY <1>1, <2>1, EndedCallsClaimNothing DEF ShowSuccess, Succeeds, Shop, Typed, CallType
  <2>4. orders[checkout[n].email].status # "none"
    BY <1>1, <2>2 DEF Shop, Claims, ClaimOf, Ordered
  <2> QED
    BY <2>2, <2>3, <2>4 DEF Outcomes
<1>2. Shop /\ [Next]_vars => [draft /\ ~draft' => Erased]_vars
  BY <1>1
<1> QED
  BY <1>2, ShopInvariant, PTL DEF Spec, ClearedDraftsWereOrdered
=============================================================================
