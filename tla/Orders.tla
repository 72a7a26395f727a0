-------------------------------- MODULE Orders --------------------------------
(***************************************************************************)
(* Ticket sales as their handlers interleave: OrdersService                *)
(* (backend/orders/service.py), the payment routes and webhook             *)
(* orchestration, the payment providers, and the organizer's edits of a    *)
(* ticket type.  A request is one invocation of a route; its steps are     *)
(* separated where another request can get in between: before each         *)
(* database transaction, each call of a provider, and each read that a     *)
(* later write relies on.  The transactions are those of OrderStore.       *)
(*                                                                         *)
(* One event, published.  FedaPay has one transaction per order, which     *)
(* carries its amount and currency, so reconcile comes down to the status. *)
(***************************************************************************)
EXTENDS OrderStore, Sequences, SequencesExt

CONSTANTS
  Requests,
  Inputs,             \* what a request may ask for, see InputType
  FreeTypes,          \* price_minor = 0
  Goodies,            \* product_kind other than "ticket"
  VipTypes, StudentTypes,     \* pass_tier
  MaxPerOrder,        \* max_per_order of each type, 0 is "no limit"
  MintFailures,       \* whether issuing tickets may fail (vault locked, no serial)
  MaxRestarts,        \* bound on restarts of the server process
  NoOrder, NoInput

VARIABLES
  provider,           \* orders.provider
  onSale,             \* the ticket types whose status is "active"
  record,             \* ManualProvider: payment_records, and its cache in memory
  settled,            \* FreeProvider._settled, in memory
  seen,               \* _MemorySeenStore, in memory
  gateway,            \* FedaPay's transaction for each order
  mailed,             \* how often on_order_paid was called for each order
  restarts,
  pc, input,
  target,             \* the order a request works on
  answer

sales    == <<provider, onSale, record, settled, seen, gateway, mailed, restarts>>
handlers == <<pc, input, target, answer>>
vars     == <<book, sales, handlers>>

-----------------------------------------------------------------------------
(* What a request asks for.  `lines` of a creation is a sequence: nothing   *)
(* keeps a cart from naming a type twice.                                   *)

Lines == Seq([type : Types, count : Nat \ {0}])

InputType(i) ==
  \/ /\ i.kind = "create" /\ i.email \in Emails /\ i.lines \in Lines /\ i.lines # << >>
     /\ i.provider \in {"manual", "fedapay"}
  \/ i.kind \in {"verify", "webhook", "paid", "failed"}
  \/ i.kind = "edit" /\ i.type \in Types /\ i.total \in Nat /\ i.active \in BOOLEAN

\* The lines of one type, added up.
Demand(lines) ==
  [t \in Types |-> FoldSeq(LAMBDA l, sum : IF l.type = t THEN sum + l.count ELSE sum, 0, lines)]

\* MaxQuantity bounds what a cart may ask of a type.
ASSUME OrdersAssumption ==
  /\ OrderIds \subseteq Nat
  /\ UNION {FreeTypes, Goodies, VipTypes, StudentTypes} \subseteq Types
  /\ MaxPerOrder \in [Types -> Nat]
  /\ \A i \in Inputs : /\ InputType(i)
                       /\ i.kind = "create" => Demand(i.lines) \in Quantities
  /\ MintFailures \in BOOLEAN
  /\ MaxRestarts \in Nat

\* What order o pays for a ticket of: goodies have none.
Bought(o) == {s \in TicketsOf(o) : s[1] \notin Goodies}

\* The callback mint of settle: a ticket per unit of a ticket type, and for whoever
\* bought a VIP pass the first student pass on sale, unless it was bought too.
Minted(o) ==
  LET types  == {s[1] : s \in Bought(o)}
      passes == StudentTypes \cap onSale
      first  == CHOOSE t \in passes : TRUE
      given  == types \cap VipTypes # {} /\ passes # {} /\ first \notin types
  IN  Bought(o) \cup (IF given THEN {<<first, 1>>} ELSE {})

-----------------------------------------------------------------------------
Init ==
  /\ BookInit
  /\ provider = [o \in OrderIds |-> "none"]
  /\ onSale = Types
  /\ record = [o \in OrderIds |-> "none"]
  /\ settled = {}
  /\ seen = {}
  /\ gateway = [o \in OrderIds |-> "none"]
  /\ mailed = [o \in OrderIds |-> 0]
  /\ restarts = 0
  /\ pc = [r \in Requests |-> "idle"]
  /\ input = [r \in Requests |-> NoInput]
  /\ target = [r \in Requests |-> NoOrder]
  /\ answer = [r \in Requests |-> "none"]

Goto(r, label) ==
  /\ pc' = [pc EXCEPT ![r] = label]
  /\ UNCHANGED <<input, target, answer>>

Answer(r, reply) ==
  /\ pc' = [pc EXCEPT ![r] = "done"]
  /\ answer' = [answer EXCEPT ![r] = reply]
  /\ UNCHANGED <<input, target>>

\* A request arrives; all but creations and edits name an order that exists.
Submit(r) ==
  /\ pc[r] = "idle"
  /\ \E i \in Inputs, o \in OrderIds \cup {NoOrder} :
       /\ IF i.kind \in {"create", "edit"} THEN o = NoOrder
          ELSE o # NoOrder /\ status[o] # "none"
       /\ input' = [input EXCEPT ![r] = i]
       /\ target' = [target EXCEPT ![r] = o]
       /\ pc' = [pc EXCEPT ![r] = i.kind]
  /\ UNCHANGED <<book, sales, answer>>

-----------------------------------------------------------------------------
(* OrdersService.create. *)

\* The reads before the transaction: the email, then each line's type.
Create(r) ==
  /\ pc[r] = "create"
  /\ LET lines   == input[r].lines
         allowed == \A n \in DOMAIN lines :
                      /\ lines[n].type \in onSale
                      /\ \/ MaxPerOrder[lines[n].type] = 0
                         \/ lines[n].count <= MaxPerOrder[lines[n].type]
     IN  IF EmailTaken(input[r].email) THEN Answer(r, "duplicate")
         ELSE IF ~allowed THEN Answer(r, "rejected")
         ELSE Goto(r, "insert")
  /\ UNCHANGED <<book, sales>>

\* _resolve_provider: an order that costs nothing is left to the free provider.
ProviderOf(i) ==
  IF \A n \in DOMAIN i.lines : i.lines[n].type \in FreeTypes THEN "free" ELSE i.provider

FreshOrder == {o \in OrderIds : status[o] = "none" /\ \A p \in OrderIds : p < o => status[p] # "none"}

Insert(r) ==
  /\ pc[r] = "insert"
  /\ \E o \in FreshOrder :
       /\ CreateOrder(o, input[r].email, Demand(input[r].lines))
       /\ provider' = [provider EXCEPT ![o] = ProviderOf(input[r])]
       /\ target' = [target EXCEPT ![r] = o]
       /\ pc' = [pc EXCEPT ![r] = "begin"]
  /\ UNCHANGED <<onSale, record, settled, seen, gateway, mailed, restarts, input, answer>>

\* The transaction raises: the stock is gone, or another order took the email since.
InsertRaises(r) ==
  /\ pc[r] = "insert"
  /\ FreshOrder # {}
  /\ IF ~Affordable(Demand(input[r].lines)) THEN Answer(r, "sold_out")
     ELSE EmailTaken(input[r].email) /\ Answer(r, "error")
  /\ UNCHANGED <<book, sales>>

\* provider.begin.
Begin(r) ==
  /\ pc[r] = "begin"
  /\ LET o == target[r]
     IN  /\ record' = IF provider[o] = "manual" THEN [record EXCEPT ![o] = "pending"] ELSE record
         /\ settled' = IF provider[o] = "free" THEN settled \cup {o} ELSE settled
         /\ gateway' = IF provider[o] = "fedapay" THEN [gateway EXCEPT ![o] = "created"] ELSE gateway
  /\ Answer(r, "ok")
  /\ UNCHANGED <<book, provider, onSale, seen, mailed, restarts>>

\* FedaPay is unreachable, or the record cannot be written.
BeginFails(r) ==
  /\ pc[r] = "begin"
  /\ provider[target[r]] # "free"
  /\ Goto(r, "cancel")
  /\ UNCHANGED <<book, sales>>

\* Mutated form: the order that cannot be paid keeps its stock.
ReleaseNothing(r) ==
  /\ pc[r] = "cancel"
  /\ Answer(r, "unavailable")
  /\ UNCHANGED <<book, sales>>

Release(r) ==
  /\ pc[r] = "cancel"
  /\ IF Pending(target[r]) THEN CancelOrder(target[r]) ELSE UNCHANGED book
  /\ Answer(r, "unavailable")
  /\ UNCHANGED sales

-----------------------------------------------------------------------------
(* OrdersService.settle, from its three callers. *)

\* handle_verify: the provider's own view of the order, reconciled with it.
Confirmed(o) ==
  CASE provider[o] = "manual"  -> record[o] = "paid"
    [] provider[o] = "free"    -> o \in settled
    [] provider[o] = "fedapay" -> gateway[o] = "approved"
    [] OTHER                   -> FALSE

Verify(r) ==
  /\ pc[r] = "verify"
  /\ IF Confirmed(target[r]) THEN Goto(r, "settle") ELSE Answer(r, "not_confirmed")
  /\ UNCHANGED <<book, sales>>

\* handle_webhook: the transaction is read again, whatever the event said, and marked
\* seen before the order is settled.
Webhook(r) ==
  /\ pc[r] = "webhook"
  /\ IF gateway[target[r]] # "approved" THEN Answer(r, "rejected") /\ UNCHANGED seen
     ELSE IF target[r] \in seen THEN Answer(r, "ok") /\ UNCHANGED seen
     ELSE seen' = seen \cup {target[r]} /\ Goto(r, "settle")
  /\ UNCHANGED <<book, provider, onSale, record, settled, gateway, mailed, restarts>>

\* _mark_order, which reads the order before it marks the record.
MarkPaid(r) ==
  /\ pc[r] = "paid"
  /\ IF provider[target[r]] # "manual" THEN Answer(r, "rejected")
     ELSE IF status[target[r]] \notin Active THEN Answer(r, "conflict")
     ELSE Goto(r, "mark_paid")
  /\ UNCHANGED <<book, sales>>

\* A record that was never begun is unknown, and the request fails.
RecordPaid(r) ==
  /\ pc[r] = "mark_paid"
  /\ IF record[target[r]] = "none" THEN Answer(r, "error") /\ UNCHANGED record
     ELSE record' = [record EXCEPT ![target[r]] = "paid"] /\ Goto(r, "settle")
  /\ UNCHANGED <<book, provider, onSale, settled, seen, gateway, mailed, restarts>>

\* Mutated form: verify answers as if nothing had happened.
FailureIgnored(r) == IF input[r].kind = "verify" THEN "ok" ELSE "error"

\* What a caller makes of an exception of settle: only verify looks whether the
\* order was paid meanwhile.
Failure(r) ==
  IF input[r].kind = "verify" /\ status[target[r]] = "paid" THEN "ok" ELSE "error"

\* settle reads the order: it is paid already, or cannot be paid, or is to be paid.
Settle(r) ==
  /\ pc[r] = "settle"
  /\ CASE status[target[r]] = "paid"    -> Answer(r, "ok")
       [] status[target[r]] = "pending" -> Goto(r, "commit")
       [] OTHER                         -> Answer(r, Failure(r))
  /\ UNCHANGED <<book, sales>>

\* settle_order; a request that comes second answers with the order as it finds it.
Commit(r) ==
  /\ pc[r] = "commit"
  /\ IF Pending(target[r])
     THEN SettleOrder(target[r], Minted(target[r])) /\ Goto(r, "mail")
     ELSE UNCHANGED book /\ Answer(r, "ok")
  /\ UNCHANGED sales

\* The callback raises: rollback, and the exception leaves the handler.
MintRaises(r) ==
  /\ MintFailures
  /\ pc[r] = "commit" /\ Pending(target[r])
  /\ Answer(r, Failure(r))
  /\ UNCHANGED <<book, sales>>

Mail(r) ==
  /\ pc[r] = "mail"
  /\ mailed' = [mailed EXCEPT ![target[r]] = @ + 1]
  /\ Answer(r, "ok")
  /\ UNCHANGED <<book, provider, onSale, record, settled, seen, gateway, restarts>>

-----------------------------------------------------------------------------
(* mark-failed, and the organizer's edit of a ticket type. *)

MarkFailed(r) ==
  /\ pc[r] = "failed"
  /\ CASE provider[target[r]] # "manual"  -> Answer(r, "rejected")
       [] provider[target[r]] = "manual" /\ status[target[r]] = "failed" -> Answer(r, "ok")
       [] provider[target[r]] = "manual" /\ status[target[r]] = "paid"   -> Answer(r, "conflict")
       [] OTHER -> Goto(r, "mark_failed")
  /\ UNCHANGED <<book, sales>>

RecordFailed(r) ==
  /\ pc[r] = "mark_failed"
  /\ IF record[target[r]] = "none" THEN Answer(r, "error") /\ UNCHANGED record
     ELSE record' = [record EXCEPT ![target[r]] = "failed"] /\ Goto(r, "fail")
  /\ UNCHANGED <<book, provider, onSale, settled, seen, gateway, mailed, restarts>>

\* Mutated form: the order is marked, its stock is not released.
FailKeepsStock(r) ==
  /\ pc[r] = "fail"
  /\ IF Pending(target[r]) THEN CancelOrderKeepsStock(target[r]) /\ Answer(r, "ok")
     ELSE UNCHANGED book /\ Answer(r, "conflict")
  /\ UNCHANGED sales

Fail(r) ==
  /\ pc[r] = "fail"
  /\ IF Pending(target[r])
     THEN CancelOrder(target[r]) /\ Answer(r, "ok")
     ELSE UNCHANGED book /\ Answer(r, "conflict")
  /\ UNCHANGED sales

\* update_ticket_type reads quantity_sold, checks the new total against it, ...
ReadType(r) ==
  /\ pc[r] = "edit"
  /\ IF input[r].total < sold[input[r].type] THEN Answer(r, "rejected") ELSE Goto(r, "update")
  /\ UNCHANGED <<book, sales>>

\* ... and writes the row, all its columns but quantity_sold.
UpdateType(r) ==
  /\ pc[r] = "update"
  /\ total' = [total EXCEPT ![input[r].type] = input[r].total]
  /\ onSale' = IF input[r].active THEN onSale \cup {input[r].type}
               ELSE onSale \ {input[r].type}
  /\ Answer(r, "ok")
  /\ UNCHANGED <<status, buyer, quantity, sold, tickets,
                 provider, record, settled, seen, gateway, mailed, restarts>>

-----------------------------------------------------------------------------
(* The environment. *)

\* The buyer pays, or gives up.
GatewayDecides(o) ==
  /\ gateway[o] = "created"
  /\ \E verdict \in {"approved", "declined"} : gateway' = [gateway EXCEPT ![o] = verdict]
  /\ UNCHANGED <<book, provider, onSale, record, settled, seen, mailed, restarts, handlers>>

\* The process stops with its requests and what it keeps in memory; ManualProvider
\* loads its records again.
Restart ==
  /\ restarts < MaxRestarts
  /\ restarts' = restarts + 1
  /\ settled' = {}
  /\ seen' = {}
  /\ pc' = [r \in Requests |-> IF pc[r] = "idle" THEN "idle" ELSE "done"]
  /\ answer' = [r \in Requests |-> IF pc[r] \in {"idle", "done"} THEN answer[r] ELSE "lost"]
  /\ UNCHANGED <<book, provider, onSale, record, gateway, mailed, input, target>>

Step(r) ==
  \/ Create(r) \/ Insert(r) \/ InsertRaises(r) \/ Begin(r) \/ BeginFails(r) \/ Release(r)
  \/ Verify(r) \/ Webhook(r) \/ MarkPaid(r) \/ RecordPaid(r)
  \/ Settle(r) \/ Commit(r) \/ MintRaises(r) \/ Mail(r)
  \/ MarkFailed(r) \/ RecordFailed(r) \/ Fail(r)
  \/ ReadType(r) \/ UpdateType(r)

Next ==
  \/ \E r \in Requests : Submit(r) \/ Step(r)
  \/ \E o \in OrderIds : GatewayDecides(o)
  \/ Restart

Spec == Init /\ [][Next]_vars
-----------------------------------------------------------------------------
(* Properties. *)

\* The tables of OrderStore, the providers' records and memories, and the requests.
TypeOK ==
  /\ BookTypeOK
  /\ provider \in [OrderIds -> {"none", "manual", "free", "fedapay"}]
  /\ onSale \subseteq Types
  /\ record \in [OrderIds -> {"none", "pending", "paid", "failed"}]
  /\ settled \subseteq OrderIds /\ seen \subseteq OrderIds
  /\ gateway \in [OrderIds -> {"none", "created", "approved", "declined"}]
  /\ mailed \in [OrderIds -> Nat]
  /\ \A r \in Requests :
       /\ input[r] # NoInput => InputType(input[r])
       /\ target[r] \in OrderIds \cup {NoOrder}
       /\ answer[r] \in {"none", "ok", "duplicate", "rejected", "sold_out", "error",
                         "unavailable", "not_confirmed", "conflict", "lost"}

\* A creation that was refused, for whatever reason and at whatever step, leaves no
\* order that holds stock or the buyer's email (orders/service.py, create).
RefusedCreationsHoldNothing ==
  \A r \in Requests :
    /\ input[r] # NoInput /\ input[r].kind = "create"
    /\ answer[r] \notin {"none", "ok", "lost"}
    => target[r] = NoOrder \/ status[target[r]] = "failed"

\* What a paid order has beside what was bought: the student pass of a VIP buyer.
Gifts(o) == tickets[o] \ Bought(o)

\* Two requests that confirm the same payment, by any of the three ways, give the
\* buyer each ticket that was bought, student passes among them, and nothing more but
\* one student pass for an order with a VIP pass and none of that type; and one e-mail
\* at most (settle and its callback mint).
PaidOrdersAreServedOnce ==
  \A o \in OrderIds :
    /\ status[o] = "paid" =>
         /\ Bought(o) \subseteq tickets[o]
         /\ \A g \in Gifts(o) :
              /\ g[1] \in StudentTypes /\ g[2] = 1
              /\ \A s \in Bought(o) : s[1] # g[1]
              /\ \E s \in Bought(o) : s[1] \in VipTypes
              /\ Gifts(o) = {g}
    /\ mailed[o] <= 1
    /\ mailed[o] = 1 => status[o] = "paid"

\* Nobody gets tickets without a confirmation: FedaPay approved the order, an
\* administrator marked its record, or it was free (reconcile, before settle).
PaidOrdersWereConfirmed ==
  \A o \in OrderIds :
    status[o] = "paid" =>
      CASE provider[o] = "fedapay" -> gateway[o] = "approved"
        [] provider[o] = "manual"  -> record[o] \in {"paid", "failed"}
        [] OTHER                   -> provider[o] = "free"

\* Whoever verifies a FedaPay or free order and is answered ok gets a paid order:
\* nothing else that runs can fail it in between.
GatewayConfirmationsAreTrue ==
  \A r \in Requests :
    /\ answer[r] = "ok" /\ input[r].kind = "verify"
    /\ provider[target[r]] # "manual"
    => status[target[r]] = "paid"

\* The handlers leave nothing behind that nobody asked for: what a refused creation
\* took is returned, and what a confirmation gave was confirmed.
HandlersAreSound == TypeOK /\ RefusedCreationsHoldNothing /\ PaidOrdersWereConfirmed

\* Not kept, and checked by no run (TLC refutes it when OrdersSale.cfg lists it).
\* API-FRONTEND.md, POST /api/payments/verify: it answers with the order and its
\* tickets, or 402.
ConfirmedOrdersArePaid ==
  \A r \in Requests :
    answer[r] = "ok" /\ input[r].kind \in {"verify", "paid"} => status[target[r]] = "paid"

\* API-FRONTEND.md, POST /api/payments/webhook: 200 says that the payment was
\* processed and need not be delivered again.  Here: once no request works on it.
AcknowledgedPaymentsAreSettled ==
  \A r \in Requests :
    /\ answer[r] = "ok" /\ input[r].kind = "webhook"
    /\ \A q \in Requests : target[q] = target[r] => pc[q] = "done"
    => status[target[r]] = "paid"

\* Not kept, and checked by no run (TLC refutes it when OrdersSale.cfg lists it).
\* API-FRONTEND.md, POST /api/orders: a free pass is settled at its creation.  Here
\* less is asked: that it be settled, or that verify can still settle it.
FreeOrdersCanBeSettled ==
  \A r \in Requests :
    /\ answer[r] = "ok" /\ input[r].kind = "create" /\ provider[target[r]] = "free"
    => status[target[r]] = "paid" \/ Confirmed(target[r])
=============================================================================
