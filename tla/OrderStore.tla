------------------------------ MODULE OrderStore ------------------------------
(***************************************************************************)
(* The three transactions that change an order (backend/store/orders.py):  *)
(* creation with its stock, cancellation, settlement.  Each one is atomic: *)
(* its UPDATE ... WHERE status = 'pending' takes the row lock.  Orders.tla *)
(* adds the handlers that call them; this module says what the tables keep *)
(* whoever calls them and in whatever order.                               *)
(*                                                                         *)
(* One event.  A ticket is <<type, n>>: the n-th ticket of that type in    *)
(* its order.  The lines of an order are a function from types to          *)
(* quantities: lines of one type add up.                                   *)
(***************************************************************************)
EXTENDS Integers, FiniteSets

CONSTANTS
  OrderIds, Emails, Types,
  MaxQuantity,        \* bound: the largest total quantity of a type in an order
  InitialTotals,      \* quantity_total of each type; 0 is "unlimited"
  NoEmail

Units == 1 .. MaxQuantity
Quantities == [Types -> 0 .. MaxQuantity]

ASSUME OrderStoreAssumption ==
  /\ IsFiniteSet(OrderIds) /\ IsFiniteSet(Types)
  /\ MaxQuantity \in Nat
  /\ InitialTotals \in [Types -> Nat]
  /\ NoEmail \notin Emails

VARIABLES
  status,             \* orders.status; "none" while there is no row
  buyer,              \* orders.buyer_email, in lower case
  quantity,           \* order_items
  sold,               \* ticket_types.quantity_sold
  total,              \* ticket_types.quantity_total
  tickets             \* the tickets rows of each order

book == <<status, buyer, quantity, sold, total, tickets>>

Active == {"pending", "paid"}

\* The query before the transaction and the partial unique index inside it agree.
EmailTaken(e) == \E o \in OrderIds : status[o] \in Active /\ buyer[o] = e

\* Mutated form: some stock left is stock enough.
AffordableIfAnyLeft(q) ==
  \A t \in Types : q[t] = 0 \/ total[t] = 0 \/ sold[t] < total[t]

\* UPDATE ticket_types ... WHERE quantity_total = 0 OR quantity_sold + q <= quantity_total.
Affordable(q) ==
  \A t \in Types : q[t] = 0 \/ total[t] = 0 \/ sold[t] + q[t] <= total[t]

\* Mutated form: the UPDATE does not look at the status.
PendingIsForgotten(o) == status[o] # "none"

\* UPDATE orders ... WHERE status = 'pending' finds the row.
Pending(o) == status[o] = "pending"

-----------------------------------------------------------------------------
BookInit ==
  /\ status = [o \in OrderIds |-> "none"]
  /\ buyer = [o \in OrderIds |-> NoEmail]
  /\ quantity = [o \in OrderIds |-> [t \in Types |-> 0]]
  /\ sold = [t \in Types |-> 0]
  /\ total = InitialTotals
  /\ tickets = [o \in OrderIds |-> {}]

\* create_order_with_items.  Otherwise it raises and nothing is written: SoldOut
\* when some line is not affordable, a unique violation when the email is taken
\* (idx_orders_event_buyer_email_active).
CreateOrder(o, e, q) ==
  /\ status[o] = "none"
  /\ Affordable(q)
  /\ ~EmailTaken(e)
  /\ status' = [status EXCEPT ![o] = "pending"]
  /\ buyer' = [buyer EXCEPT ![o] = e]
  /\ quantity' = [quantity EXCEPT ![o] = q]
  /\ sold' = [t \in Types |-> sold[t] + q[t]]
  /\ UNCHANGED <<total, tickets>>

\* Mutated form: the stock stays taken.
CancelOrderKeepsStock(o) ==
  /\ Pending(o)
  /\ status' = [status EXCEPT ![o] = "failed"]
  /\ UNCHANGED <<buyer, quantity, sold, total, tickets>>

\* cancel_order_release_inventory, when it returns True.
CancelOrder(o) ==
  /\ Pending(o)
  /\ status' = [status EXCEPT ![o] = "failed"]
  /\ sold' = [t \in Types |-> sold[t] - quantity[o][t]]
  /\ UNCHANGED <<buyer, quantity, total, tickets>>

\* settle_order, when it returns True; `minted` is what its callback returned.
SettleOrder(o, minted) ==
  /\ Pending(o)
  /\ status' = [status EXCEPT ![o] = "paid"]
  /\ tickets' = [tickets EXCEPT ![o] = @ \cup minted]
  /\ UNCHANGED <<buyer, quantity, sold, total>>

\* The tickets of what order o bought.
TicketsOf(o) == {s \in Types \X Units : s[2] <= quantity[o][s[1]]}

\* update_ticket_type of an organizer, as far as totals go; it looks at nothing.
EditTotals ==
  /\ total' \in [Types -> Nat]
  /\ UNCHANGED <<status, buyer, quantity, sold, tickets>>

BookNext ==
  \/ \E o \in OrderIds :
       \/ \E e \in Emails, q \in Quantities : CreateOrder(o, e, q)
       \/ CancelOrder(o)
       \/ \E minted \in SUBSET (Types \X Units) : SettleOrder(o, minted)
  \/ EditTotals

BookSpec == BookInit /\ [][BookNext]_book
-----------------------------------------------------------------------------
(* Properties. *)

BookTypeOK ==
  /\ status \in [OrderIds -> {"none", "pending", "paid", "failed"}]
  /\ buyer \in [OrderIds -> Emails \cup {NoEmail}]
  /\ quantity \in [OrderIds -> Quantities]
  /\ sold \in [Types -> Nat]
  /\ total \in [Types -> Nat]
  /\ tickets \in [OrderIds -> SUBSET (Types \X Nat)]

\* The places that the active orders hold.
Held(t) == {p \in OrderIds \X Units : status[p[1]] \in Active /\ p[2] <= quantity[p[1]][t]}

\* The counter quantity_sold, which is only incremented and decremented, is the
\* number of places that pending and paid orders hold: no path returns stock twice
\* or forgets to return it (_create_order_tx, _cancel_order_tx).
StockIsHeld == \A t \in Types : sold[t] = Cardinality(Held(t))

\* Whoever sells takes places that exist: no step moves a counter up past a total,
\* although an edit may move a total below what is sold (_create_order_tx).
SalesStayWithinTotals ==
  [][\A t \in Types : sold'[t] > sold[t] => total'[t] = 0 \/ sold'[t] <= total'[t]]_book

\* An email has at most one pending or paid order on the event (migration 0017).
OneActiveOrderPerEmail ==
  \A o, p \in OrderIds :
    status[o] \in Active /\ status[p] \in Active /\ buyer[o] = buyer[p] => o = p

\* Only a paid order has tickets: a cancelled one never keeps or gets any.
TicketsArePaidFor == \A o \in OrderIds : tickets[o] # {} => status[o] = "paid"

\* An order that was settled or cancelled stays as it is, with its lines and tickets:
\* whichever of two requests comes second finds no pending row (settle_order,
\* cancel_order_release_inventory).
OutcomesAreFinal ==
  [][\A o \in OrderIds :
       status[o] \in {"paid", "failed"} =>
         status'[o] = status[o] /\ tickets'[o] = tickets[o] /\ quantity'[o] = quantity[o]]_book
=============================================================================
