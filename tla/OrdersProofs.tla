----------------------------- MODULE OrdersProofs -----------------------------
(***************************************************************************)
(* Theorems about the order transactions, for any number of orders, emails *)
(* and types, and about the handlers that run them.                        *)
(*                                                                         *)
(* The invariant of the tables is inductive as the conjunction BookInv:    *)
(* the counters of quantity_sold stay natural numbers only because they    *)
(* count the places held, so typing and StockIsHeld are proved together.   *)
(*                                                                         *)
(* The handlers of Orders implement OrderStore: whatever requests, failures*)
(* and restarts there are, each step of a handler is one transaction, one  *)
(* edit of a total, or nothing, as far as the tables go.  What is proved of*)
(* BookSpec then holds of the handlers.                                    *)
(*                                                                         *)
(* The refinement needs to know what a handler holds at each step: Control.*)
(* What the handlers answer, and how often they serve an order, rests on   *)
(* Handlers: each order is begun by one request, only a manual mark fails  *)
(* an order that was begun, and whoever settles or sends the e-mail of an  *)
(* order is alone at it.                                                   *)
(*                                                                         *)
(* Last, the forms that buyers fill in before they order (BuyerForms): the *)
(* wizard and the API agree on what a complete form is, and the cart keeps *)
(* its lines and adds up.  The totals are folds and the digits of amounts a*)
(* recursive function: that they are defined, and what they compute, is    *)
(* proved by minimal counterexamples (MinimalSets, LeastNumbers).          *)
(***************************************************************************)
EXTENDS Orders, BuyerForms, FiniteSetTheorems, SequenceTheorems, TLAPS

-----------------------------------------------------------------------------
(* The tables. *)

BookInv ==
  /\ BookTypeOK
  /\ StockIsHeld
  /\ OneActiveOrderPerEmail
  /\ TicketsArePaidFor

\* The places of one order line are as many as its quantity (_create_order_tx adds it).
LEMMA PlacesOfALine ==
  ASSUME NEW o, NEW n \in Nat
  PROVE  /\ IsFiniteSet({o} \X (1 .. n))
         /\ Cardinality({o} \X (1 .. n)) = n
<1>1. IsFiniteSet({o}) /\ Cardinality({o}) = 1
  BY FS_Singleton
<1>2. IsFiniteSet(1 .. n) /\ Cardinality(1 .. n) = n
  BY FS_Interval
<1>3. /\ IsFiniteSet({o} \X (1 .. n))
      /\ Cardinality({o} \X (1 .. n)) = Cardinality({o}) * Cardinality(1 .. n)
  BY <1>1, <1>2, FS_Product
<1> QED
  BY <1>1, <1>2, <1>3

\* The places held of a type can be counted, whatever the orders.
LEMMA HeldIsFinite ==
  ASSUME NEW t \in Types
  PROVE  IsFiniteSet(Held(t))
<1>1. IsFiniteSet(Units)
  BY OrderStoreAssumption, FS_Interval DEF Units
<1>2. IsFiniteSet(OrderIds \X Units)
  BY <1>1, OrderStoreAssumption, FS_Product
<1>3. Held(t) \subseteq OrderIds \X Units
  BY DEF Held
<1> QED
  BY <1>2, <1>3, FS_Subset

\* A creation adds exactly the places of its lines to what is held.
LEMMA CreateHolds ==
  ASSUME BookTypeOK, StockIsHeld,
         NEW o \in OrderIds, NEW e \in Emails, NEW q \in Quantities, CreateOrder(o, e, q)
  PROVE  StockIsHeld'
<1> SUFFICES ASSUME NEW t \in Types
             PROVE  sold'[t] = Cardinality(Held(t)')
  BY DEF StockIsHeld
<1> DEFINE New == {o} \X (1 .. q[t])
<1>1. q[t] \in Nat /\ q[t] <= MaxQuantity
  BY OrderStoreAssumption DEF Quantities
<1>2. Held(t)' = Held(t) \cup New
  <2>1. \A p \in OrderIds \X Units :
          /\ p[1] # o => (p \in Held(t)' <=> p \in Held(t))
          /\ p[1] = o => p \notin Held(t) /\ (p \in Held(t)' <=> p[2] <= q[t])
    BY DEF Held, CreateOrder, BookTypeOK, Active
  <2>2. New = {p \in OrderIds \X Units : p[1] = o /\ p[2] <= q[t]}
    BY <1>1, OrderStoreAssumption DEF New, Units
  <2>3. Held(t) \subseteq OrderIds \X Units /\ Held(t)' \subseteq OrderIds \X Units
    BY DEF Held
  <2> QED
    BY <2>1, <2>2, <2>3
<1>3. Held(t) \cap New = {}
  BY DEF Held, New, CreateOrder, Active
<1>4. IsFiniteSet(New) /\ Cardinality(New) = q[t]
  BY <1>1, PlacesOfALine
<1>5. Cardinality(Held(t)') = Cardinality(Held(t)) + q[t]
  <2>1. Cardinality(Held(t) \cup New)
          = Cardinality(Held(t)) + Cardinality(New) - Cardinality(Held(t) \cap New)
    BY <1>4, HeldIsFinite, FS_Union
  <2>2. Cardinality(Held(t) \cap New) = 0
    BY <1>3, FS_EmptySet
  <2>3. Cardinality(Held(t)) \in Nat
    BY HeldIsFinite, FS_CardinalityType
  <2> QED
    BY <1>1, <1>2, <1>4, <2>1, <2>2, <2>3
<1>6. sold'[t] = sold[t] + q[t]
  BY DEF CreateOrder
<1> QED
  BY <1>5, <1>6 DEF StockIsHeld

\* A cancellation gives back exactly the places of the order, once.
LEMMA CancelReleases ==
  ASSUME BookTypeOK, StockIsHeld, NEW o \in OrderIds, CancelOrder(o)
  PROVE  StockIsHeld'
<1> SUFFICES ASSUME NEW t \in Types
             PROVE  sold'[t] = Cardinality(Held(t)')
  BY DEF StockIsHeld
<1> DEFINE Old == {o} \X (1 .. quantity[o][t])
<1>1. quantity[o][t] \in Nat /\ quantity[o][t] <= MaxQuantity
  BY OrderStoreAssumption DEF BookTypeOK, Quantities
<1>2. Held(t) = Held(t)' \cup Old
  <2>1. \A p \in OrderIds \X Units :
          /\ p[1] # o => (p \in Held(t)' <=> p \in Held(t))
          /\ p[1] = o => p \notin Held(t)' /\ (p \in Held(t) <=> p[2] <= quantity[o][t])
    BY DEF Held, CancelOrder, Pending, BookTypeOK, Active
  <2>2. Old = {p \in OrderIds \X Units : p[1] = o /\ p[2] <= quantity[o][t]}
    BY <1>1, OrderStoreAssumption DEF Old, Units
  <2>3. Held(t) \subseteq OrderIds \X Units /\ Held(t)' \subseteq OrderIds \X Units
    BY DEF Held
  <2> QED
    BY <2>1, <2>2, <2>3
<1>3. Held(t)' \cap Old = {}
  BY DEF Held, Old, CancelOrder, BookTypeOK, Active
<1>4. IsFiniteSet(Old) /\ Cardinality(Old) = quantity[o][t]
  BY <1>1, PlacesOfALine
<1>5. IsFiniteSet(Held(t)')
  BY <1>2, HeldIsFinite, FS_Subset
<1>6. Cardinality(Held(t)) = Cardinality(Held(t)') + quantity[o][t]
  <2>1. Cardinality(Held(t)' \cup Old)
          = Cardinality(Held(t)') + Cardinality(Old) - Cardinality(Held(t)' \cap Old)
    BY <1>4, <1>5, FS_Union
  <2>2. Cardinality(Held(t)' \cap Old) = 0
    BY <1>3, FS_EmptySet
  <2>3. Cardinality(Held(t)') \in Nat
    BY <1>5, FS_CardinalityType
  <2> QED
    BY <1>1, <1>2, <1>4, <2>1, <2>2, <2>3
<1>7. sold'[t] = sold[t] - quantity[o][t]
  BY DEF CancelOrder
<1>8. Cardinality(Held(t)') \in Nat
  BY <1>5, FS_CardinalityType
<1> QED
  BY <1>1, <1>6, <1>7, <1>8 DEF StockIsHeld

\* A settlement, or a step elsewhere, holds what was held: a paid order keeps its places.
LEMMA HeldStays ==
  ASSUME BookTypeOK, StockIsHeld, sold' = sold, quantity' = quantity,
         \A o \in OrderIds : (status[o] \in Active) <=> (status'[o] \in Active)
  PROVE  StockIsHeld'
<1> SUFFICES ASSUME NEW t \in Types
             PROVE  sold'[t] = Cardinality(Held(t)')
  BY DEF StockIsHeld
<1>1. Held(t)' = Held(t)
  BY DEF Held
<1> QED
  BY <1>1 DEF StockIsHeld

-----------------------------------------------------------------------------
\* The tables start empty, and nothing is held or counted.
LEMMA InitBookInv == BookInit => BookInv
<1> SUFFICES ASSUME BookInit PROVE BookInv
  OBVIOUS
<1>1. BookTypeOK
  BY OrderStoreAssumption DEF BookInit, BookTypeOK, Quantities
<1>2. StockIsHeld
  <2> SUFFICES ASSUME NEW t \in Types PROVE sold[t] = Cardinality(Held(t))
    BY DEF StockIsHeld
  <2>1. Held(t) = {}
    BY DEF Held, BookInit, Active
  <2> QED
    BY <2>1, FS_EmptySet DEF BookInit
<1>3. OneActiveOrderPerEmail
  BY DEF BookInit, OneActiveOrderPerEmail, Active
<1>4. TicketsArePaidFor
  BY DEF BookInit, TicketsArePaidFor
<1> QED
  BY <1>1, <1>2, <1>3, <1>4 DEF BookInv

\* Each transaction of store/orders.py preserves the invariant.
LEMMA StepBookInv == BookInv /\ [BookNext]_book => BookInv'
<1> SUFFICES ASSUME BookInv, [BookNext]_book PROVE BookInv'
  OBVIOUS
<1> USE DEF BookInv
<1>1. ASSUME NEW o \in OrderIds, NEW e \in Emails, NEW q \in Quantities, CreateOrder(o, e, q)
      PROVE  BookInv'
  <2>1. StockIsHeld'
    BY <1>1, CreateHolds
  <2>2. BookTypeOK'
    BY <1>1 DEF CreateOrder, BookTypeOK, Quantities
  <2>3. OneActiveOrderPerEmail'
    BY <1>1 DEF CreateOrder, EmailTaken, OneActiveOrderPerEmail, BookTypeOK
  <2>4. TicketsArePaidFor'
    BY <1>1 DEF CreateOrder, TicketsArePaidFor, BookTypeOK
  <2> QED
    BY <2>1, <2>2, <2>3, <2>4
<1>2. ASSUME NEW o \in OrderIds, CancelOrder(o)
      PROVE  BookInv'
  <2>1. StockIsHeld'
    BY <1>2, CancelReleases
  <2>2. BookTypeOK'
    <3>1. ASSUME NEW t \in Types PROVE sold'[t] \in Nat
      <4>1. IsFiniteSet(Held(t)')
        <5>1. Held(t)' \subseteq Held(t)
          BY <1>2 DEF CancelOrder, Held, BookTypeOK, Active
        <5> QED
          BY <5>1, HeldIsFinite, FS_Subset
      <4> QED
        BY <2>1, <4>1, FS_CardinalityType DEF StockIsHeld
    <3>2. sold' \in [Types -> Nat]
      BY <1>2, <3>1 DEF CancelOrder
    <3> QED
      BY <1>2, <3>2 DEF CancelOrder, BookTypeOK
  <2>3. OneActiveOrderPerEmail'
    BY <1>2 DEF CancelOrder, OneActiveOrderPerEmail, BookTypeOK, Active
  <2>4. TicketsArePaidFor'
    BY <1>2 DEF CancelOrder, Pending, TicketsArePaidFor, BookTypeOK
  <2> QED
    BY <2>1, <2>2, <2>3, <2>4
<1>3. ASSUME NEW o \in OrderIds, NEW minted \in SUBSET (Types \X Units), SettleOrder(o, minted)
      PROVE  BookInv'
  <2>1. StockIsHeld'
    BY <1>3, HeldStays DEF SettleOrder, Pending, BookTypeOK, Active
  <2>2. BookTypeOK'
    BY <1>3, OrderStoreAssumption DEF SettleOrder, BookTypeOK, Units
  <2>3. OneActiveOrderPerEmail'
    BY <1>3 DEF SettleOrder, Pending, OneActiveOrderPerEmail, BookTypeOK, Active
  <2>4. TicketsArePaidFor'
    BY <1>3 DEF SettleOrder, TicketsArePaidFor, BookTypeOK
  <2> QED
    BY <2>1, <2>2, <2>3, <2>4
<1>4. ASSUME EditTotals \/ UNCHANGED book
      PROVE  BookInv'
  <2>1. StockIsHeld'
    BY <1>4, HeldStays DEF EditTotals, book
  <2>2. BookTypeOK'
    BY <1>4 DEF EditTotals, book, BookTypeOK
  <2>3. OneActiveOrderPerEmail' /\ TicketsArePaidFor'
    BY <1>4 DEF EditTotals, book, OneActiveOrderPerEmail, TicketsArePaidFor
  <2> QED
    BY <2>1, <2>2, <2>3
<1> QED
  BY <1>1, <1>2, <1>3, <1>4 DEF BookNext

-----------------------------------------------------------------------------
\* The invariant holds of every behaviour of the three transactions and the edits.
THEOREM BookInvariant == BookSpec => []BookInv
BY InitBookInv, StepBookInv, PTL DEF BookSpec

\* quantity_sold is at all times the number of places that pending and paid orders
\* hold, for any number of orders and types.
THEOREM StockConserved == BookSpec => []StockIsHeld
<1>1. BookInv => StockIsHeld
  BY DEF BookInv
<1> QED
  BY <1>1, BookInvariant, PTL

\* An email never has two active orders on the event.
THEOREM EmailOrdersOnce == BookSpec => []OneActiveOrderPerEmail
<1>1. BookInv => OneActiveOrderPerEmail
  BY DEF BookInv
<1> QED
  BY <1>1, BookInvariant, PTL

\* Tickets exist for paid orders only.
THEOREM TicketsBelongToPaidOrders == BookSpec => []TicketsArePaidFor
<1>1. BookInv => TicketsArePaidFor
  BY DEF BookInv
<1> QED
  BY <1>1, BookInvariant, PTL

\* No transaction touches an order that was settled or cancelled.
LEMMA OutcomesStay ==
  ASSUME BookInv, [BookNext]_book, NEW p \in OrderIds, status[p] \in {"paid", "failed"}
  PROVE  status'[p] = status[p] /\ tickets'[p] = tickets[p] /\ quantity'[p] = quantity[p]
<1> DEFINE Stays == status'[p] = status[p] /\ tickets'[p] = tickets[p] /\ quantity'[p] = quantity[p]
<1>1. BookTypeOK
  BY DEF BookInv
<1>2. ASSUME NEW o \in OrderIds, NEW e \in Emails, NEW q \in Quantities, CreateOrder(o, e, q)
      PROVE  Stays
  BY <1>1, <1>2 DEF CreateOrder, BookTypeOK
<1>3. ASSUME NEW o \in OrderIds, CancelOrder(o)
      PROVE  Stays
  BY <1>1, <1>3 DEF CancelOrder, Pending, BookTypeOK
<1>4. ASSUME NEW o \in OrderIds, NEW minted \in SUBSET (Types \X Units), SettleOrder(o, minted)
      PROVE  Stays
  BY <1>1, <1>4 DEF SettleOrder, Pending, BookTypeOK
<1>5. CASE EditTotals \/ UNCHANGED book
  BY <1>5 DEF EditTotals, book
<1> QED
  BY <1>2, <1>3, <1>4, <1>5 DEF BookNext

\* An order that was settled or cancelled is never touched again.
THEOREM SettledOrdersAreFinal == BookSpec => OutcomesAreFinal
<1>1. BookInv /\ [BookNext]_book =>
        [\A o \in OrderIds :
           status[o] \in {"paid", "failed"} =>
             status'[o] = status[o] /\ tickets'[o] = tickets[o] /\ quantity'[o] = quantity[o]]_book
  BY OutcomesStay
<1> QED
  BY <1>1, BookInvariant, PTL DEF BookSpec, OutcomesAreFinal

\* No transaction sells a place beyond a total.
THEOREM NobodySellsBeyondTotals == BookSpec => SalesStayWithinTotals
<1>1. BookInv /\ [BookNext]_book =>
        [\A t \in Types : sold'[t] > sold[t] => total'[t] = 0 \/ sold'[t] <= total'[t]]_book
  <2> SUFFICES ASSUME BookInv, BookNext, NEW t \in Types, sold'[t] > sold[t]
               PROVE  total'[t] = 0 \/ sold'[t] <= total'[t]
    BY DEF book
  <2>1. BookTypeOK
    BY DEF BookInv
  <2>2. sold[t] \in Nat
    BY <2>1 DEF BookTypeOK
  <2>3. ASSUME NEW o \in OrderIds, NEW e \in Emails, NEW q \in Quantities, CreateOrder(o, e, q)
        PROVE  total'[t] = 0 \/ sold'[t] <= total'[t]
    <3>1. sold'[t] = sold[t] + q[t] /\ total'[t] = total[t]
      BY <2>3 DEF CreateOrder
    <3>2. q[t] = 0 \/ total[t] = 0 \/ sold[t] + q[t] <= total[t]
      BY <2>3 DEF CreateOrder, Affordable
    <3> QED
      BY <2>2, <3>1, <3>2
  <2>4. ASSUME NEW o \in OrderIds, CancelOrder(o)
        PROVE  FALSE
    <3>1. sold'[t] = sold[t] - quantity[o][t] /\ quantity[o][t] \in Nat
      BY <2>1, <2>4, OrderStoreAssumption DEF CancelOrder, BookTypeOK, Quantities
    <3> QED
      BY <2>2, <3>1
  <2>5. ASSUME \/ EditTotals
               \/ \E o \in OrderIds : \E minted \in SUBSET (Types \X Units) : SettleOrder(o, minted)
        PROVE  FALSE
    BY <2>2, <2>5 DEF EditTotals, SettleOrder
  <2> QED
    BY <2>3, <2>4, <2>5 DEF BookNext
<1> QED
  BY <1>1, BookInvariant, PTL DEF BookSpec, SalesStayWithinTotals

-----------------------------------------------------------------------------
(* The handlers. *)

\* Steps at which a request works on an order that exists.
OnOrder ==
  {"begin", "cancel", "verify", "webhook", "paid", "mark_paid", "settle", "commit", "mail",
   "failed", "mark_failed", "fail"}

Control ==
  /\ pc \in [Requests -> {"idle", "create", "insert", "edit", "update", "done"} \cup OnOrder]
  /\ DOMAIN input = Requests
  /\ DOMAIN target = Requests
  /\ total \in [Types -> Nat]
  /\ \A r \in Requests :
       /\ pc[r] \in {"create", "insert"} => input[r] \in Inputs /\ input[r].kind = "create"
       /\ pc[r] \in {"edit", "update"} => input[r] \in Inputs /\ input[r].kind = "edit"
       /\ pc[r] \in OnOrder => target[r] \in OrderIds

\* What requests carry, as far as the tables are concerned (routes/orders.py, create_order).
LEMMA InputFacts ==
  ASSUME NEW i \in Inputs
  PROVE  /\ i.kind \in {"create", "verify", "webhook", "paid", "failed", "edit"}
         /\ i.kind = "create" => i.email \in Emails /\ Demand(i.lines) \in Quantities
         /\ i.kind = "edit" => i.type \in Types /\ i.total \in Nat
BY OrdersAssumption DEF InputType

\* The handlers' control state holds initially.
LEMMA InitControl == Init => Control
BY OrderStoreAssumption DEF Init, BookInit, Control, OnOrder

\* A handler keeps to its own request, and moves it along its route.
LEMMA StepControl == Control /\ [Next]_vars => Control'
<1> SUFFICES ASSUME Control, [Next]_vars PROVE Control'
  OBVIOUS
<1>1. ASSUME NEW r \in Requests, Submit(r) PROVE Control'
  <2>1. PICK i \in Inputs, o \in OrderIds \cup {NoOrder} :
          /\ IF i.kind \in {"create", "edit"} THEN o = NoOrder
             ELSE o # NoOrder /\ status[o] # "none"
          /\ input' = [input EXCEPT ![r] = i]
          /\ target' = [target EXCEPT ![r] = o]
          /\ pc' = [pc EXCEPT ![r] = i.kind]
    BY <1>1 DEF Submit
  <2> QED
    BY <1>1, <2>1, InputFacts DEF Submit, book, Control, OnOrder
<1>2. ASSUME NEW r \in Requests, Insert(r) PROVE Control'
  BY <1>2 DEF Insert, CreateOrder, FreshOrder, Control, OnOrder
<1>3. ASSUME NEW r \in Requests,
             \/ Create(r) \/ InsertRaises(r) \/ Begin(r) \/ BeginFails(r) \/ Verify(r) \/ Webhook(r)
             \/ MarkPaid(r) \/ RecordPaid(r) \/ Settle(r) \/ MintRaises(r) \/ Mail(r)
             \/ MarkFailed(r) \/ RecordFailed(r) \/ ReadType(r)
      PROVE  Control'
  <2>1. CASE Create(r) \/ InsertRaises(r) \/ Begin(r) \/ BeginFails(r)
    BY <2>1 DEF Create, InsertRaises, Begin, BeginFails, Goto, Answer, book, Control, OnOrder
  <2>2. CASE Verify(r) \/ Webhook(r) \/ MarkPaid(r) \/ RecordPaid(r)
    BY <2>2 DEF Verify, Webhook, MarkPaid, RecordPaid, Goto, Answer, book, Control, OnOrder
  <2>3. CASE Settle(r) \/ MintRaises(r) \/ Mail(r)
    BY <2>3 DEF Settle, MintRaises, Mail, Goto, Answer, book, Control, OnOrder
  <2>4. CASE MarkFailed(r) \/ RecordFailed(r) \/ ReadType(r)
    BY <2>4 DEF MarkFailed, RecordFailed, ReadType, Goto, Answer, book, Control, OnOrder
  <2> QED
    BY <1>3, <2>1, <2>2, <2>3, <2>4
<1>4. ASSUME NEW r \in Requests, Release(r) \/ Commit(r) \/ Fail(r) PROVE Control'
  BY <1>4 DEF Release, Commit, Fail, CancelOrder, SettleOrder, Goto, Answer, book, Control, OnOrder
<1>5. ASSUME NEW r \in Requests, UpdateType(r) PROVE Control'
  <2>1. input[r].type \in Types /\ input[r].total \in Nat
    BY <1>5, InputFacts DEF UpdateType, Control
  <2> QED
    BY <1>5, <2>1 DEF UpdateType, Answer, Control, OnOrder
<1>6. ASSUME (\E o \in OrderIds : GatewayDecides(o)) \/ UNCHANGED vars PROVE Control'
  BY <1>6 DEF GatewayDecides, vars, book, handlers, Control
<1>7. ASSUME Restart PROVE Control'
  BY <1>7 DEF Restart, book, Control, OnOrder
<1> QED
  BY <1>1, <1>2, <1>3, <1>4, <1>5, <1>6, <1>7 DEF Next, Step

\* The tickets that settle mints are of existing types, numbered from 1.
LEMMA MintedAreTickets ==
  ASSUME NEW o \in OrderIds
  PROVE  Minted(o) \subseteq Types \X Units
<1> DEFINE types  == {s[1] : s \in Bought(o)}
           passes == StudentTypes \cap onSale
           first  == CHOOSE t \in passes : TRUE
           given  == types \cap VipTypes # {} /\ passes # {} /\ first \notin types
<1>1. Bought(o) \subseteq Types \X Units
  BY DEF TicketsOf, Bought
<1>2. ASSUME given
      PROVE  <<first, 1>> \in Types \X Units
  <2>1. first \in passes
    BY <1>2
  <2>2. passes \subseteq Types
    BY OrdersAssumption
  <2>3. 1 \in Units
    <3>1. PICK s \in Bought(o) : TRUE
      BY <1>2
    <3>2. s[2] \in Units
      BY <1>1, <3>1
    <3> QED
      BY <3>2, OrderStoreAssumption DEF Units
  <2> QED
    BY <2>1, <2>2, <2>3
<1>3. Minted(o) = Bought(o) \cup (IF given THEN {<<first, 1>>} ELSE {})
  BY DEF Minted
<1> QED
  BY <1>1, <1>2, <1>3

\* One step of the handlers is one step of the tables, or none.
LEMMA StepImplements == Control /\ [Next]_vars => [BookNext]_book
<1> SUFFICES ASSUME Control, [Next]_vars PROVE [BookNext]_book
  OBVIOUS
<1>1. ASSUME NEW r \in Requests, Insert(r) PROVE BookNext
  <2>1. input[r].email \in Emails /\ Demand(input[r].lines) \in Quantities
    BY <1>1, InputFacts DEF Insert, Control
  <2>2. PICK o \in FreshOrder : CreateOrder(o, input[r].email, Demand(input[r].lines))
    BY <1>1 DEF Insert
  <2> QED
    BY <2>1, <2>2 DEF BookNext, FreshOrder
<1>2. ASSUME NEW r \in Requests, Release(r) \/ Fail(r) PROVE BookNext \/ UNCHANGED book
  <2>1. target[r] \in OrderIds
    BY <1>2 DEF Release, Fail, Control, OnOrder
  <2>2. CancelOrder(target[r]) \/ UNCHANGED book
    BY <1>2 DEF Release, Fail
  <2> QED
    BY <2>1, <2>2 DEF BookNext
<1>3. ASSUME NEW r \in Requests, Commit(r) PROVE BookNext \/ UNCHANGED book
  <2>1. target[r] \in OrderIds
    BY <1>3 DEF Commit, Control, OnOrder
  <2>2. SettleOrder(target[r], Minted(target[r])) \/ UNCHANGED book
    BY <1>3 DEF Commit
  <2>3. Minted(target[r]) \in SUBSET (Types \X Units)
    BY <2>1, MintedAreTickets
  <2> QED
    BY <2>1, <2>2, <2>3 DEF BookNext
<1>4. ASSUME NEW r \in Requests, UpdateType(r) PROVE BookNext
  <2>1. input[r].type \in Types /\ input[r].total \in Nat
    BY <1>4, InputFacts DEF UpdateType, Control
  <2>2. EditTotals
    BY <1>4, <2>1 DEF UpdateType, EditTotals, Control
  <2> QED
    BY <2>2 DEF BookNext
<1>5. ASSUME NEW r \in Requests,
             \/ Submit(r)
             \/ Create(r) \/ InsertRaises(r) \/ Begin(r) \/ BeginFails(r)
             \/ Verify(r) \/ Webhook(r) \/ MarkPaid(r) \/ RecordPaid(r)
             \/ Settle(r) \/ MintRaises(r) \/ Mail(r)
             \/ MarkFailed(r) \/ RecordFailed(r) \/ ReadType(r)
      PROVE  UNCHANGED book
  BY <1>5 DEF Submit, Create, InsertRaises, Begin, BeginFails, Verify, Webhook, MarkPaid,
       RecordPaid, Settle, MintRaises, Mail, MarkFailed, RecordFailed, ReadType
<1>6. ASSUME (\E o \in OrderIds : GatewayDecides(o)) \/ Restart \/ UNCHANGED vars
      PROVE  UNCHANGED book
  BY <1>6 DEF GatewayDecides, Restart, vars
<1> QED
  BY <1>1, <1>2, <1>3, <1>4, <1>5, <1>6 DEF Next, Step

-----------------------------------------------------------------------------
\* The interleaved handlers of the application implement the order transactions.
THEOREM OrdersImplementStore == Spec => BookSpec
<1>1. Init => BookInit
  BY DEF Init
<1> QED
  BY <1>1, InitControl, StepControl, StepImplements, PTL DEF Spec, BookSpec

\* Whatever interleaves, quantity_sold is the number of places that pending and paid
\* orders hold.
THEOREM OrdersConserveStock == Spec => []StockIsHeld
BY OrdersImplementStore, StockConserved, PTL

\* Concurrent creations give an email one active order at most.
THEOREM OrdersAreOncePerEmail == Spec => []OneActiveOrderPerEmail
BY OrdersImplementStore, EmailOrdersOnce, PTL

\* No interleaving of verify, webhook and manual marks leaves tickets without payment.
THEOREM OrdersGiveTicketsOnPayment == Spec => []TicketsArePaidFor
BY OrdersImplementStore, TicketsBelongToPaidOrders, PTL

\* No handler touches an order that another one has settled or cancelled.
THEOREM OrdersKeepOutcomes == Spec => OutcomesAreFinal
BY OrdersImplementStore, SettledOrdersAreFinal, PTL

\* No handler sells beyond a total, even while an organizer edits it.
THEOREM OrdersSellWithinTotals == Spec => SalesStayWithinTotals
BY OrdersImplementStore, NobodySellsBeyondTotals, PTL

-----------------------------------------------------------------------------
(***************************************************************************)
(* The handlers and the payments.  What a request found out about its      *)
(* order must still be true when it acts on it, several steps later.  It is*)
(* because records and gateway transactions only exist for the provider of *)
(* the order, because each order is begun by the one request that created  *)
(* it, and because nothing but a manual mark fails an order once begun.    *)
(***************************************************************************)

\* Somebody confirmed the order, in the way of its provider.
Backed(o) ==
  \/ provider[o] = "fedapay" /\ gateway[o] = "approved"
  \/ provider[o] = "manual" /\ record[o] \in {"paid", "failed"}
  \/ provider[o] = "free"

PaymentOf(o) ==
  /\ status[o] = "none" <=> provider[o] = "none"
  /\ record[o] # "none" => provider[o] = "manual"
  /\ gateway[o] # "none" => provider[o] = "fedapay"
  /\ status[o] = "paid" => Backed(o)
  /\ status[o] = "failed" /\ provider[o] # "manual" =>
       provider[o] = "fedapay" /\ gateway[o] = "none"
  /\ mailed[o] \in {0, 1}
  /\ mailed[o] = 1 => status[o] = "paid"

\* What was bought, and a student pass at most for whoever bought a VIP pass.
Served(o) ==
  /\ Bought(o) \subseteq tickets[o]
  /\ \A g \in Gifts(o) :
       /\ g[1] \in StudentTypes /\ g[2] = 1
       /\ \A s \in Bought(o) : s[1] # g[1]
       /\ \E s \in Bought(o) : s[1] \in VipTypes
       /\ Gifts(o) = {g}

\* A request keeps its input and its order, and has no answer before its end.
Route(r) ==
  /\ pc[r] # "done" => answer[r] = "none"
  /\ pc[r] # "idle" => input[r] \in Inputs
  /\ pc[r] \in {"create", "insert", "begin", "cancel"} => input[r].kind = "create"
  /\ pc[r] \in {"verify", "webhook", "paid", "failed"} => input[r].kind = pc[r]
  /\ pc[r] = "mark_paid" => input[r].kind = "paid"
  /\ pc[r] \in {"mark_failed", "fail"} => input[r].kind = "failed"
  /\ pc[r] \in {"settle", "commit", "mail"} => input[r].kind \in {"verify", "webhook", "paid"}
  /\ pc[r] \in {"create", "insert"} => target[r] = NoOrder
  /\ pc[r] \in OnOrder => status[target[r]] # "none"

\* What a request relies on at each step.
Works(r) ==
  /\ pc[r] \in {"begin", "cancel"} =>
       /\ record[target[r]] = "none" /\ gateway[target[r]] = "none"
       /\ provider[target[r]] # "free" => status[target[r]] = "pending"
  /\ pc[r] = "cancel" => provider[target[r]] # "free"
  /\ pc[r] \in {"mark_paid", "mark_failed", "fail"} => provider[target[r]] = "manual"
  /\ pc[r] = "fail" => record[target[r]] \in {"paid", "failed"}
  /\ pc[r] \in {"settle", "commit", "mail"} => Backed(target[r])
  /\ pc[r] = "mail" => status[target[r]] = "paid" /\ mailed[target[r]] = 0

\* What an answer says of the order, from then on.
Answered(r) ==
  pc[r] = "done" =>
    /\ input[r].kind = "create" /\ answer[r] \notin {"ok", "lost"} =>
         target[r] = NoOrder \/ (target[r] \in OrderIds /\ status[target[r]] = "failed")
    /\ input[r].kind = "verify" /\ answer[r] = "ok" =>
         /\ target[r] \in OrderIds /\ status[target[r]] # "none"
         /\ provider[target[r]] # "manual" => status[target[r]] = "paid"

\* An order is begun, or given up, by one request; and one request mails it.
Alone ==
  \A q, r \in Requests :
    /\ target[q] = target[r]
    /\ \/ {pc[q], pc[r]} \subseteq {"begin", "cancel"}
       \/ pc[q] = "mail" /\ pc[r] = "mail"
    => q = r

Handlers ==
  /\ TypeOK /\ Control /\ DOMAIN answer = Requests
  /\ \A o \in OrderIds : PaymentOf(o)
  /\ \A r \in Requests : Route(r) /\ Works(r) /\ Answered(r)
  /\ Alone

\* At the beginning there is no order and no request.
LEMMA InitHandlers == Init => Handlers
<1> SUFFICES ASSUME Init PROVE Handlers
  OBVIOUS
<1>1. TypeOK
  <2>1. BookTypeOK
    BY InitBookInv DEF Init, BookInv
  <2> QED
    BY <2>1 DEF Init, TypeOK
<1>2. Control /\ DOMAIN answer = Requests
  BY InitControl DEF Init
<1>3. \A o \in OrderIds : PaymentOf(o)
  BY DEF Init, BookInit, PaymentOf
<1>4. (\A r \in Requests : Route(r) /\ Works(r) /\ Answered(r)) /\ Alone
  BY DEF Init, Route, Works, Answered, Alone, OnOrder
<1> QED
  BY <1>1, <1>2, <1>3, <1>4 DEF Handlers

\* The records, memories and answers stay typed.
LEMMA StepTypes ==
  ASSUME Handlers, BookTypeOK', [Next]_vars
  PROVE  TypeOK' /\ DOMAIN answer' = Requests
<1> USE DEF Handlers
<1>1. ASSUME NEW r \in Requests, Submit(r) PROVE TypeOK' /\ DOMAIN answer' = Requests
  BY <1>1, OrdersAssumption DEF Submit, TypeOK, sales, Control
<1>2. ASSUME NEW r \in Requests, Insert(r) PROVE TypeOK' /\ DOMAIN answer' = Requests
  <2>1. PICK o \in OrderIds :
          /\ provider' = [provider EXCEPT ![o] = ProviderOf(input[r])]
          /\ target' = [target EXCEPT ![r] = o]
    BY <1>2 DEF Insert, FreshOrder
  <2>2. ProviderOf(input[r]) \in {"manual", "free", "fedapay"}
    BY <1>2, OrdersAssumption DEF Insert, ProviderOf, Control, InputType
  <2> QED
    BY <1>2, <2>1, <2>2 DEF Insert, TypeOK, Control
<1>3. ASSUME NEW r \in Requests,
             \/ Create(r) \/ InsertRaises(r) \/ BeginFails(r) \/ Release(r)
             \/ Verify(r) \/ MarkPaid(r) \/ Settle(r) \/ Commit(r) \/ MintRaises(r)
             \/ MarkFailed(r) \/ Fail(r) \/ ReadType(r)
      PROVE  TypeOK' /\ DOMAIN answer' = Requests
  <2>1. CASE Create(r) \/ InsertRaises(r) \/ BeginFails(r) \/ Release(r)
    <3>1. CASE Create(r)
      BY <1>3, <3>1 DEF Create, Goto, Answer, Failure, TypeOK, sales, Control
    <3>2. CASE InsertRaises(r)
      BY <1>3, <3>2 DEF InsertRaises, Goto, Answer, Failure, TypeOK, sales, Control
    <3>3. CASE BeginFails(r)
      BY <1>3, <3>3 DEF BeginFails, Goto, Answer, Failure, TypeOK, sales, Control
    <3>4. CASE Release(r)
      BY <1>3, <3>4 DEF Release, Goto, Answer, Failure, TypeOK, sales, Control
    <3> QED
      BY <2>1, <3>1, <3>2, <3>3, <3>4
  <2>2. CASE Verify(r) \/ MarkPaid(r) \/ Settle(r) \/ Commit(r)
    BY <1>3, <2>2 DEF Verify, MarkPaid, Settle, Commit, Goto, Answer, Failure, TypeOK, sales,
         Control
  <2>3. CASE MintRaises(r) \/ MarkFailed(r) \/ Fail(r) \/ ReadType(r)
    BY <1>3, <2>3 DEF MintRaises, MarkFailed, Fail, ReadType, Goto, Answer, Failure, TypeOK,
         sales, Control
  <2> QED
    BY <1>3, <2>1, <2>2, <2>3
<1>4. ASSUME NEW r \in Requests,
             Begin(r) \/ Webhook(r) \/ RecordPaid(r) \/ Mail(r) \/ RecordFailed(r)
      PROVE  TypeOK' /\ DOMAIN answer' = Requests
  <2>1. target[r] \in OrderIds
    BY <1>4 DEF Begin, Webhook, RecordPaid, Mail, RecordFailed, Control, OnOrder
  <2> QED
    BY <1>4, <2>1 DEF Begin, Webhook, RecordPaid, Mail, RecordFailed, Goto, Answer, TypeOK, Control
<1>5. ASSUME NEW r \in Requests, UpdateType(r) PROVE TypeOK' /\ DOMAIN answer' = Requests
  <2>1. input[r].type \in Types
    BY <1>5, InputFacts DEF UpdateType, Control
  <2> QED
    BY <1>5, <2>1 DEF UpdateType, Answer, TypeOK, Control
<1>6. ASSUME (\E o \in OrderIds : GatewayDecides(o)) \/ UNCHANGED vars
      PROVE  TypeOK' /\ DOMAIN answer' = Requests
  BY <1>6 DEF GatewayDecides, vars, sales, handlers, TypeOK
<1>7. ASSUME Restart PROVE TypeOK' /\ DOMAIN answer' = Requests
  BY <1>7 DEF Restart, TypeOK
<1> QED
  BY <1>1, <1>2, <1>3, <1>4, <1>5, <1>6, <1>7 DEF Next, Step

\* The branches of settle, as it reads the order (orders/service.py, settle).
LEMMA SettleCases ==
  ASSUME NEW r, Settle(r)
  PROVE  /\ pc[r] = "settle"
         /\ UNCHANGED <<book, sales>>
         /\ \/ status[target[r]] = "paid" /\ Answer(r, "ok")
            \/ status[target[r]] = "pending" /\ Goto(r, "commit")
            \/ status[target[r]] \notin {"paid", "pending"} /\ Answer(r, "error")
<1>1. CASE status[target[r]] = "paid"
  BY <1>1 DEF Settle
<1>2. CASE status[target[r]] = "pending"
  BY <1>2 DEF Settle
<1>3. CASE status[target[r]] \notin {"paid", "pending"}
  <2>1. status[target[r]] # "paid" /\ status[target[r]] # "pending"
    BY <1>3
  <2>2. Failure(r) = "error"
    BY <2>1 DEF Failure
  <2>3. Answer(r, Failure(r)) /\ pc[r] = "settle" /\ UNCHANGED <<book, sales>>
    BY <2>1 DEF Settle
  <2> QED
    BY <1>3, <2>2, <2>3
<1> QED
  BY <1>1, <1>2, <1>3

\* What mark-failed does with each order (payments/routes, _mark_order).
LEMMA MarkFailedCases ==
  ASSUME NEW r, MarkFailed(r)
  PROVE  /\ pc[r] = "failed"
         /\ UNCHANGED <<book, sales>>
         /\ \/ \E reply \in {"rejected", "ok", "conflict"} : Answer(r, reply)
            \/ provider[target[r]] = "manual" /\ Goto(r, "mark_failed")
<1>1. CASE provider[target[r]] # "manual"
  BY <1>1 DEF MarkFailed
<1>2. CASE provider[target[r]] = "manual" /\ status[target[r]] = "failed"
  BY <1>2 DEF MarkFailed
<1>3. CASE provider[target[r]] = "manual" /\ status[target[r]] = "paid"
  BY <1>3 DEF MarkFailed
<1>4. CASE provider[target[r]] = "manual" /\ status[target[r]] # "failed" /\ status[target[r]] # "paid"
  BY <1>4 DEF MarkFailed
<1> QED
  BY <1>1, <1>2, <1>3, <1>4

\* Reconciliation says yes for what was confirmed only (payments/providers.py, reconcile).
LEMMA ConfirmedIsBacked ==
  ASSUME NEW o, Confirmed(o)
  PROVE  Backed(o)
<1>1. CASE provider[o] = "manual"
  BY <1>1 DEF Confirmed, Backed
<1>2. CASE provider[o] = "free"
  BY <1>2 DEF Backed
<1>3. CASE provider[o] = "fedapay"
  BY <1>3 DEF Confirmed, Backed
<1>4. CASE provider[o] # "manual" /\ provider[o] # "free" /\ provider[o] # "fedapay"
  BY <1>4 DEF Confirmed
<1> QED
  BY <1>1, <1>2, <1>3, <1>4

-----------------------------------------------------------------------------
\* A step that leaves the orders and their payments alone, but for what is seen or
\* on sale: the requests decide what else there is to show.
OrdersStay ==
  UNCHANGED <<status, quantity, tickets, provider, record, gateway, mailed>>

RequestsKeep ==
  /\ \A o \in OrderIds : PaymentOf(o)'
  /\ \A r \in Requests : Route(r)' /\ Works(r)' /\ Answered(r)'
  /\ Alone'

\* Reads, refusals and marks in memory move one request and change no order.
LEMMA QuietSteps ==
  ASSUME Handlers, NEW r \in Requests, OrdersStay,
         UNCHANGED <<input, target>>,
         \A q \in Requests : q # r => pc'[q] = pc[q] /\ answer'[q] = answer[q],
         Route(r)', Works(r)', Answered(r)',
         pc'[r] \in {"begin", "cancel"} => pc[r] \in {"begin", "cancel"},
         pc'[r] # "mail"
  PROVE  RequestsKeep
<1> USE DEF Handlers, OrdersStay
<1>1. \A o \in OrderIds : PaymentOf(o)'
  BY DEF PaymentOf, Backed
<1>2. ASSUME NEW q \in Requests, q # r
      PROVE  Route(q)' /\ Works(q)' /\ Answered(q)'
  <2>1. pc'[q] = pc[q] /\ answer'[q] = answer[q]
    BY <1>2
  <2>2. Route(q)'
    BY <2>1 DEF Route
  <2>3. Works(q)'
    BY <2>1 DEF Works, Backed
  <2>4. Answered(q)'
    BY <2>1 DEF Answered
  <2> QED
    BY <2>2, <2>3, <2>4
<1>3. Alone'
  BY DEF Alone
<1> QED
  BY <1>1, <1>2, <1>3 DEF RequestsKeep

\* A request that ends, or goes on, changes its own step and answer.
LEMMA Moves ==
  ASSUME Handlers, NEW r \in Requests, NEW label, NEW reply,
         Answer(r, reply) \/ Goto(r, label)
  PROVE  /\ \A q \in Requests : q # r => pc'[q] = pc[q] /\ answer'[q] = answer[q]
         /\ Answer(r, reply) => pc'[r] = "done" /\ answer'[r] = reply
         /\ Goto(r, label) => pc'[r] = label /\ answer'[r] = answer[r]
         /\ UNCHANGED <<input, target>>
BY DEF Handlers, Control, Answer, Goto

\* What a request has at each step, put together.
LEMMA AtStep ==
  ASSUME Handlers, NEW r \in Requests
  PROVE  /\ pc[r] # "done" => answer[r] = "none"
         /\ pc[r] # "idle" => input[r] \in Inputs
         /\ pc[r] \in {"create", "insert", "begin", "cancel"} => input[r].kind = "create"
         /\ pc[r] \in OnOrder => target[r] \in OrderIds /\ status[target[r]] # "none"
         /\ pc[r] \in {"edit", "update"} => input[r].kind = "edit"
         /\ pc[r] \in {"verify", "webhook", "paid", "failed"} => input[r].kind = pc[r]
         /\ pc[r] = "mark_paid" => input[r].kind = "paid"
         /\ pc[r] \in {"mark_failed", "fail"} => input[r].kind = "failed"
         /\ pc[r] \in {"settle", "commit", "mail"} =>
              input[r].kind \in {"verify", "webhook", "paid"} /\ Backed(target[r])
         /\ pc[r] \in {"create", "insert"} => target[r] = NoOrder
BY DEF Handlers, Control, Route, Works, OnOrder

LEMMA QuietMoves ==
  ASSUME Handlers, NEW r \in Requests,
         \/ Create(r) \/ InsertRaises(r) \/ BeginFails(r)
         \/ Verify(r) \/ Webhook(r) \/ MarkPaid(r)
         \/ Settle(r) \/ MintRaises(r) \/ MarkFailed(r) \/ ReadType(r) \/ UpdateType(r)
  PROVE  RequestsKeep
<1>1. CASE Create(r)
  <2>1. OrdersStay /\ pc[r] = "create"
    BY <1>1 DEF Create, OrdersStay, book, sales
  <2>2. PICK reply : Answer(r, reply) \/ Goto(r, "insert")
    BY <1>1 DEF Create
  <2>3. Route(r)' /\ Works(r)' /\ Answered(r)'
    BY <2>1, <2>2, Moves, AtStep DEF Route, Works, Answered, OnOrder
  <2> QED
    BY <2>1, <2>2, <2>3, Moves, QuietSteps
<1>2. CASE InsertRaises(r)
  <2>1. OrdersStay /\ pc[r] = "insert"
    BY <1>2 DEF InsertRaises, OrdersStay, book, sales
  <2>2. PICK reply : Answer(r, reply)
    BY <1>2 DEF InsertRaises
  <2>3. Route(r)' /\ Works(r)' /\ Answered(r)'
    BY <2>1, <2>2, Moves, AtStep DEF Route, Works, Answered, OnOrder
  <2> QED
    BY <2>1, <2>2, <2>3, Moves, QuietSteps
<1>3. CASE BeginFails(r)
  <2>1. OrdersStay /\ pc[r] = "begin" /\ provider[target[r]] # "free" /\ Goto(r, "cancel")
    BY <1>3 DEF BeginFails, OrdersStay, book, sales
  <2>2. Works(r)
    BY DEF Handlers
  <2>3. Route(r)' /\ Works(r)' /\ Answered(r)'
    BY <2>1, <2>2, Moves, AtStep DEF Route, Works, Answered, OnOrder, OrdersStay
  <2> QED
    BY <2>1, <2>3, Moves, QuietSteps
<1>4. CASE Verify(r)
  <2>1. OrdersStay /\ pc[r] = "verify"
    BY <1>4 DEF Verify, OrdersStay, book, sales
  <2>2. \/ Answer(r, "not_confirmed")
        \/ Backed(target[r]) /\ Goto(r, "settle")
    BY <1>4, ConfirmedIsBacked DEF Verify
  <2>3. Route(r)' /\ Works(r)' /\ Answered(r)'
    BY <2>1, <2>2, Moves, AtStep DEF Route, Works, Answered, OnOrder, OrdersStay, Backed
  <2> QED
    BY <2>1, <2>2, <2>3, Moves, QuietSteps
<1>5. CASE Webhook(r)
  <2>1. OrdersStay /\ pc[r] = "webhook"
    BY <1>5 DEF Webhook, OrdersStay, book, sales
  <2>2. \/ \E reply \in {"ok", "rejected"} : Answer(r, reply)
        \/ gateway[target[r]] = "approved" /\ Goto(r, "settle")
    BY <1>5 DEF Webhook
  <2>3. Backed(target[r]) \/ gateway[target[r]] # "approved"
    BY <2>1, AtStep DEF Handlers, PaymentOf, Backed, OnOrder
  <2>5. Route(r)' /\ Works(r)' /\ Answered(r)'
    BY <2>1, <2>2, <2>3, Moves, AtStep DEF Route, Works, Answered, OnOrder, OrdersStay, Backed
  <2> QED
    BY <2>1, <2>2, <2>5, Moves, QuietSteps
<1>6. CASE MarkPaid(r)
  <2>1. OrdersStay /\ pc[r] = "paid"
    BY <1>6 DEF MarkPaid, OrdersStay, book, sales
  <2>2. \/ \E reply \in {"rejected", "conflict"} : Answer(r, reply)
        \/ provider[target[r]] = "manual" /\ Goto(r, "mark_paid")
    BY <1>6 DEF MarkPaid
  <2>3. Route(r)' /\ Works(r)' /\ Answered(r)'
    BY <2>1, <2>2, Moves, AtStep DEF Route, Works, Answered, OnOrder, OrdersStay
  <2> QED
    BY <2>1, <2>2, <2>3, Moves, QuietSteps
<1>7. CASE Settle(r)
  <2>1. OrdersStay /\ pc[r] = "settle"
    BY <1>7, SettleCases DEF OrdersStay, book, sales
  <2>2. \/ status[target[r]] = "paid" /\ Answer(r, "ok")
        \/ Goto(r, "commit")
        \/ Answer(r, "error")
    BY <1>7, SettleCases
  <2>3. Route(r)' /\ Works(r)' /\ Answered(r)'
    BY <2>1, <2>2, Moves, AtStep DEF Route, Works, Answered, OnOrder, OrdersStay, Backed
  <2> QED
    BY <2>1, <2>2, <2>3, Moves, QuietSteps
<1>8. CASE MintRaises(r)
  <2>1. OrdersStay /\ pc[r] = "commit"
    BY <1>8 DEF MintRaises, OrdersStay, book, sales
  <2>2. Answer(r, "error")
    BY <1>8 DEF MintRaises, Pending, Failure
  <2>3. Route(r)' /\ Works(r)' /\ Answered(r)'
    BY <2>1, <2>2, Moves, AtStep DEF Route, Works, Answered, OnOrder
  <2> QED
    BY <2>1, <2>2, <2>3, Moves, QuietSteps
<1>9. CASE MarkFailed(r)
  <2>1. OrdersStay /\ pc[r] = "failed"
    BY <1>9, MarkFailedCases DEF OrdersStay, book, sales
  <2>2. \/ \E reply \in {"rejected", "ok", "conflict"} : Answer(r, reply)
        \/ provider[target[r]] = "manual" /\ Goto(r, "mark_failed")
    BY <1>9, MarkFailedCases
  <2>3. Route(r)' /\ Works(r)' /\ Answered(r)'
    BY <2>1, <2>2, Moves, AtStep DEF Route, Works, Answered, OnOrder, OrdersStay
  <2> QED
    BY <2>1, <2>2, <2>3, Moves, QuietSteps
<1>10. CASE ReadType(r)
  <2>1. OrdersStay /\ pc[r] = "edit"
    BY <1>10 DEF ReadType, OrdersStay, book, sales
  <2>2. Answer(r, "rejected") \/ Goto(r, "update")
    BY <1>10 DEF ReadType
  <2>3. Route(r)' /\ Works(r)' /\ Answered(r)'
    BY <2>1, <2>2, Moves, AtStep DEF Route, Works, Answered, OnOrder
  <2> QED
    BY <2>1, <2>2, <2>3, Moves, QuietSteps
<1>11. CASE UpdateType(r)
  <2>1. OrdersStay /\ pc[r] = "update" /\ Answer(r, "ok")
    BY <1>11 DEF UpdateType, OrdersStay
  <2>2. Route(r)' /\ Works(r)' /\ Answered(r)'
    BY <2>1, Moves, AtStep DEF Route, Works, Answered, OnOrder
  <2> QED
    BY <2>1, <2>2, Moves, QuietSteps
<1> QED
  BY <1>1, <1>2, <1>3, <1>4, <1>5, <1>6, <1>7, <1>8, <1>9, <1>10, <1>11

\* A request that arrives names an order that exists, or none.
LEMMA SubmitMoves ==
  ASSUME Handlers, NEW r \in Requests, Submit(r)
  PROVE  RequestsKeep
<1> USE DEF Handlers
<1>1. PICK i \in Inputs, o \in OrderIds \cup {NoOrder} :
        /\ IF i.kind \in {"create", "edit"} THEN o = NoOrder
           ELSE o # NoOrder /\ status[o] # "none"
        /\ input' = [input EXCEPT ![r] = i]
        /\ target' = [target EXCEPT ![r] = o]
        /\ pc' = [pc EXCEPT ![r] = i.kind]
  BY DEF Submit
<1>2. OrdersStay /\ answer' = answer /\ answer[r] = "none"
  BY DEF Submit, OrdersStay, book, sales, Route
<1>3. i.kind \in {"create", "verify", "webhook", "paid", "failed", "edit"}
  BY InputFacts
<1>4. /\ pc'[r] = i.kind /\ input'[r] = i /\ target'[r] = o
      /\ \A q \in Requests \ {r} : /\ pc'[q] = pc[q] /\ input'[q] = input[q]
                                   /\ target'[q] = target[q]
  BY <1>1 DEF Control
<1>5. \A p \in OrderIds : PaymentOf(p)'
  BY <1>2 DEF PaymentOf, Backed, OrdersStay
<1>6. Route(r)' /\ Works(r)' /\ Answered(r)'
  BY <1>1, <1>2, <1>3, <1>4 DEF Route, Works, Answered, OnOrder, OrdersStay
<1>7. ASSUME NEW q \in Requests, q # r
      PROVE  Route(q)' /\ Works(q)' /\ Answered(q)'
  BY <1>2, <1>4, <1>7 DEF Route, Works, Answered, Backed, OrdersStay
<1>8. Alone'
  BY <1>3, <1>4 DEF Alone
<1> QED
  BY <1>5, <1>6, <1>7, <1>8 DEF RequestsKeep

\* The order of a creation is new: nobody works on it, and nothing is paid on it yet.
LEMMA InsertMoves ==
  ASSUME Handlers, NEW r \in Requests, Insert(r)
  PROVE  RequestsKeep
<1> USE DEF Handlers
<1>1. PICK o \in OrderIds :
        /\ status[o] = "none"
        /\ status' = [status EXCEPT ![o] = "pending"]
        /\ provider' = [provider EXCEPT ![o] = ProviderOf(input[r])]
        /\ target' = [target EXCEPT ![r] = o]
        /\ pc' = [pc EXCEPT ![r] = "begin"]
  BY DEF Insert, FreshOrder, CreateOrder
<1>2. UNCHANGED <<record, gateway, mailed, input, answer>> /\ pc[r] = "insert"
  BY DEF Insert
<1>3. ProviderOf(input[r]) \in {"manual", "free", "fedapay"}
  BY <1>2, OrdersAssumption DEF ProviderOf, Control, InputType
<1>4. provider[o] = "none" /\ record[o] = "none" /\ gateway[o] = "none"
  BY <1>1 DEF PaymentOf
<1>5. /\ status'[o] = "pending" /\ provider'[o] = ProviderOf(input[r])
      /\ \A p \in OrderIds \ {o} : status'[p] = status[p] /\ provider'[p] = provider[p]
  BY <1>1 DEF TypeOK, BookTypeOK
<1>6. /\ pc'[r] = "begin" /\ target'[r] = o
      /\ \A q \in Requests \ {r} : pc'[q] = pc[q] /\ target'[q] = target[q]
  BY <1>1 DEF Control
<1>7. \A p \in OrderIds : PaymentOf(p)'
  BY <1>2, <1>3, <1>4, <1>5 DEF PaymentOf, Backed
<1>8. Route(r)' /\ Works(r)' /\ Answered(r)'
  BY <1>2, <1>4, <1>5, <1>6, AtStep DEF Route, Works, Answered, OnOrder
<1>9. ASSUME NEW q \in Requests, q # r
      PROVE  Route(q)' /\ Works(q)' /\ Answered(q)'
  <2>1. pc[q] \in OnOrder => target[q] \in OrderIds \ {o}
    BY <1>1, AtStep
  <2>2. Route(q)'
    BY <1>2, <1>5, <1>6, <1>9, <2>1 DEF Route
  <2>3. Works(q)'
    BY <1>2, <1>5, <1>6, <1>9, <2>1 DEF Works, Backed, OnOrder
  <2>4. Answered(q)'
    BY <1>1, <1>2, <1>5, <1>6, <1>9 DEF Answered
  <2> QED
    BY <2>2, <2>3, <2>4
<1>10. Alone'
  <2>1. \A q \in Requests : pc[q] \in {"begin", "cancel"} => target[q] # o
    BY <1>1, AtStep DEF OnOrder
  <2> QED
    BY <1>6, <2>1 DEF Alone
<1> QED
  BY <1>7, <1>8, <1>9, <1>10 DEF RequestsKeep

\* A provider begins an order once, for the request that created it.
LEMMA BeginMoves ==
  ASSUME Handlers, NEW r \in Requests, Begin(r)
  PROVE  RequestsKeep
<1> USE DEF Handlers
<1> DEFINE o == target[r]
<1>1. pc[r] = "begin" /\ Answer(r, "ok") /\ UNCHANGED <<status, provider, mailed>>
  BY DEF Begin, book
<1>2. o \in OrderIds /\ status[o] # "none" /\ record[o] = "none" /\ gateway[o] = "none"
  BY <1>1, AtStep DEF OnOrder, Works
<1>3. /\ record'[o] = IF provider[o] = "manual" THEN "pending" ELSE "none"
      /\ gateway'[o] = IF provider[o] = "fedapay" THEN "created" ELSE "none"
      /\ \A p \in OrderIds \ {o} : record'[p] = record[p] /\ gateway'[p] = gateway[p]
  BY <1>2 DEF Begin, TypeOK
<1>4. provider[o] # "free" => status[o] = "pending"
  BY <1>1 DEF Works
<1> HIDE DEF o
<1>5. \A p \in OrderIds : PaymentOf(p)'
  BY <1>1, <1>2, <1>3, <1>4 DEF PaymentOf, Backed
<1>6. Route(r)' /\ Works(r)' /\ Answered(r)'
  BY <1>1, Moves, AtStep DEF Route, Works, Answered, OnOrder
<1>7. ASSUME NEW q \in Requests, q # r
      PROVE  Route(q)' /\ Works(q)' /\ Answered(q)'
  <2>1. /\ pc'[q] = pc[q] /\ answer'[q] = answer[q] /\ UNCHANGED <<input, target>>
    BY <1>1, <1>7, Moves
  <2>2. pc[q] \in {"begin", "cancel"} => target[q] # o
    BY <1>1, <1>7 DEF Alone, o
  <2>3. Backed(o) => provider[o] = "free"
    BY <1>2 DEF Backed
  <2>4. pc[q] = "fail" => target[q] # o
    BY <1>2 DEF Works
  <2>5. pc[q] \in OnOrder => target[q] \in OrderIds
    BY AtStep
  <2>6. Route(q)'
    BY <1>1, <2>1 DEF Route
  <2>7. Works(q)'
    BY <1>1, <1>3, <2>1, <2>2, <2>3, <2>4, <2>5 DEF Works, Backed, OnOrder
  <2>8. Answered(q)'
    BY <1>1, <2>1 DEF Answered
  <2> QED
    BY <2>6, <2>7, <2>8
<1>8. Alone'
  BY <1>1, Moves DEF Alone
<1> QED
  BY <1>5, <1>6, <1>7, <1>8 DEF RequestsKeep

\* An order is failed by the creation that could not begin it, or by a manual mark:
\* no other request relies on its being unpaid, or paid.
LEMMA CancelMoves ==
  ASSUME Handlers, NEW r \in Requests, NEW reply,
         pc[r] \in {"cancel", "fail"}, CancelOrder(target[r]), UNCHANGED sales, Answer(r, reply)
  PROVE  RequestsKeep
<1> USE DEF Handlers
<1> DEFINE o == target[r]
<1>1. /\ o \in OrderIds
      /\ \/ provider[o] = "manual"
         \/ provider[o] = "fedapay" /\ gateway[o] = "none"
  BY AtStep DEF OnOrder, Works, PaymentOf, TypeOK
<1>2. /\ UNCHANGED <<provider, record, gateway, mailed, input, target>>
      /\ status[o] = "pending"
      /\ status'[o] = "failed"
      /\ \A p \in OrderIds \ {o} : status'[p] = status[p]
  <2>1. UNCHANGED <<provider, record, gateway, mailed>>
    BY DEF sales
  <2>2. UNCHANGED <<input, target>>
    BY Moves
  <2>3. status[o] = "pending" /\ status' = [status EXCEPT ![o] = "failed"]
    BY DEF CancelOrder, Pending
  <2>4. DOMAIN status = OrderIds
    BY DEF TypeOK, BookTypeOK
  <2> QED
    BY <1>1, <2>1, <2>2, <2>3, <2>4
<1>3. /\ pc'[r] = "done" /\ answer'[r] = reply
      /\ \A q \in Requests \ {r} : pc'[q] = pc[q] /\ answer'[q] = answer[q]
  BY Moves
<1>4. pc[r] = "cancel" => input[r].kind = "create"
  BY AtStep
<1>5. pc[r] = "fail" => input[r].kind = "failed" /\ record[o] # "none"
  BY AtStep DEF Works
<1> HIDE DEF o
<1>6. \A p \in OrderIds : PaymentOf(p)'
  BY <1>1, <1>2 DEF PaymentOf, Backed
<1>7. Route(r)' /\ Works(r)' /\ Answered(r)'
  BY <1>1, <1>2, <1>3, <1>4, <1>5, AtStep DEF Route, Works, Answered, OnOrder, o
<1>8. ASSUME NEW q \in Requests, q # r
      PROVE  Route(q)' /\ Works(q)' /\ Answered(q)'
  <2>1. pc'[q] = pc[q] /\ answer'[q] = answer[q]
    BY <1>3, <1>8
  <2>2. pc[q] \in {"begin", "cancel"} => target[q] # o
    <3>1. pc[r] = "cancel" /\ pc[q] \in {"begin", "cancel"} => target[q] # o
      BY <1>8 DEF Alone, o
    <3>2. pc[r] = "fail" /\ pc[q] \in {"begin", "cancel"} => target[q] # o
      BY <1>5 DEF Works
    <3> QED
      BY <3>1, <3>2
  <2>3. pc[q] \in OnOrder => target[q] \in OrderIds
    BY AtStep
  <2>4. Route(q)'
    BY <1>2, <2>1, <2>3 DEF Route
  <2>5. Works(q)'
    BY <1>2, <2>1, <2>2, <2>3 DEF Works, Backed, OnOrder
  <2>6. Answered(q)'
    <3>1. Answered(q)
      OBVIOUS
    <3> HIDE DEF Handlers
    <3> QED
      BY <1>1, <1>2, <2>1, <3>1 DEF Answered
  <2> QED
    BY <2>4, <2>5, <2>6
<1>9. Alone'
  BY <1>2, <1>3 DEF Alone
<1> QED
  BY <1>6, <1>7, <1>8, <1>9 DEF RequestsKeep

\* What a creation gives up is pending still; a mark may come too late.
LEMMA ReleaseAndFailMove ==
  ASSUME Handlers, NEW r \in Requests, Release(r) \/ Fail(r)
  PROVE  RequestsKeep
<1>1. CASE Release(r)
  <2>1. pc[r] = "cancel" /\ Pending(target[r])
    BY <1>1 DEF Release, Handlers, Works, Pending
  <2> QED
    BY <1>1, <2>1, CancelMoves DEF Release
<1>2. CASE Fail(r) /\ Pending(target[r])
  BY <1>2, CancelMoves DEF Fail
<1>3. CASE Fail(r) /\ ~Pending(target[r])
  <2>1. OrdersStay /\ pc[r] = "fail" /\ Answer(r, "conflict")
    BY <1>3 DEF Fail, OrdersStay, book, sales
  <2>2. Route(r)' /\ Works(r)' /\ Answered(r)'
    BY <2>1, Moves, AtStep DEF Route, Works, Answered, OnOrder
  <2> QED
    BY <2>1, <2>2, Moves, QuietSteps
<1> QED
  BY <1>1, <1>2, <1>3

\* A record is marked once it was begun, and it stays marked, one way or the other.
LEMMA RecordMoves ==
  ASSUME Handlers, NEW r \in Requests, RecordPaid(r) \/ RecordFailed(r)
  PROVE  RequestsKeep
<1> DEFINE o == target[r]
<1>1. CASE record[o] = "none"
  <2>1. OrdersStay /\ pc[r] \in {"mark_paid", "mark_failed"} /\ Answer(r, "error")
    BY <1>1 DEF RecordPaid, RecordFailed, OrdersStay, book
  <2>2. Route(r)' /\ Works(r)' /\ Answered(r)'
    BY <2>1, Moves, AtStep DEF Route, Works, Answered, OnOrder
  <2> QED
    BY <2>1, <2>2, Moves, QuietSteps
<1>2. CASE record[o] # "none"
  <2> USE DEF Handlers
  <2>1. /\ pc[r] \in {"mark_paid", "mark_failed"}
        /\ \E mark \in {"paid", "failed"} : record' = [record EXCEPT ![o] = mark]
        /\ Goto(r, IF pc[r] = "mark_paid" THEN "settle" ELSE "fail")
        /\ UNCHANGED <<status, provider, gateway, mailed>>
    BY <1>2 DEF RecordPaid, RecordFailed, book
  <2>2. o \in OrderIds /\ provider[o] = "manual" /\ status[o] # "none"
    BY <2>1, AtStep DEF OnOrder, Works
  <2>3. /\ record'[o] \in {"paid", "failed"}
        /\ \A p \in OrderIds \ {o} : record'[p] = record[p]
    BY <2>1, <2>2 DEF TypeOK
  <2>4. /\ pc'[r] = IF pc[r] = "mark_paid" THEN "settle" ELSE "fail"
        /\ \A q \in Requests \ {r} : pc'[q] = pc[q] /\ answer'[q] = answer[q]
        /\ answer'[r] = answer[r] /\ UNCHANGED <<input, target>>
    BY <2>1, Moves
  <2>5. Route(r)'
    BY <2>1, <2>2, <2>4, AtStep DEF Route, OnOrder
  <2>6. Works(r)' /\ Answered(r)'
    BY <2>1, <2>2, <2>3, <2>4 DEF Works, Answered, Backed
  <2> HIDE DEF o
  <2>7. \A p \in OrderIds : PaymentOf(p)'
    BY <1>2, <2>1, <2>2, <2>3 DEF PaymentOf, Backed
  <2>8. ASSUME NEW q \in Requests, q # r
        PROVE  Route(q)' /\ Works(q)' /\ Answered(q)'
    <3>1. pc[q] \in {"begin", "cancel"} => target[q] # o
      BY <1>2 DEF Works
    <3>2. pc[q] \in OnOrder => target[q] \in OrderIds
      BY AtStep
    <3>3. pc'[q] = pc[q] /\ answer'[q] = answer[q]
      BY <2>4, <2>8
    <3>4. Route(q)' /\ Answered(q)'
      BY <2>1, <2>4, <3>3 DEF Route, Answered
    <3>5. Works(q)'
      BY <2>1, <2>3, <2>4, <3>1, <3>2, <3>3 DEF Works, Backed, OnOrder
    <3> QED
      BY <3>4, <3>5
  <2>9. Alone'
    BY <2>1, <2>4 DEF Alone
  <2> QED
    BY <2>5, <2>6, <2>7, <2>8, <2>9 DEF RequestsKeep
<1> QED
  BY <1>1, <1>2

\* The first request that commits is the one that mails.
LEMMA CommitMoves ==
  ASSUME Handlers, NEW r \in Requests, Commit(r)
  PROVE  RequestsKeep
<1> DEFINE o == target[r]
<1> USE DEF Handlers
<1>1. pc[r] = "commit" /\ o \in OrderIds /\ Backed(o) /\ status[o] # "none"
  BY AtStep DEF Commit, OnOrder
<1>2. CASE ~Pending(o)
  <2>1. OrdersStay /\ Answer(r, "ok")
    BY <1>2 DEF Commit, OrdersStay, book, sales
  <2>2. provider[o] # "manual" => status[o] = "paid"
    BY <1>1, <1>2 DEF Pending, PaymentOf, Backed, TypeOK, BookTypeOK
  <2>3. Route(r)' /\ Works(r)' /\ Answered(r)'
    BY <1>1, <2>1, <2>2, Moves, AtStep DEF Route, Works, Answered, OnOrder, OrdersStay
  <2> QED
    BY <1>1, <2>1, <2>3, Moves, QuietSteps
<1>3. CASE Pending(o)
  <2>1. /\ status[o] = "pending" /\ status' = [status EXCEPT ![o] = "paid"]
        /\ UNCHANGED <<provider, record, gateway, mailed>> /\ Goto(r, "mail")
    BY <1>3 DEF Commit, Pending, SettleOrder, sales
  <2>2. status'[o] = "paid" /\ \A p \in OrderIds \ {o} : status'[p] = status[p]
    BY <1>1, <2>1 DEF TypeOK, BookTypeOK
  <2>3. /\ pc'[r] = "mail" /\ answer'[r] = answer[r]
        /\ \A q \in Requests \ {r} : pc'[q] = pc[q] /\ answer'[q] = answer[q]
        /\ UNCHANGED <<input, target>>
    BY <2>1, Moves
  <2>4. mailed[o] = 0
    BY <1>1, <2>1 DEF PaymentOf
  <2>5. Route(r)' /\ Works(r)' /\ Answered(r)'
    BY <1>1, <2>1, <2>2, <2>3, <2>4, AtStep DEF Route, Works, Answered, Backed, OnOrder
  <2>6. \A p \in OrderIds : PaymentOf(p)'
    BY <1>1, <2>1, <2>2 DEF PaymentOf, Backed
  <2>7. \A q \in Requests : pc[q] = "mail" => target[q] # o
    BY <2>1 DEF Works
  <2>8. ASSUME NEW q \in Requests, q # r
        PROVE  Route(q)' /\ Works(q)' /\ Answered(q)'
    <3>1. pc[q] \in {"begin", "cancel"} /\ target[q] = o => provider[o] = "free"
      BY <1>1 DEF Works, Backed
    <3>2. pc[q] \in OnOrder => target[q] \in OrderIds
      BY AtStep
    <3>3. pc'[q] = pc[q] /\ answer'[q] = answer[q]
      BY <2>3, <2>8
    <3>4. Route(q) /\ Works(q) /\ Answered(q)
      OBVIOUS
    <3> HIDE DEF o, Handlers
    <3>5. Route(q)' /\ Answered(q)'
      BY <2>1, <2>2, <2>3, <3>2, <3>3, <3>4 DEF Route, Answered
    <3>6. Works(q)'
      BY <2>1, <2>2, <2>3, <2>7, <3>1, <3>2, <3>3, <3>4 DEF Works, Backed, OnOrder
    <3> QED
      BY <3>5, <3>6
  <2>9. Alone'
    BY <1>1, <2>3, <2>7 DEF Alone
  <2> QED
    BY <2>5, <2>6, <2>8, <2>9 DEF RequestsKeep
<1> QED
  BY <1>2, <1>3

\* The request that settled the order mails it, once.
LEMMA MailMoves ==
  ASSUME Handlers, NEW r \in Requests, Mail(r)
  PROVE  RequestsKeep
<1> DEFINE o == target[r]
<1> USE DEF Handlers
<1>1. /\ pc[r] = "mail" /\ o \in OrderIds /\ status[o] = "paid" /\ mailed[o] = 0
      /\ mailed' = [mailed EXCEPT ![o] = @ + 1]
      /\ UNCHANGED <<status, provider, record, gateway>> /\ Answer(r, "ok")
  BY AtStep DEF Mail, Works, OnOrder, book
<1>2. mailed'[o] = 1 /\ \A p \in OrderIds \ {o} : mailed'[p] = mailed[p]
  BY <1>1 DEF TypeOK
<1>3. /\ pc'[r] = "done" /\ answer'[r] = "ok"
      /\ \A q \in Requests \ {r} : pc'[q] = pc[q] /\ answer'[q] = answer[q]
      /\ UNCHANGED <<input, target>>
  BY <1>1, Moves
<1>4. Route(r)' /\ Works(r)' /\ Answered(r)'
  BY <1>1, <1>3, AtStep DEF Route, Works, Answered, OnOrder
<1>5. \A p \in OrderIds : PaymentOf(p)'
  BY <1>1, <1>2 DEF PaymentOf, Backed
<1>6. \A q \in Requests : q # r /\ pc[q] = "mail" => target[q] # o
  BY <1>1 DEF Alone
<1>7. ASSUME NEW q \in Requests, q # r
      PROVE  Route(q)' /\ Works(q)' /\ Answered(q)'
  <2>1. pc[q] \in OnOrder => target[q] \in OrderIds
    BY AtStep
  <2>2. pc'[q] = pc[q] /\ answer'[q] = answer[q]
    BY <1>3, <1>7
  <2>3. Route(q) /\ Works(q) /\ Answered(q)
    OBVIOUS
  <2> HIDE DEF o, Handlers
  <2> QED
    BY <1>1, <1>2, <1>3, <1>6, <1>7, <2>1, <2>2, <2>3 DEF Route, Works, Answered, Backed, OnOrder
<1>8. Alone'
  BY <1>3 DEF Alone
<1> QED
  BY <1>4, <1>5, <1>7, <1>8 DEF RequestsKeep

\* FedaPay decides each of its transactions once.
LEMMA GatewayMoves ==
  ASSUME Handlers, NEW o \in OrderIds, GatewayDecides(o)
  PROVE  RequestsKeep
<1> USE DEF Handlers
<1>1. /\ gateway[o] = "created" /\ gateway'[o] \in {"approved", "declined"}
      /\ \A p \in OrderIds \ {o} : gateway'[p] = gateway[p]
      /\ UNCHANGED <<status, provider, record, mailed, pc, input, target, answer>>
  BY DEF GatewayDecides, TypeOK, book, handlers
<1>2. \A p \in OrderIds : PaymentOf(p)'
  BY <1>1 DEF PaymentOf, Backed
<1>3. ASSUME NEW q \in Requests
      PROVE  Route(q)' /\ Works(q)' /\ Answered(q)'
  <2>1. pc[q] \in OnOrder => target[q] \in OrderIds
    BY AtStep
  <2>2. Route(q) /\ Works(q) /\ Answered(q)
    OBVIOUS
  <2> HIDE DEF Handlers
  <2> QED
    BY <1>1, <2>1, <2>2 DEF Route, Works, Answered, Backed, OnOrder
<1>4. Alone'
  BY <1>1 DEF Alone
<1> QED
  BY <1>2, <1>3, <1>4 DEF RequestsKeep

\* A restart ends the requests without an answer; what they had found out is kept by
\* the tables, the records and FedaPay.
LEMMA RestartMoves ==
  ASSUME Handlers, Restart
  PROVE  RequestsKeep
<1> USE DEF Handlers
<1>1. /\ UNCHANGED <<status, provider, record, gateway, mailed, input, target>>
      /\ \A r \in Requests :
           /\ pc'[r] = IF pc[r] = "idle" THEN "idle" ELSE "done"
           /\ answer'[r] = IF pc[r] \in {"idle", "done"} THEN answer[r] ELSE "lost"
  BY DEF Restart, book
<1>2. \A p \in OrderIds : PaymentOf(p)'
  BY <1>1 DEF PaymentOf, Backed
<1>3. ASSUME NEW q \in Requests
      PROVE  Route(q)' /\ Works(q)' /\ Answered(q)'
  <2>1. Route(q) /\ Works(q) /\ Answered(q)
    OBVIOUS
  <2> HIDE DEF Handlers
  <2> QED
    BY <1>1, <2>1 DEF Route, Works, Answered, OnOrder
<1>4. Alone'
  BY <1>1 DEF Alone
<1> QED
  BY <1>2, <1>3, <1>4 DEF RequestsKeep

\* The handlers keep it all.
LEMMA StepHandlers == Handlers /\ BookTypeOK' /\ [Next]_vars => Handlers'
<1> SUFFICES ASSUME Handlers, BookTypeOK', [Next]_vars PROVE Handlers'
  OBVIOUS
<1>1. RequestsKeep
  <2>1. CASE UNCHANGED vars
    <3>1. UNCHANGED <<status, provider, record, gateway, mailed, pc, input, target, answer>>
      BY <2>1 DEF vars, book, sales, handlers
    <3> QED
      BY <3>1 DEF RequestsKeep, Handlers, PaymentOf, Route, Works, Answered, Alone, Backed
  <2> QED
    BY <2>1, QuietMoves, SubmitMoves, InsertMoves, BeginMoves, ReleaseAndFailMove, RecordMoves,
       CommitMoves, MailMoves, GatewayMoves, RestartMoves DEF Next, Step
<1>2. TypeOK' /\ DOMAIN answer' = Requests
  BY StepTypes
<1>3. Control'
  BY StepControl DEF Handlers
<1> QED
  BY <1>1, <1>2, <1>3 DEF Handlers, RequestsKeep

\* Whatever interleaves, fails or restarts, each request finds its order as it left it,
\* or as one of the transactions changed it.
THEOREM HandlersInvariant == Spec => []Handlers
<1>1. BookInv' => BookTypeOK'
  BY DEF BookInv
<1> QED
  BY <1>1, InitHandlers, StepHandlers, OrdersImplementStore, BookInvariant, PTL DEF Spec

\* A creation that was refused holds neither stock nor the email, and nobody gets
\* tickets that were not confirmed in the way of the order's provider.
THEOREM OrdersHandlersAreSound == Spec => []HandlersAreSound
<1>1. Handlers => HandlersAreSound
  <2> SUFFICES ASSUME Handlers PROVE HandlersAreSound
    OBVIOUS
  <2>1. RefusedCreationsHoldNothing
    <3> SUFFICES ASSUME NEW r \in Requests, input[r].kind = "create",
                        answer[r] \notin {"none", "ok", "lost"}
                 PROVE  target[r] = NoOrder \/ status[target[r]] = "failed"
      BY DEF RefusedCreationsHoldNothing
    <3> QED
      BY DEF Handlers, Route, Answered
  <2>2. PaidOrdersWereConfirmed
    <3> SUFFICES ASSUME NEW o \in OrderIds, status[o] = "paid"
                 PROVE  CASE provider[o] = "fedapay" -> gateway[o] = "approved"
                          [] provider[o] = "manual"  -> record[o] \in {"paid", "failed"}
                          [] OTHER                   -> provider[o] = "free"
      BY DEF PaidOrdersWereConfirmed
    <3>1. Backed(o)
      BY DEF Handlers, PaymentOf
    <3>2. CASE provider[o] = "fedapay"
      BY <3>1, <3>2 DEF Backed
    <3>3. CASE provider[o] = "manual"
      BY <3>1, <3>3 DEF Backed
    <3>4. CASE provider[o] # "fedapay" /\ provider[o] # "manual"
      <4>1. provider[o] = "free"
        BY <3>1, <3>4 DEF Backed
      <4> QED
        BY <3>4, <4>1
    <3> QED
      BY <3>2, <3>3, <3>4
  <2> QED
    BY <2>1, <2>2 DEF HandlersAreSound, Handlers
<1> QED
  BY <1>1, HandlersInvariant, PTL

\* A FedaPay or free order that verify answered ok for is paid, and stays so.
THEOREM OrdersConfirmTruly == Spec => []GatewayConfirmationsAreTrue
<1>1. Handlers => GatewayConfirmationsAreTrue
  BY DEF Handlers, Route, Answered, GatewayConfirmationsAreTrue
<1> QED
  BY <1>1, HandlersInvariant, PTL

-----------------------------------------------------------------------------
\* What settle mints serves the order it is minted for, if it had no tickets.
LEMMA MintedServes ==
  ASSUME NEW o \in OrderIds, tickets'[o] = Minted(o), Bought(o)' = Bought(o)
  PROVE  Served(o)'
<1> DEFINE types  == {s[1] : s \in Bought(o)}
           passes == StudentTypes \cap onSale
           first  == CHOOSE t \in passes : TRUE
           given  == types \cap VipTypes # {} /\ passes # {} /\ first \notin types
<1>1. tickets'[o] = Bought(o) \cup (IF given THEN {<<first, 1>>} ELSE {})
  BY DEF Minted
<1>2. passes # {} => first \in StudentTypes
  OBVIOUS
<1>3. given => /\ \A s \in Bought(o) : s[1] # first
               /\ \E s \in Bought(o) : s[1] \in VipTypes
  OBVIOUS
<1> HIDE DEF first, passes, types
<1>4. CASE given
  <2>1. <<first, 1>> \notin Bought(o)
    BY <1>3, <1>4
  <2>2. Gifts(o)' = {<<first, 1>>}
    BY <1>1, <1>4, <2>1 DEF Gifts
  <2> QED
    BY <1>1, <1>2, <1>3, <1>4, <2>2 DEF Served
<1>5. CASE ~given
  <2>1. Gifts(o)' = {}
    BY <1>1, <1>5 DEF Gifts
  <2> QED
    BY <1>1, <1>5, <2>1 DEF Served
<1> QED
  BY <1>4, <1>5

\* Only a commit makes an order paid (store/orders.py, settle_order).
LEMMA PaidByCommit ==
  ASSUME Handlers, [Next]_vars, NEW o \in OrderIds, status[o] # "paid", status'[o] = "paid"
  PROVE  \E r \in Requests : target[r] = o /\ Pending(o) /\ SettleOrder(o, Minted(o))
<1> USE DEF Handlers
<1>1. ASSUME NEW r \in Requests, Insert(r) PROVE FALSE
  BY <1>1 DEF Insert, CreateOrder, TypeOK, BookTypeOK
<1>2. ASSUME NEW r \in Requests, Release(r) \/ Fail(r) PROVE FALSE
  BY <1>2 DEF Release, Fail, CancelOrder, TypeOK, BookTypeOK, book
<1>3. ASSUME NEW r \in Requests, Commit(r)
      PROVE  target[r] = o /\ Pending(o) /\ SettleOrder(o, Minted(o))
  <2>1. Pending(target[r]) /\ SettleOrder(target[r], Minted(target[r]))
    BY <1>3 DEF Commit, book
  <2>2. target[r] = o
    BY <2>1 DEF SettleOrder, TypeOK, BookTypeOK
  <2> QED
    BY <2>1, <2>2
<1>4. ASSUME NEW r \in Requests, UpdateType(r) PROVE FALSE
  BY <1>4 DEF UpdateType
<1>5. ASSUME NEW r \in Requests,
             \/ Submit(r)
             \/ Create(r) \/ InsertRaises(r) \/ Begin(r) \/ BeginFails(r)
             \/ Verify(r) \/ Webhook(r) \/ MarkPaid(r) \/ RecordPaid(r)
             \/ Settle(r) \/ MintRaises(r) \/ Mail(r)
             \/ MarkFailed(r) \/ RecordFailed(r) \/ ReadType(r)
      PROVE  FALSE
  BY <1>5 DEF Submit, Create, InsertRaises, Begin, BeginFails, Verify, Webhook, MarkPaid,
       RecordPaid, Settle, MintRaises, Mail, MarkFailed, RecordFailed, ReadType, book
<1>6. ASSUME (\E p \in OrderIds : GatewayDecides(p)) \/ Restart \/ UNCHANGED vars PROVE FALSE
  BY <1>6 DEF GatewayDecides, Restart, vars, book
<1> QED
  BY <1>1, <1>2, <1>3, <1>4, <1>5, <1>6 DEF Next, Step

PaidAreServed == \A o \in OrderIds : status[o] = "paid" => Served(o)

\* A settlement serves an order that had no tickets, and later steps leave it alone.
LEMMA StepServes == Handlers /\ BookInv /\ PaidAreServed /\ [Next]_vars => PaidAreServed'
<1> SUFFICES ASSUME Handlers, BookInv, PaidAreServed, [Next]_vars,
                    NEW o \in OrderIds, status'[o] = "paid"
             PROVE  Served(o)'
  BY DEF PaidAreServed
<1>1. CASE status[o] = "paid"
  <2>1. [BookNext]_book
    BY StepImplements DEF Handlers
  <2>2. tickets'[o] = tickets[o] /\ quantity'[o] = quantity[o]
    BY <1>1, <2>1, OutcomesStay
  <2>3. Bought(o)' = Bought(o)
    BY <2>2 DEF TicketsOf, Bought
  <2>4. Gifts(o)' = Gifts(o)
    BY <2>2, <2>3 DEF Gifts
  <2> QED
    BY <1>1, <2>2, <2>3, <2>4 DEF PaidAreServed, Served
<1>2. CASE status[o] # "paid"
  <2>1. SettleOrder(o, Minted(o)) /\ Pending(o)
    BY <1>2, PaidByCommit
  <2>2. tickets[o] = {}
    BY <1>2 DEF BookInv, TicketsArePaidFor
  <2>3. tickets'[o] = Minted(o)
    BY <2>1, <2>2 DEF SettleOrder, BookInv, BookTypeOK
  <2>4. Bought(o)' = Bought(o)
    BY <2>1 DEF SettleOrder, TicketsOf, Bought
  <2> QED
    BY <2>3, <2>4, MintedServes
<1> QED
  BY <1>1, <1>2

\* The buyer of a paid order has its tickets once, complete, with one student pass more
\* at most, and was sent one e-mail at most.
LEMMA ServedOnce == Handlers /\ PaidAreServed => PaidOrdersAreServedOnce
<1> SUFFICES ASSUME Handlers, PaidAreServed, NEW o \in OrderIds
             PROVE  /\ status[o] = "paid" => Served(o)
                    /\ mailed[o] <= 1
                    /\ mailed[o] = 1 => status[o] = "paid"
  BY DEF PaidOrdersAreServedOnce, Served
<1>1. mailed[o] <= 1 /\ (mailed[o] = 1 => status[o] = "paid")
  BY DEF Handlers, PaymentOf
<1> QED
  BY <1>1 DEF PaidAreServed

\* Two confirmations of one payment, by whatever way, serve the buyer once.
THEOREM OrdersServeOnce == Spec => []PaidOrdersAreServedOnce
<1>1. Init => PaidAreServed
  BY DEF Init, BookInit, PaidAreServed
<1> QED
  BY <1>1, StepServes, ServedOnce, HandlersInvariant, OrdersImplementStore, BookInvariant, PTL
     DEF Spec

-----------------------------------------------------------------------------
(* The registration form. *)

\* The choices the API knows are those the wizard offers, but for countries and the question
\* whether to stay informed, which the API does not look up.
LEMMA ChoicesAgree ==
  /\ OfferedChoices = {"age_range", "gender", "country", "situation", "digital_level",
                       "prior_participation", "discovery_channel", "stay_informed",
                       "preferred_channel"}
  /\ Lists = {"participation_reasons", "topics"}
  /\ DOMAIN Allowed = (OfferedChoices \ {"country", "stay_informed"}) \cup Lists
  /\ \A f \in DOMAIN Allowed \ Lists : Allowed[f] = Options[f]
  /\ \A f \in Lists : Allowed[f] = ListOptions[f]
  /\ Options["stay_informed"] = {"yes", "no"}
<1>1. /\ Lists = {"participation_reasons", "topics"}
      /\ OfferedChoices = {"age_range", "gender", "country", "situation", "digital_level",
                           "prior_participation", "discovery_channel", "stay_informed",
                           "preferred_channel"}
      /\ Options["stay_informed"] = {"yes", "no"}
  BY DEF Lists, ListOptions, OfferedChoices, Options
<1>2. DOMAIN Allowed = (OfferedChoices \ {"country", "stay_informed"}) \cup Lists
  BY <1>1 DEF Allowed
<1>3. /\ Allowed["age_range"] = Options["age_range"] /\ Allowed["gender"] = Options["gender"]
      /\ Allowed["situation"] = Options["situation"]
      /\ Allowed["digital_level"] = Options["digital_level"]
  BY DEF Allowed, Options
<1>4. /\ Allowed["prior_participation"] = Options["prior_participation"]
      /\ Allowed["discovery_channel"] = Options["discovery_channel"]
      /\ Allowed["preferred_channel"] = Options["preferred_channel"]
  BY DEF Allowed, Options
<1>5. \A f \in Lists : Allowed[f] = ListOptions[f]
  <2>1. Allowed["participation_reasons"] = ListOptions["participation_reasons"]
    BY DEF Allowed, ListOptions
  <2>2. Allowed["topics"] = ListOptions["topics"]
    BY DEF Allowed, ListOptions
  <2> QED
    BY <1>1, <2>1, <2>2
<1> QED
  BY <1>1, <1>2, <1>3, <1>4, <1>5

LEMMA TrimmedTexts ==
  /\ Trim("") = "" /\ Trim("blank") = "" /\ Trim("text") = "text" /\ Trim("padded") = "text"
  /\ Trim("long") = "long" /\ Trim("Address") = "Address" /\ Trim("address") = "address"
  BY DEF Trim

\* No choice reads as an empty text.
LEMMA ChoicesAreTexts ==
  /\ \A f \in OfferedChoices : \A option \in Options[f] : option # "" /\ Trim(option) # ""
<1>1. \A f \in OfferedChoices : \A option \in Options[f] : option \notin {"", "blank", "padded"}
  <2> DEFINE Spoken(f) == \A option \in Options[f] : option \notin {"", "blank", "padded"}
  <2>1. Spoken("age_range")
    BY DEF Options
  <2>2. Spoken("gender")
    BY DEF Options
  <2>3. Spoken("country")
    BY DEF Options
  <2>4. Spoken("situation")
    BY DEF Options
  <2>5. Spoken("digital_level")
    BY DEF Options
  <2>6. Spoken("prior_participation")
    BY DEF Options
  <2>7. Spoken("discovery_channel")
    BY DEF Options
  <2>8. Spoken("stay_informed")
    BY DEF Options
  <2>9. Spoken("preferred_channel")
    BY DEF Options
  <2> QED
    BY <2>1, <2>2, <2>3, <2>4, <2>5, <2>6, <2>7, <2>8, <2>9, ChoicesAgree
<1>2. ASSUME NEW option, option \notin {"", "blank", "padded"} PROVE Trim(option) = option
  BY <1>2 DEF Trim
<1> QED
  BY <1>1, <1>2

\* What is missing, by kind of field.
LEMMA MissingAnswers ==
  ASSUME NEW v, NEW f
  PROVE  /\ f \in Texts => f \notin Lists \cup Flags \cup OfferedChoices
         /\ f \in Lists => f \notin Texts \cup Flags \cup OfferedChoices
         /\ f \in Flags => f \notin Texts \cup Lists \cup OfferedChoices
         /\ f \in Texts => (Missing(v, f) <=> Trim(v[f]) = "")
         /\ f \in Lists => (Missing(v, f) <=> v[f] = {})
         /\ f \in Flags => (Missing(v, f) <=> ~v[f])
         /\ f \in OfferedChoices => (Missing(v, f) <=> v[f] = "")
<1>1. /\ f \in Texts => f \notin Lists \cup Flags \cup OfferedChoices
      /\ f \in Lists => f \notin Texts \cup Flags \cup OfferedChoices
      /\ f \in Flags => f \notin Texts \cup Lists \cup OfferedChoices
  BY ChoicesAgree DEF Texts, Flags
<1>2. f \in Texts => (Missing(v, f) <=> Trim(v[f]) = "")
  BY <1>1 DEF Missing
<1>3. f \in Lists => (Missing(v, f) <=> v[f] = {})
  BY <1>1 DEF Missing
<1>4. f \in Flags => (Missing(v, f) <=> ~v[f])
  BY <1>1 DEF Missing
<1>5. f \in OfferedChoices => (Missing(v, f) <=> v[f] = "")
  BY <1>1 DEF Missing
<1> QED
  BY <1>1, <1>2, <1>3, <1>4, <1>5

\* Without an invalid step, every required field of a form has an answer.
LEMMA CompleteForms ==
  ASSUME NEW v, IsForm(v), InvalidSteps(v) = {}
  PROVE  /\ \A f \in Required : ~Missing(v, f)
         /\ v["email"] = "Address"
         /\ v["stay_informed"] = "yes" => v["preferred_channel"] # ""
<1>1. ASSUME NEW s \in 0 .. 7 PROVE StepErrors(s, v) = {}
  BY DEF InvalidSteps, Steps
<1>2. \A f \in IdentityFields : f \in Required => ~Missing(v, f)
  BY <1>1 DEF StepErrors, Shown
<1>3. \A f \in ContactFields : /\ f \in Required => ~Missing(v, f)
                               /\ f = "email" => LooksLikeEmail(v[f])
  BY <1>1 DEF StepErrors, Shown
<1>4. \A f \in ProfileFields : f \in Required => ~Missing(v, f)
  BY <1>1 DEF StepErrors, Shown
<1>5. \A f \in InterestFields : f \in Required => ~Missing(v, f)
  BY <1>1 DEF StepErrors, Shown
<1>6. \A f \in ExperienceFields(v) : f \in Required => ~Missing(v, f)
  BY <1>1 DEF StepErrors, Shown
<1>7. \A f \in DiscoveryFields : f \in Required => ~Missing(v, f)
  BY <1>1 DEF StepErrors, Shown
<1>8. \A f \in CommunityFields(v) :
        /\ f \in Required => ~Missing(v, f)
        /\ f = "preferred_channel" /\ v["stay_informed"] = "yes" => ~Missing(v, f)
  BY <1>1 DEF StepErrors, Shown
<1>9. \A f \in ConfirmationFields : f \in Required => ~Missing(v, f)
  BY <1>1 DEF StepErrors, Shown
<1>10. \A f \in Required : ~Missing(v, f)
  BY <1>2, <1>3, <1>4, <1>5, <1>6, <1>7, <1>8, <1>9
     DEF Required, IdentityFields, ContactFields, ProfileFields, InterestFields, ExperienceFields,
         DiscoveryFields, CommunityFields, ConfirmationFields
<1>11. v["email"] = "Address"
  BY <1>3 DEF ContactFields, LooksLikeEmail, IsForm, Texts, TextValues
<1>12. v["stay_informed"] = "yes" => v["preferred_channel"] # ""
  <2>1. Missing(v, "preferred_channel") <=> v["preferred_channel"] = ""
    BY ChoicesAgree, MissingAnswers
  <2> QED
    BY <1>8, <2>1 DEF CommunityFields
<1> QED
  BY <1>10, <1>11, <1>12

\* What of a form reaches the columns of the order.
LEMMA FormsAreKept ==
  ASSUME NEW v, IsForm(v), NEW n, n = Normalized(Payload(v))
  PROVE  /\ \A f \in Texts \ {"email"} : n[f] = Trim(v[f])
         /\ v["email"] = "Address" => n["email"] = "address"
         /\ \A f \in OfferedChoices \ {"stay_informed"} : n[f] = v[f]
         /\ n["stay_informed"] = IF v["stay_informed"] = "yes" THEN "true" ELSE "false"
         /\ \A f \in Lists \cup Flags : n[f] = v[f]
<1> DEFINE p == Payload(v)
<1>1. \A f \in Fields :
        p[f] = CASE f = "email" -> IF v[f] = "Address" THEN "address" ELSE Trim(v[f])
                 [] f = "stay_informed" -> IF v[f] = "yes" THEN "true" ELSE "false"
                 [] f \in Texts \ {"email"} -> Trim(v[f])
                 [] OTHER -> v[f]
  BY DEF Payload
<1>2. \A f \in Fields :
        n[f] = CASE f \in Lists -> p[f] \cap Allowed[f]
                 [] f \in DOMAIN Allowed \ Lists -> IF p[f] \in Allowed[f] THEN p[f] ELSE ""
                 [] f = "stay_informed" -> IF p[f] \in {"true", "yes"} THEN "true"
                                           ELSE IF p[f] \in {"false", "no"} THEN "false" ELSE "none"
                 [] f = "email" -> IF p[f] = "Address" THEN "address" ELSE Trim(p[f])
                 [] f \in Texts \ {"email"} -> Trim(p[f])
                 [] OTHER -> p[f]
  BY DEF Normalized
<1> HIDE DEF p
<1>3. ASSUME NEW f \in Texts \ {"email"} PROVE n[f] = Trim(v[f])
  <2>1. /\ f \in Fields /\ f \notin Lists /\ f \notin DOMAIN Allowed /\ f # "stay_informed"
        /\ v[f] \in TextValues
    BY <1>3, ChoicesAgree DEF Texts, Fields, IsForm
  <2>2. p[f] = Trim(v[f])
    BY <1>1, <1>3, <2>1
  <2>3. n[f] = Trim(p[f])
    BY <1>2, <1>3, <2>1
  <2> QED
    BY <2>1, <2>2, <2>3, TrimmedTexts DEF TextValues
<1>4. ASSUME v["email"] = "Address" PROVE n["email"] = "address"
  <2>1. /\ "email" \in Fields /\ "email" \notin Lists /\ "email" \notin DOMAIN Allowed
    BY ChoicesAgree DEF Texts, Fields
  <2>2. p["email"] = "address"
    BY <1>1, <1>4, <2>1
  <2> QED
    BY <1>2, <2>1, <2>2, TrimmedTexts
<1>5. ASSUME NEW f \in OfferedChoices \ {"stay_informed"} PROVE n[f] = v[f]
  <2>1. f \in Fields /\ f \notin Lists /\ f \notin Texts /\ v[f] \in Options[f] \cup {""}
    BY <1>5, ChoicesAgree DEF Texts, Fields, IsForm
  <2>2. p[f] = v[f]
    BY <1>1, <1>5, <2>1 DEF Texts
  <2>3. CASE f = "country"
    <3>1. f \notin DOMAIN Allowed
      BY <2>3, ChoicesAgree
    <3> QED
      BY <1>2, <2>1, <2>2, <2>3, <3>1
  <2>4. CASE f # "country"
    <3>1. f \in DOMAIN Allowed \ Lists /\ Allowed[f] = Options[f]
      BY <1>5, <2>1, <2>4, ChoicesAgree
    <3>2. f # "stay_informed" /\ f # "email"
      BY <1>5, <2>1 DEF Texts
    <3>3. n[f] = IF p[f] \in Allowed[f] THEN p[f] ELSE ""
      BY <1>2, <2>1, <3>1, <3>2
    <3> QED
      BY <2>1, <2>2, <3>1, <3>3
  <2> QED
    BY <2>3, <2>4
<1>6. n["stay_informed"] = IF v["stay_informed"] = "yes" THEN "true" ELSE "false"
  <2>1. /\ "stay_informed" \in Fields /\ "stay_informed" \notin Lists \cup Texts
        /\ "stay_informed" \notin DOMAIN Allowed
    BY ChoicesAgree DEF Fields, Texts
  <2>2. p["stay_informed"] = IF v["stay_informed"] = "yes" THEN "true" ELSE "false"
    BY <1>1, <2>1
  <2> QED
    BY <1>2, <2>1, <2>2
<1>7. ASSUME NEW f \in Lists PROVE n[f] = v[f]
  <2>1. f \in Fields /\ f \notin Texts /\ f # "stay_informed"
    BY <1>7, ChoicesAgree DEF Texts, Fields
  <2>2. p[f] = v[f]
    BY <1>1, <2>1 DEF Texts
  <2>3. n[f] = v[f] \cap ListOptions[f]
    BY <1>2, <1>7, <2>1, <2>2, ChoicesAgree
  <2>4. v[f] \subseteq ListOptions[f]
    BY <1>7 DEF IsForm
  <2> QED
    BY <2>3, <2>4
<1>8. ASSUME NEW f \in Flags PROVE n[f] = v[f]
  <2>1. /\ f \in Fields /\ f \notin Texts /\ f \notin Lists /\ f \notin DOMAIN Allowed
        /\ f # "stay_informed"
    BY <1>8, ChoicesAgree DEF Texts, Flags, Fields
  <2>2. p[f] = v[f]
    BY <1>1, <2>1 DEF Texts
  <2> QED
    BY <1>2, <2>1, <2>2 DEF Texts
<1> QED
  BY <1>3, <1>4, <1>5, <1>6, <1>7, <1>8

\* Lengths are all the two validations disagree about.
LEMMA CompleteFormsAreAccepted ==
  ASSUME NEW v, IsForm(v), InvalidSteps(v) = {}
  PROVE  ApiAccepts(Payload(v)) <=> TooLong(v) = {}
<1> DEFINE n == Normalized(Payload(v))
<1>1. /\ \A f \in Texts \ {"email"} : n[f] = Trim(v[f])
      /\ v["email"] = "Address" => n["email"] = "address"
      /\ \A f \in OfferedChoices \ {"stay_informed"} : n[f] = v[f]
      /\ n["stay_informed"] = IF v["stay_informed"] = "yes" THEN "true" ELSE "false"
      /\ \A f \in Lists \cup Flags : n[f] = v[f]
  BY FormsAreKept
<1>2. /\ \A f \in Required : ~Missing(v, f)
      /\ v["email"] = "Address"
      /\ v["stay_informed"] = "yes" => v["preferred_channel"] # ""
  BY CompleteForms
<1> HIDE DEF n
<1>3. ASSUME NEW f \in {"last_name", "first_name", "city", "phone", "activity_domain",
                        "expectations"}
      PROVE  n[f] # ""
  <2>1. f \in Texts \ {"email"} /\ f \in Required
    BY DEF Texts, Required
  <2>2. Trim(v[f]) # ""
    BY <1>2, <2>1, MissingAnswers
  <2> QED
    BY <1>1, <2>1, <2>2
<1>4. ASSUME NEW f \in {"age_range", "country", "situation", "digital_level",
                        "prior_participation", "discovery_channel"}
      PROVE  n[f] # ""
  <2>1. f \in OfferedChoices \ {"stay_informed"} /\ f \in Required
    BY ChoicesAgree DEF Required
  <2>2. v[f] # ""
    BY <1>2, <2>1, MissingAnswers
  <2> QED
    BY <1>1, <2>1, <2>2
<1>5. ASSUME NEW f \in Lists PROVE n[f] # {}
  <2>1. f \in Required
    BY ChoicesAgree DEF Required
  <2>2. v[f] # {}
    BY <1>2, <2>1, MissingAnswers
  <2> QED
    BY <1>1, <2>2
<1>6. n["consent_data_processing"]
  <2>1. "consent_data_processing" \in Flags /\ "consent_data_processing" \in Required
    BY DEF Flags, Required
  <2>2. v["consent_data_processing"]
    BY <1>2, <2>1, MissingAnswers
  <2> QED
    BY <1>1, <2>1, <2>2
<1>7. /\ LooksLikeEmail(n["email"]) /\ n["stay_informed"] # "none"
      /\ n["stay_informed"] = "true" => n["preferred_channel"] # ""
  BY <1>1, <1>2, ChoicesAgree DEF LooksLikeEmail
<1>8. (\A f \in Limited : n[f] # "long") <=> TooLong(v) = {}
  <2>1. ASSUME NEW f \in Limited PROVE n[f] = "long" <=> v[f] = "long"
    <3>1. f \in Texts \ {"email"}
      BY DEF Limited, Texts
    <3>2. n[f] = Trim(v[f]) /\ v[f] \in TextValues
      BY <1>1, <3>1 DEF IsForm
    <3> QED
      BY <3>2, TrimmedTexts DEF TextValues
  <2> QED
    BY <2>1 DEF TooLong
<1> QED
  BY <1>3, <1>4, <1>5, <1>6, <1>7, <1>8 DEF ApiAccepts, n

\* What was answered is stored and displayed.
LEMMA CompleteFormsAreDisplayed ==
  ASSUME NEW v, IsForm(v), InvalidSteps(v) = {}, NEW f \in Fields \ Flags, ~Missing(v, f)
  PROVE  f \in DisplayedFields(Normalized(Payload(v)))
<1> DEFINE n == Normalized(Payload(v))
<1>1. /\ \A g \in Texts \ {"email"} : n[g] = Trim(v[g])
      /\ v["email"] = "Address" => n["email"] = "address"
      /\ \A g \in OfferedChoices \ {"stay_informed"} : n[g] = v[g]
      /\ n["stay_informed"] = IF v["stay_informed"] = "yes" THEN "true" ELSE "false"
      /\ \A g \in Lists \cup Flags : n[g] = v[g]
  BY FormsAreKept
<1>2. v["email"] = "Address"
  BY CompleteForms
<1> HIDE DEF n
<1>3. CASE f \in Texts
  <2>1. f # "stay_informed" /\ f \notin Lists
    BY <1>3, ChoicesAgree DEF Texts
  <2>2. Trim(v[f]) # "" /\ v[f] \in TextValues
    BY <1>3, MissingAnswers DEF IsForm
  <2>3. Trim(n[f]) # ""
    BY <1>1, <1>2, <1>3, <2>2, TrimmedTexts DEF TextValues
  <2> QED
    BY <2>1, <2>3 DEF DisplayedFields, n
<1>4. CASE f \in Lists
  <2>1. f # "stay_informed" /\ f \notin Texts
    BY <1>4, ChoicesAgree DEF Texts
  <2>2. n[f] # {}
    BY <1>1, <1>4, MissingAnswers
  <2> QED
    BY <1>4, <2>1, <2>2 DEF DisplayedFields, n
<1>5. CASE f = "stay_informed"
  <2>1. StayLabel(n[f]) # ""
    BY <1>1, <1>5 DEF StayLabel
  <2>2. f \notin Lists \cup Flags
    BY <1>5, ChoicesAgree DEF Flags
  <2> QED
    BY <1>5, <2>1, <2>2 DEF DisplayedFields, n
<1>6. CASE f \in OfferedChoices \ {"stay_informed"}
  <2>1. f \notin Lists /\ f \notin Texts
    BY <1>6, ChoicesAgree DEF Texts
  <2>2. v[f] # "" /\ v[f] \in Options[f] \cup {""}
    BY <1>6, MissingAnswers DEF IsForm
  <2>3. Trim(n[f]) # ""
    BY <1>1, <1>6, <2>2, ChoicesAreTexts
  <2> QED
    BY <1>6, <2>1, <2>3 DEF DisplayedFields, n
<1> QED
  BY <1>3, <1>4, <1>5, <1>6 DEF Fields

\* Errors are of fields that their step shows, whatever the form says meanwhile.
Examined == Required \cup {"preferred_channel"}

LEMMA ErrorsAreShown ==
  ASSUME NEW v, NEW w, IsForm(w), NEW s \in Steps
  PROVE  /\ StepErrors(s, v) \subseteq Examined
         /\ Shown(v, s) \cap Examined \subseteq Shown([w EXCEPT !["stay_informed"] = "yes"], s)
<1> DEFINE open == [w EXCEPT !["stay_informed"] = "yes"]
<1>1. open["stay_informed"] = "yes"
  BY ChoicesAgree DEF IsForm, Fields
<1>2. StepErrors(s, v) \subseteq Examined
  BY DEF StepErrors, Examined, Required
<1> HIDE DEF open
<1>3. Shown(v, s) \cap Examined \subseteq Shown(open, s)
  <2>1. CASE s \in {0, 1, 2, 3, 5, 7}
    BY <2>1 DEF Shown
  <2>2. CASE s = 4
    <3>1. Shown(v, s) \cap Examined \subseteq {"prior_participation"}
      BY <2>2 DEF Shown, ExperienceFields, Examined, Required
    <3>2. "prior_participation" \in Shown(open, s)
      BY <2>2 DEF Shown, ExperienceFields
    <3> QED
      BY <3>1, <3>2
  <2>3. CASE s = 6
    BY <1>1, <2>3 DEF Shown, CommunityFields
  <2> QED
    BY <2>1, <2>2, <2>3 DEF Steps
<1> QED
  BY <1>2, <1>3 DEF open

\* The inductive invariant of the wizard: forms and drafts are well typed, a form that is
\* submitted has no invalid step, errors are of fields that are examined and shown, and the
\* draft is what is on the screen until a success erases it.
RegInv ==
  /\ RegTypeOK
  /\ draft = NoDraft \/ (IsForm(draft.values) /\ draft.step \in Int)
  /\ submitted # NoForm => InvalidSteps(submitted) = {}
  /\ errors \subseteq Examined
  /\ ErrorsBelongToTheStep
  /\ DraftIsCurrent

\* The parts of the invariant that no step of the page alone disturbs.
LEMMA FormsBelong ==
  /\ IsForm(EmptyForm)
  /\ Clamp(0) = 0 /\ \A s \in Int : Clamp(s) \in Steps
<1>1. IsForm(EmptyForm)
  <2>1. EmptyForm = [f \in Fields |-> EmptyForm[f]]
    BY DEF EmptyForm
  <2>2. \A f \in Fields : EmptyForm[f] = IF f \in Lists THEN {} ELSE IF f \in Flags THEN FALSE ELSE ""
    BY DEF EmptyForm
  <2>3. \A f \in Texts \cup OfferedChoices : f \in Fields /\ EmptyForm[f] = ""
    BY <2>2, MissingAnswers DEF Fields
  <2>4. \A f \in Lists : f \in Fields /\ EmptyForm[f] = {}
    BY <2>2 DEF Fields
  <2>5. \A f \in Flags : f \in Fields /\ EmptyForm[f] = FALSE
    BY <2>2, MissingAnswers DEF Fields
  <2> QED
    BY <2>1, <2>3, <2>4, <2>5 DEF IsForm, TextValues
<1>2. Clamp(0) = 0 /\ \A s \in Int : Clamp(s) \in Steps
  BY DEF Clamp, Steps
<1> QED
  BY <1>1, <1>2

\* What the steps of the page leave of the submissions.
Handles ==
  /\ host' \in {"app", "inscription"} /\ older' \in Nat
  /\ submitting' \in BOOLEAN /\ (submitted' = submitted \/ submitted' = NoForm)

\* A wizard that is opened takes up its draft.
LEMMA MountedIsKept ==
  ASSUME RegInv, Mounted(draft), Handles
  PROVE  RegInv'
<1>1. IsForm(values') /\ step' \in Steps
  BY FormsBelong DEF RegInv, Mounted, Steps
<1>2. draft' = [values |-> values', step |-> step'] /\ erased' = FALSE /\ step' \in Int
  BY <1>1 DEF Mounted, Saved, Steps
<1>3. RegTypeOK'
  BY <1>1, <1>2 DEF RegInv, RegTypeOK, Mounted, Handles
<1>4. draft' = NoDraft \/ (IsForm(draft'.values) /\ draft'.step \in Int)
  BY <1>1, <1>2
<1>5. (submitted # NoForm => InvalidSteps(submitted) = {})'
  BY DEF RegInv, Handles
<1>6. errors' \subseteq Examined /\ ErrorsBelongToTheStep' /\ DraftIsCurrent'
  BY <1>2 DEF Mounted, ErrorsBelongToTheStep, DraftIsCurrent
<1> QED
  BY <1>3, <1>4, <1>5, <1>6 DEF RegInv

\* A wizard that is gone leaves its draft, or none.
LEMMA UnmountedIsKept ==
  ASSUME RegInv, Unmounted, Handles, draft' = draft \/ draft' = NoDraft, erased' \in BOOLEAN
  PROVE  RegInv'
<1>1. mounted' = FALSE /\ values' = EmptyForm /\ step' = 0 /\ errors' = {}
  BY DEF Unmounted
<1>2. IsForm(values') /\ step' \in Steps /\ errors' \subseteq Fields
  BY <1>1, FormsBelong DEF Steps
<1>3. submitted' = NoForm \/ IsForm(submitted')
  BY DEF RegInv, RegTypeOK, Handles
<1>4. RegTypeOK'
  BY <1>1, <1>2, <1>3 DEF RegTypeOK, Handles
<1> QED
  BY <1>1, <1>4 DEF RegInv, ErrorsBelongToTheStep, DraftIsCurrent, Handles

\* A field that is changed: its error goes, and the others stand where they stood.
LEMMA SetIsKept ==
  ASSUME RegInv, mounted, NEW f \in Fields, NEW value, Set(f, value),
         IsForm([values EXCEPT ![f] = value])
  PROVE  RegInv'
<1>1. IsForm(values') /\ step' = step /\ step \in Steps
  BY DEF Set, RegInv, RegTypeOK
<1>2. errors' \subseteq errors
  BY DEF Set
<1>3. RegTypeOK'
  BY <1>1, <1>2 DEF RegInv, RegTypeOK, Set, Saved
<1>4. draft' = [values |-> values', step |-> step'] /\ erased' = FALSE /\ step' \in Int
  BY <1>1 DEF Set, Saved, Steps
<1>5. ErrorsBelongToTheStep'
  <2>1. errors' \subseteq Shown([values EXCEPT !["stay_informed"] = "yes"], step) \cap Examined
    BY <1>2 DEF RegInv, ErrorsBelongToTheStep
  <2> QED
    BY <1>1, <2>1, ErrorsAreShown DEF ErrorsBelongToTheStep
<1> QED
  BY <1>1, <1>2, <1>3, <1>4, <1>5 DEF RegInv, DraftIsCurrent, Set

\* What is typed, chosen, toggled or ticked fits the field.
LEMMA AnswersFit ==
  ASSUME NEW v, IsForm(v), NEW f \in Fields, NEW value,
         f \in Texts => value \in TextValues,
         f \in OfferedChoices => value \in Options[f],
         f \in Lists => value \subseteq ListOptions[f],
         f \in Flags => value \in BOOLEAN
  PROVE  IsForm([v EXCEPT ![f] = value])
<1> DEFINE w == [v EXCEPT ![f] = value]
<1>1. /\ w = [g \in Fields |-> w[g]]
      /\ \A g \in Fields : w[g] = IF g = f THEN value ELSE v[g]
  BY DEF IsForm
<1>2. Texts \cup OfferedChoices \cup Lists \cup Flags = Fields
  BY DEF Fields
<1> HIDE DEF w
<1> QED
  BY <1>1, <1>2 DEF IsForm, w

LEMMA EditsAreKept ==
  ASSUME RegInv, NEW f \in Varied,
         \/ Type(f) \/ Select(f) \/ Choose(f) \/ Check(f)
         \/ \E option \in Toggled : ToggleInList(f, option)
  PROVE  RegInv'
<1>1. f \in Fields /\ IsForm(values)
  BY RegistrationAssumption DEF RegInv, RegTypeOK
<1>2. mounted
  BY DEF Type, Select, Choose, Check, ToggleInList, Editable
<1>3. CASE Type(f)
  <2>1. PICK t \in TextValues : Set(f, t)
    BY <1>3, RegistrationAssumption DEF Type
  <2>2. f \in Texts
    BY <1>3 DEF Type
  <2>3. IsForm([values EXCEPT ![f] = t])
    BY <1>1, <2>2, AnswersFit, MissingAnswers
  <2> QED
    BY <1>1, <1>2, <2>1, <2>3, SetIsKept
<1>4. CASE Select(f) \/ Choose(f)
  <2>1. f \in OfferedChoices
    BY <1>4, ChoicesAgree DEF Select, Choose, Selects
  <2>2. PICK option \in Options[f] : Set(f, option)
    BY <1>4 DEF Select, Choose
  <2>3. IsForm([values EXCEPT ![f] = option])
    BY <1>1, <2>1, <2>2, AnswersFit, MissingAnswers
  <2> QED
    BY <1>1, <1>2, <2>2, <2>3, SetIsKept
<1>5. CASE Check(f)
  <2>1. f \in Flags /\ Set(f, ~values[f])
    BY <1>5 DEF Check
  <2>2. IsForm([values EXCEPT ![f] = ~values[f]])
    <3>1. (~values[f]) \in BOOLEAN
      BY <1>1, <2>1 DEF IsForm
    <3> QED
      BY <1>1, <2>1, <3>1, AnswersFit, MissingAnswers
  <2> QED
    BY <1>1, <1>2, <2>1, <2>2, SetIsKept
<1>6. CASE \E option \in Toggled : ToggleInList(f, option)
  <2>1. PICK option \in Toggled : ToggleInList(f, option)
    BY <1>6
  <2> DEFINE new == IF option \in values[f] THEN values[f] \ {option} ELSE values[f] \cup {option}
  <2>2. f \in Lists /\ Set(f, new) /\ option \in ListOptions[f]
    BY <2>1 DEF ToggleInList
  <2>3. new \subseteq ListOptions[f]
    BY <1>1, <2>2 DEF IsForm
  <2> HIDE DEF new
  <2>4. IsForm([values EXCEPT ![f] = new])
    BY <1>1, <2>2, <2>3, AnswersFit, MissingAnswers
  <2> QED
    BY <1>1, <1>2, <2>2, <2>4, SetIsKept
<1> QED
  BY <1>3, <1>4, <1>5, <1>6

\* Between steps: the errors are those of the step that is shown.
LEMMA MoveToIsKept ==
  ASSUME RegInv, NEW s \in Steps, NEW e, e = {} \/ e = StepErrors(s, values), MoveTo(s, e)
  PROVE  RegInv'
<1>1. IsForm(values) /\ values' = values /\ step' = s /\ errors' = e
  BY DEF MoveTo, RegInv, RegTypeOK
<1>2. e \subseteq Examined /\ e \subseteq Shown(values, s)
  BY <1>1, ErrorsAreShown DEF StepErrors
<1>3. ErrorsBelongToTheStep'
  BY <1>1, <1>2, ErrorsAreShown DEF ErrorsBelongToTheStep
<1>4. e \subseteq Fields
  BY <1>2 DEF Examined, Required, Fields, Texts, Flags, Lists, ListOptions, OfferedChoices, Options
<1>5. RegTypeOK'
  BY <1>1, <1>4 DEF RegInv, RegTypeOK, MoveTo, Saved
<1>6. /\ draft' = NoDraft \/ (IsForm(draft'.values) /\ draft'.step \in Int)
      /\ DraftIsCurrent'
  BY <1>1 DEF RegInv, DraftIsCurrent, MoveTo, Saved, Steps
<1> QED
  BY <1>1, <1>2, <1>3, <1>5, <1>6 DEF RegInv, MoveTo

LEMMA StepsOfTheWizardAreKept ==
  ASSUME RegInv, GoNext \/ GoBack \/ HandleFinish
  PROVE  RegInv'
<1>1. CASE GoNext
  <2>1. step \in Steps /\ step + 1 \in Steps
    BY <1>1 DEF GoNext, RegInv, RegTypeOK, Steps
  <2> QED
    BY <1>1, <2>1, MoveToIsKept DEF GoNext
<1>2. CASE GoBack
  <2>1. step - 1 \in Steps
    BY <1>2 DEF GoBack, RegInv, RegTypeOK, Steps
  <2> QED
    BY <1>2, <2>1, MoveToIsKept DEF GoBack
<1>3. CASE HandleFinish
  <2>1. CASE \E s \in InvalidSteps(values) : MoveTo(s, StepErrors(s, values))
    BY <2>1, MoveToIsKept DEF InvalidSteps
  <2>2. CASE /\ InvalidSteps(values) = {}
             /\ submitting' = TRUE
             /\ submitted' = values
             /\ UNCHANGED <<host, mounted, values, step, errors, draft, older, erased>>
    BY <2>2 DEF RegInv, RegTypeOK, ErrorsBelongToTheStep, DraftIsCurrent
  <2> QED
    BY <1>3, <2>1, <2>2 DEF HandleFinish
<1> QED
  BY <1>1, <1>2, <1>3

\* The form is gone, or a submission is over.
LEMMA EndsAreKept ==
  ASSUME RegInv, Close \/ SubmissionSucceeds \/ SubmissionFails \/ OlderSubmissionEnds
  PROVE  RegInv'
<1>0. RegTypeOK
  BY DEF RegInv
<1>1. CASE Close
  <2>1. Handles
    BY <1>0, <1>1 DEF Close, Handles, RegTypeOK
  <2> QED
    BY <1>0, <1>1, <2>1, UnmountedIsKept DEF Close, RegTypeOK
<1>2. CASE SubmissionSucceeds /\ host = "app"
  <2>1. Handles
    BY <1>0, <1>2 DEF SubmissionSucceeds, Handles, RegTypeOK
  <2> QED
    BY <1>2, <2>1, UnmountedIsKept DEF SubmissionSucceeds
<1>3. CASE SubmissionSucceeds /\ host # "app"
  <2>1. /\ UNCHANGED <<host, mounted, values, step, errors, older>>
        /\ submitting' = FALSE /\ submitted' = NoForm /\ draft' = NoDraft /\ erased' = TRUE
    BY <1>3 DEF SubmissionSucceeds
  <2>2. RegTypeOK'
    BY <1>0, <2>1 DEF RegTypeOK
  <2> QED
    BY <2>1, <2>2 DEF RegInv, ErrorsBelongToTheStep, DraftIsCurrent
<1>4. CASE SubmissionFails
  BY <1>0, <1>4 DEF SubmissionFails, RegInv, RegTypeOK, ErrorsBelongToTheStep, DraftIsCurrent
<1>5. CASE OlderSubmissionEnds
  <2>1. /\ UNCHANGED <<host, mounted, values, step, errors, submitting, submitted>>
        /\ older > 0 /\ older' = older - 1
        /\ \/ draft' = NoDraft /\ erased' = TRUE
           \/ UNCHANGED <<draft, erased>>
    BY <1>5 DEF OlderSubmissionEnds
  <2>2. RegTypeOK'
    <3>1. older' \in Nat
      BY <1>0, <2>1 DEF RegTypeOK
    <3>2. erased' \in BOOLEAN
      BY <1>0, <2>1 DEF RegTypeOK
    <3> QED
      BY <1>0, <2>1, <3>1, <3>2 DEF RegTypeOK
  <2>3. ErrorsBelongToTheStep' /\ errors' \subseteq Examined
    BY <2>1 DEF RegInv, ErrorsBelongToTheStep
  <2>4. (submitted # NoForm => InvalidSteps(submitted) = {})'
    BY <2>1 DEF RegInv
  <2>5. /\ draft' = NoDraft \/ (IsForm(draft'.values) /\ draft'.step \in Int)
        /\ DraftIsCurrent'
    BY <2>1 DEF RegInv, DraftIsCurrent
  <2> QED
    BY <2>2, <2>3, <2>4, <2>5 DEF RegInv
<1> QED
  BY <1>1, <1>2, <1>3, <1>4, <1>5

\* A page is opened or refreshed, with its wizard or without.
LEMMA PagesAreKept ==
  ASSUME RegInv, Refresh \/ \E h \in {"app", "inscription"} : Visit(h)
  PROVE  RegInv'
<1>1. Rendered
  BY DEF Refresh, Visit
<1>2. Handles
  <2>1. /\ submitting' = FALSE /\ submitted' = NoForm
        /\ older' \in {0, older, older + 1}
        /\ host' = host \/ host' \in {"app", "inscription"}
    BY DEF Refresh, Visit
  <2>2. host \in {"app", "inscription"} /\ older \in Nat
    BY DEF RegInv, RegTypeOK
  <2>3. older' \in Nat
    BY <2>1, <2>2
  <2>4. host' \in {"app", "inscription"}
    BY <2>1, <2>2
  <2> QED
    BY <2>1, <2>3, <2>4 DEF Handles
<1>3. erased \in BOOLEAN
  BY DEF RegInv, RegTypeOK
<1> QED
  BY <1>1, <1>2, <1>3, MountedIsKept, UnmountedIsKept DEF Rendered

\* The invariant of the wizard, for any drafts of this version, fields and options.
THEOREM RegistrationInvariant == FormsSpec => []RegInv
<1>1. FormsInit => RegInv
  <2>1. ASSUME FormsInit PROVE /\ mounted = FALSE /\ values = EmptyForm /\ step = 0 /\ errors = {}
                               /\ submitting = FALSE /\ submitted = NoForm
                               /\ draft = NoDraft \/ draft \in Drafts
                               /\ host = "app" /\ older = 0 /\ erased = FALSE
    BY <2>1 DEF FormsInit, RegInit, RegClosed
  <2> QED
    BY <2>1, FormsBelong, RegistrationAssumption
       DEF RegInv, RegTypeOK, ErrorsBelongToTheStep, DraftIsCurrent, Steps
<1>2. ASSUME RegInv, [FormsNext]_formVars PROVE RegInv'
  <2>1. CASE RegNext
    <3>1. CASE Open
      <4>1. Handles
        BY <1>2, <3>1 DEF Open, Handles, RegInv, RegTypeOK
      <4> QED
        BY <1>2, <3>1, <4>1, MountedIsKept DEF Open
    <3>2. CASE GoNext \/ GoBack \/ HandleFinish
      BY <1>2, <3>2, StepsOfTheWizardAreKept
    <3>3. CASE Close \/ SubmissionSucceeds \/ SubmissionFails \/ OlderSubmissionEnds
      BY <1>2, <3>3, EndsAreKept
    <3>4. CASE \/ \E f \in Varied : Type(f) \/ Select(f) \/ Choose(f) \/ Check(f)
               \/ \E f \in Varied \cap Lists, option \in Toggled : ToggleInList(f, option)
      BY <1>2, <3>4, EditsAreKept
    <3>5. CASE Refresh \/ \E h \in {"app", "inscription"} : Visit(h)
      BY <1>2, <3>5, PagesAreKept
    <3> QED
      BY <2>1, <3>1, <3>2, <3>3, <3>4, <3>5 DEF RegNext
  <2>2. CASE UNCHANGED regVars
    BY <1>2, <2>2 DEF regVars, RegInv, RegTypeOK, ErrorsBelongToTheStep, DraftIsCurrent
  <2> QED
    BY <1>2, <2>1, <2>2 DEF FormsNext, formVars
<1> QED
  BY <1>1, <1>2, PTL DEF FormsSpec

\* Of a form that passes the wizard the API refuses nothing but a text that is too long, for
\* every choice that is offered and whatever way the steps were filled in.
THEOREM TheValidationsAgree == FormsSpec => []SubmittedFormsAreAccepted
<1>1. RegInv => SubmittedFormsAreAccepted
  BY CompleteFormsAreAccepted DEF RegInv, RegTypeOK, SubmittedFormsAreAccepted
<1> QED
  BY <1>1, RegistrationInvariant, PTL

\* Types, answers that are stored and displayed, errors beside their fields, and a draft that is
\* what is on the screen until a submission that succeeds erases it, whatever is typed,
\* refreshed, left and closed in between.
THEOREM TheWizardIsSound == FormsSpec => []WizardIsSound
<1>1. RegInv => AnswersAreDisplayed
  BY CompleteFormsAreDisplayed DEF RegInv, RegTypeOK, AnswersAreDisplayed
<1>2. RegInv => WizardIsSound
  BY <1>1 DEF RegInv, WizardIsSound
<1> QED
  BY <1>2, RegistrationInvariant, PTL

-----------------------------------------------------------------------------
(* Finite sums, for the totals of a cart. *)

\* Among the subsets of a finite set that have a property, one is minimal.
SubsetsOf(S, T) == T \subseteq SUBSET S
Minimal(m, T) == m \in T /\ \A u \in T : u \subseteq m => u = m

LEMMA MinimalSets ==
  ASSUME NEW S, IsFiniteSet(S), NEW T, SubsetsOf(S, T), T # {}
  PROVE  \E m : Minimal(m, T)
<1>1. IsWellFoundedOn(StrictSubsetOrdering(S), SUBSET S)
  BY FS_StrictSubsetOrderingWellFounded, FS_FiniteSubsetsOfFinite
<1>2. PICK m \in T : \A u \in T : ~(<<u, m>> \in StrictSubsetOrdering(S))
  <2>1. T \subseteq SUBSET S
    BY DEF SubsetsOf
  <2> QED
    BY <1>1, <2>1, WFMin
<1>3. ASSUME NEW u \in T, u \subseteq m, u # m PROVE FALSE
  <2>1. <<u, m>> \in StrictSubsetOrdering(S)
    BY <1>3 DEF StrictSubsetOrdering, SubsetsOf
  <2> QED
    BY <1>2, <2>1
<1>4. Minimal(m, T)
  BY <1>2, <1>3 DEF Minimal
<1> QED
  BY <1>4

\* Among the natural numbers that have a property, one is the least.
LEMMA LeastNumbers ==
  ASSUME NEW T, T \subseteq Nat, T # {}
  PROVE  \E m \in T : \A n \in T : m <= n
<1> DEFINE R == OpToRel(<, Nat)
<1>1. IsWellFoundedOn(R, Nat)
  BY NatLessThanWellFounded
<1>2. \A m, n \in Nat : <<m, n>> \in R <=> m < n
  BY DEF OpToRel
<1> HIDE DEF R
<1>3. PICK m \in T : \A n \in T : ~(<<n, m>> \in R)
  BY <1>1, WFMin
<1>4. ASSUME NEW n \in T PROVE m <= n
  <2>1. m \in Nat /\ n \in Nat /\ ~(n < m)
    BY <1>2, <1>3
  <2> QED
    BY <2>1
<1> QED
  BY <1>4

\* A sum over a finite set that takes the elements in some order, and one that is the same in
\* every order.
SumsInOrder(sum, w, S) ==
  /\ sum[{}] = 0
  /\ \A T \in SUBSET S : T # {} => \E x \in T : sum[T] = sum[T \ {x}] + w[x]
SumsUp(sum, w, S) ==
  /\ sum[{}] = 0
  /\ \A T \in SUBSET S : \A x \in T : sum[T] = sum[T \ {x}] + w[x]

\* Both are the same sum.
LEMMA SumsAreUnique ==
  ASSUME NEW S, IsFiniteSet(S), NEW w, NEW sum, SumsInOrder(sum, w, S),
         NEW other, SumsUp(other, w, S)
  PROVE  sum[S] = other[S]
<1> DEFINE Bad == {T \in SUBSET S : sum[T] # other[T]}
<1>1. SUFFICES ASSUME Bad # {} PROVE FALSE
  OBVIOUS
<1>2. PICK m : Minimal(m, Bad)
  <2>1. SubsetsOf(S, Bad)
    BY DEF SubsetsOf
  <2> HIDE DEF Bad
  <2> QED
    BY <1>1, <2>1, MinimalSets
<1>3. m \in SUBSET S /\ sum[m] # other[m]
  BY <1>2 DEF Minimal
<1>4. m # {}
  BY <1>3 DEF SumsInOrder, SumsUp
<1>5. PICK x \in m : sum[m] = sum[m \ {x}] + w[x]
  BY <1>3, <1>4 DEF SumsInOrder
<1>6. m \ {x} \in SUBSET S /\ m \ {x} # m /\ m \ {x} \subseteq m
  BY <1>3, <1>5
<1>7. sum[m \ {x}] = other[m \ {x}]
  BY <1>2, <1>6 DEF Minimal
<1>8. other[m] = other[m \ {x}] + w[x]
  BY <1>3 DEF SumsUp
<1> QED
  BY <1>3, <1>5, <1>7, <1>8

\* What a sum counts: the units of each element.
UnitsIn(w, T) == {u \in T \X Nat : 1 <= u[2] /\ u[2] <= w[u[1]]}
Weight(w, T) == Cardinality(UnitsIn(w, T))
LEMMA OneElement ==
  ASSUME NEW x
  PROVE  IsFiniteSet({x}) /\ Cardinality({x}) = 1
<1>1. \E y : {x} = {y}
  OBVIOUS
<1> QED
  BY <1>1, FS_Singleton, Zenon

LEMMA FirstNumbers ==
  ASSUME NEW n \in Nat
  PROVE  IsFiniteSet(1 .. n) /\ Cardinality(1 .. n) = n
<1>1. 1 \in Int /\ n \in Int
  OBVIOUS
<1>2. IsFiniteSet(1 .. n) /\ Cardinality(1 .. n) = IF 1 > n THEN 0 ELSE n - 1 + 1
  BY <1>1, FS_Interval, Zenon
<1>3. (IF 1 > n THEN 0 ELSE n - 1 + 1) = n
  OBVIOUS
<1> QED
  BY <1>2, <1>3

\* The units of one element, of elements apart, and of finitely many.
LEMMA UnitsOfOne ==
  ASSUME NEW x, NEW w, w[x] \in Nat
  PROVE  IsFiniteSet(UnitsIn(w, {x})) /\ Weight(w, {x}) = w[x]
<1>1. UnitsIn(w, {x}) = {x} \X (1 .. w[x])
  <2>1. ASSUME NEW u \in UnitsIn(w, {x}) PROVE u \in {x} \X (1 .. w[x])
    <3>1. u \in {x} \X Nat /\ 1 <= u[2] /\ u[2] <= w[u[1]]
      BY <2>1 DEF UnitsIn
    <3> QED
      BY <3>1
  <2>2. ASSUME NEW u \in {x} \X (1 .. w[x]) PROVE u \in UnitsIn(w, {x})
    BY <2>2 DEF UnitsIn
  <2> QED
    BY <2>1, <2>2
<1> DEFINE one == {x}
           many == 1 .. w[x]
<1>2. IsFiniteSet(one) /\ Cardinality(one) = 1
  BY OneElement
<1>3. IsFiniteSet(many) /\ Cardinality(many) = w[x]
  BY FirstNumbers
<1> HIDE DEF one, many
<1>4. IsFiniteSet(one \X many) /\ Cardinality(one \X many) = Cardinality(one) * Cardinality(many)
  BY <1>2, <1>3, FS_Product
<1>5. Cardinality(one) * Cardinality(many) = w[x]
  BY <1>2, <1>3
<1>6. UnitsIn(w, {x}) = one \X many
  BY <1>1 DEF one, many
<1> QED
  BY <1>4, <1>5, <1>6 DEF Weight

LEMMA UnitsAreApart ==
  ASSUME NEW w, NEW T, NEW U, T \cap U = {}
  PROVE  UnitsIn(w, T \cup U) = UnitsIn(w, T) \cup UnitsIn(w, U) /\ UnitsIn(w, T) \cap UnitsIn(w, U) = {}
  BY DEF UnitsIn

LEMMA UnitsAreFinite ==
  ASSUME NEW S, IsFiniteSet(S), NEW w, \A x \in S : w[x] \in Nat, NEW T \in SUBSET S
  PROVE  IsFiniteSet(UnitsIn(w, T)) /\ Weight(w, T) \in Nat
<1> DEFINE Bad == {R \in SUBSET S : ~IsFiniteSet(UnitsIn(w, R))}
<1>1. Bad = {}
  <2> SUFFICES ASSUME Bad # {} PROVE FALSE
    OBVIOUS
  <2>1. SubsetsOf(S, Bad)
    BY DEF SubsetsOf
  <2> HIDE DEF Bad
  <2>2. PICK m : Minimal(m, Bad)
    BY <2>1, MinimalSets
  <2>3. m # {} /\ m \in SUBSET S
    <3>1. UnitsIn(w, {}) = {}
      BY DEF UnitsIn
    <3>2. m \in Bad
      BY <2>2 DEF Minimal
    <3> QED
      BY <3>1, <3>2, FS_EmptySet DEF Bad
  <2>4. PICK x \in m : TRUE
    BY <2>3
  <2>5. m \ {x} \subseteq m /\ m \ {x} # m /\ m \ {x} \in SUBSET S
    BY <2>3, <2>4
  <2>6. IsFiniteSet(UnitsIn(w, m \ {x}))
    BY <2>2, <2>5 DEF Bad, Minimal
  <2>7. IsFiniteSet(UnitsIn(w, {x}))
    BY <2>3, <2>4, UnitsOfOne
  <2>8. UnitsIn(w, m) = UnitsIn(w, m \ {x}) \cup UnitsIn(w, {x})
    <3>1. m = (m \ {x}) \cup {x} /\ (m \ {x}) \cap {x} = {}
      OBVIOUS
    <3>2. UnitsIn(w, (m \ {x}) \cup {x}) = UnitsIn(w, m \ {x}) \cup UnitsIn(w, {x})
      BY <3>1, UnitsAreApart
    <3> QED
      BY <3>1, <3>2
  <2>9. m \in Bad
    BY <2>2 DEF Minimal
  <2> QED
    BY <2>6, <2>7, <2>8, <2>9, FS_Union DEF Bad
<1> QED
  BY <1>1, FS_CardinalityType DEF Weight

\* Weights of sets that are apart add up; the weight of a set is a sum in every order, and bounded by
\* the number of its elements and the largest of them.
LEMMA WeightsAdd ==
  ASSUME NEW S, IsFiniteSet(S), NEW w, \A x \in S : w[x] \in Nat,
         NEW T \in SUBSET S, NEW U \in SUBSET S, T \cap U = {}
  PROVE  Weight(w, T \cup U) = Weight(w, T) + Weight(w, U)
<1>1. /\ IsFiniteSet(UnitsIn(w, T)) /\ IsFiniteSet(UnitsIn(w, U))
      /\ Weight(w, T) \in Nat /\ Weight(w, U) \in Nat
  BY UnitsAreFinite
<1>2. UnitsIn(w, T \cup U) = UnitsIn(w, T) \cup UnitsIn(w, U) /\ UnitsIn(w, T) \cap UnitsIn(w, U) = {}
  BY UnitsAreApart
<1>3. Cardinality(UnitsIn(w, T) \cup UnitsIn(w, U))
        = Cardinality(UnitsIn(w, T)) + Cardinality(UnitsIn(w, U)) - Cardinality({})
  BY <1>1, <1>2, FS_Union
<1>4. Cardinality({}) = 0
  BY FS_EmptySet
<1>5. /\ Weight(w, T \cup U) = Cardinality(UnitsIn(w, T) \cup UnitsIn(w, U))
      /\ Weight(w, T) = Cardinality(UnitsIn(w, T)) /\ Weight(w, U) = Cardinality(UnitsIn(w, U))
  BY <1>2 DEF Weight
<1> QED
  BY <1>1, <1>3, <1>4, <1>5

LEMMA WeightsAreSums ==
  ASSUME NEW S, IsFiniteSet(S), NEW w, \A x \in S : w[x] \in Nat
  PROVE  /\ Weight(w, {}) = 0
         /\ \A T \in SUBSET S : \A x \in T : Weight(w, T) = Weight(w, T \ {x}) + w[x]
<1>1. Weight(w, {}) = 0
  <2>1. UnitsIn(w, {}) = {}
    BY DEF UnitsIn
  <2> QED
    BY <2>1, FS_EmptySet DEF Weight
<1>2. ASSUME NEW T \in SUBSET S, NEW x \in T
      PROVE  Weight(w, T) = Weight(w, T \ {x}) + w[x]
  <2>1. T = (T \ {x}) \cup {x} /\ (T \ {x}) \cap {x} = {} /\ {x} \in SUBSET S /\ T \ {x} \in SUBSET S
    OBVIOUS
  <2>2. Weight(w, T) = Weight(w, T \ {x}) + Weight(w, {x})
    BY <2>1, WeightsAdd
  <2> QED
    BY <2>2, UnitsOfOne
<1> QED
  BY <1>1, <1>2

LEMMA WeightsAreBounded ==
  ASSUME NEW S, IsFiniteSet(S), NEW w, NEW most \in Nat, \A x \in S : w[x] \in 0 .. most,
         NEW T \in SUBSET S
  PROVE  Weight(w, T) <= Cardinality(S) * most
<1>1. UnitsIn(w, T) \subseteq S \X (1 .. most)
  <2> SUFFICES ASSUME NEW u \in UnitsIn(w, T) PROVE u \in S \X (1 .. most)
    OBVIOUS
  <2>1. u \in T \X Nat /\ 1 <= u[2] /\ u[2] <= w[u[1]]
    BY DEF UnitsIn
  <2>2. u[1] \in S /\ u[2] \in Nat /\ w[u[1]] \in 0 .. most
    BY <2>1
  <2>3. u[2] \in 1 .. most
    BY <2>1, <2>2
  <2> QED
    BY <2>1, <2>2, <2>3
<1>2. IsFiniteSet(1 .. most) /\ Cardinality(1 .. most) = most
  BY FirstNumbers
<1>3. IsFiniteSet(S \X (1 .. most)) /\ Cardinality(S \X (1 .. most)) = Cardinality(S) * most
  <2> DEFINE many == 1 .. most
  <2> HIDE DEF many
  <2>1. IsFiniteSet(many) /\ Cardinality(many) = most
    BY <1>2 DEF many
  <2>2. IsFiniteSet(S \X many) /\ Cardinality(S \X many) = Cardinality(S) * most
    BY <2>1, FS_Product
  <2> QED
    BY <2>2 DEF many
<1> QED
  BY <1>1, <1>3, FS_Subset DEF Weight

-----------------------------------------------------------------------------
(* Sums over ticket types and events. *)

\* A sum over ticket types, and one over events, whichever is chosen first.
TypesTotal(items, S) == FoldSet(LAMBDA type, sum : sum + Subtotal(items, type), 0, S)
EventsTotal(items, S) == FoldSet(LAMBDA event, sum : sum + EventTotal(items, event), 0, S)

AreTypesSums(sums, w, items, S) ==
  /\ w = [type \in S |-> Subtotal(items, type)] /\ SumsUp(sums, w, S)
  /\ sums = [T \in SUBSET S |-> sums[T]]
AreEventsSums(sums, w, items, S) ==
  /\ w = [event \in S |-> EventTotal(items, event)] /\ SumsUp(sums, w, S)
  /\ sums = [T \in SUBSET S |-> sums[T]]

\* FoldSet computes the sum, whichever element it takes first.
LEMMA SumsOverTypes ==
  ASSUME NEW items, NEW S, IsFiniteSet(S), NEW w, NEW sums, AreTypesSums(sums, w, items, S)
  PROVE  TypesTotal(items, S) = sums[S]
<1>0. /\ w = [type \in S |-> Subtotal(items, type)] /\ SumsUp(sums, w, S)
      /\ sums = [T \in SUBSET S |-> sums[T]]
  BY DEF AreTypesSums
<1> DEFINE Adds(f) == f = [T \in SUBSET S |->
                            IF T = {} THEN 0
                            ELSE f[T \ {CHOOSE x \in T : TRUE}] + Subtotal(items, CHOOSE x \in T : TRUE)]
<1>1. TypesTotal(items, S) = (CHOOSE f : Adds(f))[S]
  BY DEF TypesTotal, FoldSet, MapThenFoldSet
<1>2. Adds(sums)
  <2>1. sums[{}] = 0
    BY <1>0 DEF SumsUp
  <2>2. ASSUME NEW T \in SUBSET S, T # {}
        PROVE  sums[T] = sums[T \ {CHOOSE x \in T : TRUE}] + Subtotal(items, CHOOSE x \in T : TRUE)
    <3> DEFINE x == CHOOSE x \in T : TRUE
    <3>1. x \in T
      BY <2>2
    <3> HIDE DEF x
    <3>2. sums[T] = sums[T \ {x}] + w[x] /\ w[x] = Subtotal(items, x)
      BY <1>0, <3>1 DEF SumsUp
    <3> QED
      BY <3>2 DEF x
  <2> QED
    BY <1>0, <2>1, <2>2
<1> DEFINE folded == CHOOSE f : Adds(f)
<1>3. Adds(folded)
  BY <1>2
<1> HIDE DEF folded
<1>4. folded[{}] = 0
  BY <1>3
<1>5. ASSUME NEW T \in SUBSET S, T # {}
      PROVE  \E x \in T : folded[T] = folded[T \ {x}] + w[x]
  <2> DEFINE x == CHOOSE x \in T : TRUE
  <2>1. x \in T
    BY <1>5
  <2>2. folded[T] = folded[T \ {x}] + Subtotal(items, x)
    BY <1>3, <1>5
  <2> HIDE DEF x
  <2>3. w[x] = Subtotal(items, x)
    BY <1>0, <2>1
  <2> QED
    BY <2>1, <2>2, <2>3
<1>6. SumsInOrder(folded, w, S)
  BY <1>4, <1>5 DEF SumsInOrder
<1>7. folded[S] = sums[S]
  BY <1>0, <1>6, SumsAreUnique
<1> QED
  BY <1>1, <1>7 DEF folded

LEMMA SumsOverEvents ==
  ASSUME NEW items, NEW S, IsFiniteSet(S), NEW w, NEW sums, AreEventsSums(sums, w, items, S)
  PROVE  EventsTotal(items, S) = sums[S]
<1>0. /\ w = [event \in S |-> EventTotal(items, event)] /\ SumsUp(sums, w, S)
      /\ sums = [T \in SUBSET S |-> sums[T]]
  BY DEF AreEventsSums
<1> DEFINE Adds(f) == f = [T \in SUBSET S |->
                            IF T = {} THEN 0
                            ELSE f[T \ {CHOOSE x \in T : TRUE}] + EventTotal(items, CHOOSE x \in T : TRUE)]
<1>1. EventsTotal(items, S) = (CHOOSE f : Adds(f))[S]
  BY DEF EventsTotal, FoldSet, MapThenFoldSet
<1>2. Adds(sums)
  <2>1. sums[{}] = 0
    BY <1>0 DEF SumsUp
  <2>2. ASSUME NEW T \in SUBSET S, T # {}
        PROVE  sums[T] = sums[T \ {CHOOSE x \in T : TRUE}] + EventTotal(items, CHOOSE x \in T : TRUE)
    <3> DEFINE x == CHOOSE x \in T : TRUE
    <3>1. x \in T
      BY <2>2
    <3> HIDE DEF x
    <3>2. sums[T] = sums[T \ {x}] + w[x] /\ w[x] = EventTotal(items, x)
      BY <1>0, <3>1 DEF SumsUp
    <3> QED
      BY <3>2 DEF x
  <2> QED
    BY <1>0, <2>1, <2>2
<1> DEFINE folded == CHOOSE f : Adds(f)
<1>3. Adds(folded)
  BY <1>2
<1> HIDE DEF folded
<1>4. folded[{}] = 0
  BY <1>3
<1>5. ASSUME NEW T \in SUBSET S, T # {}
      PROVE  \E x \in T : folded[T] = folded[T \ {x}] + w[x]
  <2> DEFINE x == CHOOSE x \in T : TRUE
  <2>1. x \in T
    BY <1>5
  <2>2. folded[T] = folded[T \ {x}] + EventTotal(items, x)
    BY <1>3, <1>5
  <2> HIDE DEF x
  <2>3. w[x] = EventTotal(items, x)
    BY <1>0, <2>1
  <2> QED
    BY <2>1, <2>2, <2>3
<1>6. SumsInOrder(folded, w, S)
  BY <1>4, <1>5 DEF SumsInOrder
<1>7. folded[S] = sums[S]
  BY <1>0, <1>6, SumsAreUnique
<1> QED
  BY <1>1, <1>7 DEF folded

-----------------------------------------------------------------------------
(* Money: digits and numbers. *)

\* A step of DigitsOf, from the digits of smaller numbers.
DigitStep(f, n) == IF n < 10 THEN <<n>> ELSE Append(f[n \div 10], n % 10)
DigitsUpTo(f, n) == f = [m \in 0 .. n |-> DigitStep(f, m)]

\* What is left of a number after its last digit.
LEMMA DigitsStepDown ==
  ASSUME NEW n \in Nat, n >= 10
  PROVE  n \div 10 \in Nat /\ n \div 10 < n /\ n % 10 \in Digit /\ (10 * (n \div 10)) + (n % 10) = n
  BY DEF Digit

\* One step of a recursive function.
LEMMA DigitsUnfold ==
  ASSUME NEW f, NEW n, NEW m \in 0 .. n, DigitsUpTo(f, n)
  PROVE  f[m] = DigitStep(f, m)
<1>1. f[m] = [k \in 0 .. n |-> DigitStep(f, k)][m]
  BY DEF DigitsUpTo
<1> QED
  BY <1>1

\* Digits of the numbers up to a bound exist and are unique, so that DigitsOf is defined.
LEMMA DigitsAreUnique ==
  ASSUME NEW f, NEW g, NEW n \in Nat, NEW m \in Nat, DigitsUpTo(f, n), DigitsUpTo(g, m)
  PROVE  \A k \in 0 .. n : k <= m => f[k] = g[k]
<1> DEFINE Bad == {k \in 0 .. n : k <= m /\ f[k] # g[k]}
<1>1. SUFFICES ASSUME Bad # {} PROVE FALSE
  OBVIOUS
<1>2. Bad \subseteq Nat
  OBVIOUS
<1>3. PICK k \in Bad : \A j \in Bad : k <= j
  <2> HIDE DEF Bad
  <2> QED
    BY <1>1, <1>2, LeastNumbers
<1>4. k \in Nat /\ k <= n /\ k <= m /\ f[k] # g[k]
  OBVIOUS
<1>5. f[k] = DigitStep(f, k) /\ g[k] = DigitStep(g, k)
  <2>1. k \in 0 .. n /\ k \in 0 .. m
    BY <1>4
  <2> QED
    BY <1>4, <2>1, DigitsUnfold
<1>6. CASE k < 10
  BY <1>4, <1>5, <1>6 DEF DigitStep
<1>7. CASE k >= 10
  <2>1. k \div 10 \in Nat /\ k \div 10 < k
    BY <1>4, <1>7, DigitsStepDown
  <2> DEFINE j == k \div 10
  <2> HIDE DEF j
  <2>2. j \in Nat /\ j < k
    BY <2>1 DEF j
  <2>3. j \notin Bad
    BY <1>3, <2>2, <1>4
  <2>4. f[j] = g[j]
    BY <2>2, <2>3, <1>4
  <2> QED
    BY <1>4, <1>5, <1>7, <2>4 DEF DigitStep, j
<1> QED
  BY <1>4, <1>6, <1>7

LEMMA DigitsExistUpTo ==
  ASSUME NEW n \in Nat
  PROVE  \E f : DigitsUpTo(f, n)
<1> DEFINE Bad == {k \in Nat : ~ \E f : DigitsUpTo(f, k)}
<1>1. SUFFICES ASSUME Bad # {} PROVE FALSE
  OBVIOUS
<1>2. PICK k \in Bad : \A j \in Bad : k <= j
  <2>1. Bad \subseteq Nat
    OBVIOUS
  <2> HIDE DEF Bad
  <2> QED
    BY <1>1, <2>1, LeastNumbers
<1>3. k \in Nat
  OBVIOUS
<1>4. CASE k = 0
  <2> DEFINE f == [m \in 0 .. 0 |-> <<m>>]
  <2>1. \A m \in 0 .. 0 : m < 10
    OBVIOUS
  <2>2. f = [m \in 0 .. 0 |-> DigitStep(f, m)]
    <3> HIDE DEF f
    <3>1. \A m \in 0 .. 0 : DigitStep(f, m) = <<m>>
      BY <2>1 DEF DigitStep
    <3> QED
      BY <3>1 DEF f
  <2> HIDE DEF f
  <2>3. DigitsUpTo(f, 0)
    BY <2>2 DEF DigitsUpTo
  <2> QED
    BY <1>4, <2>3
<1>5. CASE k > 0
  <2>1. k - 1 \in Nat /\ k - 1 < k
    BY <1>3, <1>5
  <2>2. k - 1 \notin Bad
    BY <1>2, <2>1
  <2>3. PICK g : DigitsUpTo(g, k - 1)
    BY <2>1, <2>2
  <2> DEFINE f == [m \in 0 .. k |-> DigitStep(g, m)]
  <2>4. ASSUME NEW m \in 0 .. k PROVE DigitStep(f, m) = DigitStep(g, m)
    <3>1. CASE m < 10
      BY <3>1 DEF DigitStep
    <3>2. CASE m >= 10
      <4>1. m \div 10 \in Nat /\ m \div 10 < m
        BY <3>2, DigitsStepDown
      <4> DEFINE j == m \div 10
      <4> HIDE DEF j
      <4>2. j \in 0 .. k - 1 /\ j \in 0 .. k
        BY <1>3, <4>1 DEF j
      <4>3. g[j] = DigitStep(g, j)
        BY <2>3, <4>2 DEF DigitsUpTo
      <4>4. f[j] = g[j]
        BY <4>2, <4>3
      <4> HIDE DEF f
      <4> QED
        BY <3>2, <4>4 DEF DigitStep, j
    <3> QED
      BY <1>3, <3>1, <3>2
  <2>5. f = [m \in 0 .. k |-> DigitStep(f, m)]
    <3> HIDE DEF f
    <3>1. [m \in 0 .. k |-> DigitStep(f, m)] = [m \in 0 .. k |-> DigitStep(g, m)]
      BY <2>4
    <3> QED
      BY <3>1 DEF f
  <2> HIDE DEF f
  <2> QED
    BY <1>3, <2>5 DEF DigitsUpTo
<1> QED
  BY <1>3, <1>4, <1>5

\* DigitsOf is what its definition says.
LEMMA DigitsOfUnfolds ==
  \A n \in Nat : DigitsOf[n] = DigitStep(DigitsOf, n)
<1> DEFINE Digits(f) == f = [n \in Nat |-> DigitStep(f, n)]
           upTo == [n \in Nat |-> CHOOSE f : DigitsUpTo(f, n)]
           digits == [n \in Nat |-> upTo[n][n]]
<1>1. \A n \in Nat : DigitsUpTo(upTo[n], n)
  BY DigitsExistUpTo
<1> HIDE DEF upTo
<1>2. ASSUME NEW n \in Nat PROVE digits[n] = DigitStep(digits, n)
  <2>1. digits[n] = DigitStep(upTo[n], n)
    BY <1>1, DigitsUnfold
  <2>2. CASE n < 10
    BY <2>1, <2>2 DEF DigitStep
  <2>3. CASE n >= 10
    <3>1. n \div 10 \in Nat /\ n \div 10 < n
      BY <2>3, DigitsStepDown
    <3> DEFINE j == n \div 10
    <3> HIDE DEF j
    <3>2. j \in Nat /\ j <= n
      BY <3>1 DEF j
    <3>3. upTo[j][j] = upTo[n][j]
      BY <1>1, <3>2, DigitsAreUnique
    <3>4. digits[j] = upTo[n][j]
      BY <3>2, <3>3
    <3> HIDE DEF digits
    <3> QED
      BY <2>1, <2>3, <3>4 DEF DigitStep, j
  <2> QED
    BY <2>2, <2>3
<1>3. Digits(digits)
  <2>1. digits = [n \in Nat |-> digits[n]]
    OBVIOUS
  <2> HIDE DEF digits
  <2> QED
    BY <1>2, <2>1
<1>4. DigitsOf = CHOOSE f : Digits(f)
  BY DEF DigitsOf, DigitStep
<1>5. Digits(DigitsOf)
  <2> HIDE DEF Digits, digits
  <2> QED
    BY <1>3, <1>4
<1> QED
  BY <1>5

\* The last of some places.
LEMMA MaxOfSome ==
  ASSUME NEW n \in Nat, NEW T \in SUBSET (1 .. n), T # {}
  PROVE  Max(T) \in T /\ \A y \in T : Max(T) >= y
<1> DEFINE Below == {n - x : x \in T}
<1>1. Below \subseteq Nat /\ Below # {}
  <2>1. \A x \in T : x \in Nat /\ x <= n
    OBVIOUS
  <2>2. \A x \in T : n - x \in Nat
    BY <2>1
  <2> QED
    BY <2>2
<1>2. PICK m \in Below : \A k \in Below : m <= k
  <2> HIDE DEF Below
  <2> QED
    BY <1>1, LeastNumbers
<1>3. PICK x \in T : m = n - x
  OBVIOUS
<1>4. ASSUME NEW y \in T PROVE x >= y
  <2>1. n - y \in Below
    OBVIOUS
  <2>2. n - x <= n - y
    BY <1>2, <1>3, <2>1
  <2>3. x \in Nat /\ y \in Nat
    OBVIOUS
  <2> QED
    BY <2>2, <2>3
<1> QED
  BY <1>3, <1>4 DEF Max

\* A step of Number, the number of the digits at the places in T.
NumberStep(f, seq, T) == IF T = {} THEN 0 ELSE 10 * f[T \ {Max(T)}] + seq[Max(T)]
NumbersAt(f, seq, S) == f = [T \in SUBSET S |-> NumberStep(f, seq, T)]
AgreeAt(s, t, S) == \A i \in S : s[i] = t[i]

\* One step of a recursive function.
LEMMA NumbersUnfold ==
  ASSUME NEW f, NEW seq, NEW S, NEW T \in SUBSET S, NumbersAt(f, seq, S)
  PROVE  f[T] = NumberStep(f, seq, T)
<1>1. f[T] = [R \in SUBSET S |-> NumberStep(f, seq, R)][T]
  BY DEF NumbersAt
<1> QED
  BY <1>1

\* The number of the digits at some places depends on them only.
LEMMA NumbersAreUnique ==
  ASSUME NEW n \in Nat, NEW U, 1 .. n \subseteq U,
         NEW s, NEW t, AgreeAt(s, t, 1 .. n),
         NEW f, NumbersAt(f, s, 1 .. n), NEW g, NumbersAt(g, t, U)
  PROVE  f[1 .. n] = g[1 .. n]
<1> DEFINE S == 1 .. n
           Bad == {T \in SUBSET S : f[T] # g[T]}
<1>1. SUFFICES ASSUME Bad # {} PROVE FALSE
  OBVIOUS
<1>2. SubsetsOf(S, Bad)
  BY DEF SubsetsOf
<1>3. IsFiniteSet(S)
  <2>1. IsFiniteSet(1 .. n)
    BY FS_Interval
  <2> QED
    BY <2>1, FS_Subset
<1>4. PICK T : Minimal(T, Bad)
  <2> HIDE DEF Bad
  <2> QED
    BY <1>1, <1>2, <1>3, MinimalSets
<1>5. T \in SUBSET S /\ T \in SUBSET U /\ f[T] # g[T]
  BY <1>4 DEF Minimal
<1>6. f[T] = NumberStep(f, s, T) /\ g[T] = NumberStep(g, t, T)
  BY <1>5, NumbersUnfold
<1>7. T # {}
  BY <1>5, <1>6 DEF NumberStep
<1>8. Max(T) \in T
  BY <1>5, <1>7, MaxOfSome
<1> DEFINE R == T \ {Max(T)}
<1>9. R \in SUBSET S /\ R \subseteq T /\ R # T
  BY <1>5, <1>8
<1>10. f[R] = g[R]
  BY <1>4, <1>9 DEF Minimal
<1>11. s[Max(T)] = t[Max(T)]
  BY <1>5, <1>8 DEF AgreeAt
<1> QED
  BY <1>5, <1>6, <1>7, <1>10, <1>11 DEF NumberStep

\* Numbers of the digits at all sets of places exist, so that Number is defined.
LEMMA NumbersExist ==
  ASSUME NEW n \in Nat, NEW seq
  PROVE  \E f : NumbersAt(f, seq, 1 .. n)
<1> DEFINE Bad == {S \in SUBSET (1 .. n) : ~ \E f : NumbersAt(f, seq, S)}
<1>1. SUFFICES ASSUME Bad # {} PROVE FALSE
  OBVIOUS
<1>2. PICK S : Minimal(S, Bad)
  <2>1. SubsetsOf(1 .. n, Bad) /\ IsFiniteSet(1 .. n)
    BY FS_Interval DEF SubsetsOf
  <2> HIDE DEF Bad
  <2> QED
    BY <1>1, <2>1, MinimalSets
<1>3. S \in SUBSET (1 .. n) /\ ~ \E f : NumbersAt(f, seq, S)
  BY <1>2 DEF Minimal
<1>4. CASE S = {}
  <2> DEFINE f == [T \in SUBSET {} |-> 0]
  <2>1. f = [T \in SUBSET {} |-> NumberStep(f, seq, T)]
    <3> HIDE DEF f
    <3>1. \A T \in SUBSET {} : NumberStep(f, seq, T) = 0
      BY DEF NumberStep
    <3> QED
      BY <3>1 DEF f
  <2> HIDE DEF f
  <2>2. NumbersAt(f, seq, {})
    BY <2>1 DEF NumbersAt
  <2> QED
    BY <1>3, <1>4, <2>2
<1>5. CASE S # {}
  <2>1. Max(S) \in S /\ \A y \in S : Max(S) >= y
    BY <1>3, <1>5, MaxOfSome
  <2> DEFINE R == S \ {Max(S)}
  <2>2. R \in SUBSET (1 .. n) /\ R \subseteq S /\ R # S
    BY <1>3, <2>1
  <2>3. PICK g : NumbersAt(g, seq, R)
    BY <1>2, <2>2 DEF Minimal
  <2> DEFINE f == [T \in SUBSET S |-> NumberStep(g, seq, T)]
  <2>4. ASSUME NEW T \in SUBSET S PROVE NumberStep(f, seq, T) = NumberStep(g, seq, T)
    <3>1. CASE T = {}
      BY <3>1 DEF NumberStep
    <3>2. CASE T # {}
      <4>1. Max(T) \in T /\ \A y \in T : Max(T) >= y
        BY <1>3, <3>2, MaxOfSome
      <4> DEFINE P == T \ {Max(T)}
      <4>2. P \in SUBSET R /\ P \in SUBSET S
        <5>1. ASSUME Max(S) \in P PROVE FALSE
          <6>1. Max(T) >= Max(S) /\ Max(S) >= Max(T) /\ Max(S) # Max(T)
            BY <2>1, <4>1, <5>1
          <6>2. Max(S) \in 1 .. n /\ Max(T) \in 1 .. n
            BY <1>3, <2>1, <4>1
          <6> QED
            BY <6>1, <6>2
        <5> QED
          BY <5>1
      <4> HIDE DEF P, R
      <4>3. g[P] = NumberStep(g, seq, P)
        BY <2>3, <4>2, NumbersUnfold
      <4>4. f[P] = g[P]
        BY <4>2, <4>3
      <4> HIDE DEF f
      <4> QED
        BY <3>2, <4>4 DEF NumberStep, P
    <3> QED
      BY <3>1, <3>2
  <2>5. f = [T \in SUBSET S |-> NumberStep(f, seq, T)]
    <3> HIDE DEF f
    <3>1. [T \in SUBSET S |-> NumberStep(f, seq, T)] = [T \in SUBSET S |-> NumberStep(g, seq, T)]
      BY <2>4
    <3> QED
      BY <3>1 DEF f
  <2> HIDE DEF f
  <2>6. NumbersAt(f, seq, S)
    BY <2>5 DEF NumbersAt
  <2> QED
    BY <1>3, <2>6
<1> QED
  BY <1>4, <1>5

Numbers(seq) == CHOOSE f : NumbersAt(f, seq, DOMAIN seq)

\* Number, as a recursive function; of no digit, and of one digit more.
LEMMA NumbersOfSequences ==
  ASSUME NEW n \in Nat, NEW seq, DOMAIN seq = 1 .. n
  PROVE  NumbersAt(Numbers(seq), seq, 1 .. n) /\ Number(seq) = Numbers(seq)[1 .. n]
<1>1. NumbersAt(Numbers(seq), seq, 1 .. n)
  BY NumbersExist DEF Numbers
<1>2. Number(seq) = Numbers(seq)[1 .. n]
  BY DEF Number, FoldLeft, MapThenFoldSet, Numbers, NumbersAt, NumberStep
<1> QED
  BY <1>1, <1>2

LEMMA NumberOfNone == Number(<<>>) = 0
<1>1. DOMAIN <<>> = 1 .. 0
  OBVIOUS
<1>2. NumbersAt(Numbers(<<>>), <<>>, 1 .. 0) /\ Number(<<>>) = Numbers(<<>>)[1 .. 0]
  BY <1>1, NumbersOfSequences
<1>3. Numbers(<<>>)[1 .. 0] = NumberStep(Numbers(<<>>), <<>>, 1 .. 0)
  BY <1>2, NumbersUnfold
<1> QED
  BY <1>2, <1>3 DEF NumberStep

LEMMA NumberOfAppend ==
  ASSUME NEW s \in Seq(Nat), NEW d \in Nat
  PROVE  Number(Append(s, d)) = 10 * Number(s) + d
<1> DEFINE n == Len(s)
           t == Append(s, d)
<1>1. n \in Nat /\ DOMAIN s = 1 .. n
  BY LenProperties
<1>2. DOMAIN t = 1 .. n + 1 /\ t[n + 1] = d /\ \A i \in 1 .. n : t[i] = s[i]
  BY <1>1
<1> HIDE DEF n, t
<1>3. NumbersAt(Numbers(s), s, 1 .. n) /\ Number(s) = Numbers(s)[1 .. n]
  BY <1>1, NumbersOfSequences
<1>4. NumbersAt(Numbers(t), t, 1 .. n + 1) /\ Number(t) = Numbers(t)[1 .. n + 1]
  BY <1>1, <1>2, NumbersOfSequences
<1>5. Numbers(t)[1 .. n + 1] = NumberStep(Numbers(t), t, 1 .. n + 1)
  BY <1>4, NumbersUnfold
<1>6. Max(1 .. n + 1) = n + 1
  <2>1. n + 1 \in Nat /\ n + 1 \in 1 .. n + 1
    BY <1>1
  <2>2. Max(1 .. n + 1) \in 1 .. n + 1 /\ \A y \in 1 .. n + 1 : Max(1 .. n + 1) >= y
    <3>1. 1 .. n + 1 \in SUBSET (1 .. n + 1) /\ 1 .. n + 1 # {}
      BY <2>1
    <3> QED
      BY <2>1, <3>1, MaxOfSome
  <2> QED
    BY <1>1, <2>1, <2>2
<1>7. (1 .. n + 1) \ {n + 1} = 1 .. n /\ 1 .. n + 1 # {}
  BY <1>1
<1>8. Numbers(s)[1 .. n] = Numbers(t)[1 .. n]
  <2>1. AgreeAt(s, t, 1 .. n) /\ 1 .. n \subseteq 1 .. n + 1
    BY <1>1, <1>2 DEF AgreeAt
  <2> QED
    BY <1>1, <1>3, <1>4, <2>1, NumbersAreUnique
<1> QED
  BY <1>2, <1>3, <1>4, <1>5, <1>6, <1>7, <1>8 DEF NumberStep, t

\* Zeros in front of a number.
LEMMA ZerosAreDigits ==
  ASSUME NEW k \in Nat
  PROVE  /\ Zeros(k) \in Seq(Nat) /\ Len(Zeros(k)) = k
         /\ Zeros(k + 1) = Append(Zeros(k), 0) /\ Zeros(0) = <<>>
<1>1. Zeros(k) \in Seq(Nat) /\ Len(Zeros(k)) = k /\ Zeros(k + 1) \in Seq(Nat) /\ Len(Zeros(k + 1)) = k + 1
  BY DEF Zeros
<1>2. Zeros(k + 1) = Append(Zeros(k), 0)
  BY <1>1 DEF Zeros
<1>3. Zeros(0) = <<>>
  BY DEF Zeros
<1> QED
  BY <1>1, <1>2, <1>3

LEMMA NumberOfZeros ==
  ASSUME NEW k \in Nat
  PROVE  Number(Zeros(k)) = 0
<1> DEFINE Bad == {j \in Nat : Number(Zeros(j)) # 0}
<1>1. SUFFICES ASSUME Bad # {} PROVE FALSE
  OBVIOUS
<1>2. PICK j \in Bad : \A i \in Bad : j <= i
  <2>1. Bad \subseteq Nat
    OBVIOUS
  <2> HIDE DEF Bad
  <2> QED
    BY <1>1, <2>1, LeastNumbers
<1>3. j \in Nat /\ Number(Zeros(j)) # 0
  OBVIOUS
<1>4. j # 0
  <2>1. Zeros(0) = <<>>
    BY ZerosAreDigits
  <2> QED
    BY <1>3, <2>1, NumberOfNone
<1> DEFINE i == j - 1
<1>5. i \in Nat /\ i < j /\ i + 1 = j
  BY <1>3, <1>4
<1> HIDE DEF i
<1>6. Number(Zeros(i)) = 0
  BY <1>2, <1>3, <1>5
<1>7. Zeros(i) \in Seq(Nat) /\ Zeros(j) = Append(Zeros(i), 0)
  BY <1>5, ZerosAreDigits
<1>8. Number(Zeros(j)) = 10 * Number(Zeros(i)) + 0
  BY <1>7, NumberOfAppend
<1>9. Number(Zeros(j)) = 10 * 0 + 0
  BY <1>6, <1>8
<1> QED
  BY <1>3, <1>9

\* Every number has digits.
LEMMA NumberHasDigits ==
  ASSUME NEW n \in Nat
  PROVE  DigitsOf[n] \in Seq(Nat) /\ DigitsOf[n] # <<>>
<1> DEFINE Bad == {m \in Nat : ~(DigitsOf[m] \in Seq(Nat) /\ DigitsOf[m] # <<>>)}
<1>1. SUFFICES ASSUME Bad # {} PROVE FALSE
  OBVIOUS
<1>2. PICK m \in Bad : \A i \in Bad : m <= i
  <2>1. Bad \subseteq Nat
    OBVIOUS
  <2> HIDE DEF Bad
  <2> QED
    BY <1>1, <2>1, LeastNumbers
<1>3. m \in Nat /\ ~(DigitsOf[m] \in Seq(Nat) /\ DigitsOf[m] # <<>>)
  OBVIOUS
<1>4. DigitsOf[m] = DigitStep(DigitsOf, m)
  BY <1>3, DigitsOfUnfolds
<1>5. CASE m < 10
  <2>1. <<m>> \in Seq(Nat) /\ <<m>> # <<>>
    BY <1>3
  <2> QED
    BY <1>3, <1>4, <1>5, <2>1 DEF DigitStep
<1>6. CASE m >= 10
  <2>1. m \div 10 \in Nat /\ m \div 10 < m /\ m % 10 \in Nat
    BY <1>3, <1>6, DigitsStepDown DEF Digit
  <2> DEFINE q == m \div 10
             r == m % 10
  <2> HIDE DEF q, r
  <2>2. q \in Nat /\ q < m /\ r \in Nat
    BY <2>1 DEF q, r
  <2>3. DigitsOf[q] \in Seq(Nat)
    BY <1>2, <1>3, <2>2
  <2>4. Append(DigitsOf[q], r) \in Seq(Nat) /\ Append(DigitsOf[q], r) # <<>>
    BY <2>2, <2>3
  <2>5. DigitsOf[m] = Append(DigitsOf[q], r)
    BY <1>3, <1>4, <1>6 DEF DigitStep, q, r
  <2> QED
    BY <1>3, <2>4, <2>5
<1> QED
  BY <1>3, <1>5, <1>6

\* A digit at the end of a concatenation.
LEMMA AppendToConcat ==
  ASSUME NEW s \in Seq(Nat), NEW t \in Seq(Nat), NEW d \in Nat
  PROVE  s \o Append(t, d) = Append(s \o t, d)
  OBVIOUS

\* Digits, behind any number of zeros, read as the number they are of.
LEMMA NumberOfDigits ==
  ASSUME NEW k \in Nat, NEW n \in Nat
  PROVE  Number(Zeros(k) \o DigitsOf[n]) = n
<1> DEFINE Bad == {m \in Nat : Number(Zeros(k) \o DigitsOf[m]) # m}
<1>1. SUFFICES ASSUME Bad # {} PROVE FALSE
  OBVIOUS
<1>2. PICK m \in Bad : \A i \in Bad : m <= i
  <2>1. Bad \subseteq Nat
    OBVIOUS
  <2> HIDE DEF Bad
  <2> QED
    BY <1>1, <2>1, LeastNumbers
<1>3. m \in Nat /\ Number(Zeros(k) \o DigitsOf[m]) # m
  OBVIOUS
<1>4. DigitsOf[m] = DigitStep(DigitsOf, m)
  BY <1>3, DigitsOfUnfolds
<1>5. Zeros(k) \in Seq(Nat) /\ Number(Zeros(k)) = 0
  BY NumberOfZeros, ZerosAreDigits
<1>6. CASE m < 10
  <2>1. Zeros(k) \o <<m>> = Append(Zeros(k), m)
    BY <1>3, <1>5
  <2>2. Number(Append(Zeros(k), m)) = 10 * Number(Zeros(k)) + m
    BY <1>3, <1>5, NumberOfAppend
  <2>3. DigitsOf[m] = <<m>>
    BY <1>4, <1>6 DEF DigitStep
  <2>4. Number(Zeros(k) \o DigitsOf[m]) = 10 * 0 + m
    BY <1>5, <2>1, <2>2, <2>3
  <2> QED
    BY <1>3, <2>4
<1>7. CASE m >= 10
  <2>1. m \div 10 \in Nat /\ m \div 10 < m /\ m % 10 \in Nat /\ (10 * (m \div 10)) + (m % 10) = m
    BY <1>3, <1>7, DigitsStepDown DEF Digit
  <2> DEFINE q == m \div 10
             r == m % 10
  <2> HIDE DEF q, r
  <2>2. q \in Nat /\ q < m /\ r \in Nat /\ 10 * q + r = m
    BY <2>1 DEF q, r
  <2>3. Number(Zeros(k) \o DigitsOf[q]) = q
    BY <1>2, <1>3, <2>2
  <2>4. DigitsOf[m] = Append(DigitsOf[q], r)
    BY <1>3, <1>4, <1>7 DEF DigitStep, q, r
  <2>5. DigitsOf[q] \in Seq(Nat) /\ Zeros(k) \o DigitsOf[q] \in Seq(Nat)
    BY <1>5, <2>2, NumberHasDigits, ConcatProperties
  <2>6. Zeros(k) \o Append(DigitsOf[q], r) = Append(Zeros(k) \o DigitsOf[q], r)
    BY <1>5, <2>2, <2>5, AppendToConcat
  <2>7. Number(Append(Zeros(k) \o DigitsOf[q], r)) = 10 * Number(Zeros(k) \o DigitsOf[q]) + r
    BY <2>2, <2>5, NumberOfAppend
  <2>8. Number(Zeros(k) \o DigitsOf[m]) = 10 * q + r
    BY <2>3, <2>4, <2>6, <2>7
  <2> QED
    BY <1>3, <2>2, <2>8
<1>8. m < 10 \/ m >= 10
  BY <1>3
<1> QED
  BY <1>6, <1>7, <1>8

\* The digits before and after the point are the digits.
LEMMA SplitDigits ==
  ASSUME NEW digits \in Seq(Nat), NEW exp \in Nat, exp < Len(digits)
  PROVE  LET whole == SubSeq(digits, 1, Len(digits) - exp)
             frac == SubSeq(digits, Len(digits) - exp + 1, Len(digits))
         IN /\ whole \in Seq(Nat) /\ frac \in Seq(Nat)
            /\ whole # <<>> /\ Len(frac) = exp /\ whole \o frac = digits
<1> DEFINE n == Len(digits)
           whole == SubSeq(digits, 1, n - exp)
           frac == SubSeq(digits, n - exp + 1, n)
<1>1. n \in Nat /\ n > exp /\ DOMAIN digits = 1 .. n /\ \A i \in 1 .. n : digits[i] \in Nat
  OBVIOUS
<1>0. n = Len(digits)
  OBVIOUS
<1> HIDE DEF n
<1>2. /\ whole \in Seq(Nat) /\ Len(whole) = n - exp
      /\ \A i \in 1 .. n - exp : whole[i] = digits[i]
  <2>1. \A i \in 1 .. n - exp : digits[i] \in Nat
    BY <1>1
  <2>2. n - exp \in Int /\ 1 <= n - exp /\ (n - exp) - 1 + 1 = n - exp
    BY <1>1
  <2>3. /\ whole \in Seq(Nat) /\ Len(whole) = (n - exp) - 1 + 1
        /\ \A i \in 1 .. (n - exp) - 1 + 1 : whole[i] = digits[1 + i - 1]
    BY <2>1, <2>2, SubSeqProperties
  <2>4. \A i \in 1 .. n - exp : 1 + i - 1 = i
    BY <2>2
  <2> QED
    BY <2>2, <2>3, <2>4
<1>3. /\ frac \in Seq(Nat) /\ Len(frac) = exp
      /\ \A i \in 1 .. exp : frac[i] = digits[n - exp + i]
  BY <1>1
<1> HIDE DEF whole, frac
<1>4. /\ whole \o frac \in Seq(Nat) /\ Len(whole \o frac) = n
      /\ \A i \in 1 .. n : (whole \o frac)[i] = IF i <= n - exp THEN whole[i] ELSE frac[i - (n - exp)]
  <2>1. (n - exp) + exp = n
    BY <1>1
  <2>2. /\ whole \o frac \in Seq(Nat) /\ Len(whole \o frac) = (n - exp) + exp
        /\ \A i \in 1 .. (n - exp) + exp :
             (whole \o frac)[i] = IF i <= n - exp THEN whole[i] ELSE frac[i - (n - exp)]
    <3>1. /\ whole \o frac \in Seq(Nat) /\ Len(whole \o frac) = Len(whole) + Len(frac)
          /\ \A i \in 1 .. Len(whole) + Len(frac) :
               (whole \o frac)[i] = IF i <= Len(whole) THEN whole[i] ELSE frac[i - Len(whole)]
      BY <1>2, <1>3, ConcatProperties
    <3>2. Len(whole) = n - exp /\ Len(frac) = exp
      BY <1>2, <1>3
    <3> QED
      BY <3>1, <3>2, Zenon
  <2> QED
    BY <2>1, <2>2
<1>5. ASSUME NEW i \in 1 .. n PROVE (whole \o frac)[i] = digits[i]
  <2>1. CASE i <= n - exp
    <3>1. i \in 1 .. n - exp
      BY <2>1
    <3>2. (whole \o frac)[i] = whole[i] /\ whole[i] = digits[i]
      BY <1>2, <1>4, <2>1, <3>1
    <3> QED
      BY <3>2
  <2>2. CASE i > n - exp
    <3> DEFINE j == i - (n - exp)
    <3>1. j \in 1 .. exp /\ n - exp + j = i /\ ~(i <= n - exp)
      BY <1>1, <2>2
    <3>2. (whole \o frac)[i] = frac[j]
      BY <1>4, <3>1
    <3> HIDE DEF j
    <3>3. frac[j] = digits[n - exp + j]
      BY <1>3, <3>1
    <3> QED
      BY <3>1, <3>2, <3>3
  <2>3. i <= n - exp \/ i > n - exp
    BY <1>1
  <2> QED
    BY <2>1, <2>2, <2>3
<1>6. whole \o frac = digits
  BY <1>0, <1>4, <1>5, SeqEqual
<1>7. whole # <<>>
  BY <1>1, <1>2
<1> QED
  BY <1>2, <1>3, <1>6, <1>7 DEF whole, frac, n

\* What is displayed of an amount, typed again, is that amount, for every amount that is exact
\* and every currency (minorToMajorString, majorStringToMinor).
THEOREM AnAmountReadsBack ==
  ASSUME NEW n \in Nat, n <= MaxSafeInteger, NEW currency
  PROVE  MajorStringToMinor(MinorToMajorString(n, currency), currency) = n
<1> DEFINE exp == GetExponent(currency)
           k == IF Len(DigitsOf[n]) < exp + 1 THEN (exp + 1) - Len(DigitsOf[n]) ELSE 0
           padded == Zeros(k) \o DigitsOf[n]
           whole == SubSeq(padded, 1, Len(padded) - exp)
           frac == SubSeq(padded, Len(padded) - exp + 1, Len(padded))
<1>1. exp \in Nat
  BY MoneyAssumption DEF GetExponent
<1>2. MinorToMajorString(n, currency) = [neg |-> FALSE, int |-> whole, frac |-> frac]
  <2>1. ~(n < 0)
    OBVIOUS
  <2>2. (n < 0) = FALSE
    BY <2>1
  <2>3. (IF n < 0 THEN -n ELSE n) = n
    BY <2>1
  <2>4. PadStart(DigitsOf[n], exp + 1) = padded
    BY Zenon DEF PadStart
  <2> HIDE DEF padded, exp
  <2>5. MinorToMajorString(n, currency)
          = [neg |-> n < 0, int |-> whole, frac |-> frac]
    BY <2>3, <2>4 DEF MinorToMajorString, exp
  <2> QED
    BY <2>2, <2>5
<1> HIDE DEF exp
<1>3. DigitsOf[n] \in Seq(Nat) /\ Len(DigitsOf[n]) \in Nat
  BY NumberHasDigits
<1>4. k \in Nat /\ k + Len(DigitsOf[n]) > exp
  <2> DEFINE l == Len(DigitsOf[n])
  <2> HIDE DEF l
  <2>1. l \in Nat
    BY <1>3 DEF l
  <2>2. k = IF l < exp + 1 THEN (exp + 1) - l ELSE 0
    BY DEF l
  <2> HIDE DEF k
  <2>3. k \in Nat /\ k + l > exp
    BY <1>1, <2>1, <2>2
  <2> QED
    BY <2>3 DEF l
<1> HIDE DEF k
<1>5. Zeros(k) \in Seq(Nat) /\ Len(Zeros(k)) = k
  BY <1>4, ZerosAreDigits
<1>6. padded \in Seq(Nat) /\ Len(padded) > exp
  <2>1. padded \in Seq(Nat) /\ Len(padded) = Len(Zeros(k)) + Len(DigitsOf[n])
    BY <1>3, <1>5, ConcatProperties
  <2> HIDE DEF padded
  <2>2. Len(padded) = k + Len(DigitsOf[n])
    BY <1>5, <2>1
  <2> QED
    BY <1>4, <2>1, <2>2
<1>7. Number(padded) = n
  BY <1>4, NumberOfDigits
<1> HIDE DEF padded
<1>8. /\ whole \in Seq(Nat) /\ frac \in Seq(Nat)
      /\ whole # <<>> /\ Len(frac) = exp /\ whole \o frac = padded
  BY <1>1, <1>6, SplitDigits
<1> HIDE DEF whole, frac
<1>9. PadEnd(frac, exp) = frac
  <2>1. PadEnd(frac, exp) = frac \o Zeros(0)
    BY <1>1, <1>8 DEF PadEnd
  <2>2. Zeros(0) = <<>>
    BY ZerosAreDigits
  <2> QED
    BY <1>8, <2>1, <2>2, ConcatEmptySeq
<1>10. ~(Len(frac) > exp) /\ ~(n > MaxSafeInteger)
  BY <1>1, <1>8, MoneyAssumption
<1> DEFINE major == MinorToMajorString(n, currency)
<1>11. major.neg = FALSE /\ major.int = whole /\ major.frac = frac
  BY <1>2
<1> HIDE DEF major
<1>12. Number(major.int \o PadEnd(major.frac, exp)) = n
  BY <1>7, <1>8, <1>9, <1>11
<1>13. MajorStringToMinor(major, currency) = n
  BY <1>8, <1>10, <1>11, <1>12 DEF MajorStringToMinor, exp
<1> QED
  BY <1>13 DEF major

-----------------------------------------------------------------------------
(* The cart. *)

\* The carts that the reducer makes from what was found at first, and what localStorage holds.
IsTyped(item) == item \in [quantity : Int, part : BOOLEAN, price : Int \cup {NoPrice}]
IsLine(item, type, old) ==
  item = NoItem \/ (IsTyped(item) /\ IsValidCartItem(item) /\ ComesFrom(item, type, old))
IsCart(items, old) ==
  /\ items = [type \in TicketTypes |-> items[type]]
  /\ \A type \in TicketTypes : IsLine(items[type], type, old)
IsStored(items, old) ==
  /\ items = [type \in TicketTypes |-> items[type]]
  /\ \A type \in TicketTypes :
       items[type] = NoItem \/ (IsTyped(items[type]) /\ ComesFrom(items[type], type, old))

\* The lines of a cart are valid, and survive a reload; what is loaded is a cart.
LEMMA CartsAreStored ==
  ASSUME NEW items, NEW old, IsCart(items, old)
  PROVE  IsStored(items, old) /\ LoadInitialState(items) = items
<1>1. IsStored(items, old)
  BY DEF IsCart, IsLine, IsStored
<1>2. \A type \in TicketTypes :
        (IF IsValidCartItem(items[type]) THEN items[type] ELSE NoItem) = items[type]
  BY DEF IsCart, IsLine
<1>3. LoadInitialState(items) = [type \in TicketTypes |-> items[type]]
  BY <1>2 DEF LoadInitialState
<1> QED
  BY <1>1, <1>3 DEF IsCart

LEMMA LoadedCarts ==
  ASSUME NEW items, NEW old, IsStored(items, old)
  PROVE  IsCart(LoadInitialState(items), old)
<1> DEFINE loaded == LoadInitialState(items)
<1>1. /\ loaded = [type \in TicketTypes |-> loaded[type]]
      /\ \A type \in TicketTypes :
           loaded[type] = IF IsValidCartItem(items[type]) THEN items[type] ELSE NoItem
  BY DEF LoadInitialState
<1> HIDE DEF loaded
<1>2. ASSUME NEW type \in TicketTypes PROVE IsLine(loaded[type], type, old)
  <2>1. CASE ~IsValidCartItem(items[type])
    BY <1>1, <2>1 DEF IsLine
  <2>2. CASE IsValidCartItem(items[type])
    <3>1. loaded[type] = items[type] /\ items[type] # NoItem
      BY <1>1, <2>2 DEF IsValidCartItem, HasTickets
    <3> QED
      BY <2>2, <3>1 DEF IsLine, IsStored
  <2> QED
    BY <2>1, <2>2
<1>3. IsCart(loaded, old)
  BY <1>1, <1>2 DEF IsCart
<1> QED
  BY <1>3 DEF loaded

\* The reducer makes carts.
LEMMA EmptyCartIsCart ==
  ASSUME NEW old
  PROVE  IsCart(EmptyCart, old)
  BY DEF IsCart, IsLine, EmptyCart

LEMMA RemovedIsCart ==
  ASSUME NEW items, NEW old, IsCart(items, old), NEW types
  PROVE  IsCart(Removed(items, types), old)
<1> DEFINE left == Removed(items, types)
<1>1. /\ left = [type \in TicketTypes |-> left[type]]
      /\ \A type \in TicketTypes : left[type] = IF type \in types THEN NoItem ELSE items[type]
  BY DEF Removed
<1> HIDE DEF left
<1>2. IsCart(left, old)
  BY <1>1 DEF IsCart, IsLine
<1> QED
  BY <1>2 DEF left

LEMMA AtMostALine ==
  ASSUME NEW n \in Nat \ {0}
  PROVE  AtMost(n) \in 1 .. MAX_PER_TYPE /\ (n < MAX_PER_TYPE => AtMost(n) < MAX_PER_TYPE)
<1>1. MAX_PER_TYPE \in Nat \ {0}
  BY CartAssumption
<1> QED
  BY <1>1 DEF AtMost

\* A line of at most so many tickets, whole if it is of so many.
Makes(item, n, part, p) == item.quantity = n /\ item.part = part /\ item.price = p

LEMMA ALine ==
  ASSUME NEW item, item \in [quantity : Int, part : BOOLEAN, price : Int \cup {NoPrice}],
         NEW n \in 1 .. MAX_PER_TYPE, NEW part \in BOOLEAN, NEW p, Makes(item, n, part, p),
         part => n < MAX_PER_TYPE, NEW type, NEW old, ComesFrom(item, type, old)
  PROVE  IsLine(item, type, old)
<1> SUFFICES ASSUME item # NoItem PROVE IsLine(item, type, old)
  BY DEF IsLine
<1>1. MAX_PER_TYPE \in Nat
  BY CartAssumption
<1>2. n \in Nat /\ n > 0 /\ n <= MAX_PER_TYPE
  BY <1>1
<1>3. item.quantity = n /\ item.part = part
  BY DEF Makes
<1>4. HasTickets(item)
  BY <1>2, <1>3 DEF HasTickets
<1>5. n < MAX_PER_TYPE \/ (n = MAX_PER_TYPE /\ ~part)
  BY <1>1, <1>2
<1>6. IsValidCartItem(item)
  BY <1>3, <1>4, <1>5 DEF IsValidCartItem
<1> QED
  BY <1>6 DEF IsLine, IsTyped

\* One line is changed.
Changes(changed, items, type, item) == changed = [items EXCEPT ![type] = item]

LEMMA ChangedIsCart ==
  ASSUME NEW items, NEW old, IsCart(items, old), NEW type \in TicketTypes,
         NEW item, IsLine(item, type, old), NEW changed, Changes(changed, items, type, item)
  PROVE  IsCart(changed, old)
<1>1. /\ changed = [other \in TicketTypes |-> changed[other]]
      /\ \A other \in TicketTypes : changed[other] = IF other = type THEN item ELSE items[other]
  BY DEF IsCart, Changes
<1> QED
  BY <1>1 DEF IsCart

LEMMA AddedIsCart ==
  ASSUME NEW items, NEW old, IsCart(items, old), NEW type \in TicketTypes, NEW n \in Nat \ {0},
         price[type] \in Prices[type]
  PROVE  IsCart(Added(items, type, n), old)
<1> DEFINE line == items[type]
           more == line.quantity + n
           item == IF line = NoItem
                   THEN [quantity |-> AtMost(n), part |-> FALSE, price |-> price[type]]
                   ELSE [line EXCEPT !.quantity = AtMost(more), !.part = line.part /\ more < MAX_PER_TYPE]
<1>1. MAX_PER_TYPE \in Nat /\ Prices[type] \subseteq Nat
  BY CartAssumption
<1>2. Changes(Added(items, type, n), items, type, item)
  BY DEF Added, Changes
<1>3. IsLine(item, type, old)
  <2>1. CASE line = NoItem
    <3>1. AtMost(n) \in 1 .. MAX_PER_TYPE
      BY AtMostALine
    <3>2. item = [quantity |-> AtMost(n), part |-> FALSE, price |-> price[type]]
      BY <2>1
    <3> HIDE DEF item
    <3>3. Makes(item, AtMost(n), FALSE, price[type])
      BY <3>2 DEF Makes
    <3>4. item \in [quantity : Int, part : BOOLEAN, price : Int \cup {NoPrice}]
      BY <1>1, <3>1, <3>2
    <3>5. ComesFrom(item, type, old)
      BY <3>3 DEF ComesFrom, Makes
    <3> QED
      BY <3>1, <3>3, <3>4, <3>5, ALine
  <2>2. CASE line # NoItem
    <3> DEFINE part == line.part /\ more < MAX_PER_TYPE
    <3>1. IsTyped(line) /\ IsValidCartItem(line) /\ ComesFrom(line, type, old)
      BY <2>2 DEF IsCart, IsLine
    <3>2. line \in [quantity : Int, part : BOOLEAN, price : Int \cup {NoPrice}]
      BY <3>1 DEF IsTyped
    <3>3. line.quantity \in Nat
      BY <3>1, <3>2 DEF IsValidCartItem, HasTickets
    <3>4. more \in Nat \ {0} /\ part \in BOOLEAN
      BY <3>2, <3>3
    <3>5. AtMost(more) \in 1 .. MAX_PER_TYPE /\ (part => AtMost(more) < MAX_PER_TYPE)
      BY <3>4, AtMostALine
    <3>6. item = [line EXCEPT !.quantity = AtMost(more), !.part = part]
      BY <2>2
    <3> HIDE DEF item, more, part
    <3>7. Makes(item, AtMost(more), part, line.price)
      BY <3>2, <3>6 DEF Makes
    <3>8. item \in [quantity : Int, part : BOOLEAN, price : Int \cup {NoPrice}]
      <4>1. AtMost(more) \in Int /\ line.price \in Int \cup {NoPrice} /\ part \in BOOLEAN
        BY <1>1, <3>2, <3>4, <3>5
      <4>2. item = [quantity |-> AtMost(more), part |-> part, price |-> line.price]
        BY <3>2, <3>6
      <4> QED
        BY <4>1, <4>2
    <3>9. part => line.part
      BY DEF part
    <3>10. ComesFrom(item, type, old)
      BY <3>1, <3>7, <3>9 DEF ComesFrom, Makes
    <3> QED
      BY <3>4, <3>5, <3>7, <3>8, <3>10, ALine
  <2> QED
    BY <2>1, <2>2
<1> HIDE DEF item
<1> QED
  BY <1>2, <1>3, ChangedIsCart

LEMMA UpdatedIsCart ==
  ASSUME NEW items, NEW old, IsCart(items, old), NEW type \in TicketTypes, NEW n \in Nat
  PROVE  IsCart(Updated(items, type, n), old)
<1> DEFINE line == items[type]
           item == IF line = NoItem \/ n <= 0 THEN NoItem
                   ELSE [line EXCEPT !.quantity = AtMost(n), !.part = FALSE]
<1>1. MAX_PER_TYPE \in Nat
  BY CartAssumption
<1>2. Changes(Updated(items, type, n), items, type, item)
  BY DEF Updated, Changes
<1>3. IsLine(item, type, old)
  <2>1. CASE line = NoItem \/ n <= 0
    BY <2>1 DEF IsLine
  <2>2. CASE ~(line = NoItem \/ n <= 0)
    <3>1. IsTyped(line) /\ ComesFrom(line, type, old)
      BY <2>2 DEF IsCart, IsLine
    <3>2. line \in [quantity : Int, part : BOOLEAN, price : Int \cup {NoPrice}]
      BY <3>1 DEF IsTyped
    <3>3. AtMost(n) \in 1 .. MAX_PER_TYPE
      BY <2>2, AtMostALine
    <3>4. item = [line EXCEPT !.quantity = AtMost(n), !.part = FALSE]
      BY <2>2
    <3> HIDE DEF item
    <3>5. Makes(item, AtMost(n), FALSE, line.price)
      BY <3>2, <3>4 DEF Makes
    <3>6. item \in [quantity : Int, part : BOOLEAN, price : Int \cup {NoPrice}]
      <4>1. AtMost(n) \in Int /\ line.price \in Int \cup {NoPrice}
        BY <1>1, <3>2, <3>3
      <4>2. item = [quantity |-> AtMost(n), part |-> FALSE, price |-> line.price]
        BY <3>2, <3>4
      <4> QED
        BY <4>1, <4>2
    <3>7. ComesFrom(item, type, old)
      BY <3>1, <3>5 DEF ComesFrom, Makes
    <3> QED
      BY <3>3, <3>5, <3>6, <3>7, ALine
  <2> QED
    BY <2>1, <2>2
<1> HIDE DEF item
<1> QED
  BY <1>2, <1>3, ChangedIsCart

-----------------------------------------------------------------------------
(* The totals of a cart. *)

\* A cart whose lines are sound.
IsExact(items) ==
  \A type \in LinesOf(items) : items[type].quantity \in 1 .. MAX_PER_TYPE /\ items[type].price \in Prices[type]

LEMMA SoundCartsAreExact ==
  ASSUME NEW items, NEW old, IsCart(items, old), IsSoundCart(items)
  PROVE  IsExact(items)
<1>1. MAX_PER_TYPE \in Nat
  BY CartAssumption
<1>2. ASSUME NEW type \in LinesOf(items)
      PROVE  items[type].quantity \in 1 .. MAX_PER_TYPE /\ items[type].price \in Prices[type]
  <2>1. /\ IsTyped(items[type]) /\ IsValidCartItem(items[type])
        /\ ~items[type].part /\ items[type].price \in Prices[type]
    BY <1>2 DEF IsCart, IsLine, LinesOf, IsSoundCart, IsSoundLine
  <2>2. items[type].quantity \in Int
    BY <2>1 DEF IsTyped
  <2> QED
    BY <1>1, <2>1, <2>2 DEF IsValidCartItem, HasTickets
<1> QED
  BY <1>2 DEF IsExact

Worth(items) ==
  [type \in TicketTypes |-> IF type \in LinesOf(items) THEN Subtotal(items, type) ELSE 0]

\* A full cart is within the integers that are exact.
LEMMA CartsAreAffordable ==
  ASSUME NEW items, IsExact(items)
  PROVE  \E most \in Nat : /\ \A type \in TicketTypes : Worth(items)[type] \in 0 .. most
                           /\ Cardinality(TicketTypes) * most <= MaxSafeInteger
<1>1. PICK most \in 0 .. MaxSafeInteger :
        /\ \A type \in TicketTypes : \A p \in Prices[type] : MAX_PER_TYPE * p <= most
        /\ Cardinality(TicketTypes) * most <= MaxSafeInteger
  BY CartAssumption
<1>2. most \in Nat /\ MAX_PER_TYPE \in Nat
  BY <1>1, CartAssumption, MoneyAssumption
<1>3. ASSUME NEW type \in LinesOf(items)
      PROVE  Subtotal(items, type) \in 0 .. most
  <2>1. type \in TicketTypes
        /\ items[type].quantity \in 1 .. MAX_PER_TYPE /\ items[type].price \in Prices[type]
    BY <1>3 DEF IsExact, LinesOf
  <2> DEFINE q == items[type].quantity
             p == items[type].price
  <2>2. q \in 1 .. MAX_PER_TYPE /\ p \in Prices[type] /\ Prices[type] \subseteq Nat
    BY <2>1, CartAssumption
  <2>3. MAX_PER_TYPE * p <= most
    BY <1>1, <2>1, <2>2
  <2>4. Subtotal(items, type) = q * p
    BY DEF Subtotal
  <2> HIDE DEF q, p
  <2>5. q \in Nat /\ p \in Nat /\ q <= MAX_PER_TYPE
    BY <1>2, <2>2
  <2>6. q * p \in Nat /\ MAX_PER_TYPE * p \in Nat /\ q * p <= MAX_PER_TYPE * p
    BY <1>2, <2>5
  <2>7. q * p \in 0 .. most
    BY <1>2, <2>3, <2>6
  <2> QED
    BY <2>4, <2>7
<1>4. \A type \in TicketTypes : Worth(items)[type] \in 0 .. most
  BY <1>2, <1>3 DEF Worth
<1> QED
  BY <1>1, <1>2, <1>4

\* The total of some lines is their weight, whichever is counted first.
LEMMA TotalsOfLines ==
  ASSUME NEW items, IsExact(items), NEW S \in SUBSET LinesOf(items)
  PROVE  TypesTotal(items, S) = Weight(Worth(items), S)
<1> DEFINE w == [type \in S |-> Subtotal(items, type)]
           sums == [T \in SUBSET S |-> Weight(Worth(items), T)]
<1>1. S \subseteq TicketTypes /\ IsFiniteSet(TicketTypes)
  BY CartAssumption DEF LinesOf
<1>2. IsFiniteSet(S)
  BY <1>1, FS_Subset
<1>3. \A type \in TicketTypes : Worth(items)[type] \in Nat
  BY CartsAreAffordable
<1>4. /\ Weight(Worth(items), {}) = 0
      /\ \A T \in SUBSET TicketTypes : \A x \in T :
           Weight(Worth(items), T) = Weight(Worth(items), T \ {x}) + Worth(items)[x]
  BY <1>1, <1>3, WeightsAreSums
<1>5. SumsUp(sums, w, S)
  <2>1. sums[{}] = 0
    BY <1>4
  <2>2. ASSUME NEW T \in SUBSET S, NEW x \in T PROVE sums[T] = sums[T \ {x}] + w[x]
    <3>1. Worth(items)[x] = w[x]
      BY <1>1 DEF Worth
    <3>2. sums[T] = Weight(Worth(items), T) /\ sums[T \ {x}] = Weight(Worth(items), T \ {x})
      OBVIOUS
    <3>3. T \in SUBSET TicketTypes
      BY <1>1
    <3> HIDE DEF sums, w
    <3> QED
      BY <1>4, <3>1, <3>2, <3>3
  <2> HIDE DEF sums, w
  <2> QED
    BY <2>1, <2>2 DEF SumsUp
<1>6. sums = [T \in SUBSET S |-> sums[T]] /\ sums[S] = Weight(Worth(items), S)
  OBVIOUS
<1>7. AreTypesSums(sums, w, items, S)
  <2>1. w = [type \in S |-> Subtotal(items, type)]
    OBVIOUS
  <2> HIDE DEF sums, w
  <2> QED
    BY <1>5, <1>6, <2>1 DEF AreTypesSums
<1> HIDE DEF sums, w
<1>8. TypesTotal(items, S) = sums[S]
  BY <1>2, <1>7, SumsOverTypes
<1> QED
  BY <1>6, <1>8

LinesOfEvents(items, D) == {type \in LinesOf(items) : EventOf[type] \in D}
LinesInCurrency(items, c) == {type \in LinesOf(items) : CurrencyOf[EventOf[type]] = c}
EventsInCurrency(c) == {event \in Events : CurrencyOf[event] = c}

\* The total of a currency, of an event, and of the events in a currency.
LEMMA CurrencyTotals ==
  ASSUME NEW items, IsExact(items), NEW c \in DOMAIN TotalsByCurrency(items)
  PROVE  TotalsByCurrency(items)[c] = Weight(Worth(items), LinesInCurrency(items, c))
<1>1. TotalsByCurrency(items)[c] = TypesTotal(items, LinesInCurrency(items, c))
  BY DEF TotalsByCurrency, TypesTotal, LinesInCurrency
<1>2. LinesInCurrency(items, c) \in SUBSET LinesOf(items)
  BY DEF LinesInCurrency
<1> QED
  BY <1>1, <1>2, TotalsOfLines

LEMMA EventTotals ==
  ASSUME NEW items, IsExact(items), NEW event
  PROVE  EventTotal(items, event) = Weight(Worth(items), LinesOfEvents(items, {event}))
<1>1. {type \in LinesOf(items) : EventOf[type] = event} = LinesOfEvents(items, {event})
  BY DEF LinesOfEvents
<1>2. EventTotal(items, event) = TypesTotal(items, {type \in LinesOf(items) : EventOf[type] = event})
  BY DEF EventTotal, TypesTotal
<1>3. LinesOfEvents(items, {event}) \in SUBSET LinesOf(items)
  BY DEF LinesOfEvents
<1> QED
  BY <1>1, <1>2, <1>3, TotalsOfLines

LEMMA EventsAddUp ==
  ASSUME NEW items, IsExact(items), NEW c
  PROVE  EventsTotal(items, EventsInCurrency(c)) = Weight(Worth(items), LinesInCurrency(items, c))
<1> DEFINE S == EventsInCurrency(c)
           w == [event \in S |-> EventTotal(items, event)]
           sums == [D \in SUBSET S |-> Weight(Worth(items), LinesOfEvents(items, D))]
<1>1. IsFiniteSet(S)
  BY CartAssumption, FS_Subset DEF EventsInCurrency
<1>2. /\ IsFiniteSet(TicketTypes) /\ LinesOf(items) \subseteq TicketTypes
      /\ \A type \in TicketTypes : Worth(items)[type] \in Nat
  BY CartAssumption, CartsAreAffordable DEF LinesOf
<1> HIDE DEF S
<1>3. ASSUME NEW D \in SUBSET S, NEW x \in D PROVE sums[D] = sums[D \ {x}] + w[x]
  <2> DEFINE rest == LinesOfEvents(items, D \ {x})
             those == LinesOfEvents(items, {x})
  <2>1. /\ LinesOfEvents(items, D) = rest \cup those /\ rest \cap those = {}
        /\ rest \in SUBSET TicketTypes /\ those \in SUBSET TicketTypes
    BY <1>2 DEF LinesOfEvents
  <2> HIDE DEF rest, those
  <2>2. Weight(Worth(items), rest \cup those) = Weight(Worth(items), rest) + Weight(Worth(items), those)
    BY <1>2, <2>1, WeightsAdd
  <2>3. w[x] = Weight(Worth(items), those)
    BY EventTotals DEF those
  <2>4. /\ sums[D] = Weight(Worth(items), LinesOfEvents(items, D))
        /\ sums[D \ {x}] = Weight(Worth(items), rest)
    BY DEF rest
  <2> HIDE DEF sums, w
  <2> QED
    BY <2>1, <2>2, <2>3, <2>4
<1>4. sums[{}] = 0
  <2>1. LinesOfEvents(items, {}) = {}
    BY DEF LinesOfEvents
  <2>2. Weight(Worth(items), {}) = 0
    BY <1>2, WeightsAreSums
  <2> QED
    BY <2>1, <2>2
<1>5. AreEventsSums(sums, w, items, S)
  <2>1. w = [event \in S |-> EventTotal(items, event)] /\ sums = [D \in SUBSET S |-> sums[D]]
    OBVIOUS
  <2> HIDE DEF sums, w
  <2>2. SumsUp(sums, w, S)
    BY <1>3, <1>4 DEF SumsUp
  <2> QED
    BY <2>1, <2>2 DEF AreEventsSums
<1>6. sums[S] = Weight(Worth(items), LinesOfEvents(items, S))
  OBVIOUS
<1> HIDE DEF sums, w
<1>7. EventsTotal(items, S) = sums[S]
  BY <1>1, <1>5, SumsOverEvents
<1>8. LinesOfEvents(items, S) = LinesInCurrency(items, c)
  BY <1>2, CartAssumption DEF LinesOfEvents, LinesInCurrency, S, EventsInCurrency
<1> QED
  BY <1>6, <1>7, <1>8 DEF S

\* A total is an integer that is exact.
LEMMA TotalsAreExact ==
  ASSUME NEW items, IsExact(items), NEW c
  PROVE  /\ Weight(Worth(items), LinesInCurrency(items, c)) \in Nat
         /\ Weight(Worth(items), LinesInCurrency(items, c)) <= MaxSafeInteger
<1> DEFINE w == Worth(items)
           T == LinesInCurrency(items, c)
<1>1. PICK most \in Nat : /\ \A type \in TicketTypes : w[type] \in 0 .. most
                          /\ Cardinality(TicketTypes) * most <= MaxSafeInteger
  BY CartsAreAffordable
<1>2. IsFiniteSet(TicketTypes) /\ T \in SUBSET TicketTypes
  BY CartAssumption DEF LinesInCurrency, LinesOf
<1>3. \A type \in TicketTypes : w[type] \in Nat
  BY <1>1
<1> HIDE DEF w, T
<1>4. Weight(w, T) \in Nat
  BY <1>2, <1>3, UnitsAreFinite
<1>5. Weight(w, T) <= Cardinality(TicketTypes) * most
  BY <1>1, <1>2, WeightsAreBounded
<1>6. Cardinality(TicketTypes) \in Nat
  BY <1>2, FS_CardinalityType
<1>7. Cardinality(TicketTypes) * most \in Nat
  BY <1>6
<1>8. Weight(w, T) <= MaxSafeInteger
  BY <1>1, <1>4, <1>5, <1>7, MoneyAssumption
<1> QED
  BY <1>4, <1>8 DEF w, T

LEMMA CartTotals ==
  ASSUME NEW items, IsExact(items), NEW c \in DOMAIN TotalsByCurrency(items)
  PROVE  /\ TotalsByCurrency(items)[c] = EventsTotal(items, EventsInCurrency(c))
         /\ TotalsByCurrency(items)[c] \in Nat /\ TotalsByCurrency(items)[c] <= MaxSafeInteger
  BY CurrencyTotals, EventsAddUp, TotalsAreExact

-----------------------------------------------------------------------------
(* The invariant of the cart. *)

CartsInv ==
  /\ tabs = [t \in Tabs |-> tabs[t]] /\ \A t \in Tabs : IsOpen(t) => IsCart(tabs[t], found)
  /\ saved \subseteq {t \in Tabs : IsOpen(t)} /\ \A t \in saved : writer = t => stored = tabs[t]
  /\ IsStored(stored, found)
  /\ price = [type \in TicketTypes |-> price[type]] /\ \A type \in TicketTypes : price[type] \in Prices[type]
  /\ budget \in 0 .. Budget

\* The first state, a step of the reducer, and a step of the cart.
LEMMA PricesAtFirst ==
  ASSUME price = [type \in TicketTypes |-> CHOOSE p \in Prices[type] : TRUE]
  PROVE  /\ price = [type \in TicketTypes |-> price[type]]
         /\ \A type \in TicketTypes : price[type] \in Prices[type]
  BY CartAssumption

LEMMA CartsInvAtFirst ==
  ASSUME CartInit \/ CartClosed
  PROVE  CartsInv
<1>1. /\ tabs = [t \in Tabs |-> NoTab] /\ saved = {} /\ budget = Budget
      /\ price = [type \in TicketTypes |-> CHOOSE p \in Prices[type] : TRUE]
  BY DEF CartInit, CartClosed
<1>2. IsStored(stored, found)
  <2>1. CASE CartInit
    <3>1. found = stored /\ stored \in StoredCarts
      BY <2>1 DEF CartInit
    <3>2. \A type \in TicketTypes : stored[type] = NoItem \/ IsTyped(stored[type])
      BY <3>1, CartAssumption DEF IsTyped
    <3>3. stored = [type \in TicketTypes |-> stored[type]]
      BY <3>1, CartAssumption
    <3>4. \A type \in TicketTypes : stored[type] # NoItem => ComesFrom(stored[type], type, found)
      BY <3>1 DEF ComesFrom
    <3> QED
      BY <3>2, <3>3, <3>4 DEF IsStored
  <2>2. CASE CartClosed
    BY <2>2, EmptyCartIsCart, CartsAreStored DEF CartClosed
  <2> QED
    BY <2>1, <2>2
<1>3. tabs = [t \in Tabs |-> tabs[t]] /\ \A t \in Tabs : ~IsOpen(t)
  BY <1>1 DEF IsOpen
<1>4. budget \in 0 .. Budget
  BY <1>1, CartAssumption
<1> QED
  BY <1>1, <1>2, <1>3, <1>4, PricesAtFirst DEF CartsInv

LEMMA Dispatched ==
  ASSUME CartsInv, NEW t \in Tabs, NEW items, IsCart(items, found), Dispatch(t, items),
         budget' \in 0 .. Budget, found' = found
  PROVE  CartsInv'
<1>1. /\ tabs' = [tabs EXCEPT ![t] = items] /\ saved' = saved \ {t}
      /\ stored' = stored /\ writer' = writer /\ price' = price
  BY DEF Dispatch
<1>2. tabs' = [u \in Tabs |-> tabs'[u]] /\ \A u \in Tabs : tabs'[u] = IF u = t THEN items ELSE tabs[u]
  BY <1>1 DEF CartsInv
<1>3. \A u \in Tabs : IsOpen(u)' => IsCart(tabs'[u], found')
  BY <1>2 DEF CartsInv, IsOpen
<1>4. saved' \subseteq {u \in Tabs : IsOpen(u)'} /\ \A u \in saved' : writer' = u => stored' = tabs'[u]
  BY <1>1, <1>2 DEF CartsInv, IsOpen
<1>5. IsStored(stored', found')
  BY <1>1 DEF CartsInv
<1>6. price' = [type \in TicketTypes |-> price'[type]] /\ \A type \in TicketTypes : price'[type] \in Prices[type]
  BY <1>1 DEF CartsInv
<1> QED
  BY <1>2, <1>3, <1>4, <1>5, <1>6 DEF CartsInv, IsOpen

LEMMA Stepped ==
  ASSUME CartsInv, CartNext
  PROVE  CartsInv'
<1>0. budget' \in 0 .. Budget /\ found' = found
  BY CartAssumption DEF CartsInv, CartNext
<1>1. ASSUME NEW t \in Tabs, Save(t) PROVE CartsInv'
  <2>1. /\ t \in Tabs /\ IsOpen(t) /\ saved' = saved \cup {t} /\ stored' = tabs[t] /\ writer' = t
        /\ tabs' = tabs /\ price' = price
    BY <1>1 DEF Save
  <2>2. IsStored(tabs[t], found)
    BY <2>1, CartsAreStored DEF CartsInv
  <2>3. IsStored(stored', found')
    BY <1>0, <2>1, <2>2
  <2>4. saved' \subseteq {u \in Tabs : IsOpen(u)'} /\ \A u \in saved' : writer' = u => stored' = tabs'[u]
    BY <2>1 DEF CartsInv, IsOpen
  <2>5. \A u \in Tabs : IsOpen(u)' => IsCart(tabs'[u], found')
    BY <1>0, <2>1 DEF CartsInv, IsOpen
  <2> QED
    BY <1>0, <2>1, <2>3, <2>4, <2>5 DEF CartsInv, IsOpen
<1>2. ASSUME NEW t \in Tabs, NEW type \in TicketTypes, NEW n \in 0 .. MAX_PER_TYPE + 1,
             AddItem(t, type, n) \/ UpdateQuantity(t, type, n)
      PROVE  CartsInv'
  <2>1. n \in Nat /\ (IF n < 1 THEN 1 ELSE n) \in Nat \ {0}
    BY CartAssumption
  <2>2. IsOpen(t) /\ IsCart(tabs[t], found) /\ price[type] \in Prices[type]
    BY <1>2 DEF AddItem, UpdateQuantity, CartsInv
  <2>3. CASE AddItem(t, type, n)
    <3> DEFINE m == IF n < 1 THEN 1 ELSE n
    <3>1. Dispatch(t, Added(tabs[t], type, m))
      BY <2>3 DEF AddItem
    <3>2. m \in Nat \ {0}
      BY <2>1
    <3> HIDE DEF m
    <3>3. IsCart(Added(tabs[t], type, m), found)
      BY <2>2, <3>2, AddedIsCart
    <3> QED
      BY <1>0, <3>1, <3>3, Dispatched
  <2>4. CASE UpdateQuantity(t, type, n)
    BY <1>0, <2>1, <2>2, <2>4, UpdatedIsCart, Dispatched DEF UpdateQuantity
  <2> QED
    BY <1>2, <2>3, <2>4
<1>3. ASSUME NEW t \in Tabs, NEW types, IsOpen(t), Dispatch(t, Removed(tabs[t], types))
      PROVE  CartsInv'
  <2>1. IsCart(Removed(tabs[t], types), found)
    BY <1>3, RemovedIsCart DEF CartsInv
  <2> QED
    BY <1>0, <1>3, <2>1, Dispatched
<1>4. ASSUME NEW t \in Tabs, ClearCart(t) PROVE CartsInv'
  BY <1>0, <1>4, EmptyCartIsCart, Dispatched DEF ClearCart
<1>5. ASSUME NEW t \in Tabs, NEW cart, cart = NoTab \/ IsCart(cart, found),
             tabs' = [tabs EXCEPT ![t] = cart], saved' = saved \ {t}, UNCHANGED <<stored, writer, price>>
      PROVE  CartsInv'
  <2>1. stored' = stored /\ writer' = writer /\ price' = price
    BY <1>5
  <2>2. tabs' = [u \in Tabs |-> tabs'[u]] /\ \A u \in Tabs : tabs'[u] = IF u = t THEN cart ELSE tabs[u]
    BY <1>5 DEF CartsInv
  <2>3. \A u \in Tabs : IsOpen(u)' => IsCart(tabs'[u], found')
    BY <1>0, <1>5, <2>2 DEF CartsInv, IsOpen
  <2>4. saved' \subseteq {u \in Tabs : IsOpen(u)'} /\ \A u \in saved' : writer' = u => stored' = tabs'[u]
    BY <1>5, <2>1, <2>2 DEF CartsInv, IsOpen
  <2>5. IsStored(stored', found')
    BY <1>0, <2>1 DEF CartsInv
  <2> QED
    BY <1>0, <2>1, <2>2, <2>3, <2>4, <2>5 DEF CartsInv, IsOpen
<1>6. ASSUME NEW t \in Tabs, OpenTab(t) PROVE CartsInv'
  <2>1. IsCart(LoadInitialState(stored), found)
    BY LoadedCarts DEF CartsInv
  <2> QED
    BY <1>5, <1>6, <2>1 DEF OpenTab
<1>7. ASSUME NEW t \in Tabs, CloseTab(t) PROVE CartsInv'
  BY <1>5, <1>7 DEF CloseTab
<1>8. ASSUME NEW type \in TicketTypes, Reprice(type) PROVE CartsInv'
  <2>1. PICK p \in Prices[type] : price' = [price EXCEPT ![type] = p]
    BY <1>8 DEF Reprice
  <2>2. tabs' = tabs /\ saved' = saved /\ stored' = stored /\ writer' = writer
    BY <1>8 DEF Reprice
  <2>3. /\ price' = [other \in TicketTypes |-> price'[other]]
        /\ \A other \in TicketTypes : price'[other] \in Prices[other]
    BY <2>1 DEF CartsInv
  <2>4. IsStored(stored', found')
    BY <1>0, <2>2 DEF CartsInv
  <2>5. \A u \in Tabs : IsOpen(u)' => IsCart(tabs'[u], found')
    BY <1>0, <2>2 DEF CartsInv, IsOpen
  <2>6. saved' \subseteq {u \in Tabs : IsOpen(u)'} /\ \A u \in saved' : writer' = u => stored' = tabs'[u]
    BY <2>2 DEF CartsInv, IsOpen
  <2>7. tabs' = [u \in Tabs |-> tabs'[u]]
    BY <2>2 DEF CartsInv
  <2> QED
    BY <1>0, <2>3, <2>4, <2>5, <2>6, <2>7 DEF CartsInv, IsOpen
<1>9. ASSUME NEW t \in Tabs, NEW type \in TicketTypes, RemoveItem(t, type) PROVE CartsInv'
  BY <1>3, <1>9 DEF RemoveItem
<1>10. ASSUME NEW t \in Tabs, NEW event \in Events, ClearEvent(t, event) PROVE CartsInv'
  BY <1>3, <1>10 DEF ClearEvent
<1> QED
  BY <1>1, <1>2, <1>4, <1>6, <1>7, <1>8, <1>9, <1>10 DEF CartNext

\* The lines of the tabs are of a number of tickets that one may buy, and what is wrong with
\* one otherwise was so in localStorage at first, in a line of its ticket type; so it is with
\* what localStorage holds, whose numbers may be any; the tab that wrote last has what it
\* wrote; and the server's prices are among those of their ticket types.
THEOREM CartInvariant == FormsSpec => []CartsInv
<1>1. FormsInit => CartsInv
  BY CartsInvAtFirst DEF FormsInit
<1>2. CartsInv /\ UNCHANGED cartVars => CartsInv'
  BY DEF CartsInv, cartVars, IsOpen
<1>3. CartsInv /\ [FormsNext]_formVars => CartsInv'
  <2>1. FormsNext => CartNext \/ UNCHANGED cartVars
    BY DEF FormsNext
  <2>2. UNCHANGED formVars => UNCHANGED cartVars
    BY DEF formVars
  <2> QED
    BY <1>2, <2>1, <2>2, Stepped
<1> QED
  BY <1>1, <1>3, PTL DEF FormsSpec

\* The invariant says that the cart is sound.
LEMMA SoundCarts == CartsInv => CartIsSound
<1> SUFFICES ASSUME CartsInv PROVE CartIsSound
  OBVIOUS
<1>1. CartTypeOK
  <2>1. ASSUME NEW t \in Tabs, IsOpen(t), NEW type \in LinesOf(tabs[t])
        PROVE  IsValidCartItem(tabs[t][type]) /\ ComesFrom(tabs[t][type], type, found)
    BY <2>1 DEF CartsInv, IsCart, IsLine, LinesOf
  <2> QED
    BY <2>1 DEF CartTypeOK, CartsInv
<1>2. CartSurvivesReload
  <2> SUFFICES ASSUME NEW t \in saved, writer = t PROVE LoadInitialState(stored) = tabs[t]
    BY DEF CartSurvivesReload
  <2>1. stored = tabs[t] /\ IsCart(tabs[t], found)
    BY DEF CartsInv
  <2> QED
    BY <2>1, CartsAreStored
<1>3. TotalsAgree
  <2> SUFFICES ASSUME NEW t \in Tabs, IsOpen(t), IsSoundCart(tabs[t]), NEW c \in DOMAIN TotalsByCurrency(tabs[t])
               PROVE  TotalsByCurrency(tabs[t])[c] = EventsTotal(tabs[t], EventsInCurrency(c))
    BY DEF TotalsAgree, EventsTotal, EventsInCurrency
  <2>1. IsExact(tabs[t])
    BY SoundCartsAreExact DEF CartsInv
  <2> QED
    BY <2>1, CartTotals
<1>4. AmountsReadBack
  <2> SUFFICES ASSUME NEW t \in Tabs, IsOpen(t), IsSoundCart(tabs[t]), NEW c \in DOMAIN TotalsByCurrency(tabs[t])
               PROVE  MajorStringToMinor(MinorToMajorString(TotalsByCurrency(tabs[t])[c], c), c)
                        = TotalsByCurrency(tabs[t])[c]
    BY DEF AmountsReadBack
  <2>1. IsExact(tabs[t])
    BY SoundCartsAreExact DEF CartsInv
  <2>2. TotalsByCurrency(tabs[t])[c] \in Nat /\ TotalsByCurrency(tabs[t])[c] <= MaxSafeInteger
    BY <2>1, CartTotals
  <2> QED
    BY <2>2, AnAmountReadsBack
<1> QED
  BY <1>1, <1>2, <1>3, <1>4 DEF CartIsSound

\* No line of a tab is of nothing or of more than one may buy, and a fraction or a price that
\* never was its type's was in localStorage at first; a tab that wrote last finds its cart again
\* when it is reloaded; and in a tab all of whose lines are sound, the totals of the events add
\* up to those of the currencies, and what is displayed of a total reads back as that total:
\* whatever localStorage held, the tabs did and the prices became.
THEOREM TheCartIsSound == FormsSpec => []CartIsSound
  BY CartInvariant, SoundCarts, PTL
=============================================================================
