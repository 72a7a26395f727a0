---------------------------------- MODULE Cart ----------------------------------
(***************************************************************************)
(* The cart of context/use-cart.tsx: the reducer and the totals of a tab,  *)
(* and the copy of the cart that the tabs of a browser share in            *)
(* localStorage.  No route mounts CartProvider at this commit.             *)
(*                                                                         *)
(* A cart is a function of the ticket types; the order of its lines is     *)
(* left out.  A line keeps the ticket type as it was when it was added.    *)
(* What localStorage held before may be of another version, or edited: a   *)
(* quantity that is not whole has a `part` beyond its whole units, and a   *)
(* price is any number, or NoPrice.  Its event and currency are those of   *)
(* its ticket type, and a type has one line.                               *)
(***************************************************************************)
EXTENDS Money

CONSTANTS
  TicketTypes, Events,
  EventOf, CurrencyOf,
  Prices,           \* the prices of each ticket type over time
  StoredCarts,      \* what may be in localStorage at first
  MAX_PER_TYPE,
  Tabs, NoTab,
  Budget,           \* bound: what is done in the tabs and to the prices
  NoItem, NoPrice

ASSUME CartAssumption ==
  /\ EventOf \in [TicketTypes -> Events] /\ CurrencyOf \in [Events -> Currencies]
  /\ MAX_PER_TYPE \in Nat \ {0} /\ Budget \in Nat
  /\ IsFiniteSet(TicketTypes) /\ IsFiniteSet(Events)
  /\ \A type \in TicketTypes : Prices[type] \subseteq Nat /\ Prices[type] # {}
  /\ \A items \in StoredCarts :
       /\ items = [type \in TicketTypes |-> items[type]]
       /\ \A type \in TicketTypes :
            items[type] = NoItem
              \/ items[type] \in [quantity : Int, part : BOOLEAN, price : Int \cup {NoPrice}]
  \* A full cart is within the integers that a number of the browser holds exactly.
  /\ \E most \in 0 .. MaxSafeInteger :
       /\ \A type \in TicketTypes : \A p \in Prices[type] : MAX_PER_TYPE * p <= most
       /\ Cardinality(TicketTypes) * most <= MaxSafeInteger

VARIABLES
  tabs,             \* items of the tabs, NoTab for one that is not open
  saved,            \* the tabs whose effect has run since items changed
  stored,           \* localStorage
  writer,           \* history: the tab that wrote last
  found,            \* history: what was in localStorage at first
  price,            \* the server: price_minor
  budget

cartVars == <<tabs, saved, stored, writer, found, price, budget>>

-----------------------------------------------------------------------------
(* cartReducer, and the totals. *)

EmptyCart == [type \in TicketTypes |-> NoItem]
AtMost(quantity) == IF quantity > MAX_PER_TYPE THEN MAX_PER_TYPE ELSE quantity

Added(items, type, quantity) ==
  LET line == items[type]
  IN [items EXCEPT ![type] =
        IF line = NoItem
        THEN [quantity |-> AtMost(quantity), part |-> FALSE, price |-> price[type]]
        ELSE [line EXCEPT !.quantity = AtMost(line.quantity + quantity),
                          !.part = line.part /\ line.quantity + quantity < MAX_PER_TYPE]]
Updated(items, type, quantity) ==
  LET line == items[type]
  IN [items EXCEPT ![type] =
        IF line = NoItem \/ quantity <= 0 THEN NoItem
        ELSE [line EXCEPT !.quantity = AtMost(quantity), !.part = FALSE]]
Removed(items, types) == [type \in TicketTypes |-> IF type \in types THEN NoItem ELSE items[type]]

\* What a line should be: so many tickets, at a price that the type had.
IsSoundLine(line, type) == ~line.part /\ line.price \in Prices[type]

LinesOf(items) == {type \in TicketTypes : items[type] # NoItem}
IsSoundCart(items) == \A type \in LinesOf(items) : IsSoundLine(items[type], type)

\* The totals of a sound cart; those of others are sums of fractions, or no numbers.
Subtotal(items, type) == items[type].quantity * items[type].price
EventTotal(items, event) ==
  FoldSet(LAMBDA type, sum : sum + Subtotal(items, type), 0, {type \in LinesOf(items) : EventOf[type] = event})
TotalsByCurrency(items) ==
  [c \in {CurrencyOf[EventOf[type]] : type \in LinesOf(items)} |->
     FoldSet(LAMBDA type, sum : sum + Subtotal(items, type), 0,
             {type \in LinesOf(items) : CurrencyOf[EventOf[type]] = c})]

\* isValidCartItem: the quantity is a number within the limit, and there is a ticket type.
HasTickets(item) == item # NoItem /\ (item.quantity > 0 \/ (item.quantity = 0 /\ item.part))
IsBelowMax(item) == HasTickets(item) /\ item.quantity < MAX_PER_TYPE       \* mutated form
IsValidCartItem(item) ==
  HasTickets(item) /\ (item.quantity < MAX_PER_TYPE \/ (item.quantity = MAX_PER_TYPE /\ ~item.part))

\* loadInitialState: a line that is no line is left out.
LoadInitialState(items) ==
  [type \in TicketTypes |-> IF IsValidCartItem(items[type]) THEN items[type] ELSE NoItem]

-----------------------------------------------------------------------------
(* CartProvider. *)

IsOpen(t) == tabs[t] # NoTab
\* React runs the effects of the render before it renders again.
Dispatch(t, items) ==
  /\ t \in saved /\ tabs' = [tabs EXCEPT ![t] = items] /\ saved' = saved \ {t}
  /\ UNCHANGED <<stored, writer, price>>

AddItem(t, type, quantity) ==
  IsOpen(t) /\ Dispatch(t, Added(tabs[t], type, IF quantity < 1 THEN 1 ELSE quantity))
UpdateQuantity(t, type, quantity) == IsOpen(t) /\ Dispatch(t, Updated(tabs[t], type, quantity))
RemoveItem(t, type) == IsOpen(t) /\ Dispatch(t, Removed(tabs[t], {type}))
ClearEvent(t, event) == IsOpen(t) /\ Dispatch(t, Removed(tabs[t], {type \in TicketTypes : EventOf[type] = event}))
ClearCart(t) == IsOpen(t) /\ Dispatch(t, EmptyCart)

Save(t) ==
  /\ IsOpen(t) /\ t \notin saved /\ saved' = saved \cup {t}
  /\ stored' = tabs[t] /\ writer' = t
  /\ UNCHANGED <<tabs, price>>

\* A tab is opened, or loaded again; its first render saves what it loaded.
OpenTab(t) ==
  /\ tabs' = [tabs EXCEPT ![t] = LoadInitialState(stored)] /\ saved' = saved \ {t}
  /\ UNCHANGED <<stored, writer, price>>
CloseTab(t) ==
  /\ IsOpen(t) /\ tabs' = [tabs EXCEPT ![t] = NoTab] /\ saved' = saved \ {t}
  /\ UNCHANGED <<stored, writer, price>>

Reprice(type) ==
  /\ price' \in {[price EXCEPT ![type] = p] : p \in Prices[type] \ {price[type]}}
  /\ UNCHANGED <<tabs, saved, stored, writer>>

CartInit ==
  /\ tabs = [t \in Tabs |-> NoTab] /\ saved = {}
  /\ stored \in StoredCarts /\ found = stored /\ writer = NoTab
  /\ price = [type \in TicketTypes |-> CHOOSE p \in Prices[type] : TRUE]
  /\ budget = Budget

CartNext ==
  \/ UNCHANGED <<budget, found>> /\ \E t \in Tabs : Save(t)
  \/ /\ budget > 0 /\ budget' = budget - 1 /\ UNCHANGED found
     /\ \/ \E t \in Tabs :
             \/ \E type \in TicketTypes :
                  \/ \E quantity \in 0..MAX_PER_TYPE + 1 : AddItem(t, type, quantity) \/ UpdateQuantity(t, type, quantity)
                  \/ RemoveItem(t, type)
             \/ \E event \in Events : ClearEvent(t, event)
             \/ ClearCart(t) \/ OpenTab(t) \/ CloseTab(t)
        \/ \E type \in TicketTypes : Reprice(type)

\* Another form is open.
CartClosed ==
  /\ tabs = [t \in Tabs |-> NoTab] /\ saved = {} /\ stored = EmptyCart /\ found = EmptyCart
  /\ writer = NoTab
  /\ price = [type \in TicketTypes |-> CHOOSE p \in Prices[type] : TRUE]
  /\ budget = Budget

-----------------------------------------------------------------------------
(* Properties. *)

\* Part and price of a line are as they should be, or as they are in items.
ComesFrom(line, type, items) ==
  /\ line.part => (items[type] # NoItem /\ items[type].part)
  /\ line.price \in Prices[type] \/ (items[type] # NoItem /\ line.price = items[type].price)

\* The carts keep their types: whatever localStorage held, no line of an open tab is of
\* nothing or of more than one may buy, and what is wrong with one otherwise was found in
\* localStorage, and is of this ticket type (cartReducer, loadInitialState).
CartTypeOK ==
  /\ \A t \in Tabs : IsOpen(t) => \A type \in LinesOf(tabs[t]) :
       IsValidCartItem(tabs[t][type]) /\ ComesFrom(tabs[t][type], type, found)
  /\ saved \subseteq {t \in Tabs : IsOpen(t)} /\ budget \in 0..Budget

\* Not kept, and checked by no run (TLC refutes it when BuyerForms.cfg lists it).
\* use-cart.tsx:47: the actual type of every field that the reducer and the checkout rely on
\* is checked.  A quantity that is not whole passes, and nothing looks at the price.
LoadedLinesAreSound == \A t \in Tabs : IsOpen(t) => IsSoundCart(tabs[t])

\* A tab that wrote last would find, loaded again, the cart it shows: no line is refused that
\* the reducer makes, at the limit of a line either.
CartSurvivesReload ==
  \A t \in saved : writer = t => LoadInitialState(stored) = tabs[t]

\* The totals of the events in a currency add up to the total of the currency, also when the
\* price of a ticket type has changed between two lines.  Of carts whose lines are sound.
TotalsAgree ==
  \A t \in Tabs : IsOpen(t) /\ IsSoundCart(tabs[t]) =>
    \A c \in DOMAIN TotalsByCurrency(tabs[t]) :
      TotalsByCurrency(tabs[t])[c] =
        FoldSet(LAMBDA event, sum : sum + EventTotal(tabs[t], event), 0,
                {event \in Events : CurrencyOf[event] = c})

\* What is displayed of a total, typed again, is that total: in a currency without a minor
\* unit, with three digits of it, below one major unit.  Of carts whose lines are sound.
AmountsReadBack ==
  \A t \in Tabs : IsOpen(t) /\ IsSoundCart(tabs[t]) =>
    \A c \in DOMAIN TotalsByCurrency(tabs[t]) :
      LET total == TotalsByCurrency(tabs[t])[c]
      IN MajorStringToMinor(MinorToMajorString(total, c), c) = total

\* The cart, whatever the other tabs wrote: its lines are within the limit, and sound unless
\* they were not when they were found; they survive a reload; and if all of them are sound,
\* the totals agree and can be read back.
CartIsSound == CartTypeOK /\ CartSurvivesReload /\ TotalsAgree /\ AmountsReadBack
=============================================================================
