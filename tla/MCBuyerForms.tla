------------------------------ MODULE MCBuyerForms ------------------------------
(***************************************************************************)
(* Instance.  Registration: a new form; an old draft whose step is out of  *)
(* bounds; drafts filled in up to the confirmation, one without its city,  *)
(* one of somebody who wants no news, one whose answer of too many letters *)
(* is no longer asked, and others with, between them, every choice that is *)
(* offered.                                                                *)
(*                                                                         *)
(* Cart: three events, in currencies of two, no and three digits after the *)
(* point, the first with two ticket types; two tabs; a cart of another     *)
(* version, with a line of nothing and one of too many; and one that was   *)
(* edited, with quantities that are not whole and prices that are none.    *)
(***************************************************************************)
EXTENDS BuyerForms

\* One choice after the other, and again.
Nth(k, offered) ==
  LET after[i \in 0 .. 13] ==
        IF i = 0 THEN offered
        ELSE LET left == after[i - 1]
                 rest == left \ {CHOOSE x \in left : TRUE}
             IN IF rest = {} THEN offered ELSE rest
  IN CHOOSE x \in after[k] : TRUE
Filled(k) ==
  [f \in Fields |-> CASE f \in Lists -> {Nth(k, ListOptions[f])}
                     [] f \in OfferedChoices -> Nth(k, Options[f])
                     [] f \in Flags -> FALSE
                     [] f = "email" -> "Address"
                     [] OTHER -> "padded"]
MCDrafts ==
  {NoDraft, [values |-> EmptyForm, step |-> 9],
   [values |-> [Filled(1) EXCEPT !["city"] = "blank"], step |-> 7]}
  \cup {[values |-> [Filled(2) EXCEPT !["stay_informed"] = "no", !["preferred_channel"] = ""],
          step |-> 6]}
  \cup {[values |-> [Filled(3) EXCEPT !["prior_participation"] = "first_time",
                                      !["prior_liked"] = "long"], step |-> 7]}
  \cup {[values |-> Filled(k), step |-> 6] : k \in 1 .. 13}

CONSTANTS a, b, c, d

MCEventOf == [type \in TicketTypes |-> CASE type = c -> "tour" [] type = d -> "gala" [] OTHER -> "fest"]
MCCurrencyOf == [event \in Events |-> CASE event = "tour" -> "XOF" [] event = "gala" -> "KWD" [] OTHER -> "EUR"]
MCPrices == [type \in TicketTypes |-> CASE type = a -> {5, 120} [] type = b -> {99} [] type = c -> {1500} [] OTHER -> {7}]
MCLine(n, part, p) == [quantity |-> n, part |-> part, price |-> p]
MCStoredCarts ==
  {[type \in TicketTypes |-> NoItem],
   [type \in TicketTypes |-> CASE type = a -> MCLine(0, FALSE, 5) [] type = b -> MCLine(2, FALSE, 99)
                               [] type = c -> MCLine(3, FALSE, 1500) [] OTHER -> NoItem],
   [type \in TicketTypes |-> CASE type = a -> MCLine(1, TRUE, 5) [] type = b -> MCLine(2, TRUE, 99)
                               [] type = c -> MCLine(1, FALSE, NoPrice) [] OTHER -> MCLine(0, TRUE, -7)]}
=============================================================================
