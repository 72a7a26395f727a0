------------------------------- MODULE MCOrders -------------------------------
(***************************************************************************)
(* TLC instances of Orders.                                                *)
(***************************************************************************)
EXTENDS Orders, TLC

CONSTANTS standard, vip, student, mug, ann, bob

MCTotals == [t \in Types |-> IF t = mug THEN 0 ELSE 1]
MCMaxPerOrder == [t \in Types |-> IF t = student THEN 1 ELSE 0]

Line(type, count) == [type |-> type, count |-> count]
Cart(email, by, lines) == [kind |-> "create", email |-> email, provider |-> by, lines |-> lines]
On(kind) == [kind |-> kind]
Edit(type, n, active) == [kind |-> "edit", type |-> type, total |-> n, active |-> active]

\* Orders that compete for stock and for an email, everything that may happen to
\* their payments, and an organizer.
SaleInputs ==
  {Cart(ann, "fedapay", <<Line(vip, 1)>>),
   Cart(ann, "manual", <<Line(standard, 1), Line(mug, 1)>>),
   Cart(bob, "manual", <<Line(student, 1), Line(standard, 1)>>),
   Cart(bob, "fedapay", <<Line(student, 2)>>),
   Cart(bob, "manual", <<Line(mug, 1), Line(mug, 1)>>),
   Cart(bob, "manual", <<Line(standard, 1), Line(standard, 1)>>),
   Cart(bob, "fedapay", <<Line(student, 1)>>),
   On("verify"), On("webhook"), On("paid"), On("failed"),
   Edit(student, 0, FALSE), Edit(standard, 0, TRUE)}

\* A FedaPay order and its webhook, which is delivered again until it is answered 200.
WebhookInputs == {Cart(ann, "fedapay", <<Line(standard, 1)>>), On("webhook")}

Symmetry == Permutations(Requests)
=============================================================================
