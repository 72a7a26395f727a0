------------------------------ MODULE MCScanner ------------------------------
(***************************************************************************)
(* TLC instance of Scanner: two events, a ticket of each.                  *)
(***************************************************************************)
EXTENDS Scanner, TLC

CONSTANTS here, there, k1, k2, key, forger

MCEventOf == [k \in Tickets |-> IF k = k2 THEN there ELSE here]
MCKeys == [kid \in {"kid1", "kid2"} |-> IF kid = "kid1" THEN key ELSE BrokenKey]

Good(k) == [form |-> "ok", kid |-> "kid1", signer |-> key, v |-> 1, tid |-> k,
            eid |-> MCEventOf[k], nbf |-> 0, exp |-> 0]

\* A valid token of each ticket, and one signed by somebody else with an id nobody issued.
Tokens ==
  {Good(k1), Good(k2),
   [Good(k1) EXCEPT !.signer = forger, !.tid = "unissued", !.eid = there]}

\* A queue of version 1: one clock cannot be read.
Old(event, k, at, sent) ==
  [event |-> event, ticket |-> k, result |-> "admitted", at |-> at, seq |-> 0,
   synced |-> sent, asof |-> 0, indexed |-> FALSE]

Queues ==
  {[i \in {2, 3} |-> IF i = 2 THEN Old(here, k1, 0, FALSE) ELSE Old(there, k2, 2, TRUE)]}

\* The run explores two bounded scenarios: uploads and the database, with the bundle
\* of the start; and the freshness of bundles, with one scan and nothing uploaded.
Scanned == {i \in DOMAIN rows : born[i] # 0}
Scenario ==
  \/ /\ \A e \in Events : bundles[e] = NoBundle \/ bundles[e].issued = 0
     /\ server.revoked = [k \in Tickets |-> 0]
     /\ \A k \in Tickets : server.winner[k] # Elsewhere
     /\ \A i \in Scanned : rows[i].ticket = k1
  \/ wire = {} /\ Cardinality(Scanned) <= 1

Symmetry == Permutations(Tabs)
=============================================================================
