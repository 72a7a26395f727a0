---------------------------- MODULE MCStorefront ----------------------------
(***************************************************************************)
(* TLC instance of Storefront: one or two addresses, two submissions, two  *)
(* mounts of a page.                                                       *)
(***************************************************************************)
EXTENDS Storefront, TLC

MCLinks == {[slug |-> "nexus", pass |-> "student"], [slug |-> "autre", pass |-> "gratuit"],
            [slug |-> "", pass |-> ""]}

\* A refusal in English: "sold out".
MCServerErrors == {Error(TRUE, "conflict", 409, "plain")}

=============================================================================
