---------------------------- MODULE MCAdministration ----------------------------
(***************************************************************************)
(* Instance: a festival with a free student pass and a VIP pass of which   *)
(* one of two is sold, or a table with a goodie only; three people, two of *)
(* them owners or not; two orders, the first paid and scanned once.        *)
(***************************************************************************)
EXTENDS Administration

CONSTANTS p1, p2, p3, ann, bob, cid, i1, i2

MCOfficialPrice == [student |-> 0, standard |-> 1, vip |-> 2]
Pass(tier, kind, sold, total) ==
  [tier |-> tier, kind |-> kind, name |-> tier, description |-> tier, status |-> "active",
   price |-> IF tier \in DOMAIN MCOfficialPrice THEN MCOfficialPrice[tier] ELSE 2,
   total |-> total, sold |-> sold]
MCCatalogues ==
  {[i \in Passes |-> CASE i = p1 -> Pass("student", "ticket", 0, 0)
                       [] i = p2 -> Pass("vip", "ticket", 1, 2) [] OTHER -> NoPass],
   [i \in Passes |-> IF i = p1 THEN Pass("none", "goodie", 0, 2) ELSE NoPass]}
MCChanges == {[price |-> 1, total |-> 1], [tier |-> "student"]}

MCTeams ==
  {[p \in People |-> IF p = cid THEN "none" ELSE "owner"],
   [p \in People |-> CASE p = ann -> "owner" [] p = bob -> "admin" [] OTHER -> "scanner"]}
MCInvitations ==
  {[i \in Invites |-> IF i = i1 THEN [email |-> cid, role |-> "scanner", status |-> "pending"]
                      ELSE [email |-> "none", role |-> "none", status |-> "free"]]}

MCFound == [t \in {"", "ab"} |-> IF t = "" THEN {1, 2} ELSE {1}]
MCPassTier == [o \in {1, 2} |-> IF o = 1 THEN "student" ELSE "vip"]
MCSales == {[o \in {1, 2} |-> IF o = 1 THEN [status |-> "paid", scan |-> "once"]
                              ELSE [status |-> "pending", scan |-> "none"]]}

MCQuota == [student |-> 0, vip |-> 2]
MCCreatedAt == [o \in {1, 2} |-> IF o = 1 THEN 7 ELSE 21]
MCDashboardSales == {[o \in {1, 2} |-> IF o = 1 THEN "paid" ELSE "pending"]}

MCExportSales ==
  {[o \in {1, 2} |-> IF o = 1 THEN first ELSE "none"] : first \in {"none", "paid", "entered"}}

MCBudgets ==
  [first |-> 2, catalog |-> 2, team |-> 2, lists |-> 2, dashboard |-> 2, exports |-> 3]
=============================================================================
