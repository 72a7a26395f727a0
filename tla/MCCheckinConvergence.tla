------------------------- MODULE MCCheckinConvergence -------------------------
(***************************************************************************)
(* TLC instance of CheckinConvergence: one group that may be used once.    *)
(***************************************************************************)
EXTENDS CheckinConvergence, TLC

CONSTANT entry

MCMaxUses == entry :> 1

\* Every claim, and one row of each other kind.
MCContents ==
  [group : {entry}, terminal : Terminals, at : Times, suspect : BOOLEAN,
   kind : {"claim"}, verdict : {"none"}]
  \cup
  [group : {entry}, terminal : Terminals, at : {1}, suspect : {FALSE},
   kind : {"evidence"}, verdict : {"none"}]
  \cup
  [group : {entry}, terminal : Terminals, at : {1}, suspect : {FALSE},
   kind : {"refused"}, verdict : {"LATE_REVOKED"}]

\* Terminals are only compared for equality.
Symmetry == Permutations(Terminals)
=============================================================================
