--------------------------- MODULE MCCheckinLedger ---------------------------
(***************************************************************************)
(* TLC instance of CheckinLedger: three operations of two terminals on a   *)
(* group that may be used once and on one that may be used twice.          *)
(***************************************************************************)
EXTENDS CheckinLedger, TLC

CONSTANTS entry, food

MCMaxUses == entry :> 1 @@ food :> 2

\* Terminals are only compared for equality.
Symmetry == Permutations(Terminals)
=============================================================================
