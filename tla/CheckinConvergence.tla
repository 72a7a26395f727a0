-------------------------- MODULE CheckinConvergence --------------------------
(***************************************************************************)
(* Two servers that are given the same batches, each in an order of its    *)
(* own: the setting of the convergence claim of ADR-001 (and of the test   *)
(* test_every_arrival_order_of_four_terminals_gives_the_same_outcome).     *)
(* Each side is a CheckinLedger.                                           *)
(***************************************************************************)
EXTENDS CheckinDomain

CONSTANTS Operations, Terminals, Groups, Times, MaxUses, Slots, NoLog, NoConflict, MaxBatch,
  Contents            \* what an operation may say: a set of journal entries

VARIABLES
  content,            \* what each operation says
  batch,              \* the batch each operation travels in, named by its smallest operation
  logs, consumptions, conflicts, acknowledged,
  logs2, consumptions2, conflicts2, acknowledged2

input == <<content, batch>>
left  == <<logs, consumptions, conflicts, acknowledged>>
right == <<logs2, consumptions2, conflicts2, acknowledged2>>
vars  == <<input, left, right>>

Left  == INSTANCE CheckinLedger
Right == INSTANCE CheckinLedger WITH
           logs <- logs2, consumptions <- consumptions2,
           conflicts <- conflicts2, acknowledged <- acknowledged2

ASSUME ConvergenceAssumption ==
  /\ Operations \subseteq Nat /\ IsFiniteSet(Operations)
  /\ Times \subseteq Int
  /\ MaxUses \in [Groups -> Nat]
  /\ \A g \in Groups : 0 .. (MaxUses[g] - 1) \subseteq Slots
  /\ Slots \subseteq Nat
  /\ MaxBatch \in Nat
  /\ Contents \subseteq Left!Entry
  /\ NoLog \notin Left!Entry /\ NoConflict \notin Left!Conflict

Rows(b) == [o \in {p \in Operations : batch[p] = b} |-> content[o]]

Init ==
  /\ content \in [Operations -> Contents]
  /\ batch \in [Operations -> Operations]
  /\ \A o \in Operations : batch[o] <= o /\ batch[batch[o]] = batch[o]
  /\ \A o, p \in Operations :
       batch[o] = batch[p] => content[o].terminal = content[p].terminal
  /\ Left!Init
  /\ Right!Init

ReceiveLeft(b)  == Rows(b) # << >> /\ Left!Record(Rows(b))  /\ UNCHANGED <<input, right>>
ReceiveRight(b) == Rows(b) # << >> /\ Right!Record(Rows(b)) /\ UNCHANGED <<input, left>>

Next == \E b \in Operations : ReceiveLeft(b) \/ ReceiveRight(b)

Spec == Init /\ [][Next]_vars

-----------------------------------------------------------------------------
SameLogs == logs = logs2

\* The same journal gives the same station_consumptions, whatever the order the
\* batches arrived in (resolve depends on the set of claims only).
ConsumptionsConverge == SameLogs => consumptions = consumptions2

\* The same journal gives the same conflict to every operation that lost or was
\* refused: type, winner and clock flag.
LostOrRefusedConverge ==
  SameLogs => \A o \in Operations :
                Left!LostOrRefused(o) \/ Right!LostOrRefused(o) => conflicts[o] = conflicts2[o]

\* Not kept, and checked by no run: ADR-001, "Consequences", says that all arrival orders of
\* the same batches give the same scan_conflicts too.  A CLOCK_SUSPECT row written early is
\* never withdrawn; TLC refutes it when CheckinConvergence.cfg lists it.
ConflictsConverge == SameLogs => conflicts = conflicts2
=============================================================================
