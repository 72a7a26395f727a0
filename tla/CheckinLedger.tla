---------------------------- MODULE CheckinLedger ----------------------------
(***************************************************************************)
(* What the check-in journal promises, without its concurrency: batches of *)
(* operations are journaled one after the other, and each one leaves       *)
(* station_consumptions and scan_conflicts as the ranking of the claims    *)
(* journaled so far says.  CheckinService, where handlers interleave, is   *)
(* proved to implement this specification.                                 *)
(*                                                                         *)
(* A journal row is named by its operation (operation_id is unique, so     *)
(* log_id and operation_id are in bijection), and a consumption or a       *)
(* conflict refers to a row by the same name.                              *)
(***************************************************************************)
EXTENDS CheckinDomain

CONSTANTS
  Operations,         \* operation ids
  Terminals,          \* terminals
  Groups,             \* (ticket, station) pairs
  Times,              \* corrected instants
  MaxUses,            \* max_uses of each group
  Slots,              \* every use_index that a rule allows
  NoLog, NoConflict,  \* no row
  MaxBatch            \* cfg.sync_max_batch

VARIABLES
  logs,               \* scan_logs, keyed by operation_id
  consumptions,       \* station_consumptions: the operation of winning_log_id
  conflicts,          \* scan_conflicts, keyed by the operation of losing_log_id
  acknowledged        \* operations whose conflict a supervisor has closed

vars == <<logs, consumptions, conflicts, acknowledged>>

\* "claim"   : admitted by the terminal, and nothing against it;
\* "refused" : admitted by the terminal, but not eligible (verdict says why);
\* "evidence": the terminal (or the server, online) admitted nobody.
Entry ==
  [group : Groups, terminal : Terminals, at : Times, suspect : BOOLEAN,
   kind : {"claim", "evidence"}, verdict : {"none"}]
  \cup
  [group : Groups, terminal : Terminals, at : Times, suspect : BOOLEAN,
   kind : {"refused"}, verdict : {"LATE_REVOKED", "NOT_AUTHORIZED_SERVER_SIDE"}]

Conflict ==
  [winner : Operations \cup {NoOp},
   type   : {"CROSS_TERMINAL_DOUBLE_ADMISSION", "SAME_TERMINAL_REPLAY", "LATE_REVOKED",
             "NOT_AUTHORIZED_SERVER_SIDE", "CLOCK_SUSPECT"},
   clock  : BOOLEAN]

ASSUME LedgerAssumption ==
  /\ Operations \subseteq Nat /\ IsFiniteSet(Operations)
  /\ Times \subseteq Int
  /\ MaxUses \in [Groups -> Nat]
  /\ \A g \in Groups : 0 .. (MaxUses[g] - 1) \subseteq Slots
  /\ Slots \subseteq Nat
  /\ MaxBatch \in Nat
  /\ NoLog \notin Entry /\ NoConflict \notin Conflict

-----------------------------------------------------------------------------
(* Reading the journal. *)

IsClaim(journal, o, g) ==
  journal[o] # NoLog /\ journal[o].group = g /\ journal[o].kind = "claim"

ClaimOf(journal, o) ==
  [op |-> o, terminal |-> journal[o].terminal, at |-> journal[o].at,
   suspect |-> journal[o].suspect]

\* fetch_claims for one group.
ClaimsOf(journal, g) ==
  {ClaimOf(journal, o) : o \in {p \in Operations : IsClaim(journal, p, g)}}

\* The journal once the rows `new` (a function from operations) are inserted.
Journal(new) ==
  [o \in Operations |-> IF o \in DOMAIN new THEN new[o] ELSE logs[o]]

\* Only the groups that received a claim are resolved again.
Touched(new) ==
  {g \in Groups : \E o \in DOMAIN new : new[o].group = g /\ new[o].kind = "claim"}

-----------------------------------------------------------------------------
TypeOK ==
  /\ logs \in [Operations -> Entry \cup {NoLog}]
  /\ consumptions \in [Groups -> [Slots -> Operations \cup {NoOp}]]
  /\ conflicts \in [Operations -> Conflict \cup {NoConflict}]
  /\ acknowledged \subseteq Operations

Init ==
  /\ logs = [o \in Operations |-> NoLog]
  /\ consumptions = [g \in Groups |-> [i \in Slots |-> NoOp]]
  /\ conflicts = [o \in Operations |-> NoConflict]
  /\ acknowledged = {}

\* Mutated forms, which the properties below must refuse.  The first keeps the
\* holder that arrived first (ON CONFLICT DO NOTHING); the second ranks the
\* claims of the uploading terminal only.
UpsertConsumptionsKeepsFirst(new) ==
  consumptions' =
    [g \in Groups |-> [i \in Slots |->
       LET holder == HolderAt(ClaimsOf(Journal(new), g), MaxUses[g], i)
       IN  IF g \in Touched(new) /\ consumptions[g][i] = NoOp THEN holder
           ELSE consumptions[g][i]]]

UpsertConsumptionsOwnTerminal(new) ==
  consumptions' =
    [g \in Groups |-> [i \in Slots |->
       LET own    == {c \in ClaimsOf(Journal(new), g) :
                        \E o \in DOMAIN new : new[o].terminal = c.terminal}
           holder == HolderAt(own, MaxUses[g], i)
       IN  IF g \in Touched(new) /\ holder # NoOp THEN holder ELSE consumptions[g][i]]]

\* upsert_consumptions: the slots that the resolution fills are rewritten, the
\* others keep their row.
UpsertConsumptions(new) ==
  consumptions' =
    [g \in Groups |-> [i \in Slots |->
       LET holder == HolderAt(ClaimsOf(Journal(new), g), MaxUses[g], i)
       IN  IF g \in Touched(new) /\ holder # NoOp THEN holder ELSE consumptions[g][i]]]

\* Mutated forms: a holder that a later batch displaced is forgotten; the winner named
\* first is kept.
UpsertConflictsOfNewRows(new) ==
  conflicts' =
    [o \in Operations |->
       LET g      == Journal(new)[o].group
           claims == ClaimsOf(Journal(new), g)
           claim  == ClaimOf(Journal(new), o)
       IN  IF o \notin DOMAIN new THEN conflicts[o]
           ELSE IF new[o].kind = "claim" /\ claim \in Disputed(claims, MaxUses[g])
           THEN ConflictSpec(claim, claims, MaxUses[g])
           ELSE IF new[o].kind = "refused"
           THEN [winner |-> NoOp, type |-> new[o].verdict, clock |-> new[o].suspect]
           ELSE conflicts[o]]

UpsertConflictsKeepsFirst(new) ==
  conflicts' =
    [o \in Operations |->
       LET g      == Journal(new)[o].group
           claims == ClaimsOf(Journal(new), g)
           claim  == ClaimOf(Journal(new), o)
       IN  IF conflicts[o] # NoConflict \/ Journal(new)[o] = NoLog THEN conflicts[o]
           ELSE IF /\ g \in Touched(new)
                   /\ IsClaim(Journal(new), o, g)
                   /\ claim \in Disputed(claims, MaxUses[g])
           THEN ConflictSpec(claim, claims, MaxUses[g])
           ELSE IF o \in DOMAIN new /\ new[o].kind = "refused"
           THEN [winner |-> NoOp, type |-> new[o].verdict, clock |-> new[o].suspect]
           ELSE conflicts[o]]

\* upsert_conflicts: the specs of the resolved groups and the refused rows; a
\* conflict that is not mentioned keeps its row.
UpsertConflicts(new) ==
  conflicts' =
    [o \in Operations |->
       LET g      == Journal(new)[o].group
           claims == ClaimsOf(Journal(new), g)
           claim  == ClaimOf(Journal(new), o)
       IN  IF /\ Journal(new)[o] # NoLog
              /\ g \in Touched(new)
              /\ IsClaim(Journal(new), o, g)
              /\ claim \in Disputed(claims, MaxUses[g])
           THEN ConflictSpec(claim, claims, MaxUses[g])
           ELSE IF o \in DOMAIN new /\ new[o].kind = "refused"
           THEN [winner |-> NoOp, type |-> new[o].verdict, clock |-> new[o].suspect]
           ELSE conflicts[o]]

-----------------------------------------------------------------------------
\* One committed transaction of online_scan or sync_batch.
Record(new) ==
  /\ \A o \in DOMAIN new : /\ logs[o] = NoLog
                           /\ new[o].kind = "claim" => MaxUses[new[o].group] > 0
  /\ \A o, p \in DOMAIN new : new[o].terminal = new[p].terminal
  /\ logs' = Journal(new)
  /\ UpsertConsumptions(new)
  /\ UpsertConflicts(new)
  /\ UNCHANGED acknowledged

\* A supervisor acknowledges a conflict; doing it again changes nothing.
Acknowledge(o) ==
  /\ conflicts[o] # NoConflict
  /\ acknowledged' = acknowledged \cup {o}
  /\ UNCHANGED <<logs, consumptions, conflicts>>

Next ==
  \/ \E N \in SUBSET {o \in Operations : logs[o] = NoLog} :
       /\ N # {} /\ Cardinality(N) <= MaxBatch
       /\ \E new \in [N -> Entry] : Record(new)
  \/ \E o \in Operations : Acknowledge(o)

Spec == Init /\ [][Next]_vars
-----------------------------------------------------------------------------
(* Properties. *)

\* The slots of a group are held by its first max_uses claims, in rank order,
\* whatever the batches they came in (resolve, upsert_consumptions).
ConsumptionsFollowRanking ==
  \A g \in Groups : \A i \in Slots :
    consumptions[g][i] = HolderAt(ClaimsOf(logs, g), MaxUses[g], i)

\* A claim without a slot has the conflict row that resolve computes from all the
\* claims of today, even if it held a slot when it was journaled, or lost to
\* another one then (resolve, upsert_conflicts).
LosersAreReported ==
  \A g \in Groups : \A c \in Losers(ClaimsOf(logs, g), MaxUses[g]) :
    conflicts[c.op] = ConflictSpec(c, ClaimsOf(logs, g), MaxUses[g])

HoldsSlot(o) == \E g \in Groups : \E i \in Slots : consumptions[g][i] = o

\* A conflict other than a request to look at the clock of a holder.
LostOrRefused(o) == conflicts[o] # NoConflict /\ conflicts[o].type # "CLOCK_SUSPECT"

\* Nobody who was let in goes unnoticed: a row whose terminal admitted somebody
\* either holds a slot or has a conflict, never both, and a row that admitted
\* nobody has neither (sync_batch: resolutions, then the refused rows).
AdmittedAreAccountedFor ==
  \A o \in Operations :
    IF logs[o] # NoLog /\ logs[o].kind # "evidence"
    THEN HoldsSlot(o) <=> ~LostOrRefused(o)
    ELSE ~HoldsSlot(o) /\ conflicts[o] = NoConflict

\* Once a claim has lost its slot, no later batch gives it one back (ADR-001,
\* "Monotonie").
LosersStayLosers ==
  [][\A o \in Operations : LostOrRefused(o) => LostOrRefused(o)' /\ ~HoldsSlot(o)']_vars

\* No conflict row is ever deleted, so an acknowledged one can still be read
\* (upsert_conflicts never deletes; acknowledge_conflict).
ConflictsAreKept ==
  [][\A o \in Operations :
       /\ conflicts[o] # NoConflict => conflicts'[o] # NoConflict
       /\ o \in acknowledged => o \in acknowledged' /\ conflicts[o] # NoConflict]_vars
=============================================================================
