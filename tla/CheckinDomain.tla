---------------------------- MODULE CheckinDomain ----------------------------
(***************************************************************************)
(* The pure rules of the check-in module (backend/checkin/domain.py): who  *)
(* may claim a consumption, how a device time is corrected, and how the    *)
(* claimants of one (ticket, station) group are ranked.  The module has no *)
(* state; CheckinLedger and CheckinService are built from it.              *)
(*                                                                         *)
(* Data.  An operation_id is a UUID of which only equality and the order   *)
(* of its text are used: it is a natural number here.  Instants are        *)
(* integers.  Everything else that is only compared is a member of a set.  *)
(***************************************************************************)
EXTENDS Integers, FiniteSets

CONSTANTS
  NoOp,               \* SQL NULL in a column that holds an operation (a log_id)
  NoTime,             \* voided_at IS NULL
  OffsetMax,          \* ClockThresholds.offset_max
  FutureTolerance,    \* ClockThresholds.future_tolerance
  MaxAge              \* ClockThresholds.max_age

ASSUME DomainAssumption ==
  /\ NoOp \notin Nat
  /\ NoTime \notin Int
  /\ OffsetMax \in Nat
  /\ FutureTolerance \in Nat
  /\ MaxAge \in Nat

-----------------------------------------------------------------------------
(* Station rules. *)

DefaultStation == "EVENT_ENTRY"

\* How often `station` may be consumed under `explicit`, a function from the
\* stations that have a rule to max_uses.
AllowedMaxUses(station, explicit) ==
  IF station \in DOMAIN explicit THEN explicit[station]
  ELSE IF station = DefaultStation THEN 1 ELSE 0

-----------------------------------------------------------------------------
(* Eligibility: what one operation says of itself, whatever is consumed.   *)

Eligible(uses) ==
  [eligible |-> TRUE, decision |-> "valid", max_uses |-> uses, conflict |-> "none"]

Ineligible(decision, conflict) ==
  [eligible |-> FALSE, decision |-> decision, max_uses |-> 0, conflict |-> conflict]

\* `ticket` is a set with at most one TicketFacts: the row load_tickets found.
\* `capability` is "true", "false" or "none" (capability_verified).
CheckEligibility(ticket, event, station, explicit, at, capability) ==
  LET facts  == CHOOSE t \in ticket : TRUE
      uses   == AllowedMaxUses(station, explicit)
      voided == /\ facts.status # "valid"
                /\ facts.voided_at = NoTime \/ facts.voided_at <= at
  IN  CASE ticket = {}           -> Ineligible("unknown", "NOT_AUTHORIZED_SERVER_SIDE")
        [] ticket # {} /\ facts.event # event
                                 -> Ineligible("wrong_event", "NOT_AUTHORIZED_SERVER_SIDE")
        [] ticket # {} /\ facts.event = event /\ capability = "false"
                                 -> Ineligible("invalid", "NOT_AUTHORIZED_SERVER_SIDE")
        [] ticket # {} /\ facts.event = event /\ capability # "false" /\ voided
                                 -> Ineligible("revoked", "LATE_REVOKED")
        [] OTHER                 -> IF uses > 0 THEN Eligible(uses)
                                    ELSE Ineligible("not_authorized",
                                                    "NOT_AUTHORIZED_SERVER_SIDE")

-----------------------------------------------------------------------------
(* Clock correction, once per batch. *)

CorrectClock(evaluated, sent, received) ==
  LET offset    == received - sent
      corrected == evaluated + offset
  IN  [at      |-> corrected,
       suspect |-> \/ offset > OffsetMax
                   \/ -offset > OffsetMax
                   \/ corrected > received + FutureTolerance
                   \/ corrected < received - MaxAge]

-----------------------------------------------------------------------------
(* Claims of one group, and their ranking. *)

Claim(Operations, Terminals, Times) ==
  [op : Operations, terminal : Terminals, at : Times, suspect : BOOLEAN]

\* Claim.sort_key: non-suspect first, then oldest, then operation_id.
Before(c, d) ==
  \/ ~c.suspect /\ d.suspect
  \/ c.suspect = d.suspect /\ c.at < d.at
  \/ c.suspect = d.suspect /\ c.at = d.at /\ c.op < d.op

\* The position of c in sorted(claims, key=sort_key).
Rank(c, claims) == Cardinality({d \in claims : Before(d, c)})

\* assigned = ranking[:max(max_uses, 0)]; the claim of rank i holds use_index i.
Assigned(claims, uses) == {c \in claims : Rank(c, claims) < uses}

Losers(claims, uses) == claims \ Assigned(claims, uses)

\* The holder of the last slot: the one every loser was beaten by.
Reference(claims, uses) ==
  CHOOSE c \in Assigned(claims, uses) :
    \A d \in Assigned(claims, uses) : d = c \/ Before(d, c)

ClassifyLoser(loser, winner) ==
  IF loser.terminal = winner.terminal THEN "SAME_TERMINAL_REPLAY"
  ELSE "CROSS_TERMINAL_DOUBLE_ADMISSION"

\* The operation that resolve assigns to use_index i; NoOp when it assigns none.
HolderAt(claims, uses, i) ==
  LET at == {c \in Assigned(claims, uses) : Rank(c, claims) = i}
  IN  IF at = {} THEN NoOp ELSE (CHOOSE c \in at : TRUE).op

\* The claims for which resolve emits a ConflictSpec.
Disputed(claims, uses) ==
  IF Assigned(claims, uses) = {} THEN {}
  ELSE IF Losers(claims, uses) # {} THEN Losers(claims, uses)
  ELSE {c \in claims : c.suspect}

\* The ConflictSpec emitted for a disputed claim.
ConflictSpec(c, claims, uses) ==
  IF c \in Losers(claims, uses)
  THEN LET winner == Reference(claims, uses)
       IN  [winner |-> winner.op, type |-> ClassifyLoser(c, winner),
            clock  |-> c.suspect \/ winner.suspect]
  ELSE [winner |-> NoOp, type |-> "CLOCK_SUSPECT", clock |-> TRUE]
=============================================================================
